---------------------------- MODULE ErrorHandler ----------------------------
(***************************************************************************)
(* The XCP error handler (src/pyxcp/master/errorhandler.py, class          *)
(* Executor): every @wrapped method of Master runs in Executor.__call__,   *)
(* which catches the errors of the command, pushes the pre-actions the     *)
(* error matrix asks for on a stack of handlers, and repeats.              *)
(*                                                                         *)
(* A caller in one thread makes the calls of a script; an exception that   *)
(* leaves a call ends the script.  The transport is abstracted to what one *)
(* thread sees of it: request() returns the oldest response in resQueue,   *)
(* raises the error it carries, or times out.  The slave is external: it   *)
(* keeps the two pointers that commands advance (MTA, DAQ pointer), its    *)
(* memory, the ODT entries written and the number of allocated DAQ lists.  *)
(***************************************************************************)
EXTENDS ErrorMatrix, FiniteSets

CONSTANTS
  Scripts,          \* the sequences of calls a caller may make
  Addresses,        \* the memory of the slave: 0 .. n
  ConnectRetries,   \* general.connect_retries, or NoLimit for None
  MaxLosses,        \* bound: losses are counted up to this number
  MaxFailures,      \* bound: failures are counted up to this number
  MaxLate,          \* bound: answers that arrive after the time-out
  MaxRefusals,      \* bound: error responses of the slave ...
  Refusals          \* ... and what they may say

NoLimit == -1
NoMta == -1         \* Master.mta before the first setMta
IdAddress == 0      \* where GET_ID leaves the slave's MTA

Calls == [cmd : Commands, arg : Int]      \* arg: an address or a value
Responses == [pid : {"RES"} \cup Errors, to : Commands, val : Int]
Exceptions == {"UnrecoverableError", "SystemExit", "NotImplementedError",
               "XcpTimeoutError", "struct.error"}

ASSUME ScriptsAssumption == Scripts \subseteq Seq(Calls)
ASSUME AddressesAssumption == Addresses \subseteq Nat /\ IdAddress \in Addresses
ASSUME RetriesAssumption == ConnectRetries \in Nat \cup {NoLimit}
ASSUME BoundsAssumption ==
  /\ MaxLosses \in Nat /\ MaxFailures \in Nat \ {0} /\ MaxLate \in Nat /\ MaxRefusals \in Nat
  /\ Refusals \subseteq Errors \ {"TIMEOUT"}

VARIABLES
  script,           \* the calls to make
  results,          \* what the calls made so far have returned
  pc,               \* "idle", "execute", "handle" or the exception raised
  stack,            \* Executor.handlerStack, top first
  reply,            \* what handler.execute() returned or raised
  connectRetries,   \* the local connect_retries of Executor.__call__
  mta,              \* Master.mta
  resQueue,         \* responses that arrived after their request timed out
  slave,            \* the slave's mta, daqPtr, memory, odt, allocated
  losses,           \* requests and answers lost so far, counted to MaxLosses
  late, refusals,   \* late answers and refusals so far
  failures,         \* history: how often the current call's command failed ...
  timeouts,         \* ... and timed out
  firstError        \* history: the first error of the current call's command

faultVars == <<losses, late, refusals>>
history == <<failures, timeouts, firstError>>
vars == <<script, results, pc, stack, reply, connectRetries, mta, resQueue,
          slave, faultVars, history>>

Handlers == [cmd : Commands, arg : Int, repeater : NoRepeater .. 2]
Slaves == [mta : Int, daqPtr : Int, allocated : Int,
           memory : [Addresses -> Int], odt : [Addresses -> Int]]
Nothing == [pid |-> "RES", to |-> "SYNCH", val |-> 0]

TypeOK ==
  /\ script \in Scripts
  /\ results \in Seq(Responses) /\ Len(results) <= Len(script)
  /\ pc \in {"idle", "execute", "handle"} \cup Exceptions
  /\ stack \in Seq(Handlers)
  /\ stack # <<>> <=> pc \in {"execute", "handle"}
  /\ reply \in Responses
  /\ connectRetries \in Nat \cup {NoLimit}
  /\ mta \in Int
  /\ resQueue \in Seq(Responses)
  /\ slave \in Slaves
  /\ losses \in 0 .. MaxLosses /\ late \in 0 .. MaxLate
  /\ refusals \in 0 .. MaxRefusals
  /\ failures \in 0 .. MaxFailures /\ timeouts \in 0 .. failures
  /\ firstError \in Errors \cup {"none"}

Init ==
  /\ script \in Scripts
  /\ results = <<>>
  /\ pc = "idle"
  /\ stack = <<>>
  /\ reply = Nothing
  /\ connectRetries = NoLimit
  /\ mta = NoMta
  /\ resQueue = <<>>
  /\ slave = [mta |-> IdAddress, daqPtr |-> 0, allocated |-> 0,
              memory |-> [a \in Addresses |-> 0], odt |-> [a \in Addresses |-> 0]]
  /\ losses = 0 /\ late = 0 /\ refusals = 0
  /\ failures = 0 /\ timeouts = 0 /\ firstError = "none"

-----------------------------------------------------------------------------
(* External: what the slave does with a command, and its answer.           *)
Advance(a) == IF a + 1 \in Addresses THEN a + 1 ELSE a
Executed(h) ==
  CASE h.cmd = "SET_MTA" -> [slave EXCEPT !.mta = h.arg]
    [] h.cmd = "GET_ID" -> [slave EXCEPT !.mta = IdAddress]
    [] h.cmd = "UPLOAD" -> [slave EXCEPT !.mta = Advance(@)]
    [] h.cmd = "DOWNLOAD" -> [slave EXCEPT !.memory[slave.mta] = h.arg,
                                           !.mta = Advance(@)]
    [] h.cmd = "SET_DAQ_PTR" -> [slave EXCEPT !.daqPtr = h.arg]
    [] h.cmd = "WRITE_DAQ" -> [slave EXCEPT !.odt[slave.daqPtr] = h.arg,
                                            !.daqPtr = Advance(@)]
    [] h.cmd = "FREE_DAQ" -> [slave EXCEPT !.allocated = 0]
    [] h.cmd = "ALLOC_DAQ" /\ slave.allocated = 0 ->
         [slave EXCEPT !.allocated = h.arg]
    [] OTHER -> slave

Response(h, pid, val) == [pid |-> pid, to |-> h.cmd, val |-> val]
Answer(h) ==
  CASE h.cmd = "SYNCH" -> Response(h, "CMD_SYNCH", 0)
    [] h.cmd = "UPLOAD" -> Response(h, "RES", slave.mta)
    [] h.cmd = "ALLOC_DAQ" /\ slave.allocated # 0 -> Response(h, "SEQUENCE", 0)
    [] OTHER -> Response(h, "RES", 0)

(* request() takes the oldest response there is, or times out.             *)
Take(h, queue) ==
  IF queue = <<>>
    THEN reply' = Response(h, "TIMEOUT", 0) /\ resQueue' = <<>>
    ELSE reply' = Head(queue) /\ resQueue' = Tail(queue)

CountUp(n, max) == IF n < max THEN n + 1 ELSE n

(* External: the slave answers in time; refuses the command; the request   *)
(* or the answer is lost; or the answer comes after the time-out.          *)
Answered(h) ==
  /\ slave' = Executed(h)
  /\ Take(h, Append(resQueue, Answer(h)))
  /\ UNCHANGED faultVars
Refused(h) ==
  /\ refusals < MaxRefusals /\ refusals' = refusals + 1
  /\ \E e \in Refusals : Take(h, Append(resQueue, Response(h, e, 0)))
  /\ UNCHANGED <<slave, losses, late>>
Lost(h) ==
  /\ losses' = CountUp(losses, MaxLosses)
  /\ slave' \in {slave, Executed(h)}
  /\ Take(h, resQueue)
  /\ UNCHANGED <<late, refusals>>
Late(h) ==
  /\ late < MaxLate /\ late' = late + 1 /\ resQueue = <<>>
  /\ slave' = Executed(h)
  /\ reply' = Response(h, "TIMEOUT", 0) /\ resQueue' = <<Answer(h)>>
  /\ UNCHANGED <<losses, refusals>>
-----------------------------------------------------------------------------
(* HandlerStack.push: not if the same function and arguments are on top.   *)
Push(s, h) ==
  IF s # <<>> /\ Head(s).cmd = h.cmd /\ Head(s).arg = h.arg THEN s ELSE <<h>> \o s
Handler(cmd, arg) == [cmd |-> cmd, arg |-> arg, repeater |-> NoRepeater]

(* Handler.actions: the pre-actions that become handlers.  SET_DAQ_PTR     *)
(* builds its Function and does not append it.  A definition marked        *)
(* `Mutant' is a plausible mistake in the definition after it.             *)
PreActionForgotten(a) == IF a = "SYNCH" THEN <<Handler("SYNCH", 0)>> ELSE <<>>   \* Mutant
PreAction(a) ==
  CASE a = "SYNCH" -> <<Handler("SYNCH", 0)>>
    [] a = "SET_MTA" -> <<Handler("SET_MTA", mta)>>
    [] a = "REINIT_DAQ" -> <<Handler("FREE_DAQ", 0)>>
    [] OTHER -> <<>>

(* They are pushed in reverse, so that the first one is executed first; no *)
(* row has more than two.                                                  *)
PushAll(s, handlers) ==
  IF handlers = <<>> THEN s ELSE Push(s, Head(handlers))
PushReversed(s, a) ==
  LET second == PushAll(s, IF Len(a) < 2 THEN <<>> ELSE PreAction(a[2]))
  IN PushAll(second, IF a = <<>> THEN <<>> ELSE PreAction(Head(a)))

Main == stack[Len(stack)]
IsMain == Len(stack) = 1

RaiseUncleaned(exception) == pc' = exception /\ UNCHANGED stack   \* Mutant
Raise(exception) ==
  /\ pc' = exception
  /\ stack' = <<>>            \* the finally clause

(* The error the executor sees: the transport never raises the error       *)
(* response to SYNCH.                                                      *)
Failed(h) == reply.pid = "TIMEOUT" \/ (reply.pid # "RES" /\ h.cmd # "SYNCH")

(* "if handler.repeater is None: handler.repeater = repeater".             *)
RepeaterReplaced(h, row) == Repetitions(row.action)   \* Mutant
RepeaterOf(h, row) ==
  IF h.repeater = NoRepeater THEN Repetitions(row.action) ELSE h.repeater

(* The loop's return: "if self.handlerStack.empty()".                      *)
ReturnsAtOnce == TRUE   \* Mutant
Returns == IsMain

(* connect_retries, when CONNECT times out.                                *)
IsConnectTimeout == reply.pid = "TIMEOUT" /\ Main.cmd = "CONNECT" /\ connectRetries # NoLimit
RetriesKept == connectRetries   \* Mutant
RetriesLeft == IF IsConnectTimeout THEN connectRetries - 1 ELSE connectRetries
-----------------------------------------------------------------------------
(* A @wrapped method is called: Executor() makes a new, empty stack.       *)
Call ==
  /\ pc = "idle" /\ Len(results) < Len(script)
  /\ LET c == script[Len(results) + 1]
     IN stack' = Push(<<>>, Handler(c.cmd, c.arg))
  /\ connectRetries' = ConnectRetries
  /\ failures' = 0 /\ timeouts' = 0 /\ firstError' = "none"
  /\ pc' = "execute"
  /\ UNCHANGED <<script, results, reply, mta, resQueue, slave, faultVars>>

(* handler.execute(): setMta keeps track of the MTA, then the command is   *)
(* requested ...                                                           *)
Execute ==
  LET h == Head(stack)
  IN /\ pc = "execute"
     /\ h.cmd = "SET_MTA" => h.arg # NoMta
     /\ mta' = IF h.cmd = "SET_MTA" THEN h.arg ELSE mta
     /\ Answered(h) \/ Refused(h) \/ Lost(h) \/ Late(h)
     /\ pc' = "handle"
     /\ UNCHANGED <<script, results, stack, connectRetries, history>>

(* ... unless there is nothing to pack: setMta(None, None).                *)
ExecuteFails ==
  /\ pc = "execute" /\ Head(stack).cmd = "SET_MTA" /\ Head(stack).arg = NoMta
  /\ Raise("struct.error")
  /\ UNCHANGED <<script, results, reply, connectRetries, mta, resQueue, slave,
                 faultVars, history>>

(* The last handler on the stack has succeeded: its result is returned.    *)
Return ==
  /\ pc = "handle" /\ ~Failed(Head(stack)) /\ Returns
  /\ results' = Append(results, reply)
  /\ stack' = <<>>
  /\ pc' = "idle"
  /\ UNCHANGED <<script, reply, connectRetries, mta, resQueue, slave, faultVars, history>>

(* A pre-action has succeeded.  If it had failed before, its repeater is   *)
(* asked once more, and an exhausted one ends the call.                    *)
PreActionDone ==
  /\ pc = "handle" /\ ~Failed(Head(stack)) /\ ~Returns
  /\ LET r == Head(stack).repeater
     IN IF r # NoRepeater /\ ~CanRepeat(r)
          THEN Raise("UnrecoverableError")
          ELSE stack' = Tail(stack) /\ pc' = "execute"
  /\ UNCHANGED <<script, results, reply, connectRetries, mta, resQueue, slave,
                 faultVars, history>>

(* ERR_CMD_SYNCH: the handler is simply executed again.                    *)
Resynch ==
  /\ pc = "handle" /\ Failed(Head(stack)) /\ reply.pid = "CMD_SYNCH"
  /\ pc' = "execute"
  /\ UNCHANGED <<script, results, stack, reply, connectRetries, mta, resQueue,
                 slave, faultVars, history>>

Count ==
  IF IsMain
    THEN /\ failures' = CountUp(failures, MaxFailures)
         /\ timeouts' = IF reply.pid = "TIMEOUT" THEN CountUp(timeouts, MaxFailures)
                                                 ELSE timeouts
         /\ firstError' = IF failures = 0 THEN reply.pid ELSE firstError
    ELSE UNCHANGED history

(* Any other error, whose row the handler can follow: it is repeated after *)
(* the pre-actions, or given up.                                           *)
Handle ==
  LET h == Head(stack)
      row == Actions(h.cmd, reply.pid)
      r == RepeaterOf(h, row)
  IN /\ pc = "handle" /\ Failed(h) /\ reply.pid # "CMD_SYNCH"
     /\ ~(IsConnectTimeout /\ connectRetries = 0)
     /\ Count
     /\ connectRetries' = RetriesLeft
     /\ IF ~HasHandler(h.cmd, reply.pid) THEN Raise("SystemExit")
        ELSE IF \E i \in 1 .. Len(row.preActions) : row.preActions[i] \in NotImplemented
          THEN Raise("NotImplementedError")
        ELSE IF row.action \notin Repeating THEN Raise("SystemExit")
        ELSE IF ~CanRepeat(r) THEN Raise("UnrecoverableError")
        ELSE /\ stack' = PushReversed(<<[h EXCEPT !.repeater = CountDown(r)]>> \o Tail(stack),
                                      row.preActions)
             /\ pc' = "execute"
     /\ UNCHANGED <<script, results, reply, mta, resQueue, slave, faultVars>>

(* "Maximum CONNECT retries reached."                                      *)
ConnectGivenUp ==
  /\ pc = "handle" /\ IsConnectTimeout /\ connectRetries = 0
  /\ Count
  /\ Raise("XcpTimeoutError")
  /\ UNCHANGED <<script, results, reply, connectRetries, mta, resQueue, slave, faultVars>>

Next ==
  \/ Call \/ Execute \/ ExecuteFails
  \/ Return \/ PreActionDone \/ Resynch \/ Handle \/ ConnectGivenUp

Spec == Init /\ [][Next]_vars

(* One thread that is scheduled; every request returns or times out (see   *)
(* Transport).                                                             *)
FairSpec == Spec /\ WF_vars(Next)
-----------------------------------------------------------------------------
(* Where a transfer command of the script shall work: at the address the   *)
(* last setMta (setDaqPtr) gave, moved on by the transfers since.          *)
Sets(i, pointer) == script[i].cmd \in pointer
LastSet(i, pointer) ==
  CHOOSE j \in 0 .. i - 1 :
    /\ j = 0 \/ Sets(j, pointer)
    /\ \A k \in j + 1 .. i - 1 : ~Sets(k, pointer)
Place(i, pointer, moves) ==
  LET j == LastSet(i, pointer)
      start == IF j = 0 \/ script[j].cmd = "GET_ID" THEN IdAddress ELSE script[j].arg
      steps == {k \in j + 1 .. i - 1 : script[k].cmd \in moves}
  IN start + Cardinality(steps)
MtaOf(i) == Place(i, {"SET_MTA", "GET_ID"}, {"UPLOAD", "DOWNLOAD"})
DaqPtrOf(i) == Place(i, {"SET_DAQ_PTR"}, {"WRITE_DAQ"})
Done == 1 .. Len(results)

Transfer == {"UPLOAD", "DOWNLOAD"}
OneTransferPerSetMta ==
  \A i \in 1 .. Len(script) :
    script[i].cmd \in Transfer => i > 1 /\ script[i - 1].cmd = "SET_MTA"

(* What the pre-actions after a time-out need is there: an MTA to set      *)
(* again, and no pre-action the handler does not implement.                *)
AfterTimeout(c) ==
  LET a == Actions(c, "TIMEOUT").preActions IN {a[k] : k \in 1 .. Len(a)}
InOrder ==
  \A i \in 1 .. Len(script) :
    /\ AfterTimeout(script[i].cmd) \cap NotImplemented = {}
    /\ "SET_MTA" \in AfterTimeout(script[i].cmd) =>
         \E j \in 1 .. i - 1 : script[j].cmd = "SET_MTA"
    /\ script[i].cmd = "ALLOC_DAQ" => i > 1 /\ script[i - 1].cmd = "FREE_DAQ"

(* The calls that have returned have done their work: an UPLOAD has        *)
(* returned what is at its address, a DOWNLOAD has written its data there, *)
(* and nothing else in the memory has changed.                             *)
TransfersDone ==
  /\ \A i \in Done :
       /\ script[i].cmd = "UPLOAD" => results[i].val = MtaOf(i)
       /\ script[i].cmd = "DOWNLOAD" => slave.memory[MtaOf(i)] = script[i].arg
  /\ \A a \in Addresses : slave.memory[a] # 0 =>
       \E i \in 1 .. Len(script) :
         /\ script[i].cmd = "DOWNLOAD" /\ MtaOf(i) = a
         /\ i <= Len(results) + 1 /\ slave.memory[a] = script[i].arg

(* Whatever gets lost or refused on the way, a call that returns has done  *)
(* its work exactly if each transfer follows a setMta of its own and no    *)
(* answer comes after its time-out: the pre-actions of the matrix set the  *)
(* MTA again before a transfer is repeated.                                *)
TransferExact == OneTransferPerSetMta /\ late = 0 => TransfersDone

(* The same of the transfers of a fetch(), which are several after one     *)
(* setMta: Master.mta is what the error handling sets again.               *)
FetchExact == late = 0 => TransfersDone

(* The same of WRITE_DAQ and the ODT entries.                              *)
DaqExact ==
  \A i \in Done :
    script[i].cmd = "WRITE_DAQ" => slave.odt[DaqPtrOf(i)] = script[i].arg

(* A single lost frame, wherever it is lost, ends no call of a script in   *)
(* the protocol's order: the repetitions and pre-actions of the matrix     *)
(* recover every command from it (but see FetchExact and DaqExact for what *)
(* the recovery may cost), except DOWNLOAD_NEXT and PROGRAM_NEXT, whose    *)
(* pre-actions the handler does not implement.                             *)
LossesSurvived ==
  InOrder /\ losses <= 1 /\ late = 0 /\ refusals = 0 => pc \notin Exceptions

(* Every call returns the answer to its own command, never that of a       *)
(* pre-action, as long as no answer comes after its time-out.              *)
ResultIsMain == late = 0 => \A i \in Done : results[i].to = script[i].cmd

(* A command is repeated as often as the row of its first error says and   *)
(* no more, whatever errors follow; and CONNECT times out at most          *)
(* connect_retries + 1 times.                                              *)
CurrentCommand == script[Len(results) + 1].cmd
RepetitionBound ==
  pc # "idle" /\ firstError # "none" /\ HasHandler(CurrentCommand, firstError) =>
    LET r == Repetitions(Actions(CurrentCommand, firstError).action)
    IN r # Infinite => failures <= r + 1
ConnectBound ==
  pc # "idle" /\ CurrentCommand = "CONNECT" /\ ConnectRetries # NoLimit =>
    timeouts <= ConnectRetries + 1

(* Every call ends, however many requests and answers get lost, as long as *)
(* CONNECT is limited, unless the slave has once said that it is busy:     *)
(* then time-outs are repeated for ever, too.                              *)
Running == pc \in {"execute", "handle"}
SaidBusy == \E i \in 1 .. Len(stack) :
              stack[i].repeater = Infinite /\ stack[i].cmd # "CONNECT"
CallsEnd == Running ~> ~Running \/ SaidBusy
=============================================================================
