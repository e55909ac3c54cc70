----------------------------- MODULE Transport -----------------------------
(***************************************************************************)
(* The command channel of pyxcp's transport layer                          *)
(* (src/pyxcp/transport/base.py, class BaseTransport).                     *)
(*                                                                         *)
(* Client threads send command frames and wait for the answers in          *)
(* resQueue; one listener thread takes the frames of the slave from the    *)
(* wire, puts the responses into resQueue and extends the time-out of the  *)
(* waiting request while the slave shows that it is alive.                 *)
(*                                                                         *)
(* The data of a frame is abstracted to its number (counter_send at the    *)
(* time it was sent), the data of a response to its PID and the number of  *)
(* the frame it answers.  Nothing in the real PDU carries that number:     *)
(* it is the model's way to say which answer belongs to which command.     *)
(*                                                                         *)
(* Time is a count of ticks; Timeout is the time-out in ticks.  The slave  *)
(* and the wire between it and the listener are external: the slave        *)
(* answers in the order of the commands, late or never.                    *)
(***************************************************************************)
EXTENDS Integers, Sequences

CONSTANTS
  Clients,        \* the threads that call request(), block_request(), ...
  NoClient,       \* "nobody holds the lock"
  Timeout,        \* self.timeout, in ticks
  MaxFrames,      \* bound: how many command frames are sent
  UploadParts,    \* number of responses a block mode UPLOAD is answered with
  Uses            \* the ways a program may use the transport

AllOps == {"request", "optional", "synch", "upload", "block"}

ASSUME NoClientAssumption == NoClient \notin Clients
ASSUME BoundsAssumption ==
  /\ Timeout \in Nat /\ MaxFrames \in Nat
  /\ UploadParts \in Nat /\ UploadParts > 1

ASSUME UsesAssumption ==
  Uses \subseteq [clients : SUBSET Clients, ops : SUBSET AllOps,
                 frames : 0 .. MaxFrames, events : Nat, daq : BOOLEAN]

Frames == 1 .. MaxFrames
PDUs == [pid : {"RES", "ERR"}, to : Frames]
LogEntries == [cat : {"CMD", "RESPONSE", "ERROR", "METADATA"}, to : Frames]

VARIABLES
  use,            \* which threads make which calls, and whether DAQ lists
                  \* run; bounds: frames sent, EV_CMD_PENDING events
  pc,             \* pc[c]: where client c is
  op,             \* op[c]: the call it is in
  own,            \* own[c]: the number of the frame it sent last
  received,       \* received[c]: responses collected for an upload
  elapsed,        \* elapsed[c]: ticks since c's `start`
  commandLock,    \* the holder of command_lock
  condition,      \* the client that keeps resQueue_condition locked
  resQueue,       \* resQueue
  timerRestart,   \* timer_restart_event
  counterSend,    \* framing.counter_send
  unfed,          \* responses the listener has queued and not yet fed
  policyLog,      \* what the frame policy was fed: CMD, RESPONSE, ...
  owed,           \* owed[n]: responses the slave may still send for frame n
  events,         \* EV_CMD_PENDING events sent so far
  quiet,          \* history: ticks since a sign of life that could be seen
  handed,         \* history: the responses taken from resQueue, by whom
  abandoned       \* history: frames whose answer nobody waits for

clientVars == <<pc, op, own, received, elapsed>>
lockVars == <<commandLock, condition>>
slaveVars == <<owed, events>>
history == <<quiet, handed, abandoned>>
vars == <<use, clientVars, lockVars, resQueue, timerRestart, counterSend,
          unfed, policyLog, slaveVars, history>>

(* One pass of get()'s loop over an empty queue, under resQueue_condition.  *)
Passes == {"restart", "clear", "clock"}
Places == {"idle", "send", "get", "pop", "receive", "check", "block"} \cup Passes

TypeOK ==
  /\ use \in Uses
  /\ pc \in [Clients -> Places]
  /\ op \in [Clients -> AllOps]
  /\ own \in [Clients -> 0 .. MaxFrames]
  /\ received \in [Clients -> 0 .. UploadParts]
  /\ elapsed \in [Clients -> 0 .. Timeout + 1]
  /\ commandLock \in Clients \cup {NoClient}
  /\ condition \in Clients \cup {NoClient}
  /\ resQueue \in Seq(PDUs)
  /\ timerRestart \in BOOLEAN
  /\ counterSend \in 0 .. MaxFrames
  /\ unfed \in Seq(PDUs)
  /\ policyLog \in Seq(LogEntries)
  /\ owed \in [Frames -> 0 .. UploadParts]
  /\ events \in 0 .. use.events
  /\ quiet \in 0 .. Timeout + 1
  /\ handed \subseteq [op : AllOps, own : 0 .. MaxFrames, to : Frames]
  /\ abandoned \subseteq Frames

Init ==
  /\ use \in Uses
  /\ pc = [c \in Clients |-> "idle"]
  /\ op = [c \in Clients |-> "request"]
  /\ own = [c \in Clients |-> 0]
  /\ received = [c \in Clients |-> 0]
  /\ elapsed = [c \in Clients |-> 0]
  /\ commandLock = NoClient
  /\ condition = NoClient
  /\ resQueue = <<>>
  /\ timerRestart = FALSE
  /\ counterSend = 0
  /\ unfed = <<>>
  /\ policyLog = <<>>
  /\ owed = [n \in Frames |-> 0]
  /\ events = 0
  /\ quiet = 0
  /\ handed = {}
  /\ abandoned = {}

Goto(c, l) == pc' = [pc EXCEPT ![c] = l]
(* The call returns or raises: its local variables are gone.               *)
Return(c) ==
  /\ Goto(c, "idle")
  /\ op' = [op EXCEPT ![c] = "request"]
  /\ own' = [own EXCEPT ![c] = 0]
  /\ received' = [received EXCEPT ![c] = 0]
  /\ elapsed' = [elapsed EXCEPT ![c] = 0]

(* "with self.command_lock".  A definition marked `Mutant' is a plausible   *)
(* mistake in the definition after it; no action uses it.                  *)
CommandLockIgnored == TRUE   \* Mutant
CommandLockFree == commandLock = NoClient
UnlockForgotten == commandLock' = commandLock   \* Mutant
Unlock == commandLock' = NoClient

(* "start = self.timestamp.value".                                         *)
StartClockForgotten(c) == elapsed' = elapsed   \* Mutant
StartClock(c) == elapsed' = [elapsed EXCEPT ![c] = 0]
Expired(c) == elapsed[c] > Timeout

(* What the caller of request() makes of the response it has taken.        *)
Raises(c, pdu) == pdu.pid = "ERR" /\ op[c] # "synch"
GoesOn(c, pdu) == op[c] = "upload" /\ ~Raises(c, pdu)
LengthIgnored(c) == FALSE   \* Mutant
LengthReached(c) == received[c] + 1 = UploadParts

(* block_request: "if self.resQueue".                                      *)
ResponseWaits == resQueue # <<>>

(* The one listener thread is not in the middle of a response.             *)
ListenerOverlaps == TRUE   \* Mutant
ListenerFree == unfed = <<>>

Feed(cat, n) == policyLog' = Append(policyLog, [cat |-> cat, to |-> n])
Hand(c, pdu) ==
  handed' = handed \cup {[op |-> op[c], own |-> own[c], to |-> pdu.to]}
Abandon(n) == abandoned' = abandoned \cup {n}

-----------------------------------------------------------------------------
(* _request_internal: the thread takes command_lock, builds the frame and  *)
(* feeds it to the policy ...                                              *)
RequestPrepare(c, o) ==
  /\ pc[c] = "idle"
  /\ CommandLockFree /\ counterSend < use.frames
  /\ commandLock' = c
  /\ counterSend' = counterSend + 1
  /\ own' = [own EXCEPT ![c] = counterSend + 1]
  /\ op' = [op EXCEPT ![c] = o]
  /\ Feed("CMD", counterSend + 1)
  /\ Goto(c, "send")
  /\ UNCHANGED <<received, elapsed, condition, resQueue, timerRestart,
                 unfed, slaveVars, history>>

(* ... and sends it; get() then starts its clock.                          *)
RequestSend(c) ==
  /\ pc[c] = "send"
  /\ owed' = [owed EXCEPT ![own[c]] = IF op[c] = "upload" THEN UploadParts ELSE 1]
  /\ StartClock(c)
  /\ Goto(c, "get")
  /\ UNCHANGED <<op, own, received, lockVars, resQueue, timerRestart,
                 counterSend, unfed, policyLog, events, history>>

(* send() raises (socket closed, bus error): the lock is released and the  *)
(* exception leaves _request_internal.                                     *)
RequestSendFails(c) ==
  /\ pc[c] = "send"
  /\ Unlock
  /\ Abandon(own[c])
  /\ Return(c)
  /\ UNCHANGED <<condition, resQueue, timerRestart,
                 counterSend, unfed, policyLog, slaveVars, quiet, handed>>

(* A pass of get()'s loop over an empty queue: is timer_restart_event set? *)
GetTest(c) ==
  /\ pc[c] = "get" /\ condition = NoClient /\ resQueue = <<>>
  /\ condition' = c
  /\ Goto(c, IF timerRestart THEN "restart" ELSE "clock")
  /\ UNCHANGED <<op, own, received, elapsed, commandLock, resQueue, timerRestart,
                 counterSend, unfed, policyLog, slaveVars, history>>

(* Then the clock starts again, and after that the event is cleared; the   *)
(* listener shares no lock with these steps and may set it in between.     *)
GetRestart(c) ==
  /\ pc[c] = "restart"
  /\ StartClock(c)
  /\ Goto(c, "clear")
  /\ UNCHANGED <<op, own, received, lockVars, resQueue, timerRestart, counterSend,
                 unfed, policyLog, slaveVars, history>>
GetClear(c) ==
  /\ pc[c] = "clear"
  /\ timerRestart' = FALSE
  /\ Goto(c, "clock")
  /\ UNCHANGED <<op, own, received, elapsed, lockVars, resQueue, counterSend,
                 unfed, policyLog, slaveVars, history>>

(* The clock is past the time-out: EmptyFrameError, turned into            *)
(* XcpTimeoutError unless the response was optional.                       *)
GetTimeout(c) ==
  /\ pc[c] = "clock" /\ Expired(c)
  /\ condition' = NoClient /\ Unlock
  /\ Return(c)
  /\ Abandon(own[c])
  /\ IF op[c] = "optional" THEN UNCHANGED policyLog ELSE Feed("METADATA", own[c])
  /\ UNCHANGED <<resQueue, timerRestart, counterSend, unfed, slaveVars, quiet, handed>>

(* It is not: the thread waits, without resQueue_condition.  An event that *)
(* is still set will be seen by the next pass.                             *)
GetWait(c) ==
  /\ pc[c] = "clock" /\ ~Expired(c)
  /\ condition' = NoClient
  /\ Goto(c, "get")
  /\ quiet' = IF timerRestart THEN 0 ELSE quiet
  /\ UNCHANGED <<op, own, received, elapsed, commandLock, resQueue, timerRestart,
                 counterSend, unfed, policyLog, slaveVars, handed, abandoned>>

(* The loop ends because the queue is not empty; the thread still holds    *)
(* resQueue_condition ...                                                  *)
GetItem(c) ==
  /\ pc[c] = "get" /\ condition = NoClient /\ resQueue # <<>>
  /\ condition' = c
  /\ Goto(c, "pop")
  /\ UNCHANGED <<op, own, received, elapsed, commandLock, resQueue, timerRestart,
                 counterSend, unfed, policyLog, slaveVars, history>>

(* ... and takes the oldest response, whatever it answers.  An ERR         *)
(* response is raised (XcpResponseError), except to SYNCH.  A block mode   *)
(* UPLOAD goes on in block_receive(), without command_lock.                *)
GetPop(c) ==
  LET pdu == Head(resQueue)
  IN /\ pc[c] = "pop" /\ resQueue # <<>>
     /\ resQueue' = Tail(resQueue)
     /\ condition' = NoClient
     /\ Unlock
     /\ Hand(c, pdu)
     /\ abandoned' = abandoned \cup ({own[c]} \ {pdu.to})
     /\ IF Raises(c, pdu) THEN Feed("ERROR", pdu.to) ELSE UNCHANGED policyLog
     /\ IF GoesOn(c, pdu)
          THEN /\ Goto(c, "receive")
               /\ received' = [received EXCEPT ![c] = 1]
               /\ StartClock(c)
               /\ UNCHANGED <<op, own>>
          ELSE Return(c)
     /\ UNCHANGED <<timerRestart, counterSend, unfed, slaveVars, quiet>>

(* popleft() on a queue another thread has emptied: IndexError.            *)
GetPopEmpty(c) ==
  /\ pc[c] = "pop" /\ resQueue = <<>>
  /\ condition' = NoClient
  /\ Unlock
  /\ Abandon(own[c])
  /\ Return(c)
  /\ UNCHANGED <<resQueue, timerRestart, counterSend,
                 unfed, policyLog, slaveVars, quiet, handed>>
-----------------------------------------------------------------------------
(* block_receive: whatever is in the queue counts as a part of the answer; *)
(* the PID is not looked at.                                               *)
ReceivePart(c) ==
  /\ pc[c] = "receive" /\ condition = NoClient /\ resQueue # <<>>
  /\ resQueue' = Tail(resQueue)
  /\ Hand(c, Head(resQueue))
  /\ IF LengthReached(c)
       THEN Return(c)
       ELSE /\ received' = [received EXCEPT ![c] = @ + 1]
            /\ UNCHANGED <<pc, op, own, elapsed>>
  /\ UNCHANGED <<lockVars, timerRestart, counterSend, unfed,
                 policyLog, slaveVars, quiet, abandoned>>

(* Its time-out: unlike get() it never looks at timer_restart_event.       *)
ReceiveTimeout(c) ==
  /\ pc[c] = "receive" /\ condition = NoClient /\ resQueue = <<>>
  /\ Expired(c)
  /\ Abandon(own[c])
  /\ Return(c)
  /\ UNCHANGED <<lockVars, resQueue, timerRestart,
                 counterSend, unfed, policyLog, slaveVars, quiet, handed>>

-----------------------------------------------------------------------------
(* block_request looks at the queue without any lock ...                   *)
BlockCheck(c) ==
  /\ pc[c] = "idle" /\ counterSend < use.frames
  /\ op' = [op EXCEPT ![c] = "block"]
  /\ own' = [own EXCEPT ![c] = 0]
  /\ Goto(c, IF ResponseWaits THEN "check" ELSE "block")
  /\ UNCHANGED <<received, elapsed, lockVars, resQueue, timerRestart, counterSend,
                 unfed, policyLog, slaveVars, history>>

(* ... takes a response: an ERR is raised, anything else is dropped ...    *)
BlockPop(c) ==
  /\ pc[c] = "check" /\ resQueue # <<>>
  /\ resQueue' = Tail(resQueue)
  /\ Hand(c, Head(resQueue))
  /\ IF Head(resQueue).pid = "ERR"
       THEN Return(c)
       ELSE Goto(c, "block") /\ UNCHANGED <<op, own, received, elapsed>>
  /\ UNCHANGED <<lockVars, timerRestart, counterSend,
                 unfed, policyLog, slaveVars, quiet, abandoned>>

(* ... or fails with IndexError if another thread was faster ...           *)
BlockPopEmpty(c) ==
  /\ pc[c] = "check" /\ resQueue = <<>>
  /\ Return(c)
  /\ UNCHANGED <<lockVars, resQueue, timerRestart,
                 counterSend, unfed, policyLog, slaveVars, history>>

(* ... and sends the frame under command_lock, waiting for no answer.      *)
BlockSend(c) ==
  /\ pc[c] = "block" /\ CommandLockFree
  /\ IF counterSend < use.frames
       THEN /\ counterSend' = counterSend + 1
            /\ Feed("CMD", counterSend + 1)
            /\ owed' = [owed EXCEPT ![counterSend + 1] = 1]
            /\ Abandon(counterSend + 1)
       ELSE UNCHANGED <<counterSend, policyLog, owed, abandoned>>
  /\ Return(c)
  /\ UNCHANGED <<lockVars, resQueue, timerRestart,
                 unfed, events, quiet, handed>>

-----------------------------------------------------------------------------
(* process_response, PID >= 0xFE: the listener appends the response under  *)
(* resQueue_condition and wakes the waiting thread ...                     *)
ListenerResponse(n) ==
  /\ ListenerFree /\ condition = NoClient
  /\ owed[n] > 0
  /\ \A m \in Frames : m < n => owed[m] = 0
  /\ \E pid \in {"RES", "ERR"} :
       /\ resQueue' = Append(resQueue, [pid |-> pid, to |-> n])
       /\ unfed' = Append(unfed, [pid |-> pid, to |-> n])
       /\ owed' = [owed EXCEPT ![n] = IF pid = "ERR" THEN 0 ELSE @ - 1]
  /\ UNCHANGED <<clientVars, lockVars, timerRestart, counterSend, policyLog,
                 events, history>>

(* ... and only then feeds it to the policy.                               *)
ListenerFeed ==
  /\ unfed # <<>>
  /\ Feed("RESPONSE", Head(unfed).to)
  /\ unfed' = Tail(unfed)
  /\ UNCHANGED <<clientVars, lockVars, resQueue, timerRestart, counterSend,
                 slaveVars, history>>

(* timer_restart_event is set.  A thread that is past its test does not    *)
(* see that: it clears the event, or looks only at its clock.              *)
Overlooked == \E c \in Clients : pc[c] \in {"clear", "clock"}
SignOfLife ==
  /\ timerRestart' = TRUE
  /\ quiet' = IF Overlooked THEN quiet ELSE 0

(* process_event_packet: TransportEventHandler handles EV_CMD_PENDING.     *)
ListenerEvent ==
  /\ ListenerFree /\ events < use.events
  /\ events' = events + 1
  /\ SignOfLife
  /\ UNCHANGED <<clientVars, lockVars, resQueue, counterSend, unfed,
                 policyLog, owed, handed, abandoned>>

(* process_response, a DTO: the slave is alive, the clock shall restart.   *)
ListenerDaq ==
  /\ ListenerFree /\ use.daq
  /\ SignOfLife
  /\ UNCHANGED <<clientVars, lockVars, resQueue, counterSend, unfed,
                 policyLog, slaveVars, handed, abandoned>>

(* External: the slave does not answer, or the answer is lost.             *)
AnswerLost(n) ==
  /\ owed[n] > 0
  /\ owed' = [owed EXCEPT ![n] = 0]
  /\ UNCHANGED <<clientVars, lockVars, resQueue, timerRestart, counterSend,
                 unfed, policyLog, events, history>>

(* Time passes for every waiting thread (saturating just past Timeout).    *)
NextTick(t) == IF t > Timeout THEN t ELSE t + 1
Waiting == {c \in Clients : pc[c] \in {"get", "receive"} \cup Passes}
Tick ==
  /\ \E c \in Waiting : elapsed[c] <= Timeout
  /\ elapsed' = [c \in Clients |-> IF c \in Waiting THEN NextTick(elapsed[c])
                                                    ELSE elapsed[c]]
  /\ quiet' = NextTick(quiet)
  /\ UNCHANGED <<pc, op, own, received, lockVars, resQueue, timerRestart,
                 counterSend, unfed, policyLog, slaveVars, handed, abandoned>>

-----------------------------------------------------------------------------
Call(c) ==
  /\ c \in use.clients
  /\ \/ \E o \in use.ops \ {"block"} : RequestPrepare(c, o)
     \/ "block" \in use.ops /\ BlockCheck(c)

(* What a thread inside a call does; sending may also fail.                *)
Proceed(c) ==
  \/ RequestSend(c)
  \/ GetTest(c) \/ GetRestart(c) \/ GetClear(c) \/ GetTimeout(c) \/ GetWait(c)
  \/ GetItem(c) \/ GetPop(c) \/ GetPopEmpty(c)
  \/ ReceivePart(c) \/ ReceiveTimeout(c)
  \/ BlockPop(c) \/ BlockPopEmpty(c) \/ BlockSend(c)

Listen ==
  \/ ListenerFeed \/ ListenerEvent \/ ListenerDaq
  \/ \E n \in Frames : ListenerResponse(n)

Step ==
  \/ \E c \in Clients : Call(c) \/ Proceed(c) \/ RequestSendFails(c)
  \/ Listen
  \/ \E n \in Frames : AnswerLost(n)
  \/ Tick

(* How the program uses the transport does not change.                     *)
Next == Step /\ UNCHANGED use

Spec == Init /\ [][Next]_vars

(* The scheduler runs every thread that can run and the clock ticks;       *)
(* nothing is assumed of the slave.                                        *)
Fairness ==
  /\ \A c \in Clients : WF_vars(Proceed(c) /\ UNCHANGED use)
  /\ WF_vars(ListenerFeed /\ UNCHANGED use)
  /\ WF_vars(Tick /\ UNCHANGED use)

FairSpec == Spec /\ Fairness
-----------------------------------------------------------------------------
(* How the threads must use one transport for the answers to stay in       *)
(* order: block transfers only while a single thread uses it.              *)
PlainUse == use.ops \subseteq {"request", "optional", "synch"}
Discipline == PlainUse \/ \A c, d \in use.clients : c = d

(* A thread that takes a response from resQueue takes the answer to the    *)
(* command it sent itself, or one that nobody waits for any more (the      *)
(* answer to a command that timed out, was taken for another one, or was   *)
(* sent by block_request).  Never the answer another thread waits for; and *)
(* before anything has been abandoned, always its own.  (This and the end  *)
(* of the next property need the discipline above.)                        *)
OwnAnswers == \A h \in handed : h.to = h.own \/ h.to \in abandoned
NoTheft == Discipline => OwnAnswers

(* command_lock is held exactly by the thread between sending a command    *)
(* and having its answer, and resQueue_condition by the thread in a pass   *)
(* of get() or about to pop, which therefore finds something: no           *)
(* IndexError leaves get() or block_request().                             *)
Locks ==
  \A c \in Clients :
    /\ (commandLock = c) <=> (pc[c] \in {"send", "get", "pop"} \cup Passes)
    /\ (condition = c) <=> (pc[c] \in {"pop"} \cup Passes)
PopsFind == \A c \in Clients : pc[c] \in {"pop", "check"} => resQueue # <<>>
Locked == Locks /\ (Discipline => PopsFind)

(* The policy (the recorder) sees a response after the command it answers, *)
(* and, since the listener feeds it only after waking the waiting thread,  *)
(* perhaps after the next command; but never after two later commands.     *)
Recorded(cat, i, n) == policyLog[i] = [cat |-> cat, to |-> n]
RecordOrder ==
  \A n \in Frames, i, j \in 1 .. Len(policyLog) :
    Recorded("CMD", i, n) /\ Recorded("RESPONSE", j, n) =>
      /\ i < j
      /\ abandoned = {} =>
           \A k, l \in i + 1 .. j - 1 :
             policyLog[k].cat = "CMD" /\ policyLog[l].cat = "CMD" => k = l

TimedOut(c, l) ==
  pc[c] = l /\ pc'[c] = "idle" /\ own[c] \in abandoned' /\ resQueue' = resQueue

(* request() reports a time-out only while no response is in the queue and *)
(* after more than `timeout` without a sign of life that it could see: an  *)
(* EV_CMD_PENDING event or a DTO gives the slave the whole time again, to  *)
(* whatever request the event was left over from, unless the listener sets *)
(* the event between its test and the end of that pass (base.py 170-175):  *)
(* it is lost if it is cleared then, or if the request times out then.     *)
NoFalseTimeout ==
  [][\A c \in Clients :
       TimedOut(c, "clock") => quiet > Timeout /\ resQueue = <<>>]_vars

(* Every call ends with an answer, an error or a time-out, unless DTOs     *)
(* keep coming: each of them restarts the clock of the waiting request.    *)
DtosEnd == <>[][~ListenerDaq]_vars
CallsEnd == DtosEnd => \A c \in Clients : (pc[c] # "idle") ~> (pc[c] = "idle")

(* SYNCH synchronizes command execution after time-outs: once a SYNCH has  *)
(* been answered, no later command is given the answer to the SYNCH or to  *)
(* a command before it.                                                    *)
SynchFlushes ==
  \A s, h \in handed : s.op = "synch" /\ s.own < h.own => h.to > s.own
=============================================================================
