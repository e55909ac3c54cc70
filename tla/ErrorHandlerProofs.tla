-------------------------- MODULE ErrorHandlerProofs --------------------------
(***************************************************************************)
(* Theorems about ErrorHandler, for every script, address space and bound: *)
(* first what bounds a call and whose result it returns, then that         *)
(* transfers do their work at the right place whatever gets lost, then     *)
(* that a single lost frame ends no call.                                  *)
(***************************************************************************)
EXTENDS ErrorHandler, FiniteSetTheorems, TLAPS

-----------------------------------------------------------------------------
(* Pushing handlers never touches the one at the bottom of the stack, the  *)
(* handler of the command the caller asked for.                            *)
Bottom(s) == s[Len(s)]

LEMMA PushBottom ==
  ASSUME NEW s \in Seq(Handlers), s # <<>>, NEW h \in Handlers
  PROVE  /\ Push(s, h) \in Seq(Handlers) /\ Push(s, h) # <<>>
         /\ Bottom(Push(s, h)) = Bottom(s)
<1>1. CASE Push(s, h) = s
  BY <1>1
<1>2. CASE Push(s, h) = <<h>> \o s
  <2> DEFINE t == <<h>> \o s
  <2>1. <<h>> \in Seq(Handlers) /\ Len(<<h>>) = 1
    OBVIOUS
  <2>2. t \in Seq(Handlers) /\ Len(t) = Len(s) + 1 /\ Len(s) >= 1
    BY <2>1
  <2>3. t[Len(t)] = s[Len(s)]
    BY <2>1, <2>2
  <2> QED  BY <1>2, <2>2, <2>3 DEF Bottom
<1> QED  BY <1>1, <1>2 DEF Push

LEMMA PushAllBottom ==
  ASSUME NEW s \in Seq(Handlers), s # <<>>, NEW hs \in Seq(Handlers)
  PROVE  /\ PushAll(s, hs) \in Seq(Handlers) /\ PushAll(s, hs) # <<>>
         /\ Bottom(PushAll(s, hs)) = Bottom(s)
<1>1. CASE hs = <<>>
  BY <1>1 DEF PushAll
<1>2. CASE hs # <<>>
  <2>1. Head(hs) \in Handlers
    BY <1>2
  <2> QED  BY <1>2, <2>1, PushBottom DEF PushAll
<1> QED  BY <1>1, <1>2

LEMMA PreActionHandlers ==
  ASSUME NEW a, mta \in Int
  PROVE  PreAction(a) \in Seq(Handlers)
<1>1. \A c \in Commands, n \in Int : Handler(c, n) \in Handlers
  BY DEF Handler, Handlers, NoRepeater
<1>2. {"SYNCH", "SET_MTA", "FREE_DAQ"} \subseteq Commands
  BY DEF Commands
<1> QED  BY <1>1, <1>2 DEF PreAction

LEMMA PushReversedBottom ==
  ASSUME NEW s \in Seq(Handlers), s # <<>>, NEW a, mta \in Int
  PROVE  /\ PushReversed(s, a) \in Seq(Handlers) /\ PushReversed(s, a) # <<>>
         /\ Bottom(PushReversed(s, a)) = Bottom(s)
<1> DEFINE hs2 == IF Len(a) < 2 THEN <<>> ELSE PreAction(a[2])
           hs1 == IF a = <<>> THEN <<>> ELSE PreAction(Head(a))
           t == PushAll(s, hs2)
<1>1. hs1 \in Seq(Handlers) /\ hs2 \in Seq(Handlers)
  BY PreActionHandlers
<1>2. t \in Seq(Handlers) /\ t # <<>> /\ Bottom(t) = Bottom(s)
  BY <1>1, PushAllBottom
<1>3. /\ PushAll(t, hs1) \in Seq(Handlers) /\ PushAll(t, hs1) # <<>>
      /\ Bottom(PushAll(t, hs1)) = Bottom(t)
  <2> HIDE DEF t, hs1
  <2> QED  BY <1>1, <1>2, PushAllBottom
<1>4. PushReversed(s, a) = PushAll(t, hs1)
  BY DEF PushReversed
<1> QED  BY <1>2, <1>3, <1>4

-----------------------------------------------------------------------------
(* Types of what the slave does and answers.                               *)
LEMMA ResponseType ==
  ASSUME NEW h \in Handlers, NEW p \in {"RES"} \cup Errors, NEW v \in Int
  PROVE  Response(h, p, v) \in Responses
BY DEF Response, Responses, Handlers

LEMMA AnswerType ==
  ASSUME NEW h \in Handlers, slave \in Slaves
  PROVE  Answer(h) \in Responses
<1>1. {"CMD_SYNCH", "SEQUENCE", "RES"} \subseteq {"RES"} \cup Errors
  BY DEF Errors
<1>2. slave.mta \in Int
  BY DEF Slaves
<1> QED  BY <1>1, <1>2, ResponseType DEF Answer

LEMMA ExecutedType ==
  ASSUME NEW h \in Handlers, slave \in Slaves
  PROVE  Executed(h) \in Slaves
<1>1. h.arg \in Int
  BY DEF Handlers
<1>2. /\ IdAddress \in Int /\ 0 \in Int
      /\ \A a \in Int : Advance(a) \in Int
  BY DEF IdAddress, Advance
<1>3. /\ slave.mta \in Int /\ slave.daqPtr \in Int
      /\ slave.memory \in [Addresses -> Int] /\ slave.odt \in [Addresses -> Int]
  BY DEF Slaves
<1>4. \A f \in [Addresses -> Int], a, v \in Int : [f EXCEPT ![a] = v] \in [Addresses -> Int]
  OBVIOUS
<1>5. \A v \in Int : [slave EXCEPT !.mta = v] \in Slaves
  BY DEF Slaves
<1>6. \A v \in Int : [slave EXCEPT !.daqPtr = v] \in Slaves
  BY DEF Slaves
<1>7. \A v \in Int : [slave EXCEPT !.allocated = v] \in Slaves
  BY DEF Slaves
<1>8. [slave EXCEPT !.memory[slave.mta] = h.arg, !.mta = Advance(@)] \in Slaves
  BY <1>1, <1>2, <1>3 DEF Slaves
<1>9. [slave EXCEPT !.odt[slave.daqPtr] = h.arg, !.daqPtr = Advance(@)] \in Slaves
  BY <1>1, <1>2, <1>3 DEF Slaves
<1>10. [slave EXCEPT !.mta = Advance(@)] \in Slaves
  BY <1>2, <1>3, <1>5
<1> QED  BY <1>1, <1>2, <1>5, <1>6, <1>7, <1>8, <1>9, <1>10 DEF Executed

LEMMA TakeType ==
  ASSUME NEW h \in Handlers, NEW q \in Seq(Responses), Take(h, q)
  PROVE  reply' \in Responses /\ resQueue' \in Seq(Responses)
<1>1. Response(h, "TIMEOUT", 0) \in Responses
  BY ResponseType DEF Errors
<1> QED  BY <1>1 DEF Take

LEMMA RepetitionsRange ==
  \A a : Repetitions(a) \in Infinite .. 2
BY DEF Repetitions, Infinite

(* What is left of a repeater that repeats once more.                      *)
LEMMA RepeaterStep ==
  ASSUME NEW h \in Handlers, NEW row, CanRepeat(RepeaterOf(h, row))
  PROVE  LET r == RepeaterOf(h, row)
         IN /\ r \in Infinite .. 2
            /\ r = Infinite => CountDown(r) = Infinite
            /\ r # Infinite => CountDown(r) \in 0 .. 1 /\ CountDown(r) = r - 1
            /\ [h EXCEPT !.repeater = CountDown(r)] \in Handlers
<1> DEFINE r == RepeaterOf(h, row)
<1>1. r \in Infinite .. 2
  BY RepetitionsRange DEF RepeaterOf, Handlers, Infinite, NoRepeater
<1>2. r = Infinite \/ r \in 1 .. 2
  BY <1>1 DEF CanRepeat, Infinite
<1>3. CountDown(r) \in Infinite .. 1
  BY <1>2 DEF CountDown, Infinite
<1>4. [h EXCEPT !.repeater = CountDown(r)] \in Handlers
  <2> HIDE DEF r
  <2> QED  BY <1>3 DEF Handlers, Infinite, NoRepeater
<1> QED  BY <1>1, <1>2, <1>4 DEF CountDown, Infinite

LEMMA ReplaceTop ==
  ASSUME NEW s \in Seq(Handlers), s # <<>>, NEW g \in Handlers
  PROVE  LET t == <<g>> \o Tail(s)
         IN /\ t \in Seq(Handlers) /\ t # <<>>
            /\ Bottom(t) = IF Len(s) = 1 THEN g ELSE Bottom(s)
<1> DEFINE t == <<g>> \o Tail(s)
<1>1. Tail(s) \in Seq(Handlers) /\ Len(Tail(s)) = Len(s) - 1 /\ Len(s) \in Nat /\ Len(s) >= 1
  OBVIOUS
<1>2. <<g>> \in Seq(Handlers) /\ Len(<<g>>) = 1 /\ <<g>>[1] = g
  OBVIOUS
<1>3. t \in Seq(Handlers) /\ Len(t) = Len(s)
  BY <1>1, <1>2
<1>4. t[1] = g /\ \A i \in 1 .. Len(Tail(s)) : t[i + 1] = Tail(s)[i]
  BY <1>1, <1>2
<1>5. CASE Len(s) = 1
  <2> HIDE DEF t
  <2> QED  BY <1>3, <1>4, <1>5 DEF Bottom
<1>6. CASE Len(s) # 1
  <2>1. Len(s) - 1 \in 1 .. Len(Tail(s)) /\ (Len(s) - 1) + 1 = Len(s)
    BY <1>1, <1>6
  <2>2. t[Len(s)] = Tail(s)[Len(s) - 1]
    <3> HIDE DEF t
    <3> QED  BY <1>4, <2>1
  <2>3. Tail(s)[Len(s) - 1] = s[Len(s)]
    BY <1>1, <1>6
  <2> HIDE DEF t
  <2> QED  BY <1>3, <1>6, <2>2, <2>3 DEF Bottom
<1>7. t # <<>>
  BY <1>1, <1>3
<1> QED  BY <1>3, <1>5, <1>6, <1>7

LEMMA PopTop ==
  ASSUME NEW s \in Seq(Handlers), s # <<>>, Len(s) # 1
  PROVE  Tail(s) \in Seq(Handlers) /\ Tail(s) # <<>> /\ Bottom(Tail(s)) = Bottom(s)
<1>1. Len(s) \in Nat /\ Len(s) # 0
  OBVIOUS
<1>2. Tail(s) \in Seq(Handlers) /\ Len(Tail(s)) = Len(s) - 1
  OBVIOUS
<1>3. Len(Tail(s)) # 0
  BY <1>1, <1>2
<1>4. Tail(s) # <<>>
  <2> DEFINE t == Tail(s)
  <2>1. Len(t) # 0
    BY <1>3
  <2> HIDE DEF t
  <2>2. t # <<>>
    BY <2>1
  <2> QED  BY <2>2 DEF t
<1>5. Tail(s)[Len(s) - 1] = s[Len(s)]
  BY <1>1, <1>2
<1> QED  BY <1>2, <1>4, <1>5 DEF Bottom

-----------------------------------------------------------------------------
(* The inductive invariant.  While a call runs, the bottom of the stack is *)
(* the handler of its command (CallInv); that handler's repeater and the   *)
(* failures so far never exceed what the row of the first error allows     *)
(* (BudgetInv); nor do connect_retries and the time-outs of CONNECT        *)
(* (ConnectInv).                                                           *)
CallInv ==
  Running => Len(results) < Len(script) /\ Bottom(stack).cmd = CurrentCommand

Allowed == Repetitions(Actions(CurrentCommand, firstError).action)
BudgetInv ==
  Running =>
    /\ failures = 0 => Bottom(stack).repeater = NoRepeater /\ firstError = "none"
    /\ failures # 0 =>
         \/ Allowed = Infinite /\ Bottom(stack).repeater = Infinite
         \/ /\ Allowed # Infinite /\ Bottom(stack).repeater \in 0 .. 1
            /\ failures + Bottom(stack).repeater <= Allowed

ConnectInv ==
  Running /\ CurrentCommand = "CONNECT" /\ ConnectRetries # NoLimit =>
    connectRetries \in Nat /\ timeouts + connectRetries <= ConnectRetries

IInv == /\ TypeOK /\ CallInv /\ BudgetInv /\ ConnectInv
        /\ RepetitionBound /\ ConnectBound

LEMMA InitIInv == Init => IInv
<1> SUFFICES ASSUME Init PROVE IInv
  OBVIOUS
<1>1. slave \in Slaves
  BY AddressesAssumption DEF Init, Slaves, IdAddress
<1>2. reply \in Responses
  BY DEF Init, Nothing, Responses, Commands
<1>3. script \in Seq(Calls)
  BY ScriptsAssumption DEF Init
<1>4. TypeOK
  BY <1>1, <1>2, <1>3, BoundsAssumption DEF Init, TypeOK, Exceptions, NoLimit, NoMta
<1> QED
  BY <1>4 DEF Init, IInv, CallInv, BudgetInv, ConnectInv, Running,
              RepetitionBound, ConnectBound

(* Calling, executing and leaving a call.                                  *)
LEMMA CallStep == IInv /\ Call => IInv'
<1> SUFFICES ASSUME IInv, Call PROVE IInv'
  OBVIOUS
<1> DEFINE c == script[Len(results) + 1]
           h == Handler(c.cmd, c.arg)
<1>1. script \in Seq(Calls) /\ results \in Seq(Responses) /\ Len(results) < Len(script)
  BY ScriptsAssumption DEF IInv, TypeOK, Call
<1>2. Len(results) + 1 \in 1 .. Len(script)
  BY <1>1
<1>3. c \in Calls
  BY <1>1, <1>2
<1>4. h \in Handlers /\ h.cmd = c.cmd /\ h.repeater = NoRepeater
  BY <1>3 DEF Handler, Handlers, Calls, NoRepeater
<1>5. stack' = <<h>>
  <2>1. stack' = Push(<<>>, h)
    BY DEF Call
  <2> HIDE DEF h
  <2> QED  BY <2>1, <1>4 DEF Push
<1>6. stack' \in Seq(Handlers) /\ stack' # <<>> /\ Bottom(stack') = h
  <2> HIDE DEF h
  <2> QED  BY <1>4, <1>5 DEF Bottom
<1>7. TypeOK'
  BY <1>6, RetriesAssumption, BoundsAssumption DEF IInv, TypeOK, Call, faultVars
<1>8. CurrentCommand' = c.cmd
  BY DEF CurrentCommand, Call
<1>9. CallInv'
  BY <1>1, <1>4, <1>6, <1>8 DEF CallInv, Call, Bottom
<1>10. BudgetInv'
  <2>1. failures' = 0 /\ firstError' = "none"
    BY DEF Call
  <2> QED  BY <1>4, <1>6, <2>1 DEF BudgetInv, Bottom
<1>11. ConnectInv'
  BY RetriesAssumption DEF ConnectInv, Call, NoLimit
<1>12. RepetitionBound' /\ ConnectBound'
  BY RetriesAssumption DEF RepetitionBound, ConnectBound, Call, NoLimit
<1> QED  BY <1>7, <1>9, <1>10, <1>11, <1>12 DEF IInv

LEMMA ExecuteStep == IInv /\ Execute => IInv'
<1> SUFFICES ASSUME IInv, Execute PROVE IInv'
  OBVIOUS
<1> DEFINE h == Head(stack)
<1>1. h \in Handlers /\ slave \in Slaves /\ resQueue \in Seq(Responses)
  BY DEF IInv, TypeOK, Execute
<1>2. Executed(h) \in Slaves /\ Answer(h) \in Responses
  BY <1>1, ExecutedType, AnswerType
<1>3. /\ reply' \in Responses /\ resQueue' \in Seq(Responses) /\ slave' \in Slaves
      /\ losses' \in 0 .. MaxLosses /\ late' \in 0 .. MaxLate /\ refusals' \in 0 .. MaxRefusals
  <2> USE BoundsAssumption DEF IInv, TypeOK
  <2>1. CASE Answered(h)
    <3>1. Append(resQueue, Answer(h)) \in Seq(Responses)
      BY <1>1, <1>2
    <3> QED  BY <1>1, <1>2, <2>1, <3>1, TakeType DEF Answered, faultVars
  <2>2. CASE Refused(h)
    <3>1. PICK e \in Refusals : Take(h, Append(resQueue, Response(h, e, 0)))
      BY <2>2 DEF Refused
    <3>2. Response(h, e, 0) \in Responses
      <4>1. e \in {"RES"} \cup Errors
        BY BoundsAssumption
      <4> QED  BY <1>1, <4>1, ResponseType
    <3>3. Append(resQueue, Response(h, e, 0)) \in Seq(Responses)
      BY <1>1, <3>2
    <3>4. reply' \in Responses /\ resQueue' \in Seq(Responses)
      BY <1>1, <3>1, <3>3, TakeType
    <3> QED  BY <2>2, <3>4 DEF Refused
  <2>3. CASE Lost(h)
    <3>1. losses' \in 0 .. MaxLosses
      BY <2>3 DEF Lost, CountUp
    <3> QED  BY <1>1, <1>2, <2>3, <3>1, TakeType DEF Lost
  <2>4. CASE Late(h)
    <3>1. Response(h, "TIMEOUT", 0) \in Responses
      BY <1>1, ResponseType DEF Errors
    <3> QED  BY <1>1, <1>2, <2>4, <3>1 DEF Late
  <2> QED  BY <2>1, <2>2, <2>3, <2>4 DEF Execute
<1>4. mta' \in Int
  BY <1>1 DEF IInv, TypeOK, Execute, Handlers
<1>5. /\ pc = "execute" /\ pc' = "handle"
      /\ UNCHANGED <<script, results, stack, connectRetries, failures, timeouts, firstError>>
  BY DEF Execute, history
<1>6. TypeOK'
  BY <1>3, <1>4, <1>5 DEF IInv, TypeOK
<1>7. Allowed' = Allowed /\ CurrentCommand' = CurrentCommand
  BY <1>5 DEF Allowed, CurrentCommand
<1>8. CallInv' /\ BudgetInv' /\ ConnectInv'
  BY <1>5, <1>7 DEF IInv, CallInv, BudgetInv, ConnectInv, Running, Bottom
<1>9. RepetitionBound' /\ ConnectBound'
  BY <1>5, <1>7 DEF IInv, RepetitionBound, ConnectBound
<1> QED  BY <1>6, <1>8, <1>9 DEF IInv

(* A step that leaves the loop or goes on with the same or fewer handlers, *)
(* and counts nothing.                                                     *)
LEMMA QuietStep ==
  ASSUME IInv, Running,
         UNCHANGED <<script, reply, connectRetries, mta, resQueue, slave,
                     losses, late, refusals, failures, timeouts, firstError>>,
         \/ stack' = <<>> /\ pc' \in Exceptions /\ results' = results
         \/ stack' = <<>> /\ pc' = "idle" /\ results' = Append(results, reply)
         \/ /\ pc' = "execute" /\ results' = results
            /\ stack' \in Seq(Handlers) /\ stack' # <<>> /\ Bottom(stack') = Bottom(stack)
  PROVE  IInv'
<1>1. CASE stack' = <<>> /\ pc' \in Exceptions /\ results' = results
  <2>1. pc' \notin {"idle", "execute", "handle"}
    BY <1>1 DEF Exceptions
  <2>2. TypeOK'
    BY <1>1, <2>1 DEF IInv, TypeOK
  <2>3. CallInv' /\ BudgetInv' /\ ConnectInv'
    BY <2>1 DEF CallInv, BudgetInv, ConnectInv, Running
  <2>4. RepetitionBound' /\ ConnectBound'
    BY <1>1 DEF IInv, RepetitionBound, ConnectBound, CurrentCommand, Running
  <2> QED  BY <2>2, <2>3, <2>4 DEF IInv
<1>2. CASE stack' = <<>> /\ pc' = "idle" /\ results' = Append(results, reply)
  <2>1. script \in Seq(Calls) /\ Len(results) < Len(script)
    BY ScriptsAssumption DEF IInv, TypeOK, CallInv
  <2>2. results' \in Seq(Responses) /\ Len(results') <= Len(script')
    BY <1>2, <2>1 DEF IInv, TypeOK
  <2>3. TypeOK'
    BY <1>2, <2>2 DEF IInv, TypeOK
  <2> QED
    BY <1>2, <2>3 DEF IInv, CallInv, BudgetInv, ConnectInv, Running,
                      RepetitionBound, ConnectBound
<1>3. CASE /\ pc' = "execute" /\ results' = results
           /\ stack' \in Seq(Handlers) /\ stack' # <<>> /\ Bottom(stack') = Bottom(stack)
  <2>1. TypeOK'
    BY <1>3 DEF IInv, TypeOK, Running
  <2>2. Allowed' = Allowed /\ CurrentCommand' = CurrentCommand /\ Bottom(stack)' = Bottom(stack)
    BY <1>3 DEF Allowed, CurrentCommand, Bottom
  <2>3. CallInv' /\ BudgetInv' /\ ConnectInv'
    BY <1>3, <2>2 DEF IInv, CallInv, BudgetInv, ConnectInv, Running
  <2>4. RepetitionBound' /\ ConnectBound'
    BY <1>3, <2>2 DEF IInv, RepetitionBound, ConnectBound, Running
  <2> QED  BY <2>1, <2>3, <2>4 DEF IInv
<1> QED  BY <1>1, <1>2, <1>3

LEMMA UneventfulStep ==
  IInv /\ (ExecuteFails \/ Return \/ PreActionDone \/ Resynch) => IInv'
<1> SUFFICES ASSUME IInv, ExecuteFails \/ Return \/ PreActionDone \/ Resynch
             PROVE IInv'
  OBVIOUS
<1> USE DEF faultVars, history, Running
<1>1. stack \in Seq(Handlers) /\ (Running => stack # <<>>)
  BY DEF IInv, TypeOK
<1>2. CASE ExecuteFails
  BY <1>2, QuietStep DEF ExecuteFails, Raise, Exceptions
<1>3. CASE Return
  BY <1>3, QuietStep DEF Return
<1>4. CASE PreActionDone
  <2>1. Running /\ Len(stack) # 1
    BY <1>4 DEF PreActionDone, Returns, IsMain
  <2>2. Tail(stack) \in Seq(Handlers) /\ Tail(stack) # <<>> /\ Bottom(Tail(stack)) = Bottom(stack)
    BY <1>1, <2>1, PopTop
  <2>3. \/ stack' = <<>> /\ pc' \in Exceptions
        \/ stack' = Tail(stack) /\ pc' = "execute"
    BY <1>4 DEF PreActionDone, Raise, Exceptions
  <2> QED  BY <1>4, <2>1, <2>2, <2>3, QuietStep DEF PreActionDone
<1>5. CASE Resynch
  BY <1>1, <1>5, QuietStep DEF Resynch, Bottom
<1> QED  BY <1>2, <1>3, <1>4, <1>5

(* Counting a failure of the command itself keeps the bounds the           *)
(* properties state, whether the call goes on or not.                      *)
LEMMA CountBounds ==
  ASSUME IInv, pc = "handle", Failed(Head(stack)), Count, UNCHANGED <<script, results>>
  PROVE  /\ failures' \in 0 .. MaxFailures /\ timeouts' \in 0 .. failures'
         /\ firstError' \in Errors \cup {"none"}
         /\ RepetitionBound'
<1>1. /\ failures \in 0 .. MaxFailures /\ timeouts \in 0 .. failures
      /\ MaxFailures \in Nat /\ MaxFailures > 0
      /\ firstError \in Errors \cup {"none"} /\ reply \in Responses
  BY BoundsAssumption DEF IInv, TypeOK
<1>2. reply.pid \in Errors
  BY <1>1 DEF Failed, Responses, Errors
<1>3. CASE ~IsMain
  <2>1. UNCHANGED <<failures, timeouts, firstError>>
    BY <1>3 DEF Count, history
  <2> QED
    BY <1>1, <2>1 DEF IInv, RepetitionBound, CurrentCommand
<1>4. CASE IsMain
  <2>0. /\ failures' = CountUp(failures, MaxFailures)
        /\ timeouts' \in {timeouts, CountUp(timeouts, MaxFailures)}
    BY <1>4 DEF Count
  <2>1. /\ failures' \in {failures, failures + 1} /\ failures' \in 0 .. MaxFailures
        /\ timeouts' \in 0 .. failures' /\ (failures = 0 => failures' = 1)
    BY <1>1, <2>0 DEF CountUp
  <2>2. firstError' = IF failures = 0 THEN reply.pid ELSE firstError
    BY <1>4 DEF Count
  <2>3. RepetitionBound'
    <3>1. CASE failures = 0
      <4>1. \A a : Repetitions(a) # Infinite => Repetitions(a) \in 0 .. 2
        BY RepetitionsRange DEF Infinite
      <4>2. failures' = 1
        BY <2>1, <3>1
      <4>3. Repetitions(Actions(CurrentCommand, firstError).action)' # Infinite =>
              failures' <= Repetitions(Actions(CurrentCommand, firstError).action)' + 1
        BY <4>1, <4>2
      <4> QED  BY <4>3 DEF RepetitionBound
    <3>2. CASE failures # 0
      <4>1. firstError' = firstError /\ CurrentCommand' = CurrentCommand
        BY <2>2, <3>2 DEF CurrentCommand
      <4>2. Allowed # Infinite => Allowed \in 0 .. 2 /\ failures <= Allowed
        <5>1. Allowed \in Infinite .. 2
          BY RepetitionsRange DEF Allowed
        <5> QED  BY <1>1, <3>2, <5>1 DEF IInv, BudgetInv, Running, Infinite
      <4>3. Allowed # Infinite => failures' <= Allowed + 1
        BY <1>1, <2>1, <4>2
      <4> QED  BY <4>1, <4>3 DEF RepetitionBound, Allowed
    <3> QED  BY <3>1, <3>2
  <2> QED  BY <1>1, <1>2, <2>1, <2>2, <2>3
<1> QED  BY <1>3, <1>4

LEMMA ConnectGivenUpStep == IInv /\ ConnectGivenUp => IInv'
<1> SUFFICES ASSUME IInv, ConnectGivenUp PROVE IInv'
  OBVIOUS
<1>1. /\ pc = "handle" /\ Failed(Head(stack)) /\ Count
      /\ pc' = "XcpTimeoutError" /\ stack' = <<>>
      /\ UNCHANGED <<script, results, reply, connectRetries, mta, resQueue, slave, losses, late, refusals>>
  BY DEF ConnectGivenUp, IsConnectTimeout, Failed, Raise, faultVars
<1>2. /\ failures' \in 0 .. MaxFailures /\ timeouts' \in 0 .. failures'
      /\ firstError' \in Errors \cup {"none"} /\ RepetitionBound'
  BY <1>1, CountBounds
<1>3. TypeOK'
  BY <1>1, <1>2 DEF IInv, TypeOK, Exceptions
<1>4. CallInv' /\ BudgetInv' /\ ConnectInv'
  BY <1>1 DEF CallInv, BudgetInv, ConnectInv, Running
<1>5. ConnectBound'
  <2>1. timeouts' \in {timeouts, timeouts + 1} /\ timeouts \in Nat
    BY <1>1 DEF Count, CountUp, history, IInv, TypeOK
  <2>2. CurrentCommand = "CONNECT" /\ ConnectRetries # NoLimit /\ connectRetries = 0 =>
          timeouts <= ConnectRetries
    BY <1>1, <2>1, RetriesAssumption DEF IInv, ConnectInv, Running
  <2>3. connectRetries = 0 /\ CurrentCommand' = CurrentCommand
    BY <1>1 DEF ConnectGivenUp, CurrentCommand
  <2> QED  BY <2>1, <2>2, <2>3, RetriesAssumption DEF ConnectBound
<1> QED  BY <1>2, <1>3, <1>4, <1>5 DEF IInv

LEMMA HandleStep == IInv /\ Handle => IInv'
<1> SUFFICES ASSUME IInv, Handle PROVE IInv'
  OBVIOUS
<1> DEFINE h == Head(stack)
           row == Actions(h.cmd, reply.pid)
           r == RepeaterOf(h, row)
           top == [h EXCEPT !.repeater = CountDown(r)]
           rest == <<top>> \o Tail(stack)
<1>1. /\ pc = "handle" /\ Failed(h) /\ Count /\ connectRetries' = RetriesLeft
      /\ ~(IsConnectTimeout /\ connectRetries = 0)
      /\ UNCHANGED <<script, results, reply, mta, resQueue, slave, losses, late, refusals>>
  BY DEF Handle, faultVars
<1>2. \/ stack' = <<>> /\ pc' \in Exceptions
      \/ pc' = "execute" /\ CanRepeat(r) /\ stack' = PushReversed(rest, row.preActions)
  BY DEF Handle, Raise, Exceptions
<1>3. /\ stack \in Seq(Handlers) /\ stack # <<>> /\ h \in Handlers /\ mta \in Int
      /\ failures \in 0 .. MaxFailures /\ timeouts \in Nat
      /\ MaxFailures \in Nat /\ MaxFailures > 0
  BY <1>1, BoundsAssumption DEF IInv, TypeOK
<1>4. /\ failures' \in 0 .. MaxFailures /\ timeouts' \in 0 .. failures'
      /\ firstError' \in Errors \cup {"none"} /\ RepetitionBound'
  BY <1>1, CountBounds
<1>5. CurrentCommand' = CurrentCommand /\ Main.cmd = CurrentCommand
  BY <1>1 DEF CurrentCommand, IInv, CallInv, Running, Main, Bottom
<1>6. timeouts' \in {timeouts, timeouts + 1}
      /\ (reply.pid # "TIMEOUT" => timeouts' = timeouts)
  BY <1>1, <1>3 DEF Count, CountUp, history
<1>7. /\ connectRetries' \in Nat \cup {NoLimit}
      /\ CurrentCommand = "CONNECT" /\ ConnectRetries # NoLimit =>
           connectRetries' \in Nat /\ timeouts' + connectRetries' <= ConnectRetries
  <2>1. connectRetries \in Nat \cup {NoLimit}
    BY DEF IInv, TypeOK
  <2>2. CASE IsConnectTimeout
    <3>1. connectRetries \in Nat /\ connectRetries # 0 /\ connectRetries' = connectRetries - 1
      BY <1>1, <2>1, <2>2 DEF RetriesLeft, IsConnectTimeout
    <3>2. CurrentCommand = "CONNECT" /\ ConnectRetries # NoLimit =>
            timeouts + connectRetries <= ConnectRetries /\ ConnectRetries \in Nat
      BY <1>1, RetriesAssumption DEF IInv, ConnectInv, Running
    <3>3. connectRetries' \in Nat
      BY <3>1
    <3> QED  BY <1>3, <1>6, <3>1, <3>2, <3>3
  <2>3. CASE ~IsConnectTimeout
    <3>1. connectRetries' = connectRetries
      BY <1>1, <2>3 DEF RetriesLeft
    <3>2. CurrentCommand = "CONNECT" /\ ConnectRetries # NoLimit =>
            connectRetries \in Nat /\ timeouts + connectRetries <= ConnectRetries
      BY <1>1 DEF IInv, ConnectInv, Running
    <3>3. CurrentCommand = "CONNECT" /\ ConnectRetries # NoLimit => timeouts' = timeouts
      BY <1>5, <1>6, <2>3, <3>2 DEF IsConnectTimeout, NoLimit
    <3> QED  BY <2>1, <3>1, <3>2, <3>3
  <2> QED  BY <2>2, <2>3
<1>8. ConnectBound'
  <2>1. CurrentCommand = "CONNECT" /\ ConnectRetries # NoLimit => timeouts' <= ConnectRetries + 1
    <3> SUFFICES ASSUME CurrentCommand = "CONNECT", ConnectRetries # NoLimit
                 PROVE  timeouts' <= ConnectRetries + 1
      OBVIOUS
    <3>1. ConnectRetries \in Nat /\ connectRetries' \in Nat
          /\ timeouts' + connectRetries' <= ConnectRetries
      BY <1>7, RetriesAssumption
    <3>2. timeouts' \in Nat
      BY <1>3, <1>6
    <3>3. \A a, b, c \in Nat : a + b <= c => a <= c + 1
      OBVIOUS
    <3> QED  BY <3>1, <3>2, <3>3
  <2> QED  BY <1>5, <2>1 DEF ConnectBound
<1>9. ConnectInv'
  BY <1>5, <1>7 DEF ConnectInv
<1>10. CASE stack' = <<>> /\ pc' \in Exceptions
  <2>1. pc' \notin {"idle", "execute", "handle"}
    BY <1>10 DEF Exceptions
  <2>2. TypeOK'
    BY <1>1, <1>4, <1>7, <1>10, <2>1 DEF IInv, TypeOK
  <2>3. CallInv' /\ BudgetInv'
    BY <2>1 DEF CallInv, BudgetInv, Running
  <2> QED  BY <1>4, <1>8, <1>9, <2>2, <2>3 DEF IInv
<1>11. CASE pc' = "execute" /\ CanRepeat(r) /\ stack' = PushReversed(rest, row.preActions)
  <2>1. /\ r \in Infinite .. 2 /\ (r = Infinite => CountDown(r) = Infinite)
        /\ (r # Infinite => CountDown(r) \in 0 .. 1 /\ CountDown(r) = r - 1)
        /\ top \in Handlers
    BY <1>3, <1>11, RepeaterStep
  <2>2. /\ rest \in Seq(Handlers) /\ rest # <<>>
        /\ Bottom(rest) = IF Len(stack) = 1 THEN top ELSE Bottom(stack)
    <3> HIDE DEF top
    <3> QED  BY <1>3, <2>1, ReplaceTop
  <2>3. /\ stack' \in Seq(Handlers) /\ stack' # <<>>
        /\ Bottom(stack') = Bottom(rest)
    <3> HIDE DEF rest, row
    <3> QED  BY <1>3, <1>11, <2>2, PushReversedBottom
  <2>4. TypeOK'
    BY <1>1, <1>4, <1>7, <1>11, <2>3 DEF IInv, TypeOK
  <2>5. IsMain => h = Bottom(stack)
    BY <1>3 DEF IsMain, Bottom
  <2>6. Bottom(stack)' = IF IsMain THEN top ELSE Bottom(stack)
    BY <2>2, <2>3 DEF IsMain, Bottom
  <2>7. top.cmd = h.cmd /\ top.repeater = CountDown(r)
    BY <1>3 DEF Handlers
  <2>8. CallInv'
    BY <1>1, <1>5, <2>5, <2>6, <2>7 DEF IInv, CallInv, Running
  <2>9. BudgetInv'
    <3> HIDE DEF top, r
    <3>1. CASE ~IsMain
      <4>1. UNCHANGED <<failures, firstError>> /\ Bottom(stack)' = Bottom(stack)
        BY <1>1, <2>6, <3>1 DEF Count, history
      <4>2. Allowed' = Allowed
        BY <1>5, <4>1 DEF Allowed
      <4> QED  BY <1>1, <4>1, <4>2 DEF IInv, BudgetInv, Running
    <3>2. CASE IsMain /\ failures = 0
      <4>1. failures' = 1 /\ firstError' = reply.pid
        BY <1>1, <1>3, <3>2 DEF Count, CountUp
      <4>2. h.repeater = NoRepeater /\ h.cmd = CurrentCommand
        BY <1>1, <2>5, <3>2 DEF IInv, BudgetInv, CallInv, Running
      <4>3. r = Allowed'
        BY <1>5, <4>1, <4>2 DEF r, RepeaterOf, Allowed
      <4>4. Bottom(stack)'.repeater = CountDown(r)
        BY <2>6, <2>7, <3>2
      <4> QED  BY <2>1, <4>1, <4>3, <4>4 DEF BudgetInv, Infinite
    <3>3. CASE IsMain /\ failures # 0
      <4>1. /\ failures' \in {failures, failures + 1} /\ failures' # 0
            /\ firstError' = firstError
        BY <1>1, <1>3, <3>3 DEF Count, CountUp
      <4>2. Allowed' = Allowed
        BY <1>5, <4>1 DEF Allowed
      <4>3. \/ Allowed = Infinite /\ h.repeater = Infinite
            \/ /\ Allowed # Infinite /\ h.repeater \in 0 .. 1
               /\ failures + h.repeater <= Allowed
        BY <1>1, <2>5, <3>3 DEF IInv, BudgetInv, Running
      <4>4. r = h.repeater
        BY <4>3 DEF r, RepeaterOf, NoRepeater, Infinite
      <4>5. Bottom(stack)'.repeater = CountDown(r)
        BY <2>6, <2>7, <3>3
      <4>6. Allowed \in Infinite .. 2
        BY RepetitionsRange DEF Allowed
      <4> QED
        BY <1>3, <2>1, <4>1, <4>2, <4>3, <4>4, <4>5, <4>6 DEF BudgetInv, Infinite
    <3> QED  BY <3>1, <3>2, <3>3
  <2> QED  BY <1>4, <1>8, <1>9, <2>4, <2>8, <2>9 DEF IInv
<1> QED  BY <1>2, <1>10, <1>11

LEMMA NextIInv == IInv /\ [Next]_vars => IInv'
<1> SUFFICES ASSUME IInv, [Next]_vars PROVE IInv'
  OBVIOUS
<1>1. CASE UNCHANGED vars
  BY <1>1 DEF vars, faultVars, history, IInv, TypeOK, CallInv, BudgetInv, ConnectInv,
              Running, Bottom, Allowed, CurrentCommand, RepetitionBound, ConnectBound
<1> QED
  BY <1>1, CallStep, ExecuteStep, UneventfulStep, HandleStep, ConnectGivenUpStep DEF Next

(* Every variable always has its type; in particular the stack is empty    *)
(* exactly when no call is running: Executor.__call__ cleans up whatever   *)
(* happens.                                                                *)
THEOREM TypeCorrect == Spec => []TypeOK
<1>1. IInv => TypeOK
  BY DEF IInv
<1> QED  BY <1>1, InitIInv, NextIInv, PTL DEF Spec

(* The row of a command's first error bounds its repetitions, and          *)
(* connect_retries those of CONNECT, whatever the slave answers and        *)
(* whatever gets lost.                                                     *)
THEOREM RepetitionsBounded == Spec => [](RepetitionBound /\ ConnectBound)
<1>1. IInv => RepetitionBound /\ ConnectBound
  BY DEF IInv
<1> QED  BY <1>1, InitIInv, NextIInv, PTL DEF Spec

(* A CONNECT that is never answered is sent connect_retries times and once *)
(* more at most.                                                           *)
THEOREM ConnectBounded == Spec => []ConnectBound
  BY RepetitionsBounded, PTL

-----------------------------------------------------------------------------
(* As long as no answer is late, resQueue is empty between two requests    *)
(* and the reply belongs to the handler that has been executed.            *)
ReplyInv ==
  late = 0 =>
    /\ resQueue = <<>>
    /\ pc = "handle" => reply.to = Head(stack).cmd
    /\ \A i \in Done : results[i].to = script[i].cmd

LEMMA NextReplyInv == IInv /\ ReplyInv /\ [Next]_vars => ReplyInv'
<1>0. ASSUME IInv, [Next]_vars, late' = 0
      PROVE  late = 0
  <2>1. late \in Nat
    BY <1>0, BoundsAssumption DEF IInv, TypeOK
  <2> QED
    BY <1>0, <2>1 DEF Next, vars, faultVars, Call, Execute, Answered, Refused, Lost, Late,
         ExecuteFails, Return, PreActionDone, Resynch, Handle, ConnectGivenUp
<1> SUFFICES ASSUME IInv, ReplyInv, [Next]_vars, late' = 0, late = 0
             PROVE  /\ resQueue' = <<>>
                    /\ pc' = "handle" => reply'.to = Head(stack').cmd
                    /\ \A i \in Done' : results'[i].to = script'[i].cmd
  BY <1>0 DEF ReplyInv
<1> USE DEF faultVars, history, Done
<1>1. CASE Execute
  <2> DEFINE h == Head(stack)
  <2>1. /\ \A p, v : Response(h, p, v).to = h.cmd
        /\ Answer(h).to = h.cmd
    BY DEF Answer, Response
  <2>2. ASSUME NEW a, a.to = h.cmd, Take(h, Append(<<>>, a))
        PROVE  reply' = a /\ resQueue' = <<>>
    BY <2>2 DEF Take
  <2>3. reply'.to = h.cmd /\ resQueue' = <<>>
    <3>1. CASE Answered(h)
      BY <2>1, <2>2, <3>1 DEF Answered, ReplyInv
    <3>2. CASE Refused(h)
      BY <2>1, <2>2, <3>2 DEF Refused, ReplyInv
    <3>3. CASE Lost(h)
      BY <2>1, <3>3 DEF Lost, Take, ReplyInv
    <3>4. CASE Late(h)
      BY <3>4 DEF Late
    <3> QED  BY <1>1, <3>1, <3>2, <3>3, <3>4 DEF Execute
  <2> QED  BY <1>1, <2>3 DEF Execute, ReplyInv
<1>2. CASE Return
  <2>1. /\ script \in Seq(Calls) /\ results \in Seq(Responses) /\ Len(results) < Len(script)
        /\ stack \in Seq(Handlers) /\ stack # <<>> /\ Bottom(stack).cmd = CurrentCommand
    BY <1>2, ScriptsAssumption DEF IInv, TypeOK, CallInv, Running, Return
  <2>2. reply.to = CurrentCommand
    BY <1>2, <2>1 DEF Return, Returns, IsMain, ReplyInv, Bottom
  <2>3. /\ results' = Append(results, reply) /\ script' = script /\ pc' = "idle"
        /\ UNCHANGED resQueue
    BY <1>2 DEF Return
  <2>4. ASSUME NEW i \in 1 .. Len(results')
        PROVE  results'[i].to = script[i].cmd
    <3>1. CASE i = Len(results) + 1
      BY <2>1, <2>2, <2>3, <3>1 DEF CurrentCommand
    <3>2. CASE i # Len(results) + 1
      <4>1. i \in 1 .. Len(results) /\ results'[i] = results[i]
        BY <2>1, <2>3, <3>2
      <4> QED  BY <4>1 DEF ReplyInv
    <3> QED  BY <3>1, <3>2
  <2> QED  BY <2>3, <2>4 DEF ReplyInv
<1>3. CASE Call \/ ExecuteFails \/ PreActionDone \/ Resynch \/ Handle \/ ConnectGivenUp
  <2>1. pc' # "handle" /\ UNCHANGED <<script, results, resQueue>>
    BY <1>3 DEF Call, ExecuteFails, PreActionDone, Resynch, Handle, ConnectGivenUp, Raise
  <2> QED  BY <2>1 DEF ReplyInv
<1>4. CASE UNCHANGED vars
  BY <1>4 DEF vars, ReplyInv
<1> QED  BY <1>1, <1>2, <1>3, <1>4 DEF Next

(* As long as no answer has come after its time-out, every call has        *)
(* returned the answer to its own command, however many pre-actions have   *)
(* run in between.                                                         *)
THEOREM ResultsAreOwn == Spec => []ResultIsMain
<1>1. Init => ReplyInv
  BY DEF Init, ReplyInv, Done
<1>2. ReplyInv => ResultIsMain
  BY DEF ReplyInv, ResultIsMain
<1> QED  BY <1>1, <1>2, NextReplyInv, InitIInv, NextIInv, PTL DEF Spec

-----------------------------------------------------------------------------
(* TransferExact: transfers do their work at the right place.              *)
-----------------------------------------------------------------------------
(* The rows of the error matrix a transfer can meet: after a time-out the  *)
(* MTA is set again; every other row has no pre-action the handler can     *)
(* execute; and the rows of the pre-actions add none but SYNCH.            *)
Known(rows, actions) == \A e \in DOMAIN rows \ {"TIMEOUT"} : rows[e].preActions \in actions
Timeout(rows, a) == "TIMEOUT" \in DOMAIN rows /\ rows["TIMEOUT"].preActions = a

LEMMA UnionLeft ==
  ASSUME NEW f, NEW g, NEW e \in DOMAIN f
  PROVE  e \in DOMAIN (f ++ g) /\ (f ++ g)[e] = f[e]
BY DEF ++
LEMMA UnionRight ==
  ASSUME NEW f, NEW g, NEW e \in DOMAIN g, e \notin DOMAIN f
  PROVE  e \in DOMAIN (f ++ g) /\ (f ++ g)[e] = g[e]
BY DEF ++
LEMMA UnionKnown ==
  ASSUME NEW f, NEW g, NEW actions, Known(f, actions), Known(g, actions)
  PROVE  Known(f ++ g, actions)
BY DEF Known, ++
LEMMA UnionTimeout ==
  ASSUME NEW f, NEW g, NEW a, Timeout(f, a)
  PROVE  Timeout(f ++ g, a)
BY DEF Timeout, ++
LEMMA OnKnown ==
  ASSUME NEW errors, NEW action, NEW a, NEW actions, a \in actions
  PROVE  Known(On(errors, Row(a, action)), actions)
BY DEF Known, On, Row

Harmless == {<<>>, <<"UNLOCK_SLAVE">>}
LEMMA GuardedRows ==
  /\ Timeout(Guarded(SynchMta), SynchMta)
  /\ Known(Guarded(SynchMta), Harmless)
<1>1. /\ \A t : Known(On({"TIMEOUT"}, t), Harmless)
      /\ Timeout(On({"TIMEOUT"}, Row(SynchMta, "REPEAT_2_TIMES")), SynchMta)
  BY DEF Known, On, Timeout, Row
<1>2. /\ Known(On({"CMD_BUSY"}, Busy), Harmless) /\ Known(On({"PGM_ACTIVE"}, Busy), Harmless)
      /\ Known(On({"CMD_SYNTAX"}, Row(<<>>, "RETRY_SYNTAX")), Harmless)
      /\ Known(Locked, Harmless)
  BY OnKnown DEF Busy, Locked, Harmless
<1>3. Timeout(Basic(SynchMta), SynchMta) /\ Known(Basic(SynchMta), Harmless)
  BY <1>1, <1>2, UnionKnown, UnionTimeout DEF Basic
<1>4. Timeout(Plain(SynchMta), SynchMta) /\ Known(Plain(SynchMta), Harmless)
  BY <1>2, <1>3, UnionKnown, UnionTimeout DEF Plain
<1> QED
  BY <1>2, <1>4, UnionKnown, UnionTimeout DEF Guarded

LEMMA TransferRows ==
  \A c \in Transfer :
    /\ Timeout(ERROR_MATRIX[c], SynchMta)
    /\ Known(ERROR_MATRIX[c], Harmless)
<1>1. \A errors : /\ Known(Show(errors), Harmless) /\ Known(Param(errors), Harmless)
                  /\ Known(Twice(errors), Harmless)
  BY OnKnown DEF Show, Param, Twice, Harmless
<1>2. Known(OutOfRange, Harmless) /\ Known(Unwritable, Harmless) /\ Known(Again, Harmless)
  BY <1>1, OnKnown DEF OutOfRange, Unwritable, Again, Harmless
<1>3. /\ "UPLOAD" \in DOMAIN SessionCommands
      /\ SessionCommands["UPLOAD"] = Guarded(SynchMta) ++
           Show({"CMD_UNKNOWN", "ACCESS_DENIED"}) ++ OutOfRange ++ Again
  BY DEF SessionCommands
<1>4. /\ "DOWNLOAD" \in DOMAIN MemoryCommands /\ "DOWNLOAD" \notin DOMAIN SessionCommands
      /\ MemoryCommands["DOWNLOAD"] = Guarded(SynchMta) ++ OutOfRange ++ Unwritable ++ Again
  BY DEF MemoryCommands, SessionCommands
<1>5. /\ ERROR_MATRIX["UPLOAD"] = SessionCommands["UPLOAD"]
      /\ ERROR_MATRIX["DOWNLOAD"] = MemoryCommands["DOWNLOAD"]
  BY <1>3, <1>4, UnionLeft, UnionRight DEF ERROR_MATRIX
<1>6. /\ Timeout(ERROR_MATRIX["UPLOAD"], SynchMta)
      /\ Timeout(ERROR_MATRIX["DOWNLOAD"], SynchMta)
  BY <1>3, <1>4, <1>5, GuardedRows, UnionTimeout
<1>7. Known(ERROR_MATRIX["UPLOAD"], Harmless)
  BY <1>1, <1>2, <1>3, <1>5, GuardedRows, UnionKnown
<1>8. Known(ERROR_MATRIX["DOWNLOAD"], Harmless)
  BY <1>2, <1>4, <1>5, GuardedRows, UnionKnown
<1> QED
  BY <1>6, <1>7, <1>8 DEF Transfer

Resynchronising == {<<>>, <<"SYNCH">>}
LEMMA PreActionRows ==
  /\ \A e \in DOMAIN ERROR_MATRIX["SYNCH"] : ERROR_MATRIX["SYNCH"][e].preActions = <<>>
  /\ \A e \in DOMAIN ERROR_MATRIX["SET_MTA"] :
       ERROR_MATRIX["SET_MTA"][e].preActions \in Resynchronising
<1>1. /\ {"SYNCH", "SET_MTA"} \subseteq DOMAIN SessionCommands
      /\ SessionCommands["SYNCH"] = Twice({"TIMEOUT"}) ++ On({"CMD_SYNCH"}, Row(<<>>, "SKIP")) ++
           Restart({"CMD_UNKNOWN"}) ++ Again
      /\ SessionCommands["SET_MTA"] = Checked(Synch) ++ Again
  BY DEF SessionCommands
<1>2. /\ ERROR_MATRIX["SYNCH"] = SessionCommands["SYNCH"]
      /\ ERROR_MATRIX["SET_MTA"] = SessionCommands["SET_MTA"]
  BY <1>1, UnionLeft DEF ERROR_MATRIX
<1> DEFINE All(rows, actions) == \A e \in DOMAIN rows : rows[e].preActions \in actions
<1>3. ASSUME NEW f, NEW g, NEW actions, All(f, actions), All(g, actions)
      PROVE  All(f ++ g, actions)
  BY <1>3 DEF ++
<1>4. ASSUME NEW errors, NEW action, NEW a, NEW actions, a \in actions
      PROVE  All(On(errors, Row(a, action)), actions)
  BY <1>4 DEF On, Row
<1> HIDE DEF All
<1>5. All(SessionCommands["SYNCH"], {<<>>})
  BY <1>1, <1>3, <1>4 DEF Twice, Restart, Again
<1>6. All(Basic(Synch), Resynchronising)
  BY <1>3, <1>4 DEF Basic, Busy, Synch, Resynchronising
<1>7. All(Plain(Synch), Resynchronising)
  BY <1>3, <1>4, <1>6 DEF Plain, Busy, Resynchronising
<1>8. All(Checked(Synch), Resynchronising)
  BY <1>3, <1>4, <1>7 DEF Checked, Unknown, OutOfRange, Show, Param, Resynchronising
<1>9. All(SessionCommands["SET_MTA"], Resynchronising)
  BY <1>1, <1>3, <1>4, <1>8 DEF Again, Resynchronising
<1> QED
  BY <1>2, <1>5, <1>9 DEF All

-----------------------------------------------------------------------------
(* What the handlers above the command on the stack are.                   *)
PreActions == {h \in Handlers : h.cmd \in {"SYNCH", "SET_MTA", "FREE_DAQ"}}
Above(s, H) == \A k \in 1 .. Len(s) - 1 : s[k] \in H
Pushes(action, H) == PreAction(action) # <<>> => Head(PreAction(action)) \in H

LEMMA Prepended ==
  ASSUME NEW s \in Seq(Handlers), s # <<>>, NEW x \in Handlers
  PROVE  LET t == <<x>> \o s
         IN /\ t \in Seq(Handlers) /\ t # <<>> /\ Len(t) = Len(s) + 1
            /\ t[1] = x /\ t[2] = s[1]
<1>1. <<x>> \in Seq(Handlers) /\ Len(<<x>>) = 1 /\ <<x>>[1] = x
  OBVIOUS
<1>2. Len(s) \in Nat /\ 1 \in 1 .. Len(s)
  OBVIOUS
<1>3. Len(<<x>> \o s) = Len(s) + 1 /\ (<<x>> \o s)[1] = x
  BY <1>1, <1>2
<1>4. (<<x>> \o s)[1 + 1] = s[1]
  BY <1>1, <1>2
<1> QED  BY <1>1, <1>2, <1>3, <1>4

LEMMA PushAbove ==
  ASSUME NEW s \in Seq(Handlers), s # <<>>, NEW h \in Handlers, NEW H, h \in H, Above(s, H)
  PROVE  Above(Push(s, h), H)
<1>1. CASE Push(s, h) = s
  BY <1>1
<1>2. CASE Push(s, h) = <<h>> \o s
  <2> DEFINE t == <<h>> \o s
  <2>1. Len(t) = Len(s) + 1 /\ Len(s) \in Nat
    OBVIOUS
  <2>2. t[1] = h /\ \A k \in 1 .. Len(s) : t[k + 1] = s[k]
    OBVIOUS
  <2>3. ASSUME NEW k \in 1 .. Len(t) - 1 PROVE t[k] \in H
    <3>1. CASE k = 1
      BY <2>2, <3>1
    <3>2. CASE k # 1
      <4>1. k - 1 \in 1 .. Len(s) - 1 /\ t[k] = s[k - 1]
        <5>1. k - 1 \in 1 .. Len(s) - 1 /\ (k - 1) + 1 = k
          BY <2>1, <3>2
        <5> HIDE DEF t
        <5> QED  BY <2>2, <5>1
      <4> QED  BY <4>1 DEF Above
    <3> QED  BY <3>1, <3>2
  <2> QED  BY <1>2, <2>3 DEF Above
<1> QED  BY <1>1, <1>2 DEF Push

LEMMA PreActionCommands ==
  ASSUME NEW a, mta \in Int
  PROVE  Pushes(a, PreActions)
<1>1. ASSUME PreAction(a) # <<>>
      PROVE  Head(PreAction(a)).cmd \in {"SYNCH", "SET_MTA", "FREE_DAQ"}
  BY <1>1 DEF PreAction, Handler
<1>2. PreAction(a) \in Seq(Handlers)
  BY PreActionHandlers
<1>3. PreAction(a) # <<>> => Head(PreAction(a)) \in Handlers
  BY <1>2
<1> QED  BY <1>1, <1>3 DEF Pushes, PreActions

LEMMA PushAllAbove ==
  ASSUME NEW s \in Seq(Handlers), s # <<>>, NEW hs \in Seq(Handlers), NEW H, Above(s, H),
         hs # <<>> => Head(hs) \in H
  PROVE  Above(PushAll(s, hs), H)
<1>1. hs # <<>> => Head(hs) \in Handlers
  OBVIOUS
<1> QED  BY <1>1, PushAbove DEF PushAll

LEMMA PushReversedAbove ==
  ASSUME NEW s \in Seq(Handlers), s # <<>>, NEW a, mta \in Int, NEW H, Above(s, H),
         a # <<>> => Pushes(Head(a), H), ~(Len(a) < 2) => Pushes(a[2], H)
  PROVE  Above(PushReversed(s, a), H)
<1> DEFINE hs2 == IF Len(a) < 2 THEN <<>> ELSE PreAction(a[2])
           hs1 == IF a = <<>> THEN <<>> ELSE PreAction(Head(a))
           t == PushAll(s, hs2)
<1>1. /\ hs1 \in Seq(Handlers) /\ hs2 \in Seq(Handlers)
      /\ hs1 # <<>> => Head(hs1) \in H
      /\ hs2 # <<>> => Head(hs2) \in H
  BY PreActionHandlers DEF Pushes
<1>2. t \in Seq(Handlers) /\ t # <<>> /\ Above(t, H)
  BY <1>1, PushAllBottom, PushAllAbove
<1>3. Above(PushAll(t, hs1), H)
  <2> HIDE DEF t, hs1
  <2> QED  BY <1>1, <1>2, PushAllAbove
<1> QED  BY <1>3 DEF PushReversed

(* Replacing the handler on top by one with another repeater.              *)
LEMMA ReplacedStack ==
  ASSUME NEW s \in Seq(Handlers), s # <<>>, NEW g \in Handlers,
         g.cmd = Head(s).cmd, g.arg = Head(s).arg
  PROVE  LET t == <<g>> \o Tail(s)
         IN /\ t \in Seq(Handlers) /\ t # <<>> /\ Len(t) = Len(s)
            /\ t[1] = g /\ (\A k \in 2 .. Len(s) : t[k] = s[k])
            /\ Bottom(t).arg = Bottom(s).arg
<1> DEFINE t == <<g>> \o Tail(s)
<1>1. /\ t \in Seq(Handlers) /\ t # <<>>
      /\ Bottom(t) = IF Len(s) = 1 THEN g ELSE Bottom(s)
  BY ReplaceTop
<1>2. Len(s) = 1 => Bottom(s) = Head(s)
  BY DEF Bottom
<1>3. Bottom(t).arg = Bottom(s).arg
  <2> HIDE DEF t
  <2> QED  BY <1>1, <1>2
<1>4. Tail(s) \in Seq(Handlers) /\ Len(Tail(s)) = Len(s) - 1 /\ Len(s) \in Nat /\ Len(s) >= 1
  OBVIOUS
<1>5. Len(t) = Len(s) /\ t[1] = g
  BY <1>4
<1>6. ASSUME NEW k \in 2 .. Len(s) PROVE t[k] = s[k]
  <2>1. k - 1 \in 1 .. Len(Tail(s)) /\ Tail(s)[k - 1] = s[k]
    BY <1>4
  <2>2. t[(k - 1) + 1] = Tail(s)[k - 1]
    BY <1>4, <2>1
  <2> QED  BY <2>1, <2>2
<1> QED  BY <1>1, <1>3, <1>5, <1>6

LEMMA ReplaceTopAbove ==
  ASSUME NEW s \in Seq(Handlers), s # <<>>, NEW H, Above(s, H), NEW g \in Handlers,
         g.cmd = Head(s).cmd, g.arg = Head(s).arg, Head(s) \in H => g \in H
  PROVE  Above(<<g>> \o Tail(s), H)
<1> DEFINE t == <<g>> \o Tail(s)
<1>1. Len(t) = Len(s) /\ t[1] = g /\ \A k \in 2 .. Len(s) : t[k] = s[k]
  BY ReplacedStack
<1>2. Head(s) = s[1] /\ Len(s) \in Nat
  OBVIOUS
<1> HIDE DEF t
<1>3. ASSUME NEW k \in 1 .. Len(t) - 1 PROVE t[k] \in H
  <2>1. k \in 1 .. Len(s) - 1
    BY <1>1
  <2>2. CASE k = 1
    BY <1>1, <1>2, <2>1, <2>2 DEF Above
  <2>3. CASE k # 1
    BY <1>1, <1>2, <2>1, <2>3 DEF Above
  <2> QED  BY <2>2, <2>3
<1> QED  BY <1>3 DEF Above, t

LEMMA PopAbove ==
  ASSUME NEW s \in Seq(Handlers), s # <<>>, NEW H, Above(s, H)
  PROVE  Above(Tail(s), H)
<1>1. Tail(s) \in Seq(Handlers) /\ Len(Tail(s)) = Len(s) - 1 /\ Len(s) \in Nat /\ Len(s) >= 1
  OBVIOUS
<1>2. ASSUME NEW k \in 1 .. Len(Tail(s)) - 1 PROVE Tail(s)[k] \in H
  <2>1. k + 1 \in 1 .. Len(s) - 1 /\ Tail(s)[k] = s[k + 1]
    BY <1>1
  <2> QED  BY <2>1 DEF Above
<1> QED  BY <1>2 DEF Above

-----------------------------------------------------------------------------
(* What executing a command does to the slave, and what it answers.        *)
LEMMA Effects ==
  ASSUME NEW h \in Handlers, slave \in Slaves
  PROVE  /\ h.cmd = "SYNCH" => Executed(h) = slave
         /\ h.cmd = "SET_MTA" => Executed(h).mta = h.arg /\ Answer(h).pid = "RES"
         /\ h.cmd = "UPLOAD" => Answer(h).pid = "RES" /\ Answer(h).val = slave.mta
         /\ h.cmd = "DOWNLOAD" =>
              /\ Executed(h).memory = [slave.memory EXCEPT ![slave.mta] = h.arg]
              /\ Answer(h).pid = "RES"
         /\ h.cmd # "DOWNLOAD" => Executed(h).memory = slave.memory
<1>1. h.cmd = "SYNCH" => Executed(h) = slave
  BY DEF Executed
<1>2. h.cmd = "SET_MTA" => Executed(h).mta = h.arg
  BY DEF Executed, Slaves
<1>3. h.cmd \in {"SET_MTA", "UPLOAD", "DOWNLOAD"} => Answer(h).pid = "RES"
  BY DEF Answer, Response
<1>4. h.cmd = "UPLOAD" => Answer(h).val = slave.mta
  BY DEF Answer, Response
<1>5. h.cmd = "DOWNLOAD" => Executed(h).memory = [slave.memory EXCEPT ![slave.mta] = h.arg]
  BY DEF Executed, Slaves
<1>6. h.cmd # "DOWNLOAD" => Executed(h).memory = slave.memory
  BY DEF Executed, Slaves
<1> QED  BY <1>1, <1>2, <1>3, <1>4, <1>5, <1>6

(* As long as no answer is late, a handler gets the answer to what it has  *)
(* asked, a refusal that changed nothing, or a time-out.                   *)
LEMMA Outcomes ==
  ASSUME IInv, ReplyInv, Execute, late = 0, late' = 0
  PROVE  LET h == Head(stack) IN
           \/ reply' = Answer(h) /\ slave' = Executed(h)
           \/ reply'.pid \in Errors \ {"TIMEOUT"} /\ slave' = slave
           \/ reply'.pid = "TIMEOUT" /\ slave' \in {slave, Executed(h)}
<1> DEFINE h == Head(stack)
<1>1. ASSUME NEW a, Take(h, Append(<<>>, a))
      PROVE  reply' = a
  BY <1>1 DEF Take
<1>2. resQueue = <<>>
  BY DEF ReplyInv
<1>3. CASE Answered(h)
  BY <1>1, <1>2, <1>3 DEF Answered
<1>4. CASE Refused(h)
  <2>1. PICK e \in Refusals : Take(h, Append(resQueue, Response(h, e, 0)))
    BY <1>4 DEF Refused
  <2>2. reply' = Response(h, e, 0)
    BY <1>1, <1>2, <2>1
  <2>3. reply'.pid = e /\ slave' = slave
    BY <1>4, <2>2 DEF Refused, Response
  <2> QED  BY <2>3, BoundsAssumption
<1>5. CASE Lost(h)
  <2>1. reply' = Response(h, "TIMEOUT", 0)
    BY <1>2, <1>5 DEF Lost, Take
  <2> QED  BY <1>5, <2>1 DEF Lost, Response
<1>6. CASE Late(h)
  BY <1>6 DEF Late
<1> QED  BY <1>3, <1>4, <1>5, <1>6 DEF Execute

-----------------------------------------------------------------------------
(* The scripts the theorem is about: every transfer follows a setMta of    *)
(* its own, to an address the slave has, and no two downloads give one     *)
(* address different values.                                               *)
Tidy ==
  /\ OneTransferPerSetMta
  /\ \A i \in 1 .. Len(script) : script[i].cmd = "SET_MTA" => script[i].arg \in Addresses
  /\ \A i, j \in 1 .. Len(script) :
       script[i].cmd = "DOWNLOAD" /\ script[j].cmd = "DOWNLOAD" /\ MtaOf(i) = MtaOf(j)
         => script[i].arg = script[j].arg

LEMMA PlaceOfTransfer ==
  ASSUME script \in Seq(Calls), OneTransferPerSetMta,
         NEW i \in 1 .. Len(script), script[i].cmd \in Transfer
  PROVE  i > 1 /\ script[i - 1].cmd = "SET_MTA" /\ MtaOf(i) = script[i - 1].arg
<1> DEFINE pointer == {"SET_MTA", "GET_ID"}
<1>1. i > 1 /\ script[i - 1].cmd = "SET_MTA" /\ i \in Nat
  BY DEF OneTransferPerSetMta
<1>2. LastSet(i, pointer) = i - 1
  <2> DEFINE P(j) == /\ j = 0 \/ Sets(j, pointer)
                     /\ \A k \in j + 1 .. i - 1 : ~Sets(k, pointer)
  <2>1. i - 1 \in 0 .. i - 1 /\ P(i - 1)
    BY <1>1 DEF Sets
  <2>2. ASSUME NEW j \in 0 .. i - 1, P(j) PROVE j = i - 1
    <3>1. i - 1 \notin j + 1 .. i - 1
      BY <1>1, <2>2 DEF Sets
    <3> QED  BY <1>1, <3>1
  <2> HIDE DEF P
  <2>3. (CHOOSE j \in 0 .. i - 1 : P(j)) = i - 1
    BY <2>1, <2>2
  <2> QED  BY <2>3 DEF LastSet, P
<1>3. Cardinality({}) = 0
  BY FS_EmptySet
<1>4. {k \in (i - 1) + 1 .. i - 1 : script[k].cmd \in {"UPLOAD", "DOWNLOAD"}} = {}
  BY <1>1
<1>5. script[i - 1].arg \in Int
  <2>1. i - 1 \in 1 .. Len(script)
    BY <1>1
  <2>2. script[i - 1] \in Calls
    BY <2>1
  <2> QED  BY <2>2 DEF Calls
<1>6. i - 1 # 0 /\ script[i - 1].cmd # "GET_ID"
  BY <1>1
<1>7. MtaOf(i) = script[i - 1].arg + Cardinality({})
  BY <1>2, <1>4, <1>6 DEF MtaOf, Place
<1> QED  BY <1>1, <1>3, <1>5, <1>7

(* A step changes neither the script nor what it says.                     *)
LEMMA SameScript ==
  ASSUME script' = script
  PROVE  /\ \A i : MtaOf(i)' = MtaOf(i)
         /\ Tidy' <=> Tidy
<1>1. \A i : MtaOf(i)' = MtaOf(i)
  BY DEF MtaOf, Place, LastSet, Sets
<1> QED  BY <1>1 DEF Tidy, OneTransferPerSetMta

-----------------------------------------------------------------------------
(* The inductive invariant.  A command and its argument stay at the bottom *)
(* of the stack (ArgInv), and only pre-actions come above it (AboveInv); a *)
(* SET_MTA that has succeeded has set both MTAs (SetInv, IdleInv); and     *)
(* while a transfer runs, Master.mta is the place where it shall work, and *)
(* either the slave's MTA is there whenever the transfer is executed, or   *)
(* handlers on the stack will set it (TransferInv).                        *)
Current == script[Len(results) + 1]
Target == script[Len(results)].arg
ArgInv == Running => Bottom(stack).arg = Current.arg
AboveInv == Running => Above(stack, PreActions)
SetInv ==
  pc = "handle" /\ reply.pid = "RES" /\ Head(stack).cmd = "SET_MTA" =>
    slave.mta = Head(stack).arg /\ mta = Head(stack).arg
IdleInv ==
  pc = "idle" /\ Len(results) > 0 /\ script[Len(results)].cmd = "SET_MTA" =>
    slave.mta = Target /\ mta = Target

Worked ==
  /\ Current.cmd = "UPLOAD" => reply.val = Target
  /\ Current.cmd = "DOWNLOAD" => slave.memory[Target] = Current.arg
AtTransfer ==
  /\ pc = "execute" => slave.mta = Target
  /\ pc = "handle" => \/ reply.pid = "TIMEOUT"
                      \/ reply.pid \notin {"TIMEOUT", "RES"} /\ slave.mta = Target
                      \/ reply.pid = "RES" /\ Worked
Resets(h) == h.cmd = "SET_MTA" /\ h.arg = Target
TransferInv ==
  Running /\ Current.cmd \in Transfer =>
    /\ mta = Target
    /\ \/ Len(stack) = 1 /\ AtTransfer
       \/ Len(stack) = 2 /\ Resets(stack[1])
       \/ Len(stack) = 3 /\ stack[1].cmd = "SYNCH" /\ Resets(stack[2])

Exact == ArgInv /\ AboveInv /\ SetInv /\ IdleInv /\ TransferInv /\ TransfersDone
Context == IInv /\ ReplyInv /\ Tidy /\ late = 0 /\ Exact

(* What holds while a call runs.                                           *)
LEMMA RunningFacts ==
  ASSUME IInv, Running
  PROVE  /\ script \in Seq(Calls) /\ results \in Seq(Responses)
         /\ Len(results) + 1 \in 1 .. Len(script) /\ Current \in Calls
         /\ stack \in Seq(Handlers) /\ stack # <<>> /\ Head(stack) \in Handlers
         /\ Head(stack) = stack[1] /\ Len(stack) \in Nat /\ Len(stack) >= 1
         /\ (Len(stack) = 1 => Head(stack) = Bottom(stack))
         /\ Bottom(stack).cmd = Current.cmd
<1>1. script \in Seq(Calls) /\ results \in Seq(Responses) /\ Len(results) < Len(script)
  BY ScriptsAssumption DEF IInv, TypeOK, CallInv
<1>2. Len(results) + 1 \in 1 .. Len(script)
  BY <1>1
<1>3. Current \in Calls
  BY <1>1, <1>2 DEF Current
<1>4. stack \in Seq(Handlers) /\ stack # <<>>
  BY DEF IInv, TypeOK, Running
<1>5. /\ Head(stack) \in Handlers /\ Head(stack) = stack[1]
      /\ Len(stack) \in Nat /\ Len(stack) >= 1
  BY <1>4
<1>6. Bottom(stack).cmd = Current.cmd
  BY DEF IInv, CallInv, CurrentCommand, Current
<1> QED  BY <1>1, <1>2, <1>3, <1>4, <1>5, <1>6 DEF Bottom

(* Where a transfer works is an address of the slave.                      *)
LEMMA TransferFacts ==
  ASSUME IInv, Running, Tidy, Current.cmd \in Transfer
  PROVE  /\ Len(results) \in 1 .. Len(script) /\ script[Len(results)].cmd = "SET_MTA"
         /\ Target \in Addresses /\ MtaOf(Len(results) + 1) = Target
<1>1. /\ script \in Seq(Calls) /\ Len(results) \in Nat
      /\ Len(results) + 1 \in 1 .. Len(script)
  BY RunningFacts
<1>2. /\ Len(results) + 1 > 1 /\ script[(Len(results) + 1) - 1].cmd = "SET_MTA"
      /\ MtaOf(Len(results) + 1) = script[(Len(results) + 1) - 1].arg
  BY <1>1, PlaceOfTransfer DEF Tidy, Current
<1>3. (Len(results) + 1) - 1 = Len(results) /\ Len(results) \in 1 .. Len(script)
  BY <1>1, <1>2
<1>4. script[Len(results)].cmd = "SET_MTA" /\ MtaOf(Len(results) + 1) = Target
  BY <1>2, <1>3 DEF Target
<1> QED  BY <1>3, <1>4 DEF Tidy, Target
-----------------------------------------------------------------------------
(* Executing a handler keeps the invariant.                                *)
LEMMA MemoryKept ==
  ASSUME TransfersDone, script' = script, results' = results, slave'.memory = slave.memory
  PROVE  TransfersDone'
<1>1. Done' = Done /\ \A i : MtaOf(i)' = MtaOf(i)
  BY SameScript DEF Done
<1> QED  BY <1>1 DEF TransfersDone

LEMMA MemoryWritten ==
  ASSUME Context, Running, Current.cmd = "DOWNLOAD", script' = script, results' = results,
         slave'.memory = [slave.memory EXCEPT ![Target] = Current.arg]
  PROVE  TransfersDone' /\ slave'.memory[Target] = Current.arg
<1> DEFINE n == Len(results) + 1
<1>1. /\ Len(results) \in Nat /\ n \in 1 .. Len(script)
      /\ Target \in Addresses /\ MtaOf(n) = Target
  BY RunningFacts, TransferFacts DEF Context, Transfer
<1>2. slave.memory \in [Addresses -> Int]
  BY DEF Context, IInv, TypeOK, Slaves
<1>3. /\ slave'.memory[Target] = Current.arg
      /\ \A a \in Addresses \ {Target} : slave'.memory[a] = slave.memory[a]
  BY <1>1, <1>2
<1>4. Done' = Done /\ Done \subseteq 1 .. Len(script) /\ \A i : MtaOf(i)' = MtaOf(i)
  BY <1>1, SameScript DEF Done
<1>5. Tidy /\ TransfersDone
  BY DEF Context, Exact
<1>6. ASSUME NEW i \in Done, script[i].cmd = "DOWNLOAD"
      PROVE  slave'.memory[MtaOf(i)] = script[i].arg
  <2>1. CASE MtaOf(i) = Target
    <3>1. i \in 1 .. Len(script) /\ script[n].cmd = "DOWNLOAD" /\ MtaOf(i) = MtaOf(n)
      BY <1>1, <1>4, <2>1 DEF Current
    <3>2. script[i].arg = script[n].arg
      BY <1>1, <1>5, <1>6, <3>1 DEF Tidy
    <3> QED  BY <1>3, <2>1, <3>2 DEF Current
  <2>2. CASE MtaOf(i) # Target
    <3>1. MtaOf(i) \in Addresses
      <4>1. i \in 1 .. Len(script) /\ script[i].cmd \in Transfer /\ script \in Seq(Calls)
        BY <1>4, <1>6, RunningFacts DEF Transfer, Context
      <4>2. i > 1 /\ script[i - 1].cmd = "SET_MTA" /\ MtaOf(i) = script[i - 1].arg
        BY <1>5, <4>1, PlaceOfTransfer DEF Tidy
      <4>3. i - 1 \in 1 .. Len(script)
        BY <4>1, <4>2
      <4> QED  BY <1>5, <4>2, <4>3 DEF Tidy
    <3>2. slave.memory[MtaOf(i)] = script[i].arg
      BY <1>5, <1>6 DEF TransfersDone
    <3> QED  BY <1>3, <2>2, <3>1, <3>2
  <2> QED  BY <2>1, <2>2
<1>7. ASSUME NEW a \in Addresses, slave'.memory[a] # 0
      PROVE  \E i \in 1 .. Len(script) :
               /\ script[i].cmd = "DOWNLOAD" /\ MtaOf(i) = a
               /\ i <= Len(results) + 1 /\ slave'.memory[a] = script[i].arg
  <2>1. CASE a = Target
    <3>1. script[n].cmd = "DOWNLOAD" /\ n <= Len(results) + 1 /\ slave'.memory[a] = script[n].arg
      BY <1>1, <1>3, <2>1 DEF Current
    <3> QED  BY <1>1, <2>1, <3>1
  <2>2. CASE a # Target
    BY <1>3, <1>5, <1>7, <2>2 DEF TransfersDone
  <2> QED  BY <2>1, <2>2
<1>8. TransfersDone'
  BY <1>4, <1>5, <1>6, <1>7 DEF TransfersDone
<1> QED  BY <1>3, <1>8

LEMMA ExecuteExact ==
  ASSUME Context, Execute, late' = 0
  PROVE  Exact'
<1> DEFINE h == Head(stack)
<1>1. /\ Running /\ pc = "execute" /\ pc' = "handle"
      /\ script' = script /\ results' = results /\ stack' = stack
      /\ mta' = IF h.cmd = "SET_MTA" THEN h.arg ELSE mta
  BY DEF Execute, Running
<1>2. Context /\ IInv /\ ReplyInv /\ Tidy /\ late = 0 /\ Exact
  BY DEF Context
<1>3. /\ h \in Handlers /\ slave \in Slaves /\ h = stack[1] /\ stack \in Seq(Handlers)
      /\ Len(stack) \in Nat /\ Len(stack) >= 1
      /\ (Len(stack) = 1 => h = Bottom(stack))
      /\ Bottom(stack).cmd = Current.cmd /\ Bottom(stack).arg = Current.arg
  BY <1>1, <1>2, RunningFacts DEF IInv, TypeOK, Exact, ArgInv
<1>4. \/ reply' = Answer(h) /\ slave' = Executed(h)
      \/ reply'.pid \in Errors \ {"TIMEOUT"} /\ slave' = slave
      \/ reply'.pid = "TIMEOUT" /\ slave' \in {slave, Executed(h)}
  BY <1>2, Outcomes
<1>5. "RES" \notin Errors /\ "TIMEOUT" # "RES"
  BY DEF Errors
<1> DEFINE n == Len(results) + 1
<1>6. /\ Current' = Current /\ Target' = Target /\ Running'
  BY <1>1 DEF Current, Target, Running
<1>7. ArgInv' /\ AboveInv' /\ IdleInv'
  BY <1>1, <1>2, <1>6 DEF Exact, ArgInv, AboveInv, IdleInv, Bottom, Above
<1>8. SetInv'
  <2>1. ASSUME reply'.pid = "RES", h.cmd = "SET_MTA"
        PROVE  slave'.mta = h.arg /\ mta' = h.arg
    BY <1>1, <1>3, <1>4, <1>5, <2>1, Effects
  <2> QED  BY <1>1, <2>1 DEF SetInv
<1>9. h.cmd \in Transfer =>
        /\ Len(stack) = 1 /\ h.cmd = Current.cmd /\ h.arg = Current.arg
        /\ mta = Target /\ slave.mta = Target
  <2>1. ASSUME h.cmd \in Transfer
        PROVE  Len(stack) = 1
    <3>1. h \notin PreActions
      BY <2>1 DEF Transfer, PreActions
    <3>2. 1 \notin 1 .. Len(stack) - 1
      BY <1>1, <1>2, <1>3, <3>1 DEF Exact, AboveInv, Above
    <3>3. \A k \in Nat : k >= 1 /\ 1 \notin 1 .. k - 1 => k = 1
      OBVIOUS
    <3>4. Len(stack) \in Nat /\ Len(stack) >= 1
      BY <1>3
    <3> QED  BY <3>2, <3>3, <3>4
  <2>2. ASSUME h.cmd \in Transfer
        PROVE  mta = Target /\ slave.mta = Target
    <3>1. Len(stack) = 1 /\ Current.cmd \in Transfer
      BY <1>3, <2>1, <2>2
    <3> QED  BY <1>1, <1>2, <3>1 DEF Exact, TransferInv, AtTransfer
  <2> QED  BY <1>3, <2>1, <2>2
<1>10. /\ \/ slave'.memory = slave.memory
          \/ /\ Current.cmd = "DOWNLOAD"
             /\ slave'.memory = [slave.memory EXCEPT ![Target] = Current.arg]
  <2>1. CASE h.cmd = "DOWNLOAD"
    BY <1>3, <1>4, <1>9, <2>1, Effects DEF Transfer
  <2>2. CASE h.cmd # "DOWNLOAD"
    BY <1>3, <1>4, <2>2, Effects
  <2> QED  BY <2>1, <2>2
<1>11. TransfersDone'
  BY <1>1, <1>2, <1>10, MemoryKept, MemoryWritten DEF Exact
<1>12. TransferInv'
  <2> SUFFICES ASSUME Current.cmd \in Transfer
               PROVE  /\ mta' = Target
                      /\ \/ Len(stack) = 1 /\ AtTransfer'
                         \/ Len(stack) = 2 /\ Resets(stack[1])
                         \/ Len(stack) = 3 /\ stack[1].cmd = "SYNCH" /\ Resets(stack[2])
    BY <1>1, <1>6 DEF TransferInv, Resets
  <2>1. /\ mta = Target
        /\ \/ Len(stack) = 1
           \/ Len(stack) = 2 /\ Resets(stack[1])
           \/ Len(stack) = 3 /\ stack[1].cmd = "SYNCH" /\ Resets(stack[2])
    BY <1>1, <1>2 DEF Exact, TransferInv
  <2>2. CASE Len(stack) = 1
    <3>1. /\ h.cmd = Current.cmd /\ h.arg = Current.arg /\ h.cmd # "SET_MTA"
          /\ slave.mta = Target
      BY <1>3, <1>9, <2>2 DEF Transfer
    <3>2. mta' = Target
      BY <1>1, <2>1, <3>1
    <3>3. ASSUME reply' = Answer(h), slave' = Executed(h)
          PROVE  reply'.pid = "RES" /\ Worked'
      <4>1. CASE h.cmd = "UPLOAD"
        BY <1>3, <1>6, <3>1, <3>3, <4>1, Effects DEF Worked
      <4>2. CASE h.cmd = "DOWNLOAD"
        <5>1. /\ reply'.pid = "RES"
              /\ slave'.memory = [slave.memory EXCEPT ![Target] = Current.arg]
          BY <1>3, <3>1, <3>3, <4>2, Effects
        <5>2. slave'.memory[Target] = Current.arg
          BY <1>1, <1>2, <3>1, <4>2, <5>1, MemoryWritten
        <5> QED  BY <1>6, <3>1, <4>2, <5>1, <5>2 DEF Worked
      <4> QED  BY <3>1, <4>1, <4>2 DEF Transfer
    <3>4. AtTransfer'
      BY <1>1, <1>4, <1>5, <1>6, <3>1, <3>3 DEF AtTransfer
    <3> QED  BY <2>2, <3>2, <3>4
  <2>3. CASE Len(stack) = 2 /\ Resets(stack[1])
    BY <1>1, <1>3, <2>3 DEF Resets
  <2>4. CASE Len(stack) = 3 /\ stack[1].cmd = "SYNCH" /\ Resets(stack[2])
    BY <1>1, <1>3, <2>1, <2>4
  <2> QED  BY <2>1, <2>2, <2>3, <2>4
<1> QED  BY <1>7, <1>8, <1>11, <1>12 DEF Exact
-----------------------------------------------------------------------------
(* Calling, returning and giving up.                                       *)
LEMMA CallExact ==
  ASSUME Context, Call
  PROVE  Exact'
<1> DEFINE h == Handler(Current.cmd, Current.arg)
<1>1. /\ pc = "idle" /\ pc' = "execute" /\ Len(results) < Len(script)
      /\ UNCHANGED <<script, results, mta, slave>>
      /\ stack' = Push(<<>>, h)
  BY DEF Call, Current
<1>2. IInv /\ Tidy /\ Exact
  BY DEF Context
<1>3. script \in Seq(Calls) /\ results \in Seq(Responses) /\ Len(results) \in Nat
  BY <1>2, ScriptsAssumption DEF IInv, TypeOK
<1>4. Current' = Current /\ Target' = Target
  BY <1>1 DEF Current, Target
<1>5. stack' = <<h>> /\ h.arg = Current.arg
  <2>1. h.arg = Current.arg
    BY DEF Handler
  <2> HIDE DEF h
  <2> QED  BY <1>1, <2>1 DEF Push
<1>6. ArgInv' /\ AboveInv' /\ SetInv' /\ IdleInv'
  <2> HIDE DEF h
  <2>1. Len(stack') = 1 /\ stack'[1] = h
    BY <1>5
  <2>2. Bottom(stack') = h /\ Above(stack', PreActions)
    BY <2>1 DEF Bottom, Above
  <2>3. ArgInv' /\ AboveInv'
    BY <1>4, <1>5, <2>2 DEF ArgInv, AboveInv, Bottom
  <2> QED  BY <1>1, <2>3 DEF SetInv, IdleInv
<1>7. TransferInv'
  <2> SUFFICES ASSUME Current.cmd \in Transfer
               PROVE  mta = Target /\ slave.mta = Target
    <3> HIDE DEF h
    <3> QED  BY <1>1, <1>4, <1>5 DEF TransferInv, AtTransfer
  <2> DEFINE n == Len(results) + 1
  <2>1. n \in 1 .. Len(script) /\ script[n].cmd \in Transfer
    BY <1>1, <1>3 DEF Current
  <2>2. n > 1 /\ script[n - 1].cmd = "SET_MTA"
    BY <1>2, <1>3, <2>1, PlaceOfTransfer DEF Tidy
  <2>3. n - 1 = Len(results) /\ Len(results) > 0
    BY <1>3, <2>2
  <2> QED  BY <1>1, <1>2, <2>2, <2>3 DEF Exact, IdleInv
<1>8. TransfersDone'
  BY <1>1, <1>2, MemoryKept DEF Exact
<1> QED  BY <1>6, <1>7, <1>8 DEF Exact

LEMMA ReturnExact ==
  ASSUME Context, Return
  PROVE  Exact'
<1> DEFINE h == Head(stack)
           n == Len(results) + 1
<1>1. /\ Running /\ pc = "handle" /\ pc' = "idle" /\ ~Failed(h) /\ Len(stack) = 1
      /\ results' = Append(results, reply) /\ UNCHANGED <<script, reply, mta, slave>>
  BY DEF Return, Returns, IsMain, Running
<1>2. IInv /\ Tidy /\ Exact
  BY DEF Context
<1>3. /\ script \in Seq(Calls) /\ results \in Seq(Responses) /\ Len(results) \in Nat
      /\ n \in 1 .. Len(script) /\ h.cmd = Current.cmd /\ h.arg = Current.arg
  BY <1>1, <1>2, RunningFacts DEF Exact, ArgInv
<1>4. /\ Len(results') = n /\ results'[n] = reply
      /\ \A i \in Done : results'[i] = results[i]
  BY <1>1, <1>3 DEF Done
<1>5. Current.cmd # "SYNCH" => reply.pid = "RES"
  BY <1>1, <1>3 DEF Failed
<1>6. ArgInv' /\ AboveInv' /\ SetInv' /\ TransferInv'
  BY <1>1 DEF ArgInv, AboveInv, SetInv, TransferInv, Running
<1>7. IdleInv'
  <2>1. Target' = Current.arg /\ script'[Len(results')] = Current
    BY <1>1, <1>4 DEF Target, Current
  <2>2. Current.cmd = "SET_MTA" => slave.mta = Current.arg /\ mta = Current.arg
    BY <1>1, <1>2, <1>3, <1>5 DEF Exact, SetInv
  <2> QED  BY <1>1, <2>1, <2>2 DEF IdleInv
<1>8. Current.cmd \in Transfer => Worked /\ MtaOf(n) = Target
  <2>1. ASSUME Current.cmd \in Transfer
        PROVE  Worked
    <3>1. AtTransfer
      BY <1>1, <1>2, <2>1 DEF Exact, TransferInv
    <3> QED  BY <1>1, <1>5, <2>1, <3>1 DEF AtTransfer, Transfer
  <2>2. Current.cmd \in Transfer => MtaOf(n) = Target
    BY <1>1, <1>2, TransferFacts
  <2> QED  BY <2>1, <2>2
<1>9. TransfersDone'
  <2> HIDE DEF n
  <2>1. \A i : MtaOf(i)' = MtaOf(i)
    BY <1>1, SameScript
  <2>2. TransfersDone
    BY <1>2 DEF Exact
  <2>3. ASSUME NEW i \in 1 .. Len(results')
        PROVE  /\ script[i].cmd = "UPLOAD" => results'[i].val = MtaOf(i)
               /\ script[i].cmd = "DOWNLOAD" => slave.memory[MtaOf(i)] = script[i].arg
    <3>1. CASE i = n
      <4>1. script[i] = Current
        BY <3>1 DEF n, Current
      <4> QED  BY <1>4, <1>8, <3>1, <4>1 DEF Worked, Transfer
    <3>2. CASE i # n
      <4>1. i \in Done
        BY <1>3, <1>4, <3>2 DEF Done, n
      <4> QED  BY <1>4, <2>2, <4>1 DEF TransfersDone
    <3> QED  BY <3>1, <3>2
  <2>4. ASSUME NEW a \in Addresses, slave.memory[a] # 0
        PROVE  \E i \in 1 .. Len(script) :
                 /\ script[i].cmd = "DOWNLOAD" /\ MtaOf(i) = a
                 /\ i <= Len(results') + 1 /\ slave.memory[a] = script[i].arg
    <3>1. PICK i \in 1 .. Len(script) :
            /\ script[i].cmd = "DOWNLOAD" /\ MtaOf(i) = a
            /\ i <= Len(results) + 1 /\ slave.memory[a] = script[i].arg
      BY <2>2, <2>4 DEF TransfersDone
    <3>2. i <= Len(results') + 1
      BY <1>3, <1>4, <3>1 DEF n
    <3> QED  BY <3>1, <3>2
  <2> QED  BY <1>1, <2>1, <2>3, <2>4 DEF TransfersDone, Done
<1> QED  BY <1>6, <1>7, <1>9 DEF Exact

LEMMA RaiseExact ==
  ASSUME Context, pc' \in Exceptions, UNCHANGED <<script, results, slave>>
  PROVE  Exact'
<1>1. pc' \notin {"idle", "execute", "handle"}
  BY DEF Exceptions
<1>2. ArgInv' /\ AboveInv' /\ SetInv' /\ IdleInv' /\ TransferInv'
  BY <1>1 DEF ArgInv, AboveInv, SetInv, IdleInv, TransferInv, Running
<1>3. TransfersDone'
  BY MemoryKept DEF Context, Exact
<1> QED  BY <1>2, <1>3 DEF Exact

(* Going on with another stack: what it must have.                         *)
LEMMA GoOnExact ==
  ASSUME Context, Running, pc' = "execute", UNCHANGED <<script, results, mta, slave>>,
         Bottom(stack').arg = Bottom(stack).arg, Above(stack', PreActions),
         Current.cmd \in Transfer =>
           \/ Len(stack') = 1 /\ slave.mta = Target
           \/ Len(stack') = 2 /\ Resets(stack'[1])
           \/ Len(stack') = 3 /\ stack'[1].cmd = "SYNCH" /\ Resets(stack'[2])
  PROVE  Exact'
<1>1. Current' = Current /\ Target' = Target
  BY DEF Current, Target
<1>2. Exact
  BY DEF Context
<1>3. ArgInv' /\ AboveInv' /\ SetInv' /\ IdleInv'
  BY <1>1, <1>2 DEF Exact, ArgInv, AboveInv, SetInv, IdleInv, Bottom, Above
<1>4. TransferInv'
  BY <1>1, <1>2 DEF Exact, TransferInv, AtTransfer, Resets
<1>5. TransfersDone'
  BY <1>2, MemoryKept DEF Exact
<1> QED  BY <1>3, <1>4, <1>5 DEF Exact

LEMMA PreActionDoneExact ==
  ASSUME Context, PreActionDone
  PROVE  Exact'
<1> DEFINE h == Head(stack)
<1>1. /\ Running /\ pc = "handle" /\ ~Failed(h) /\ Len(stack) # 1
      /\ UNCHANGED <<script, results, mta, slave>>
      /\ \/ pc' \in Exceptions
         \/ pc' = "execute" /\ stack' = Tail(stack)
  BY DEF PreActionDone, Returns, IsMain, Running, Raise, Exceptions
<1>2. IInv /\ Exact
  BY DEF Context
<1>3. stack \in Seq(Handlers) /\ stack # <<>> /\ h = stack[1]
  BY <1>1, <1>2, RunningFacts
<1>4. CASE pc' = "execute" /\ stack' = Tail(stack)
  <2>1. Bottom(stack') = Bottom(stack) /\ Above(stack', PreActions)
    BY <1>1, <1>2, <1>3, <1>4, PopTop, PopAbove DEF Exact, AboveInv
  <2>2. ASSUME Current.cmd \in Transfer
        PROVE  \/ Len(stack') = 1 /\ slave.mta = Target
               \/ Len(stack') = 2 /\ Resets(stack'[1])
    <3>1. CASE Len(stack) = 2 /\ Resets(stack[1])
      <4>1. reply.pid = "RES" /\ h.cmd = "SET_MTA" /\ h.arg = Target
        BY <1>1, <1>3, <3>1 DEF Resets, Failed
      <4>2. slave.mta = Target
        BY <1>1, <1>2, <4>1 DEF Exact, SetInv
      <4> QED  BY <1>3, <1>4, <3>1, <4>2
    <3>2. CASE Len(stack) = 3 /\ Resets(stack[2])
      BY <1>3, <1>4, <3>2
    <3> QED  BY <1>1, <1>2, <2>2, <3>1, <3>2 DEF Exact, TransferInv
  <2> QED  BY <1>1, <1>4, <2>1, <2>2, GoOnExact
<1> QED  BY <1>1, <1>4, RaiseExact

LEMMA ResynchExact ==
  ASSUME Context, Resynch
  PROVE  Exact'
<1>1. /\ Running /\ pc = "handle" /\ reply.pid = "CMD_SYNCH" /\ pc' = "execute"
      /\ UNCHANGED <<script, results, mta, slave, stack>>
  BY DEF Resynch, Running
<1>2. Exact
  BY DEF Context
<1>3. Current.cmd \in Transfer =>
        \/ Len(stack) = 1 /\ slave.mta = Target
        \/ Len(stack) = 2 /\ Resets(stack[1])
        \/ Len(stack) = 3 /\ stack[1].cmd = "SYNCH" /\ Resets(stack[2])
  BY <1>1, <1>2 DEF Exact, TransferInv, AtTransfer
<1>4. Bottom(stack') = Bottom(stack) /\ Above(stack', PreActions)
  BY <1>1, <1>2 DEF Exact, AboveInv
<1> QED  BY <1>1, <1>3, <1>4, GoOnExact

-----------------------------------------------------------------------------
(* What the rows of a transfer put on the stack.                           *)
LEMMA PushedStack ==
  ASSUME NEW s \in Seq(Handlers), s # <<>>
  PROVE  /\ PushReversed(s, <<>>) = s
         /\ Head(s).cmd # "SYNCH" =>
              PushReversed(s, Synch) = <<Handler("SYNCH", 0)>> \o s
         /\ Head(s).cmd # "SET_MTA" =>
              PushReversed(s, SynchMta) =
                <<Handler("SYNCH", 0)>> \o (<<Handler("SET_MTA", mta)>> \o s)
<1> DEFINE y == Handler("SYNCH", 0)
           m == Handler("SET_MTA", mta)
<1>1. PreAction("SYNCH") = <<y>> /\ PreAction("SET_MTA") = <<m>>
  BY DEF PreAction
<1>2. y.cmd = "SYNCH" /\ m.cmd = "SET_MTA"
  BY DEF Handler
<1> HIDE DEF y, m
<1>3. PushAll(s, <<>>) = s
  BY DEF PushAll
<1>4. ASSUME NEW t, NEW x, t # <<>>, Head(t).cmd # x.cmd
      PROVE  PushAll(t, <<x>>) = <<x>> \o t
  BY <1>4 DEF PushAll, Push
<1>5. PushReversed(s, <<>>) = s
  BY <1>3 DEF PushReversed
<1>6. Head(s).cmd # "SYNCH" => PushReversed(s, Synch) = <<y>> \o s
  BY <1>1, <1>2, <1>3, <1>4 DEF PushReversed, Synch
<1>7. Head(s).cmd # "SET_MTA" => PushReversed(s, SynchMta) = <<y>> \o (<<m>> \o s)
  <2> SUFFICES ASSUME Head(s).cmd # "SET_MTA"
               PROVE  PushReversed(s, SynchMta) = <<y>> \o (<<m>> \o s)
    OBVIOUS
  <2> DEFINE t == <<m>> \o s
  <2>1. PushAll(s, <<m>>) = t
    BY <1>2, <1>4
  <2>2. t # <<>> /\ Head(t) = m
    OBVIOUS
  <2> HIDE DEF t
  <2>3. PushAll(t, <<y>>) = <<y>> \o t
    BY <1>2, <1>4, <2>2
  <2>4. PushReversed(s, SynchMta) = PushAll(PushAll(s, PreAction("SET_MTA")), PreAction("SYNCH"))
    BY DEF PushReversed, SynchMta
  <2>5. PushReversed(s, SynchMta) = <<y>> \o t
    BY <1>1, <2>1, <2>3, <2>4
  <2> QED  BY <2>5 DEF t
<1> QED  BY <1>5, <1>6, <1>7 DEF y, m

LEMMA HandleExact ==
  ASSUME Context, Handle
  PROVE  Exact'
<1> DEFINE h == Head(stack)
           a == Actions(h.cmd, reply.pid).preActions
           r == RepeaterOf(h, Actions(h.cmd, reply.pid))
           g == [h EXCEPT !.repeater = CountDown(r)]
           rest == <<g>> \o Tail(stack)
<1>1. /\ Running /\ pc = "handle" /\ Failed(h)
      /\ UNCHANGED <<script, results, mta, slave>>
      /\ \/ pc' \in Exceptions
         \/ /\ pc' = "execute" /\ HasHandler(h.cmd, reply.pid) /\ CanRepeat(r)
            /\ ~\E i \in 1 .. Len(a) : a[i] \in NotImplemented
            /\ stack' = PushReversed(rest, a)
  BY DEF Handle, Running, Raise, Exceptions
<1>2. IInv /\ Exact /\ mta \in Int
  BY DEF Context, IInv, TypeOK
<1>3. /\ stack \in Seq(Handlers) /\ stack # <<>> /\ h \in Handlers /\ h = stack[1]
      /\ Len(stack) \in Nat /\ Len(stack) >= 1 /\ (Len(stack) = 1 => h = Bottom(stack))
      /\ Bottom(stack).cmd = Current.cmd
  BY <1>1, <1>2, RunningFacts
<1>4. CASE /\ pc' = "execute" /\ HasHandler(h.cmd, reply.pid) /\ CanRepeat(r)
           /\ ~\E i \in 1 .. Len(a) : a[i] \in NotImplemented
           /\ stack' = PushReversed(rest, a)
  <2>1. g \in Handlers /\ g.cmd = h.cmd /\ g.arg = h.arg /\ CountDown(r) \in NoRepeater .. 2
    <3>1. g \in Handlers
      BY <1>3, <1>4, RepeaterStep
    <3>2. CountDown(r) \in NoRepeater .. 2
      <4>1. /\ r \in Infinite .. 2 /\ (r = Infinite => CountDown(r) = Infinite)
            /\ (r # Infinite => CountDown(r) \in 0 .. 1)
        BY <1>3, <1>4, RepeaterStep
      <4> QED  BY <4>1 DEF Infinite, NoRepeater
    <3> QED  BY <1>3, <3>1, <3>2 DEF Handlers
  <2> HIDE DEF g
  <2>2. /\ rest \in Seq(Handlers) /\ rest # <<>> /\ Len(rest) = Len(stack)
        /\ rest[1] = g /\ (\A k \in 2 .. Len(stack) : rest[k] = stack[k])
        /\ Bottom(rest).arg = Bottom(stack).arg
    BY <1>3, <2>1, ReplacedStack
  <2>3. Above(rest, PreActions)
    <3>1. h \in PreActions => g \in PreActions
      BY <2>1 DEF PreActions
    <3> QED  BY <1>1, <1>2, <1>3, <2>1, <3>1, ReplaceTopAbove DEF Exact, AboveInv
  <2> HIDE DEF rest
  <2>4. Bottom(stack').arg = Bottom(stack).arg /\ Above(stack', PreActions)
    <3> HIDE DEF a
    <3> QED  BY <1>2, <1>4, <2>2, <2>3, PushReversedBottom, PushReversedAbove, PreActionCommands
  <2>5. Head(rest) = g
    BY <2>2
  <2>6. reply.pid \in DOMAIN ERROR_MATRIX[h.cmd] /\ a = ERROR_MATRIX[h.cmd][reply.pid].preActions
    BY <1>4 DEF HasHandler, Actions
  <2>7. ASSUME Current.cmd \in Transfer
        PROVE  \/ Len(stack') = 1 /\ slave.mta = Target
               \/ Len(stack') = 2 /\ Resets(stack'[1])
               \/ Len(stack') = 3 /\ stack'[1].cmd = "SYNCH" /\ Resets(stack'[2])
    <3> DEFINE y == Handler("SYNCH", 0)
               m == Handler("SET_MTA", mta)
    <3>1. y.cmd = "SYNCH" /\ m.cmd = "SET_MTA" /\ m.arg = mta
      BY DEF Handler
    <3>2. mta = Target /\ y \in Handlers /\ m \in Handlers
      <4>1. mta = Target
        BY <1>1, <1>2, <2>7 DEF Exact, TransferInv
      <4>2. {"SYNCH", "SET_MTA"} \subseteq Commands
        BY DEF Commands
      <4> QED  BY <1>2, <4>1, <4>2 DEF Handler, Handlers, NoRepeater
    <3> HIDE DEF y, m, a
    <3>3. ASSUME a = <<>>
          PROVE  stack' = rest
      BY <1>4, <2>2, <3>3, PushedStack
    <3>4. CASE Len(stack) = 1 /\ AtTransfer
      <4>1. h.cmd \in Transfer
        BY <1>3, <2>7, <3>4
      <4>2. Timeout(ERROR_MATRIX[h.cmd], SynchMta) /\ Known(ERROR_MATRIX[h.cmd], Harmless)
        BY <4>1, TransferRows
      <4>3. CASE reply.pid = "TIMEOUT"
        <5>1. a = SynchMta
          BY <2>6, <4>2, <4>3 DEF Timeout
        <5>2. Head(rest).cmd # "SET_MTA"
          BY <2>1, <2>5, <4>1 DEF Transfer
        <5>3. stack' = <<y>> \o (<<m>> \o rest)
          BY <1>4, <2>2, <5>1, <5>2, PushedStack DEF y, m
        <5>4. Len(stack') = 3 /\ stack'[1] = y /\ stack'[2] = m
          <6> DEFINE t == <<m>> \o rest
                     u == <<y>> \o t
          <6>1. rest \in Seq(Handlers) /\ rest # <<>> /\ Len(rest) = 1
            BY <2>2, <3>4
          <6>2. t \in Seq(Handlers) /\ t # <<>> /\ Len(t) = Len(rest) + 1 /\ t[1] = m
            BY <3>2, <6>1, Prepended
          <6> HIDE DEF t
          <6>3. Len(u) = Len(t) + 1 /\ u[1] = y /\ u[2] = t[1]
            BY <3>2, <6>2, Prepended
          <6>4. stack' = u
            BY <5>3 DEF t
          <6> HIDE DEF u
          <6> QED  BY <6>1, <6>2, <6>3, <6>4
        <5> QED  BY <3>1, <3>2, <5>3, <5>4 DEF Resets
      <4>4. CASE reply.pid # "TIMEOUT"
        <5>1. a \in Harmless
          BY <2>6, <4>2, <4>4 DEF Known
        <5>2. a # <<"UNLOCK_SLAVE">>
          BY <1>4 DEF NotImplemented
        <5>3. stack' = rest
          BY <3>3, <5>1, <5>2 DEF Harmless
        <5>4. reply.pid # "RES" /\ slave.mta = Target
          BY <1>1, <3>4, <4>4 DEF AtTransfer, Failed
        <5> QED  BY <2>2, <3>4, <5>3, <5>4
      <4> QED  BY <4>3, <4>4
    <3>5. CASE Len(stack) = 2 /\ Resets(stack[1])
      <4>1. h.cmd = "SET_MTA" /\ h.arg = Target
        BY <1>3, <3>5 DEF Resets
      <4>2. a \in Resynchronising
        BY <2>6, <4>1, PreActionRows
      <4>3. CASE a = <<>>
        BY <2>1, <2>2, <3>3, <3>5, <4>1, <4>3 DEF Resets
      <4>4. CASE a = <<"SYNCH">>
        <5>1. stack' = <<y>> \o rest
          BY <1>4, <2>1, <2>2, <2>5, <4>1, <4>4, PushedStack DEF Synch, y
        <5>2. Len(stack') = 3 /\ stack'[1] = y /\ stack'[2] = rest[1]
          BY <2>2, <3>2, <3>5, <5>1, Prepended
        <5> QED  BY <2>1, <2>2, <3>1, <4>1, <5>1, <5>2 DEF Resets
      <4> QED  BY <4>2, <4>3, <4>4 DEF Resynchronising
    <3>6. CASE Len(stack) = 3 /\ stack[1].cmd = "SYNCH" /\ Resets(stack[2])
      <4>1. a = <<>>
        BY <1>3, <2>6, <3>6, PreActionRows
      <4> QED  BY <1>3, <2>1, <2>2, <3>3, <3>6, <4>1
    <3> QED  BY <1>1, <1>2, <2>7, <3>4, <3>5, <3>6 DEF Exact, TransferInv
  <2> QED  BY <1>1, <1>4, <2>4, <2>7, GoOnExact
<1> QED  BY <1>1, <1>4, RaiseExact

-----------------------------------------------------------------------------
ExactInv == Tidy /\ late = 0 => Exact

LEMMA InitExact == Init => ExactInv
<1> SUFFICES ASSUME Init PROVE Exact
  BY DEF ExactInv
<1>1. /\ pc = "idle" /\ results = <<>> /\ slave.memory = [a \in Addresses |-> 0]
  BY DEF Init
<1>2. Len(results) = 0 /\ Done = {}
  BY <1>1 DEF Done
<1>3. TransfersDone
  BY <1>1, <1>2 DEF TransfersDone
<1> QED
  BY <1>1, <1>2, <1>3 DEF Exact, ArgInv, AboveInv, SetInv, IdleInv, TransferInv, Running

LEMMA NextExact == IInv /\ ReplyInv /\ ExactInv /\ [Next]_vars => ExactInv'
<1> SUFFICES ASSUME IInv, ReplyInv, ExactInv, [Next]_vars, Tidy', late' = 0
             PROVE  Exact'
  BY DEF ExactInv
<1>1. late = 0 /\ script' = script
  <2>1. late \in Nat
    BY BoundsAssumption DEF IInv, TypeOK
  <2> QED
    BY <2>1 DEF Next, vars, faultVars, Call, Execute, Answered, Refused, Lost, Late,
         ExecuteFails, Return, PreActionDone, Resynch, Handle, ConnectGivenUp
<1>2. Context
  BY <1>1, SameScript DEF Context, ExactInv
<1>3. CASE ExecuteFails \/ ConnectGivenUp
  BY <1>2, <1>3, RaiseExact DEF ExecuteFails, ConnectGivenUp, Raise, Exceptions
<1>4. CASE UNCHANGED vars
  <2>1. UNCHANGED <<script, results, pc, stack, reply, mta, slave>>
    BY <1>4 DEF vars
  <2>2. Current' = Current /\ Target' = Target /\ Running' = Running
    BY <2>1 DEF Current, Target, Running
  <2>3. TransfersDone'
    BY <1>2, <2>1, MemoryKept DEF Context, Exact
  <2> QED
    BY <1>2, <2>1, <2>2, <2>3 DEF Context, Exact, ArgInv, AboveInv, SetInv, IdleInv,
         TransferInv, AtTransfer, Worked, Resets, Bottom
<1> QED
  BY <1>2, <1>3, <1>4, CallExact, ExecuteExact, ReturnExact, PreActionDoneExact,
     ResynchExact, HandleExact DEF Next

(* Whatever gets lost, refused or repeated on the way, every upload that   *)
(* has returned read the address of its setMta, every download wrote its   *)
(* data there, and nothing else in the memory has changed: as long as no   *)
(* answer comes after its time-out, for every script in which each         *)
(* transfer follows a setMta of its own and no two downloads disagree.     *)
THEOREM TransfersAreExact == Spec /\ Tidy => []TransferExact
<1> DEFINE I == IInv /\ ReplyInv /\ ExactInv /\ Tidy
<1>1. Init /\ Tidy => I
  BY InitIInv, InitExact DEF Init, ReplyInv, Done
<1>2. I /\ [Next]_vars => I'
  <2> SUFFICES ASSUME I, [Next]_vars PROVE I'
    OBVIOUS
  <2>1. script' = script
    BY DEF Next, vars, Call, Execute, ExecuteFails, Return, PreActionDone, Resynch,
           Handle, ConnectGivenUp
  <2> QED  BY <2>1, NextIInv, NextReplyInv, NextExact, SameScript
<1>3. I => TransferExact
  BY DEF ExactInv, Exact, TransferExact
<1> QED  BY <1>1, <1>2, <1>3, PTL DEF Spec

-----------------------------------------------------------------------------
(* LossesSurvived: a single lost frame ends no call.                      *)
-----------------------------------------------------------------------------
(* Every command of the matrix has a row for a time-out that repeats it at *)
(* least twice.                                                            *)
Recoveries == {<<>>, Synch, SynchMta, SynchDaqPtr, <<"SYNCH", "DOWNLOAD">>,
               <<"SYNCH", "PROGRAM">>}
Recovers(rows) ==
  /\ "TIMEOUT" \in DOMAIN rows
  /\ rows["TIMEOUT"].action \in {"REPEAT_2_TIMES", "REPEAT_INF_TIMES"}
  /\ rows["TIMEOUT"].preActions \in Recoveries
AllRecover(commands) == \A c \in DOMAIN commands : Recovers(commands[c])

LEMMA UnionRecovers ==
  ASSUME NEW f, NEW g, Recovers(f)
  PROVE  Recovers(f ++ g)
BY DEF Recovers, ++
LEMMA CommandsRecover ==
  ASSUME NEW f, NEW g, AllRecover(f), AllRecover(g)
  PROVE  AllRecover(f ++ g)
BY DEF AllRecover, ++

LEMMA SharedRecover ==
  \A t \in Recoveries : Recovers(Basic(t)) /\ Recovers(Plain(t)) /\ Recovers(Checked(t)) /\
         Recovers(Guarded(t)) /\ Recovers(Flash(t))
<1> SUFFICES ASSUME NEW t \in Recoveries
             PROVE  Recovers(Basic(t)) /\ Recovers(Plain(t)) /\ Recovers(Checked(t)) /\
                    Recovers(Guarded(t)) /\ Recovers(Flash(t))
  OBVIOUS
<1>1. Recovers(On({"TIMEOUT"}, Row(t, "REPEAT_2_TIMES")))
  BY DEF Recovers, On, Row
<1>2. Recovers(Basic(t))
  BY <1>1, UnionRecovers DEF Basic
<1>3. Recovers(Plain(t))
  BY <1>2, UnionRecovers DEF Plain
<1> QED  BY <1>2, <1>3, UnionRecovers DEF Checked, Guarded, Flash

LEMMA RowsRecover ==
  /\ \A a \in {"REPEAT_2_TIMES", "REPEAT_INF_TIMES"}, t \in Recoveries :
       Recovers(On({"TIMEOUT"}, Row(t, a)))
  /\ Recovers(Twice({"TIMEOUT"}))
  /\ \A t \in Recoveries : Recovers(Described(Guarded(t))) /\ Recovers(Described(Flash(t)))
  /\ Recovers(Allocation)
<1>1. \A a \in {"REPEAT_2_TIMES", "REPEAT_INF_TIMES"}, t \in Recoveries :
        Recovers(On({"TIMEOUT"}, Row(t, a)))
  BY DEF Recovers, On, Row
<1>2. Recovers(Twice({"TIMEOUT"}))
  BY <1>1 DEF Twice, Recoveries
<1>3. \A t \in Recoveries : Recovers(Described(Guarded(t))) /\ Recovers(Described(Flash(t)))
  BY SharedRecover, UnionRecovers DEF Described
<1>4. Recovers(Allocation)
  BY SharedRecover, UnionRecovers DEF Allocation, Recoveries
<1> QED  BY <1>1, <1>2, <1>3, <1>4

LEMMA MatrixRecovers == AllRecover(ERROR_MATRIX)
<1> USE SharedRecover, RowsRecover, UnionRecovers DEF Recoveries
<1>1. AllRecover(SessionCommands)
  BY DEF AllRecover, SessionCommands
<1>2. AllRecover(MemoryCommands)
  BY DEF AllRecover, MemoryCommands
<1>3. AllRecover(PageCommands)
  BY DEF AllRecover, PageCommands
<1>4. AllRecover(DaqCommands)
  BY DEF AllRecover, DaqCommands
<1>5. AllRecover(DynamicDaqCommands)
  BY DEF AllRecover, DynamicDaqCommands
<1>6. AllRecover(ProgramCommands)
  BY DEF AllRecover, ProgramCommands
<1> QED
  BY <1>1, <1>2, <1>3, <1>4, <1>5, <1>6, CommandsRecover DEF ERROR_MATRIX

LEMMA MatrixComplete == Commands \subseteq DOMAIN ERROR_MATRIX
<1>1. ASSUME NEW f, NEW g PROVE DOMAIN (f ++ g) = DOMAIN f \cup DOMAIN g
  BY DEF ++
<1>2. DOMAIN ERROR_MATRIX =
        DOMAIN SessionCommands \cup DOMAIN MemoryCommands \cup DOMAIN PageCommands \cup
        DOMAIN DaqCommands \cup DOMAIN DynamicDaqCommands \cup DOMAIN ProgramCommands
  <2> DEFINE two == SessionCommands ++ MemoryCommands
             three == two ++ PageCommands
             four == three ++ DaqCommands
             five == four ++ DynamicDaqCommands
  <2>1. DOMAIN two = DOMAIN SessionCommands \cup DOMAIN MemoryCommands
    BY <1>1
  <2>2. DOMAIN three = DOMAIN two \cup DOMAIN PageCommands
    BY <1>1
  <2>3. DOMAIN four = DOMAIN three \cup DOMAIN DaqCommands
    BY <1>1
  <2>4. DOMAIN five = DOMAIN four \cup DOMAIN DynamicDaqCommands
    BY <1>1
  <2>5. ERROR_MATRIX = five ++ ProgramCommands
    BY DEF ERROR_MATRIX
  <2> HIDE DEF two, three, four, five
  <2>6. DOMAIN ERROR_MATRIX = DOMAIN five \cup DOMAIN ProgramCommands
    BY <1>1, <2>5
  <2> QED  BY <2>1, <2>2, <2>3, <2>4, <2>6
<1>3. {"CONNECT", "DISCONNECT", "GET_STATUS", "SYNCH", "GET_COMM_MODE_INFO", "GET_ID",
       "SET_REQUEST", "GET_SEED", "UNLOCK", "SET_MTA", "UPLOAD", "SHORT_UPLOAD"}
        \subseteq DOMAIN SessionCommands
  BY DEF SessionCommands
<1>4. {"BUILD_CHECKSUM", "TRANSPORT_LAYER_CMD", "USER_CMD", "DOWNLOAD", "DOWNLOAD_NEXT",
       "DOWNLOAD_MAX", "SHORT_DOWNLOAD", "MODIFY_BITS"} \subseteq DOMAIN MemoryCommands
  BY DEF MemoryCommands
<1>5. {"SET_CAL_PAGE", "GET_CAL_PAGE", "GET_PAG_PROCESSOR_INFO", "GET_SEGMENT_INFO",
       "GET_PAGE_INFO", "SET_SEGMENT_MODE", "GET_SEGMENT_MODE", "COPY_CAL_PAGE"}
        \subseteq DOMAIN PageCommands
  BY DEF PageCommands
<1>6. {"SET_DAQ_PTR", "WRITE_DAQ", "SET_DAQ_LIST_MODE", "START_STOP_DAQ_LIST",
       "START_STOP_SYNCH", "CLEAR_DAQ_LIST", "GET_DAQ_LIST_INFO", "WRITE_DAQ_MULTIPLE",
       "READ_DAQ", "GET_DAQ_CLOCK"} \subseteq DOMAIN DaqCommands
  BY DEF DaqCommands
<1>7. {"GET_DAQ_PROCESSOR_INFO", "GET_DAQ_RESOLUTION_INFO", "GET_DAQ_LIST_MODE",
       "GET_DAQ_EVENT_INFO", "FREE_DAQ", "ALLOC_DAQ", "ALLOC_ODT", "ALLOC_ODT_ENTRY"}
        \subseteq DOMAIN DynamicDaqCommands
  BY DEF DynamicDaqCommands
<1>8. {"PROGRAM_START", "PROGRAM_CLEAR", "PROGRAM", "PROGRAM_RESET",
       "GET_PGM_PROCESSOR_INFO", "GET_SECTOR_INFO", "PROGRAM_PREPARE", "PROGRAM_FORMAT",
       "PROGRAM_NEXT", "PROGRAM_MAX", "PROGRAM_VERIFY"} \subseteq DOMAIN ProgramCommands
  BY DEF ProgramCommands
<1> QED
  BY <1>2, <1>3, <1>4, <1>5, <1>6, <1>7, <1>8 DEF Commands

LEMMA RecoveryActions ==
  ASSUME NEW a \in Recoveries
  PROVE  LET all == {a[k] : k \in 1 .. Len(a)}
         IN (a # <<>> => Head(a) \in all) /\ (~(Len(a) < 2) => a[2] \in all)
<1>1. CASE a = <<>>
  BY <1>1
<1>2. CASE a = Synch
  BY <1>2 DEF Synch
<1>3. CASE a \in {SynchMta, SynchDaqPtr, <<"SYNCH", "DOWNLOAD">>, <<"SYNCH", "PROGRAM">>}
  BY <1>3 DEF SynchMta, SynchDaqPtr
<1> QED  BY <1>1, <1>2, <1>3 DEF Recoveries

LEMMA AllocRows ==
  LET rows == ERROR_MATRIX["ALLOC_DAQ"]
  IN /\ Timeout(rows, Synch) /\ rows["TIMEOUT"].action = "REPEAT_2_TIMES"
     /\ "SEQUENCE" \in DOMAIN rows
     /\ rows["SEQUENCE"] = Row(<<"REINIT_DAQ">>, "REPEAT_2_TIMES")
<1>1. /\ "ALLOC_DAQ" \in DOMAIN DynamicDaqCommands
      /\ "ALLOC_DAQ" \notin DOMAIN SessionCommands /\ "ALLOC_DAQ" \notin DOMAIN MemoryCommands
      /\ "ALLOC_DAQ" \notin DOMAIN PageCommands /\ "ALLOC_DAQ" \notin DOMAIN DaqCommands
      /\ DynamicDaqCommands["ALLOC_DAQ"] = Allocation
  BY DEF DynamicDaqCommands, SessionCommands, MemoryCommands, PageCommands, DaqCommands
<1>2. ERROR_MATRIX["ALLOC_DAQ"] = Allocation
  <2> DEFINE four == SessionCommands ++ MemoryCommands ++ PageCommands ++ DaqCommands
  <2>1. "ALLOC_DAQ" \notin DOMAIN four
    BY <1>1 DEF ++
  <2> HIDE DEF four
  <2>2. /\ "ALLOC_DAQ" \in DOMAIN (four ++ DynamicDaqCommands)
        /\ (four ++ DynamicDaqCommands)["ALLOC_DAQ"] = Allocation
    BY <1>1, <2>1, UnionRight
  <2>3. ERROR_MATRIX = (four ++ DynamicDaqCommands) ++ ProgramCommands
    BY DEF ERROR_MATRIX, four
  <2> QED  BY <2>2, <2>3, UnionLeft
<1> DEFINE basic == Basic(Synch)
           guarded == Guarded(Synch)
           known == guarded ++ Unknown ++ OutOfRange ++ Again
           rest == On({"MEMORY_OVERFLOW"}, Row(<<"REINIT_DAQ">>, "RETRY_PARAM"))
           row == Row(<<"REINIT_DAQ">>, "REPEAT_2_TIMES")
<1>3. /\ "TIMEOUT" \in DOMAIN basic /\ basic["TIMEOUT"] = Row(Synch, "REPEAT_2_TIMES")
      /\ "SEQUENCE" \notin DOMAIN basic
  BY DEF Basic, On, ++
<1>4. /\ "TIMEOUT" \in DOMAIN guarded /\ guarded["TIMEOUT"] = Row(Synch, "REPEAT_2_TIMES")
      /\ "SEQUENCE" \notin DOMAIN guarded
  <2> HIDE DEF basic
  <2> QED  BY <1>3, SMTT(40) DEF Guarded, Plain, Locked, On, ++, basic
<1>5. /\ "TIMEOUT" \in DOMAIN known /\ known["TIMEOUT"] = Row(Synch, "REPEAT_2_TIMES")
      /\ "SEQUENCE" \notin DOMAIN known
  <2> HIDE DEF guarded
  <2> QED  BY <1>4 DEF Unknown, OutOfRange, Again, Show, Param, On, ++
<1>6. Allocation = (known ++ On({"SEQUENCE"}, row)) ++ rest
  BY DEF Allocation
<1>7. "SEQUENCE" \in DOMAIN On({"SEQUENCE"}, row) /\ On({"SEQUENCE"}, row)["SEQUENCE"] = row
  BY DEF On
<1> HIDE DEF known, rest, row
<1>8. /\ "TIMEOUT" \in DOMAIN Allocation /\ Allocation["TIMEOUT"] = Row(Synch, "REPEAT_2_TIMES")
  BY <1>5, <1>6, UnionLeft
<1>9. "SEQUENCE" \in DOMAIN Allocation /\ Allocation["SEQUENCE"] = row
  BY <1>5, <1>6, <1>7, UnionLeft, UnionRight
<1> QED  BY <1>2, <1>8, <1>9 DEF Timeout, Row, row

-----------------------------------------------------------------------------
(* What is answered to a command that reaches the slave, and what that     *)
(* leaves there.                                                           *)
LEMMA Answers ==
  ASSUME NEW h \in Handlers, slave \in Slaves
  PROVE  /\ Answer(h).pid \in {"RES", "CMD_SYNCH", "SEQUENCE"}
         /\ Answer(h).pid = "CMD_SYNCH" <=> h.cmd = "SYNCH"
         /\ Answer(h).pid = "SEQUENCE" <=> h.cmd = "ALLOC_DAQ" /\ slave.allocated # 0
         /\ h.cmd = "FREE_DAQ" => Executed(h).allocated = 0
<1>1. h.cmd = "FREE_DAQ" => Executed(h).allocated = 0
  BY DEF Executed, Slaves
<1>2. CASE h.cmd \in {"SYNCH", "UPLOAD"}
  BY <1>2 DEF Answer, Response
<1>3. CASE h.cmd \notin {"SYNCH", "UPLOAD"}
  <2>1. Answer(h) = IF h.cmd = "ALLOC_DAQ" /\ slave.allocated # 0
                      THEN Response(h, "SEQUENCE", 0) ELSE Response(h, "RES", 0)
    BY <1>3 DEF Answer
  <2>2. /\ Response(h, "SEQUENCE", 0).pid = "SEQUENCE"
        /\ Response(h, "RES", 0).pid = "RES"
    BY DEF Response
  <2>3. CASE h.cmd = "ALLOC_DAQ" /\ slave.allocated # 0
    BY <2>1, <2>2, <2>3
  <2>4. CASE ~(h.cmd = "ALLOC_DAQ" /\ slave.allocated # 0)
    <3>1. Answer(h).pid = "RES"
      BY <2>1, <2>2, <2>4
    <3> QED  BY <1>1, <1>3, <2>4, <3>1
  <2> QED  BY <2>3, <2>4
<1> QED  BY <1>1, <1>2, <1>3

(* The scripts and bounds the theorem is about: calls in the protocol's    *)
(* order, setMta of addresses, losses counted beyond the first, and a      *)
(* CONNECT that may be repeated at all.                                    *)
Recoverable ==
  /\ InOrder
  /\ \A i \in 1 .. Len(script) : script[i].cmd = "SET_MTA" => script[i].arg \in Addresses
  /\ MaxLosses >= 2 /\ ConnectRetries # 0
OneLoss == losses <= 1 /\ late = 0 /\ refusals = 0

(* A command either reaches the slave and is answered, or that was the one *)
(* loss.                                                                   *)
LEMMA LossOutcomes ==
  ASSUME IInv, ReplyInv, Execute, OneLoss, OneLoss', Recoverable
  PROVE  \/ losses' = losses /\ reply' = Answer(Head(stack)) /\ slave' = Executed(Head(stack))
         \/ losses = 0 /\ losses' = 1 /\ reply'.pid = "TIMEOUT"
<1> DEFINE h == Head(stack)
<1>1. /\ resQueue = <<>> /\ losses \in Nat /\ refusals = 0 /\ refusals' = 0 /\ losses' <= 1
      /\ late = 0 /\ late' = 0 /\ losses <= 1 /\ MaxLosses \in Nat /\ MaxLosses >= 2
  BY BoundsAssumption DEF IInv, TypeOK, ReplyInv, OneLoss, Recoverable
<1>2. CASE Answered(h)
  BY <1>1, <1>2 DEF Answered, Take, faultVars
<1>3. CASE Refused(h)
  BY <1>1, <1>3 DEF Refused
<1>4. CASE Lost(h)
  <2>1. losses' = losses + 1
    BY <1>1, <1>4 DEF Lost, CountUp
  <2>2. reply' = Response(h, "TIMEOUT", 0)
    BY <1>1, <1>4 DEF Lost, Take
  <2> QED  BY <1>1, <2>1, <2>2 DEF Response
<1>5. CASE Late(h)
  BY <1>1, <1>5 DEF Late
<1> QED  BY <1>2, <1>3, <1>4, <1>5 DEF Execute

-----------------------------------------------------------------------------
(* The inductive invariant.  Once a setMta has been made there is an MTA   *)
(* to set again (MtaInv); FREE_DAQ has freed (FreeInv); and while a call   *)
(* runs, its command has met no loss, or it just has, or it recovers: with *)
(* pre-actions that have not failed, and either nothing left that fails,   *)
(* or an ALLOC_DAQ that may find its lists allocated already, and once     *)
(* more be repeated.                                                       *)
Fresh == {h \in PreActions : h.repeater = NoRepeater /\ (h.cmd = "SET_MTA" => h.arg # NoMta)}
MtaInv ==
  /\ \A j \in Done : script[j].cmd = "SET_MTA" => mta # NoMta
  /\ pc = "handle" /\ Head(stack).cmd = "SET_MTA" => mta # NoMta
FreeInv ==
  /\ pc = "handle" /\ Head(stack).cmd = "FREE_DAQ" /\ reply.pid = "RES" =>
       slave.allocated = 0
  /\ pc = "idle" /\ Len(results) > 0 /\ script[Len(results)].cmd = "FREE_DAQ" =>
       slave.allocated = 0

Succeeded == pc = "handle" => ~Failed(Head(stack))
FirstTry ==
  Len(stack) = 1 /\ Bottom(stack).repeater = NoRepeater /\ connectRetries = ConnectRetries
Unharmed ==
  /\ losses = 0 /\ FirstTry /\ Succeeded
  /\ pc = "execute" /\ Current.cmd = "ALLOC_DAQ" => slave.allocated = 0
Harmed == losses = 1 /\ FirstTry /\ pc = "handle" /\ reply.pid = "TIMEOUT"
Ends ==
  /\ losses = 1 /\ Succeeded
  /\ Current.cmd = "ALLOC_DAQ" =>
       \/ Len(stack) = 2 /\ stack[1].cmd = "FREE_DAQ"
       \/ Len(stack) = 1 /\ (pc = "execute" => slave.allocated = 0)
OnceMore ==
  /\ losses = 1 /\ Current.cmd = "ALLOC_DAQ" /\ Bottom(stack).repeater = 1
  /\ Succeeded \/ (Len(stack) = 1 /\ reply.pid = "SEQUENCE")
RecoveryInv ==
  Running =>
    /\ Bottom(stack).arg = Current.arg /\ Above(stack, Fresh)
    /\ Unharmed \/ Harmed \/ Ends \/ OnceMore

Calm == MtaInv /\ FreeInv /\ RecoveryInv /\ pc \notin Exceptions
Situation == IInv /\ ReplyInv /\ Recoverable /\ OneLoss /\ Calm

LEMMA TopIsFresh ==
  ASSUME Situation, Running, Len(stack) # 1
  PROVE  Head(stack) \in Fresh /\ Head(stack).cmd \in {"SYNCH", "SET_MTA", "FREE_DAQ"}
<1>1. Len(stack) \in Nat /\ Len(stack) >= 1 /\ Head(stack) = stack[1]
  BY RunningFacts DEF Situation
<1>2. \A n \in Nat : n >= 1 /\ n # 1 => 1 \in 1 .. n - 1
  OBVIOUS
<1>3. 1 \in 1 .. Len(stack) - 1
  BY <1>1, <1>2
<1>4. stack[1] \in Fresh
  BY <1>3 DEF Situation, Calm, RecoveryInv, Above
<1> QED  BY <1>1, <1>4 DEF Fresh, PreActions

LEMMA CallCalm ==
  ASSUME Situation, Call
  PROVE  Calm'
<1> DEFINE h == Handler(Current.cmd, Current.arg)
<1>1. /\ pc = "idle" /\ pc' = "execute" /\ Len(results) < Len(script)
      /\ UNCHANGED <<script, results, mta, slave, losses, reply>>
      /\ connectRetries' = ConnectRetries
      /\ stack' = Push(<<>>, h)
  BY DEF Call, Current, faultVars
<1>2. IInv /\ Recoverable /\ Calm /\ losses <= 1 /\ losses \in Nat
  BY BoundsAssumption DEF Situation, OneLoss, IInv, TypeOK
<1>3. script \in Seq(Calls) /\ results \in Seq(Responses) /\ Len(results) \in Nat
  BY <1>2, ScriptsAssumption DEF IInv, TypeOK
<1>4. Current' = Current /\ Done' = Done
  BY <1>1 DEF Current, Done
<1>5. h.arg = Current.arg /\ h.cmd = Current.cmd /\ h.repeater = NoRepeater
  BY DEF Handler
<1> HIDE DEF h
<1>6. stack' = <<h>>
  BY <1>1 DEF Push
<1>7. Len(stack') = 1 /\ Bottom(stack') = h /\ Above(stack', Fresh)
  <2>1. Len(stack') = 1 /\ stack'[1] = h
    BY <1>6
  <2> QED  BY <2>1 DEF Bottom, Above
<1>8. Current.cmd = "ALLOC_DAQ" => slave.allocated = 0
  <2> SUFFICES ASSUME Current.cmd = "ALLOC_DAQ" PROVE slave.allocated = 0
    OBVIOUS
  <2> DEFINE n == Len(results) + 1
  <2>1. n \in 1 .. Len(script) /\ script[n].cmd = "ALLOC_DAQ"
    BY <1>1, <1>3 DEF Current
  <2>2. n > 1 /\ script[n - 1].cmd = "FREE_DAQ"
    BY <1>2, <2>1 DEF Recoverable, InOrder
  <2>3. n - 1 = Len(results) /\ Len(results) > 0
    BY <1>3, <2>2
  <2> QED  BY <1>1, <1>2, <2>2, <2>3 DEF Calm, FreeInv
<1>9. Unharmed' \/ Ends'
  <2>1. FirstTry' /\ Succeeded'
    BY <1>1, <1>5, <1>7 DEF FirstTry, Succeeded, Bottom
  <2>2. CASE losses = 0
    BY <1>1, <1>4, <1>8, <2>1, <2>2 DEF Unharmed
  <2>3. CASE losses = 1
    BY <1>1, <1>4, <1>7, <1>8, <2>1, <2>3 DEF Ends
  <2> QED  BY <1>2, <2>2, <2>3
<1>10. MtaInv' /\ FreeInv' /\ pc' \notin Exceptions
  BY <1>1, <1>2, <1>4 DEF Calm, MtaInv, FreeInv, Exceptions
<1>11. Bottom(stack)'.arg = Current'.arg /\ Above(stack, Fresh)'
  BY <1>4, <1>5, <1>7 DEF Bottom, Above
<1> QED  BY <1>9, <1>10, <1>11 DEF Calm, RecoveryInv

LEMMA ExecuteCalm ==
  ASSUME Situation, Execute, OneLoss'
  PROVE  Calm'
<1> DEFINE h == Head(stack)
<1>1. /\ Running /\ Running' /\ pc = "execute" /\ pc' = "handle"
      /\ script' = script /\ results' = results /\ stack' = stack
      /\ connectRetries' = connectRetries
      /\ h.cmd = "SET_MTA" => h.arg # NoMta
      /\ mta' = IF h.cmd = "SET_MTA" THEN h.arg ELSE mta
  BY DEF Execute, Running
<1>2. IInv /\ ReplyInv /\ Recoverable /\ Calm /\ RecoveryInv /\ OneLoss
  BY DEF Situation, Calm
<1>3. /\ h \in Handlers /\ slave \in Slaves /\ Len(stack) \in Nat
      /\ (Len(stack) = 1 => h = Bottom(stack)) /\ Bottom(stack).cmd = Current.cmd
  BY <1>1, <1>2, RunningFacts DEF IInv, TypeOK
<1>4. \/ losses' = losses /\ reply' = Answer(h) /\ slave' = Executed(h)
      \/ losses = 0 /\ losses' = 1 /\ reply'.pid = "TIMEOUT"
  BY <1>2, LossOutcomes
<1>5. Current' = Current /\ Done' = Done /\ Bottom(stack)' = Bottom(stack)
  BY <1>1 DEF Current, Done, Bottom
<1>6. MtaInv' /\ pc' \notin Exceptions
  BY <1>1, <1>2, <1>5 DEF Calm, MtaInv, Exceptions
<1>7. FreeInv'
  BY <1>1, <1>3, <1>4, Answers DEF FreeInv
<1>8. Len(stack) # 1 => h.cmd \in {"SYNCH", "SET_MTA", "FREE_DAQ"}
  BY <1>1, TopIsFresh
<1>9. ASSUME reply' = Answer(h), h.cmd = "ALLOC_DAQ" => slave.allocated = 0
      PROVE  Succeeded'
  BY <1>1, <1>3, <1>9, Answers DEF Succeeded, Failed
<1>10. Unharmed' \/ Harmed' \/ Ends' \/ OnceMore'
  <2>1. CASE Unharmed /\ reply' = Answer(h) /\ losses' = losses
    <3>1. Succeeded'
      BY <1>1, <1>3, <1>9, <2>1 DEF Unharmed, FirstTry
    <3> QED  BY <1>1, <1>5, <2>1, <3>1 DEF Unharmed, FirstTry
  <2>2. CASE Unharmed /\ losses' = 1 /\ reply'.pid = "TIMEOUT"
    BY <1>1, <1>5, <2>2 DEF Unharmed, FirstTry, Harmed
  <2>3. CASE Ends
    <3>1. losses' = losses /\ reply' = Answer(h)
      BY <1>4, <2>3 DEF Ends
    <3>2. Succeeded'
      BY <1>1, <1>3, <1>8, <1>9, <2>3, <3>1 DEF Ends
    <3> QED  BY <1>1, <1>5, <2>3, <3>1, <3>2 DEF Ends
  <2>4. CASE OnceMore
    <3>1. losses' = losses /\ reply' = Answer(h)
      BY <1>4, <2>4 DEF OnceMore
    <3>2. Succeeded' \/ (Len(stack) = 1 /\ reply'.pid = "SEQUENCE")
      BY <1>3, <1>8, <1>9, <3>1, Answers
    <3> QED  BY <1>1, <1>5, <2>4, <3>1, <3>2 DEF OnceMore
  <2>5. ~Harmed
    BY <1>1 DEF Harmed
  <2> QED  BY <1>1, <1>2, <1>4, <2>1, <2>2, <2>3, <2>4, <2>5 DEF RecoveryInv, Unharmed
<1>11. Bottom(stack)'.arg = Current'.arg /\ Above(stack, Fresh)'
  BY <1>1, <1>2, <1>5 DEF RecoveryInv, Above
<1> QED  BY <1>6, <1>7, <1>10, <1>11 DEF Calm, RecoveryInv

(* Nothing of what ends a call happens.                                    *)
LEMMA ExecuteFailsNever ==
  ASSUME Situation
  PROVE  ~ExecuteFails
<1> SUFFICES ASSUME ExecuteFails PROVE FALSE
  OBVIOUS
<1>1. Running /\ Head(stack).cmd = "SET_MTA" /\ Head(stack).arg = NoMta
  BY DEF ExecuteFails, Running
<1>2. CASE Len(stack) = 1
  <2>1. /\ Current.cmd = "SET_MTA" /\ Current.arg = NoMta
        /\ Len(results) + 1 \in 1 .. Len(script)
    BY <1>1, <1>2, RunningFacts DEF Situation, Calm, RecoveryInv
  <2>2. Current.arg \in Addresses
    BY <2>1 DEF Situation, Recoverable, Current
  <2> QED  BY <2>1, <2>2, AddressesAssumption DEF NoMta
<1>3. CASE Len(stack) # 1
  BY <1>1, <1>3, TopIsFresh DEF Fresh
<1> QED  BY <1>2, <1>3

LEMMA ResynchNever ==
  ASSUME Situation
  PROVE  ~Resynch /\ ~ConnectGivenUp
<1>1. ASSUME Running, pc = "handle", Failed(Head(stack))
      PROVE  \/ reply.pid = "TIMEOUT" /\ connectRetries = ConnectRetries
             \/ reply.pid = "SEQUENCE"
  BY <1>1 DEF Situation, Calm, RecoveryInv, Unharmed, Harmed, FirstTry, Ends, OnceMore, Succeeded
<1>2. ~Resynch
  BY <1>1 DEF Resynch, Running
<1>3. ~ConnectGivenUp
  BY <1>1 DEF ConnectGivenUp, IsConnectTimeout, Failed, Running, Situation, Recoverable
<1> QED  BY <1>2, <1>3

LEMMA ReturnCalm ==
  ASSUME Situation, Return
  PROVE  Calm'
<1> DEFINE h == Head(stack)
           n == Len(results) + 1
<1>1. /\ Running /\ pc = "handle" /\ pc' = "idle" /\ ~Failed(h) /\ Len(stack) = 1
      /\ results' = Append(results, reply) /\ UNCHANGED <<script, reply, mta, slave>>
  BY DEF Return, Returns, IsMain, Running
<1>2. IInv /\ Calm
  BY DEF Situation
<1>3. /\ script \in Seq(Calls) /\ results \in Seq(Responses) /\ Len(results) \in Nat
      /\ h.cmd = script[n].cmd
  BY <1>1, <1>2, RunningFacts DEF Current
<1>4. Len(results') = n /\ \A j \in 1 .. n : j = n \/ j \in Done
  BY <1>1, <1>3 DEF Done
<1>5. MtaInv'
  BY <1>1, <1>2, <1>3, <1>4 DEF Calm, MtaInv, Done
<1>6. FreeInv'
  BY <1>1, <1>2, <1>3, <1>4 DEF Calm, FreeInv, Failed
<1>7. RecoveryInv' /\ pc' \notin Exceptions
  BY <1>1 DEF RecoveryInv, Running, Exceptions
<1> QED  BY <1>5, <1>6, <1>7 DEF Calm

(* Going on with another stack, the slave as it is.                        *)
LEMMA GoOnCalm ==
  ASSUME Situation, Running, pc' = "execute", UNCHANGED <<script, results, mta, slave>>,
         Bottom(stack').arg = Bottom(stack).arg, Above(stack', Fresh),
         Ends' \/ OnceMore'
  PROVE  Calm'
<1>1. Current' = Current /\ Done' = Done /\ Bottom(stack)' = Bottom(stack')
  BY DEF Current, Done, Bottom
<1>2. MtaInv' /\ FreeInv' /\ pc' \notin Exceptions
  BY <1>1 DEF Situation, Calm, MtaInv, FreeInv, Exceptions
<1>3. RecoveryInv'
  BY <1>1 DEF Situation, Calm, RecoveryInv, Above
<1> QED  BY <1>2, <1>3 DEF Calm

LEMMA PreActionDoneCalm ==
  ASSUME Situation, PreActionDone
  PROVE  Calm'
<1> DEFINE h == Head(stack)
<1>1. /\ Running /\ pc = "handle" /\ ~Failed(h) /\ Len(stack) # 1
      /\ UNCHANGED <<script, results, mta, slave, losses, reply>>
  BY DEF PreActionDone, Returns, IsMain, Running, faultVars
<1>2. IInv /\ Calm /\ RecoveryInv
  BY DEF Situation, Calm
<1>3. stack \in Seq(Handlers) /\ stack # <<>> /\ h = stack[1] /\ Len(stack) \in Nat
  BY <1>1, <1>2, RunningFacts
<1>4. h.repeater = NoRepeater
  BY <1>1, TopIsFresh DEF Fresh
<1>5. stack' = Tail(stack) /\ pc' = "execute"
  BY <1>4 DEF PreActionDone
<1>6. Bottom(stack') = Bottom(stack) /\ Above(stack', Fresh) /\ Len(stack') = Len(stack) - 1
  BY <1>1, <1>2, <1>3, <1>5, PopTop, PopAbove DEF RecoveryInv
<1>7. Current' = Current /\ Succeeded' /\ Bottom(stack)' = Bottom(stack)
  BY <1>1, <1>5, <1>6 DEF Current, Succeeded, Bottom
<1>8. CASE Ends
  <2>1. Len(stack) = 2 /\ stack[1].cmd = "FREE_DAQ" => slave.allocated = 0
    BY <1>1, <1>2, <1>3 DEF Calm, FreeInv, Failed
  <2>2. Ends'
    BY <1>1, <1>5, <1>6, <1>7, <1>8, <2>1 DEF Ends
  <2> QED  BY <1>1, <1>5, <1>6, <2>2, GoOnCalm
<1>9. CASE OnceMore
  <2>1. OnceMore'
    BY <1>1, <1>7, <1>9 DEF OnceMore
  <2> QED  BY <1>1, <1>5, <1>6, <2>1, GoOnCalm
<1> QED  BY <1>1, <1>2, <1>8, <1>9 DEF RecoveryInv, Unharmed, Harmed, FirstTry

(* The handler of the command itself is the only one that ever fails; it   *)
(* is repeated under the pre-actions of its row.                           *)
LEMMA Repeated ==
  ASSUME Situation, Handle, Len(stack) = 1,
         HasHandler(Current.cmd, reply.pid),
         NEW row, row = Actions(Current.cmd, reply.pid),
         \A i \in 1 .. Len(row.preActions) : row.preActions[i] \notin NotImplemented,
         row.action \in Repeating, CanRepeat(RepeaterOf(Head(stack), row)),
         NEW a, a = row.preActions,
         a # <<>> => Pushes(Head(a), Fresh), ~(Len(a) < 2) => Pushes(a[2], Fresh)
  PROVE  LET g == [Head(stack) EXCEPT !.repeater = CountDown(RepeaterOf(Head(stack), row))]
             rest == <<g>> \o Tail(stack)
         IN /\ pc' = "execute" /\ stack' = PushReversed(rest, a)
            /\ rest \in Seq(Handlers) /\ Len(rest) = 1 /\ rest[1] = g
            /\ g \in Handlers /\ g.cmd = Current.cmd
            /\ g.repeater = CountDown(RepeaterOf(Head(stack), row))
            /\ Bottom(stack') = g /\ g.arg = Bottom(stack).arg /\ Above(stack', Fresh)
            /\ UNCHANGED <<script, results, mta, slave, losses>>
<1> DEFINE h == Head(stack)
           r == RepeaterOf(h, row)
           g == [h EXCEPT !.repeater = CountDown(r)]
           rest == <<g>> \o Tail(stack)
<1>1. IInv /\ Running /\ mta \in Int
  BY DEF Situation, Handle, Running, IInv, TypeOK
<1>2. /\ stack \in Seq(Handlers) /\ stack # <<>> /\ h \in Handlers
      /\ h = Bottom(stack) /\ h.cmd = Current.cmd
  BY <1>1, RunningFacts
<1>3. g \in Handlers /\ g.cmd = h.cmd /\ g.arg = h.arg /\ g.repeater = CountDown(r)
  <2>1. g \in Handlers
    BY <1>2, RepeaterStep
  <2> QED  BY <1>2, <2>1 DEF Handlers
<1>4. pc' = "execute" /\ stack' = PushReversed(rest, a)
  BY <1>2 DEF Handle
<1> HIDE DEF g
<1>5. /\ rest \in Seq(Handlers) /\ rest # <<>> /\ Len(rest) = 1 /\ rest[1] = g
  BY <1>2, <1>3, ReplacedStack
<1> HIDE DEF rest
<1>6. Bottom(rest) = g /\ Above(rest, Fresh)
  BY <1>5 DEF Bottom, Above
<1>7. Bottom(stack') = g
  BY <1>1, <1>4, <1>5, <1>6, PushReversedBottom
<1>8. Above(stack', Fresh)
  BY <1>1, <1>4, <1>5, <1>6, PushReversedAbove
<1>9. UNCHANGED <<script, results, mta, slave, losses>>
  BY DEF Handle, faultVars
<1> QED  BY <1>2, <1>3, <1>4, <1>5, <1>7, <1>8, <1>9 DEF g, rest

LEMMA HandleCalm ==
  ASSUME Situation, Handle
  PROVE  Calm'
<1> DEFINE h == Head(stack)
           c == Current.cmd
<1>1. Running /\ pc = "handle" /\ Failed(h)
  BY DEF Handle, Running
<1>2. IInv /\ Recoverable /\ Calm /\ RecoveryInv /\ mta \in Int
  BY DEF Situation, Calm, IInv, TypeOK
<1>3. /\ h \in Handlers /\ (Len(stack) = 1 => h = Bottom(stack)) /\ Bottom(stack).cmd = c
      /\ Len(results) \in Nat /\ Len(results) + 1 \in 1 .. Len(script)
      /\ c \in Commands
  BY <1>1, <1>2, RunningFacts DEF Calls
<1>4. Current' = Current
  BY DEF Handle, Current
<1>5. \A n : PreAction(n) # <<>> /\ (n = "SET_MTA" => mta # NoMta) => Head(PreAction(n)) \in Fresh
  <2> SUFFICES ASSUME NEW n, PreAction(n) # <<>>, n = "SET_MTA" => mta # NoMta
               PROVE  Head(PreAction(n)) \in Fresh
    OBVIOUS
  <2>1. Head(PreAction(n)) \in PreActions
    BY <1>2, PreActionCommands DEF Pushes
  <2>2. n \in {"SYNCH", "SET_MTA", "REINIT_DAQ"}
    BY DEF PreAction
  <2>3. /\ Head(PreAction(n)).repeater = NoRepeater
        /\ n # "SET_MTA" => Head(PreAction(n)).cmd # "SET_MTA"
        /\ n = "SET_MTA" => Head(PreAction(n)).arg = mta
    BY <2>2 DEF PreAction, Handler
  <2> QED  BY <2>1, <2>3 DEF Fresh
<1>6. CASE Harmed
  <2> DEFINE row == Actions(c, "TIMEOUT")
             a == row.preActions
             all == {a[k] : k \in 1 .. Len(a)}
  <2>1. /\ Len(stack) = 1 /\ h.repeater = NoRepeater /\ reply.pid = "TIMEOUT" /\ losses = 1
    BY <1>3, <1>6 DEF Harmed, FirstTry
  <2>2. /\ HasHandler(c, "TIMEOUT") /\ a \in Recoveries
        /\ row.action \in {"REPEAT_2_TIMES", "REPEAT_INF_TIMES"}
    BY <1>3, MatrixComplete, MatrixRecovers DEF AllRecover, Recovers, HasHandler, Actions
  <2>3. /\ all \cap NotImplemented = {}
        /\ "SET_MTA" \in all => mta # NoMta
    <3> DEFINE n == Len(results) + 1
    <3>1. /\ AfterTimeout(script[n].cmd) \cap NotImplemented = {}
          /\ "SET_MTA" \in AfterTimeout(script[n].cmd) =>
               \E j \in 1 .. n - 1 : script[j].cmd = "SET_MTA"
      BY <1>2, <1>3 DEF Recoverable, InOrder
    <3>2. AfterTimeout(script[n].cmd) = all
      BY DEF AfterTimeout, Current
    <3>3. 1 .. n - 1 = Done
      BY <1>3 DEF Done
    <3> QED  BY <1>2, <3>1, <3>2, <3>3 DEF Calm, MtaInv
  <2>4. (a # <<>> => Pushes(Head(a), Fresh)) /\ (~(Len(a) < 2) => Pushes(a[2], Fresh))
    <3>1. (a # <<>> => Head(a) \in all) /\ (~(Len(a) < 2) => a[2] \in all)
      BY <2>2, RecoveryActions
    <3>2. \A n \in all : n = "SET_MTA" => mta # NoMta
      BY <2>3
    <3> HIDE DEF all, a
    <3> QED  BY <1>5, <3>1, <3>2 DEF Pushes
  <2>5. /\ RepeaterOf(h, row) = Repetitions(row.action)
        /\ CanRepeat(RepeaterOf(h, row)) /\ row.action \in Repeating
        /\ row.action = "REPEAT_2_TIMES" => CountDown(RepeaterOf(h, row)) = 1
    <3>1. RepeaterOf(h, row) = Repetitions(row.action)
      BY <2>1 DEF RepeaterOf
    <3>2. Repetitions("REPEAT_2_TIMES") = 2 /\ Repetitions("REPEAT_INF_TIMES") = Infinite
      BY DEF Repetitions
    <3> QED  BY <2>2, <3>1, <3>2 DEF CanRepeat, CountDown, Repeating
  <2>6. \A i \in 1 .. Len(a) : a[i] \notin NotImplemented
    BY <2>3
  <2>7. /\ pc' = "execute" /\ Bottom(stack').repeater = CountDown(RepeaterOf(h, row))
        /\ Bottom(stack').arg = Bottom(stack).arg /\ Above(stack', Fresh)
        /\ UNCHANGED <<script, results, mta, slave, losses>>
    <3> HIDE DEF row
    <3> QED  BY <2>1, <2>2, <2>4, <2>5, <2>6, Repeated DEF row
  <2>8. Ends' \/ OnceMore'
    <3>1. Succeeded'
      BY <2>7 DEF Succeeded
    <3>2. c = "ALLOC_DAQ" => Bottom(stack').repeater = 1
      BY <2>5, <2>7, AllocRows DEF Actions
    <3> QED  BY <1>4, <2>1, <2>7, <3>1, <3>2 DEF Ends, OnceMore, Bottom
  <2> QED  BY <1>1, <2>7, <2>8, GoOnCalm
<1>7. CASE OnceMore /\ ~Succeeded
  <2> DEFINE row == Row(<<"REINIT_DAQ">>, "REPEAT_2_TIMES")
             a == <<"REINIT_DAQ">>
  <2>1. /\ Len(stack) = 1 /\ h.repeater = 1 /\ reply.pid = "SEQUENCE" /\ losses = 1
        /\ c = "ALLOC_DAQ"
    BY <1>3, <1>7 DEF OnceMore
  <2>2. HasHandler(c, "SEQUENCE") /\ Actions(c, "SEQUENCE") = row
    BY <2>1, AllocRows DEF HasHandler, Actions
  <2>3. row.preActions = a /\ row.action = "REPEAT_2_TIMES"
    BY DEF Row
  <2>4. RepeaterOf(h, row) = 1 /\ CanRepeat(1) /\ row.action \in Repeating
    BY <2>1, <2>3 DEF RepeaterOf, NoRepeater, CanRepeat, Repeating
  <2>5. (a # <<>> => Pushes(Head(a), Fresh)) /\ ~(~(Len(a) < 2))
    BY <1>5 DEF Pushes
  <2>6. \A i \in 1 .. Len(a) : a[i] \notin NotImplemented
    BY DEF NotImplemented
  <2> DEFINE g == [h EXCEPT !.repeater = CountDown(RepeaterOf(h, row))]
             rest == <<g>> \o Tail(stack)
  <2>7. /\ pc' = "execute" /\ stack' = PushReversed(rest, a) /\ g \in Handlers
        /\ rest \in Seq(Handlers) /\ Len(rest) = 1 /\ rest[1] = g /\ g.cmd = c
        /\ Bottom(stack') = g /\ g.arg = Bottom(stack).arg /\ Above(stack', Fresh)
        /\ UNCHANGED <<script, results, mta, slave, losses>>
    <3> HIDE DEF row, a
    <3> QED  BY <2>1, <2>2, <2>3, <2>4, <2>5, <2>6, Repeated
  <2>8. Len(stack') = 2 /\ stack'[1].cmd = "FREE_DAQ"
    <3> DEFINE f == Handler("FREE_DAQ", 0)
    <3>1. PreAction("REINIT_DAQ") = <<f>> /\ f.cmd = "FREE_DAQ"
      BY DEF PreAction, Handler
    <3>2. f \in Handlers
      BY DEF Handler, Handlers, NoRepeater, Commands
    <3> HIDE DEF f, g, row, rest
    <3>3. rest # <<>> /\ Head(rest) = g
      BY <2>7
    <3>4. PushReversed(rest, a) = PushAll(rest, <<f>>)
      BY <3>1 DEF PushReversed, PushAll
    <3>5. PushAll(rest, <<f>>) = <<f>> \o rest
      BY <2>1, <2>7, <3>1, <3>3 DEF PushAll, Push
    <3>6. Len(<<f>> \o rest) = 2 /\ (<<f>> \o rest)[1] = f
      <4>1. rest \in Seq(Handlers) /\ Len(rest) = 1
        BY <2>7
      <4>2. Len(<<f>> \o rest) = Len(rest) + 1 /\ (<<f>> \o rest)[1] = f
        BY <3>2, <3>3, <4>1, Prepended
      <4> QED  BY <4>1, <4>2
    <3> QED  BY <2>7, <3>1, <3>4, <3>5, <3>6
  <2>9. Ends'
    BY <1>4, <2>1, <2>7, <2>8 DEF Ends, Succeeded
  <2> QED  BY <1>1, <2>7, <2>9, GoOnCalm
<1>8. ~Succeeded
  BY <1>1 DEF Succeeded
<1> QED  BY <1>1, <1>2, <1>6, <1>7, <1>8 DEF RecoveryInv, Unharmed, Ends

-----------------------------------------------------------------------------
CalmInv == Recoverable /\ OneLoss => Calm

LEMMA InitCalm == Init => CalmInv
<1> SUFFICES ASSUME Init PROVE Calm
  BY DEF CalmInv
<1>1. pc = "idle" /\ results = <<>>
  BY DEF Init
<1> QED  BY <1>1 DEF Calm, MtaInv, FreeInv, RecoveryInv, Running, Done, Exceptions

LEMMA NextCalm == IInv /\ ReplyInv /\ CalmInv /\ [Next]_vars => CalmInv'
<1> SUFFICES ASSUME IInv, ReplyInv, CalmInv, [Next]_vars, Recoverable', OneLoss'
             PROVE  Calm'
  BY DEF CalmInv
<1>1. script' = script /\ OneLoss
  <2>1. losses \in Nat /\ late \in Nat /\ refusals \in Nat
    BY BoundsAssumption DEF IInv, TypeOK
  <2>2. CASE Execute
    BY <2>1, <2>2 DEF Execute, Answered, Refused, Lost, Late, CountUp, faultVars, OneLoss
  <2>3. CASE ~Execute
    BY <2>3 DEF Next, vars, faultVars, Call, ExecuteFails, Return, PreActionDone, Resynch,
         Handle, ConnectGivenUp, OneLoss
  <2> QED  BY <2>2, <2>3 DEF Execute
<1>2. Recoverable
  BY <1>1 DEF Recoverable, InOrder
<1>3. Situation
  BY <1>1, <1>2 DEF Situation, CalmInv
<1>4. CASE UNCHANGED vars
  <2>1. UNCHANGED <<script, results, pc, stack, reply, mta, slave, losses, connectRetries>>
    BY <1>4 DEF vars, faultVars
  <2> QED
    BY <1>3, <2>1 DEF Situation, Calm, MtaInv, FreeInv, RecoveryInv, Running, Current, Done,
         Bottom, Above, Unharmed, Harmed, Ends, OnceMore, FirstTry, Succeeded, Failed
<1> QED
  BY <1>3, <1>4, CallCalm, ExecuteCalm, ExecuteFailsNever, ResynchNever, ReturnCalm,
     PreActionDoneCalm, HandleCalm DEF Next

(* A single lost request or answer, wherever it is lost, ends no call of a *)
(* script in the protocol's order, whatever the commands: the repetitions  *)
(* and pre-actions of the matrix recover every one of them, if CONNECT may *)
(* be repeated at all.  (MaxLosses >= 2: the second loss is counted.)      *)
THEOREM SingleLossSurvived == Spec /\ Recoverable => []LossesSurvived
<1> DEFINE I == IInv /\ ReplyInv /\ CalmInv /\ Recoverable
<1>1. Init /\ Recoverable => I
  BY InitIInv, InitCalm DEF Init, ReplyInv, Done
<1>2. I /\ [Next]_vars => I'
  <2> SUFFICES ASSUME I, [Next]_vars PROVE I'
    OBVIOUS
  <2>1. script' = script
    BY DEF Next, vars, Call, Execute, ExecuteFails, Return, PreActionDone, Resynch,
           Handle, ConnectGivenUp
  <2>2. Recoverable'
    BY <2>1 DEF Recoverable, InOrder
  <2> QED  BY <2>2, NextIInv, NextReplyInv, NextCalm
<1>3. I => LossesSurvived
  BY DEF CalmInv, Calm, OneLoss, LossesSurvived
<1> QED  BY <1>1, <1>2, <1>3, PTL DEF Spec
=============================================================================
