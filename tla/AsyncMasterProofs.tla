-------------------------- MODULE AsyncMasterProofs --------------------------
(***************************************************************************)
(* Theorems about SharedExecutor and AsyncMaster, for every set of calls,  *)
(* every number of failures and every cancellation.                        *)
(***************************************************************************)
EXTENDS AsyncMaster, FiniteSetTheorems, SequenceTheorems, TLAPS

USE MastersAssumption, CallsAssumption, NumbersAssumption

LEMMA TailType ==
  ASSUME NEW S, NEW s \in Seq(S), s # <<>>
  PROVE  Head(s) \in S /\ Tail(s) \in Seq(S)
  OBVIOUS

LEMMA PushType ==
  ASSUME NEW S, NEW s \in Seq(S), NEW e \in S
  PROVE  <<e>> \o s \in Seq(S)
  OBVIOUS

LEMMA ConcatType ==
  ASSUME NEW S, NEW s \in Seq(S), NEW t \in Seq(S)
  PROVE  s \o t \in Seq(S)
  OBVIOUS

LEMMA RemovalType ==
  ASSUME NEW S, NEW s \in Seq(S), NEW i \in 1 .. Len(s)
  PROVE  WithoutAt(s, i) \in Seq(S)
<1>1. SubSeq(s, 1, i - 1) \in Seq(S)
  <2>1. \A k \in 1 .. i - 1 : s[k] \in S
    OBVIOUS
  <2> QED
    BY <2>1
<1>2. SubSeq(s, i + 1, Len(s)) \in Seq(S)
  <2>1. \A k \in i + 1 .. Len(s) : s[k] \in S
    OBVIOUS
  <2> QED
    BY <2>1
<1> QED
  BY <1>1, <1>2, ConcatType DEF WithoutAt

LEMMA WithoutType ==
  ASSUME NEW S, NEW s \in Seq(S), NEW c
  PROVE  Without(s, c) \in Seq(S)
<1>1. CASE \E i \in 1 .. Len(s) : s[i] = c
  <2> DEFINE i == CHOOSE i \in 1 .. Len(s) : s[i] = c
  <2>1. i \in 1 .. Len(s)
    BY <1>1
  <2>2. Without(s, c) = WithoutAt(s, i)
    BY <1>1 DEF Without
  <2> HIDE DEF i
  <2> QED
    BY <2>1, <2>2, RemovalType
<1>2. CASE ~(\E i \in 1 .. Len(s) : s[i] = c)
  BY <1>2 DEF Without
<1> QED
  BY <1>1, <1>2

LEMMA Names ==
  ASSUME NEW c \in Calls
  PROVE  Main(c) \in Handlers /\ Synch(c) \in Handlers /\ Main(c) # Synch(c)
  BY DEF Main, Synch, Handlers

-----------------------------------------------------------------------------
(* From `execute' to `act' a thread works on a handler.                    *)
TypeInv ==
  /\ TypeOK
  /\ \A c \in Calls : pc[c] \in {"execute", "pop", "test", "act"} => handler[c] \in Handlers

LEMMA TypeInit == Init => TypeInv
<1> SUFFICES ASSUME Init PROVE TypeInv
  OBVIOUS
<1> USE DEF Init, SharedInit
<1>1. /\ master \in [Calls -> Masters] /\ pc \in [Calls -> Places]
      /\ handlerStack \in Seq(Handlers) /\ service \in [Masters -> {"none", "main", "SYNCH"}]
  BY DEF Places
<1>2. /\ handler \in [Calls -> Handlers \cup {None}] /\ res \in [Calls -> Handlers \cup {None}]
      /\ returned \in [Calls -> Handlers \cup {None, Raised}]
      /\ repeater \in [Handlers -> 0 .. 2 \cup {None}]
      /\ succeeded \in [Calls -> Nat] /\ failures \in 0 .. MaxFailures
  OBVIOUS
<1>3. waiters \in Seq(Calls) /\ pool \in Seq(Calls)
  OBVIOUS
<1>4. SharedTypeOK
  BY <1>1, <1>2 DEF SharedTypeOK
<1>5. TypeOK
  BY <1>3, <1>4 DEF TypeOK
<1> QED
  BY <1>5 DEF TypeInv

LEMMA PushHandlerType ==
  ASSUME TypeInv, NEW h \in Handlers, PushHandler(h)
  PROVE  /\ handlerStack' \in Seq(Handlers)
         /\ repeater' \in [Handlers -> 0 .. 2 \cup {None}]
<1> USE DEF TypeInv, TypeOK, SharedTypeOK
<1>1. handlerStack' \in Seq(Handlers)
  <2>1. <<h>> \o handlerStack \in Seq(Handlers)
    BY PushType
  <2> QED
    BY <2>1 DEF PushHandler
<1>2. repeater' \in [Handlers -> 0 .. 2 \cup {None}]
  BY DEF PushHandler
<1> QED
  BY <1>1, <1>2

(* The steps inside the Executor.                                          *)
LEMMA RunType ==
  ASSUME TypeInv, NEW c \in Calls, Run(c), UNCHANGED loopVars
  PROVE  TypeInv'
<1> USE DEF TypeInv, TypeOK, SharedTypeOK, Places, Goto, loopVars, executorVars, callVars
<1>1. CASE New(c)
  BY <1>1 DEF New
<1>2. CASE PushMain(c)
  <2>1. PushHandler(Main(c)) /\ Main(c) \in Handlers
    BY <1>2, Names DEF PushMain
  <2>2. handlerStack' \in Seq(Handlers) /\ repeater' \in [Handlers -> 0 .. 2 \cup {None}]
    BY <2>1, PushHandlerType
  <2> QED
    BY <1>2, <2>2 DEF PushMain
<1>3. CASE Top(c)
  <2>1. CASE handlerStack = <<>>
    BY <1>3, <2>1, ZenonT(60) DEF Top, Raise
  <2>2. CASE handlerStack # <<>>
    <3>1. Head(handlerStack) \in Handlers
      BY <2>2
    <3>2. /\ handler' = [handler EXCEPT ![c] = Head(handlerStack)]
          /\ pc' = [pc EXCEPT ![c] = "execute"]
          /\ UNCHANGED <<master, res, returned, executorVars, service, failures, succeeded>>
      BY <1>3, <2>2 DEF Top
    <3>3. handler' \in [Calls -> Handlers \cup {None}] /\ pc' \in [Calls -> Places]
      BY <3>1, <3>2
    <3>4. \A d \in Calls : pc'[d] \in {"execute", "pop", "test", "act"} => handler'[d] \in Handlers
      BY <3>1, <3>2
    <3> QED
      BY <3>2, <3>3, <3>4
  <2> QED
    BY <2>1, <2>2
<1>4. CASE Succeeds(c)
  <2>1. handler[c] \in Handlers /\ handler[c].call \in Calls
    BY <1>4 DEF Succeeds, Handlers
  <2>2. service' \in [Masters -> {"none", "main", "SYNCH"}]
    BY <1>4 DEF Succeeds, Request
  <2>3. succeeded' \in [Calls -> Nat]
    BY <1>4, <2>1 DEF Succeeds
  <2>4. res' \in [Calls -> Handlers \cup {None}]
    BY <1>4, <2>1 DEF Succeeds
  <2> QED
    BY <1>4, <2>2, <2>3, <2>4 DEF Succeeds
<1>5. CASE Fails(c)
  <2>1. service' \in [Masters -> {"none", "main", "SYNCH"}]
    BY <1>5 DEF Fails, Request
  <2>2. errorCode' \in {"none", "TIMEOUT", "CMD_SYNCH"} /\ failures' \in 0 .. MaxFailures
    BY <1>5 DEF Fails
  <2> QED
    BY <1>5, <2>1, <2>2 DEF Fails
<1>6. CASE Pop(c)
  <2>1. handlerStack' \in Seq(Handlers)
    BY <1>6, TailType DEF Pop, PopHandler
  <2> QED
    BY <1>6, <2>1 DEF Pop
<1>7. CASE Test(c)
  BY <1>7, ZenonT(60) DEF Test
<1>8. CASE Act(c)
  <2>1. Repeater(c) \in 0 .. 2 \cup {None}
    BY <1>8 DEF Act, Repeater
  <2>2. LeftOf(Repeater(c)) \in 0 .. 2 \cup {None}
    BY <2>1 DEF LeftOf
  <2>3. handlerStack' \in Seq(Handlers)
    <3>1. <<Synch(c)>> \o handlerStack \in Seq(Handlers)
      BY Names, PushType
    <3> QED
      BY <1>8, <3>1 DEF Act
  <2>4. repeater' \in [Handlers -> 0 .. 2 \cup {None}]
    BY <1>8, <2>2 DEF Act
  <2>5. returned' \in [Calls -> Handlers \cup {None, Raised}]
        /\ (pc' = [pc EXCEPT ![c] = "top"] \/ pc' = [pc EXCEPT ![c] = "clean"])
    BY <1>8 DEF Act, Raise
  <2> QED
    BY <1>8, <2>3, <2>4, <2>5, ZenonT(60) DEF Act
<1>9. CASE Clean(c)
  <2>1. handlerStack' \in Seq(Handlers)
    <3>1. handlerStack # <<>> => Tail(handlerStack) \in Seq(Handlers)
      BY TailType
    <3>2. \/ UNCHANGED handlerStack
          \/ handlerStack # <<>> /\ handlerStack' = Tail(handlerStack)
      BY <1>9 DEF Clean, PopHandler, StackLeft
    <3>3. CASE UNCHANGED handlerStack
      BY <3>3
    <3>4. CASE handlerStack # <<>> /\ handlerStack' = Tail(handlerStack)
      BY <3>1, <3>4
    <3> QED
      BY <3>2, <3>3, <3>4
  <2> QED
    BY <1>9, <2>1, ZenonT(60) DEF Clean
<1> QED
  BY <1>1, <1>2, <1>3, <1>4, <1>5, <1>6, <1>7, <1>8, <1>9 DEF Run

LEMMA TypeNext == TypeInv /\ [Next]_vars => TypeInv'
<1> SUFFICES ASSUME TypeInv, [Next]_vars
             PROVE  TypeInv'
  OBVIOUS
<1> USE DEF TypeInv, TypeOK, SharedTypeOK, Places, Goto, SetTask, Ended, sharedVars, callVars, executorVars
<1>1. ASSUME NEW c \in Calls, CallDirectly(c)
      PROVE  TypeInv'
  BY <1>1 DEF CallDirectly, Begin, loopVars
<1>2. ASSUME NEW c \in Calls, Await(c)
      PROVE  TypeInv'
  <2>1. waiters' \in Seq(Calls)
    <3>1. Append(waiters, c) \in Seq(Calls)
      OBVIOUS
    <3> QED
      BY <1>2, <3>1 DEF Await
  <2> QED
    BY <1>2, <2>1 DEF Await, ShutdownPool
<1>3. ASSUME NEW c \in Calls, Cancel(c)
      PROVE  TypeInv'
  <2>1. waiters' \in Seq(Calls) /\ pool' \in Seq(Calls)
    BY <1>3, WithoutType DEF Cancel
  <2> QED
    BY <1>3, <2>1 DEF Cancel, Unlock, CloserLeaves, ShutdownPool
<1>4. ASSUME NEW c \in Calls, Run(c), UNCHANGED loopVars
      PROVE  TypeInv'
  BY <1>4, RunType
<1>5. ASSUME NEW c \in Calls, Acquire(c)
      PROVE  TypeInv'
  <2>1. waiters' \in Seq(Calls) /\ pool' \in Seq(Calls)
    <3>1. Tail(waiters) \in Seq(Calls) /\ Append(pool, c) \in Seq(Calls)
      BY <1>5, TailType DEF Acquire
    <3> QED
      BY <1>5, <3>1 DEF Acquire
  <2> QED
    BY <1>5, <2>1 DEF Acquire, CloserLeaves, ShutdownPool
<1>6. ASSUME NEW c \in Calls, WorkerBegins(c)
      PROVE  TypeInv'
  <2>1. pool' \in Seq(Calls)
    <3>1. pool \in Seq(Calls) /\ pool # <<>> /\ pool' = Tail(pool)
      BY <1>6 DEF WorkerBegins
    <3> HIDE DEF TypeInv
    <3> QED
      BY <3>1, TailType
  <2>2. CASE c \in Closers
    BY <1>6, <2>1, <2>2, ZenonT(60) DEF WorkerBegins
  <2>3. CASE c \notin Closers
    BY <1>6, <2>1, <2>3, ZenonT(60) DEF WorkerBegins, Begin
  <2> QED
    BY <2>2, <2>3
<1>7. ASSUME NEW c \in Calls, Resume(c)
      PROVE  TypeInv'
  BY <1>7 DEF Resume, Unlock, CloserLeaves, ShutdownPool
<1>8. CASE ShutdownReturns
  BY <1>8 DEF ShutdownReturns
<1>9. CASE UNCHANGED vars
  BY <1>9 DEF vars, loopVars
<1> QED
  BY <1>1, <1>2, <1>3, <1>4, <1>5, <1>6, <1>7, <1>8, <1>9 DEF Next, Progress

(* The state of the shared Executor and of the AsyncMaster has its type,   *)
(* with any number of threads in the Executor at once: a thread is never   *)
(* at a command without having one.                                        *)
THEOREM TypeCorrect == Spec => []TypeOK
<1>1. TypeInv => TypeOK
  BY DEF TypeInv
<1> QED
  BY TypeInit, TypeNext, <1>1, PTL DEF Spec

-----------------------------------------------------------------------------
(* Where a call of the AsyncMaster, and a close(), can be.                 *)
PlaceInv ==
  /\ \A c \in Calls : task[c] # "none" => c \in Async
  /\ pool \in Seq(Async)
  /\ \A c \in Closers : pc[c] \in {"idle", "end"}

LEMMA PlaceInit == Init => PlaceInv
  BY DEF Init, SharedInit, PlaceInv

LEMMA MasterFixed == [Next]_vars => UNCHANGED <<master, owns>>
<1> SUFFICES ASSUME [Next]_vars PROVE UNCHANGED <<master, owns>>
  OBVIOUS
<1> USE DEF sharedVars, loopVars
<1>1. ASSUME NEW c \in Calls, CallDirectly(c) PROVE UNCHANGED <<master, owns>>
  BY <1>1 DEF CallDirectly, Begin
<1>2. ASSUME NEW c \in Calls, Await(c) PROVE UNCHANGED <<master, owns>>
  BY <1>2 DEF Await
<1>3. ASSUME NEW c \in Calls, Cancel(c) PROVE UNCHANGED <<master, owns>>
  BY <1>3 DEF Cancel
<1>4. ASSUME NEW c \in Calls, Run(c), UNCHANGED loopVars PROVE UNCHANGED <<master, owns>>
  BY <1>4 DEF Run, New, PushMain, Top, Succeeds, Fails, Pop, Test, Act, Clean
<1>5. ASSUME NEW c \in Calls, Acquire(c) PROVE UNCHANGED <<master, owns>>
  BY <1>5 DEF Acquire
<1>6. ASSUME NEW c \in Calls, WorkerBegins(c) PROVE UNCHANGED <<master, owns>>
  BY <1>6 DEF WorkerBegins, Begin
<1>7. ASSUME NEW c \in Calls, Resume(c) PROVE UNCHANGED <<master, owns>>
  BY <1>7 DEF Resume
<1> QED
  BY <1>1, <1>2, <1>3, <1>4, <1>5, <1>6, <1>7 DEF Next, Progress, ShutdownReturns, vars

(* A step in the Executor is one of a thread that is inside; it leaves     *)
(* with the stack empty.                                                   *)
LEMMA RunPlaces ==
  ASSUME TypeInv, NEW c \in Calls, Run(c)
  PROVE  /\ Inside(c) /\ pc'[c] # "idle"
         /\ \A d \in Calls \ {c} : pc'[d] = pc[d]
         /\ pc'[c] = "end" => handlerStack' = <<>> /\ errorCode' = "none"
<1> USE DEF TypeInv, TypeOK, SharedTypeOK, Inside, Goto
<1>1. CASE Clean(c)
  BY <1>1 DEF Clean, StackLeft
<1>2. CASE Top(c)
  BY <1>2 DEF Top, Raise
<1>3. CASE Act(c)
  <2>1. pc' = [pc EXCEPT ![c] = "top"] \/ pc' = [pc EXCEPT ![c] = "clean"]
    BY <1>3 DEF Act, Raise
  <2> QED
    BY <1>3, <2>1 DEF Act
<1> QED
  BY <1>1, <1>2, <1>3 DEF Run, New, PushMain, Succeeds, Fails, Pop, Test

LEMMA PlaceNext == TypeInv /\ PlaceInv /\ [Next]_vars => PlaceInv'
<1> SUFFICES ASSUME TypeInv, PlaceInv, [Next]_vars
             PROVE  PlaceInv'
  OBVIOUS
<1>0. Async' = Async
  BY MasterFixed DEF Async
<1>t. /\ pc \in [Calls -> Places] /\ task \in [Calls -> {"none", "waiting", "submitted"} \cup Ended]
  BY DEF TypeInv, TypeOK, SharedTypeOK
<1> USE <1>0 DEF PlaceInv, Goto, SetTask
<1>1. ASSUME NEW c \in Calls, CallDirectly(c) PROVE PlaceInv'
  BY <1>1, <1>t DEF CallDirectly, Begin, loopVars
<1>2. ASSUME NEW c \in Calls, Await(c) PROVE PlaceInv'
  BY <1>2, <1>t DEF Await, sharedVars, callVars
<1>3. ASSUME NEW c \in Calls, Cancel(c) PROVE PlaceInv'
  <2>1. pool' \in Seq(Async)
    BY <1>3, WithoutType DEF Cancel
  <2> QED
    BY <1>3, <1>t, <2>1 DEF Cancel, sharedVars, callVars
<1>4. ASSUME NEW c \in Calls, Run(c), UNCHANGED loopVars PROVE PlaceInv'
  <2>1. c \notin Closers
    BY <1>4, RunPlaces DEF Inside
  <2> QED
    BY <1>4, <2>1, RunPlaces DEF loopVars
<1>5. ASSUME NEW c \in Calls, Acquire(c) PROVE PlaceInv'
  <2>1. pool' \in Seq(Async)
    <3>1. c \in Async
      BY <1>5 DEF Acquire
    <3>2. Append(pool, c) \in Seq(Async)
      BY <3>1
    <3> QED
      BY <1>5, <3>2 DEF Acquire
  <2> QED
    BY <1>5, <1>t, <2>1 DEF Acquire, sharedVars, callVars
<1>6. ASSUME NEW c \in Calls, WorkerBegins(c) PROVE PlaceInv'
  <2>1. pool' \in Seq(Async)
    BY <1>6, TailType DEF WorkerBegins
  <2> QED
    BY <1>6, <1>t, <2>1 DEF WorkerBegins, Begin
<1>7. ASSUME NEW c \in Calls, Resume(c) PROVE PlaceInv'
  BY <1>7, <1>t DEF Resume, sharedVars, callVars
<1>8. CASE ShutdownReturns
  BY <1>8 DEF ShutdownReturns, sharedVars, callVars
<1>9. CASE UNCHANGED vars
  BY <1>9 DEF vars, loopVars, sharedVars, callVars
<1> QED
  BY <1>1, <1>2, <1>3, <1>4, <1>5, <1>6, <1>7, <1>8, <1>9 DEF Next, Progress

-----------------------------------------------------------------------------
(* A single worker is free only when no call of the AsyncMaster runs.      *)
LEMMA WorkersIdle ==
  ASSUME Threads = 1, FreeWorker
  PROVE  \A d \in Async : ~Inside(d)
<1> DEFINE busy == {d \in Async : Inside(d)}
<1>1. IsFiniteSet(busy)
  BY FS_Subset DEF Async
<1>2. Cardinality(busy) < 1
  BY DEF FreeWorker
<1>3. Cardinality(busy) \in Nat
  BY <1>1, FS_CardinalityType
<1>4. Cardinality(busy) = 0
  BY <1>2, <1>3
<1>5. busy = {}
  BY <1>1, <1>4, FS_EmptySet
<1> QED
  BY <1>5

(* A call that is begun under the discipline finds nobody in the Executor. *)
NobodyInside == \A d \in Calls : ~Inside(d)

LEMMA BeginsAlone ==
  ASSUME TypeInv, PlaceInv, Discipline, NEW c \in Calls,
         CallDirectly(c) \/ WorkerBegins(c)
  PROVE  NobodyInside
<1>1. CASE CallDirectly(c)
  BY <1>1 DEF CallDirectly, Discipline, NobodyInside
<1>2. CASE WorkerBegins(c)
  <2>1. c \in Async
    BY <1>2, TailType DEF WorkerBegins, PlaceInv
  <2>2. \A d \in Calls : d \in Async
    BY <2>1 DEF Async, Discipline
  <2>3. \A d \in Async : ~Inside(d)
    BY <1>2, WorkersIdle DEF WorkerBegins, Discipline
  <2> QED
    BY <2>2, <2>3 DEF NobodyInside
<1> QED
  BY <1>1, <1>2

LEMMA ExclusiveInit == Init => Exclusive
  BY DEF Init, SharedInit, Exclusive, Inside

LEMMA ExclusiveNext == TypeInv /\ PlaceInv /\ Exclusive /\ [Next]_vars => Exclusive'
<1> SUFFICES ASSUME TypeInv, PlaceInv, Exclusive, [Next]_vars, Discipline'
             PROVE  /\ \A c, d \in Calls : Inside(c)' /\ Inside(d)' => c = d
                    /\ NobodyInside' => handlerStack' = <<>> /\ errorCode' = "none"
  BY DEF Exclusive, NobodyInside
<1>0. Discipline
  BY MasterFixed DEF Discipline, Threads
<1>t. pc \in [Calls -> Places]
  BY DEF TypeInv, TypeOK, SharedTypeOK
<1> USE <1>0 DEF Exclusive
<1>1. ASSUME NEW c \in Calls, CallDirectly(c) \/ WorkerBegins(c),
             \A d \in Calls \ {c} : pc'[d] = pc[d], UNCHANGED <<handlerStack, errorCode>>
      PROVE  /\ \A d, e \in Calls : Inside(d)' /\ Inside(e)' => d = e
             /\ NobodyInside' => handlerStack' = <<>> /\ errorCode' = "none"
  <2>1. NobodyInside
    BY <1>1, BeginsAlone
  <2> QED
    BY <1>1, <2>1 DEF NobodyInside, Inside
<1>2. ASSUME NEW c \in Calls, Run(c)
      PROVE  /\ \A d, e \in Calls : Inside(d)' /\ Inside(e)' => d = e
             /\ NobodyInside' => handlerStack' = <<>> /\ errorCode' = "none"
  <2>1. /\ Inside(c) /\ pc'[c] # "idle"
        /\ \A d \in Calls \ {c} : pc'[d] = pc[d]
        /\ pc'[c] = "end" => handlerStack' = <<>> /\ errorCode' = "none"
    BY <1>2, RunPlaces
  <2> QED
    BY <2>1 DEF NobodyInside, Inside
<1>3. ASSUME UNCHANGED <<pc, handlerStack, errorCode>>
      PROVE  /\ \A d, e \in Calls : Inside(d)' /\ Inside(e)' => d = e
             /\ NobodyInside' => handlerStack' = <<>> /\ errorCode' = "none"
  BY <1>3 DEF NobodyInside, Inside
<1>4. ASSUME NEW c \in Calls, Await(c) \/ Cancel(c) \/ Acquire(c) \/ Resume(c)
      PROVE  UNCHANGED <<pc, handlerStack, errorCode>>
  BY <1>4 DEF Await, Cancel, Acquire, Resume, sharedVars, callVars, executorVars
<1>5. ASSUME NEW c \in Calls, CallDirectly(c) \/ WorkerBegins(c)
      PROVE  (\A d \in Calls \ {c} : pc'[d] = pc[d]) /\ UNCHANGED <<handlerStack, errorCode>>
  BY <1>5, <1>t DEF CallDirectly, WorkerBegins, Begin, Goto, executorVars
<1>6. CASE ShutdownReturns \/ UNCHANGED vars
  BY <1>3, <1>6 DEF ShutdownReturns, vars, sharedVars, callVars, executorVars
<1> QED
  BY <1>1, <1>2, <1>3, <1>4, <1>5, <1>6 DEF Next, Progress

(* As long as all calls are made on one Master, by one thread or through   *)
(* an AsyncMaster with one worker, no two of them are in the Executor at   *)
(* once, whatever is cancelled or closed; each leaves it empty.            *)
THEOREM OneAtATime == Spec => []Exclusive
<1>1. Init => TypeInv /\ PlaceInv /\ Exclusive
  BY TypeInit, PlaceInit, ExclusiveInit
<1>2. TypeInv /\ PlaceInv /\ Exclusive /\ [Next]_vars => (TypeInv /\ PlaceInv /\ Exclusive)'
  BY TypeNext, PlaceNext, ExclusiveNext
<1> QED
  BY <1>1, <1>2, PTL DEF Spec

-----------------------------------------------------------------------------
(* What a call alone in the Executor finds there: its command, with a      *)
(* SYNCH above it while one is to be sent.                                 *)
Shapes(c) == {<<Main(c)>>, <<Synch(c), Main(c)>>}

CallOK(c) ==
  /\ pc[c] \notin {"pop", "test", "clean", "end"} => succeeded[c] = 0
  /\ pc[c] = "push" => handlerStack = <<>>
  /\ pc[c] \in {"top", "execute", "pop", "act"} => handlerStack \in Shapes(c)
  /\ pc[c] \in {"execute", "pop"} => handler[c] = Head(handlerStack)
  /\ pc[c] = "pop" => /\ res[c] = handler[c]
                      /\ succeeded[c] = IF handler[c] = Main(c) THEN 1 ELSE 0
  /\ pc[c] = "test" => \/ handlerStack = <<>> /\ res[c] = Main(c) /\ succeeded[c] = 1
                       \/ handlerStack = <<Main(c)>> /\ succeeded[c] = 0
  /\ returned[c] \in {None, Raised, Main(c)} /\ succeeded[c] \in {0, 1}
  /\ returned[c] = Main(c) => succeeded[c] = 1
  /\ pc[c] \notin {"clean", "end"} => returned[c] = None

CallInv == Discipline => \A c \in Calls : CallOK(c)

LEMMA CallInit == Init => CallInv
<1> SUFFICES ASSUME Init, NEW c \in Calls
             PROVE  CallOK(c)
  BY DEF CallInv
<1>1. pc[c] = "idle" /\ succeeded[c] = 0 /\ returned[c] = None
  BY DEF Init, SharedInit
<1>2. Main(c) # None
  BY Names
<1> QED
  BY <1>1, <1>2 DEF CallOK

(* What the sequence operators make of these stacks.                       *)
LEMMA ShapeFacts ==
  ASSUME NEW c \in Calls
  PROVE  /\ Head(<<Main(c)>>) = Main(c) /\ Tail(<<Main(c)>>) = <<>>
         /\ Head(<<Synch(c), Main(c)>>) = Synch(c)
         /\ Tail(<<Synch(c), Main(c)>>) = <<Main(c)>>
         /\ <<Main(c)>> # <<>> /\ <<Synch(c), Main(c)>> # <<>>
         /\ <<Main(c)>> \o <<>> = <<Main(c)>>
         /\ <<Synch(c)>> \o <<Main(c)>> = <<Synch(c), Main(c)>>
         /\ Main(c) \in Handlers /\ Synch(c) \in Handlers /\ Main(c) # Synch(c)
         /\ Main(c) \notin {None, Raised}
         /\ Main(c).call = c /\ Synch(c).call = c /\ ~Main(c).pre /\ Synch(c).pre
<1> DEFINE m == Main(c)
           y == Synch(c)
<1>1. m \in Handlers /\ y \in Handlers /\ m # y
  BY Names
<1>2. m.call = c /\ y.call = c /\ ~m.pre /\ y.pre
  BY DEF Main, Synch
<1> HIDE DEF m, y
<1>3. /\ Head(<<m>>) = m /\ Tail(<<m>>) = <<>>
      /\ Head(<<y, m>>) = y /\ <<m>> # <<>> /\ <<y, m>> # <<>>
  OBVIOUS
<1>4. Tail(<<y, m>>) = <<m>>
  OBVIOUS
<1>5. <<m>> \o <<>> = <<m>> /\ <<y>> \o <<m>> = <<y, m>>
  <2>1. <<m>> \in Seq(Handlers) /\ <<y>> \in Seq(Handlers)
    BY <1>1
  <2>2. Append(<<y>>, m) = <<y>> \o <<m>>
    BY <1>1, <2>1, AppendIsConcat
  <2>3. Append(<<y>>, m) = <<y, m>>
    <3>1. /\ Append(<<y>>, m) \in Seq(Handlers) /\ Len(Append(<<y>>, m)) = 2
          /\ Append(<<y>>, m)[1] = y /\ Append(<<y>>, m)[2] = m
      BY <1>1, <2>1, AppendProperties
    <3>2. <<y, m>> \in Seq(Handlers) /\ Len(<<y, m>>) = 2
      BY <1>1
    <3>3. \A i \in 1 .. 2 : Append(<<y>>, m)[i] = <<y, m>>[i]
      BY <3>1
    <3> QED
      BY <3>1, <3>2, <3>3, SeqEqual
  <2>4. <<m>> \o <<>> = <<m>>
    BY <2>1, ConcatEmptySeq
  <2> QED
    BY <2>2, <2>3, <2>4
<1>6. m \notin {None, Raised}
  BY <1>1
<1> QED
  BY <1>1, <1>2, <1>3, <1>4, <1>5, <1>6 DEF m, y

(* A step of the call that is alone.                                       *)
LEMMA RunCall ==
  ASSUME TypeInv, NEW c \in Calls, CallOK(c), Run(c)
  PROVE  CallOK(c)' /\ \A d \in Calls \ {c} :
                         /\ UNCHANGED <<succeeded[d], returned[d]>>
<1>t. /\ pc \in [Calls -> Places] /\ returned \in [Calls -> Handlers \cup {None, Raised}]
      /\ succeeded \in [Calls -> Nat] /\ handler \in [Calls -> Handlers \cup {None}]
      /\ res \in [Calls -> Handlers \cup {None}]
  BY DEF TypeInv, TypeOK, SharedTypeOK
<1>m. Main(c)' = Main(c) /\ Synch(c)' = Synch(c)
  BY DEF Main, Synch
<1> USE <1>t, ShapeFacts DEF Goto, callVars, executorVars, Places
<1>1. CASE New(c)
  BY <1>1, <1>m DEF New, CallOK
<1>2. CASE PushMain(c)
  <2>1. handlerStack' = <<Main(c)>>
    BY <1>2 DEF PushMain, PushHandler, CallOK
  <2> QED
    BY <1>2, <1>m, <2>1 DEF PushMain, CallOK, Shapes
<1>3. CASE Top(c)
  <2>1. handlerStack # <<>>
    BY <1>3 DEF Top, CallOK, Shapes
  <2> QED
    BY <1>3, <1>m, <2>1 DEF Top, CallOK, Shapes
<1>4. CASE Succeeds(c)
  <2>1. handler[c] = Head(handlerStack) /\ handlerStack \in Shapes(c)
        /\ succeeded[c] = 0 /\ returned[c] = None
    BY <1>4 DEF Succeeds, CallOK
  <2>2. handler[c] \in {Main(c), Synch(c)}
    BY <2>1 DEF Shapes
  <2>3. succeeded' = IF handler[c] = Main(c) THEN [succeeded EXCEPT ![c] = 1] ELSE succeeded
    <3>1. CASE handler[c] = Main(c)
      <4>1. succeeded' = [succeeded EXCEPT ![c] = @ + 1]
        BY <1>4, <3>1 DEF Succeeds
      <4> QED
        BY <2>1, <3>1, <4>1
    <3>2. CASE handler[c] = Synch(c)
      BY <1>4, <3>2 DEF Succeeds
    <3> QED
      BY <2>2, <3>1, <3>2
  <2>4. pc' = [pc EXCEPT ![c] = "pop"] /\ res' = [res EXCEPT ![c] = handler[c]]
        /\ UNCHANGED <<handler, returned, handlerStack>>
    BY <1>4 DEF Succeeds
  <2> QED
    BY <1>m, <2>1, <2>2, <2>3, <2>4 DEF CallOK, Shapes
<1>5. CASE Fails(c)
  BY <1>5, <1>m DEF Fails, CallOK, Shapes
<1>6. CASE Pop(c)
  <2>1. handler[c] = Head(handlerStack) /\ handlerStack \in Shapes(c) /\ returned[c] = None
        /\ res[c] = handler[c] /\ succeeded[c] = IF handler[c] = Main(c) THEN 1 ELSE 0
    BY <1>6 DEF Pop, CallOK
  <2>2. handlerStack' = Tail(handlerStack) /\ pc' = [pc EXCEPT ![c] = "test"]
        /\ UNCHANGED <<handler, res, returned, succeeded>>
    BY <1>6, <2>1 DEF Pop, PopHandler, Shapes
  <2>3. CASE handlerStack = <<Main(c)>>
    BY <1>m, <2>1, <2>2, <2>3 DEF CallOK
  <2>4. CASE handlerStack = <<Synch(c), Main(c)>>
    BY <1>m, <2>1, <2>2, <2>4 DEF CallOK
  <2> QED
    BY <2>1, <2>3, <2>4 DEF Shapes
<1>7. CASE Test(c)
  <2>1. CASE handlerStack = <<>>
    BY <1>7, <1>m, <2>1 DEF Test, CallOK
  <2>2. CASE handlerStack # <<>>
    BY <1>7, <1>m, <2>2 DEF Test, CallOK, Shapes
  <2> QED
    BY <2>1, <2>2
<1>8. CASE Act(c)
  <2>1. handlerStack \in Shapes(c) /\ succeeded[c] = 0 /\ returned[c] = None
    BY <1>8 DEF Act, CallOK
  <2>2. /\ UNCHANGED <<handler, res, succeeded>>
        /\ \/ pc' = [pc EXCEPT ![c] = "top"] /\ UNCHANGED returned
           \/ pc' = [pc EXCEPT ![c] = "clean"] /\ returned' = [returned EXCEPT ![c] = Raised]
    BY <1>8 DEF Act, Raise
  <2>3. handlerStack' \in Shapes(c)
    <3>1. CASE handlerStack = <<Main(c)>>
      BY <1>8, <3>1 DEF Act, Shapes
    <3>2. CASE handlerStack = <<Synch(c), Main(c)>>
      <4>1. {g \in PreActions(c) : handlerStack = <<>> \/ ~Same(g, Head(handlerStack))} = {}
        BY <3>2 DEF PreActions, Same
      <4> QED
        BY <1>8, <3>2, <4>1 DEF Act, Shapes
    <3> QED
      BY <2>1, <3>1, <3>2 DEF Shapes
  <2>4. handlerStack' \in Shapes(c)'
    BY <1>m, <2>3 DEF Shapes
  <2>5. CASE pc' = [pc EXCEPT ![c] = "top"] /\ UNCHANGED returned
    BY <1>m, <2>1, <2>2, <2>4, <2>5 DEF CallOK
  <2>6. CASE pc' = [pc EXCEPT ![c] = "clean"] /\ returned' = [returned EXCEPT ![c] = Raised]
    BY <1>m, <2>1, <2>2, <2>6 DEF CallOK
  <2> QED
    BY <2>2, <2>5, <2>6
<1>9. CASE Clean(c)
  BY <1>9, <1>m DEF Clean, CallOK
<1> QED
  BY <1>1, <1>2, <1>3, <1>4, <1>5, <1>6, <1>7, <1>8, <1>9 DEF Run

(* The calls outside the Executor are not touched by it.                   *)
LEMMA OthersKept ==
  ASSUME NEW d \in Calls, CallOK(d), ~Inside(d), ~Inside(d)',
         pc'[d] = pc[d] \/ pc'[d] = "end",
         UNCHANGED <<succeeded[d], returned[d]>>
  PROVE  CallOK(d)'
<1>1. Main(d)' = Main(d)
  BY DEF Main
<1>2. pc[d] \in {"idle", "end"} /\ pc'[d] \in {"idle", "end"}
  BY DEF Inside
<1>3. pc'[d] = "idle" => pc[d] = "idle"
  BY <1>2
<1> QED
  BY <1>1, <1>2, <1>3 DEF CallOK

LEMMA CallNext ==
  TypeInv /\ PlaceInv /\ Exclusive /\ CallInv /\ [Next]_vars => CallInv'
<1> SUFFICES ASSUME TypeInv, PlaceInv, Exclusive, CallInv, [Next]_vars, Discipline',
                    NEW d \in Calls
             PROVE  CallOK(d)'
  BY DEF CallInv
<1>0. Discipline /\ CallOK(d)
  BY MasterFixed DEF Discipline, Threads, CallInv
<1>t. pc \in [Calls -> Places] /\ task \in [Calls -> {"none", "waiting", "submitted"} \cup Ended]
  BY DEF TypeInv, TypeOK, SharedTypeOK
<1>1. ASSUME NEW c \in Calls, Run(c) PROVE CallOK(d)'
  <2>1. CASE d = c
    BY <1>0, <1>1, <2>1, RunCall
  <2>2. CASE d # c
    <3>1. Inside(c) /\ pc'[d] = pc[d]
      BY <1>1, <2>2, RunPlaces
    <3>2. ~Inside(d) /\ ~Inside(d)'
      BY <1>0, <2>2, <3>1 DEF Exclusive, Inside
    <3>3. CallOK(c)
      BY <1>0 DEF CallInv
    <3>4. UNCHANGED <<succeeded[d], returned[d]>>
      BY <1>1, <2>2, <3>3, RunCall
    <3> QED
      BY <1>0, <3>1, <3>2, <3>4, OthersKept
  <2> QED
    BY <2>1, <2>2
<1>2. ASSUME NEW c \in Calls, Begin(c) PROVE CallOK(d)'
  <2>1. Main(d)' = Main(d)
    BY DEF Main
  <2>2. /\ pc[c] = "idle" /\ pc' = [pc EXCEPT ![c] = "new"]
        /\ UNCHANGED <<handler, res, returned, handlerStack, succeeded>>
    BY <1>2 DEF Begin, Goto, executorVars
  <2>3. CASE d = c
    BY <1>0, <1>t, <2>1, <2>2, <2>3 DEF CallOK
  <2>4. CASE d # c
    <3>1. pc'[d] = pc[d]
      BY <2>2, <2>4, <1>t
    <3>2. Shapes(d)' = Shapes(d)
      BY DEF Shapes, Main, Synch
    <3> QED
      BY <1>0, <2>1, <2>2, <3>1, <3>2 DEF CallOK
  <2> QED
    BY <2>3, <2>4
<1>3. ASSUME UNCHANGED <<pc, handler, res, returned, handlerStack, succeeded>> PROVE CallOK(d)'
  <2>1. Main(d)' = Main(d) /\ Shapes(d)' = Shapes(d)
    BY DEF Shapes, Main, Synch
  <2> QED
    BY <1>0, <1>3, <2>1 DEF CallOK
<1>4. ASSUME NEW c \in Calls, WorkerBegins(c), c \in Closers PROVE CallOK(d)'
  <2>1. /\ pc' = [pc EXCEPT ![c] = "end"]
        /\ UNCHANGED <<handler, res, returned, handlerStack, succeeded>>
    BY <1>4 DEF WorkerBegins, Goto, executorVars
  <2>2. NobodyInside
    BY <1>0, <1>4, BeginsAlone
  <2>3. ~Inside(d) /\ ~Inside(d)' /\ (pc'[d] = pc[d] \/ pc'[d] = "end")
    BY <1>t, <2>1, <2>2 DEF NobodyInside, Inside
  <2>4. UNCHANGED <<succeeded[d], returned[d]>>
    BY <2>1
  <2> QED
    BY <1>0, <2>3, <2>4, OthersKept
<1>5. ASSUME NEW c \in Calls, Await(c) \/ Cancel(c) \/ Acquire(c) \/ Resume(c) PROVE CallOK(d)'
  BY <1>3, <1>5 DEF Await, Cancel, Acquire, Resume, sharedVars, callVars, executorVars
<1>6. CASE ShutdownReturns \/ UNCHANGED vars
  BY <1>3, <1>6 DEF ShutdownReturns, vars, sharedVars, callVars, executorVars
<1>7. ASSUME NEW c \in Calls, CallDirectly(c) PROVE CallOK(d)'
  BY <1>2, <1>7 DEF CallDirectly
<1>8. ASSUME NEW c \in Calls, WorkerBegins(c) PROVE CallOK(d)'
  BY <1>2, <1>4, <1>8 DEF WorkerBegins
<1> QED
  BY <1>1, <1>5, <1>6, <1>7, <1>8 DEF Next, Progress

(* Under the same discipline every call that returns returns the answer to *)
(* its own command, which has then succeeded exactly once: no command is   *)
(* executed again after it has succeeded.                                  *)
THEOREM ResultsAreOwn == Spec => []OwnResult
<1>1. Init => TypeInv /\ PlaceInv /\ Exclusive /\ CallInv
  BY TypeInit, PlaceInit, ExclusiveInit, CallInit
<1>2. TypeInv /\ PlaceInv /\ Exclusive /\ CallInv /\ [Next]_vars
        => (TypeInv /\ PlaceInv /\ Exclusive /\ CallInv)'
  BY TypeNext, PlaceNext, ExclusiveNext, CallNext
<1>3. CallInv => OwnResult
  BY DEF CallInv, CallOK, OwnResult, SeparateCalls
<1> QED
  BY <1>1, <1>2, <1>3, PTL DEF Spec

-----------------------------------------------------------------------------
(* The holder of the lock is the one call that has been submitted; it is   *)
(* the only one that can be in the pool.                                   *)
LockInv ==
  /\ \A c \in Calls : task[c] = "submitted" <=> lock = c
  /\ \A c \in Async : task[c] \in {"none", "waiting"} => pc[c] = "idle"
  /\ pool = <<>> \/ (lock \in Calls /\ pool = <<lock>> /\ pc[lock] = "idle")

LEMMA LockInit == Init => LockInv
  BY DEF Init, SharedInit, LockInv, Async

LEMMA Singletons ==
  ASSUME NEW S, NEW d \in S, NEW c
  PROVE  /\ <<d>> # <<>> /\ Head(<<d>>) = d /\ Tail(<<d>>) = <<>>
         /\ Append(<<>>, d) = <<d>>
         /\ Without(<<>>, c) = <<>>
         /\ Without(<<d>>, c) = IF c = d THEN <<>> ELSE <<d>>
<1>1. <<d>> # <<>> /\ Head(<<d>>) = d /\ Tail(<<d>>) = <<>> /\ Append(<<>>, d) = <<d>>
  OBVIOUS
<1>2. Without(<<>>, c) = <<>>
  BY DEF Without
<1>3. CASE c # d
  BY <1>3 DEF Without
<1>4. CASE c = d
  <2> DEFINE i == CHOOSE i \in 1 .. Len(<<d>>) : <<d>>[i] = c
  <2>1. i = 1
    BY <1>4
  <2>2. Without(<<d>>, c) = WithoutAt(<<d>>, i)
    BY <1>4 DEF Without
  <2>3. SubSeq(<<d>>, 1, 0) = <<>> /\ SubSeq(<<d>>, 2, 1) = <<>> /\ Len(<<d>>) = 1
    BY SubSeqEmpty
  <2>4. <<>> \o <<>> = <<>>
    BY ConcatEmptySeq, EmptySeq
  <2>5. WithoutAt(<<d>>, 1) = <<>>
    BY <2>3, <2>4 DEF WithoutAt
  <2> HIDE DEF i
  <2> QED
    BY <1>1, <1>2, <1>4, <2>1, <2>2, <2>5
<1> QED
  BY <1>1, <1>2, <1>3, <1>4

LEMMA LockNext == TypeInv /\ PlaceInv /\ LockInv /\ [Next]_vars => LockInv'
<1> SUFFICES ASSUME TypeInv, PlaceInv, LockInv, [Next]_vars
             PROVE  LockInv'
  OBVIOUS
<1>0. Async' = Async /\ Async \subseteq Calls
  BY MasterFixed DEF Async
<1>t. /\ pc \in [Calls -> Places] /\ task \in [Calls -> {"none", "waiting", "submitted"} \cup Ended]
      /\ lock \in Calls \cup {NoCall} /\ \A c \in Calls : task[c] # "none" => c \in Async
  BY DEF TypeInv, TypeOK, SharedTypeOK, PlaceInv
<1> USE <1>0, <1>t DEF LockInv, SetTask, Goto, Ended
<1>1. ASSUME NEW c \in Calls, CallDirectly(c) PROVE LockInv'
  <2>1. c \notin Async /\ pc' = [pc EXCEPT ![c] = "new"] /\ UNCHANGED <<task, lock, pool>>
    BY <1>1 DEF CallDirectly, Begin, loopVars
  <2> QED
    BY <2>1
<1>2. ASSUME NEW c \in Calls, Await(c) PROVE LockInv'
  <2>1. /\ task[c] = "none" /\ UNCHANGED <<pc, lock, pool>>
        /\ task' = [task EXCEPT ![c] = "done"] \/ task' = [task EXCEPT ![c] = "waiting"]
    BY <1>2 DEF Await, sharedVars, callVars
  <2> QED
    BY <2>1
<1>3. ASSUME NEW c \in Calls, Cancel(c) PROVE LockInv'
  <2>1. /\ task[c] \in {"waiting", "submitted"} /\ task' = [task EXCEPT ![c] = "cancelled"]
        /\ pool' = Without(pool, c) /\ lock' = (IF lock = c THEN NoCall ELSE lock)
        /\ UNCHANGED pc
    BY <1>3 DEF Cancel, Unlock, sharedVars, callVars
  <2>2. pool' = IF lock = c THEN <<>> ELSE pool
    BY <2>1, Singletons
  <2> QED
    BY <2>1, <2>2
<1>4. ASSUME NEW c \in Calls, Run(c), UNCHANGED loopVars PROVE LockInv'
  <2>1. /\ pc[c] # "idle" /\ pc'[c] # "idle" /\ \A d \in Calls \ {c} : pc'[d] = pc[d]
        /\ UNCHANGED <<task, lock, pool>>
    BY <1>4, RunPlaces DEF Inside, loopVars
  <2> QED
    BY <2>1
<1>5. ASSUME NEW c \in Calls, Acquire(c) PROVE LockInv'
  <2>1. task[c] = "waiting" /\ lock = NoCall /\ pool = <<>> /\ UNCHANGED pc
    BY <1>5 DEF Acquire, LockFree, sharedVars, callVars
  <2>2. \/ task' = [task EXCEPT ![c] = "failed"] /\ UNCHANGED <<lock, pool>>
        \/ /\ task' = [task EXCEPT ![c] = "submitted"]
           /\ lock' = c /\ pool' = Append(pool, c)
    BY <1>5 DEF Acquire
  <2>3. Append(<<>>, c) = <<c>>
    BY Singletons
  <2> QED
    BY <2>1, <2>2, <2>3
<1>6. ASSUME NEW c \in Calls, WorkerBegins(c) PROVE LockInv'
  <2>1. pool # <<>> /\ Head(pool) = c /\ pool' = Tail(pool) /\ UNCHANGED <<task, lock>>
        /\ \A d \in Calls \ {c} : pc'[d] = pc[d]
    BY <1>6 DEF WorkerBegins, Begin
  <2>2. lock = c /\ pool' = <<>>
    BY <2>1, Singletons
  <2> QED
    BY <2>1, <2>2
<1>7. ASSUME NEW c \in Calls, Resume(c) PROVE LockInv'
  <2>1. /\ task[c] = "submitted" /\ pc[c] = "end" /\ task' = [task EXCEPT ![c] = "done"]
        /\ lock' = NoCall /\ UNCHANGED <<pc, pool>>
    BY <1>7 DEF Resume, Unlock, sharedVars, callVars
  <2> QED
    BY <2>1
<1>8. CASE ShutdownReturns \/ UNCHANGED vars
  BY <1>8 DEF ShutdownReturns, vars, loopVars, sharedVars, callVars
<1> QED
  BY <1>1, <1>2, <1>3, <1>4, <1>5, <1>6, <1>7, <1>8 DEF Next, Progress

(* Once Master.close() has run nobody is inside, and only a close() can    *)
(* still have the lock before the pool is shut down.                       *)
ClosedInv ==
  owns /\ masterClosed =>
    /\ \A c \in Async : ~Inside(c)
    /\ pool = <<>>
    /\ (lock \in Closers /\ pc[lock] = "end") \/ (shut /\ lock = NoCall)

LEMMA ClosedNext ==
  TypeInv /\ PlaceInv /\ LockInv /\ ClosedInv /\ [Next]_vars => ClosedInv'
<1> SUFFICES ASSUME TypeInv, PlaceInv, LockInv, ClosedInv, [Next]_vars,
                    owns', masterClosed'
             PROVE  /\ \A d \in Async : ~Inside(d)'
                    /\ pool' = <<>>
                    /\ (lock' \in Closers /\ pc'[lock'] = "end") \/ (shut' /\ lock' = NoCall)
  BY MasterFixed DEF ClosedInv, Async
<1>0. owns = TRUE /\ Async \subseteq Calls
  BY MasterFixed DEF Async, TypeInv, TypeOK
<1>t. pc \in [Calls -> Places] /\ \A c \in Calls : task[c] # "none" => c \in Async
  BY DEF TypeInv, TypeOK, SharedTypeOK, PlaceInv
<1> DEFINE Closed == /\ \A d \in Async : ~Inside(d)'
                     /\ pool' = <<>>
                     /\ (lock' \in Closers /\ pc'[lock'] = "end") \/ (shut' /\ lock' = NoCall)
<1> USE <1>0, <1>t DEF ClosedInv, Inside
<1>1. ASSUME NEW c \in Calls, CallDirectly(c) PROVE Closed
  <2>1. /\ c \notin Async /\ c \notin Closers /\ pc' = [pc EXCEPT ![c] = "new"]
        /\ UNCHANGED <<lock, pool, shut, masterClosed>>
    BY <1>1 DEF CallDirectly, Begin, loopVars, Goto
  <2> QED
    BY <2>1
<1>2. ASSUME NEW c \in Calls, Await(c) PROVE Closed
  <2>1. UNCHANGED <<pc, lock, pool, masterClosed>> /\ (shut => shut')
    BY <1>2 DEF Await, ShutdownPool, sharedVars, callVars
  <2> QED
    BY <2>1
<1>3. ASSUME NEW c \in Calls, Cancel(c) PROVE Closed
  <2>1. /\ UNCHANGED <<pc, masterClosed>> /\ (shut => shut') /\ pool' = Without(pool, c)
        /\ lock' = (IF lock = c THEN NoCall ELSE lock)
        /\ c \in Closers => shut'
    BY <1>3 DEF Cancel, Unlock, CloserLeaves, ShutdownPool, sharedVars, callVars
  <2>2. pool' = <<>>
    BY <2>1, Singletons
  <2> QED
    BY <2>1, <2>2
<1>4. ASSUME NEW c \in Calls, Run(c), UNCHANGED loopVars PROVE Closed
  <2>1. /\ pc[c] \notin {"idle", "end"} /\ \A d \in Calls \ {c} : pc'[d] = pc[d]
        /\ UNCHANGED <<lock, pool, shut, masterClosed>>
    BY <1>4, RunPlaces DEF loopVars
  <2>2. c \notin Async
    BY <2>1
  <2> QED
    BY <2>1, <2>2
<1>5. ASSUME NEW c \in Calls, Acquire(c) PROVE Closed
  <2>1. lock = NoCall /\ UNCHANGED <<pc, masterClosed>>
    BY <1>5 DEF Acquire, LockFree, sharedVars, callVars
  <2>2. shut
    BY <2>1
  <2>3. UNCHANGED <<lock, pool>> /\ shut'
    BY <1>5, <2>2 DEF Acquire, CloserLeaves, ShutdownPool
  <2> QED
    BY <2>1, <2>3
<1>6. ASSUME NEW c \in Calls, WorkerBegins(c) PROVE Closed
  <2>1. /\ pool # <<>> /\ Head(pool) = c /\ pool' = Tail(pool) /\ FreeWorker /\ UNCHANGED lock
    BY <1>6 DEF WorkerBegins
  <2>2. lock = c /\ pool' = <<>>
    BY <2>1, Singletons, SMTT(40) DEF LockInv
  <2>3. c \in Closers /\ pc' = [pc EXCEPT ![c] = "end"]
    BY <1>6, <2>1 DEF WorkerBegins, Goto
  <2>4. \A d \in Async : ~Inside(d)
    BY <2>1, WorkersIdle DEF Threads
  <2> QED
    BY <2>1, <2>2, <2>3, <2>4
<1>7. ASSUME NEW c \in Calls, Resume(c) PROVE Closed
  <2>1. /\ task[c] = "submitted" /\ lock' = NoCall /\ UNCHANGED <<pc, pool, masterClosed>>
        /\ c \in Closers => shut'
    BY <1>7 DEF Resume, Unlock, CloserLeaves, ShutdownPool, sharedVars, callVars
  <2>2. lock = c
    BY <2>1 DEF LockInv
  <2> QED
    BY <2>1, <2>2
<1>8. CASE ShutdownReturns \/ UNCHANGED vars
  BY <1>8 DEF ShutdownReturns, vars, loopVars, sharedVars, callVars
<1> QED
  BY <1>1, <1>2, <1>3, <1>4, <1>5, <1>6, <1>7, <1>8 DEF Next, Progress

(* With an executor of its own the AsyncMaster closes the Master after     *)
(* every call that was begun, also after those that were cancelled, and    *)
(* begins none afterwards.                                                 *)
THEOREM CloseIsLast == Spec => []NothingAfterClose
<1>1. Init => TypeInv /\ PlaceInv /\ LockInv /\ ClosedInv
  BY TypeInit, PlaceInit, LockInit DEF Init, ClosedInv
<1>2. TypeInv /\ PlaceInv /\ LockInv /\ ClosedInv /\ [Next]_vars
        => (TypeInv /\ PlaceInv /\ LockInv /\ ClosedInv)'
  BY TypeNext, PlaceNext, LockNext, ClosedNext
<1>3. LockInv /\ ClosedInv => NothingAfterClose
  BY DEF LockInv, ClosedInv, NothingAfterClose, Async
<1> QED
  BY <1>1, <1>2, <1>3, PTL DEF Spec

-----------------------------------------------------------------------------
(* A close() that is done has closed the Master, or was not the only one.  *)
OtherCloser(c) == \E k \in Closers \ {c} : task[k] # "none"
CloseInv ==
  /\ closed => \E k \in Closers : task[k] # "none"
  /\ \A c \in Closers :
       /\ pc[c] = "end" => masterClosed
       /\ task[c] = "done" => (masterClosed /\ (owns => shut)) \/ OtherCloser(c)

LEMMA CloseInit == Init => CloseInv
  BY DEF Init, SharedInit, CloseInv

LEMMA CloseNext == TypeInv /\ PlaceInv /\ CloseInv /\ [Next]_vars => CloseInv'
<1> SUFFICES ASSUME TypeInv, PlaceInv, CloseInv, [Next]_vars
             PROVE  CloseInv'
  OBVIOUS
<1>0. UNCHANGED owns /\ owns \in BOOLEAN
  BY MasterFixed DEF TypeInv, TypeOK
<1>t. pc \in [Calls -> Places] /\ task \in [Calls -> {"none", "waiting", "submitted"} \cup Ended]
  BY DEF TypeInv, TypeOK, SharedTypeOK
<1>c. Closers \subseteq Calls
  OBVIOUS
<1> USE <1>0, <1>t, <1>c DEF CloseInv, OtherCloser, SetTask, Ended
<1>1. ASSUME NEW c \in Calls, CallDirectly(c) PROVE CloseInv'
  <2>1. c \notin Closers /\ pc' = [pc EXCEPT ![c] = "new"] /\ UNCHANGED loopVars
    BY <1>1 DEF CallDirectly, Begin, Goto
  <2> QED
    BY <2>1 DEF loopVars
<1>2. ASSUME NEW c \in Calls, Await(c) PROVE CloseInv'
  <2>1. task[c] = "none" /\ UNCHANGED <<pc, masterClosed>> /\ (shut => shut')
    BY <1>2 DEF Await, ShutdownPool, sharedVars, callVars
  <2>2. CASE c \in Closers /\ closed
    <3>1. task' = [task EXCEPT ![c] = "done"] /\ UNCHANGED closed
      BY <1>2, <2>2 DEF Await
    <3>2. \E k \in Closers \ {c} : task[k] # "none"
      BY <2>1, <2>2
    <3> QED
      BY <2>1, <3>1, <3>2
  <2>3. CASE ~(c \in Closers /\ closed)
    <3>1. task' = [task EXCEPT ![c] = "waiting"] /\ closed' = (closed \/ c \in Closers)
          /\ UNCHANGED shut
      BY <1>2, <2>3 DEF Await
    <3> QED
      BY <2>1, <3>1
  <2> QED
    BY <2>2, <2>3
<1>3. ASSUME NEW c \in Calls, Cancel(c) PROVE CloseInv'
  <2>1. /\ task' = [task EXCEPT ![c] = "cancelled"] /\ (shut => shut')
        /\ UNCHANGED <<pc, closed, masterClosed>>
    BY <1>3 DEF Cancel, CloserLeaves, ShutdownPool, sharedVars, callVars
  <2> QED
    BY <2>1
<1>4. ASSUME NEW c \in Calls, Run(c), UNCHANGED loopVars PROVE CloseInv'
  <2>1. Inside(c) /\ \A d \in Calls \ {c} : pc'[d] = pc[d]
    BY <1>4, RunPlaces
  <2>2. c \notin Closers
    BY <2>1 DEF PlaceInv, Inside
  <2> QED
    BY <1>4, <2>1, <2>2 DEF loopVars
<1>5. ASSUME NEW c \in Calls, Acquire(c) PROVE CloseInv'
  <2>1. /\ task' = [task EXCEPT ![c] = "failed"] \/ task' = [task EXCEPT ![c] = "submitted"]
        /\ (shut => shut') /\ UNCHANGED <<pc, closed, masterClosed>>
    BY <1>5 DEF Acquire, CloserLeaves, ShutdownPool, sharedVars, callVars
  <2> QED
    BY <2>1
<1>6. ASSUME NEW c \in Calls, WorkerBegins(c) PROVE CloseInv'
  <2>1. UNCHANGED <<task, closed, shut>>
    BY <1>6 DEF WorkerBegins
  <2>2. CASE c \in Closers
    <3>1. masterClosed'
      BY <1>6, <2>2 DEF WorkerBegins
    <3> QED
      BY <2>1, <3>1
  <2>3. CASE c \notin Closers
    <3>1. pc' = [pc EXCEPT ![c] = "new"] /\ UNCHANGED masterClosed
      BY <1>6, <2>3 DEF WorkerBegins, Begin, Goto
    <3> QED
      BY <2>1, <2>3, <3>1
  <2> QED
    BY <2>2, <2>3
<1>7. ASSUME NEW c \in Calls, Resume(c) PROVE CloseInv'
  <2>1. /\ pc[c] = "end" /\ task' = [task EXCEPT ![c] = "done"] /\ (shut => shut')
        /\ UNCHANGED <<pc, closed, masterClosed>>
        /\ c \in Closers /\ owns => shut'
    BY <1>7 DEF Resume, CloserLeaves, ShutdownPool, sharedVars, callVars
  <2> QED
    BY <2>1
<1>8. CASE ShutdownReturns \/ UNCHANGED vars
  BY <1>8 DEF ShutdownReturns, vars, loopVars, sharedVars, callVars
<1> QED
  BY <1>1, <1>2, <1>3, <1>4, <1>5, <1>6, <1>7, <1>8 DEF Next, Progress

(* When the only close() has returned normally the Master is closed, and   *)
(* an executor of its own is shut down.                                    *)
THEOREM CloseHasClosed == Spec => []CloseCloses
<1>1. Init => TypeInv /\ PlaceInv /\ CloseInv
  BY TypeInit, PlaceInit, CloseInit
<1>2. TypeInv /\ PlaceInv /\ CloseInv /\ [Next]_vars => (TypeInv /\ PlaceInv /\ CloseInv)'
  BY TypeNext, PlaceNext, CloseNext
<1>3. CloseInv => CloseCloses
  BY DEF CloseInv, CloseCloses, OtherCloser
<1> QED
  BY <1>1, <1>2, <1>3, PTL DEF Spec
=============================================================================
