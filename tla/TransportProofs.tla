-------------------------- MODULE TransportProofs --------------------------
(***************************************************************************)
(* Theorems about Transport, for every number of clients, every time-out   *)
(* and every number of frames.                                             *)
(***************************************************************************)
EXTENDS Transport, TLAPS

USE NoClientAssumption, BoundsAssumption DEF Places, Passes

(* A queue with one element taken or added is still a queue.               *)
LEMMA TailType ==
  ASSUME NEW S, NEW s \in Seq(S), s # <<>>
  PROVE  /\ Head(s) \in S
         /\ Tail(s) \in Seq(S)
         /\ Len(Tail(s)) = Len(s) - 1
         /\ Len(s) > 0
         /\ Head(s) = s[1]
         /\ \A i \in 1 .. Len(Tail(s)) : i + 1 \in 1 .. Len(s) /\ Tail(s)[i] = s[i + 1]
  OBVIOUS

LEMMA AppendType ==
  ASSUME NEW S, NEW s \in Seq(S), NEW e \in S
  PROVE  /\ Append(s, e) \in Seq(S)
         /\ Len(Append(s, e)) = Len(s) + 1
         /\ \A i \in 1 .. Len(s) : Append(s, e)[i] = s[i]
         /\ Append(s, e)[Len(s) + 1] = e
         /\ Append(s, e) # <<>>
  OBVIOUS

-----------------------------------------------------------------------------
(* A thread in one of these places is inside the call, and its frame has a *)
(* number.                                                                 *)
LocalsInv ==
  /\ TypeOK
  /\ \A c \in Clients :
       /\ pc[c] \in {"send", "get", "pop", "receive"} \cup Passes => own[c] \in Frames
       /\ pc[c] = "receive" => received[c] < UploadParts

LEMMA UseType ==
  ASSUME TypeOK
  PROVE  /\ use.frames \in 0 .. MaxFrames /\ use.events \in Nat
         /\ use.ops \subseteq AllOps
  BY UsesAssumption DEF TypeOK

LEMMA NextFrame ==
  ASSUME TypeOK, counterSend < use.frames
  PROVE  counterSend + 1 \in Frames
<1>1. use.frames \in 0 .. MaxFrames /\ counterSend \in 0 .. MaxFrames
  BY UseType DEF TypeOK
<1> QED
  BY <1>1 DEF Frames

LEMMA FeedType ==
  ASSUME policyLog \in Seq(LogEntries), NEW n \in Frames,
         NEW cat \in {"CMD", "RESPONSE", "ERROR", "METADATA"}, Feed(cat, n)
  PROVE  policyLog' \in Seq(LogEntries)
  BY DEF Feed, LogEntries

LEMMA ReturnType ==
  ASSUME LocalsInv, NEW c \in Clients, Return(c)
  PROVE  /\ pc' \in [Clients -> Places]
         /\ op' \in [Clients -> AllOps]
         /\ own' \in [Clients -> 0 .. MaxFrames]
         /\ received' \in [Clients -> 0 .. UploadParts]
         /\ elapsed' \in [Clients -> 0 .. Timeout + 1]
         /\ pc'[c] = "idle"
         /\ \A d \in Clients \ {c} : pc'[d] = pc[d] /\ own'[d] = own[d] /\ received'[d] = received[d]
  BY SMTT(30) DEF LocalsInv, TypeOK, Return, Goto, AllOps

LEMMA ClockType ==
  ASSUME TypeOK, NEW c \in Clients, StartClock(c)
  PROVE  elapsed' \in [Clients -> 0 .. Timeout + 1]
  BY DEF TypeOK, StartClock

LEMMA QueueType ==
  ASSUME NEW s \in Seq(PDUs), s # <<>>
  PROVE  /\ Head(s) \in PDUs /\ Tail(s) \in Seq(PDUs)
         /\ Head(s).to \in Frames
<1>1. Head(s) \in PDUs /\ Tail(s) \in Seq(PDUs)
  OBVIOUS
<1> QED
  BY <1>1 DEF PDUs

(* What a call hands to its caller, and the frames it may leave behind.    *)
LEMMA HandedType ==
  ASSUME TypeOK, NEW c \in Clients, NEW p, p.to \in Frames, Hand(c, p)
  PROVE  handed' \subseteq [op : AllOps, own : 0 .. MaxFrames, to : Frames]
<1>1. /\ op[c] \in AllOps /\ own[c] \in 0 .. MaxFrames
      /\ handed \subseteq [op : AllOps, own : 0 .. MaxFrames, to : Frames]
  BY DEF TypeOK
<1>2. handed' = handed \cup {[op |-> op[c], own |-> own[c], to |-> p.to]}
  BY DEF Hand
<1> QED
  BY <1>1, <1>2

LEMMA AbandonedType ==
  ASSUME LocalsInv, NEW c \in Clients, Abandon(own[c]),
         pc[c] \in {"send", "get", "pop", "receive"} \cup Passes
  PROVE  abandoned' \subseteq Frames
<1>1. own[c] \in Frames /\ abandoned \subseteq Frames
  BY DEF LocalsInv, TypeOK
<1> QED
  BY <1>1 DEF Abandon

LEMMA LocalsInit == Init => LocalsInv
<1> SUFFICES ASSUME Init PROVE LocalsInv
  OBVIOUS
<1> USE DEF Init
<1>1. /\ pc \in [Clients -> Places]
      /\ op \in [Clients -> AllOps]
  BY DEF AllOps
<1>2. own \in [Clients -> 0 .. MaxFrames] /\ received \in [Clients -> 0 .. UploadParts]
  OBVIOUS
<1>3. elapsed \in [Clients -> 0 .. Timeout + 1]
  OBVIOUS
<1>4. owed \in [Frames -> 0 .. UploadParts]
  OBVIOUS
<1>5. quiet \in 0 .. Timeout + 1 /\ counterSend \in 0 .. MaxFrames /\ events \in 0 .. use.events
  <2>1. use.events \in Nat
    BY UsesAssumption
  <2> QED
    BY <2>1
<1>6. /\ resQueue \in Seq(PDUs) /\ unfed \in Seq(PDUs) /\ policyLog \in Seq(LogEntries)
      /\ handed \subseteq [op : AllOps, own : 0 .. MaxFrames, to : Frames]
      /\ abandoned \subseteq Frames
  OBVIOUS
<1>7. TypeOK
  BY <1>1, <1>2, <1>3, <1>4, <1>5, <1>6 DEF TypeOK
<1> QED
  BY <1>7 DEF LocalsInv

LEMMA LocalsNext == LocalsInv /\ [Next]_vars => LocalsInv'
<1> SUFFICES ASSUME LocalsInv, [Next]_vars
             PROVE  LocalsInv'
  OBVIOUS
<1>0. use' = use
  BY DEF Next, vars
<1> USE <1>0 DEF LocalsInv, TypeOK, lockVars, slaveVars, history
<1>1. ASSUME NEW c \in Clients, NEW o \in use.ops \ {"block"}, RequestPrepare(c, o)
      PROVE  LocalsInv'
  <2>1. counterSend + 1 \in Frames
    <3>1. TypeOK /\ counterSend < use.frames
      BY <1>1 DEF RequestPrepare
    <3> HIDE DEF TypeOK, LocalsInv
    <3> QED
      BY <3>1, NextFrame
  <2>2. policyLog' \in Seq(LogEntries)
    BY <1>1, <2>1, FeedType DEF RequestPrepare
  <2>3. own' \in [Clients -> 0 .. MaxFrames] /\ own'[c] \in Frames
    <3>1. own' = [own EXCEPT ![c] = counterSend + 1]
      BY <1>1 DEF RequestPrepare
    <3>2. own \in [Clients -> 0 .. MaxFrames]
      OBVIOUS
    <3>3. counterSend + 1 \in 0 .. MaxFrames
      BY <2>1 DEF Frames
    <3> HIDE DEF TypeOK, LocalsInv
    <3> QED
      BY <3>1, <3>2, <3>3, <2>1
  <2>4. counterSend' \in 0 .. MaxFrames
    BY <1>1, <2>1 DEF RequestPrepare, Frames
  <2>5. o \in AllOps
    BY UseType
  <2> QED
    BY <1>1, <2>2, <2>3, <2>4, <2>5 DEF RequestPrepare, Goto
<1>2. ASSUME NEW c \in Clients, BlockCheck(c)
      PROVE  LocalsInv'
  <2>1. own' \in [Clients -> 0 .. MaxFrames] /\ op' \in [Clients -> AllOps]
    BY <1>2, SMTT(40) DEF BlockCheck, AllOps
  <2> QED
    BY <1>2, <2>1, SMTT(40) DEF BlockCheck, Goto
<1>3. ASSUME NEW c \in Clients, RequestSend(c)
      PROVE  LocalsInv'
  <2>1. owed' \in [Frames -> 0 .. UploadParts]
    BY <1>3 DEF RequestSend
  <2>2. elapsed' \in [Clients -> 0 .. Timeout + 1]
    BY <1>3, ClockType DEF RequestSend
  <2> QED
    BY <1>3, <2>1, <2>2 DEF RequestSend, Goto
<1>4. ASSUME NEW c \in Clients, RequestSendFails(c)
      PROVE  LocalsInv'
  <2>1. abandoned' \subseteq Frames
    BY <1>4, AbandonedType DEF RequestSendFails
  <2> QED
    BY <1>4, <2>1, ReturnType DEF RequestSendFails, Unlock
<1>5. ASSUME NEW c \in Clients, GetRestart(c)
      PROVE  LocalsInv'
  <2>1. elapsed' \in [Clients -> 0 .. Timeout + 1]
    BY <1>5, ClockType DEF GetRestart
  <2> QED
    BY <1>5, <2>1 DEF GetRestart, Goto
<1>6. ASSUME NEW c \in Clients, GetTimeout(c)
      PROVE  LocalsInv'
  <2>1. policyLog' \in Seq(LogEntries)
    BY <1>6, FeedType DEF GetTimeout
  <2> QED
    BY <1>6, <2>1, ReturnType DEF GetTimeout, Unlock, Abandon
<1>7. ASSUME NEW c \in Clients, GetItem(c)
      PROVE  LocalsInv'
  BY <1>7 DEF GetItem, Goto
<1>21. ASSUME NEW c \in Clients, GetTest(c)
       PROVE  LocalsInv'
  BY <1>21 DEF GetTest, Goto
<1>22. ASSUME NEW c \in Clients, GetClear(c)
       PROVE  LocalsInv'
  BY <1>22 DEF GetClear, Goto
<1>23. ASSUME NEW c \in Clients, GetWait(c)
       PROVE  LocalsInv'
  <2>1. quiet' \in 0 .. Timeout + 1
    BY <1>23 DEF GetWait
  <2> QED
    BY <1>23, <2>1 DEF GetWait, Goto
<1>8. ASSUME NEW c \in Clients, GetPop(c)
      PROVE  LocalsInv'
  <2>1. /\ Head(resQueue) \in PDUs /\ Tail(resQueue) \in Seq(PDUs)
        /\ Head(resQueue).to \in Frames
    BY <1>8, QueueType DEF GetPop
  <2>2. policyLog' \in Seq(LogEntries)
    BY <1>8, <2>1, FeedType DEF GetPop
  <2>3. handed' \subseteq [op : AllOps, own : 0 .. MaxFrames, to : Frames]
    BY <1>8, <2>1, HandedType DEF GetPop
  <2>4. abandoned' \subseteq Frames
    BY <1>8 DEF GetPop
  <2>5. CASE GoesOn(c, Head(resQueue))
    <3>1. elapsed' \in [Clients -> 0 .. Timeout + 1]
      BY <1>8, <2>5, ClockType DEF GetPop
    <3>2. /\ received' \in [Clients -> 0 .. UploadParts]
          /\ received'[c] < UploadParts
          /\ \A d \in Clients \ {c} : received'[d] = received[d]
      <4>1. received' = [received EXCEPT ![c] = 1]
        BY <1>8, <2>5 DEF GetPop
      <4>2. 1 \in 0 .. UploadParts /\ 1 < UploadParts
        OBVIOUS
      <4> QED
        BY <4>1, <4>2
    <3> QED
      BY <1>8, <2>1, <2>2, <2>3, <2>4, <2>5, <3>1, <3>2 DEF GetPop, Unlock, Goto
  <2>6. CASE ~GoesOn(c, Head(resQueue))
    BY <1>8, <2>1, <2>2, <2>3, <2>4, <2>6, ReturnType DEF GetPop, Unlock
  <2> QED
    BY <2>5, <2>6
<1>9. ASSUME NEW c \in Clients, GetPopEmpty(c)
      PROVE  LocalsInv'
  <2>1. abandoned' \subseteq Frames
    BY <1>9, AbandonedType DEF GetPopEmpty
  <2> QED
    BY <1>9, <2>1, ReturnType DEF GetPopEmpty, Unlock
<1>10. ASSUME NEW c \in Clients, ReceivePart(c)
       PROVE  LocalsInv'
  <2>1. /\ Head(resQueue) \in PDUs /\ Tail(resQueue) \in Seq(PDUs)
        /\ Head(resQueue).to \in Frames
    BY <1>10, QueueType DEF ReceivePart
  <2>2. handed' \subseteq [op : AllOps, own : 0 .. MaxFrames, to : Frames]
    BY <1>10, <2>1, HandedType DEF ReceivePart
  <2>3. CASE LengthReached(c)
    BY <1>10, <2>1, <2>2, <2>3, ReturnType DEF ReceivePart
  <2>4. CASE ~LengthReached(c)
    <3>1. /\ received' \in [Clients -> 0 .. UploadParts]
          /\ received'[c] < UploadParts
          /\ \A d \in Clients \ {c} : received'[d] = received[d]
      <4>1. received' = [received EXCEPT ![c] = @ + 1]
        BY <1>10, <2>4 DEF ReceivePart
      <4>2. /\ received[c] \in Nat /\ received[c] < UploadParts
            /\ received[c] + 1 # UploadParts
        <5>1. pc[c] = "receive"
          BY <1>10 DEF ReceivePart
        <5>2. received[c] + 1 # UploadParts
          BY <2>4 DEF LengthReached
        <5>3. received[c] \in 0 .. UploadParts /\ received[c] < UploadParts
          BY <5>1
        <5> HIDE DEF LocalsInv, TypeOK
        <5> QED
          BY <5>2, <5>3
      <4>3. received[c] + 1 \in 0 .. UploadParts /\ received[c] + 1 < UploadParts
        <5> HIDE DEF LocalsInv, TypeOK
        <5> QED
          BY <4>2
      <4>4. received \in [Clients -> 0 .. UploadParts]
        OBVIOUS
      <4> HIDE DEF LocalsInv, TypeOK
      <4> QED
        BY <4>1, <4>3, <4>4
    <3> QED
      BY <1>10, <2>1, <2>2, <2>4, <3>1 DEF ReceivePart
  <2> QED
    BY <2>3, <2>4
<1>11. ASSUME NEW c \in Clients, ReceiveTimeout(c)
       PROVE  LocalsInv'
  <2>1. abandoned' \subseteq Frames
    BY <1>11, AbandonedType DEF ReceiveTimeout
  <2> QED
    BY <1>11, <2>1, ReturnType DEF ReceiveTimeout
<1>12. ASSUME NEW c \in Clients, BlockPop(c)
       PROVE  LocalsInv'
  <2>1. /\ Head(resQueue) \in PDUs /\ Tail(resQueue) \in Seq(PDUs)
        /\ Head(resQueue).to \in Frames
    BY <1>12, QueueType DEF BlockPop
  <2>2. handed' \subseteq [op : AllOps, own : 0 .. MaxFrames, to : Frames]
    BY <1>12, <2>1, HandedType DEF BlockPop
  <2>3. CASE Head(resQueue).pid = "ERR"
    BY <1>12, <2>1, <2>2, <2>3, ReturnType DEF BlockPop
  <2>4. CASE Head(resQueue).pid # "ERR"
    BY <1>12, <2>1, <2>2, <2>4 DEF BlockPop, Goto
  <2> QED
    BY <2>3, <2>4
<1>13. ASSUME NEW c \in Clients, BlockPopEmpty(c)
       PROVE  LocalsInv'
  BY <1>13, ReturnType DEF BlockPopEmpty
<1>14. ASSUME NEW c \in Clients, BlockSend(c)
       PROVE  LocalsInv'
  <2>1. policyLog' \in Seq(LogEntries)
    BY <1>14, FeedType, NextFrame DEF BlockSend
  <2>2. /\ counterSend' \in 0 .. MaxFrames
        /\ owed' \in [Frames -> 0 .. UploadParts]
        /\ abandoned' \subseteq Frames
    <3>1. CASE counterSend < use.frames
      <4>1. counterSend + 1 \in Frames
        <5>1. TypeOK
          OBVIOUS
        <5> HIDE DEF TypeOK, LocalsInv
        <5> QED
          BY <3>1, <5>1, NextFrame
      <4>2. /\ counterSend' = counterSend + 1
            /\ owed' = [owed EXCEPT ![counterSend + 1] = 1]
            /\ abandoned' = abandoned \cup {counterSend + 1}
        BY <1>14, <3>1 DEF BlockSend, Abandon
      <4>3. owed' \in [Frames -> 0 .. UploadParts]
        <5>1. 1 \in 0 .. UploadParts
          OBVIOUS
        <5> QED
          BY <4>2, <5>1
      <4>4. counterSend' \in 0 .. MaxFrames
        BY <4>1, <4>2 DEF Frames
      <4> QED
        BY <4>1, <4>2, <4>3, <4>4
    <3>2. CASE ~(counterSend < use.frames)
      BY <1>14, <3>2 DEF BlockSend
    <3> QED
      BY <3>1, <3>2
  <2> QED
    BY <1>14, <2>1, <2>2, ReturnType DEF BlockSend
<1>15. ASSUME NEW n \in Frames, ListenerResponse(n)
       PROVE  LocalsInv'
  <2>1. PICK pid \in {"RES", "ERR"} :
          /\ resQueue' = Append(resQueue, [pid |-> pid, to |-> n])
          /\ unfed' = Append(unfed, [pid |-> pid, to |-> n])
          /\ owed' = [owed EXCEPT ![n] = IF pid = "ERR" THEN 0 ELSE @ - 1]
    BY <1>15 DEF ListenerResponse
  <2>2. [pid |-> pid, to |-> n] \in PDUs
    BY <2>1 DEF PDUs
  <2>3. resQueue' \in Seq(PDUs) /\ unfed' \in Seq(PDUs)
    BY <2>1, <2>2
  <2>4. owed' \in [Frames -> 0 .. UploadParts]
    BY <1>15, <2>1 DEF ListenerResponse
  <2> QED
    BY <1>15, <2>3, <2>4 DEF ListenerResponse, clientVars
<1>16. ASSUME ListenerFeed
       PROVE  LocalsInv'
  <2>1. /\ Head(unfed) \in PDUs /\ Tail(unfed) \in Seq(PDUs)
        /\ Head(unfed).to \in Frames
    BY <1>16, QueueType DEF ListenerFeed
  <2>2. policyLog' \in Seq(LogEntries)
    BY <1>16, <2>1, FeedType DEF ListenerFeed
  <2> QED
    BY <1>16, <2>1, <2>2 DEF ListenerFeed, clientVars
<1>17. ASSUME ListenerEvent \/ ListenerDaq
       PROVE  LocalsInv'
  <2>0. use.events \in Nat
    BY UseType
  <2>1. quiet' \in {0, quiet} /\ timerRestart' = TRUE
        /\ UNCHANGED <<clientVars, lockVars, resQueue, counterSend, unfed, policyLog, owed,
                       handed, abandoned>>
    BY <1>17 DEF ListenerEvent, ListenerDaq, SignOfLife
  <2>2. events' \in 0 .. use.events
    <3>1. events \in 0 .. use.events
      OBVIOUS
    <3>2. CASE ListenerEvent
      <4>1. events < use.events /\ events' = events + 1
        BY <3>2 DEF ListenerEvent
      <4> HIDE DEF LocalsInv, TypeOK
      <4> QED
        BY <2>0, <3>1, <4>1
    <3>3. CASE ListenerDaq
      BY <3>1, <3>3 DEF ListenerDaq
    <3> QED
      BY <1>17, <3>2, <3>3
  <2>3. quiet' \in 0 .. Timeout + 1
    BY <2>1
  <2> QED
    BY <2>1, <2>2, <2>3, SMTT(30) DEF clientVars
<1>18. ASSUME NEW n \in Frames, AnswerLost(n)
       PROVE  LocalsInv'
  <2>1. owed' \in [Frames -> 0 .. UploadParts]
    <3>1. owed' = [owed EXCEPT ![n] = 0] /\ owed \in [Frames -> 0 .. UploadParts]
      BY <1>18 DEF AnswerLost
    <3> HIDE DEF LocalsInv, TypeOK
    <3> QED
      BY <3>1
  <2> QED
    BY <1>18, <2>1 DEF AnswerLost, clientVars
<1>19. ASSUME Tick
       PROVE  LocalsInv'
  <2>1. \A t \in 0 .. Timeout + 1 : NextTick(t) \in 0 .. Timeout + 1
    BY DEF NextTick
  <2>2. elapsed' \in [Clients -> 0 .. Timeout + 1] /\ quiet' \in 0 .. Timeout + 1
    BY <1>19, <2>1 DEF Tick
  <2> QED
    BY <1>19, <2>2 DEF Tick
<1>20. ASSUME UNCHANGED vars
       PROVE  LocalsInv'
  BY <1>20 DEF vars, clientVars
<1> QED
  BY <1>1, <1>2, <1>3, <1>4, <1>5, <1>6, <1>7, <1>8, <1>9, <1>10, <1>11, <1>12, <1>13,
     <1>14, <1>15, <1>16, <1>17, <1>18, <1>19, <1>20, <1>21, <1>22, <1>23
  DEF Next, Step, Call, Proceed, Listen

(* TypeOK holds in every reachable state of the transport, whatever the    *)
(* clients call.                                                           *)
THEOREM TypeCorrect == Spec => []TypeOK
<1>1. Init => LocalsInv
  BY LocalsInit
<1>2. LocalsInv /\ [Next]_vars => LocalsInv'
  BY LocalsNext
<1>3. LocalsInv => TypeOK
  BY DEF LocalsInv
<1> QED
  BY <1>1, <1>2, <1>3, PTL DEF Spec

-----------------------------------------------------------------------------
(* Without block transfers, command_lock alone decides who talks to the    *)
(* slave.                                                                  *)
PlainPlaces ==
  \A c \in Clients : /\ pc[c] \in {"idle", "send", "get", "pop"} \cup Passes
                    /\ op[c] \in {"request", "optional", "synch"}
LockInv == LocalsInv /\ PlainUse /\ PlainPlaces /\ Locks /\ PopsFind

LEMMA LockInit == Init /\ PlainUse => LockInv
  BY LocalsInit DEF Init, LockInv, PlainPlaces, Locks, PopsFind

LEMMA ReturnLock ==
  ASSUME LockInv, NEW c \in Clients, Return(c), Unlock,
         pc[c] = "send", UNCHANGED <<condition, resQueue>>
  PROVE  PlainPlaces' /\ Locks' /\ PopsFind'
  BY DEF LockInv, PlainPlaces, LocalsInv, TypeOK, Locks, PopsFind, Return, Goto, Unlock

LEMMA ReturnPop ==
  ASSUME LockInv, NEW c \in Clients, Return(c), Unlock,
         pc[c] \in {"pop"} \cup Passes, condition' = NoClient
  PROVE  PlainPlaces' /\ Locks' /\ PopsFind'
  BY DEF LockInv, PlainPlaces, LocalsInv, TypeOK, Locks, PopsFind, Return, Goto, Unlock

LEMMA LockNext ==
  ASSUME LockInv, [Next]_vars
  PROVE  LockInv'
<1>0. LocalsInv' /\ PlainUse'
  <2>1. use' = use
    BY DEF Next, vars
  <2> QED
    BY <2>1, LocalsNext DEF LockInv, PlainUse
<1> USE DEF lockVars, PlainPlaces
<1>1. ASSUME NEW c \in Clients, NEW o \in use.ops \ {"block"}, RequestPrepare(c, o)
      PROVE  PlainPlaces' /\ Locks' /\ PopsFind'
  BY <1>1 DEF PlainUse, RequestPrepare, CommandLockFree, Goto, LockInv, LocalsInv, TypeOK, Locks, PopsFind
<1>2. ASSUME NEW c \in Clients, RequestSend(c)
      PROVE  PlainPlaces' /\ Locks' /\ PopsFind'
  BY <1>2 DEF RequestSend, Goto, LockInv, LocalsInv, TypeOK, Locks, PopsFind
<1>3. ASSUME NEW c \in Clients, RequestSendFails(c)
      PROVE  PlainPlaces' /\ Locks' /\ PopsFind'
  BY <1>3, ReturnLock DEF RequestSendFails
<1>4. ASSUME NEW c \in Clients, GetTest(c) \/ GetRestart(c) \/ GetClear(c) \/ GetWait(c)
      PROVE  PlainPlaces' /\ Locks' /\ PopsFind'
  <2> USE DEF Goto, LockInv, LocalsInv, TypeOK, Locks, PopsFind
  <2>1. CASE GetTest(c)
    BY <2>1 DEF GetTest
  <2>2. CASE GetRestart(c)
    BY <2>2 DEF GetRestart
  <2>3. CASE GetClear(c)
    BY <2>3 DEF GetClear
  <2>4. CASE GetWait(c)
    BY <2>4 DEF GetWait
  <2> QED
    BY <1>4, <2>1, <2>2, <2>3, <2>4
<1>5. ASSUME NEW c \in Clients, GetTimeout(c)
      PROVE  PlainPlaces' /\ Locks' /\ PopsFind'
  BY <1>5, ReturnPop DEF GetTimeout
<1>6. ASSUME NEW c \in Clients, GetItem(c)
      PROVE  PlainPlaces' /\ Locks' /\ PopsFind'
  BY <1>6 DEF GetItem, Goto, LockInv, LocalsInv, TypeOK, Locks, PopsFind
<1>7. ASSUME NEW c \in Clients, GetPop(c)
      PROVE  PlainPlaces' /\ Locks' /\ PopsFind'
  <2>1. op[c] # "upload"
    BY DEF LockInv
  <2> QED
    BY <1>7, <2>1, ReturnPop DEF GetPop, GoesOn
<1>8. ASSUME NEW c \in Clients, GetPopEmpty(c)
      PROVE  PlainPlaces' /\ Locks' /\ PopsFind'
  BY <1>8, ReturnPop DEF GetPopEmpty
<1>9. ASSUME NEW n \in Frames, ListenerResponse(n)
      PROVE  PlainPlaces' /\ Locks' /\ PopsFind'
  <2>1. PICK pid \in {"RES", "ERR"} : resQueue' = Append(resQueue, [pid |-> pid, to |-> n])
    BY <1>9 DEF ListenerResponse
  <2>2. [pid |-> pid, to |-> n] \in PDUs
    BY DEF PDUs
  <2>3. resQueue' # <<>>
    <3>1. resQueue \in Seq(PDUs)
      BY DEF LockInv, LocalsInv, TypeOK
    <3> QED
      BY <2>1, <2>2, <3>1, AppendType
  <2> QED
    BY <1>9, <2>3 DEF ListenerResponse, clientVars, LockInv, Locks, PopsFind
<1>10. ASSUME \/ ListenerFeed \/ ListenerEvent \/ ListenerDaq \/ Tick
              \/ \E n \in Frames : AnswerLost(n)
              \/ UNCHANGED vars
       PROVE  PlainPlaces' /\ Locks' /\ PopsFind'
  BY <1>10 DEF ListenerFeed, ListenerEvent, ListenerDaq, Tick, AnswerLost, vars,
               clientVars, LockInv, Locks, PopsFind
<1>11. ASSUME NEW c \in Clients
       PROVE  /\ ~("block" \in use.ops /\ BlockCheck(c))
              /\ ~ReceivePart(c) /\ ~ReceiveTimeout(c)
              /\ ~BlockPop(c) /\ ~BlockPopEmpty(c) /\ ~BlockSend(c)
  BY <1>11 DEF PlainUse, LockInv, ReceivePart, ReceiveTimeout, BlockPop, BlockPopEmpty, BlockSend
<1>12. PlainPlaces' /\ Locks' /\ PopsFind'
  BY <1>1, <1>2, <1>3, <1>4, <1>5, <1>6, <1>7, <1>8, <1>9, <1>10, <1>11
  DEF Next, Step, Call, Proceed, Listen
<1> QED
  BY <1>0, <1>12 DEF LockInv

(* Without block transfers command_lock and resQueue_condition do their    *)
(* work, and no thread ever pops from an empty queue, for any number of    *)
(* threads.                                                                *)
THEOREM LocksHold == Spec /\ PlainUse => []Locked
<1>1. Init /\ PlainUse => LockInv
  BY LockInit
<1>2. LockInv /\ [Next]_vars => LockInv'
  BY LockNext
<1>3. LockInv => Locked
  BY DEF LockInv, Locked
<1> QED
  BY <1>1, <1>2, <1>3, PTL DEF Spec

-----------------------------------------------------------------------------
(* The answers on their way and in the queue: one per command, each for a  *)
(* command that nobody waits for or that its sender still waits for.       *)
Queued(n) == \E i \in 1 .. Len(resQueue) : resQueue[i].to = n
Open(n) == owed[n] > 0 \/ Queued(n)

OwnInv == \A c \in Clients : own[c] <= counterSend
OneAnswer ==
  /\ \A n \in Frames : owed[n] <= 1
  /\ \A n \in Frames : owed[n] > 0 => ~Queued(n)
  /\ \A i, j \in 1 .. Len(resQueue) : resQueue[i].to = resQueue[j].to => i = j
Sent ==
  /\ \A n \in Frames : Open(n) => n <= counterSend
  /\ \A c \in Clients : pc[c] = "send" => ~Open(own[c])
Expected ==
  \A n \in Frames : Open(n) =>
    n \in abandoned \/ \E c \in Clients : own[c] = n /\ pc[c] \in {"get", "pop"} \cup Passes

AnswerInv == LockInv /\ OwnInv /\ OneAnswer /\ Sent /\ Expected /\ OwnAnswers

LEMMA AnswerInit == Init /\ PlainUse => AnswerInv
<1> SUFFICES ASSUME Init, PlainUse PROVE AnswerInv
  OBVIOUS
<1>1. LockInv
  BY LockInit
<1>2. \A n \in Frames : owed[n] = 0 /\ ~Queued(n)
  BY DEF Init, Queued
<1>3. Len(resQueue) = 0
  BY DEF Init
<1> QED
  BY <1>1, <1>2, <1>3
  DEF Init, AnswerInv, OwnInv, OneAnswer, Sent, Expected, Open, OwnAnswers

(* Steps that neither take nor add a response, and neither send a frame.   *)
LEMMA AnswerQuiet ==
  ASSUME AnswerInv, LockInv',
         UNCHANGED <<resQueue, handed, counterSend>>,
         \A n \in Frames : owed'[n] = owed[n] \/ owed'[n] = 0,
         abandoned \subseteq abandoned',
         \A c \in Clients : own'[c] = own[c] \/ own'[c] = 0,
         \A c \in Clients : pc[c] \in {"get", "pop"} \cup Passes =>
             \/ own'[c] = own[c] /\ pc'[c] \in {"get", "pop"} \cup Passes
             \/ own[c] \in abandoned',
         \A c \in Clients : pc'[c] = "send" => pc[c] = "send" /\ own'[c] = own[c]
  PROVE  AnswerInv'
<1>1. \A n \in Frames : owed'[n] \in Nat /\ owed[n] \in Nat
  BY DEF AnswerInv, LockInv, LocalsInv, TypeOK
<1>2. \A n : Queued(n)' <=> Queued(n)
  BY DEF Queued
<1>3. \A n \in Frames : Open(n)' => Open(n)
  BY <1>1, <1>2 DEF Open
<1>4. OwnInv'
  <2>1. 0 <= counterSend
    BY DEF AnswerInv, LockInv, LocalsInv, TypeOK
  <2> QED
    BY <2>1 DEF AnswerInv, OwnInv
<1>5. OneAnswer'
  BY <1>1, <1>2 DEF AnswerInv, OneAnswer
<1>6. Sent'
  <2>1. \A c \in Clients : pc'[c] = "send" => own'[c] \in Frames
    BY DEF LockInv, LocalsInv
  <2> QED
    BY <1>3, <2>1 DEF AnswerInv, Sent
<1>7. Expected'
  BY <1>3 DEF AnswerInv, Expected
<1>8. OwnAnswers'
  BY DEF AnswerInv, OwnAnswers
<1> QED
  BY <1>4, <1>5, <1>6, <1>7, <1>8 DEF AnswerInv

LEMMA AnswerPrepare ==
  ASSUME AnswerInv, LockInv', NEW c \in Clients, NEW o \in use.ops \ {"block"}, RequestPrepare(c, o)
  PROVE  AnswerInv'
<1> USE DEF AnswerInv
<1>1. /\ counterSend \in Nat /\ counterSend + 1 \in Frames
      /\ counterSend' = counterSend + 1
      /\ \A d \in Clients : own[d] \in Nat
  <2>1. TypeOK /\ counterSend < use.frames /\ counterSend' = counterSend + 1
    BY DEF RequestPrepare, LockInv, LocalsInv
  <2>2. counterSend + 1 \in Frames
    BY <2>1, NextFrame
  <2> HIDE DEF AnswerInv
  <2> QED
    BY <2>1, <2>2 DEF TypeOK
<1>2. /\ own' = [own EXCEPT ![c] = counterSend + 1]
      /\ pc' = [pc EXCEPT ![c] = "send"]
      /\ UNCHANGED <<resQueue, owed, abandoned, handed>>
      /\ pc[c] = "idle"
  BY DEF RequestPrepare, Goto, slaveVars, history
<1>3. /\ \A d \in Clients \ {c} : own'[d] = own[d] /\ pc'[d] = pc[d]
      /\ own'[c] = counterSend + 1 /\ pc'[c] = "send"
  BY <1>2 DEF LockInv, LocalsInv, TypeOK
<1>4. \A n : Open(n)' <=> Open(n)
  BY <1>2 DEF Open, Queued
<1>5. OwnInv'
  BY <1>1, <1>3 DEF OwnInv
<1>6. OneAnswer'
  BY <1>2 DEF OneAnswer, Queued
<1>7. Sent'
  <2>1. \A n \in Frames : Open(n)' => n <= counterSend'
    BY <1>1, <1>4 DEF Sent, Frames
  <2>2. ~Open(counterSend + 1)
    BY <1>1 DEF Sent
  <2>3. ASSUME NEW d \in Clients, pc'[d] = "send"
        PROVE  ~(Open(own[d])')
    <3>1. CASE d = c
      BY <1>3, <1>4, <2>2, <3>1
    <3>2. CASE d # c
      BY <1>3, <1>4, <2>3, <3>2 DEF Sent
    <3> QED
      BY <3>1, <3>2
  <2> QED
    BY <2>1, <2>3 DEF Sent
<1>8. Expected'
  BY <1>2, <1>3, <1>4 DEF Expected
<1>9. OwnAnswers'
  BY <1>2 DEF OwnAnswers
<1> QED
  BY <1>5, <1>6, <1>7, <1>8, <1>9

LEMMA AnswerSend ==
  ASSUME AnswerInv, LockInv', NEW c \in Clients, RequestSend(c)
  PROVE  AnswerInv'
<1> USE DEF AnswerInv
<1>1. /\ pc[c] = "send" /\ own[c] \in Frames /\ op[c] # "upload"
      /\ \A d \in Clients \ {c} : pc[d] # "send"
  BY DEF RequestSend, LockInv, PlainPlaces, Locks, PopsFind, LocalsInv
<1>2. /\ owed' = [owed EXCEPT ![own[c]] = 1]
      /\ UNCHANGED <<own, resQueue, counterSend, abandoned, handed>>
      /\ pc' = [pc EXCEPT ![c] = "get"]
  BY <1>1 DEF RequestSend, Goto, history
<1>3. /\ \A d \in Clients \ {c} : pc'[d] = pc[d]
      /\ pc'[c] = "get"
      /\ owed'[own[c]] = 1
      /\ \A n \in Frames \ {own[c]} : owed'[n] = owed[n]
  BY <1>1, <1>2 DEF LockInv, LocalsInv, TypeOK
<1>4. ~Open(own[c])
  BY <1>1 DEF Sent
<1>5. \A n : Queued(n)' <=> Queued(n)
  BY <1>2 DEF Queued
<1>6. \A n \in Frames : Open(n)' <=> Open(n) \/ n = own[c]
  BY <1>1, <1>3, <1>5 DEF Open
<1>7. OwnInv'
  BY <1>2 DEF OwnInv
<1>8. OneAnswer'
  <2>1. \A n \in Frames : owed'[n] <= 1
    BY <1>3 DEF OneAnswer
  <2>2. \A n \in Frames : owed'[n] > 0 => ~Queued(n)'
    BY <1>3, <1>4, <1>5 DEF OneAnswer, Open
  <2> QED
    BY <1>2, <2>1, <2>2 DEF OneAnswer
<1>9. Sent'
  <2>1. \A n \in Frames : Open(n)' => n <= counterSend'
    BY <1>1, <1>2, <1>6 DEF Sent, OwnInv
  <2>2. \A d \in Clients : pc'[d] # "send"
    BY <1>1, <1>3
  <2> QED
    BY <2>1, <2>2 DEF Sent
<1>10. Expected'
  <2> SUFFICES ASSUME NEW n \in Frames, Open(n)'
               PROVE  \/ n \in abandoned'
                      \/ \E d \in Clients : own'[d] = n /\ pc'[d] \in {"get", "pop"} \cup Passes
    BY DEF Expected
  <2>1. CASE n = own[c]
    BY <2>1, <1>2, <1>3
  <2>2. CASE n # own[c]
    BY <2>2, <1>2, <1>3, <1>6 DEF Expected
  <2> QED
    BY <2>1, <2>2
<1>11. OwnAnswers'
  BY <1>2 DEF OwnAnswers
<1> QED
  BY <1>7, <1>8, <1>9, <1>10, <1>11

LEMMA AnswerPop ==
  ASSUME AnswerInv, LockInv', NEW c \in Clients, GetPop(c)
  PROVE  AnswerInv'
<1> DEFINE p == Head(resQueue)
<1> USE DEF AnswerInv
<1>1. /\ resQueue \in Seq(PDUs) /\ resQueue # <<>> /\ pc[c] = "pop"
      /\ op[c] # "upload" /\ commandLock = c
      /\ own[c] \in Frames
  BY DEF GetPop, LockInv, PlainPlaces, Locks, PopsFind, LocalsInv, TypeOK
<1>2. /\ resQueue' = Tail(resQueue)
      /\ handed' = handed \cup {[op |-> op[c], own |-> own[c], to |-> p.to]}
      /\ abandoned' = abandoned \cup ({own[c]} \ {p.to})
      /\ UNCHANGED <<owed, counterSend>>
  BY DEF GetPop, Hand, slaveVars
<1>3. /\ pc'[c] = "idle" /\ own'[c] = 0
      /\ \A d \in Clients \ {c} : pc'[d] = pc[d] /\ own'[d] = own[d]
  <2>1. Return(c)
    BY <1>1 DEF GetPop, GoesOn
  <2> QED
    BY <2>1 DEF Return, Goto, LockInv, LocalsInv, TypeOK
<1>4. /\ p = resQueue[1] /\ Len(resQueue) > 0
      /\ p.to \in Frames
      /\ \A i \in 1 .. Len(resQueue') : i + 1 \in 1 .. Len(resQueue) /\ resQueue'[i] = resQueue[i + 1]
  BY <1>1, <1>2, TailType, QueueType
<1>5. Queued(p.to) /\ owed[p.to] = 0
  <2>1. Queued(p.to)
    BY <1>4 DEF Queued
  <2> QED
    <3>1. owed[p.to] \in Nat
      <4>1. owed \in [Frames -> 0 .. UploadParts]
        BY DEF LockInv, LocalsInv, TypeOK
      <4> HIDE DEF AnswerInv
      <4> QED
        BY <1>4, <4>1
    <3>2. ~(owed[p.to] > 0)
      BY <1>4, <2>1 DEF OneAnswer
    <3> HIDE DEF AnswerInv
    <3>3. owed[p.to] = 0
      BY <3>1, <3>2
    <3> QED
      BY <2>1, <3>3
<1>6. \A n : Queued(n)' => Queued(n) /\ n # p.to
  <2> SUFFICES ASSUME NEW n, NEW i \in 1 .. Len(resQueue'), resQueue'[i].to = n
               PROVE  Queued(n) /\ n # p.to
    BY DEF Queued
  <2>1. i + 1 \in 1 .. Len(resQueue) /\ resQueue[i + 1].to = n
    BY <1>4
  <2>2. i + 1 # 1 /\ 1 \in 1 .. Len(resQueue)
    BY <1>4
  <2> QED
    BY <1>4, <2>1, <2>2 DEF Queued, OneAnswer
<1>7. \A n \in Frames : Open(n)' => Open(n) /\ n # p.to
  BY <1>2, <1>5, <1>6 DEF Open
<1>8. \A d \in Clients : pc[d] \in {"get", "pop"} \cup Passes => d = c
  BY <1>1 DEF LockInv, Locks, PopsFind
<1>9. p.to \in abandoned \/ p.to = own[c]
  BY <1>4, <1>5, <1>8 DEF Expected, Open
<1>10. OwnInv'
  <2>1. 0 <= counterSend
    BY DEF LockInv, LocalsInv, TypeOK
  <2> QED
    BY <1>2, <1>3, <2>1 DEF OwnInv
<1>11. OneAnswer'
  <2>1. \A i, j \in 1 .. Len(resQueue') : resQueue'[i].to = resQueue'[j].to => i = j
    <3> SUFFICES ASSUME NEW i \in 1 .. Len(resQueue'), NEW j \in 1 .. Len(resQueue'),
                        resQueue'[i].to = resQueue'[j].to
                 PROVE  i = j
      OBVIOUS
    <3>1. i + 1 = j + 1
      BY <1>4 DEF OneAnswer
    <3> QED
      BY <3>1
  <2> QED
    BY <1>2, <1>6, <2>1 DEF OneAnswer
<1>12. Sent'
  BY <1>1, <1>2, <1>3, <1>7 DEF Sent, LockInv, LocalsInv
<1>13. Expected'
  <2> SUFFICES ASSUME NEW n \in Frames, Open(n)', n \notin abandoned
               PROVE  n \in abandoned'
    BY <1>2 DEF Expected
  <2>1. n = own[c] /\ n # p.to
    BY <1>7, <1>8 DEF Expected
  <2> QED
    BY <1>2, <2>1
<1>14. OwnAnswers'
  BY <1>2, <1>9 DEF OwnAnswers
<1> QED
  BY <1>10, <1>11, <1>12, <1>13, <1>14

LEMMA AnswerArrives ==
  ASSUME AnswerInv, LockInv', NEW n \in Frames, ListenerResponse(n)
  PROVE  AnswerInv'
<1> USE DEF AnswerInv
<1>1. PICK pid \in {"RES", "ERR"} :
        /\ resQueue' = Append(resQueue, [pid |-> pid, to |-> n])
        /\ owed' = [owed EXCEPT ![n] = IF pid = "ERR" THEN 0 ELSE @ - 1]
  BY DEF ListenerResponse
<1>2. /\ UNCHANGED <<pc, own, counterSend, handed, abandoned>>
      /\ owed[n] > 0 /\ owed[n] <= 1 /\ owed[n] \in Nat
  BY DEF ListenerResponse, clientVars, history, OneAnswer, LockInv, LocalsInv, TypeOK
<1>3. owed'[n] = 0 /\ \A m \in Frames \ {n} : owed'[m] = owed[m]
  BY <1>1, <1>2 DEF LockInv, LocalsInv, TypeOK
<1>4. /\ Len(resQueue) \in Nat /\ Len(resQueue') = Len(resQueue) + 1
      /\ \A i \in 1 .. Len(resQueue) : resQueue'[i] = resQueue[i]
      /\ resQueue'[Len(resQueue) + 1].to = n
  <2>1. [pid |-> pid, to |-> n] \in PDUs
    BY DEF PDUs
  <2>2. resQueue \in Seq(PDUs)
    BY DEF LockInv, LocalsInv, TypeOK
  <2> QED
    BY <1>1, <2>1, <2>2, AppendType
<1>5. \A m : Queued(m)' <=> Queued(m) \/ m = n
  BY <1>4 DEF Queued
<1>6. Open(n) /\ \A m \in Frames : Open(m)' <=> Open(m)
  BY <1>2, <1>3, <1>5 DEF Open
<1>7. OneAnswer'
  <2>1. \A m \in Frames : owed'[m] <= 1 /\ (owed'[m] > 0 => ~Queued(m)')
    BY <1>3, <1>5 DEF OneAnswer
  <2>2. ~Queued(n)
    BY <1>2 DEF OneAnswer
  <2>3. \A i, j \in 1 .. Len(resQueue') : resQueue'[i].to = resQueue'[j].to => i = j
    BY <1>4, <2>2 DEF OneAnswer, Queued
  <2> QED
    BY <2>1, <2>3 DEF OneAnswer
<1>8. Sent'
  BY <1>2, <1>6 DEF Sent, LockInv, LocalsInv
<1>9. OwnInv' /\ Expected' /\ OwnAnswers'
  BY <1>2, <1>6 DEF OwnInv, Expected, OwnAnswers
<1> QED
  BY <1>7, <1>8, <1>9

LEMMA AnswerReturns ==
  ASSUME AnswerInv, LockInv', NEW c \in Clients, Return(c),
         UNCHANGED <<resQueue, handed, counterSend, owed>>,
         Abandon(own[c])
  PROVE  AnswerInv'
<1>1. /\ pc'[c] = "idle" /\ own'[c] = 0
      /\ \A d \in Clients \ {c} : pc'[d] = pc[d] /\ own'[d] = own[d]
  BY DEF Return, Goto, AnswerInv, LockInv, LocalsInv, TypeOK
<1> QED
  BY <1>1, AnswerQuiet DEF Abandon

LEMMA AnswerNext ==
  ASSUME AnswerInv, [Next]_vars
  PROVE  AnswerInv'
<1>0. LockInv'
  BY LockNext DEF AnswerInv
<1> USE DEF lockVars, slaveVars, history, clientVars
<1>1. ASSUME NEW c \in Clients, NEW o \in use.ops \ {"block"}, RequestPrepare(c, o)
      PROVE  AnswerInv'
  BY <1>0, <1>1, AnswerPrepare
<1>2. ASSUME NEW c \in Clients, RequestSend(c)
      PROVE  AnswerInv'
  BY <1>0, <1>2, AnswerSend
<1>3. ASSUME NEW c \in Clients, RequestSendFails(c) \/ GetTimeout(c) \/ GetPopEmpty(c)
      PROVE  AnswerInv'
  BY <1>0, <1>3, AnswerReturns DEF RequestSendFails, GetTimeout, GetPopEmpty
<1>4. ASSUME NEW c \in Clients,
             GetTest(c) \/ GetRestart(c) \/ GetClear(c) \/ GetWait(c) \/ GetItem(c)
      PROVE  AnswerInv'
  <2>1. \A d \in Clients : IF d = c THEN pc'[d] \in {"get", "pop"} \cup Passes
                                   ELSE pc'[d] = pc[d]
    BY <1>4 DEF GetTest, GetRestart, GetClear, GetWait, GetItem, Goto,
                AnswerInv, LockInv, LocalsInv, TypeOK
  <2>2. UNCHANGED <<resQueue, handed, counterSend, owed, abandoned, own>>
    BY <1>4 DEF GetTest, GetRestart, GetClear, GetWait, GetItem
  <2> QED
    BY <1>0, <2>1, <2>2, AnswerQuiet
<1>6. ASSUME NEW c \in Clients, GetPop(c)
      PROVE  AnswerInv'
  BY <1>0, <1>6, AnswerPop
<1>7. ASSUME NEW n \in Frames, ListenerResponse(n)
      PROVE  AnswerInv'
  BY <1>0, <1>7, AnswerArrives
<1>8. ASSUME ListenerFeed \/ ListenerEvent \/ ListenerDaq \/ Tick \/ UNCHANGED vars
      PROVE  AnswerInv'
  BY <1>0, <1>8, AnswerQuiet DEF ListenerFeed, ListenerEvent, ListenerDaq, Tick, vars
<1>9. ASSUME NEW n \in Frames, AnswerLost(n)
      PROVE  AnswerInv'
  <2>1. \A m \in Frames : owed'[m] = owed[m] \/ owed'[m] = 0
    BY <1>9 DEF AnswerLost, AnswerInv, LockInv, LocalsInv, TypeOK
  <2> QED
    BY <1>0, <1>9, <2>1, AnswerQuiet DEF AnswerLost
<1>10. ASSUME NEW c \in Clients
       PROVE  /\ ~("block" \in use.ops /\ BlockCheck(c))
              /\ ~ReceivePart(c) /\ ~ReceiveTimeout(c)
              /\ ~BlockPop(c) /\ ~BlockPopEmpty(c) /\ ~BlockSend(c)
  BY <1>10 DEF PlainUse, AnswerInv, LockInv, PlainPlaces, ReceivePart, ReceiveTimeout,
               BlockPop, BlockPopEmpty, BlockSend
<1> QED
  BY <1>1, <1>2, <1>3, <1>4, <1>6, <1>7, <1>8, <1>9, <1>10
  DEF Next, Step, Call, Proceed, Listen

(* Without block transfers no thread ever takes the answer another thread  *)
(* waits for: a wrong answer can only be one that nobody waits for any     *)
(* more.                                                                   *)
THEOREM AnswersStayInOrder == Spec /\ PlainUse => []NoTheft
<1>1. Init /\ PlainUse => AnswerInv
  BY AnswerInit
<1>2. AnswerInv /\ [Next]_vars => AnswerInv'
  BY AnswerNext
<1>3. AnswerInv => NoTheft
  BY DEF AnswerInv, NoTheft
<1> QED
  BY <1>1, <1>2, <1>3, PTL DEF Spec

-----------------------------------------------------------------------------
(* The clock of the waiting thread is never ahead of the slave's silence,  *)
(* unless the listener has just asked for a restart; and while the thread  *)
(* is in a pass of get(), nothing is queued.                               *)
Behind(c) == elapsed[c] <= quiet
Clocks ==
  \A c \in Clients : /\ pc[c] = "get" => timerRestart \/ Behind(c)
                     /\ pc[c] \in {"clear", "clock"} => Behind(c)
PassesEmpty == \A c \in Clients : pc[c] \in Passes => resQueue = <<>>
ClockInv == LockInv /\ Clocks /\ PassesEmpty

LEMMA ClockInit == Init /\ PlainUse => ClockInv
  BY LockInit DEF Init, ClockInv, Clocks, PassesEmpty

(* Only GetTimeout takes a thread from a pass of get() out of the call.    *)
LEMMA OnlyTimeout ==
  ASSUME LockInv, Next, NEW c \in Clients, pc[c] = "clock", pc'[c] = "idle"
  PROVE  GetTimeout(c)
<1> USE DEF LockInv, LocalsInv, TypeOK, Goto, Return, clientVars
<1>1. ASSUME NEW d \in Clients, NEW o \in use.ops \ {"block"}, RequestPrepare(d, o)
      PROVE  FALSE
  BY <1>1 DEF RequestPrepare
<1>2. ASSUME NEW d \in Clients, BlockCheck(d)
      PROVE  FALSE
  BY <1>2 DEF BlockCheck
<1>3. ASSUME NEW d \in Clients, Proceed(d) \/ RequestSendFails(d), d # c
      PROVE  FALSE
  BY <1>3 DEF Proceed, RequestSend, RequestSendFails, GetTest, GetRestart, GetClear,
              GetTimeout, GetWait, GetItem, GetPop, GetPopEmpty, ReceivePart,
              ReceiveTimeout, BlockPop, BlockPopEmpty, BlockSend
<1>4. ASSUME Proceed(c) \/ RequestSendFails(c), ~GetTimeout(c)
      PROVE  FALSE
  BY <1>4 DEF Proceed, RequestSend, RequestSendFails, GetTest, GetRestart, GetClear,
              GetWait, GetItem, GetPop, GetPopEmpty, ReceivePart, ReceiveTimeout,
              BlockPop, BlockPopEmpty, BlockSend
<1>5. ASSUME Listen \/ Tick \/ \E n \in Frames : AnswerLost(n)
      PROVE  FALSE
  BY <1>5 DEF Listen, ListenerResponse, ListenerFeed, ListenerEvent, ListenerDaq, Tick,
              AnswerLost
<1> QED
  BY <1>1, <1>2, <1>3, <1>4, <1>5 DEF Next, Step, Call

LEMMA ClockNext ==
  ASSUME ClockInv, [Next]_vars
  PROVE  ClockInv'
<1>0. LockInv'
  BY LockNext DEF ClockInv
<1> USE DEF ClockInv, Clocks, PassesEmpty, Behind, LockInv, LocalsInv, TypeOK, Goto, Return,
            lockVars, slaveVars, history, clientVars
<1>1. ASSUME NEW c \in Clients,
             \/ \E o \in use.ops \ {"block"} : RequestPrepare(c, o)
             \/ RequestSendFails(c) \/ GetTimeout(c) \/ GetItem(c) \/ GetPopEmpty(c)
      PROVE  Clocks' /\ PassesEmpty'
  <2>1. CASE \E o \in use.ops \ {"block"} : RequestPrepare(c, o)
    BY <2>1 DEF RequestPrepare
  <2>2. CASE RequestSendFails(c)
    BY <2>2 DEF RequestSendFails
  <2>3. CASE GetTimeout(c)
    BY <2>3 DEF GetTimeout
  <2>4. CASE GetItem(c)
    BY <2>4 DEF GetItem
  <2>5. CASE GetPopEmpty(c)
    BY <2>5 DEF GetPopEmpty
  <2> QED
    BY <1>1, <2>1, <2>2, <2>3, <2>4, <2>5
<1>2. ASSUME NEW c \in Clients, RequestSend(c)
      PROVE  Clocks' /\ PassesEmpty'
  BY <1>2 DEF RequestSend, StartClock
<1>3. ASSUME NEW c \in Clients, GetTest(c) \/ GetRestart(c) \/ GetClear(c) \/ GetWait(c)
      PROVE  Clocks' /\ PassesEmpty'
  <2>1. \A d \in Clients \ {c} : pc[d] \notin {"get"} \cup Passes
    BY <1>3 DEF GetTest, GetRestart, GetClear, GetWait, Locks
  <2>2. \A d \in Clients \ {c} : pc'[d] = pc[d]
    BY <1>3 DEF GetTest, GetRestart, GetClear, GetWait
  <2>3. resQueue' = resQueue /\ (pc[c] = "get" => resQueue = <<>>)
    BY <1>3 DEF GetTest, GetRestart, GetClear, GetWait
  <2>4. PassesEmpty'
    BY <1>3, <2>1, <2>2, <2>3 DEF GetTest, GetRestart, GetClear, GetWait
  <2>5. /\ pc'[c] = "get" => timerRestart' \/ elapsed'[c] <= quiet'
        /\ pc'[c] \in {"clear", "clock"} => elapsed'[c] <= quiet'
    <3>1. CASE GetTest(c)
      BY <3>1 DEF GetTest
    <3>2. CASE GetRestart(c)
      BY <3>2 DEF GetRestart, StartClock
    <3>3. CASE GetClear(c)
      BY <3>3 DEF GetClear
    <3>4. CASE GetWait(c)
      BY <3>4 DEF GetWait
    <3> QED
      BY <1>3, <3>1, <3>2, <3>3, <3>4
  <2> QED
    BY <2>1, <2>2, <2>4, <2>5
<1>4. ASSUME NEW c \in Clients, GetPop(c)
      PROVE  Clocks' /\ PassesEmpty'
  <2>1. ~GoesOn(c, Head(resQueue))
    BY DEF GoesOn, PlainPlaces
  <2>2. \A d \in Clients \ {c} : pc[d] \notin {"get"} \cup Passes
    BY <1>4 DEF GetPop, Locks
  <2> QED
    BY <1>4, <2>1, <2>2 DEF GetPop
<1>5. ASSUME ListenerFeed \/ (\E n \in Frames : AnswerLost(n)) \/ UNCHANGED vars
      PROVE  Clocks' /\ PassesEmpty'
  BY <1>5 DEF ListenerFeed, AnswerLost, vars
<1>6. ASSUME NEW n \in Frames, ListenerResponse(n)
      PROVE  Clocks' /\ PassesEmpty'
  <2>1. \A c \in Clients : pc[c] \notin Passes
    BY <1>6 DEF ListenerResponse, Locks
  <2> QED
    BY <1>6, <2>1 DEF ListenerResponse
<1>7. ASSUME ListenerEvent \/ ListenerDaq
      PROVE  Clocks' /\ PassesEmpty'
  <2>1. /\ UNCHANGED <<pc, elapsed, resQueue>> /\ timerRestart' = TRUE
        /\ quiet' = IF Overlooked THEN quiet ELSE 0
    BY <1>7 DEF ListenerEvent, ListenerDaq, SignOfLife
  <2> QED
    BY <2>1 DEF Overlooked
<1>8. ASSUME Tick
      PROVE  Clocks' /\ PassesEmpty'
  <2>1. /\ UNCHANGED <<pc, resQueue, timerRestart>> /\ quiet' = NextTick(quiet)
    BY <1>8 DEF Tick
  <2>2. ASSUME NEW c \in Clients, pc[c] \in {"get", "clear", "clock"}, elapsed[c] <= quiet
        PROVE  elapsed'[c] <= quiet'
    <3>1. elapsed'[c] = NextTick(elapsed[c])
      BY <1>8, <2>2 DEF Tick, Waiting
    <3>2. elapsed[c] \in 0 .. Timeout + 1 /\ quiet \in 0 .. Timeout + 1
      OBVIOUS
    <3>3. NextTick(elapsed[c]) <= NextTick(quiet)
      <4> HIDE DEF ClockInv, LockInv, LocalsInv, TypeOK, Clocks
      <4> QED
        BY <2>2, <3>2 DEF NextTick
    <3> QED
      BY <2>1, <3>1, <3>3
  <2> QED
    BY <2>1, <2>2
<1>9. ASSUME NEW c \in Clients
      PROVE  /\ ~("block" \in use.ops /\ BlockCheck(c))
             /\ ~ReceivePart(c) /\ ~ReceiveTimeout(c)
             /\ ~BlockPop(c) /\ ~BlockPopEmpty(c) /\ ~BlockSend(c)
  BY <1>9 DEF PlainUse, PlainPlaces, ReceivePart, ReceiveTimeout, BlockPop, BlockPopEmpty,
              BlockSend
<1>10. Clocks' /\ PassesEmpty'
  BY <1>1, <1>2, <1>3, <1>4, <1>5, <1>6, <1>7, <1>8, <1>9
  DEF Next, Step, Call, Proceed, Listen
<1> QED
  BY <1>0, <1>10

(* Without block transfers no request times out while a response is in     *)
(* the queue, or less than the time-out after a sign of life, except one   *)
(* that the listener gives between the test for it and the end of that     *)
(* pass of get().                                                          *)
THEOREM TimeoutsAreReal == Spec /\ PlainUse => NoFalseTimeout
<1> DEFINE Real == \A c \in Clients :
                     TimedOut(c, "clock") => quiet > Timeout /\ resQueue = <<>>
<1>1. Init /\ PlainUse => ClockInv
  BY ClockInit
<1>2. ClockInv /\ [Next]_vars => ClockInv'
  BY ClockNext
<1>3. ClockInv /\ [Next]_vars => [Real]_vars
  <2> SUFFICES ASSUME ClockInv, Next, NEW c \in Clients, TimedOut(c, "clock")
               PROVE  quiet > Timeout /\ resQueue = <<>>
    OBVIOUS
  <2>1. GetTimeout(c)
    BY OnlyTimeout DEF ClockInv, TimedOut
  <2>2. elapsed[c] <= quiet /\ elapsed[c] > Timeout /\ resQueue = <<>>
    BY <2>1 DEF GetTimeout, Expired, ClockInv, Clocks, PassesEmpty, Behind
  <2>3. elapsed[c] \in Nat /\ quiet \in Nat
    BY DEF ClockInv, LockInv, LocalsInv, TypeOK
  <2> QED
    BY <2>2, <2>3
<1> QED
  BY <1>1, <1>2, <1>3, PTL DEF Spec, NoFalseTimeout
-----------------------------------------------------------------------------
(* What the policy has been fed, and what it still will be.  CMDs come in  *)
(* the order they are sent.  A response that is being fed answers the last *)
(* command or, if its thread was quick, the one before; then the thread    *)
(* that sent the last one still has command_lock, because the listener is  *)
(* not free to give it its answer.                                         *)
CmdAt(i) == policyLog[i].cat = "CMD"
ResponseAt(i) == policyLog[i].cat = "RESPONSE"
LogInv ==
  /\ \A i \in 1 .. Len(policyLog) :
       CmdAt(i) \/ ResponseAt(i) => policyLog[i].to <= counterSend
  /\ \A i, j \in 1 .. Len(policyLog) :
       i < j /\ CmdAt(i) /\ CmdAt(j) => policyLog[i].to < policyLog[j].to
  /\ \A i, j \in 1 .. Len(policyLog) : CmdAt(i) /\ ResponseAt(j) =>
       /\ policyLog[i].to = policyLog[j].to => i < j
       /\ abandoned = {} /\ i < j => policyLog[i].to <= policyLog[j].to + 1
HolderInv == \A c \in Clients : commandLock = c => own[c] = counterSend
UnfedInv ==
  /\ Len(unfed) <= 1
  /\ \A i \in 1 .. Len(unfed) : unfed[i].to <= counterSend
  /\ unfed # <<>> /\ abandoned = {} =>
       \/ counterSend = Head(unfed).to
       \/ /\ counterSend = Head(unfed).to + 1
          /\ commandLock # NoClient /\ ~Queued(counterSend)

RecordInv == AnswerInv /\ LogInv /\ HolderInv /\ UnfedInv

LEMMA RecordInit == Init /\ PlainUse => RecordInv
<1> SUFFICES ASSUME Init, PlainUse PROVE RecordInv
  OBVIOUS
<1>1. AnswerInv
  BY AnswerInit
<1>2. Len(policyLog) = 0 /\ Len(unfed) = 0 /\ unfed = <<>> /\ commandLock = NoClient
  BY DEF Init
<1> QED
  BY <1>1, <1>2 DEF RecordInv, LogInv, HolderInv, UnfedInv

(* What an entry adds to the log.                                          *)
LEMMA EntryType ==
  ASSUME NEW s \in Seq(LogEntries), NEW i \in 1 .. Len(s)
  PROVE  s[i].to \in Nat
<1>1. s[i] \in LogEntries
  OBVIOUS
<1> QED
  BY <1>1 DEF LogEntries, Frames

LEMMA EntryFed ==
  ASSUME TypeOK, NEW n \in Frames,
         NEW cat \in {"CMD", "RESPONSE", "ERROR", "METADATA"}, Feed(cat, n)
  PROVE  /\ Len(policyLog) \in Nat /\ Len(policyLog') = Len(policyLog) + 1
         /\ \A i \in 1 .. Len(policyLog) :
              policyLog'[i] = policyLog[i] /\ policyLog[i].to \in Nat
         /\ policyLog'[Len(policyLog) + 1].cat = cat
         /\ policyLog'[Len(policyLog) + 1].to = n
<1> DEFINE e == [cat |-> cat, to |-> n]
<1>1. policyLog \in Seq(LogEntries) /\ e \in LogEntries /\ policyLog' = Append(policyLog, e)
  BY DEF TypeOK, LogEntries, Feed
<1>2. \A i \in 1 .. Len(policyLog) : policyLog[i].to \in Nat
  BY <1>1, EntryType
<1>3. e.cat = cat /\ e.to = n
  OBVIOUS
<1> HIDE DEF e
<1>4. /\ Len(policyLog') = Len(policyLog) + 1 /\ Len(policyLog) \in Nat
      /\ \A i \in 1 .. Len(policyLog) : policyLog'[i] = policyLog[i]
      /\ policyLog'[Len(policyLog) + 1] = e
  BY <1>1, AppendType
<1> QED
  BY <1>2, <1>3, <1>4

(* A CMD must be later than all before, a RESPONSE not too late; any other *)
(* entry is fine.                                                          *)
LEMMA LogGrows ==
  ASSUME TypeOK, LogInv, counterSend \in Nat, counterSend' \in Nat,
         counterSend <= counterSend', abandoned \subseteq abandoned',
         NEW n \in Frames, NEW cat \in {"CMD", "RESPONSE", "ERROR", "METADATA"}, Feed(cat, n),
         cat = "CMD" => counterSend < n /\ n <= counterSend',
         cat = "RESPONSE" => n <= counterSend /\ (abandoned' = {} => counterSend <= n + 1)
  PROVE  LogInv'
<1> DEFINE L == Len(policyLog)
<1>1. /\ L \in Nat /\ Len(policyLog') = L + 1 /\ n \in Nat
      /\ \A i \in 1 .. L : policyLog'[i] = policyLog[i] /\ policyLog[i].to \in Nat
      /\ policyLog'[L + 1].cat = cat /\ policyLog'[L + 1].to = n
  BY EntryFed DEF Frames
<1>2. \A i \in 1 .. Len(policyLog') : i \in 1 .. L \/ (i = L + 1 /\ i > L)
  BY <1>1
<1>3. \A i \in 1 .. L : policyLog[i].cat \in {"CMD", "RESPONSE"} => policyLog[i].to <= counterSend
  BY DEF LogInv, CmdAt, ResponseAt
<1> HIDE DEF L
<1>4. ASSUME NEW i \in 1 .. Len(policyLog'), policyLog'[i].cat \in {"CMD", "RESPONSE"}
      PROVE  policyLog'[i].to <= counterSend'
  <2>1. CASE i \in 1 .. L
    BY <1>1, <1>3, <1>4, <2>1
  <2>2. CASE i = L + 1
    BY <1>1, <1>4, <2>2
  <2> QED
    BY <1>2, <2>1, <2>2
<1>5. ASSUME NEW i \in 1 .. Len(policyLog'), NEW j \in 1 .. Len(policyLog'),
             i < j, policyLog'[i].cat = "CMD", policyLog'[j].cat = "CMD"
      PROVE  policyLog'[i].to < policyLog'[j].to
  <2>1. i \in 1 .. L
    BY <1>1, <1>2, <1>5
  <2>2. CASE j \in 1 .. L
    BY <1>1, <1>5, <2>1, <2>2 DEF L, LogInv, CmdAt
  <2>3. CASE j = L + 1
    BY <1>1, <1>3, <1>5, <2>1, <2>3
  <2> QED
    BY <1>2, <2>2, <2>3
<1>6. ASSUME NEW i \in 1 .. Len(policyLog'), NEW j \in 1 .. Len(policyLog'),
             policyLog'[i].cat = "CMD", policyLog'[j].cat = "RESPONSE"
      PROVE  /\ policyLog'[i].to = policyLog'[j].to => i < j
             /\ abandoned' = {} /\ i < j => policyLog'[i].to <= policyLog'[j].to + 1
  <2>1. CASE i \in 1 .. L /\ j \in 1 .. L
    <3>1. abandoned' = {} => abandoned = {}
      OBVIOUS
    <3> QED
      BY <1>1, <1>6, <2>1, <3>1 DEF L, LogInv, CmdAt, ResponseAt
  <2>2. CASE i \in 1 .. L /\ j = L + 1
    BY <1>1, <1>3, <1>6, <2>2
  <2>3. CASE i = L + 1 /\ j \in 1 .. L
    <3>1. policyLog'[j].to <= counterSend
      BY <1>1, <1>3, <1>6, <2>3
    <3>2. policyLog'[i].to > counterSend /\ ~(i < j) /\ policyLog'[j].to \in Nat
      BY <1>1, <1>6, <2>3
    <3> QED
      BY <1>1, <2>3, <3>1, <3>2
  <2>4. ~(i = L + 1 /\ j = L + 1)
    BY <1>6
  <2> QED
    BY <1>2, <2>1, <2>2, <2>3, <2>4
<1> QED
  BY <1>4, <1>5, <1>6 DEF LogInv, CmdAt, ResponseAt

LEMMA LogKept ==
  ASSUME TypeOK, LogInv, counterSend' = counterSend, abandoned \subseteq abandoned',
         \/ policyLog' = policyLog
         \/ \E n \in Frames, cat \in {"ERROR", "METADATA"} : Feed(cat, n)
  PROVE  LogInv'
<1>1. CASE policyLog' = policyLog
  BY <1>1 DEF LogInv, CmdAt, ResponseAt
<1>2. ASSUME NEW n \in Frames, NEW cat \in {"ERROR", "METADATA"}, Feed(cat, n)
      PROVE  LogInv'
  <2>1. counterSend \in Nat
    BY DEF TypeOK
  <2> QED
    BY <1>2, <2>1, LogGrows
<1> QED
  BY <1>1, <1>2

LEMMA CmdLogged ==
  ASSUME RecordInv, AnswerInv', NEW c \in Clients, NEW o \in use.ops \ {"block"},
         RequestPrepare(c, o)
  PROVE  RecordInv'
<1> DEFINE m == counterSend + 1
<1>0. TypeOK /\ AnswerInv /\ LockInv
  BY DEF RecordInv, AnswerInv, LockInv, LocalsInv
<1>1. counterSend \in Nat /\ counterSend' = m /\ m \in Frames
  <2>1. counterSend \in Nat /\ counterSend' = m
    BY <1>0 DEF RequestPrepare, TypeOK
  <2> QED
    BY <1>0, <2>1, NextFrame DEF RequestPrepare
<1>2. /\ UNCHANGED <<resQueue, unfed, abandoned, owed>> /\ Feed("CMD", m)
      /\ commandLock = NoClient /\ commandLock' = c /\ own'[c] = m
  BY <1>0 DEF RequestPrepare, slaveVars, history, CommandLockFree, TypeOK
<1>3. LogInv'
  BY <1>0, <1>1, <1>2, LogGrows DEF RecordInv
<1>4. HolderInv'
  BY <1>1, <1>2 DEF HolderInv
<1>5. UnfedInv'
  <2>1. ~(Queued(counterSend)')
    <3>1. ~Open(m)
      BY <1>0, <1>1 DEF AnswerInv, Sent
    <3>2. Queued(counterSend)' <=> Queued(m)
      BY <1>1, <1>2 DEF Queued
    <3> QED
      BY <3>1, <3>2 DEF Open
  <2>2. unfed # <<>> /\ abandoned = {} => counterSend = Head(unfed).to
    BY <1>2 DEF RecordInv, UnfedInv
  <2>3. ASSUME NEW i \in 1 .. Len(unfed)
        PROVE  unfed[i].to <= m
    <3>1. unfed[i].to \in Frames /\ unfed[i].to <= counterSend
      <4>1. unfed[i] \in PDUs
        BY <1>0 DEF TypeOK
      <4> QED
        BY <4>1 DEF PDUs, RecordInv, UnfedInv
    <3> QED
      BY <1>1, <3>1 DEF Frames
  <2>4. Len(unfed) <= 1
    BY DEF RecordInv, UnfedInv
  <2>5. commandLock' # NoClient
    BY <1>2
  <2>6. unfed' # <<>> /\ abandoned' = {} => counterSend' = Head(unfed').to + 1
    BY <1>1, <1>2, <2>2
  <2>7. \A i \in 1 .. Len(unfed') : unfed'[i].to <= counterSend'
    BY <1>1, <1>2, <2>3
  <2>8. Len(unfed') <= 1
    BY <1>2, <2>4
  <2> QED
    BY <2>1, <2>5, <2>6, <2>7, <2>8 DEF UnfedInv
<1> QED
  BY <1>3, <1>4, <1>5 DEF RecordInv

LEMMA ResponseLogged ==
  ASSUME RecordInv, AnswerInv', ListenerFeed
  PROVE  RecordInv'
<1> DEFINE n == Head(unfed).to
<1>0. TypeOK
  BY DEF RecordInv, AnswerInv, LockInv, LocalsInv
<1>1. /\ unfed \in Seq(PDUs) /\ unfed # <<>> /\ unfed' = Tail(unfed) /\ counterSend \in Nat
      /\ Feed("RESPONSE", n)
      /\ UNCHANGED <<counterSend, abandoned, commandLock, own>>
  BY <1>0 DEF TypeOK, ListenerFeed, clientVars, lockVars, history
<1>2. n \in Frames /\ Head(unfed) = unfed[1] /\ Len(unfed) = 1
  <2>1. Len(unfed) > 0 /\ Head(unfed) = unfed[1] /\ Len(unfed) \in Nat
    BY <1>1, TailType
  <2>2. Len(unfed) <= 1
    BY DEF RecordInv, UnfedInv
  <2>3. n \in Frames
    BY <1>1, QueueType
  <2>4. Len(unfed) = 1
    BY <2>1, <2>2
  <2> QED
    BY <2>1, <2>3, <2>4
<1>3. n <= counterSend /\ (abandoned = {} => counterSend <= n + 1)
  <2>1. n <= counterSend
    BY <1>2 DEF RecordInv, UnfedInv
  <2>2. abandoned = {} => counterSend = n \/ counterSend = n + 1
    BY <1>1 DEF RecordInv, UnfedInv
  <2> QED
    BY <1>1, <1>2, <2>1, <2>2 DEF Frames
<1>4. LogInv'
  BY <1>0, <1>1, <1>2, <1>3, LogGrows DEF RecordInv
<1>5. HolderInv'
  BY <1>1 DEF RecordInv, HolderInv
<1>6. unfed' = <<>>
  BY <1>1, <1>2
<1> QED
  BY <1>4, <1>5, <1>6 DEF RecordInv, UnfedInv

(* The listener queues a response: it is the one the last command waits    *)
(* for, unless an earlier one has been given up.                           *)
LEMMA ResponseQueued ==
  ASSUME RecordInv, AnswerInv', NEW n \in Frames, ListenerResponse(n)
  PROVE  RecordInv'
<1>0. TypeOK /\ AnswerInv /\ LockInv
  BY DEF RecordInv, AnswerInv, LockInv, LocalsInv
<1>1. PICK pid \in {"RES", "ERR"} : unfed' = Append(unfed, [pid |-> pid, to |-> n])
  BY DEF ListenerResponse
<1>2. Len(unfed') = 1 /\ Head(unfed').to = n /\ unfed'[1].to = n /\ unfed' # <<>>
  BY <1>1 DEF ListenerResponse, ListenerFree
<1>3. UNCHANGED <<policyLog, counterSend, abandoned, commandLock, own>> /\ owed[n] > 0
  BY DEF ListenerResponse, clientVars, lockVars, history
<1>4. n <= counterSend /\ (n \in abandoned \/ n = counterSend)
  <2>1. Open(n)
    BY <1>3 DEF Open
  <2>2. ASSUME NEW c \in Clients, own[c] = n, pc[c] \in {"get", "pop"} \cup Passes
        PROVE  n = counterSend
    <3>1. commandLock = c
      BY <1>0, <2>2 DEF LockInv, Locks
    <3> QED
      BY <2>2, <3>1 DEF RecordInv, HolderInv
  <2> QED
    BY <1>0, <2>1, <2>2 DEF AnswerInv, Sent, Expected
<1>5. LogInv'
  BY <1>0, <1>3, LogKept DEF RecordInv
<1>6. HolderInv'
  BY <1>3 DEF RecordInv, HolderInv
<1>7. UnfedInv'
  BY <1>2, <1>3, <1>4 DEF UnfedInv
<1> QED
  BY <1>5, <1>6, <1>7 DEF RecordInv

(* Whoever takes a response while another is being fed takes the one that  *)
(* is being fed, or not its own.                                           *)
LEMMA ResponseTaken ==
  ASSUME RecordInv, AnswerInv', NEW c \in Clients, GetPop(c)
  PROVE  RecordInv'
<1> DEFINE p == Head(resQueue)
<1>0. TypeOK /\ LockInv
  BY DEF RecordInv, AnswerInv, LockInv, LocalsInv
<1>1. /\ resQueue \in Seq(PDUs) /\ resQueue # <<>> /\ p.to \in Frames
      /\ commandLock = c /\ own[c] = counterSend /\ op[c] # "upload"
  <2>1. resQueue \in Seq(PDUs) /\ resQueue # <<>> /\ pc[c] = "pop"
    BY <1>0 DEF TypeOK, GetPop
  <2>2. commandLock = c /\ op[c] # "upload"
    BY <1>0, <2>1 DEF LockInv, Locks, PlainPlaces
  <2> QED
    BY <2>1, <2>2, QueueType DEF RecordInv, HolderInv
<1>2. /\ UNCHANGED <<counterSend, unfed>> /\ commandLock' = NoClient
      /\ abandoned' = abandoned \cup ({own[c]} \ {p.to})
  BY DEF GetPop, Unlock
<1>3. LogInv'
  <2>1. \/ policyLog' = policyLog
        \/ \E n \in Frames, cat \in {"ERROR", "METADATA"} : Feed(cat, n)
    BY <1>1 DEF GetPop
  <2> QED
    BY <1>0, <1>2, <2>1, LogKept DEF RecordInv
<1>4. HolderInv'
  BY <1>2 DEF HolderInv
<1>5. UnfedInv'
  <2>1. abandoned' = {} => p.to = counterSend /\ abandoned = {}
    BY <1>1, <1>2
  <2>2. Queued(p.to)
    BY <1>1, TailType DEF Queued
  <2> QED
    BY <1>2, <2>1, <2>2 DEF RecordInv, UnfedInv
<1> QED
  BY <1>3, <1>4, <1>5 DEF RecordInv

(* A call that is given up.                                                *)
LEMMA RecordReturns ==
  ASSUME RecordInv, AnswerInv', NEW c \in Clients, Unlock, Abandon(own[c]),
         UNCHANGED <<counterSend, unfed>>,
         \/ policyLog' = policyLog
         \/ \E n \in Frames, cat \in {"ERROR", "METADATA"} : Feed(cat, n)
  PROVE  RecordInv'
<1>1. TypeOK
  BY DEF RecordInv, AnswerInv, LockInv, LocalsInv
<1>2. abandoned' # {} /\ abandoned \subseteq abandoned'
  BY DEF Abandon
<1>3. LogInv'
  BY <1>1, <1>2, LogKept DEF RecordInv
<1>4. HolderInv'
  BY DEF Unlock, HolderInv
<1>5. UnfedInv'
  BY <1>2 DEF RecordInv, UnfedInv
<1> QED
  BY <1>3, <1>4, <1>5 DEF RecordInv

LEMMA RecordQuiet ==
  ASSUME RecordInv, AnswerInv',
         UNCHANGED <<own, commandLock, resQueue, counterSend, unfed, policyLog, abandoned>>
  PROVE  RecordInv'
  BY DEF RecordInv, LogInv, CmdAt, ResponseAt, HolderInv, UnfedInv, Queued

LEMMA RecordNext ==
  ASSUME RecordInv, [Next]_vars
  PROVE  RecordInv'
<1>0. AnswerInv' /\ AnswerInv
  BY AnswerNext DEF RecordInv
<1> USE DEF lockVars, slaveVars, history, clientVars
<1>1. ASSUME NEW c \in Clients, NEW o \in use.ops \ {"block"}, RequestPrepare(c, o)
      PROVE  RecordInv'
  BY <1>0, <1>1, CmdLogged
<1>2. ASSUME NEW c \in Clients,
             \/ RequestSend(c) \/ GetTest(c) \/ GetRestart(c) \/ GetClear(c)
             \/ GetWait(c) \/ GetItem(c)
      PROVE  RecordInv'
  BY <1>0, <1>2, RecordQuiet
  DEF RequestSend, GetTest, GetRestart, GetClear, GetWait, GetItem
<1>3. ASSUME NEW c \in Clients, RequestSendFails(c) \/ GetTimeout(c) \/ GetPopEmpty(c)
      PROVE  RecordInv'
  <2>1. \/ policyLog' = policyLog
        \/ \E n \in Frames, cat \in {"ERROR", "METADATA"} : Feed(cat, n)
    <3>1. pc[c] = "clock" => own[c] \in Frames
      BY <1>0 DEF AnswerInv, LockInv, LocalsInv
    <3> QED
      BY <1>3, <3>1 DEF RequestSendFails, GetTimeout, GetPopEmpty
  <2>2. Unlock /\ Abandon(own[c]) /\ UNCHANGED <<counterSend, unfed>>
    BY <1>3 DEF RequestSendFails, GetTimeout, GetPopEmpty
  <2> QED
    BY <1>0, <2>1, <2>2, RecordReturns
<1>4. ASSUME NEW c \in Clients, GetPop(c)
      PROVE  RecordInv'
  BY <1>0, <1>4, ResponseTaken
<1>5. ASSUME NEW n \in Frames, ListenerResponse(n)
      PROVE  RecordInv'
  BY <1>0, <1>5, ResponseQueued
<1>6. CASE ListenerFeed
  BY <1>0, <1>6, ResponseLogged
<1>7. CASE ListenerEvent \/ ListenerDaq \/ Tick \/ UNCHANGED vars
  BY <1>0, <1>7, RecordQuiet DEF ListenerEvent, ListenerDaq, Tick, vars
<1>8. ASSUME NEW n \in Frames, AnswerLost(n)
      PROVE  RecordInv'
  BY <1>0, <1>8, RecordQuiet DEF AnswerLost
<1>9. ASSUME NEW c \in Clients
      PROVE  /\ ~("block" \in use.ops /\ BlockCheck(c))
             /\ ~ReceivePart(c) /\ ~ReceiveTimeout(c)
             /\ ~BlockPop(c) /\ ~BlockPopEmpty(c) /\ ~BlockSend(c)
  BY <1>0, <1>9 DEF PlainUse, AnswerInv, LockInv, PlainPlaces, ReceivePart, ReceiveTimeout,
                    BlockPop, BlockPopEmpty, BlockSend
<1> QED
  BY <1>1, <1>2, <1>3, <1>4, <1>5, <1>6, <1>7, <1>8, <1>9
  DEF Next, Step, Call, Proceed, Listen

(* Without block transfers the recorder sees every response after the      *)
(* command it answers and, as long as nothing has been given up, with at   *)
(* most one other command in between, for any number of threads.           *)
THEOREM RecordInOrder == Spec /\ PlainUse => []RecordOrder
<1>1. Init /\ PlainUse => RecordInv
  BY RecordInit
<1>2. RecordInv /\ [Next]_vars => RecordInv'
  BY RecordNext
<1>3. RecordInv => RecordOrder
  <2> SUFFICES ASSUME RecordInv, NEW n \in Frames,
                      NEW i \in 1 .. Len(policyLog), NEW j \in 1 .. Len(policyLog),
                      Recorded("CMD", i, n), Recorded("RESPONSE", j, n)
               PROVE  /\ i < j
                      /\ abandoned = {} =>
                           \A k, l \in i + 1 .. j - 1 :
                             policyLog[k].cat = "CMD" /\ policyLog[l].cat = "CMD" => k = l
    BY DEF RecordOrder
  <2>1. /\ CmdAt(i) /\ policyLog[i].to = n
        /\ ResponseAt(j) /\ policyLog[j].to = n
    BY DEF Recorded, CmdAt, ResponseAt
  <2>2. i < j
    BY <2>1 DEF RecordInv, LogInv
  <2>3. ASSUME abandoned = {}, NEW k \in i + 1 .. j - 1, CmdAt(k)
        PROVE  k \in 1 .. Len(policyLog) /\ policyLog[k].to = n + 1
    <3>1. k \in 1 .. Len(policyLog) /\ i < k /\ k < j
      <4>1. Len(policyLog) \in Nat
        BY DEF RecordInv, AnswerInv, LockInv, LocalsInv, TypeOK
      <4> QED
        BY <4>1
    <3>2. policyLog[k].to > n /\ policyLog[k].to <= n + 1
      BY <2>1, <2>3, <3>1 DEF RecordInv, LogInv
    <3>3. policyLog[k].to \in Nat /\ n \in Nat
      <4>1. policyLog \in Seq(LogEntries)
        BY DEF RecordInv, AnswerInv, LockInv, LocalsInv, TypeOK
      <4> QED
        BY <3>1, <4>1, EntryType DEF Frames
    <3> QED
      BY <3>1, <3>2, <3>3
  <2>4. ASSUME abandoned = {}, NEW k \in i + 1 .. j - 1, NEW l \in i + 1 .. j - 1,
               CmdAt(k), CmdAt(l)
        PROVE  k = l
    <3>1. /\ k \in 1 .. Len(policyLog) /\ policyLog[k].to = n + 1
          /\ l \in 1 .. Len(policyLog) /\ policyLog[l].to = n + 1
      BY <2>3, <2>4
    <3>2. n + 1 \in Nat
      BY DEF Frames
    <3>3. k < l => n + 1 < n + 1
      BY <2>4, <3>1 DEF RecordInv, LogInv
    <3>4. l < k => n + 1 < n + 1
      BY <2>4, <3>1 DEF RecordInv, LogInv
    <3> QED
      BY <3>1, <3>2, <3>3, <3>4
  <2> QED
    BY <2>2, <2>4 DEF CmdAt
<1> QED
  BY <1>1, <1>2, <1>3, PTL DEF Spec
=============================================================================
