-------------------------- MODULE ListeningProofs --------------------------
(***************************************************************************)
(* What the tasks behind an AsyncPolicyAdapter see, for any number of      *)
(* subscriptions, categories, queue sizes and waiting tasks; then that the *)
(* listener and the program drive the adapter as Subscriptions says, that  *)
(* a transport that was closed is quiet, and that the listener hands on    *)
(* the frames that were sent as FrameStream says, for any formats, frames, *)
(* cuts, losses and identifiers.                                           *)
(***************************************************************************)
EXTENDS Listening, SequenceTheorems, FiniteSetTheorems, TLAPS

USE SubsAssumption, SizesAssumption DEF fixed, feeding, adapter, loop, Sentinel

-----------------------------------------------------------------------------
(* What is in a sequence after one more, one less and two in a row.        *)
LEMMA OnAppend ==
  ASSUME NEW q \in Seq(Nat), NEW x \in Nat
  PROVE  Append(q, x) \in Seq(Nat) /\ On(Append(q, x)) = On(q) \cup {x}
<1>1. /\ Append(q, x) \in Seq(Nat) /\ Len(Append(q, x)) = Len(q) + 1 /\ Len(q) \in Nat
      /\ \A i \in 1 .. Len(q) : Append(q, x)[i] = q[i]
      /\ Append(q, x)[Len(q) + 1] = x
  OBVIOUS
<1>2. 1 .. Len(q) + 1 = (1 .. Len(q)) \cup {Len(q) + 1}
  BY <1>1
<1> QED
  BY <1>1, <1>2 DEF On

LEMMA OnTail ==
  ASSUME NEW q \in Seq(Nat), q # <<>>
  PROVE  /\ Tail(q) \in Seq(Nat) /\ Head(q) \in Nat
         /\ Len(Tail(q)) = Len(q) - 1
         /\ On(q) = {Head(q)} \cup On(Tail(q))
<1>1. Tail(q) \in Seq(Nat) /\ Head(q) \in Nat /\ Len(Tail(q)) = Len(q) - 1 /\ Head(q) = q[1]
  OBVIOUS
<1>2. \A i \in 1 .. Len(q) - 1 : Tail(q)[i] = q[i + 1]
  OBVIOUS
<1>3. On(q) \subseteq {Head(q)} \cup On(Tail(q))
  <2> SUFFICES ASSUME NEW i \in 1 .. Len(q) PROVE q[i] = Head(q) \/ q[i] \in On(Tail(q))
    BY DEF On
  <2>1. CASE i = 1
    BY <2>1, <1>1
  <2>2. CASE i # 1
    <3>1. i - 1 \in 1 .. Len(q) - 1 /\ (i - 1) + 1 = i
      BY <2>2
    <3>2. Tail(q)[i - 1] = q[i]
      BY <3>1, <1>2
    <3> QED
      BY <3>1, <3>2, <1>1 DEF On
  <2> QED
    BY <2>1, <2>2
<1>4. {Head(q)} \cup On(Tail(q)) \subseteq On(q)
  <2>1. 1 \in 1 .. Len(q)
    OBVIOUS
  <2>2. \A i \in 1 .. Len(q) - 1 : i + 1 \in 1 .. Len(q)
    OBVIOUS
  <2> QED
    BY <1>1, <1>2, <2>1, <2>2 DEF On
<1> QED
  BY <1>1, <1>3, <1>4

LEMMA OnEmpty == On(<<>>) = {}
  BY DEF On

LEMMA OnNat ==
  ASSUME NEW q \in Seq(Nat)
  PROVE  On(q) \subseteq Nat
  BY DEF On

LEMMA OnConcat ==
  ASSUME NEW a \in Seq(Nat), NEW b \in Seq(Nat)
  PROVE  a \o b \in Seq(Nat) /\ On(a \o b) = On(a) \cup On(b)
<1>1. a \o b \in Seq(Nat) /\ Len(a \o b) = Len(a) + Len(b)
  OBVIOUS
<1>2. /\ \A i \in 1 .. Len(a) : (a \o b)[i] = a[i]
      /\ \A i \in 1 .. Len(b) : (a \o b)[Len(a) + i] = b[i]
  OBVIOUS
<1>3. On(a \o b) \subseteq On(a) \cup On(b)
  <2> SUFFICES ASSUME NEW i \in 1 .. Len(a) + Len(b)
               PROVE  (a \o b)[i] \in On(a) \cup On(b)
    BY <1>1 DEF On
  <2>1. CASE i <= Len(a)
    BY <2>1, <1>2 DEF On
  <2>2. CASE i > Len(a)
    <3>1. i - Len(a) \in 1 .. Len(b) /\ Len(a) + (i - Len(a)) = i
      BY <2>2
    <3>2. (a \o b)[i] = b[i - Len(a)]
      BY <3>1, <1>2
    <3> QED
      BY <3>1, <3>2 DEF On
  <2> QED
    BY <2>1, <2>2
<1>4. On(a) \cup On(b) \subseteq On(a \o b)
  <2>1. \A i \in 1 .. Len(a) : i \in 1 .. Len(a) + Len(b)
    OBVIOUS
  <2>2. \A i \in 1 .. Len(b) : Len(a) + i \in 1 .. Len(a) + Len(b)
    OBVIOUS
  <2> QED
    BY <1>1, <1>2, <2>1, <2>2 DEF On
<1> QED
  BY <1>1, <1>3, <1>4

(* The head of the second sequence moves to the end of the first.          *)
LEMMA ConcatMove ==
  ASSUME NEW a \in Seq(Nat), NEW b \in Seq(Nat), b # <<>>
  PROVE  Append(a, Head(b)) \o Tail(b) = a \o b
<1>1. b \in Seq(Nat) /\ Tail(b) \in Seq(Nat) /\ Head(b) \in Nat /\ Head(b) = b[1]
      /\ Len(Tail(b)) = Len(b) - 1 /\ Len(b) > 0
  OBVIOUS
<1>2. \A i \in 1 .. Len(Tail(b)) : Tail(b)[i] = b[i + 1]
  OBVIOUS
<1> DEFINE c == Append(a, Head(b)) \o Tail(b)
<1>3. /\ c \in Seq(Nat) /\ a \o b \in Seq(Nat)
      /\ Len(c) = Len(a) + Len(b) /\ Len(a \o b) = Len(a) + Len(b)
  BY <1>1
<1>4. ASSUME NEW i \in 1 .. Len(a) + Len(b) PROVE c[i] = (a \o b)[i]
  <2>1. CASE i <= Len(a)
    BY <2>1, <1>1
  <2>2. CASE i = Len(a) + 1
    BY <2>2, <1>1
  <2>3. CASE i > Len(a) + 1
    <3>1. i - (Len(a) + 1) \in 1 .. Len(Tail(b))
      BY <2>3, <1>1
    <3>2. c[i] = Tail(b)[i - (Len(a) + 1)]
      BY <2>3, <1>1
    <3>3. (a \o b)[i] = b[i - Len(a)]
      BY <2>3, <1>1
    <3>4. Tail(b)[i - (Len(a) + 1)] = b[i - Len(a)]
      BY <3>1, <1>2
    <3> QED
      BY <3>2, <3>3, <3>4
  <2> QED
    BY <2>1, <2>2, <2>3
<1> QED
  BY <1>3, <1>4, SeqEqual

LEMMA ConcatAppend ==
  ASSUME NEW a \in Seq(Nat), NEW b \in Seq(Nat), NEW x \in Nat
  PROVE  a \o Append(b, x) = Append(a \o b, x)
<1>1. /\ Len(Append(a \o b, x)) = Len(a) + Len(b) + 1
      /\ Len(a \o Append(b, x)) = Len(a) + Len(b) + 1
  OBVIOUS
<1>2. \A i \in 1 .. Len(a) + Len(b) + 1 : (a \o Append(b, x))[i] = Append(a \o b, x)[i]
  OBVIOUS
<1>3. Append(a \o b, x) \in Seq(Nat) /\ a \o Append(b, x) \in Seq(Nat)
  OBVIOUS
<1> QED
  BY <1>1, <1>2, <1>3, SeqEqual

(* An ascending sequence stays so with a sentinel or a larger number at    *)
(* its end, and when something is taken out of it.                         *)
LEMMA AscendingAppend ==
  ASSUME NEW a \in Seq(Nat), NEW x \in Nat, Ascending(a),
         x = Sentinel \/ \A n \in On(a) : n # Sentinel /\ n < x
  PROVE  Ascending(Append(a, x))
<1> SUFFICES ASSUME NEW i \in 1 .. Len(a) + 1, NEW j \in 1 .. Len(a) + 1, i < j,
                    Append(a, x)[j] # Sentinel
             PROVE  Append(a, x)[i] # Sentinel /\ Append(a, x)[i] < Append(a, x)[j]
  BY DEF Ascending
<1>1. i \in 1 .. Len(a) /\ Append(a, x)[i] = a[i]
  OBVIOUS
<1>2. CASE j = Len(a) + 1
  <2>1. Append(a, x)[j] = x
    BY <1>2
  <2>2. a[i] \in On(a)
    BY <1>1 DEF On
  <2> QED
    BY <1>1, <2>1, <2>2
<1>3. CASE j # Len(a) + 1
  <2>1. j \in 1 .. Len(a) /\ Append(a, x)[j] = a[j]
    BY <1>3
  <2> QED
    BY <1>1, <2>1 DEF Ascending
<1> QED
  BY <1>2, <1>3

LEMMA AscendingFront ==
  ASSUME NEW a \in Seq(Nat), NEW b \in Seq(Nat), Ascending(a \o b)
  PROVE  Ascending(a)
<1>1. Len(a \o b) = Len(a) + Len(b) /\ \A i \in 1 .. Len(a) : (a \o b)[i] = a[i]
  OBVIOUS
<1>2. 1 .. Len(a) \subseteq 1 .. Len(a \o b)
  BY <1>1
<1> QED
  BY <1>1, <1>2 DEF Ascending

LEMMA AscendingTail ==
  ASSUME NEW a \in Seq(Nat), NEW b \in Seq(Nat), b # <<>>, Ascending(a \o b)
  PROVE  Ascending(a \o Tail(b))
<1> DEFINE Old(i) == IF i <= Len(a) THEN i ELSE i + 1
           c == a \o Tail(b)
<1>1. /\ Len(a \o b) = Len(a) + Len(b) /\ Len(c) = Len(a) + Len(b) - 1
      /\ Len(Tail(b)) = Len(b) - 1 /\ Tail(b) \in Seq(Nat)
  OBVIOUS
<1>2. \A i \in 1 .. Len(b) - 1 : Tail(b)[i] = b[i + 1]
  OBVIOUS
<1>3. ASSUME NEW i \in 1 .. Len(c)
      PROVE  Old(i) \in 1 .. Len(a \o b) /\ c[i] = (a \o b)[Old(i)]
  <2>1. CASE i <= Len(a)
    BY <2>1, <1>1
  <2>2. CASE i > Len(a)
    <3>1. i - Len(a) \in 1 .. Len(b) - 1 /\ (i - Len(a)) + 1 = i + 1 - Len(a)
      BY <2>2, <1>1
    <3>2. c[i] = Tail(b)[i - Len(a)]
      BY <2>2, <1>1
    <3>3. (a \o b)[i + 1] = b[i + 1 - Len(a)]
      BY <2>2, <1>1
    <3> QED
      BY <3>1, <3>2, <3>3, <2>2, <1>1, <1>2
  <2> QED
    BY <2>1, <2>2
<1>4. \A i, j \in 1 .. Len(c) : i < j => Old(i) < Old(j)
  BY <1>1
<1> QED
  BY <1>3, <1>4 DEF Ascending

-----------------------------------------------------------------------------
(* Who can be where, and what a subscription has that was not made yet.    *)
Made == subscribed \cup closed
Places ==
  /\ subscribing \cap Made = {}
  /\ closing \subseteq Made /\ publishing \subseteq Made
  /\ \A s \in Subs : s \notin Made => taken[s] = <<>> /\ queue[s] = <<>> /\ pending[s] = <<>>
(* The numbers are those of frames fed; the one that is just published is  *)
(* nowhere yet, and before close() there is no sentinel.                   *)
Everywhere(s) == On(taken[s]) \cup On(queue[s]) \cup On(pending[s])
Bounds ==
  \A s \in Subs :
    /\ since[s] <= Len(fed) /\ until[s] <= Len(fed)
    /\ s \in publishing => since[s] < Len(fed)
    /\ \A n \in Everywhere(s) : n <= Len(fed)
    /\ s \notin closed =>
         \A n \in Everywhere(s) : n # Sentinel /\ (s \in publishing => n < Len(fed))
(* Before close() what was read and what is pending ascend together; after *)
(* it, frames may still be pending behind the sentinel.                    *)
Read(s) == taken[s] \o queue[s]
Orders ==
  \A s \in Subs : /\ Ascending(Read(s))
                  /\ s \notin closed => Ascending(Read(s) \o pending[s])
(* What was read is in the span of the subscription, and so is what is     *)
(* pending before close().                                                 *)
Filters ==
  \A s \in Subs :
    /\ \A n \in On(taken[s]) \cup (On(queue[s]) \ {Sentinel}) :
         n \in Span(s) /\ fed[n] \in Wanted[s]
    /\ s \notin closed => \A n \in On(pending[s]) : n \in Span(s)
SubInv == SubTypeOK /\ Places /\ Bounds /\ Orders /\ Filters /\ Complete /\ DroppedWhy

-----------------------------------------------------------------------------
(* The types.                                                              *)
LEMMA TypesOf ==
  ASSUME SubTypeOK, NEW s \in Subs
  PROVE  /\ taken[s] \in Seq(Nat) /\ queue[s] \in Seq(Nat) /\ pending[s] \in Seq(Nat)
         /\ Len(fed) \in Nat /\ maxsize \in Nat /\ dropped[s] \in SUBSET Nat
         /\ since[s] \in Nat /\ until[s] \in Nat
  BY DEF SubTypeOK

LEMMA PopTypes ==
  ASSUME SubTypeOK, NEW s \in Subs, Pops(s)
  PROVE  /\ queue' \in [Subs -> Seq(Nat)] /\ taken' \in [Subs -> Seq(Nat)]
         /\ maxsize > 0 => \A t \in Subs : Len(queue'[t]) <= maxsize
<1>1. /\ Tail(queue[s]) \in Seq(Nat) /\ Head(queue[s]) \in Nat
      /\ Len(Tail(queue[s])) = Len(queue[s]) - 1
  BY TypesOf, OnTail DEF Pops
<1>2. queue' \in [Subs -> Seq(Nat)] /\ taken' \in [Subs -> Seq(Nat)]
  BY <1>1, TypesOf, OnAppend DEF Pops, SubTypeOK
<1>3. ASSUME maxsize > 0, NEW t \in Subs PROVE Len(queue'[t]) <= maxsize
  <2>1. Len(queue[t]) <= maxsize /\ Len(queue[t]) \in Nat /\ maxsize \in Nat
    BY <1>3 DEF SubTypeOK
  <2>2. queue' = [queue EXCEPT ![s] = Tail(@)]
    BY DEF Pops
  <2>3. queue'[t] = IF t = s THEN Tail(queue[s]) ELSE queue[t]
    BY <2>2 DEF SubTypeOK
  <2> QED
    BY <1>1, <2>1, <2>3
<1> QED
  BY <1>2, <1>3

LEMMA RunLoopTypes ==
  ASSUME SubTypeOK, NEW s \in Subs, RunLoop(s)
  PROVE  /\ pending' \in [Subs -> Seq(Nat)] /\ queue' \in [Subs -> Seq(Nat)]
         /\ dropped' \in [Subs -> SUBSET Nat]
         /\ maxsize > 0 => \A t \in Subs : Len(queue'[t]) <= maxsize
         /\ UNCHANGED <<fixed, feeding, adapter, waiting, taken>>
<1>1. Callback(s) /\ UNCHANGED <<fixed, feeding, adapter, waiting, taken>>
  BY DEF RunLoop, Enqueue, CloseQueue
<1>2. Tail(pending[s]) \in Seq(Nat) /\ Head(pending[s]) \in Nat
  BY <1>1, TypesOf, OnTail DEF Callback
<1>3. pending' \in [Subs -> Seq(Nat)]
  BY <1>1, <1>2 DEF Callback, SubTypeOK
<1>4. CASE Enqueue(s)
  <2> DEFINE n == Head(pending[s])
  <2>1. Append(queue[s], n) \in Seq(Nat) /\ Len(Append(queue[s], n)) = Len(queue[s]) + 1
    BY <1>2, TypesOf
  <2>2. \/ UNCHANGED queue /\ (Loses(s, {}) \/ Loses(s, {n}))
        \/ ~Full(s) /\ UNCHANGED dropped /\ queue' = [queue EXCEPT ![s] = Append(@, n)]
    BY <1>4 DEF Enqueue
  <2>3. queue' \in [Subs -> Seq(Nat)] /\ dropped' \in [Subs -> SUBSET Nat]
    <3>1. queue \in [Subs -> Seq(Nat)] /\ dropped \in [Subs -> SUBSET Nat] /\ n \in Nat
      BY <1>2 DEF SubTypeOK
    <3>2. CASE UNCHANGED queue /\ (Loses(s, {}) \/ Loses(s, {n}))
      BY <3>1, <3>2 DEF Loses
    <3>3. CASE UNCHANGED dropped /\ queue' = [queue EXCEPT ![s] = Append(@, n)]
      BY <2>1, <3>1, <3>3
    <3> QED
      BY <2>2, <3>2, <3>3
  <2>4. ASSUME maxsize > 0, NEW t \in Subs PROVE Len(queue'[t]) <= maxsize
    <3>1. Len(queue[t]) <= maxsize /\ Len(queue[t]) \in Nat /\ maxsize \in Nat
      BY <2>4 DEF SubTypeOK
    <3>2. CASE UNCHANGED queue
      BY <3>1, <3>2
    <3>3. CASE ~Full(s) /\ queue' = [queue EXCEPT ![s] = Append(@, n)]
      BY <2>1, <2>4, <3>1, <3>3 DEF Full, SubTypeOK
    <3> QED
      BY <2>2, <3>2, <3>3
  <2> QED
    BY <1>1, <1>3, <2>3, <2>4
<1>5. CASE CloseQueue(s)
  <2>1. /\ queue' = [queue EXCEPT ![s] = WithSentinel(s)]
        /\ Loses(s, IF Full(s) THEN {Head(queue[s])} ELSE {})
    BY <1>5 DEF CloseQueue
  <2>2. Full(s) => queue[s] # <<>>
    BY TypesOf DEF Full
  <2>3. /\ WithSentinel(s) \in Seq(Nat)
        /\ Len(WithSentinel(s)) = IF Full(s) THEN Len(queue[s]) ELSE Len(queue[s]) + 1
    BY <2>2, TypesOf, OnTail DEF WithSentinel
  <2>4. queue' \in [Subs -> Seq(Nat)] /\ dropped' \in [Subs -> SUBSET Nat]
    <3>1. queue \in [Subs -> Seq(Nat)] /\ dropped \in [Subs -> SUBSET Nat]
      BY DEF SubTypeOK
    <3>2. Full(s) => Head(queue[s]) \in Nat
      BY <2>2, TypesOf, OnTail
    <3>3. queue' \in [Subs -> Seq(Nat)]
      BY <2>1, <2>3, <3>1
    <3>4. dropped' \in [Subs -> SUBSET Nat]
      BY <2>1, <3>1, <3>2 DEF Loses
    <3> QED
      BY <3>3, <3>4
  <2>5. ASSUME maxsize > 0, NEW t \in Subs PROVE Len(queue'[t]) <= maxsize
    <3>1. \A u \in Subs : Len(queue[u]) <= maxsize /\ Len(queue[u]) \in Nat /\ maxsize \in Nat
      BY <2>5 DEF SubTypeOK
    <3>2. Len(WithSentinel(s)) <= maxsize
      BY <2>3, <2>5, <3>1 DEF Full
    <3> QED
      BY <2>1, <3>1, <3>2 DEF SubTypeOK
  <2> QED
    BY <1>1, <1>3, <2>4, <2>5
<1> QED
  BY <1>4, <1>5 DEF RunLoop

LEMMA ClosesTypes ==
  ASSUME SubTypeOK, NEW s \in Subs, Closes(s)
  PROVE  /\ closed' \subseteq Subs /\ subscribed' \subseteq Subs
         /\ subscribed' \cap closed' = {}
         /\ pending' \in [Subs -> Seq(Nat)] /\ until' \in [Subs -> Nat]
<1>1. Append(pending[s], Sentinel) \in Seq(Nat) /\ Len(fed) \in Nat
  BY TypesOf, OnAppend
<1>2. pending' \in [Subs -> Seq(Nat)] /\ until' \in [Subs -> Nat]
  <2>1. pending \in [Subs -> Seq(Nat)] /\ until \in [Subs -> Nat]
    BY DEF SubTypeOK
  <2>2. \/ UNCHANGED <<pending, until>>
        \/ /\ pending' = [pending EXCEPT ![s] = Append(@, Sentinel)]
           /\ until' = [until EXCEPT ![s] = Len(fed)]
    BY DEF Closes
  <2> QED
    BY <1>1, <2>1, <2>2
<1> QED
  BY <1>2 DEF Closes, SubTypeOK

(* get() changes only the queue and what was taken.                        *)
LEMMA GetEffect ==
  ASSUME NEW s \in Subs, GetAtOnce(s) \/ GetReturns(s)
  PROVE  Pops(s) /\ UNCHANGED <<fixed, feeding, adapter, pending, dropped>>
  BY DEF GetAtOnce, GetReturns

LEMMA TypeStep ==
  ASSUME SubTypeOK, subscribing \cap closed = {}, SubNext
  PROVE  SubTypeOK'
<1>1. ASSUME NEW s \in Subs, SubscribeTest(s) PROVE SubTypeOK'
  BY <1>1 DEF SubscribeTest, SubTypeOK
<1>2. ASSUME NEW s \in Subs, SubscribeAdd(s) PROVE SubTypeOK'
  BY <1>2, TypesOf DEF SubscribeAdd, SubTypeOK
<1>3. ASSUME NEW s \in Subs, Publish(s) PROVE SubTypeOK'
  <2>1. pending' \in [Subs -> Seq(Nat)]
    BY <1>3, TypesOf, OnAppend DEF Publish, SubTypeOK
  <2> QED
    BY <1>3, <2>1 DEF Publish, SubTypeOK
<1>4. ASSUME NEW s \in Subs, RunLoop(s) PROVE SubTypeOK'
  BY <1>4, RunLoopTypes DEF SubTypeOK
<1>5. ASSUME NEW s \in Subs, Close(s) \/ FinalizeClose(s) PROVE SubTypeOK'
  <2>1. Closes(s) /\ UNCHANGED <<fixed, feeding, finalized, subscribing, since, queue, waiting,
                                taken, dropped>> /\ closing' \subseteq closing
    BY <1>5 DEF Close, FinalizeClose
  <2> QED
    BY <2>1, ClosesTypes DEF SubTypeOK
<1>6. ASSUME NEW s \in Subs, GetAtOnce(s) \/ GetReturns(s) PROVE SubTypeOK'
  <2>1. Pops(s) /\ UNCHANGED <<fixed, feeding, adapter, pending, dropped>>
    BY <1>6, GetEffect
  <2>2. \/ UNCHANGED waiting
        \/ waiting[s] > 0 /\ waiting' = [waiting EXCEPT ![s] = @ - 1]
    BY <1>6 DEF GetAtOnce, GetReturns
  <2>3. /\ waiting \in [Subs -> Nat] /\ consumers \in Nat
        /\ \A t \in Subs : waiting[t] <= consumers
    BY DEF SubTypeOK
  <2>4. waiting' \in [Subs -> Nat] /\ \A t \in Subs : waiting'[t] <= consumers
    BY <2>2, <2>3
  <2> QED
    BY <2>1, <2>4, PopTypes DEF SubTypeOK
<1>7. ASSUME NEW s \in Subs, GetWaits(s) PROVE SubTypeOK'
  <2>1. waiting' \in [Subs -> Nat] /\ \A t \in Subs : waiting'[t] <= consumers
    BY <1>7 DEF GetWaits, SubTypeOK
  <2> QED
    BY <1>7, <2>1 DEF GetWaits, SubTypeOK
<1>8. ASSUME NEW category \in Categories, FeedFrame(category) PROVE SubTypeOK'
  <2>1. fed' \in Seq(Categories) /\ fed' # <<>>
    BY <1>8 DEF FeedFrame, SubTypeOK
  <2> QED
    BY <1>8, <2>1 DEF FeedFrame, SubTypeOK
<1>9. ASSUME FinalizePolicy PROVE SubTypeOK'
  BY <1>9 DEF FinalizePolicy, SubTypeOK
<1> QED
  BY <1>1, <1>2, <1>3, <1>4, <1>5, <1>6, <1>7, <1>8, <1>9 DEF SubNext, SubStep

-----------------------------------------------------------------------------
(* What the loop and get() do to a subscription, in terms of what is where.*)
LEMMA RunLoopEffect ==
  ASSUME SubTypeOK, NEW s \in Subs, RunLoop(s)
  PROVE  /\ pending[s] # <<>> /\ UNCHANGED <<fixed, feeding, adapter, waiting, taken>>
         /\ \A t \in Subs \ {s} : /\ queue'[t] = queue[t] /\ pending'[t] = pending[t]
                                  /\ dropped'[t] = dropped[t]
         /\ On(pending'[s]) \subseteq On(pending[s])
         /\ \A n \in On(queue'[s]) :
              \/ n \in On(queue[s])
              \/ n \in On(pending[s]) /\ n = Sentinel
              \/ n \in On(pending[s]) /\ n # Sentinel /\ s \notin closed /\ fed[n] \in Wanted[s]
         /\ \A n \in On(queue[s]) \cup On(pending[s]) :
              n # Sentinel /\ fed[n] \in Wanted[s] =>
                n \in On(queue'[s]) \cup On(pending'[s]) \cup dropped'[s]
         /\ dropped[s] \subseteq dropped'[s]
         /\ dropped'[s] = dropped[s] \/ maxsize > 0 \/ s \in closed
<1> DEFINE n == Head(pending[s])
<1>1. /\ pending[s] # <<>> /\ pending' = [pending EXCEPT ![s] = Tail(@)]
      /\ UNCHANGED <<fixed, feeding, adapter, waiting, taken>>
  BY DEF RunLoop, Enqueue, CloseQueue, Callback
<1>2. n \in Nat /\ On(pending[s]) = {n} \cup On(Tail(pending[s]))
  BY <1>1, TypesOf, OnTail
<1>3. pending'[s] = Tail(pending[s]) /\ \A t \in Subs \ {s} : pending'[t] = pending[t]
  BY <1>1 DEF SubTypeOK
<1>4. CASE Enqueue(s)
  <2>1. n # Sentinel
    BY <1>4 DEF Enqueue
  <2>2. \/ /\ UNCHANGED queue /\ Ignores(s, n)
           /\ Loses(s, IF fed[n] \in Wanted[s] THEN {n} ELSE {})
        \/ UNCHANGED queue /\ Full(s) /\ Loses(s, {n})
        \/ ~Ignores(s, n) /\ UNCHANGED dropped /\ queue' = [queue EXCEPT ![s] = Append(@, n)]
    BY <1>4 DEF Enqueue
  <2>3. CASE UNCHANGED queue /\ Ignores(s, n) /\ Loses(s, IF fed[n] \in Wanted[s] THEN {n} ELSE {})
    <3>1. /\ dropped'[s] = dropped[s] \cup IF fed[n] \in Wanted[s] THEN {n} ELSE {}
          /\ \A t \in Subs \ {s} : dropped'[t] = dropped[t]
      BY <2>1, <2>3 DEF Loses, SubTypeOK
    <3>2. fed[n] \in Wanted[s] => s \in closed
      BY <2>3 DEF Ignores
    <3> QED
      BY <1>1, <1>2, <1>3, <2>3, <3>1, <3>2
  <2>4. CASE UNCHANGED queue /\ Full(s) /\ Loses(s, {n})
    <3>1. /\ dropped'[s] = dropped[s] \cup {n} /\ maxsize > 0
          /\ \A t \in Subs \ {s} : dropped'[t] = dropped[t]
      BY <2>1, <2>4 DEF Loses, Full, SubTypeOK
    <3> QED
      BY <1>1, <1>2, <1>3, <2>4, <3>1
  <2>5. CASE ~Ignores(s, n) /\ UNCHANGED dropped /\ queue' = [queue EXCEPT ![s] = Append(@, n)]
    <3>1. queue'[s] = Append(queue[s], n) /\ \A t \in Subs \ {s} : queue'[t] = queue[t]
      BY <2>5 DEF SubTypeOK
    <3>2. On(queue'[s]) = On(queue[s]) \cup {n}
      BY <1>2, <3>1, TypesOf, OnAppend
    <3>3. s \notin closed /\ fed[n] \in Wanted[s]
      BY <2>5 DEF Ignores
    <3> QED
      BY <1>1, <1>2, <1>3, <2>1, <2>5, <3>1, <3>2, <3>3
  <2> QED
    BY <2>2, <2>3, <2>4, <2>5
<1>5. CASE CloseQueue(s)
  <2>1. /\ n = Sentinel /\ queue' = [queue EXCEPT ![s] = WithSentinel(s)]
        /\ Loses(s, IF Full(s) THEN {Head(queue[s])} ELSE {})
    BY <1>5 DEF CloseQueue
  <2>2. queue'[s] = WithSentinel(s) /\ \A t \in Subs \ {s} : queue'[t] = queue[t]
    BY <2>1 DEF SubTypeOK
  <2>3. /\ dropped'[s] = dropped[s] \cup ((IF Full(s) THEN {Head(queue[s])} ELSE {}) \ {Sentinel})
        /\ \A t \in Subs \ {s} : dropped'[t] = dropped[t]
    BY <2>1 DEF Loses, SubTypeOK
  <2>4. CASE Full(s)
    <3>1. queue[s] # <<>> /\ maxsize > 0
      BY <2>4, TypesOf DEF Full
    <3>2. On(queue[s]) = {Head(queue[s])} \cup On(Tail(queue[s])) /\ Tail(queue[s]) \in Seq(Nat)
      BY <3>1, TypesOf, OnTail
    <3>3. On(queue'[s]) = On(Tail(queue[s])) \cup {Sentinel}
      BY <2>2, <2>4, <3>2, OnAppend DEF WithSentinel
    <3> QED
      BY <1>1, <1>2, <1>3, <2>1, <2>2, <2>3, <2>4, <3>1, <3>2, <3>3
  <2>5. CASE ~Full(s)
    <3>1. On(queue'[s]) = On(queue[s]) \cup {Sentinel}
      BY <2>2, <2>5, TypesOf, OnAppend DEF WithSentinel
    <3> QED
      BY <1>1, <1>2, <1>3, <2>1, <2>2, <2>3, <2>5, <3>1
  <2> QED
    BY <2>4, <2>5
<1> QED
  BY <1>4, <1>5 DEF RunLoop

LEMMA PopEffect ==
  ASSUME SubTypeOK, NEW s \in Subs, Pops(s)
  PROVE  /\ queue[s] # <<>>
         /\ \A t \in Subs \ {s} : queue'[t] = queue[t] /\ taken'[t] = taken[t]
         /\ On(queue'[s]) \subseteq On(queue[s])
         /\ On(taken'[s]) \subseteq On(taken[s]) \cup (On(queue[s]) \ {Sentinel})
         /\ On(taken[s]) \cup On(queue[s])
              \subseteq On(taken'[s]) \cup On(queue'[s]) \cup {Sentinel}
<1> DEFINE n == Head(queue[s])
<1>1. /\ queue[s] # <<>> /\ queue' = [queue EXCEPT ![s] = Tail(@)]
      /\ taken' = IF n = Sentinel THEN taken ELSE [taken EXCEPT ![s] = Append(@, n)]
  BY DEF Pops
<1>2. /\ queue'[s] = Tail(queue[s])
      /\ taken'[s] = IF n = Sentinel THEN taken[s] ELSE Append(taken[s], n)
      /\ \A t \in Subs \ {s} : queue'[t] = queue[t] /\ taken'[t] = taken[t]
  BY <1>1 DEF SubTypeOK
<1>3. n \in Nat /\ On(queue[s]) = {n} \cup On(Tail(queue[s]))
  BY <1>1, TypesOf, OnTail
<1>4. On(Append(taken[s], n)) = On(taken[s]) \cup {n}
  BY <1>3, TypesOf, OnAppend
<1> QED
  BY <1>1, <1>2, <1>3, <1>4

LEMMA ClosesEffect ==
  ASSUME SubTypeOK, NEW s \in Subs, Close(s) \/ FinalizeClose(s)
  PROVE  /\ s \in subscribed \cup closing
         /\ UNCHANGED <<fixed, feeding, finalized, subscribing, since, queue, waiting, taken,
                        dropped>>
         /\ closing' \subseteq closing
         /\ closed' = closed \cup {s} /\ subscribed' = subscribed \ {s}
         /\ s \in closed => UNCHANGED <<pending, until>>
         /\ s \notin closed => until' = [until EXCEPT ![s] = Len(fed)]
         /\ s \notin closed => pending' = [pending EXCEPT ![s] = Append(@, Sentinel)]
         /\ \A t \in Subs \ {s} : pending'[t] = pending[t] /\ until'[t] = until[t]
         /\ On(pending'[s]) = On(pending[s]) \cup (IF s \in closed THEN {} ELSE {Sentinel})
<1>1. /\ s \in subscribed \cup closing /\ Closes(s) /\ closing' \subseteq closing
      /\ UNCHANGED <<fixed, feeding, finalized, subscribing, since, queue, waiting, taken,
                     dropped>>
  BY DEF Close, FinalizeClose
<1>2. On(Append(pending[s], Sentinel)) = On(pending[s]) \cup {Sentinel}
  BY TypesOf, OnAppend
<1>3. s \in closed => s \notin subscribed
  BY DEF SubTypeOK
<1>4. CASE s \in closed
  BY <1>1, <1>3, <1>4 DEF Closes
<1>5. CASE s \notin closed
  <2>1. /\ pending' = [pending EXCEPT ![s] = Append(@, Sentinel)]
        /\ until' = [until EXCEPT ![s] = Len(fed)]
        /\ closed' = closed \cup {s} /\ subscribed' = subscribed \ {s}
    BY <1>1, <1>5 DEF Closes
  <2>2. /\ pending'[s] = Append(pending[s], Sentinel)
        /\ \A t \in Subs \ {s} : pending'[t] = pending[t] /\ until'[t] = until[t]
    BY <2>1 DEF SubTypeOK
  <2> QED
    BY <1>1, <1>2, <1>5, <2>1, <2>2
<1> QED
  BY <1>4, <1>5

LEMMA PublishEffect ==
  ASSUME SubTypeOK, NEW s \in Subs, Publish(s)
  PROVE  /\ s \in publishing /\ publishing' = publishing \ {s}
         /\ UNCHANGED <<fixed, fed, adapter, queue, waiting, taken, dropped>>
         /\ pending'[s] = Append(pending[s], Len(fed))
         /\ \A t \in Subs \ {s} : pending'[t] = pending[t]
         /\ On(pending'[s]) = On(pending[s]) \cup {Len(fed)}
<1>1. On(Append(pending[s], Len(fed))) = On(pending[s]) \cup {Len(fed)}
  BY TypesOf, OnAppend
<1> QED
  BY <1>1 DEF Publish, SubTypeOK

-----------------------------------------------------------------------------
(* The conjuncts of the invariant, one after the other.  A step either     *)
(* leaves what the subscriptions hold alone, or is that of one of them.    *)
Aside ==
  \/ \E s \in Subs : SubscribeTest(s) \/ SubscribeAdd(s) \/ GetWaits(s)
  \/ FinalizePolicy
Gets(s) == GetAtOnce(s) \/ GetReturns(s)
CloseOf(s) == Close(s) \/ FinalizeClose(s)
LEMMA SubSteps ==
  ASSUME SubNext
  PROVE  \/ Aside \/ \E category \in Categories : FeedFrame(category)
         \/ \E s \in Subs : Publish(s) \/ RunLoop(s) \/ CloseOf(s) \/ Gets(s)
  BY DEF SubNext, SubStep, Aside, Gets, CloseOf

LEMMA AsideEffect ==
  ASSUME Aside
  PROVE  /\ UNCHANGED <<fixed, feeding, closed, until, pending, queue, taken, dropped>>
         /\ \/ UNCHANGED <<subscribed, since>>
            \/ \E s \in subscribing : /\ subscribed' = subscribed \cup {s}
                                      /\ since' = [since EXCEPT ![s] = Len(fed)]
  BY DEF Aside, SubscribeTest, SubscribeAdd, GetWaits, FinalizePolicy

LEMMA PlacesStep ==
  ASSUME SubInv, SubNext
  PROVE  Places'
<1> SubTypeOK /\ Places
  BY DEF SubInv
<1>1. CASE Aside
  <2>1. ASSUME NEW s \in Subs, SubscribeTest(s) PROVE Places'
    BY <2>1 DEF SubscribeTest, New, Places, Made
  <2>2. ASSUME NEW s \in Subs, SubscribeAdd(s) PROVE Places'
    BY <2>2 DEF SubscribeAdd, Places, Made
  <2>3. ASSUME NEW s \in Subs, GetWaits(s) PROVE Places'
    BY <2>3 DEF GetWaits, Places, Made
  <2>4. ASSUME FinalizePolicy PROVE Places'
    BY <2>4 DEF FinalizePolicy, Places, Made
  <2> QED
    BY <1>1, <2>1, <2>2, <2>3, <2>4 DEF Aside
<1>2. ASSUME NEW category \in Categories, FeedFrame(category) PROVE Places'
  BY <1>2 DEF FeedFrame, Places, Made
<1>3. ASSUME NEW s \in Subs, Publish(s) PROVE Places'
  BY <1>3, PublishEffect DEF Places, Made
<1>4. ASSUME NEW s \in Subs, RunLoop(s) PROVE Places'
  BY <1>4, RunLoopEffect DEF Places, Made
<1>5. ASSUME NEW s \in Subs, CloseOf(s) PROVE Places'
  BY <1>5, ClosesEffect DEF CloseOf, Places, Made
<1>6. ASSUME NEW s \in Subs, Gets(s) PROVE Places'
  BY <1>6, GetEffect, PopEffect DEF Gets, Places, Made
<1> QED
  BY <1>1, <1>2, <1>3, <1>4, <1>5, <1>6, SubSteps

(* A frame more.                                                           *)
LEMMA FeedEffect ==
  ASSUME SubTypeOK, NEW category \in Categories, FeedFrame(category)
  PROVE  /\ publishing = {} /\ publishing' = subscribed
         /\ UNCHANGED <<fixed, adapter, loop>>
         /\ Len(fed') = Len(fed) + 1 /\ Len(fed) \in Nat
         /\ \A n \in 1 .. Len(fed) : fed'[n] = fed[n]
<1>1. fed \in Seq(Categories) /\ fed' = Append(fed, category)
  BY DEF FeedFrame, SubTypeOK
<1> QED
  BY <1>1 DEF FeedFrame

LEMMA BoundsStep ==
  ASSUME SubInv, SubNext
  PROVE  Bounds'
<1> SubTypeOK /\ Places /\ Bounds
  BY DEF SubInv
<1> SUFFICES ASSUME NEW t \in Subs
             PROVE  /\ since'[t] <= Len(fed') /\ until'[t] <= Len(fed')
                    /\ t \in publishing' => since'[t] < Len(fed')
                    /\ \A n \in Everywhere(t)' : n <= Len(fed')
                    /\ t \notin closed' =>
                         \A n \in Everywhere(t)' :
                           n # Sentinel /\ (t \in publishing' => n < Len(fed'))
  BY DEF Bounds
<1>0. /\ since[t] <= Len(fed) /\ until[t] <= Len(fed)
      /\ t \in publishing => since[t] < Len(fed)
      /\ \A n \in Everywhere(t) : n <= Len(fed)
      /\ t \notin closed =>
           \A n \in Everywhere(t) : n # Sentinel /\ (t \in publishing => n < Len(fed))
  BY DEF Bounds
<1>T. Len(fed) \in Nat /\ since[t] \in Nat /\ until[t] \in Nat /\ Everywhere(t) \subseteq Nat
  BY TypesOf, OnNat DEF Everywhere
<1>1. CASE Aside
  <2>1. UNCHANGED <<fed, publishing, closed, until>> /\ Everywhere(t)' = Everywhere(t)
    BY <1>1, AsideEffect DEF Everywhere
  <2>2. since'[t] = since[t] \/ (t \notin publishing /\ since'[t] = Len(fed))
    BY <1>1, AsideEffect DEF SubTypeOK, Places, Made
  <2> QED
    BY <1>0, <1>T, <2>1, <2>2
<1>2. ASSUME NEW category \in Categories, FeedFrame(category)
      PROVE  /\ since'[t] <= Len(fed') /\ until'[t] <= Len(fed')
             /\ since'[t] < Len(fed')
             /\ \A n \in Everywhere(t)' : n <= Len(fed') /\ n < Len(fed')
             /\ t \notin closed' => \A n \in Everywhere(t)' : n # Sentinel
  <2>1. UNCHANGED <<since, until, closed>> /\ Everywhere(t)' = Everywhere(t)
    BY <1>2, FeedEffect DEF Everywhere
  <2>2. Len(fed') = Len(fed) + 1
    BY <1>2, FeedEffect
  <2> QED
    BY <1>0, <1>T, <2>1, <2>2
<1>3. ASSUME NEW s \in Subs, Publish(s) PROVE Bounds'
  <2>1. ASSUME NEW u \in Subs
        PROVE  Everywhere(u)' = Everywhere(u) \cup (IF u = s THEN {Len(fed)} ELSE {})
    BY <1>3, PublishEffect DEF Everywhere
  <2>2. /\ UNCHANGED <<fed, since, until, closed>>
        /\ publishing' = publishing \ {s} /\ s \in publishing
    BY <1>3, PublishEffect
  <2>3. Len(fed) \in Nat /\ \A u \in Subs : since[u] \in Nat
    BY TypesOf
  <2>4. Len(fed) # 0
    BY <2>2, <2>3 DEF Bounds
  <2> QED
    BY <2>1, <2>2, <2>3, <2>4 DEF Bounds
<1>4. ASSUME NEW s \in Subs, RunLoop(s) PROVE Bounds'
  <2>1. UNCHANGED <<fed, since, until, closed, publishing>>
    BY <1>4, RunLoopEffect
  <2>2. ASSUME NEW u \in Subs PROVE Everywhere(u)' \subseteq Everywhere(u)
    <3>1. CASE u = s
      BY <1>4, <3>1, RunLoopEffect DEF Everywhere
    <3>2. CASE u # s
      BY <1>4, <3>2, RunLoopEffect DEF Everywhere
    <3> QED
      BY <3>1, <3>2
  <2> QED
    BY <2>1, <2>2 DEF Bounds
<1>5. ASSUME NEW s \in Subs, CloseOf(s) PROVE Bounds'
  <2>1. /\ UNCHANGED <<fed, since, publishing>> /\ closed' = closed \cup {s}
        /\ \A u \in Subs : until'[u] = until[u] \/ until'[u] = Len(fed)
    BY <1>5, ClosesEffect DEF CloseOf, SubTypeOK
  <2>2. ASSUME NEW u \in Subs
        PROVE  /\ Everywhere(u)' \subseteq Everywhere(u) \cup {Sentinel}
               /\ u # s => Everywhere(u)' = Everywhere(u)
    BY <1>5, ClosesEffect DEF CloseOf, Everywhere
  <2>3. Len(fed) \in Nat
    BY TypesOf
  <2> QED
    BY <2>1, <2>2, <2>3 DEF Bounds
<1>6. ASSUME NEW s \in Subs, Gets(s) PROVE Bounds'
  <2>1. UNCHANGED <<fed, since, until, closed, publishing, pending>> /\ Pops(s)
    BY <1>6, GetEffect DEF Gets
  <2>2. ASSUME NEW u \in Subs PROVE Everywhere(u)' \subseteq Everywhere(u)
    <3>1. CASE u = s
      BY <2>1, <3>1, PopEffect DEF Everywhere
    <3>2. CASE u # s
      BY <2>1, <3>2, PopEffect DEF Everywhere
    <3> QED
      BY <3>1, <3>2
  <2> QED
    BY <2>1, <2>2 DEF Bounds
<1> QED
  <2>1. CASE \E category \in Categories : FeedFrame(category)
    BY <1>2, <2>1
  <2>2. CASE \E s \in Subs : Publish(s) \/ RunLoop(s) \/ CloseOf(s) \/ Gets(s)
    <3>1. Bounds'
      BY <1>3, <1>4, <1>5, <1>6, <2>2
    <3> QED
      BY <3>1 DEF Bounds
  <2> QED
    BY <1>1, <2>1, <2>2, SubSteps

LEMMA OrdersStep ==
  ASSUME SubInv, SubNext
  PROVE  Orders'
<1> SubTypeOK /\ Bounds /\ Orders /\ Places
  BY DEF SubInv
<1>1. CASE Aside
  BY <1>1, AsideEffect DEF Orders, Read
<1>2. ASSUME NEW category \in Categories, FeedFrame(category) PROVE Orders'
  BY <1>2, FeedEffect DEF Orders, Read
<1>3. ASSUME NEW s \in Subs, Publish(s) PROVE Orders'
  <2>1. UNCHANGED <<closed, queue, taken>> /\ pending'[s] = Append(pending[s], Len(fed))
        /\ \A t \in Subs \ {s} : pending'[t] = pending[t]
    BY <1>3, PublishEffect
  <2>2. ASSUME s \notin closed PROVE Ascending(Read(s) \o Append(pending[s], Len(fed)))
    <3>1. Read(s) \in Seq(Nat) /\ pending[s] \in Seq(Nat) /\ Len(fed) \in Nat
      BY TypesOf, OnConcat DEF Read
    <3>2. /\ Read(s) \o pending[s] \in Seq(Nat)
          /\ On(Read(s) \o pending[s]) = Everywhere(s)
      BY <3>1, TypesOf, OnConcat DEF Read, Everywhere
    <3>3. \A n \in Everywhere(s) : n # Sentinel /\ n < Len(fed)
      BY <1>3, <2>2, PublishEffect DEF Bounds
    <3>4. Ascending(Append(Read(s) \o pending[s], Len(fed)))
      BY <2>2, <3>1, <3>2, <3>3, AscendingAppend DEF Orders
    <3> QED
      BY <3>1, <3>4, ConcatAppend
  <2> QED
    BY <2>1, <2>2 DEF Orders, Read
<1>4. ASSUME NEW s \in Subs, RunLoop(s) PROVE Orders'
  <2>1. /\ UNCHANGED <<closed, taken>> /\ pending[s] # <<>>
        /\ \A t \in Subs \ {s} : queue'[t] = queue[t] /\ pending'[t] = pending[t]
    BY <1>4, RunLoopEffect
  <2>2. pending'[s] = Tail(pending[s])
    BY <1>4 DEF RunLoop, Enqueue, CloseQueue, Callback, SubTypeOK
  <2> DEFINE n == Head(pending[s])
  <2>3. /\ taken[s] \in Seq(Nat) /\ queue[s] \in Seq(Nat) /\ pending[s] \in Seq(Nat)
        /\ Tail(pending[s]) \in Seq(Nat) /\ n \in Nat /\ Read(s) \in Seq(Nat)
    BY <2>1, TypesOf, OnTail, OnConcat DEF Read
  <2>4. n \in Everywhere(s)
    BY <2>1, <2>3, OnTail DEF Everywhere
  <2>5. CASE queue'[s] = queue[s]
    <3>1. s \notin closed => Ascending(Read(s) \o Tail(pending[s]))
      BY <2>1, <2>3, AscendingTail DEF Orders
    <3> QED
      BY <2>1, <2>2, <2>5, <3>1 DEF Orders, Read
  <2>6. CASE queue'[s] = Append(queue[s], n) /\ s \notin closed
    <3>1. Read(s)' = Append(Read(s), n)
      <4>1. taken[s] \o Append(queue[s], n) = Append(taken[s] \o queue[s], n)
        BY <2>3, ConcatAppend
      <4> HIDE DEF n
      <4> QED
        BY <2>1, <2>6, <4>1 DEF Read
    <3>2. Append(Read(s), n) \o Tail(pending[s]) = Read(s) \o pending[s]
      BY <2>1, <2>3, ConcatMove
    <3>3. Append(Read(s), n) \in Seq(Nat) /\ Ascending(Read(s) \o pending[s])
      BY <2>3, <2>6, OnAppend DEF Orders
    <3>4. Ascending(Append(Read(s), n))
      BY <2>3, <3>2, <3>3, AscendingFront
    <3>5. Ascending(Read(s)') /\ Ascending(Read(s)' \o pending'[s])
      BY <2>2, <3>1, <3>2, <3>3, <3>4
    <3> QED
      BY <2>1, <3>5 DEF Orders, Read
  <2>7. CASE n = Sentinel /\ queue'[s] = WithSentinel(s)
    <3>1. s \in closed
      BY <2>4, <2>7 DEF Bounds
    <3> DEFINE rest == IF Full(s) THEN Tail(queue[s]) ELSE queue[s]
    <3>2. Full(s) => queue[s] # <<>>
      BY TypesOf DEF Full
    <3>3. rest \in Seq(Nat) /\ taken[s] \o rest \in Seq(Nat)
      BY <2>3, <3>2, OnTail, OnConcat
    <3>4. Ascending(taken[s] \o rest)
      BY <2>3, <3>2, AscendingTail DEF Orders, Read
    <3>5. Ascending(Append(taken[s] \o rest, Sentinel))
      BY <3>3, <3>4, AscendingAppend
    <3>6. Read(s)' = Append(taken[s] \o rest, Sentinel)
      <4>1. taken[s] \o Append(rest, Sentinel) = Append(taken[s] \o rest, Sentinel)
        <5> HIDE DEF rest
        <5> QED
          BY <2>3, <3>3, 0 \in Nat, ConcatAppend
      <4>2. queue'[s] = Append(rest, Sentinel)
        BY <2>7 DEF WithSentinel
      <4> HIDE DEF n, rest
      <4> QED
        BY <2>1, <4>1, <4>2 DEF Read
    <3> QED
      BY <2>1, <3>1, <3>5, <3>6 DEF Orders, Read
  <2>8. CASE Enqueue(s)
    <3>1. \/ UNCHANGED queue
          \/ s \notin closed /\ queue' = [queue EXCEPT ![s] = Append(@, n)]
      BY <2>8 DEF Enqueue, Ignores
    <3> QED
      BY <2>5, <2>6, <3>1 DEF SubTypeOK
  <2>9. CASE CloseQueue(s)
    BY <2>7, <2>9 DEF CloseQueue, SubTypeOK
  <2> QED
    BY <1>4, <2>8, <2>9 DEF RunLoop
<1>5. ASSUME NEW s \in Subs, CloseOf(s) PROVE Orders'
  <2>1. /\ UNCHANGED <<queue, taken>> /\ closed' = closed \cup {s}
        /\ \A t \in Subs \ {s} : pending'[t] = pending[t]
    BY <1>5, ClosesEffect DEF CloseOf
  <2> QED
    BY <2>1 DEF Orders, Read
<1>6. ASSUME NEW s \in Subs, Gets(s) PROVE Orders'
  <2>1. UNCHANGED <<closed, pending>> /\ Pops(s)
    BY <1>6, GetEffect DEF Gets
  <2>2. queue[s] # <<>> /\ \A t \in Subs \ {s} : queue'[t] = queue[t] /\ taken'[t] = taken[t]
    BY <2>1, PopEffect
  <2> DEFINE n == Head(queue[s])
  <2>3. /\ queue'[s] = Tail(queue[s])
        /\ taken'[s] = IF n = Sentinel THEN taken[s] ELSE Append(taken[s], n)
    BY <2>1 DEF Pops, SubTypeOK
  <2>4. /\ taken[s] \in Seq(Nat) /\ queue[s] \in Seq(Nat) /\ Tail(queue[s]) \in Seq(Nat)
        /\ n \in Nat /\ n \in Everywhere(s)
    BY <2>2, TypesOf, OnTail DEF Everywhere
  <2>5. CASE n = Sentinel
    <3>1. s \in closed
      BY <2>4, <2>5 DEF Bounds
    <3>2. Ascending(taken[s] \o Tail(queue[s]))
      BY <2>2, <2>4, AscendingTail DEF Orders, Read
    <3> QED
      BY <2>1, <2>2, <2>3, <2>5, <3>1, <3>2 DEF Orders, Read
  <2>6. CASE n # Sentinel
    <3>1. Read(s)' = Read(s)
      BY <2>2, <2>3, <2>4, <2>6, ConcatMove DEF Read
    <3> QED
      BY <2>1, <2>2, <3>1 DEF Orders, Read
  <2> QED
    BY <2>5, <2>6
<1> QED
  BY <1>1, <1>2, <1>3, <1>4, <1>5, <1>6, SubSteps

(* The span of a subscription changes only by a frame that is fed to it.   *)
LEMMA SpanOf ==
  ASSUME SubInv, NEW s \in Subs
  PROVE  /\ Span(s) \subseteq 1 .. Len(fed)
         /\ s \notin Made => Span(s) = {}
  BY TypesOf DEF SubInv, Bounds, Span, Made

LEMMA SpanKept ==
  ASSUME SubInv, SubNext, UNCHANGED fed, NEW t \in Subs
  PROVE  Span(t)' = Span(t)
<1> SubTypeOK /\ Places
  BY DEF SubInv
<1>1. CASE Aside
  <2>1. UNCHANGED <<closed, until>>
    BY <1>1, AsideEffect
  <2>2. CASE UNCHANGED <<subscribed, since>>
    BY <2>1, <2>2 DEF Span
  <2>3. ASSUME NEW s \in subscribing, subscribed' = subscribed \cup {s},
               since' = [since EXCEPT ![s] = Len(fed)]
        PROVE  Span(t)' = Span(t)
    <3>1. s \notin subscribed /\ s \notin closed /\ s \in Subs
      BY DEF Places, Made, SubTypeOK
    <3>2. CASE t = s
      <4>1. Span(s) = {}
        BY <3>1 DEF Span
      <4>2. since'[s] = Len(fed) /\ Len(fed) \in Nat
        BY <2>3, <3>1, TypesOf DEF SubTypeOK
      <4>3. Span(s)' = Len(fed) + 1 .. Len(fed)
        BY <2>1, <2>3, <3>1, <4>2 DEF Span
      <4> QED
        BY <3>2, <4>1, <4>2, <4>3
    <3>3. CASE t # s
      BY <2>1, <2>3, <3>3 DEF Span, SubTypeOK
    <3> QED
      BY <3>2, <3>3
  <2> QED
    BY <1>1, <2>2, <2>3, AsideEffect
<1>2. ASSUME NEW category \in Categories, FeedFrame(category) PROVE FALSE
  BY <1>2, FeedEffect
<1>3. ASSUME NEW s \in Subs, Publish(s) \/ RunLoop(s) \/ Gets(s) PROVE Span(t)' = Span(t)
  <2>1. UNCHANGED <<subscribed, closed, since, until>>
    BY <1>3, PublishEffect, RunLoopEffect, GetEffect DEF Gets
  <2> QED
    BY <2>1 DEF Span
<1>4. ASSUME NEW s \in Subs, CloseOf(s) PROVE Span(t)' = Span(t)
  <2>1. /\ s \in Made /\ UNCHANGED since
        /\ closed' = closed \cup {s} /\ subscribed' = subscribed \ {s}
        /\ s \in closed => UNCHANGED until
        /\ s \notin closed => until' = [until EXCEPT ![s] = Len(fed)]
    BY <1>4, ClosesEffect DEF CloseOf, Places, Made
  <2>2. CASE s \in closed
    BY <2>1, <2>2 DEF Span, SubTypeOK
  <2>3. CASE s \notin closed
    <3>1. s \in subscribed /\ until'[s] = Len(fed) /\ \A u \in Subs \ {s} : until'[u] = until[u]
      BY <2>1, <2>3 DEF Made, SubTypeOK
    <3> QED
      BY <2>1, <2>3, <3>1 DEF Span
  <2> QED
    BY <2>2, <2>3
<1> QED
  BY <1>1, <1>2, <1>3, <1>4, SubSteps

LEMMA SpanFed ==
  ASSUME SubInv, NEW category \in Categories, FeedFrame(category), NEW t \in Subs
  PROVE  /\ Span(t) \subseteq Span(t)'
         /\ Span(t)' \subseteq Span(t) \cup {Len(fed')}
         /\ Len(fed') \in Span(t)' => t \in publishing'
<1> SubTypeOK
  BY DEF SubInv
<1>1. /\ UNCHANGED <<subscribed, closed, since, until>> /\ publishing' = subscribed
      /\ Len(fed') = Len(fed) + 1 /\ Len(fed) \in Nat
  BY FeedEffect
<1>2. since[t] \in Nat /\ until[t] \in Nat /\ until[t] <= Len(fed)
  BY TypesOf DEF SubInv, Bounds
<1>3. CASE t \in closed
  BY <1>1, <1>2, <1>3 DEF Span
<1>4. CASE t \notin closed
  BY <1>1, <1>2, <1>4 DEF Span
<1> QED
  BY <1>3, <1>4

LEMMA FiltersStep ==
  ASSUME SubInv, SubNext
  PROVE  Filters'
<1> SubTypeOK /\ Places /\ Bounds /\ Filters
  BY DEF SubInv
<1>1. ASSUME NEW category \in Categories, FeedFrame(category) PROVE Filters'
  <2>1. UNCHANGED <<closed, taken, queue, pending>> /\ \A n \in 1 .. Len(fed) : fed'[n] = fed[n]
    BY <1>1, FeedEffect
  <2>2. \A t \in Subs : Span(t) \subseteq Span(t)' /\ Span(t) \subseteq 1 .. Len(fed)
    BY <1>1, SpanFed, SpanOf
  <2> QED
    BY <2>1, <2>2 DEF Filters
<1> SUFFICES ASSUME UNCHANGED fed PROVE Filters'
  BY <1>1, SubSteps, AsideEffect, PublishEffect, RunLoopEffect, ClosesEffect, GetEffect
     DEF CloseOf, Gets
<1>2. \A t \in Subs : Span(t)' = Span(t)
  BY SpanKept
<1>3. CASE Aside
  BY <1>2, <1>3, AsideEffect DEF Filters
<1>4. ASSUME NEW s \in Subs, Publish(s) PROVE Filters'
  <2>1. /\ UNCHANGED <<closed, taken, queue>> /\ s \in publishing
        /\ \A t \in Subs : On(pending'[t]) \subseteq
             On(pending[t]) \cup (IF t = s THEN {Len(fed)} ELSE {})
    BY <1>4, PublishEffect
  <2>2. s \notin closed => Len(fed) \in Span(s)
    <3>1. since[s] < Len(fed) /\ since[s] \in Nat /\ Len(fed) \in Nat
      BY <2>1, TypesOf DEF Bounds
    <3>2. s \notin closed => s \in subscribed
      BY <2>1 DEF Places, Made
    <3> QED
      BY <3>1, <3>2 DEF Span
  <2> QED
    BY <1>2, <2>1, <2>2 DEF Filters
<1>5. ASSUME NEW s \in Subs, RunLoop(s) PROVE Filters'
  <2>1. /\ UNCHANGED <<closed, taken>>
        /\ \A t \in Subs \ {s} : queue'[t] = queue[t] /\ pending'[t] = pending[t]
        /\ On(pending'[s]) \subseteq On(pending[s])
    BY <1>5, RunLoopEffect
  <2>2. ASSUME NEW n \in On(queue'[s]), n # Sentinel PROVE n \in Span(s) /\ fed[n] \in Wanted[s]
    <3>1. \/ n \in On(queue[s])
          \/ n \in On(pending[s]) /\ s \notin closed /\ fed[n] \in Wanted[s]
      BY <1>5, <2>2, RunLoopEffect
    <3> QED
      BY <2>2, <3>1 DEF Filters
  <2> QED
    BY <1>2, <2>1, <2>2 DEF Filters
<1>6. ASSUME NEW s \in Subs, CloseOf(s) PROVE Filters'
  <2>1. /\ UNCHANGED <<taken, queue>> /\ closed' = closed \cup {s}
        /\ \A t \in Subs \ {s} : pending'[t] = pending[t]
    BY <1>6, ClosesEffect DEF CloseOf
  <2> QED
    BY <1>2, <2>1 DEF Filters
<1>7. ASSUME NEW s \in Subs, Gets(s) PROVE Filters'
  <2>1. UNCHANGED <<closed, pending>> /\ Pops(s)
    BY <1>7, GetEffect DEF Gets
  <2>2. /\ \A t \in Subs \ {s} : queue'[t] = queue[t] /\ taken'[t] = taken[t]
        /\ On(queue'[s]) \subseteq On(queue[s])
        /\ On(taken'[s]) \subseteq On(taken[s]) \cup (On(queue[s]) \ {Sentinel})
    BY <2>1, PopEffect
  <2> QED
    BY <1>2, <2>1, <2>2 DEF Filters
<1> QED
  BY <1>1, <1>3, <1>4, <1>5, <1>6, <1>7, SubSteps

LEMMA CompleteStep ==
  ASSUME SubInv, SubNext
  PROVE  Complete'
<1> SubTypeOK /\ Complete
  BY DEF SubInv
<1> DEFINE LastOne(s) == IF s \in publishing THEN {Len(fed)} ELSE {}
           Places_(s) ==
             On(taken[s]) \cup On(queue[s]) \cup On(pending[s]) \cup dropped[s] \cup LastOne(s)
<1>0. /\ Complete <=> \A s \in Subs : \A n \in Span(s) : fed[n] \in Wanted[s] => n \in Places_(s)
      /\ Complete' <=> \A s \in Subs : \A n \in Span(s)' :
                         fed'[n] \in Wanted[s] => n \in Places_(s)'
  BY DEF Complete
<1>N. \A t \in Subs : \A n \in Span(t) : n \in 1 .. Len(fed) /\ n # Sentinel
  BY SpanOf
<1>1. ASSUME NEW category \in Categories, FeedFrame(category) PROVE Complete'
  <2>1. /\ UNCHANGED <<taken, queue, pending, dropped>> /\ publishing = {}
        /\ \A n \in 1 .. Len(fed) : fed'[n] = fed[n]
    BY <1>1, FeedEffect
  <2>2. ASSUME NEW t \in Subs
        PROVE  /\ Span(t)' \subseteq Span(t) \cup {Len(fed')}
               /\ Len(fed') \in Span(t)' => t \in publishing'
    BY <1>1, SpanFed
  <2>3. ASSUME NEW t \in Subs, NEW n \in Span(t)', fed'[n] \in Wanted[t] PROVE n \in Places_(t)'
    <3>1. CASE n \in Span(t)
      BY <1>0, <1>N, <2>1, <2>3, <3>1
    <3>2. CASE n = Len(fed')
      BY <2>2, <2>3, <3>2
    <3> QED
      BY <2>2, <2>3, <3>1, <3>2
  <2> QED
    BY <1>0, <2>3
<1> SUFFICES ASSUME UNCHANGED fed PROVE Complete'
  BY <1>1, SubSteps, AsideEffect, PublishEffect, RunLoopEffect, ClosesEffect, GetEffect
     DEF CloseOf, Gets
<1>2. SUFFICES ASSUME NEW t \in Subs, NEW n \in Span(t), fed[n] \in Wanted[t], n \in Places_(t)
               PROVE  n \in Places_(t)'
  BY <1>0, SpanKept
<1>3. n # Sentinel
  BY <1>N
<1>4. CASE Aside
  BY <1>2, <1>4, AsideEffect
<1>5. ASSUME NEW s \in Subs, Publish(s) PROVE n \in Places_(t)'
  BY <1>2, <1>5, PublishEffect
<1>6. ASSUME NEW s \in Subs, RunLoop(s) PROVE n \in Places_(t)'
  <2>1. CASE t = s
    BY <1>2, <1>3, <1>6, <2>1, RunLoopEffect
  <2>2. CASE t # s
    BY <1>2, <1>6, <2>2, RunLoopEffect
  <2> QED
    BY <2>1, <2>2
<1>7. ASSUME NEW s \in Subs, CloseOf(s) PROVE n \in Places_(t)'
  BY <1>2, <1>7, ClosesEffect DEF CloseOf
<1>8. ASSUME NEW s \in Subs, Gets(s) PROVE n \in Places_(t)'
  BY <1>2, <1>3, <1>8, GetEffect, PopEffect DEF Gets
<1>9. ASSUME NEW category \in Categories, FeedFrame(category) PROVE FALSE
  BY <1>9, FeedEffect
<1> QED
  BY <1>4, <1>5, <1>6, <1>7, <1>8, <1>9, SubSteps

LEMMA DroppedStep ==
  ASSUME SubInv, SubNext
  PROVE  DroppedWhy'
<1> SubTypeOK /\ DroppedWhy
  BY DEF SubInv
<1>1. CASE Aside
  BY <1>1, AsideEffect DEF DroppedWhy
<1>2. ASSUME NEW category \in Categories, FeedFrame(category) PROVE DroppedWhy'
  BY <1>2, FeedEffect DEF DroppedWhy
<1>3. ASSUME NEW s \in Subs, Publish(s) PROVE DroppedWhy'
  BY <1>3, PublishEffect DEF DroppedWhy
<1>4. ASSUME NEW s \in Subs, RunLoop(s) PROVE DroppedWhy'
  <2>1. /\ UNCHANGED <<maxsize, closed>> /\ \A t \in Subs \ {s} : dropped'[t] = dropped[t]
        /\ dropped'[s] = dropped[s] \/ maxsize > 0 \/ s \in closed
    BY <1>4, RunLoopEffect
  <2> QED
    BY <2>1 DEF DroppedWhy
<1>5. ASSUME NEW s \in Subs, CloseOf(s) PROVE DroppedWhy'
  BY <1>5, ClosesEffect DEF CloseOf, DroppedWhy
<1>6. ASSUME NEW s \in Subs, Gets(s) PROVE DroppedWhy'
  BY <1>6, GetEffect DEF Gets, DroppedWhy
<1> QED
  BY <1>1, <1>2, <1>3, <1>4, <1>5, <1>6, SubSteps

-----------------------------------------------------------------------------
LEMMA SubInitially == SubInit => SubInv
<1> SUFFICES ASSUME SubInit PROVE SubInv
  OBVIOUS
<1>0. <<>> \in Seq(Nat) /\ Len(<<>>) = 0 /\ <<>> \in Seq(Categories)
  OBVIOUS
<1>1. SubTypeOK
  <2>1. /\ pending \in [Subs -> Seq(Nat)] /\ queue \in [Subs -> Seq(Nat)]
        /\ taken \in [Subs -> Seq(Nat)] /\ fed \in Seq(Categories)
    BY <1>0 DEF SubInit
  <2>2. /\ waiting \in [Subs -> Nat] /\ since \in [Subs -> Nat] /\ until \in [Subs -> Nat]
        /\ dropped \in [Subs -> SUBSET Nat]
    BY DEF SubInit
  <2>3. maxsize \in Nat /\ consumers \in Nat \ {0}
    BY DEF SubInit
  <2>4. \A s \in Subs : Len(queue[s]) = 0 /\ waiting[s] = 0
    BY <1>0 DEF SubInit
  <2>5. \A s \in Subs : (maxsize > 0 => Len(queue[s]) <= maxsize) /\ waiting[s] <= consumers
    <3>1. 0 <= maxsize /\ 0 <= consumers
      BY <2>3
    <3> QED
      BY <2>4, <3>1, Zenon
  <2> QED
    BY <2>1, <2>2, <2>5 DEF SubInit, SubTypeOK
<1>2. \A s \in Subs : taken[s] = <<>> /\ queue[s] = <<>> /\ pending[s] = <<>> /\ Span(s) = {}
  BY DEF SubInit, Span
<1>3. Places
  BY <1>2 DEF SubInit, Places, Made
<1>4. \A s \in Subs : Everywhere(s) = {}
  BY <1>2, OnEmpty DEF Everywhere
<1>5. Bounds
  <2>1. \A s \in Subs : since[s] = 0 /\ until[s] = 0 /\ Len(fed) = 0 /\ s \notin publishing
    BY <1>0 DEF SubInit
  <2>2. 0 <= 0
    OBVIOUS
  <2> QED
    BY <1>4, <2>1, <2>2, Zenon DEF Bounds
<1>6. <<>> \o <<>> = <<>>
  BY <1>0, ConcatEmptySeq
<1>7. Orders
  <2>1. Ascending(<<>>)
    BY <1>0 DEF Ascending
  <2> QED
    BY <1>2, <1>6, <2>1 DEF Orders, Read
<1>8. Filters /\ Complete /\ DroppedWhy
  BY <1>2, OnEmpty DEF SubInit, Filters, Complete, DroppedWhy
<1> QED
  BY <1>1, <1>3, <1>5, <1>7, <1>8 DEF SubInv

LEMMA SubInductive == SubInv /\ [SubNext]_subVars => SubInv'
<1> SUFFICES ASSUME SubInv, [SubNext]_subVars PROVE SubInv'
  OBVIOUS
<1>1. CASE SubNext
  <2>1. SubTypeOK'
    BY <1>1, TypeStep DEF SubInv, Places, Made
  <2> QED
    BY <1>1, <2>1, PlacesStep, BoundsStep, OrdersStep, FiltersStep, CompleteStep, DroppedStep
       DEF SubInv
<1>2. CASE UNCHANGED subVars
  BY <1>2 DEF subVars, SubInv, SubTypeOK, Places, Made, Bounds, Everywhere, Orders, Read, Filters,
     Complete, DroppedWhy, Span
<1> QED
  BY <1>1, <1>2

(* Whoever subscribes, closes and reads when: the state of the adapter and *)
(* of its subscriptions has its types, and no queue is over its size.      *)
THEOREM SubTypesCorrect == SubSpec => []SubTypeOK
<1>1. SubInv => SubTypeOK
  BY DEF SubInv
<1> QED
  BY <1>1, SubInitially, SubInductive, PTL DEF SubSpec

(* The tasks of every subscription get the frames it is for in order and   *)
(* none twice, each of those fed between subscribe() and close() unless it *)
(* is on its way or dropped, and a frame is dropped only by a limited      *)
(* queue or by close().                                                    *)
THEOREM SubscribersAreServed == SubSpec => []SubscribersSee
<1>1. SubInv => SubscribersSee
  BY DEF SubInv, SubscribersSee, Ordered, Orders, Read, Filters, Filtered
<1> QED
  BY <1>1, SubInitially, SubInductive, PTL DEF SubSpec

-----------------------------------------------------------------------------
USE SetupsAssumption, CategoriesAssumption
  DEF slaveVars, readerVars, listenerVars, programVars, listeningVars

(* What a step is to the adapter: nothing, a frame, finalize(), or a step  *)
(* of a subscription.                                                      *)
LEMMA StepOfAdapter ==
  ASSUME setup \in Setups, Next
  PROVE  SubNext \/ UNCHANGED subVars
<1>1. CASE Slave
  BY <1>1 DEF Slave, Send, SendTogether, SendLost, SendAltered, SendForeign, PeerCloses, Sends
<1>2. CASE Reader
  BY <1>2 DEF Reader, ReaderCheck, ReaderRead, ReaderTimeout, ReaderAppend
<1>3. CASE Listener
  <2>1. ASSUME ListenerHand PROVE SubNext \/ UNCHANGED subVars
    <3> DEFINE packet == Head(found).packet
    <3>1. UNCHANGED subVars \/ FeedFrame(Category(packet[1]))
      BY <2>1 DEF ListenerHand
    <3>2. ASSUME FeedFrame(Category(packet[1])) PROVE SubNext
      <4>1. Category(packet[1]) \in Categories
        BY DEF Category
      <4> QED
        BY <3>2, <4>1 DEF SubNext
    <3> QED
      BY <3>1, <3>2
  <2> QED
    BY <1>3, <2>1 DEF Listener, ListenerCheck, ListenerTimeout, ListenerBatch, ListenerDecode,
       ListenerReceive, ListenerDone
<1>4. CASE Program
  BY <1>4 DEF Program, Connect, MasterClose, FinishListener, CloseConnection, SubNext
<1>5. CASE Subscription
  BY <1>5 DEF Subscription, SubNext
<1> QED
  BY <1>1, <1>2, <1>3, <1>4, <1>5 DEF Next

LEMMA SetupKept == Spec => [](setup \in Setups)
<1>1. Init => setup \in Setups
  BY DEF Init
<1>2. setup \in Setups /\ [Next]_vars => (setup \in Setups)'
  <2> SUFFICES ASSUME setup \in Setups, [Next]_vars PROVE setup' = setup
    OBVIOUS
  <2>1. CASE Slave
    BY <2>1 DEF Slave, Send, SendTogether, SendLost, SendAltered, SendForeign, PeerCloses, Sends
  <2>2. CASE Reader
    BY <2>2 DEF Reader, ReaderCheck, ReaderRead, ReaderTimeout, ReaderAppend
  <2>3. CASE Listener
    BY <2>3 DEF Listener, ListenerCheck, ListenerTimeout, ListenerBatch, ListenerDecode,
       ListenerReceive, ListenerHand, ListenerDone
  <2>4. CASE Program
    BY <2>4 DEF Program, Connect, MasterClose, FinishListener, CloseConnection
  <2>5. CASE Subscription \/ UNCHANGED vars
    BY <2>5 DEF Subscription, vars
  <2> QED
    BY <2>1, <2>2, <2>3, <2>4, <2>5 DEF Next
<1> QED
  BY <1>1, <1>2, PTL DEF Spec

LEMMA SpecOfAdapter == Spec => SubSpec
<1>1. Init => SubInit
  BY DEF Init
<1>2. setup \in Setups /\ [Next]_vars => [SubNext]_subVars
  BY StepOfAdapter DEF vars
<1> QED
  BY <1>1, <1>2, SetupKept, PTL DEF Spec, SubSpec

(* Whatever the transport does, cut into whatever reads, with whatever     *)
(* losses and closed at whatever moment: the tasks of every subscription   *)
(* see the frames of the listener as SubscribersSee says.                  *)
THEOREM ListenersServe == Spec => []SubscribersSee
  BY SpecOfAdapter, SubscribersAreServed, PTL

(* A close() that has seen both threads end leaves none, and every close() *)
(* has set the event that ends them before it waits for them.              *)
ClosedInv ==
  /\ program = "closed" => listener \in Ended
  /\ program \in {"joining", "closed", "left"} => closeEvent
LEMMA ClosedStep ==
  ASSUME ClosedInv, [Next]_vars
  PROVE  /\ ClosedInv'
         /\ program = "closed" => UNCHANGED heard
         /\ program = "left" /\ listener' = "wait" => listener = "wait"
<1>1. CASE Slave
  BY <1>1 DEF Slave, Send, SendTogether, SendLost, SendAltered, SendForeign, PeerCloses, Sends,
     ClosedInv
<1>2. CASE Reader
  BY <1>2 DEF Reader, ReaderCheck, ReaderRead, ReaderTimeout, ReaderAppend, ClosedInv
<1>3. CASE Listener
  <2>1. listener \notin Ended /\ UNCHANGED programVars
    BY <1>3 DEF Listener, ListenerCheck, ListenerTimeout, ListenerBatch, ListenerDecode,
       ListenerReceive, ListenerHand, ListenerDone, Ended
  <2>2. closeEvent /\ listener' = "wait" => listener = "wait"
    BY <1>3 DEF Listener, ListenerCheck, ListenerTimeout, ListenerBatch, ListenerDecode,
       ListenerReceive, ListenerHand, ListenerDone, Stops
  <2> QED
    BY <2>1, <2>2 DEF ClosedInv
<1>4. CASE Program
  <2>1. program # "closed" /\ program # "left" /\ ClosedInv'
    BY <1>4 DEF Program, Connect, MasterClose, FinishListener, CloseConnection, Joined, ClosedInv
  <2> QED
    BY <2>1
<1>5. CASE Subscription \/ UNCHANGED vars
  BY <1>5 DEF Subscription, vars, ClosedInv
<1> QED
  BY <1>1, <1>2, <1>3, <1>4, <1>5 DEF Next

(* After a close() that has seen both threads end no frame is handed on;   *)
(* the listener that another close() has left running ends with the round  *)
(* it is in.                                                               *)
THEOREM ClosedIsQuiet == Spec => QuietClosed
<1>1. Init => ClosedInv
  BY DEF Init, ClosedInv
<1> QED
  BY <1>1, ClosedStep, PTL DEF Spec, QuietClosed

-----------------------------------------------------------------------------
(* CAN identifiers.  A number below m is its own rest.                      *)
LEMMA SmallRest ==
  ASSUME NEW m \in Nat \ {0}, NEW a \in 0 .. m - 1
  PROVE  a % m = a
  OBVIOUS

(* A filter lets through one identifier, in one of its two sizes.          *)
LEMMA FilterExact ==
  ASSUME NEW raw \in Nat, InRange(raw), NEW bus \in BusIds
  PROVE  Passes(Filter(raw), bus) <=> bus = OnBus(raw)
<1> DEFINE id == stripIdentifier(raw)
           extended == is_extended_identifier(raw)
           most == IF extended THEN MaxExtended ELSE MaxStandard
<1>1. most \in Nat /\ id \in Nat /\ id <= most
  BY IdentifiersAssumption DEF InRange, stripIdentifier
<1>2. PICK n, size : bus = <<n, size>> /\ n \in Nat /\ size \in {0, 1}
                     /\ (size = 0 => n <= MaxStandard) /\ (size = 1 => n <= MaxExtended)
  BY IdentifiersAssumption DEF BusIds
<1>3. /\ Passes(Filter(raw), bus)
           <=> extended = (size = 1) /\ id % (most + 1) = n % (most + 1)
      /\ OnBus(raw) = <<id, IF extended THEN 1 ELSE 0>>
  BY <1>2 DEF Passes, Filter, OnBus, Identifier
<1>6. extended \in BOOLEAN
  BY DEF is_extended_identifier
<1> HIDE DEF id, extended
<1>4. id % (most + 1) = id
  BY <1>1, SmallRest
<1>5. ASSUME extended = (size = 1) PROVE n % (most + 1) = n
  <2>1. n <= most
    BY <1>2, <1>5, <1>6
  <2>2. n \in 0 .. (most + 1) - 1
    BY <1>1, <1>2, <2>1
  <2> QED
    BY <1>1, <2>2, SmallRest
<1>7. bus = OnBus(raw) <=> n = id /\ size = (IF extended THEN 1 ELSE 0)
  BY <1>2, <1>3
<1> QED
  BY <1>2, <1>3, <1>4, <1>5, <1>6, <1>7

(* Can.__init__: the filters let the identifiers of the slave and of its   *)
(* DTOs pass, in their sizes, and nothing else.                            *)
Configured == {setup.slaveId} \cup {setup.daqIds[i] : i \in DOMAIN setup.daqIds}
LEMMA FiltersExact ==
  ASSUME setup \in Setups, NEW bus \in BusIds
  PROVE  Accepted(FiltersOf(setup.slaveId, setup.daqIds), bus)
           <=> bus \in {OnBus(raw) : raw \in Configured}
<1>1. \A raw \in Configured : raw \in Nat /\ InRange(raw)
  <2>1. setup.daqIds \in Seq(Nat) /\ setup.slaveId \in Nat
    OBVIOUS
  <2>2. \A i \in DOMAIN setup.daqIds : setup.daqIds[i] \in Nat
    BY <2>1
  <2>3. \A raw \in Configured : InRange(raw)
    BY DEF Configured
  <2> QED
    BY <2>1, <2>2, <2>3 DEF Configured
<1>2. FiltersOf(setup.slaveId, setup.daqIds) = {Filter(raw) : raw \in Configured}
  BY DEF FiltersOf, Configured
<1>3. \A raw \in Configured : Passes(Filter(raw), bus) <=> bus = OnBus(raw)
  BY <1>1, FilterExact
<1> QED
  BY <1>2, <1>3 DEF Accepted

(* The PID of a DTO that has an identifier of its own is the one of that   *)
(* identifier, and of no other.                                            *)
THEOREM PidsUnique ==
  ASSUME setup \in Setups
  PROVE  /\ \A i \in DOMAIN setup.daqIds :
              PidsOf(setup.daqIds, make_identifier(OnBus(setup.daqIds[i])).raw) = {i}
         /\ PidsOf(setup.daqIds, make_identifier(OnBus(setup.slaveId)).raw) = {}
<1> DEFINE ids == setup.daqIds
           slaveId == setup.slaveId
<1>1. /\ ids \in Seq(Nat) /\ slaveId \in Nat /\ Distinct(<<slaveId>> \o ids)
      /\ \A raw \in {slaveId} \cup {ids[i] : i \in DOMAIN ids} :
           make_identifier(OnBus(raw)).raw = raw
  OBVIOUS
<1> HIDE DEF ids, slaveId
<1>2. /\ DOMAIN ids = 1 .. Len(ids) /\ Len(ids) \in Nat
      /\ Len(<<slaveId>> \o ids) = Len(ids) + 1
      /\ (<<slaveId>> \o ids)[1] = slaveId
      /\ \A i \in 1 .. Len(ids) : (<<slaveId>> \o ids)[i + 1] = ids[i]
  BY <1>1
<1> DEFINE all == <<slaveId>> \o ids
           n == Len(ids)
<1>2a. /\ n \in Nat /\ all[1] = slaveId /\ \A i \in 1 .. n : all[i + 1] = ids[i]
       /\ \A i, j \in 1 .. n + 1 : all[i] = all[j] => i = j
  BY <1>1, <1>2 DEF Distinct
<1> HIDE DEF all, n
<1>3. \A i, j \in DOMAIN ids : ids[i] = ids[j] => i = j
  <2> SUFFICES ASSUME NEW i \in 1 .. n, NEW j \in 1 .. n, ids[i] = ids[j]
               PROVE  i = j
    BY <1>2 DEF n
  <2>1. i + 1 \in 1 .. n + 1 /\ j + 1 \in 1 .. n + 1
    BY <1>2a
  <2>2. all[i + 1] = all[j + 1]
    BY <1>2a
  <2>3. i + 1 = j + 1
    BY <1>2a, <2>1, <2>2
  <2> QED
    BY <2>3
<1>4. \A i \in DOMAIN ids : ids[i] # slaveId
  <2> SUFFICES ASSUME NEW i \in 1 .. n, ids[i] = slaveId PROVE FALSE
    BY <1>2 DEF n
  <2>1. i + 1 \in 1 .. n + 1 /\ 1 \in 1 .. n + 1
    BY <1>2a
  <2>2. all[i + 1] = all[1]
    BY <1>2a
  <2>3. i + 1 = 1
    BY <1>2a, <2>1, <2>2
  <2> QED
    BY <2>3
<1>5. /\ \A i \in DOMAIN ids : PidsOf(ids, make_identifier(OnBus(ids[i])).raw) = {i}
      /\ PidsOf(ids, make_identifier(OnBus(slaveId)).raw) = {}
  <2>1. \A i \in DOMAIN ids : make_identifier(OnBus(ids[i])).raw = ids[i]
    BY <1>1
  <2>2. make_identifier(OnBus(slaveId)).raw = slaveId
    BY <1>1
  <2> QED
    BY <1>3, <1>4, <2>1, <2>2 DEF PidsOf
<1> QED
  BY <1>5 DEF ids, slaveId

-----------------------------------------------------------------------------
(* Listening refines FrameStream.  The invariant StreamInv says that the   *)
(* frames handed on, followed by those still to come from the octets on    *)
(* their way, are the frames sent that are not lost.  The octets come in   *)
(* pieces, and a receiver finds the same frames however they are cut.      *)
HIDE SubsAssumption
HIDE SizesAssumption
HIDE SetupsAssumption
HIDE CategoriesAssumption
HIDE DEF fixed, feeding, adapter, loop, Sentinel, slaveVars, readerVars, listenerVars, programVars,
         listeningVars

(* A set of numbers that is not empty has a least one.                     *)
LEMMA Least ==
  ASSUME NEW T, T \subseteq Nat, T # {}
  PROVE  \E x \in T : \A y \in T : x <= y
<1> DEFINE U == {0 .. x - 1 : x \in T}
<1>1. U \subseteq FiniteSubsetsOf(Nat) /\ U # {}
  <2>1. \A x \in T : IsFiniteSet(0 .. x - 1) /\ 0 .. x - 1 \subseteq Nat
    BY FS_Interval
  <2>2. QED BY <2>1 DEF FiniteSubsetsOf
<1> HIDE DEF U
<1>2. PICK u \in U : \A v \in U : <<v, u>> \notin StrictSubsetOrdering(Nat)
  BY <1>1, FS_StrictSubsetOrderingWellFounded, WFMin
<1>3. PICK x \in T : u = 0 .. x - 1
  BY DEF U
<1>4. ASSUME NEW y \in T, y < x PROVE FALSE
  <2>1. 0 .. y - 1 \subseteq 0 .. x - 1 /\ 0 .. y - 1 # 0 .. x - 1
    <3>1. y \in 0 .. x - 1 /\ y \notin 0 .. y - 1 BY <1>4
    <3>2. QED BY <3>1
  <2>2. <<0 .. y - 1, u>> \in StrictSubsetOrdering(Nat)
    BY <2>1, <1>3, SMTT(40) DEF StrictSubsetOrdering
  <2>3. QED BY <2>2, <1>2 DEF U
<1>5. QED BY <1>4

(* Induction: a set with 0 and with the successor of each of its members.  *)
LEMMA SetInduction ==
  ASSUME NEW T, NEW n \in Nat, 0 \in T, \A i \in 0 .. n - 1 : i \in T => i + 1 \in T
  PROVE  n \in T
<1> DEFINE B == {i \in 0 .. n : i \notin T}
<1>1. SUFFICES ASSUME B # {} PROVE FALSE
  OBVIOUS
<1>2. B \subseteq Nat OBVIOUS
<1>2a. \A i : i \in B <=> i \in 0 .. n /\ i \notin T OBVIOUS
<1> HIDE DEF B
<1>3. PICK m \in B : \A y \in B : m <= y
  BY <1>1, <1>2, Least
<1>4. m \in 0 .. n /\ m \notin T
  BY <1>3, <1>2a
<1>5. m # 0 /\ m - 1 \in 0 .. n - 1 /\ m - 1 \in 0 .. n /\ (m - 1) + 1 = m /\ ~(m <= m - 1)
  BY <1>4
<1>6. m - 1 \in T
  BY <1>5, <1>3, <1>2a
<1>7. QED BY <1>6, <1>5, <1>4
-----------------------------------------------------------------------------
(* FlattenSeq: f[i] is the first i sequences, one after another.           *)
Flattening(f, seqs, n) ==
  f = [i \in 1 .. n |-> IF i = 1 THEN seqs[i] ELSE f[i - 1] \o seqs[i]]

LEMMA FlatteningExists ==
  ASSUME NEW seqs, NEW n \in Nat
  PROVE  \E f : Flattening(f, seqs, n)
<1> DEFINE T == {m \in Nat : \E f : Flattening(f, seqs, m)}
<1>1. 0 \in T
  <2>1. Flattening([i \in 1 .. 0 |-> seqs[i]], seqs, 0) BY DEF Flattening
  <2>2. QED BY <2>1
<1>2. ASSUME NEW m \in 0 .. n - 1, m \in T PROVE m + 1 \in T
  <2>1. PICK f : Flattening(f, seqs, m) BY <1>2
  <2> DEFINE g == [i \in 1 .. m + 1 |-> IF i <= m THEN f[i]
                                      ELSE IF i = 1 THEN seqs[i] ELSE f[m] \o seqs[i]]
  <2>2. \A i \in 1 .. m + 1 : g[i] = IF i = 1 THEN seqs[i] ELSE g[i - 1] \o seqs[i]
    <3>1. \A i \in 1 .. m : f[i] = IF i = 1 THEN seqs[i] ELSE f[i - 1] \o seqs[i]
      BY <2>1 DEF Flattening
    <3>2. \A i \in 1 .. m : i # 1 => i - 1 \in 1 .. m /\ i - 1 <= m /\ i - 1 \in 1 .. m + 1 OBVIOUS
    <3>3. TAKE i \in 1 .. m + 1
    <3>4. CASE i \in 1 .. m BY <3>1, <3>2, <3>4
    <3>5. CASE i = m + 1 
      <4>1. CASE m = 0 BY <4>1, <3>5
      <4>2. CASE m # 0
         <5>1. m \in 1 .. m + 1 /\ m <= m /\ i - 1 = m /\ i # 1 /\ ~(i <= m) BY <4>2, <3>5
         <5>2. QED BY <5>1
      <4>3. QED BY <4>1, <4>2
    <3>6. QED BY <3>4, <3>5
  <2>3. g = [i \in 1 .. m + 1 |-> IF i = 1 THEN seqs[i] ELSE g[i - 1] \o seqs[i]]
    BY <2>2
  <2> HIDE DEF g
  <2>4. Flattening(g, seqs, m + 1) BY <2>3 DEF Flattening
  <2>5. QED BY <2>4
<1> HIDE DEF T
<1>3. n \in T BY <1>1, <1>2, SetInduction
<1>4. QED BY <1>3 DEF T

Pieces(seqs, n) == [i \in 1 .. n |-> seqs[i]]

LEMMA FlattenedBy ==
  ASSUME NEW seqs, NEW n \in Nat \ {0}
  PROVE  \E f : Flattening(f, seqs, n) /\ FlattenSeq(Pieces(seqs, n)) = f[n]
<1> DEFINE p == Pieces(seqs, n)
           g == CHOOSE f : f = [i \in 1 .. n |-> IF i = 1 THEN p[i] ELSE f[i - 1] \o p[i]]
<1>1. Len(p) = n /\ n # 0
  BY DEF Pieces
<1>2. FlattenSeq(p) = g[n]
  BY <1>1 DEF FlattenSeq
<1>3. Flattening(g, p, n)
  <2>1. \E f : f = [i \in 1 .. n |-> IF i = 1 THEN p[i] ELSE f[i - 1] \o p[i]]
    BY FlatteningExists DEF Flattening
  <2>2. QED BY <2>1 DEF Flattening
<1>4. Flattening(g, seqs, n)
  <2>1. \A i \in 1 .. n : p[i] = seqs[i] BY DEF Pieces
  <2> HIDE DEF p, g
  <2>2. QED BY <2>1, <1>3 DEF Flattening
<1> HIDE DEF p, g
<1>5. QED BY <1>2, <1>4 DEF p

LEMMA FlatteningAgrees ==
  ASSUME NEW seqs, NEW m \in Nat, NEW n \in Nat, m <= n, NEW f, NEW g,
         Flattening(f, seqs, m), Flattening(g, seqs, n), NEW k \in 1 .. m
  PROVE  f[k] = g[k]
<1> DEFINE T == {i \in Nat : i \in 1 .. m => f[i] = g[i]}
<1>1. 0 \in T OBVIOUS
<1>2. ASSUME NEW i \in 0 .. m - 1, i \in T PROVE i + 1 \in T
  <2>1. i + 1 \in 1 .. m /\ i + 1 \in 1 .. n /\ (i + 1) - 1 = i OBVIOUS
  <2>2. f[i + 1] = IF i + 1 = 1 THEN seqs[i + 1] ELSE f[i] \o seqs[i + 1]
    BY <2>1 DEF Flattening
  <2>3. g[i + 1] = IF i + 1 = 1 THEN seqs[i + 1] ELSE g[i] \o seqs[i + 1]
    BY <2>1 DEF Flattening
  <2>4. i = 0 \/ f[i] = g[i] BY <1>2
  <2>5. f[i + 1] = g[i + 1] BY <2>2, <2>3, <2>4
  <2>6. QED BY <2>5
<1>3. \A i \in 0 .. k - 1 : i \in 0 .. m - 1 OBVIOUS
<1>4. k \in Nat OBVIOUS
<1> HIDE DEF T
<1>5. k \in T BY <1>1, <1>2, <1>3, <1>4, SetInduction
<1>6. QED BY <1>5 DEF T

LEMMA FlattenOneMore ==
  ASSUME NEW seqs, NEW n \in Nat \ {0}
  PROVE  FlattenSeq(Pieces(seqs, n + 1)) = FlattenSeq(Pieces(seqs, n)) \o seqs[n + 1]
<1>1. PICK f : Flattening(f, seqs, n) /\ FlattenSeq(Pieces(seqs, n)) = f[n]
  BY FlattenedBy
<1>2. PICK g : Flattening(g, seqs, n + 1) /\ FlattenSeq(Pieces(seqs, n + 1)) = g[n + 1]
  <2>1. n + 1 \in Nat \ {0} OBVIOUS
  <2>2. QED BY <2>1, FlattenedBy
<1>3. g[n + 1] = g[n] \o seqs[n + 1]
  <2>1. n + 1 \in 1 .. n + 1 /\ n + 1 # 1 /\ (n + 1) - 1 = n OBVIOUS
  <2>2. QED BY <2>1, <1>2 DEF Flattening
<1>4. f[n] = g[n]
  <2>1. n \in 1 .. n /\ n <= n + 1 /\ n \in Nat /\ n + 1 \in Nat OBVIOUS
  <2>2. QED BY <2>1, <1>1, <1>2, FlatteningAgrees
<1>5. QED BY <1>1, <1>2, <1>3, <1>4

LEMMA FlattenOne ==
  ASSUME NEW seqs
  PROVE  FlattenSeq(Pieces(seqs, 1)) = seqs[1]
<1>1. PICK f : Flattening(f, seqs, 1) /\ FlattenSeq(Pieces(seqs, 1)) = f[1]
  BY FlattenedBy
<1>2. QED BY <1>1 DEF Flattening

LEMMA FlattenNone ==
  ASSUME NEW seqs
  PROVE  FlattenSeq(Pieces(seqs, 0)) = <<>>
<1>1. Pieces(seqs, 0) = <<>> BY DEF Pieces
<1>2. QED BY <1>1 DEF FlattenSeq

(* What is put together from sequences over a set is one.                  *)
LEMMA FlattenTyped ==
  ASSUME NEW seqs, NEW n \in Nat, NEW Items, \A i \in 1 .. n : seqs[i] \in Seq(Items)
  PROVE  FlattenSeq(Pieces(seqs, n)) \in Seq(Items)
<1> DEFINE T == {m \in Nat : m <= n => FlattenSeq(Pieces(seqs, m)) \in Seq(Items)}
<1>1. 0 \in T
  <2>1. <<>> \in Seq(Items) BY EmptySeq
  <2>2. FlattenSeq(Pieces(seqs, 0)) \in Seq(Items) BY <2>1, FlattenNone
  <2>3. QED BY <2>2
<1>2. ASSUME NEW m \in 0 .. n - 1, m \in T PROVE m + 1 \in T
  <2>1. m + 1 <= n /\ m <= n /\ m + 1 \in 1 .. n /\ m \in Nat OBVIOUS
  <2>2. FlattenSeq(Pieces(seqs, m)) \in Seq(Items) BY <2>1, <1>2
  <2>3. seqs[m + 1] \in Seq(Items) BY <2>1
  <2>4. CASE m = 0
    <3>1. FlattenSeq(Pieces(seqs, m + 1)) = seqs[m + 1] BY <2>4, FlattenOne
    <3>2. QED BY <2>3, <3>1
  <2>5. CASE m # 0
    <3>1. FlattenSeq(Pieces(seqs, m + 1)) = FlattenSeq(Pieces(seqs, m)) \o seqs[m + 1]
      BY <2>1, <2>5, FlattenOneMore
    <3>2. FlattenSeq(Pieces(seqs, m)) \o seqs[m + 1] \in Seq(Items)
      BY <2>2, <2>3, ConcatProperties
    <3>3. FlattenSeq(Pieces(seqs, m + 1)) \in Seq(Items) BY ONLY <3>1, <3>2
    <3>4. QED BY <3>3, <2>1
  <2>6. QED BY <2>4, <2>5
<1> HIDE DEF T
<1>3. n \in T BY <1>1, <1>2, SetInduction
<1>4. QED BY <1>3 DEF T

LEMMA SeqPieces ==
  ASSUME NEW Items, NEW s \in Seq(Items)
  PROVE  Len(s) \in Nat /\ Pieces(s, Len(s)) = s
  BY DEF Pieces

LEMMA FlattenSome ==
  ASSUME NEW Items, NEW s \in Seq(Seq(Items))
  PROVE  FlattenSeq(s) \in Seq(Items)
<1>1. Len(s) \in Nat /\ Pieces(s, Len(s)) = s
  BY SeqPieces
<1>2. \A i \in 1 .. Len(s) : s[i] \in Seq(Items)
  BY ElementOfSeq
<1> QED BY <1>1, <1>2, FlattenTyped

LEMMA FlattenEmpty == FlattenSeq(<<>>) = <<>>
<1>1. Pieces(<<>>, 0) = <<>>
  BY DEF Pieces
<1> QED BY <1>1, FlattenNone

(* One more sequence behind the others.                                    *)
LEMMA FlattenAppend ==
  ASSUME NEW Items, NEW s \in Seq(Seq(Items)), NEW x \in Seq(Items)
  PROVE  FlattenSeq(Append(s, x)) = FlattenSeq(s) \o x
<1> DEFINE n == Len(s)
           t == Append(s, x)
<1>1. n \in Nat /\ Pieces(s, n) = s /\ t \in Seq(Seq(Items)) /\ Len(t) = n + 1 /\ t[n + 1] = x
      /\ \A i \in 1 .. n : t[i] = s[i]
  BY SeqPieces
<1>2. Pieces(t, n + 1) = t
  BY <1>1, SeqPieces
<1>3. Pieces(t, n) = s
  BY <1>1 DEF Pieces
<1> HIDE DEF t, n
<1>4. CASE n = 0
  <2>1. FlattenSeq(t) = x
    BY <1>1, <1>2, <1>4, FlattenOne
  <2>2. FlattenSeq(s) = <<>>
    BY <1>1, <1>4, FlattenNone
  <2>3. <<>> \o x = x
    BY ConcatEmptySeq
  <2> QED BY <2>1, <2>2, <2>3 DEF t
<1>5. CASE n # 0
  <2>1. FlattenSeq(Pieces(t, n + 1)) = FlattenSeq(Pieces(t, n)) \o t[n + 1]
    BY <1>1, <1>5, FlattenOneMore
  <2> QED BY <2>1, <1>1, <1>2, <1>3 DEF t
<1> QED BY <1>4, <1>5

LEMMA ConcatAppended ==
  ASSUME NEW Items, NEW s \in Seq(Items), NEW t \in Seq(Items), NEW x \in Items
  PROVE  s \o Append(t, x) = Append(s \o t, x)
  OBVIOUS

(* All but the last, and the last.                                         *)
LEMMA FrontAndLast ==
  ASSUME NEW Items, NEW t \in Seq(Items), NEW m \in Nat, Len(t) = m + 1
  PROVE  /\ SubSeq(t, 1, m) \in Seq(Items) /\ t[m + 1] \in Items /\ Len(SubSeq(t, 1, m)) = m
         /\ t = Append(SubSeq(t, 1, m), t[m + 1])
<1> DEFINE u == SubSeq(t, 1, m)
<1>1. u \in Seq(Items) /\ Len(u) = m /\ t[m + 1] \in Items /\ \A i \in 1 .. m : u[i] = t[i]
  OBVIOUS
<1>2. t = Append(u, t[m + 1])
  <2>1. Append(u, t[m + 1]) \in Seq(Items) /\ Len(Append(u, t[m + 1])) = m + 1
        /\ Append(u, t[m + 1])[m + 1] = t[m + 1]
        /\ \A i \in 1 .. m : Append(u, t[m + 1])[i] = u[i]
    BY <1>1
  <2> HIDE DEF u
  <2>2. \A i \in 1 .. m + 1 : Append(u, t[m + 1])[i] = t[i]
    <3>1. TAKE i \in 1 .. m + 1
    <3>2. i \in 1 .. m \/ i = m + 1
      OBVIOUS
    <3> QED BY <3>2, <1>1, <2>1
  <2> QED BY <2>1, <2>2, SeqEqual
<1> QED BY <1>1, <1>2

LEMMA Associates ==
  ASSUME NEW Items, NEW a \in Seq(Items), NEW b \in Seq(Items), NEW c \in Seq(Items)
  PROVE  (a \o b) \o c = a \o (b \o c)
  BY ConcatAssociative

(* Two rows of sequences, one behind the other.                            *)
LEMMA FlattenConcatMore ==
  ASSUME NEW Items, NEW s \in Seq(Seq(Items)), NEW u \in Seq(Seq(Items)), NEW x \in Seq(Items),
         FlattenSeq(s \o u) = FlattenSeq(s) \o FlattenSeq(u)
  PROVE  FlattenSeq(s \o Append(u, x)) = FlattenSeq(s) \o FlattenSeq(Append(u, x))
<1>1. s \o u \in Seq(Seq(Items)) /\ s \o Append(u, x) = Append(s \o u, x)
  BY ConcatAppended
<1>2. /\ FlattenSeq(Append(s \o u, x)) = FlattenSeq(s \o u) \o x
      /\ FlattenSeq(Append(u, x)) = FlattenSeq(u) \o x
  BY <1>1, FlattenAppend
<1> DEFINE a == FlattenSeq(s)
           b == FlattenSeq(u)
<1>3. a \in Seq(Items) /\ b \in Seq(Items)
  BY FlattenSome
<1> HIDE DEF a, b
<1>4. (a \o b) \o x = a \o (b \o x)
  BY <1>3, Associates
<1> QED BY <1>1, <1>2, <1>4 DEF a, b

LEMMA FlattenConcat ==
  ASSUME NEW Items, NEW s \in Seq(Seq(Items)), NEW t \in Seq(Seq(Items))
  PROVE  FlattenSeq(s \o t) = FlattenSeq(s) \o FlattenSeq(t)
<1> DEFINE Good(u) == FlattenSeq(s \o u) = FlattenSeq(s) \o FlattenSeq(u)
           T == {m \in Nat : \A u \in Seq(Seq(Items)) : Len(u) = m => Good(u)}
<1>1. 0 \in T
  <2> SUFFICES ASSUME NEW u \in Seq(Seq(Items)), Len(u) = 0 PROVE Good(u)
    OBVIOUS
  <2>1. u = <<>>
    BY EmptySeq
  <2>2. s \o <<>> = s /\ FlattenSeq(s) \o <<>> = FlattenSeq(s)
    BY ConcatEmptySeq, FlattenSome
  <2> QED BY <2>1, <2>2, FlattenEmpty
<1>2. ASSUME NEW m \in 0 .. Len(t) - 1, m \in T PROVE m + 1 \in T
  <2> SUFFICES ASSUME NEW v \in Seq(Seq(Items)), Len(v) = m + 1 PROVE Good(v)
    OBVIOUS
  <2>0. m \in Nat
    OBVIOUS
  <2> DEFINE u == SubSeq(v, 1, m)
             x == v[m + 1]
  <2>1. u \in Seq(Seq(Items)) /\ x \in Seq(Items) /\ Len(u) = m /\ v = Append(u, x)
    BY <2>0, FrontAndLast
  <2> HIDE DEF u, x
  <2>2. Good(u)
    BY <1>2, <2>1
  <2> QED BY <2>1, <2>2, FlattenConcatMore
<1> HIDE DEF T
<1>3. Len(t) \in T
  <2>1. Len(t) \in Nat
    OBVIOUS
  <2> QED BY <1>1, <1>2, <2>1, SetInduction
<1> QED BY <1>3 DEF T

LEMMA FlattenSingle ==
  ASSUME NEW Items, NEW x \in Seq(Items)
  PROVE  FlattenSeq(<<x>>) = x
<1>1. <<>> \in Seq(Seq(Items)) /\ <<x>> = Append(<<>>, x) /\ <<>> \o x = x
  BY ConcatEmptySeq
<1> QED BY <1>1, FlattenAppend, FlattenEmpty

(* The first sequence, and the others.                                     *)
LEMMA FlattenFirst ==
  ASSUME NEW Items, NEW s \in Seq(Seq(Items)), s # <<>>
  PROVE  /\ Head(s) \in Seq(Items) /\ Tail(s) \in Seq(Seq(Items))
         /\ FlattenSeq(s) = Head(s) \o FlattenSeq(Tail(s))
<1>1. Head(s) \in Seq(Items) /\ Tail(s) \in Seq(Seq(Items)) /\ s = <<Head(s)>> \o Tail(s)
  BY HeadTailProperties
<1>2. <<Head(s)>> \in Seq(Seq(Items))
  BY <1>1
<1>3. FlattenSeq(<<Head(s)>> \o Tail(s)) = FlattenSeq(<<Head(s)>>) \o FlattenSeq(Tail(s))
  BY <1>1, <1>2, FlattenConcat
<1>4. FlattenSeq(<<Head(s)>>) = Head(s)
  BY <1>1, FlattenSingle
<1> QED BY <1>1, <1>3, <1>4

(* A row of sequences, cut in two.                                         *)
LEMMA FlattenCut ==
  ASSUME NEW Items, NEW s \in Seq(Seq(Items)), NEW n \in 0 .. Len(s)
  PROVE  /\ SubSeq(s, 1, n) \in Seq(Seq(Items)) /\ SubSeq(s, n + 1, Len(s)) \in Seq(Seq(Items))
         /\ FlattenSeq(s) = FlattenSeq(SubSeq(s, 1, n)) \o FlattenSeq(SubSeq(s, n + 1, Len(s)))
<1> DEFINE a == SubSeq(s, 1, n)
           b == SubSeq(s, n + 1, Len(s))
<1>1. a \in Seq(Seq(Items)) /\ b \in Seq(Seq(Items))
  <2>1. n <= Len(s) /\ Len(s) \in Nat /\ n \in Nat /\ \A i \in 1 .. Len(s) : s[i] \in Seq(Items)
    BY ElementOfSeq
  <2> QED BY <2>1, SubSeqProperties
<1>2. s = a \o b
  <2>1. \A X : s \in Seq(X) => SubSeq(s, 1, n) \o SubSeq(s, n + 1, Len(s)) = s
    <3>1. 1 \in 1 .. Len(s) + 1 /\ n \in 1 - 1 .. Len(s) /\ Len(s) \in n .. Len(s)
      OBVIOUS
    <3>2. \A X : s \in Seq(X) => SubSeq(s, 1, Len(s)) = s
      BY SubSeqFull
    <3> QED BY <3>1, <3>2, ConcatAdjacentSubSeq
  <2> QED BY <2>1
<1> HIDE DEF a, b
<1>3. FlattenSeq(a \o b) = FlattenSeq(a) \o FlattenSeq(b)
  BY <1>1, FlattenConcat
<1> QED BY <1>1, <1>2, <1>3 DEF a, b

(* A sequence, a member at a time.                                         *)
LEMMA FlattenSingly ==
  ASSUME NEW Items, NEW s \in Seq(Items)
  PROVE  Singly(s) \in Seq(Seq(Items)) /\ FlattenSeq(Singly(s)) = s
<1> DEFINE T == {m \in Nat : \A u \in Seq(Items) :
                   Len(u) = m => Singly(u) \in Seq(Seq(Items)) /\ FlattenSeq(Singly(u)) = u}
<1>1. 0 \in T
  <2> SUFFICES ASSUME NEW u \in Seq(Items), Len(u) = 0
               PROVE  Singly(u) \in Seq(Seq(Items)) /\ FlattenSeq(Singly(u)) = u
    OBVIOUS
  <2>1. u = <<>>
    BY EmptySeq
  <2>2. Singly(<<>>) = <<>> /\ <<>> \in Seq(Seq(Items))
    BY DEF Singly
  <2> QED BY <2>1, <2>2, FlattenEmpty
<1>2. ASSUME NEW m \in 0 .. Len(s) - 1, m \in T PROVE m + 1 \in T
  <2> SUFFICES ASSUME NEW v \in Seq(Items), Len(v) = m + 1
               PROVE  Singly(v) \in Seq(Seq(Items)) /\ FlattenSeq(Singly(v)) = v
    OBVIOUS
  <2>0. m \in Nat
    OBVIOUS
  <2> DEFINE u == SubSeq(v, 1, m)
             x == v[m + 1]
  <2>1. u \in Seq(Items) /\ x \in Items /\ Len(u) = m /\ v = Append(u, x)
    BY <2>0, FrontAndLast
  <2> HIDE DEF u, x
  <2>2. Singly(u) \in Seq(Seq(Items)) /\ FlattenSeq(Singly(u)) = u
    BY <1>2, <2>1
  <2>3. <<x>> \in Seq(Items) /\ Singly(v) = Append(Singly(u), <<x>>)
    BY <2>1 DEF Singly
  <2>4. u \o <<x>> = v
    BY <2>1
  <2>5. FlattenSeq(Append(Singly(u), <<x>>)) = FlattenSeq(Singly(u)) \o <<x>>
        /\ Append(Singly(u), <<x>>) \in Seq(Seq(Items))
    <3> DEFINE p == Singly(u)
               q == <<x>>
    <3>1. p \in Seq(Seq(Items)) /\ q \in Seq(Items)
      BY <2>2, <2>3
    <3> HIDE DEF p, q, T
    <3>2. FlattenSeq(Append(p, q)) = FlattenSeq(p) \o q /\ Append(p, q) \in Seq(Seq(Items))
      BY <3>1, FlattenAppend
    <3> QED BY <3>2 DEF p, q
  <2> QED BY <2>2, <2>3, <2>4, <2>5
<1> HIDE DEF T
<1>3. Len(s) \in T
  <2>1. Len(s) \in Nat
    OBVIOUS
  <2> QED BY <1>1, <1>2, <2>1, SetInduction
<1> QED BY <1>3 DEF T

(***************************************************************************)
(* Numbers as octets                                                       *)
(***************************************************************************)
LEMMA Divided ==
  ASSUME NEW W \in Nat \ {0}, NEW n \in Nat
  PROVE  n = W * (n \div W) + (n % W) /\ n % W \in 0 .. W - 1 /\ n \div W \in Nat
  OBVIOUS

(* A product of whole numbers is no less than the one that is not zero.    *)
LEMMA AtLeast ==
  ASSUME NEW W \in Nat, NEW q \in Int, q >= 1
  PROVE  W * q >= W
<1>1. W * q - W = W * (q - 1)
  OBVIOUS
<1>2. W * (q - 1) >= 0
  OBVIOUS
<1>3. W * q \in Int
  OBVIOUS
<1> QED BY <1>1, <1>2, <1>3

(* Two numbers with the same rest are the same or far from each other.     *)
LEMMA SameRest ==
  ASSUME NEW W \in Nat \ {0}, NEW n \in Nat, NEW m \in Nat, n % W = m % W, n < m
  PROVE  m - n >= W
<1> DEFINE p == n \div W
           q == m \div W
           r == n % W
<1>1. n = W * p + r /\ m = W * q + r /\ p \in Nat /\ q \in Nat /\ r \in 0 .. W - 1
  BY Divided
<1> HIDE DEF p, q, r
<1>2. m - n = W * (q - p)
  BY <1>1
<1>3. q - p >= 1
  <2> SUFFICES ASSUME q - p <= 0 PROVE FALSE
    BY <1>1
  <2>1. W * (p - q) = W * p - W * q /\ p - q \in Nat
    BY <1>1
  <2>2. \A d \in Nat : W * d \in Nat
    OBVIOUS
  <2>3. W * (p - q) >= 0
    BY <2>1, <2>2
  <2>4. W * p \in Nat /\ W * q \in Nat
    BY <1>1, <2>2
  <2> QED BY <2>1, <2>3, <2>4, <1>1
<1>4. W * (q - p) >= W
  <2>1. q - p \in Int
    BY <1>1
  <2> QED BY <2>1, <1>3, AtLeast
<1> QED BY <1>2, <1>4

(* Adding the same keeps two small numbers apart; so does adding two       *)
(* different small numbers to the same.                                    *)
LEMMA StillApart ==
  ASSUME NEW W \in Nat \ {0}, NEW n \in Nat, NEW m \in Nat, n # m, n - m < W, m - n < W
  PROVE  n % W # m % W
<1> SUFFICES ASSUME n % W = m % W PROVE FALSE
  OBVIOUS
<1>1. CASE n < m
  <2>1. m - n >= W
    BY ONLY <1>1, n % W = m % W, SameRest, W \in Nat \ {0}, n \in Nat, m \in Nat
  <2> QED BY ONLY <2>1, m - n < W, W \in Nat \ {0}, n \in Nat, m \in Nat
<1>2. CASE m < n
  <2>1. n - m >= W
    BY ONLY <1>2, n % W = m % W, SameRest, W \in Nat \ {0}, n \in Nat, m \in Nat
  <2> QED BY ONLY <2>1, n - m < W, W \in Nat \ {0}, n \in Nat, m \in Nat
<1> QED BY ONLY <1>1, <1>2, n # m, n \in Nat, m \in Nat

LEMMA OctetsAre ==
  /\ Octets \in Nat \ {0} /\ Octets >= 5 /\ SxiBuffer \in Nat \ {0}
  /\ Octets * Octets \in Nat \ {0} /\ Octets * Octets >= Octets
  /\ Octet = 0 .. Octets - 1
<1>1. Octets \in Nat /\ Octets >= 5 /\ SxiBuffer \in Nat \ {0} /\ Octet = 0 .. Octets - 1
  BY FramingAssumption DEF Octet
<1>2. Octets * Octets >= Octets
  BY <1>1, AtLeast
<1> QED BY <1>1, <1>2

(* A word is less than Octets * Octets.                                    *)
LEMMA WordIs ==
  ASSUME NEW l \in Octet, NEW h \in Octet
  PROVE  /\ l + Octets * h \in 0 .. Octets * Octets - 1
         /\ \A l2, h2 \in Octet : l + Octets * h = l2 + Octets * h2 => l = l2 /\ h = h2
<1>1. Octets \in Nat \ {0} /\ l \in 0 .. Octets - 1 /\ h \in 0 .. Octets - 1 /\ Octets >= 5
  BY OctetsAre
<1>2. Octets * (Octets - h) >= Octets /\ Octets * (Octets - h) = Octets * Octets - Octets * h
  <2>1. Octets - h \in Int /\ Octets - h >= 1
    BY <1>1
  <2> QED BY <2>1, <1>1, AtLeast
<1>3. Octets * h \in Nat /\ Octets * Octets \in Nat
  BY <1>1
<1>4. l + Octets * h \in 0 .. Octets * Octets - 1
  BY <1>1, <1>2, <1>3
<1>5. ASSUME NEW l2 \in Octet, NEW h2 \in Octet, l + Octets * h = l2 + Octets * h2
      PROVE  l = l2 /\ h = h2
  <2>1. l2 \in 0 .. Octets - 1 /\ h2 \in 0 .. Octets - 1
    BY OctetsAre
  <2>2. Octets * h2 \in Nat /\ Octets * (h - h2) = Octets * h - Octets * h2
        /\ Octets * (h2 - h) = Octets * h2 - Octets * h
    BY <1>1, <2>1
  <2>3. ~(h - h2 >= 1)
    <3> SUFFICES ASSUME h - h2 >= 1 PROVE FALSE
      OBVIOUS
    <3>1. Octets * (h - h2) >= Octets
      BY <1>1, <2>1, AtLeast
    <3> QED BY <3>1, <1>1, <1>3, <1>5, <2>1, <2>2
  <2>4. ~(h2 - h >= 1)
    <3> SUFFICES ASSUME h2 - h >= 1 PROVE FALSE
      OBVIOUS
    <3>1. Octets * (h2 - h) >= Octets
      BY <1>1, <2>1, AtLeast
    <3> QED BY <3>1, <1>1, <1>3, <1>5, <2>1, <2>2
  <2>5. h = h2
    BY <1>1, <2>1, <2>3, <2>4
  <2> QED BY <2>5, <1>1, <1>3, <1>5, <2>1
<1> QED BY <1>4, <1>5

(* What LittleEndian() writes Number() reads.                              *)
LEMMA LittleEndianIs ==
  ASSUME NEW n \in Nat, NEW width \in {0, 1, 2}
  PROVE  /\ LittleEndian(n, width) \in Seq(Octet) /\ Len(LittleEndian(n, width)) = width
         /\ width # 0 /\ n < Modulus(width) => Number(LittleEndian(n, width), 1, width) = n
<1>1. Octets \in Nat \ {0} /\ Octet = 0 .. Octets - 1 /\ Octets * Octets \in Nat
  BY OctetsAre
<1> DEFINE r == n % Octets
           q == n \div Octets
           s == q % Octets
<1>2. n = Octets * q + r /\ r \in Octet /\ q \in Nat
  BY <1>1, Divided
<1>3. s \in Octet
  BY <1>1, <1>2, Divided
<1>4. /\ width = 0 => LittleEndian(n, width) = <<>>
      /\ width = 1 => LittleEndian(n, width) = <<r>>
      /\ width = 2 => LittleEndian(n, width) = <<r, s>>
  BY DEF LittleEndian
<1>5. n < Octets => r = n
  BY <1>1, SmallRest
<1>6. n < Octets * Octets => s = q
  <2> HIDE DEF q, r
  <2> SUFFICES ASSUME n < Octets * Octets PROVE q % Octets = q
    OBVIOUS
  <2>1. ~(q - Octets >= 0)
    <3> SUFFICES ASSUME q - Octets >= 0 PROVE FALSE
      OBVIOUS
    <3>1. Octets * (q - Octets) = Octets * q - Octets * Octets /\ q - Octets \in Nat
      BY <1>1, <1>2
    <3>2. \A d \in Nat : Octets * d \in Nat
      BY <1>1
    <3>3. Octets * (q - Octets) >= 0 /\ Octets * q \in Nat
      BY <3>1, <3>2, <1>2
    <3>4. r \in 0 .. Octets - 1
      BY <1>1, <1>2
    <3> QED BY <3>1, <3>3, <3>4, <1>1, <1>2
  <2>2. q < Octets
    BY <1>1, <1>2, <2>1
  <2> QED BY <2>2, <1>1, <1>2, SmallRest
<1> HIDE DEF r, q, s
<1>7. CASE width = 0
  <2>1. <<>> \in Seq(Octet) /\ Len(<<>>) = 0
    OBVIOUS
  <2> QED BY <1>7, <1>4, <2>1
<1>8. CASE width = 1
  <2>1. LittleEndian(n, width) = <<r>>
    BY <1>8, <1>4
  <2>2. Number(<<r>>, 1, 1) = r /\ Modulus(1) = Octets
    BY DEF Number, Modulus
  <2>3. <<r>> \in Seq(Octet) /\ Len(<<r>>) = 1
    BY <1>2
  <2> QED BY <2>1, <2>2, <2>3, <1>5, <1>8
<1>9. CASE width = 2
  <2>1. LittleEndian(n, width) = <<r, s>>
    BY <1>9, <1>4
  <2>2. Number(<<r, s>>, 1, 2) = r + Octets * s /\ Modulus(2) = Octets * Octets
    BY DEF Number, Modulus
  <2>3. <<r, s>> \in Seq(Octet) /\ Len(<<r, s>>) = 2
    BY <1>2, <1>3
  <2>4. n < Octets * Octets => r + Octets * s = n
    <3> SUFFICES ASSUME n < Octets * Octets PROVE r + Octets * s = n
      OBVIOUS
    <3>1. s = q BY <1>6
    <3>2. r \in Nat /\ Octets * q \in Nat BY <1>1, <1>2
    <3> QED BY <3>1, <3>2, <1>2
  <2> QED BY <2>1, <2>2, <2>3, <2>4, <1>9
<1> QED BY <1>7, <1>8, <1>9

(* The number in the octets that begin at i.                               *)
LEMMA NumberIs ==
  ASSUME NEW s \in Seq(Octet), NEW i \in Nat \ {0}, NEW width \in {0, 1, 2}, i + width - 1 <= Len(s)
  PROVE  /\ Number(s, i, width) \in Nat
         /\ width # 0 => Number(s, i, width) < Modulus(width)
<1>1. Octets \in Nat \ {0} /\ Octet = 0 .. Octets - 1 /\ Octets * Octets \in Nat
  BY OctetsAre
<1>2. \A k \in 1 .. Len(s) : s[k] \in Octet
  BY ElementOfSeq
<1>3. Len(s) \in Nat
  OBVIOUS
<1>4. CASE width = 0
  BY <1>4 DEF Number
<1>5. CASE width = 1
  BY <1>1, <1>2, <1>3, <1>5 DEF Number, Modulus
<1>6. CASE width = 2
  <2>1. s[i] \in Octet /\ s[i + 1] \in Octet
    BY <1>2, <1>3, <1>6
  <2>2. s[i] + Octets * s[i + 1] \in 0 .. Octets * Octets - 1
    BY <2>1, WordIs
  <2> QED BY <2>2, <1>1, <1>6 DEF Number, Modulus
<1> QED BY <1>4, <1>5, <1>6

(* It depends on nothing else.                                             *)
Alike(s, i, t, j, width) == \A k \in 0 .. width - 1 : s[i + k] = t[j + k]
LEMMA NumberOf ==
  ASSUME NEW s, NEW t, NEW i \in Nat \ {0}, NEW j \in Nat \ {0}, NEW width \in {0, 1, 2},
         Alike(s, i, t, j, width)
  PROVE  Number(s, i, width) = Number(t, j, width)
<1>1. CASE width = 0
  BY <1>1 DEF Number
<1>2. CASE width = 1
  <2>1. s[i + 0] = t[j + 0]
    BY <1>2 DEF Alike
  <2>2. s[i] = t[j]
    BY <2>1
  <2> QED BY <1>2, <2>2 DEF Number
<1>3. CASE width = 2
  <2>1. s[i + 0] = t[j + 0] /\ s[i + 1] = t[j + 1]
    BY <1>3 DEF Alike
  <2>2. s[i] = t[j]
    BY <2>1
  <2> QED BY <1>3, <2>1, <2>2 DEF Number
<1> QED BY <1>1, <1>2, <1>3

(***************************************************************************)
(* Checksums                                                               *)
(***************************************************************************)
Summing(g, s, tail, n) ==
  g = [i \in 0 .. n |->
         IF i = 0 THEN 0 ELSE (g[i - 1] + Number(s, tail * (i - 1) + 1, tail)) % Modulus(tail)]

LEMMA SummingExists ==
  ASSUME NEW s, NEW tail, NEW n \in Nat
  PROVE  \E g : Summing(g, s, tail, n)
<1> DEFINE T == {m \in Nat : \E g : Summing(g, s, tail, m)}
           Added(a, i) == (a + Number(s, tail * (i - 1) + 1, tail)) % Modulus(tail)
<1>0. \A g, m : Summing(g, s, tail, m) <=> g = [i \in 0 .. m |-> IF i = 0 THEN 0 ELSE Added(g[i - 1], i)]
  BY DEF Summing
<1> HIDE DEF Added
<1>1. 0 \in T
  <2> DEFINE h == [i \in 0 .. 0 |-> 0]
  <2>1. \A i \in 0 .. 0 : i = 0
    OBVIOUS
  <2>2. h = [i \in 0 .. 0 |-> IF i = 0 THEN 0 ELSE Added(h[i - 1], i)]
    BY <2>1
  <2> HIDE DEF h
  <2>3. Summing(h, s, tail, 0)
    BY <2>2, <1>0
  <2> QED BY <2>3
<1>2. ASSUME NEW m \in 0 .. n - 1, m \in T PROVE m + 1 \in T
  <2>1. PICK f : f = [i \in 0 .. m |-> IF i = 0 THEN 0 ELSE Added(f[i - 1], i)]
    BY <1>2, <1>0
  <2> DEFINE g == [i \in 0 .. m + 1 |-> IF i <= m THEN f[i] ELSE Added(f[m], m + 1)]
  <2>2. \A i \in 0 .. m + 1 : g[i] = IF i = 0 THEN 0 ELSE Added(g[i - 1], i)
    <3>1. \A i \in 0 .. m : f[i] = IF i = 0 THEN 0 ELSE Added(f[i - 1], i)
      BY <2>1
    <3>2. \A i \in 0 .. m : i \in 0 .. m + 1 /\ i <= m /\ (i # 0 => i - 1 \in 0 .. m + 1 /\ i - 1 <= m)
      OBVIOUS
    <3>3. TAKE i \in 0 .. m + 1
    <3>4. CASE i \in 0 .. m
      BY <3>1, <3>2, <3>4
    <3>5. CASE i = m + 1
      <4>1. i - 1 = m /\ m \in 0 .. m + 1 /\ m <= m /\ ~(i <= m) /\ i # 0
        BY <3>5
      <4> QED BY <4>1, <3>5
    <3> QED BY <3>4, <3>5
  <2>3. g = [i \in 0 .. m + 1 |-> IF i = 0 THEN 0 ELSE Added(g[i - 1], i)]
    BY <2>2
  <2> HIDE DEF g
  <2>4. Summing(g, s, tail, m + 1) /\ m + 1 \in Nat
    BY <2>3, <1>0
  <2> QED BY <2>4
<1> HIDE DEF T
<1>3. n \in T
  BY <1>1, <1>2, SetInduction
<1> QED BY <1>3 DEF T

LEMMA ChecksumBy ==
  ASSUME NEW s, NEW tail \in {1, 2}, Len(s) \in Nat
  PROVE  /\ Len(s) \div tail \in Nat
         /\ \E g : /\ Summing(g, s, tail, Len(s) \div tail)
                   /\ Checksum(s, tail) = g[Len(s) \div tail]
<1> DEFINE n == Len(s) \div tail
           g == CHOOSE f : f = [i \in 0 .. n |->
                  IF i = 0 THEN 0
                  ELSE (f[i - 1] + Number(s, tail * (i - 1) + 1, tail)) % Modulus(tail)]
<1>1. n \in Nat
  OBVIOUS
<1>2. Checksum(s, tail) = g[n]
  BY DEF Checksum
<1>3. Summing(g, s, tail, n)
  <2>1. \E f : f = [i \in 0 .. n |->
                  IF i = 0 THEN 0
                  ELSE (f[i - 1] + Number(s, tail * (i - 1) + 1, tail)) % Modulus(tail)]
    <3> HIDE DEF n
    <3>1. \E f : Summing(f, s, tail, n)
      BY <1>1, SummingExists
    <3> QED BY <3>1 DEF Summing
  <2> QED BY <2>1 DEF Summing
<1> HIDE DEF g
<1> QED BY <1>1, <1>2, <1>3

(* The steps of a checksum.                                                *)
LEMMA SummingIs ==
  ASSUME NEW s \in Seq(Octet), NEW tail \in {1, 2}, NEW n \in Nat, tail * n <= Len(s),
         NEW g, Summing(g, s, tail, n)
  PROVE  /\ g[0] = 0
         /\ \A i \in 1 .. n : g[i] = (g[i - 1] + Number(s, tail * (i - 1) + 1, tail)) % Modulus(tail)
         /\ \A i \in 0 .. n : g[i] \in 0 .. Modulus(tail) - 1
         /\ \A i \in 1 .. n : Number(s, tail * (i - 1) + 1, tail) \in 0 .. Modulus(tail) - 1
<1>0. Modulus(tail) \in Nat \ {0}
  BY OctetsAre DEF Modulus
<1>1. g[0] = 0
  BY DEF Summing
<1>2. ASSUME NEW i \in 1 .. n
      PROVE  g[i] = (g[i - 1] + Number(s, tail * (i - 1) + 1, tail)) % Modulus(tail)
  BY DEF Summing
<1>3. ASSUME NEW i \in 1 .. n PROVE Number(s, tail * (i - 1) + 1, tail) \in 0 .. Modulus(tail) - 1
  <2>1. tail * (i - 1) + 1 \in Nat \ {0} /\ tail * (i - 1) + 1 + tail - 1 <= Len(s) /\ tail \in {0, 1, 2}
        /\ tail # 0
    <3>1. Len(s) \in Nat
      OBVIOUS
    <3>2. CASE tail = 1
      BY <3>1, <3>2
    <3>3. CASE tail = 2
      BY <3>1, <3>3
    <3> QED BY <3>2, <3>3
  <2> DEFINE k == tail * (i - 1) + 1
  <2>2. k \in Nat \ {0} /\ k + tail - 1 <= Len(s)
    BY <2>1
  <2> HIDE DEF k
  <2>3. Number(s, k, tail) \in Nat /\ Number(s, k, tail) < Modulus(tail)
    BY <2>1, <2>2, NumberIs
  <2>4. Number(s, k, tail) \in 0 .. Modulus(tail) - 1
    BY <2>3, <1>0
  <2> QED BY <2>4 DEF k
<1>4. \A i \in 0 .. n : g[i] \in 0 .. Modulus(tail) - 1
  <2> DEFINE T == {m \in Nat : m <= n => g[m] \in 0 .. Modulus(tail) - 1}
             M == Modulus(tail)
  <2>1. 0 \in T
    BY <1>0, <1>1
  <2>2. ASSUME NEW m \in 0 .. n - 1, m \in T PROVE m + 1 \in T
    <3>1. m + 1 \in 1 .. n /\ (m + 1) - 1 = m /\ g[m] \in 0 .. M - 1
      BY <2>2
    <3> DEFINE x == Number(s, tail * ((m + 1) - 1) + 1, tail)
    <3>2. x \in 0 .. M - 1 /\ g[m + 1] = (g[m] + x) % M
      BY <3>1, <1>2, <1>3
    <3> HIDE DEF x, M
    <3>3. M \in Nat \ {0}
      BY <1>0 DEF M
    <3>4. g[m] + x \in Nat
      <4>1. \A a, b \in 0 .. M - 1 : a + b \in Nat
        BY <3>3
      <4> QED BY <4>1, <3>1, <3>2
    <3>5. g[m + 1] \in 0 .. M - 1
      BY <3>2, <3>3, <3>4, Divided
    <3> QED BY <3>5 DEF M
  <2> HIDE DEF T
  <2>3. ASSUME NEW i \in 0 .. n PROVE g[i] \in 0 .. Modulus(tail) - 1
    <3>1. i \in Nat /\ i <= n /\ \A m \in 0 .. i - 1 : m \in 0 .. n - 1
      OBVIOUS
    <3>2. i \in T
      BY <2>1, <2>2, <3>1, SetInduction
    <3> QED BY <3>1, <3>2 DEF T
  <2> QED BY <2>3
<1> QED BY <1>1, <1>2, <1>3, <1>4

LEMMA Blocks ==
  ASSUME NEW tail \in {1, 2}, NEW l \in Nat
  PROVE  l \div tail \in Nat /\ tail * (l \div tail) <= l
<1>1. CASE tail = 1
  BY <1>1
<1>2. CASE tail = 2
  BY <1>2
<1> QED BY <1>1, <1>2

LEMMA ChecksumSmall ==
  ASSUME NEW s \in Seq(Octet), NEW tail \in {1, 2}
  PROVE  Checksum(s, tail) \in Nat /\ Checksum(s, tail) < Modulus(tail)
<1> DEFINE n == Len(s) \div tail
           M == Modulus(tail)
<1>0. M \in Nat \ {0}
  BY OctetsAre DEF Modulus
<1>1. n \in Nat /\ tail * n <= Len(s) /\ Len(s) \in Nat
  BY Blocks
<1>2. PICK g : Summing(g, s, tail, n) /\ Checksum(s, tail) = g[n]
  BY <1>1, ChecksumBy
<1> HIDE DEF n
<1>3. \A i \in 0 .. n : g[i] \in 0 .. M - 1
  BY <1>1, <1>2, SummingIs
<1> HIDE DEF M
<1>4. Checksum(s, tail) \in 0 .. M - 1
  BY <1>1, <1>2, <1>3
<1>5. Checksum(s, tail) \in Nat /\ Checksum(s, tail) < M
  BY <1>4, <1>0
<1> QED BY <1>5 DEF M

(* A wrong octet changes the number it is part of.                         *)
LEMMA NumberChanges ==
  ASSUME NEW s \in Seq(Octet), NEW t \in Seq(Octet), NEW i \in Nat \ {0}, NEW width \in {1, 2},
         i + width - 1 <= Len(s), Len(s) = Len(t),
         NEW k \in i .. i + width - 1, s[k] # t[k]
  PROVE  Number(s, i, width) # Number(t, i, width)
<1>1. \A x \in 1 .. Len(s) : s[x] \in Octet /\ t[x] \in Octet
  BY ElementOfSeq
<1>2. Len(s) \in Nat
  OBVIOUS
<1>3. CASE width = 1
  <2>1. k = i
    BY <1>3
  <2>2. Number(s, i, 1) = s[i] /\ Number(t, i, 1) = t[i]
    BY DEF Number
  <2> QED BY <2>1, <2>2, <1>3
<1>4. CASE width = 2
  <2>1. s[i] \in Octet /\ t[i] \in Octet /\ s[i + 1] \in Octet /\ t[i + 1] \in Octet
    BY <1>1, <1>2, <1>4
  <2>2. k = i \/ k = i + 1
    BY <1>4
  <2>3. \A l, h, l2, h2 \in Octet : l + Octets * h = l2 + Octets * h2 => l = l2 /\ h = h2
    BY WordIs
  <2>4. s[i] + Octets * s[i + 1] = t[i] + Octets * t[i + 1] => s[i] = t[i] /\ s[i + 1] = t[i + 1]
    BY <2>1, <2>3
  <2>5. Number(s, i, 2) = s[i] + Octets * s[i + 1] /\ Number(t, i, 2) = t[i] + Octets * t[i + 1]
    BY DEF Number
  <2> QED BY <2>2, <2>4, <2>5, <1>4
<1> QED BY <1>3, <1>4

(* Whatever a wrong octet is part of, it changes the checksum.             *)
LEMMA ChecksumChanges ==
  ASSUME NEW s \in Seq(Octet), NEW t \in Seq(Octet), Len(s) = Len(t), NEW tail \in {1, 2},
         tail * (Len(s) \div tail) = Len(s),
         NEW k \in 1 .. Len(s), s[k] # t[k], \A x \in 1 .. Len(s) : x # k => s[x] = t[x]
  PROVE  Checksum(s, tail) # Checksum(t, tail)
<1> DEFINE n == Len(s) \div tail
           M == Modulus(tail)
           At(i) == tail * (i - 1) + 1
<1>0. M \in Nat \ {0}
  BY OctetsAre DEF Modulus
<1>1. n \in Nat /\ tail * n <= Len(s) /\ Len(s) \in Nat /\ tail * n = Len(s)
  BY Blocks
<1>2. PICK g : Summing(g, s, tail, n) /\ Checksum(s, tail) = g[n]
  BY <1>1, ChecksumBy
<1>3. PICK h : Summing(h, t, tail, n) /\ Checksum(t, tail) = h[n]
  BY <1>1, ChecksumBy
<1>4. /\ g[0] = 0
      /\ \A i \in 1 .. n : g[i] = (g[i - 1] + Number(s, At(i), tail)) % M
      /\ \A i \in 0 .. n : g[i] \in 0 .. M - 1
      /\ \A i \in 1 .. n : Number(s, At(i), tail) \in 0 .. M - 1
  <2> HIDE DEF n
  <2> QED BY <1>1, <1>2, SummingIs
<1>5. /\ h[0] = 0
      /\ \A i \in 1 .. n : h[i] = (h[i - 1] + Number(t, At(i), tail)) % M
      /\ \A i \in 0 .. n : h[i] \in 0 .. M - 1
      /\ \A i \in 1 .. n : Number(t, At(i), tail) \in 0 .. M - 1
  <2> HIDE DEF n
  <2> QED BY <1>1, <1>3, SummingIs
<1> HIDE DEF n
<1>6. PICK j \in 1 .. n : k \in At(j) .. At(j) + tail - 1
  <2>1. CASE tail = 1
    <3>1. k \in 1 .. n /\ k \in At(k) .. At(k) + tail - 1
      BY <2>1, <1>1
    <3> QED BY <3>1
  <2>2. CASE tail = 2
    <3> DEFINE j == (k + 1) \div 2
    <3>1. j \in 1 .. n /\ k \in At(j) .. At(j) + tail - 1
      BY <2>2, <1>1
    <3> QED BY <3>1
  <2> QED BY <2>1, <2>2
<1>7. \A i \in 1 .. n : At(i) \in Nat \ {0} /\ At(i) + tail - 1 <= Len(s)
  <2>1. CASE tail = 1
    BY <2>1, <1>1
  <2>2. CASE tail = 2
    BY <2>2, <1>1
  <2> QED BY <2>1, <2>2
<1>8. \A i \in 1 .. n : i # j => k \notin At(i) .. At(i) + tail - 1
  <2>1. CASE tail = 1
    BY <2>1, <1>1, <1>6
  <2>2. CASE tail = 2
    BY <2>2, <1>1, <1>6
  <2> QED BY <2>1, <2>2
<1> HIDE DEF At
<1>9. Number(s, At(j), tail) # Number(t, At(j), tail)
  BY <1>6, <1>7, NumberChanges
<1>10. ASSUME NEW i \in 1 .. n, i # j PROVE Number(s, At(i), tail) = Number(t, At(i), tail)
  <2>1. At(i) \in Nat \ {0} /\ At(i) + tail - 1 <= Len(s) /\ k \notin At(i) .. At(i) + tail - 1
    BY <1>7, <1>8, <1>10
  <2>2. \A z \in Nat \ {0} : z + tail - 1 <= Len(s) /\ k \notin z .. z + tail - 1
                            => \A x \in 0 .. tail - 1 : z + x \in 1 .. Len(s) /\ z + x # k
    BY <1>1
  <2>3. \A x \in 0 .. tail - 1 : At(i) + x \in 1 .. Len(s) /\ At(i) + x # k
    BY ONLY <2>1, <2>2
  <2>4. Alike(s, At(i), t, At(i), tail)
    BY <2>3 DEF Alike
  <2>5. tail \in {0, 1, 2} /\ At(i) \in Nat \ {0}
    BY <2>1
  <2> QED BY ONLY <2>4, <2>5, NumberOf
<1> DEFINE T == {m \in Nat : m <= n => (m < j => g[m] = h[m]) /\ (m >= j => g[m] # h[m])}
<1>11. 0 \in T
  BY <1>4, <1>5, <1>6
<1>12. ASSUME NEW m \in 0 .. n - 1, m \in T PROVE m + 1 \in T
  <2> DEFINE x == Number(s, At(m + 1), tail)
             y == Number(t, At(m + 1), tail)
  <2>1. m + 1 \in 1 .. n /\ (m + 1) - 1 = m /\ m \in 0 .. n /\ m <= n
    BY <1>1
  <2>2. /\ g[m + 1] = (g[m] + x) % M /\ g[m] \in 0 .. M - 1 /\ x \in 0 .. M - 1
        /\ h[m + 1] = (h[m] + y) % M /\ h[m] \in 0 .. M - 1 /\ y \in 0 .. M - 1
    BY <2>1, <1>4, <1>5
  <2>3. /\ m + 1 = j => x # y
        /\ m + 1 # j => x = y
    BY <2>1, <1>9, <1>10
  <2>4. (m < j => g[m] = h[m]) /\ (m >= j => g[m] # h[m])
    BY <2>1, <1>12
  <2> HIDE DEF x, y, M
  <2>5. g[m] + x # h[m] + y => (g[m] + x) % M # (h[m] + y) % M
    <3>1. \A a, b \in Nat : a # b /\ a - b < M /\ b - a < M => a % M # b % M
      BY <1>0, StillApart
    <3>1a. \A a, b, c \in 0 .. M - 1 : /\ a + b # a + c => (a + b) % M # (a + c) % M
                                       /\ b + a # c + a => (b + a) % M # (c + a) % M
      <4> SUFFICES ASSUME NEW a \in 0 .. M - 1, NEW b \in 0 .. M - 1, NEW c \in 0 .. M - 1
                   PROVE  /\ a + b # a + c => (a + b) % M # (a + c) % M
                          /\ b + a # c + a => (b + a) % M # (c + a) % M
        OBVIOUS
      <4>0. M \in Nat \ {0}
        BY <1>0 DEF M
      <4>1. a + b \in Nat /\ a + c \in Nat /\ (a + b) - (a + c) < M /\ (a + c) - (a + b) < M
            /\ b + a = a + b /\ c + a = a + c
        BY <4>0
      <4> QED BY <4>1, <3>1
    <3>2. CASE m + 1 = j
      <4>1. g[m] = h[m]
        BY <2>1, <2>4, <3>2
      <4> QED BY <4>1, <3>1a, <2>2
    <3>3. CASE m + 1 # j
      <4>1. x = y
        BY <2>3, <3>3
      <4> QED BY <4>1, <3>1a, <2>2
    <3> QED BY <3>2, <3>3
  <2>6. CASE m + 1 < j
    <3>1. g[m] = h[m] /\ x = y
      BY <2>1, <2>3, <2>4, <2>6, <1>6
    <3>2. g[m + 1] = h[m + 1]
      BY <3>1, <2>2
    <3> QED BY <3>2, <2>6, <1>6
  <2>7. CASE m + 1 >= j
    <3>1. g[m] + x # h[m] + y
      <4>1. CASE m + 1 = j
        <5>1. g[m] = h[m] /\ x # y
          BY <4>1, <2>1, <2>3, <2>4, <1>6
        <5>2. g[m] \in Int /\ x \in Int /\ y \in Int
          BY <2>2
        <5> QED BY ONLY <5>1, <5>2
      <4>2. CASE m + 1 # j
        <5>1. m >= j /\ x = y
          BY <4>2, <2>1, <2>3, <2>7, <1>6
        <5>2. g[m] # h[m]
          BY <5>1, <2>4
        <5>3. g[m] \in Int /\ h[m] \in Int /\ x \in Int
          BY <2>2
        <5> QED BY <5>1, <5>2, <5>3
      <4> QED BY <4>1, <4>2
    <3>2. g[m + 1] # h[m + 1]
      BY <3>1, <2>2, <2>5
    <3> QED BY <3>2, <2>7, <1>6
  <2> QED BY <2>6, <2>7, <1>6
<1> HIDE DEF T
<1>13. n \in T
  BY <1>1, <1>11, <1>12, SetInduction
<1>14. g[n] # h[n]
  BY <1>13, <1>1, <1>6 DEF T
<1> QED BY <1>14, <1>2, <1>3

(***************************************************************************)
(* Frames as octets                                                        *)
(***************************************************************************)
Widths(f) == f.len \in {1, 2} /\ f.ctr \in {0, 1, 2} /\ f.fill \in {0, 1, 2} /\ f.tail \in {0, 1, 2}

LEMMA FormatIs ==
  ASSUME NEW u \in Setups
  PROVE  /\ Widths(u.format)
         /\ u.kind # "sxi" => u.format.tail = 0
         /\ u.kind \in {"tcp", "udp"} => u.format = EthFormat
<1>1. \A h \in DOMAIN HeaderFormats, tail \in 0 .. 2 :
        Widths(FormatOf(h, tail)) /\ FormatOf(h, tail).tail = tail
  <2> SUFFICES ASSUME NEW h \in DOMAIN HeaderFormats, NEW tail \in 0 .. 2
               PROVE  Widths(FormatOf(h, tail)) /\ FormatOf(h, tail).tail = tail
    OBVIOUS
  <2>1. /\ HeaderFormats[h][1] \in {1, 2} /\ HeaderFormats[h][2] \in {0, 1, 2}
        /\ HeaderFormats[h][3] \in {0, 1, 2}
    BY DEF HeaderFormats
  <2> QED BY <2>1 DEF Widths, FormatOf, Format
<1>2. Widths(EthFormat) /\ EthFormat.tail = 0
  BY DEF EthFormat, Format, Widths
<1>3. u.format \in FormatsOf(u.kind)
  BY SetupsAssumption
<1>4. CASE u.kind = "sxi"
  BY <1>1, <1>3, <1>4 DEF FormatsOf
<1>5. CASE u.kind = "usb"
  BY <1>1, <1>3, <1>5 DEF FormatsOf
<1>6. CASE u.kind # "sxi" /\ u.kind # "usb"
  BY <1>2, <1>3, <1>6 DEF FormatsOf
<1> QED BY <1>4, <1>5, <1>6

LEMMA Joining ==
  ASSUME NEW Items, NEW a \in Seq(Items), NEW b \in Seq(Items)
  PROVE  /\ a \o b \in Seq(Items) /\ Len(a \o b) = Len(a) + Len(b)
         /\ \A i \in 1 .. Len(a) : (a \o b)[i] = a[i]
         /\ \A i \in 1 .. Len(b) : (a \o b)[Len(a) + i] = b[i]
  OBVIOUS

LEMMA FrontIs ==
  ASSUME NEW Items, NEW s \in Seq(Items), NEW n \in Nat, n <= Len(s)
  PROVE  /\ SubSeq(s, 1, n) \in Seq(Items) /\ Len(SubSeq(s, 1, n)) = n
         /\ \A i \in 1 .. n : SubSeq(s, 1, n)[i] = s[i]
  OBVIOUS

LEMMA Inside ==
  ASSUME NEW a \in Nat, NEW b \in Nat, NEW c \in Nat, NEW m \in Nat, NEW n \in Nat
  PROVE  /\ \A i \in 1 .. a : i \in 1 .. a + b + c + m + n /\ i \in 1 .. a + b + c + m
         /\ \A i \in 1 .. m : a + b + c + i \in 1 .. a + b + c + m + n
                             /\ a + b + c + i \in 1 .. a + b + c + m
  OBVIOUS

(* The header, the packet, what fills it up, and the checksum.             *)
LEMMA FramedIs ==
  ASSUME NEW f, Widths(f), NEW p \in Seq(Octet), Len(p) <= Longest(f), NEW c \in Nat
  PROVE  LET o == Framed(f, c, p) IN
         /\ o \in Seq(Octet) /\ Len(o) = SxiSize(f, Len(p))
         /\ Number(o, 1, f.len) = Len(p)
         /\ \A k \in 1 .. Len(p) : o[HeaderSize(f) + k] = p[k]
         /\ SxiSum(f, o)
         /\ f.tail # 0 => f.tail * ((Len(o) - f.tail) \div f.tail) = Len(o) - f.tail
<1> DEFINE l == LittleEndian(Len(p), f.len)
           k == LittleEndian(c, f.ctr)
           z == Zeros(f.fill)
           n == WordFill(f, Len(p))
           w == Zeros(n)
           h == l \o k \o z
           body == h \o p \o w
           t == LittleEndian(Checksum(body, f.tail), f.tail)
<1>0. /\ f.len \in Nat /\ f.ctr \in Nat /\ f.fill \in Nat /\ f.tail \in Nat /\ Len(p) \in Nat
      /\ f.len \in {0, 1, 2} /\ f.len # 0 /\ f.ctr \in {0, 1, 2} /\ f.tail \in {0, 1, 2}
  BY DEF Widths
<1>1. l \in Seq(Octet) /\ Len(l) = f.len /\ Number(l, 1, f.len) = Len(p)
  <2>1. Len(p) < Modulus(f.len)
    BY OctetsAre, <1>0 DEF Longest, Modulus
  <2> QED BY <1>0, <2>1, LittleEndianIs
<1>2. k \in Seq(Octet) /\ Len(k) = f.ctr
  BY <1>0, LittleEndianIs
<1>z. \A m \in Nat : Zeros(m) \in Seq(Octet) /\ Len(Zeros(m)) = m
  <2> SUFFICES ASSUME NEW m \in Nat PROVE Zeros(m) \in Seq(Octet) /\ Len(Zeros(m)) = m
    OBVIOUS
  <2>1. 0 \in Octet
    BY OctetsAre
  <2> QED BY <2>1 DEF Zeros
<1>3. z \in Seq(Octet) /\ Len(z) = f.fill
  BY <1>0, <1>z
<1>4. n \in Nat
  BY <1>0 DEF WordFill, HeaderSize
<1>5. w \in Seq(Octet) /\ Len(w) = n
  BY <1>4, <1>z
<1>6. Framed(f, c, p) = IF f.tail = 0 THEN body ELSE body \o t
  BY DEF Framed
<1>7. f.tail = 0 => n = 0
  BY DEF WordFill
<1>8. f.tail # 0 => f.tail \in {1, 2} /\ f.tail * ((HeaderSize(f) + Len(p) + n) \div f.tail) = HeaderSize(f) + Len(p) + n
  <2>1. CASE f.tail = 1
    BY <2>1, <1>0, <1>4 DEF HeaderSize
  <2>2. CASE f.tail = 2
    <3>1. n = (HeaderSize(f) + Len(p)) % 2 /\ HeaderSize(f) + Len(p) \in Nat
      BY <2>2, <1>0 DEF WordFill, HeaderSize
    <3>2. \A x \in Nat : 2 * ((x + (x % 2)) \div 2) = x + (x % 2)
      OBVIOUS
    <3> QED BY <3>1, <3>2, <2>2
  <2> QED BY <2>1, <2>2, <1>0
<1> HIDE DEF l, k, z, n, w
<1> DEFINE lk == l \o k
<1>9. lk \in Seq(Octet) /\ Len(lk) = f.len + f.ctr /\ \A i \in 1 .. f.len : lk[i] = l[i]
  BY <1>1, <1>2
<1> HIDE DEF lk
<1>10. h \in Seq(Octet) /\ Len(h) = HeaderSize(f) /\ \A i \in 1 .. f.len : h[i] = l[i]
  <2>1. h = lk \o z
    BY DEF lk
  <2>2. \A i \in 1 .. f.len : i \in 1 .. Len(lk)
    BY <1>9, <1>0
  <2>3. lk \o z \in Seq(Octet) /\ Len(lk \o z) = Len(lk) + Len(z)
        /\ \A i \in 1 .. Len(lk) : (lk \o z)[i] = lk[i]
    BY <1>3, <1>9, Joining, Zenon
  <2> QED BY <2>1, <2>2, <2>3, <1>3, <1>9 DEF HeaderSize
<1> HIDE DEF h
<1> DEFINE hp == h \o p
<1>11. /\ hp \in Seq(Octet) /\ Len(hp) = HeaderSize(f) + Len(p)
       /\ \A i \in 1 .. f.len : hp[i] = l[i]
       /\ \A i \in 1 .. Len(p) : hp[HeaderSize(f) + i] = p[i]
  <2>1. \A i \in 1 .. f.len : i \in 1 .. Len(h)
    BY <1>10, <1>0 DEF HeaderSize
  <2>2. /\ hp \in Seq(Octet) /\ Len(hp) = Len(h) + Len(p)
        /\ \A i \in 1 .. Len(h) : hp[i] = h[i]
        /\ \A i \in 1 .. Len(p) : hp[Len(h) + i] = p[i]
    <3>1. h \in Seq(Octet) /\ p \in Seq(Octet)
      BY <1>10
    <3> QED BY <3>1
  <2> HIDE DEF hp
  <2> QED BY <2>1, <2>2, <1>10
<1> HIDE DEF hp
<1>12. /\ body \in Seq(Octet) /\ Len(body) = HeaderSize(f) + Len(p) + n
       /\ \A i \in 1 .. f.len : body[i] = l[i]
       /\ \A i \in 1 .. Len(p) : body[HeaderSize(f) + i] = p[i]
  <2>1. body = hp \o w
    BY DEF hp
  <2>2. /\ \A i \in 1 .. f.len : i \in 1 .. Len(hp)
        /\ \A i \in 1 .. Len(p) : HeaderSize(f) + i \in 1 .. Len(hp)
    <3>1. Len(hp) = f.len + f.ctr + f.fill + Len(p)
      BY <1>11 DEF HeaderSize
    <3>2. /\ \A i \in 1 .. f.len : i \in 1 .. f.len + f.ctr + f.fill + Len(p)
          /\ \A i \in 1 .. Len(p) : f.len + f.ctr + f.fill + i \in 1 .. f.len + f.ctr + f.fill + Len(p)
      BY <1>0, Inside, Zenon
    <3> QED BY <3>1, <3>2 DEF HeaderSize
  <2>3. hp \o w \in Seq(Octet) /\ Len(hp \o w) = Len(hp) + Len(w)
        /\ \A i \in 1 .. Len(hp) : (hp \o w)[i] = hp[i]
    <3>1. hp \in Seq(Octet) /\ w \in Seq(Octet)
      BY <1>5, <1>11
    <3> QED BY <3>1
  <2> QED BY <2>1, <2>2, <2>3, <1>5, <1>11
<1> HIDE DEF body
<1>13. f.tail # 0 => t \in Seq(Octet) /\ Len(t) = f.tail /\ Number(t, 1, f.tail) = Checksum(body, f.tail)
  <2> SUFFICES ASSUME f.tail # 0
               PROVE  t \in Seq(Octet) /\ Len(t) = f.tail /\ Number(t, 1, f.tail) = Checksum(body, f.tail)
    OBVIOUS
  <2>1. Checksum(body, f.tail) \in Nat /\ Checksum(body, f.tail) < Modulus(f.tail)
    BY <1>8, <1>12, ChecksumSmall
  <2> QED BY <2>1, <1>0, LittleEndianIs
<1> HIDE DEF t
<1> DEFINE o == Framed(f, c, p)
<1>14. /\ o \in Seq(Octet) /\ Len(o) = Len(body) + f.tail
       /\ \A i \in 1 .. Len(body) : o[i] = body[i]
       /\ f.tail # 0 => \A i \in 1 .. f.tail : o[Len(body) + i] = t[i]
  <2>1. CASE f.tail = 0
    BY <2>1, <1>6, <1>12
  <2>2. CASE f.tail # 0
    <3>1. /\ body \o t \in Seq(Octet) /\ Len(body \o t) = Len(body) + Len(t)
          /\ \A i \in 1 .. Len(body) : (body \o t)[i] = body[i]
          /\ \A i \in 1 .. Len(t) : (body \o t)[Len(body) + i] = t[i]
      <4>1. body \in Seq(Octet) /\ t \in Seq(Octet)
        BY <2>2, <1>12, <1>13
      <4> QED BY <4>1
    <3> DEFINE bt == body \o t
    <3>2. Framed(f, c, p) = bt /\ Len(t) = f.tail
      BY <2>2, <1>6, <1>13
    <3> HIDE DEF bt
    <3> QED BY <3>1, <3>2 DEF bt
  <2> QED BY <2>1, <2>2
<1> HIDE DEF o
<1>15. /\ \A i \in 1 .. f.len : i \in 1 .. Len(body)
       /\ \A i \in 1 .. Len(p) : HeaderSize(f) + i \in 1 .. Len(body)
  <2>1. Len(body) = f.len + f.ctr + f.fill + Len(p) + n
    BY <1>12 DEF HeaderSize
  <2>2. /\ \A i \in 1 .. f.len : i \in 1 .. f.len + f.ctr + f.fill + Len(p) + n
        /\ \A i \in 1 .. Len(p) : f.len + f.ctr + f.fill + i \in 1 .. f.len + f.ctr + f.fill + Len(p) + n
    BY <1>0, <1>4, Inside, Zenon
  <2> QED BY <2>1, <2>2 DEF HeaderSize
<1>16. /\ \A i \in 1 .. f.len : o[i] = l[i]
       /\ \A i \in 1 .. Len(p) : o[HeaderSize(f) + i] = p[i]
  BY <1>12, <1>14, <1>15
<1>17. Number(o, 1, f.len) = Len(p)
  <2>1. Alike(o, 1, l, 1, f.len)
    BY <1>16, <1>0 DEF Alike
  <2>2. Number(o, 1, f.len) = Number(l, 1, f.len)
    BY <2>1, <1>0, NumberOf
  <2> QED BY <2>2, <1>1
<1>18. Len(o) = SxiSize(f, Len(p))
  BY <1>12, <1>14 DEF SxiSize, n
<1>19. SxiSum(f, o)
  <2> SUFFICES ASSUME f.tail # 0
               PROVE  Number(o, (Len(o) - f.tail) + 1, f.tail) = Checksum(SubSeq(o, 1, Len(o) - f.tail), f.tail)
    BY DEF SxiSum
  <2>1. Len(o) - f.tail = Len(body) /\ Len(body) \in Nat
    BY <1>0, <1>12, <1>14
  <2>2. SubSeq(o, 1, Len(body)) = body
    <3>0. o \in Seq(Octet) /\ Len(body) \in Nat /\ Len(body) <= Len(o)
      BY <1>0, <1>14, <2>1
    <3>1. SubSeq(o, 1, Len(body)) \in Seq(Octet) /\ Len(SubSeq(o, 1, Len(body))) = Len(body)
          /\ \A i \in 1 .. Len(body) : SubSeq(o, 1, Len(body))[i] = o[i]
      BY <3>0, FrontIs, Zenon
    <3>2. body \in Seq(Octet) /\ \A i \in 1 .. Len(body) : SubSeq(o, 1, Len(body))[i] = body[i]
      BY <3>1, <1>12, <1>14
    <3> QED BY <3>1, <3>2, SeqEqual, Zenon
  <2>3. Number(o, Len(body) + 1, f.tail) = Number(t, 1, f.tail)
    <3>1. \A i \in 0 .. f.tail - 1 : o[(Len(body) + 1) + i] = t[1 + i]
      <4> SUFFICES ASSUME NEW i \in 0 .. f.tail - 1 PROVE o[(Len(body) + 1) + i] = t[1 + i]
        OBVIOUS
      <4>1. 1 + i \in 1 .. f.tail /\ (Len(body) + 1) + i = Len(body) + (1 + i)
        BY <1>0, <2>1
      <4> QED BY <4>1, <1>14
    <3>2. Len(body) + 1 \in Nat \ {0}
      BY <2>1
    <3>3. Alike(o, Len(body) + 1, t, 1, f.tail)
      BY <3>1 DEF Alike
    <3> QED BY <3>2, <3>3, <1>0, NumberOf
  <2> QED BY <2>1, <2>2, <2>3, <1>13
<1>20. f.tail # 0 => f.tail * ((Len(o) - f.tail) \div f.tail) = Len(o) - f.tail
  <2>1. Len(o) - f.tail = Len(body)
    BY <1>0, <1>12, <1>14, <1>4 DEF HeaderSize
  <2> QED BY <2>1, <1>8, <1>12
<1> QED BY <1>14, <1>16, <1>17, <1>18, <1>19, <1>20 DEF o

-----------------------------------------------------------------------------
(***************************************************************************)
(* Receivers                                                               *)
(***************************************************************************)
FrameRecords == [counter : Nat, packet : Seq(Octet)]
Receivers ==
  {r \in [buffer : Seq(Octet), length : Nat \cup {-1}, counter : Nat, out : Seq(FrameRecords)] :
     r.length = -1 \/ Len(r.buffer) < r.length}
Clear(r) == [r EXCEPT !.out = <<>>]
(* q is r after an octet, c a receiver like r that has found nothing yet.  *)
Like(r, q, c) == q \in Receivers /\ q.out = r.out \o c.out /\ Clear(q) = Clear(c)

LEMMA EmptyTyped == <<>> \in Seq(Octet) /\ -1 \in Nat \cup {-1} /\ 0 \in Nat
  OBVIOUS

LEMMA EmptyReceiver == Empty \in Receivers /\ Clear(Empty) = Empty /\ Empty.out = <<>>
<1>1. <<>> \in Seq(Octet) /\ <<>> \in Seq(FrameRecords)
  OBVIOUS
<1>2. Empty \in [buffer : Seq(Octet), length : Nat \cup {-1}, counter : Nat, out : Seq(FrameRecords)]
  BY <1>1 DEF Empty
<1>3. Empty.length = -1 /\ Empty.out = <<>>
  BY DEF Empty
<1>4. Clear(Empty) = Empty
  BY DEF Clear, Empty
<1> QED BY <1>2, <1>3, <1>4 DEF Receivers

LEMMA ClearIs ==
  ASSUME NEW r \in Receivers
  PROVE  /\ Clear(r) \in Receivers /\ Clear(r).out = <<>>
         /\ Clear(r).buffer = r.buffer /\ Clear(r).length = r.length /\ Clear(r).counter = r.counter
         /\ r.out = <<>> => Clear(r) = r
<1>1. <<>> \in Seq(FrameRecords)
  OBVIOUS
<1> QED BY <1>1 DEF Receivers, Clear

LEMMA LikeKept ==
  ASSUME NEW r \in Receivers, NEW b \in Seq(Octet), r.length = -1 \/ Len(b) < r.length
  PROVE  /\ Like(r, [r EXCEPT !.buffer = b], [Clear(r) EXCEPT !.buffer = b])
         /\ [r EXCEPT !.buffer = b].length = r.length
<1>1. r.out \o <<>> = r.out
  BY DEF Receivers
<1>2. [r EXCEPT !.buffer = b] \in Receivers
  BY DEF Receivers
<1>3. [r EXCEPT !.buffer = b].out = r.out /\ [Clear(r) EXCEPT !.buffer = b].out = <<>>
  BY DEF Receivers, Clear
<1>4. Clear([r EXCEPT !.buffer = b]) = Clear([Clear(r) EXCEPT !.buffer = b])
  BY DEF Receivers, Clear
<1> QED BY <1>1, <1>2, <1>3, <1>4 DEF Like, Receivers

LEMMA LikeHeader ==
  ASSUME NEW r \in Receivers, NEW l \in Nat \ {0}, NEW n \in Nat, NEW q, NEW c,
         q = [r EXCEPT !.buffer = <<>>, !.length = l, !.counter = n],
         c = [Clear(r) EXCEPT !.buffer = <<>>, !.length = l, !.counter = n]
  PROVE  Like(r, q, c)
<1>1. r.out \o <<>> = r.out
  BY DEF Receivers
<1>2. q \in Receivers
  <2>1. <<>> \in Seq(Octet) /\ Len(<<>>) < l
    OBVIOUS
  <2> QED BY <2>1 DEF Receivers
<1>3. q.out = r.out /\ c.out = <<>>
  BY DEF Receivers, Clear
<1>4. Clear(q) = Clear(c)
  BY DEF Receivers, Clear
<1> QED BY <1>1, <1>2, <1>3, <1>4 DEF Like

LEMMA LikeDropped ==
  ASSUME NEW r \in Receivers
  PROVE  /\ Like(r, [Empty EXCEPT !.out = r.out], [Empty EXCEPT !.out = Clear(r).out])
         /\ [Empty EXCEPT !.out = r.out].length = -1
<1>1. r.out \o <<>> = r.out /\ r.out \in Seq(FrameRecords)
  BY DEF Receivers
<1>2. [Empty EXCEPT !.out = r.out] \in Receivers /\ [Empty EXCEPT !.out = r.out].length = -1
  BY <1>1, EmptyTyped DEF Receivers, Empty
<1>3. [Empty EXCEPT !.out = r.out].out = r.out /\ [Empty EXCEPT !.out = Clear(r).out].out = <<>>
  BY ClearIs DEF Empty
<1>4. Clear([Empty EXCEPT !.out = r.out]) = Clear([Empty EXCEPT !.out = Clear(r).out])
  BY DEF Clear, Empty
<1> QED BY <1>1, <1>2, <1>3, <1>4 DEF Like

LEMMA LikeEmitted ==
  ASSUME NEW r \in Receivers, NEW x \in FrameRecords
  PROVE  Like(r, Emits(r, x), Emits(Clear(r), x)) /\ Emits(r, x).length = -1
<1>0. Clear(r).out = <<>> /\ <<x>> = Append(<<>>, x)
  BY ClearIs
<1>1. r.out \in Seq(FrameRecords) /\ r.out \o <<x>> = Append(r.out, x)
      /\ Append(r.out, x) \in Seq(FrameRecords)
  BY DEF Receivers
<1>2. Emits(r, x) \in Receivers /\ Emits(r, x).length = -1
  BY <1>1, EmptyTyped DEF Receivers, Empty, Emits
<1>3. Emits(r, x).out = Append(r.out, x) /\ Emits(Clear(r), x).out = <<x>>
  BY <1>0 DEF Empty, Emits
<1>4. Clear(Emits(r, x)) = Clear(Emits(Clear(r), x))
  BY DEF Clear, Empty, Emits
<1> QED BY <1>1, <1>2, <1>3, <1>4 DEF Like

LEMMA LikeFrame ==
  ASSUME NEW n \in Nat, NEW p \in Seq(Octet)
  PROVE  Frame(n, p) \in FrameRecords /\ Frame(n, p).packet = p
  BY DEF Frame, FrameRecords

LEMMA Longer ==
  ASSUME NEW r \in Receivers, NEW o \in Octet
  PROVE  Append(r.buffer, o) \in Seq(Octet) /\ Len(Append(r.buffer, o)) = Len(r.buffer) + 1
         /\ Len(r.buffer) \in Nat
<1>1. r.buffer \in Seq(Octet)
  BY DEF Receivers
<1> QED BY <1>1

LEMMA EthLike ==
  ASSUME NEW r \in Receivers, NEW o \in Octet
  PROVE  Like(r, EthOctet(r, o), EthOctet(Clear(r), o))
<1> DEFINE b == Append(r.buffer, o)
<1>0. b \in Seq(Octet) /\ Len(b) \in Nat
  BY Longer
<1>1. /\ Clear(r).buffer = r.buffer /\ Clear(r).length = r.length /\ Clear(r).counter = r.counter
      /\ r.counter \in Nat /\ r.length \in Nat \cup {-1}
  BY ClearIs DEF Receivers
<1> HIDE DEF b
<1>2. CASE r.length = -1 /\ Len(b) < 4
  <2>1. EthOctet(r, o) = [r EXCEPT !.buffer = b] /\ EthOctet(Clear(r), o) = [Clear(r) EXCEPT !.buffer = b]
    BY <1>1, <1>2 DEF EthOctet, b
  <2> QED BY <2>1, <1>0, <1>2, LikeKept
<1>3. CASE r.length = -1 /\ ~(Len(b) < 4) /\ Number(b, 1, 2) = 0
  <2>1. EthOctet(r, o) = [Empty EXCEPT !.out = r.out]
        /\ EthOctet(Clear(r), o) = [Empty EXCEPT !.out = Clear(r).out]
    BY <1>1, <1>3 DEF EthOctet, b
  <2> QED BY <2>1, LikeDropped
<1>4. CASE r.length = -1 /\ ~(Len(b) < 4) /\ Number(b, 1, 2) # 0
  <2> DEFINE l == Number(b, 1, 2)
             n == Number(b, 3, 2)
  <2>1. EthOctet(r, o) = [r EXCEPT !.buffer = <<>>, !.length = l, !.counter = n]
        /\ EthOctet(Clear(r), o) = [Clear(r) EXCEPT !.buffer = <<>>, !.length = l, !.counter = n]
    BY <1>1, <1>4 DEF EthOctet, b
  <2>2. l \in Nat \ {0} /\ n \in Nat
    BY <1>0, <1>4, NumberIs
  <2> HIDE DEF l, n
  <2> QED BY <2>1, <2>2, LikeHeader, Zenon
<1>5. CASE r.length # -1 /\ Len(b) < r.length
  <2>1. EthOctet(r, o) = [r EXCEPT !.buffer = b] /\ EthOctet(Clear(r), o) = [Clear(r) EXCEPT !.buffer = b]
    BY <1>1, <1>5 DEF EthOctet, b
  <2> QED BY <2>1, <1>0, <1>5, LikeKept
<1>6. CASE r.length # -1 /\ ~(Len(b) < r.length)
  <2>1. EthOctet(r, o) = Emits(r, Frame(r.counter, b))
        /\ EthOctet(Clear(r), o) = Emits(Clear(r), Frame(r.counter, b))
    BY <1>1, <1>6 DEF EthOctet, b
  <2>2. Frame(r.counter, b) \in FrameRecords
    BY <1>0, <1>1, LikeFrame
  <2> QED BY <2>1, <2>2, LikeEmitted
<1> QED BY <1>2, <1>3, <1>4, <1>5, <1>6

LEMMA HeaderNumbers ==
  ASSUME NEW f, Widths(f), NEW b \in Seq(Octet), Len(b) >= HeaderSize(f)
  PROVE  Number(b, 1, f.len) \in Nat /\ Number(b, f.len + 1, f.ctr) \in Nat
<1>1. f.len \in Nat /\ f.ctr \in Nat /\ f.fill \in Nat /\ f.len \in {0, 1, 2} /\ f.ctr \in {0, 1, 2}
  BY DEF Widths
<1>2. 1 + f.len - 1 <= Len(b) /\ (f.len + 1) + f.ctr - 1 <= Len(b) /\ f.len + 1 \in Nat \ {0}
  <2> DEFINE x == f.len
             y == f.ctr
             z == f.fill
             l == Len(b)
  <2>1. l \in Nat /\ l >= x + y + z
    BY DEF HeaderSize
  <2>2. x \in Nat /\ y \in Nat /\ z \in Nat
    BY <1>1
  <2> HIDE DEF x, y, z, l
  <2>3. 1 + x - 1 <= l /\ (x + 1) + y - 1 <= l /\ x + 1 \in Nat \ {0}
    BY ONLY <2>1, <2>2
  <2> QED BY <2>3 DEF x, y, l
<1> DEFINE i == f.len + 1
<1>3. i \in Nat \ {0} /\ i + f.ctr - 1 <= Len(b)
  BY <1>2
<1> HIDE DEF i
<1>4. Number(b, i, f.ctr) \in Nat
  BY <1>1, <1>3, NumberIs
<1>5. Number(b, 1, f.len) \in Nat
  BY ONLY <1>1, <1>2, NumberIs, 1 \in Nat \ {0}, b \in Seq(Octet)
<1> QED BY <1>4, <1>5 DEF i

LEMMA UsbLike ==
  ASSUME NEW f, Widths(f), NEW r \in Receivers, NEW o \in Octet
  PROVE  Like(r, UsbOctet(f, r, o), UsbOctet(f, Clear(r), o))
<1> DEFINE b == Append(r.buffer, o)
           l == Number(b, 1, f.len)
           n == Number(b, f.len + 1, f.ctr)
<1>0. b \in Seq(Octet) /\ Len(b) \in Nat
  BY Longer
<1>1. /\ Clear(r).buffer = r.buffer /\ Clear(r).length = r.length /\ Clear(r).counter = r.counter
      /\ r.counter \in Nat /\ r.length \in Nat \cup {-1}
  BY ClearIs DEF Receivers
<1>h. HeaderSize(f) \in Nat
  BY DEF HeaderSize, Widths
<1>n. Len(b) >= HeaderSize(f) => l \in Nat /\ n \in Nat
  BY <1>0, HeaderNumbers
<1> HIDE DEF b
<1>2. CASE r.length = -1 /\ Len(b) < HeaderSize(f)
  <2>1. UsbOctet(f, r, o) = [r EXCEPT !.buffer = b] /\ UsbOctet(f, Clear(r), o) = [Clear(r) EXCEPT !.buffer = b]
    BY <1>1, <1>2 DEF UsbOctet, b
  <2> QED BY <2>1, <1>0, <1>2, LikeKept
<1>3. CASE r.length = -1 /\ ~(Len(b) < HeaderSize(f)) /\ l = 0
  <2>1. UsbOctet(f, r, o) = Emits(r, Frame(n, <<>>)) /\ UsbOctet(f, Clear(r), o) = Emits(Clear(r), Frame(n, <<>>))
    BY <1>1, <1>3 DEF UsbOctet, b
  <2>2. n \in Nat /\ <<>> \in Seq(Octet)
    BY <1>0, <1>h, <1>n, <1>3
  <2> HIDE DEF n
  <2>3. Frame(n, <<>>) \in FrameRecords
    BY <2>2, LikeFrame
  <2> QED BY <2>1, <2>3, LikeEmitted
<1>4. CASE r.length = -1 /\ ~(Len(b) < HeaderSize(f)) /\ l # 0
  <2>1. UsbOctet(f, r, o) = [r EXCEPT !.buffer = <<>>, !.length = l, !.counter = n]
        /\ UsbOctet(f, Clear(r), o) = [Clear(r) EXCEPT !.buffer = <<>>, !.length = l, !.counter = n]
    BY <1>1, <1>4 DEF UsbOctet, b
  <2>2. l \in Nat \ {0} /\ n \in Nat
    BY <1>0, <1>4, <1>h, <1>n
  <2> HIDE DEF l, n
  <2> QED BY <2>1, <2>2, LikeHeader, Zenon
<1>5. CASE r.length # -1 /\ Len(b) < r.length
  <2>1. UsbOctet(f, r, o) = [r EXCEPT !.buffer = b] /\ UsbOctet(f, Clear(r), o) = [Clear(r) EXCEPT !.buffer = b]
    BY <1>1, <1>5 DEF UsbOctet, b
  <2> QED BY <2>1, <1>0, <1>5, LikeKept
<1>6. CASE r.length # -1 /\ ~(Len(b) < r.length)
  <2>1. UsbOctet(f, r, o) = Emits(r, Frame(r.counter, b))
        /\ UsbOctet(f, Clear(r), o) = Emits(Clear(r), Frame(r.counter, b))
    BY <1>1, <1>6 DEF UsbOctet, b
  <2>2. Frame(r.counter, b) \in FrameRecords
    BY <1>0, <1>1, LikeFrame
  <2> QED BY <2>1, <2>2, LikeEmitted
<1> QED BY <1>2, <1>3, <1>4, <1>5, <1>6

LEMMA SxiLike ==
  ASSUME NEW f, Widths(f), NEW r \in Receivers, r.length = -1, NEW o \in Octet
  PROVE  Like(r, SxiOctet(f, r, o), SxiOctet(f, Clear(r), o)) /\ SxiOctet(f, r, o).length = -1
<1> DEFINE b == Append(r.buffer, o)
           l == SxiLength(f, b)
           n == Number(b, f.len + 1, f.ctr)
           h == HeaderSize(f)
           p == SubSeq(b, h + 1, h + l)
           short == Len(b) < h \/ Len(b) < SxiSize(f, l)
<1>0. b \in Seq(Octet) /\ Len(b) \in Nat
  BY Longer
<1>1. Clear(r).buffer = r.buffer /\ Clear(r).length = r.length /\ Clear(r).counter = r.counter
  BY ClearIs
<1>h. h \in Nat /\ f.tail \in Nat
  BY DEF HeaderSize, Widths
<1>n. Len(b) >= h => l \in Nat /\ n \in Nat
  BY <1>0, HeaderNumbers DEF SxiLength
<1>p. ~short => p \in Seq(Octet) /\ n \in Nat
  <2> SUFFICES ASSUME ~short PROVE p \in Seq(Octet) /\ n \in Nat
    OBVIOUS
  <2>1. l \in Nat /\ n \in Nat
    BY <1>0, <1>h, <1>n
  <2>2. WordFill(f, l) \in Nat
    BY <1>h, <2>1 DEF WordFill
  <2>3. Len(b) >= h + l + WordFill(f, l) + f.tail
    <3>1. SxiSize(f, l) = h + l + WordFill(f, l) + f.tail
      BY DEF SxiSize
    <3> HIDE DEF b, l, h
    <3> QED BY <3>1, <1>0, <1>h, <2>1, <2>2
  <2> HIDE DEF b, l, h, n
  <2>4. h + l <= Len(b) /\ h + 1 \in Nat /\ h + l \in Nat /\ h + 1 >= 1
    BY <1>0, <1>h, <2>1, <2>2, <2>3
  <2>5. SubSeq(b, h + 1, h + l) \in Seq(Octet)
    BY <1>0, <1>h, <2>1, <2>4
  <2> QED BY <2>1, <2>5
<1> HIDE DEF b
<1>2. CASE Len(r.buffer) >= SxiBuffer
  <2>1. SxiOctet(f, r, o) = [Empty EXCEPT !.out = r.out]
        /\ SxiOctet(f, Clear(r), o) = [Empty EXCEPT !.out = Clear(r).out]
    BY <1>1, <1>2 DEF SxiOctet
  <2> QED BY <2>1, LikeDropped
<1>3. CASE ~(Len(r.buffer) >= SxiBuffer) /\ short
  <2>1. SxiOctet(f, r, o) = [r EXCEPT !.buffer = b] /\ SxiOctet(f, Clear(r), o) = [Clear(r) EXCEPT !.buffer = b]
    BY <1>1, <1>3 DEF SxiOctet, b
  <2> QED BY <2>1, <1>0, LikeKept
<1>4. CASE ~(Len(r.buffer) >= SxiBuffer) /\ ~short /\ SxiSum(f, b)
  <2>1. SxiOctet(f, r, o) = Emits(r, Frame(n, p)) /\ SxiOctet(f, Clear(r), o) = Emits(Clear(r), Frame(n, p))
    BY <1>1, <1>4 DEF SxiOctet, b
  <2> HIDE DEF n, p, short
  <2>2. Frame(n, p) \in FrameRecords
    BY <1>p, <1>4, LikeFrame
  <2> QED BY <2>1, <2>2, LikeEmitted
<1>5. CASE ~(Len(r.buffer) >= SxiBuffer) /\ ~short /\ ~SxiSum(f, b)
  <2>1. SxiOctet(f, r, o) = [Empty EXCEPT !.out = r.out]
        /\ SxiOctet(f, Clear(r), o) = [Empty EXCEPT !.out = Clear(r).out]
    BY <1>1, <1>5 DEF SxiOctet, b
  <2> QED BY <2>1, LikeDropped
<1> QED BY <1>2, <1>3, <1>4, <1>5

(* An octet, by whichever receiver.                                        *)
Ready(k, f, r) == Widths(f) /\ r \in Receivers /\ (k = "sxi" => r.length = -1)

LEMMA OctetLike ==
  ASSUME NEW k, NEW f, NEW r, Ready(k, f, r), NEW o \in Octet
  PROVE  Like(r, OctetTo(k, f, r, o), OctetTo(k, f, Clear(r), o)) /\ Ready(k, f, OctetTo(k, f, r, o))
<1>0. Widths(f) /\ r \in Receivers /\ (k = "sxi" => r.length = -1)
  BY DEF Ready
<1>1. CASE k = "sxi"
  <2>1. Like(r, SxiOctet(f, r, o), SxiOctet(f, Clear(r), o)) /\ SxiOctet(f, r, o).length = -1
    BY <1>0, <1>1, SxiLike
  <2>2. \A x : OctetTo(k, f, x, o) = SxiOctet(f, x, o)
    BY <1>1 DEF OctetTo
  <2> QED BY <2>1, <2>2, <1>0 DEF Ready, Like
<1>2. CASE k = "usb"
  <2>1. Like(r, UsbOctet(f, r, o), UsbOctet(f, Clear(r), o))
    BY <1>0, UsbLike
  <2>2. \A x : OctetTo(k, f, x, o) = UsbOctet(f, x, o)
    BY <1>2 DEF OctetTo
  <2> QED BY <2>1, <2>2, <1>0, <1>2 DEF Ready, Like
<1>3. CASE k # "sxi" /\ k # "usb"
  <2>1. Like(r, EthOctet(r, o), EthOctet(Clear(r), o))
    BY <1>0, EthLike
  <2>2. \A x : OctetTo(k, f, x, o) = EthOctet(x, o)
    BY <1>3 DEF OctetTo
  <2>3. Like(r, OctetTo(k, f, r, o), OctetTo(k, f, Clear(r), o))
    BY <2>1, <2>2
  <2>4. OctetTo(k, f, r, o) \in Receivers
    BY <2>3 DEF Like
  <2> QED BY <2>3, <2>4, <1>0, <1>3 DEF Ready
<1> QED BY <1>1, <1>2, <1>3

(***************************************************************************)
(* Octets fed one after the other                                          *)
(***************************************************************************)
Steps(g, k, f, r, s, n) ==
  g = [i \in 0 .. n |-> IF i = 0 THEN Clear(r) ELSE OctetTo(k, f, g[i - 1], s[i])]

LEMMA StepsExist ==
  ASSUME NEW k, NEW f, NEW r, NEW s, NEW n \in Nat
  PROVE  \E g : Steps(g, k, f, r, s, n)
<1> DEFINE T == {m \in Nat : \E g : Steps(g, k, f, r, s, m)}
           After(a, i) == OctetTo(k, f, a, s[i])
<1>0. \A g, m : Steps(g, k, f, r, s, m) <=> g = [i \in 0 .. m |-> IF i = 0 THEN Clear(r) ELSE After(g[i - 1], i)]
  BY DEF Steps
<1> HIDE DEF After
<1>1. 0 \in T
  <2> DEFINE h == [i \in 0 .. 0 |-> Clear(r)]
  <2>1. \A i \in 0 .. 0 : i = 0
    OBVIOUS
  <2>2. h = [i \in 0 .. 0 |-> IF i = 0 THEN Clear(r) ELSE After(h[i - 1], i)]
    BY <2>1
  <2> HIDE DEF h
  <2>3. Steps(h, k, f, r, s, 0)
    BY <2>2, <1>0
  <2> QED BY <2>3
<1>2. ASSUME NEW m \in 0 .. n - 1, m \in T PROVE m + 1 \in T
  <2>1. PICK e : e = [i \in 0 .. m |-> IF i = 0 THEN Clear(r) ELSE After(e[i - 1], i)]
    BY <1>2, <1>0
  <2> DEFINE g == [i \in 0 .. m + 1 |-> IF i <= m THEN e[i] ELSE After(e[m], m + 1)]
  <2>2. \A i \in 0 .. m + 1 : g[i] = IF i = 0 THEN Clear(r) ELSE After(g[i - 1], i)
    <3>1. \A i \in 0 .. m : e[i] = IF i = 0 THEN Clear(r) ELSE After(e[i - 1], i)
      BY <2>1
    <3>2. \A i \in 0 .. m : i \in 0 .. m + 1 /\ i <= m /\ (i # 0 => i - 1 \in 0 .. m + 1 /\ i - 1 <= m)
      OBVIOUS
    <3>3. TAKE i \in 0 .. m + 1
    <3>4. CASE i \in 0 .. m
      BY <3>1, <3>2, <3>4
    <3>5. CASE i = m + 1
      <4>1. i - 1 = m /\ m \in 0 .. m + 1 /\ m <= m /\ ~(i <= m) /\ i # 0
        BY <3>5
      <4> QED BY <4>1, <3>5
    <3> QED BY <3>4, <3>5
  <2>3. g = [i \in 0 .. m + 1 |-> IF i = 0 THEN Clear(r) ELSE After(g[i - 1], i)]
    BY <2>2
  <2> HIDE DEF g
  <2>4. Steps(g, k, f, r, s, m + 1) /\ m + 1 \in Nat
    BY <2>3, <1>0
  <2> QED BY <2>4
<1> HIDE DEF T
<1>3. n \in T
  BY <1>1, <1>2, SetInduction
<1> QED BY <1>3 DEF T

LEMMA FedBy ==
  ASSUME NEW k, NEW f, NEW r, NEW s, Len(s) \in Nat
  PROVE  \E g : Steps(g, k, f, r, s, Len(s)) /\ FedTo(k, f, r, s) = g[Len(s)]
<1> DEFINE n == Len(s)
           g == CHOOSE e : e = [i \in 0 .. n |->
                  IF i = 0 THEN [r EXCEPT !.out = <<>>]
                  ELSE CHOOSE next \in {OctetTo(k, f, before, s[i]) : before \in {e[i - 1]}} : TRUE]
<1>1. FedTo(k, f, r, s) = g[n]
  BY DEF FedTo
<1>2. \A e, i : (CHOOSE next \in {OctetTo(k, f, before, s[i]) : before \in {e[i - 1]}} : TRUE)
                  = OctetTo(k, f, e[i - 1], s[i])
  <2> SUFFICES ASSUME NEW e, NEW i
               PROVE  (CHOOSE next \in {OctetTo(k, f, before, s[i]) : before \in {e[i - 1]}} : TRUE)
                        = OctetTo(k, f, e[i - 1], s[i])
    OBVIOUS
  <2>1. {OctetTo(k, f, before, s[i]) : before \in {e[i - 1]}} = {OctetTo(k, f, e[i - 1], s[i])}
    OBVIOUS
  <2> QED BY <2>1
<1>3. \A e : Steps(e, k, f, r, s, n) <=>
               e = [i \in 0 .. n |->
                  IF i = 0 THEN [r EXCEPT !.out = <<>>]
                  ELSE CHOOSE next \in {OctetTo(k, f, before, s[i]) : before \in {e[i - 1]}} : TRUE]
  BY <1>2 DEF Steps, Clear
<1>4. Steps(g, k, f, r, s, n)
  <2>1. \E e : Steps(e, k, f, r, s, n)
    BY StepsExist
  <2>2. \E e : e = [i \in 0 .. n |->
                  IF i = 0 THEN [r EXCEPT !.out = <<>>]
                  ELSE CHOOSE next \in {OctetTo(k, f, before, s[i]) : before \in {e[i - 1]}} : TRUE]
    BY <2>1, <1>3
  <2>3. g = [i \in 0 .. n |->
                  IF i = 0 THEN [r EXCEPT !.out = <<>>]
                  ELSE CHOOSE next \in {OctetTo(k, f, before, s[i]) : before \in {g[i - 1]}} : TRUE]
    BY <2>2
  <2> HIDE DEF g
  <2> QED BY <2>3, <1>3
<1> HIDE DEF g
<1> QED BY <1>1, <1>4

LEMMA FedNone ==
  ASSUME NEW k, NEW f, NEW r
  PROVE  FedTo(k, f, r, <<>>) = Clear(r)
<1>1. Len(<<>>) = 0
  OBVIOUS
<1>2. PICK g : Steps(g, k, f, r, <<>>, 0) /\ FedTo(k, f, r, <<>>) = g[0]
  BY <1>1, FedBy
<1> QED BY <1>2 DEF Steps

LEMMA FedMore ==
  ASSUME NEW k, NEW f, NEW r, NEW Items, NEW s \in Seq(Items), NEW x \in Items
  PROVE  FedTo(k, f, r, Append(s, x)) = OctetTo(k, f, FedTo(k, f, r, s), x)
<1> DEFINE n == Len(s)
           t == Append(s, x)
<1>1. n \in Nat /\ Len(t) = n + 1 /\ t[n + 1] = x /\ \A i \in 1 .. n : t[i] = s[i]
  OBVIOUS
<1>2. PICK g : Steps(g, k, f, r, s, n) /\ FedTo(k, f, r, s) = g[n]
  BY <1>1, FedBy
<1>3. PICK h : Steps(h, k, f, r, t, n + 1) /\ FedTo(k, f, r, t) = h[n + 1]
  <2>1. Len(t) \in Nat
    BY <1>1
  <2>2. \E h : Steps(h, k, f, r, t, Len(t)) /\ FedTo(k, f, r, t) = h[Len(t)]
    BY <2>1, FedBy
  <2> QED BY <2>2, <1>1
<1> HIDE DEF t, n
<1>4. g[0] = Clear(r) /\ \A i \in 1 .. n : g[i] = OctetTo(k, f, g[i - 1], s[i])
  BY <1>1, <1>2 DEF Steps
<1>5. h[0] = Clear(r) /\ \A i \in 1 .. n + 1 : h[i] = OctetTo(k, f, h[i - 1], t[i])
  BY <1>1, <1>3 DEF Steps
<1> DEFINE T == {m \in Nat : m <= n => g[m] = h[m]}
<1>6. 0 \in T
  BY <1>4, <1>5
<1>7. ASSUME NEW m \in 0 .. n - 1, m \in T PROVE m + 1 \in T
  <2>1. m + 1 \in 1 .. n /\ m + 1 \in 1 .. n + 1 /\ (m + 1) - 1 = m /\ m <= n
    BY <1>1
  <2>2. g[m + 1] = OctetTo(k, f, g[m], s[m + 1]) /\ h[m + 1] = OctetTo(k, f, h[m], t[m + 1])
    BY <2>1, <1>4, <1>5
  <2>3. g[m] = h[m] /\ s[m + 1] = t[m + 1]
    BY <2>1, <1>1, <1>7
  <2> QED BY <2>2, <2>3
<1> HIDE DEF T
<1>8. g[n] = h[n]
  <2>1. n \in T
    BY <1>1, <1>6, <1>7, SetInduction
  <2> QED BY <2>1, <1>1 DEF T
<1>9. h[n + 1] = OctetTo(k, f, h[n], t[n + 1])
  <2>1. n + 1 \in 1 .. n + 1 /\ (n + 1) - 1 = n
    BY <1>1
  <2> QED BY <2>1, <1>5
<1> QED BY <1>1, <1>2, <1>3, <1>8, <1>9 DEF t

LEMMA FedReady ==
  ASSUME NEW k, NEW f, NEW r, Ready(k, f, r), NEW s \in Seq(Octet)
  PROVE  Ready(k, f, FedTo(k, f, r, s))
<1> DEFINE T == {m \in Nat : \A u \in Seq(Octet) : Len(u) = m => Ready(k, f, FedTo(k, f, r, u))}
<1>1. 0 \in T
  <2> SUFFICES ASSUME NEW u \in Seq(Octet), Len(u) = 0 PROVE Ready(k, f, FedTo(k, f, r, u))
    OBVIOUS
  <2>1. u = <<>>
    BY EmptySeq
  <2>2. Ready(k, f, Clear(r))
    BY ClearIs DEF Ready
  <2> QED BY <2>1, <2>2, FedNone
<1>2. ASSUME NEW m \in 0 .. Len(s) - 1, m \in T PROVE m + 1 \in T
  <2> SUFFICES ASSUME NEW v \in Seq(Octet), Len(v) = m + 1 PROVE Ready(k, f, FedTo(k, f, r, v))
    OBVIOUS
  <2>0. m \in Nat
    OBVIOUS
  <2> DEFINE u == SubSeq(v, 1, m)
             x == v[m + 1]
  <2>1. u \in Seq(Octet) /\ x \in Octet /\ Len(u) = m /\ v = Append(u, x)
    BY <2>0, FrontAndLast
  <2> HIDE DEF u, x
  <2>2. Ready(k, f, FedTo(k, f, r, u))
    BY <1>2, <2>1
  <2>3. FedTo(k, f, r, v) = OctetTo(k, f, FedTo(k, f, r, u), x)
    BY <2>1, FedMore
  <2> QED BY <2>1, <2>2, <2>3, OctetLike
<1> HIDE DEF T
<1>3. Len(s) \in T
  <2>1. Len(s) \in Nat
    OBVIOUS
  <2> QED BY <1>1, <1>2, <2>1, SetInduction
<1> QED BY <1>3 DEF T

(* What is found in two sequences of octets is what is found in the first, *)
(* and then in the second.                                                 *)
Joins(c, a, b) == c.out = a.out \o b.out /\ Clear(c) = Clear(b)
LEMMA FedConcat ==
  ASSUME NEW k, NEW f, NEW r, Ready(k, f, r), NEW s \in Seq(Octet), NEW t \in Seq(Octet)
  PROVE  Joins(FedTo(k, f, r, s \o t), FedTo(k, f, r, s), FedTo(k, f, Clear(FedTo(k, f, r, s)), t))
<1> DEFINE a == FedTo(k, f, r, s)
           B(u) == FedTo(k, f, Clear(a), u)
           C(u) == FedTo(k, f, r, s \o u)
           Good(u) == C(u).out = a.out \o B(u).out /\ Clear(C(u)) = Clear(B(u))
           T == {m \in Nat : \A u \in Seq(Octet) : Len(u) = m => Good(u)}
<1>a. a \in Receivers /\ Clear(a) \in Receivers /\ Ready(k, f, Clear(a)) /\ Clear(Clear(a)) = Clear(a)
  <2>1. Ready(k, f, a)
    BY FedReady
  <2>2. a \in Receivers
    BY <2>1 DEF Ready
  <2> HIDE DEF a
  <2> QED BY <2>1, <2>2, ClearIs DEF Ready
<1>1. 0 \in T
  <2> SUFFICES ASSUME NEW u \in Seq(Octet), Len(u) = 0 PROVE Good(u)
    OBVIOUS
  <2>1. u = <<>>
    BY EmptySeq
  <2>2. s \o <<>> = s
    BY ConcatEmptySeq
  <2>3. B(<<>>) = Clear(a)
    BY <1>a, FedNone
  <2>4. C(<<>>) = a
    BY <2>2
  <2> HIDE DEF a, B, C
  <2>5. a.out \o <<>> = a.out
    BY <1>a DEF Receivers
  <2>6. Clear(a).out = <<>>
    BY <1>a, ClearIs
  <2> QED BY <2>1, <2>3, <2>4, <2>5, <2>6, <1>a
<1>2. ASSUME NEW m \in 0 .. Len(t) - 1, m \in T PROVE m + 1 \in T
  <2> SUFFICES ASSUME NEW v \in Seq(Octet), Len(v) = m + 1 PROVE Good(v)
    <3> HIDE DEF Good
    <3> QED OBVIOUS
  <2>0. m \in Nat
    OBVIOUS
  <2> DEFINE u == SubSeq(v, 1, m)
             x == v[m + 1]
  <2>1. u \in Seq(Octet) /\ x \in Octet /\ Len(u) = m /\ v = Append(u, x)
    BY <2>0, FrontAndLast
  <2> HIDE DEF u, x
  <2>2. Good(u)
    BY <1>2, <2>1
  <2>3. s \o v = Append(s \o u, x) /\ s \o u \in Seq(Octet)
    BY <2>1, ConcatAppended
  <2>4. C(v) = OctetTo(k, f, C(u), x)
    <3> DEFINE w == s \o u
    <3>1. w \in Seq(Octet) /\ x \in Octet /\ s \o v = Append(w, x)
      BY <2>1, <2>3
    <3> HIDE DEF w
    <3>2. FedTo(k, f, r, Append(w, x)) = OctetTo(k, f, FedTo(k, f, r, w), x)
      BY <3>1, FedMore
    <3> QED BY <3>1, <3>2 DEF w
  <2>5. B(v) = OctetTo(k, f, B(u), x)
    BY <2>1, FedMore
  <2>6. Ready(k, f, C(u)) /\ Ready(k, f, B(u))
    BY <2>1, <2>3, <1>a, FedReady
  <2> HIDE DEF C, B, a
  <2>7. Like(C(u), C(v), OctetTo(k, f, Clear(C(u)), x)) /\ Like(B(u), B(v), OctetTo(k, f, Clear(B(u)), x))
    BY <2>1, <2>4, <2>5, <2>6, OctetLike
  <2> DEFINE e == OctetTo(k, f, Clear(C(u)), x)
  <2>8. Clear(C(u)) = Clear(B(u))
    BY <2>2
  <2>9. Like(C(u), C(v), e) /\ Like(B(u), B(v), e)
    BY <2>7, <2>8
  <2> HIDE DEF e
  <2>10. C(v).out = C(u).out \o e.out /\ B(v).out = B(u).out \o e.out /\ Clear(C(v)) = Clear(B(v))
    BY <2>9 DEF Like
  <2>11. C(u).out = a.out \o B(u).out
    BY <2>2
  <2>12. (a.out \o B(u).out) \o e.out = a.out \o (B(u).out \o e.out)
    <3>0. Ready(k, f, e)
      <4>1. Ready(k, f, Clear(B(u)))
        BY <2>6, ClearIs DEF Ready
      <4> QED BY <4>1, <2>8, <2>1, OctetLike DEF e
    <3>1. a.out \in Seq(FrameRecords) /\ B(u).out \in Seq(FrameRecords) /\ e.out \in Seq(FrameRecords)
      BY <1>a, <2>6, <3>0 DEF Receivers, Ready
    <3> DEFINE p == a.out
               q == B(u).out
               l == e.out
    <3>2. p \in Seq(FrameRecords) /\ q \in Seq(FrameRecords) /\ l \in Seq(FrameRecords)
      BY <3>1
    <3> HIDE DEF p, q, l
    <3>3. (p \o q) \o l = p \o (q \o l)
      BY <3>2, Associates
    <3> QED BY <3>3 DEF p, q, l
  <2> QED BY <2>10, <2>11, <2>12
<1> HIDE DEF T
<1>3. Len(t) \in T
  <2>1. Len(t) \in Nat
    OBVIOUS
  <2> QED BY <1>1, <1>2, <2>1, SetInduction
<1> QED BY <1>3 DEF T, Joins

(***************************************************************************)
(* A frame, octet by octet                                                 *)
(***************************************************************************)
LEMMA FrontMore ==
  ASSUME NEW Items, NEW s \in Seq(Items), NEW i \in Nat, i + 1 <= Len(s)
  PROVE  /\ SubSeq(s, 1, i) \in Seq(Items) /\ Len(SubSeq(s, 1, i)) = i /\ s[i + 1] \in Items
         /\ \A j \in 1 .. i : SubSeq(s, 1, i)[j] = s[j]
         /\ Append(SubSeq(s, 1, i), s[i + 1]) = SubSeq(s, 1, i + 1)
<1>1. /\ SubSeq(s, 1, i) \in Seq(Items) /\ Len(SubSeq(s, 1, i)) = i /\ s[i + 1] \in Items
      /\ \A j \in 1 .. i : SubSeq(s, 1, i)[j] = s[j]
  OBVIOUS
<1> DEFINE t == SubSeq(s, 1, i + 1)
<1>2. t \in Seq(Items) /\ Len(t) = i + 1 /\ \A j \in 1 .. i + 1 : t[j] = s[j]
  OBVIOUS
<1> DEFINE u == SubSeq(s, 1, i)
           v == Append(u, s[i + 1])
<1>3. v \in Seq(Items) /\ Len(v) = i + 1 /\ v[i + 1] = s[i + 1] /\ \A j \in 1 .. i : v[j] = u[j]
  <2>1. u \in Seq(Items) /\ Len(u) = i /\ s[i + 1] \in Items
    BY <1>1
  <2> HIDE DEF u
  <2> QED BY <2>1
<1>4. \A j \in 1 .. i : u[j] = s[j]
  BY <1>1
<1> HIDE DEF t, u, v
<1>5. \A j \in 1 .. i + 1 : v[j] = t[j]
  <2> TAKE j \in 1 .. i + 1
  <2>1. j \in 1 .. i \/ j = i + 1
    OBVIOUS
  <2> QED BY <2>1, <1>2, <1>3, <1>4
<1>6. v = t
  BY <1>2, <1>3, <1>5, SeqEqual, Zenon
<1> QED BY <1>1, <1>6 DEF u, v, t

LEMMA WholeFront ==
  ASSUME NEW Items, NEW s \in Seq(Items)
  PROVE  SubSeq(s, 1, Len(s)) = s /\ SubSeq(s, 1, 0) = <<>>
  OBVIOUS

Partial(b, l, n) == [buffer |-> b, length |-> l, counter |-> n, out |-> <<>>]

(* What a receiver does with a frame that can be held: it finds it, unless *)
(* the checksum is wrong, and then is as it was before.                    *)
LEMMA SxiFinds ==
  ASSUME NEW f, Widths(f), NEW o \in Seq(Octet), NEW m \in Nat, Number(o, 1, f.len) = m,
         Len(o) = SxiSize(f, m), Len(o) <= SxiBuffer
  PROVE  LET x == FedTo("sxi", f, Empty, o)
             n == Number(o, f.len + 1, f.ctr)
         IN  /\ Clear(x) = Empty
             /\ SxiSum(f, o) => x.out = <<Frame(n, SubSeq(o, HeaderSize(f) + 1, HeaderSize(f) + m))>>
             /\ ~SxiSum(f, o) => x.out = <<>>
<1> DEFINE l == Len(o)
           h == HeaderSize(f)
           X(i) == FedTo("sxi", f, Empty, SubSeq(o, 1, i))
           T == {i \in Nat : i < l => X(i) = Partial(SubSeq(o, 1, i), -1, 0)}
<1>0. /\ l \in Nat /\ h \in Nat /\ f.len \in Nat /\ f.len <= h /\ 1 <= f.len /\ f.len \in {0, 1, 2}
      /\ h + m <= l /\ 1 <= l /\ SxiBuffer \in Nat
  <2>1. f.len \in {1, 2} /\ f.ctr \in {0, 1, 2} /\ f.fill \in {0, 1, 2} /\ f.tail \in {0, 1, 2}
    BY DEF Widths
  <2>2. WordFill(f, m) \in Nat
    BY <2>1 DEF WordFill, HeaderSize
  <2>3. h \in Nat /\ f.len <= h
    BY <2>1 DEF HeaderSize
  <2>4. l = h + m + WordFill(f, m) + f.tail /\ l \in Nat
    BY DEF SxiSize
  <2> HIDE DEF l, h
  <2>5. h + m <= l /\ 1 <= l
    BY <2>1, <2>2, <2>3, <2>4
  <2> QED BY <2>1, <2>3, <2>4, <2>5, OctetsAre
<1>1. 0 \in T
  <2>1. SubSeq(o, 1, 0) = <<>>
    BY WholeFront
  <2>2. X(0) = Empty
    <3>1. FedTo("sxi", f, Empty, <<>>) = Empty
      BY ONLY FedNone, EmptyReceiver
    <3> QED BY ONLY <2>1, <3>1
  <2>3. Partial(<<>>, -1, 0) = Empty
    BY DEF Partial, Empty
  <2> QED BY <2>1, <2>2, <2>3
(* The octet at i + 1.                                                     *)
<1> DEFINE b(i) == SubSeq(o, 1, i + 1)
<1>2. ASSUME NEW i \in 0 .. l - 1, X(i) = Partial(SubSeq(o, 1, i), -1, 0)
      PROVE  /\ i + 1 < l => X(i + 1) = Partial(b(i), -1, 0)
             /\ i + 1 = l => /\ SxiSum(f, o) =>
                                  X(i + 1) = Emits(Partial(SubSeq(o, 1, i), -1, 0),
                                               Frame(Number(o, f.len + 1, f.ctr), SubSeq(o, h + 1, h + m)))
                             /\ ~SxiSum(f, o) => X(i + 1) = Empty
  <2>0. i \in Nat /\ i + 1 <= Len(o)
    BY <1>0
  <2> DEFINE u == SubSeq(o, 1, i)
             q == Partial(u, -1, 0)
             y == o[i + 1]
  <2>1. u \in Seq(Octet) /\ Len(u) = i /\ y \in Octet /\ Append(u, y) = b(i)
    BY <2>0, FrontMore
  <2>2. b(i) \in Seq(Octet) /\ Len(b(i)) = i + 1 /\ \A j \in 1 .. i + 1 : b(i)[j] = o[j]
    <3>1. i + 1 \in Nat
      BY <2>0
    <3> QED BY <2>0, <3>1, FrontIs
  <2>3. X(i + 1) = SxiOctet(f, q, y)
    <3>1. FedTo("sxi", f, Empty, Append(u, y)) = OctetTo("sxi", f, FedTo("sxi", f, Empty, u), y)
      <4> HIDE DEF u, y
      <4>1. u \in Seq(Octet) /\ y \in Octet
        BY <2>1
      <4> QED BY ONLY <4>1, FedMore
    <3>2. FedTo("sxi", f, Empty, u) = q
      BY <1>2
    <3> HIDE DEF u, y, q
    <3> QED BY <3>1, <3>2, <2>1 DEF OctetTo
  <2>4. i + 1 >= h => SxiLength(f, b(i)) = m
    <3> SUFFICES ASSUME i + 1 >= h PROVE Number(b(i), 1, f.len) = m
      BY DEF SxiLength
    <3>1. \A j \in 0 .. f.len - 1 : b(i)[1 + j] = o[1 + j]
      BY <1>0, <2>0, <2>2
    <3> DEFINE e == b(i)
    <3>2. Alike(e, 1, o, 1, f.len)
      BY <3>1 DEF Alike
    <3> HIDE DEF e
    <3>3. Number(e, 1, f.len) = Number(o, 1, f.len)
      BY <3>2, <1>0, NumberOf
    <3> QED BY <3>3 DEF e
  <2>5. q.buffer = u /\ q.out = <<>> /\ ~(Len(u) >= SxiBuffer) /\ ~(Len(q.buffer) >= SxiBuffer)
    BY <1>0, <2>0, <2>1 DEF Partial
  <2>6. [Empty EXCEPT !.out = q.out] = Empty
    BY <2>5, EmptyReceiver DEF Clear
  <2>7. \A c : [q EXCEPT !.buffer = c] = Partial(c, -1, 0)
    BY DEF Partial
  <2> DEFINE c == b(i)
  <2>8. SxiOctet(f, q, y) =
          IF Len(c) < h \/ Len(c) < SxiSize(f, SxiLength(f, c)) THEN [q EXCEPT !.buffer = c]
          ELSE IF SxiSum(f, c)
            THEN Emits(q, Frame(Number(c, f.len + 1, f.ctr), SubSeq(c, h + 1, h + SxiLength(f, c))))
            ELSE Empty
    <3> HIDE DEF c, q, u, y, h
    <3>1. Append(q.buffer, y) = c
      BY <2>1, <2>5 DEF c
    <3> QED BY <3>1, <2>5, <2>6 DEF SxiOctet, h
  <2>9. Len(c) = i + 1
    BY <2>2
  <2>10. ASSUME i + 1 < l PROVE X(i + 1) = Partial(c, -1, 0)
    <3>1. Len(c) < h \/ Len(c) < SxiSize(f, SxiLength(f, c))
      <4>1. CASE i + 1 < h
        BY <4>1, <2>9
      <4>2. CASE ~(i + 1 < h)
        <5>1. SxiSize(f, SxiLength(f, c)) = l
          BY <4>2, <2>4, <1>0, <2>0
        <5> QED BY <5>1, <2>9, <2>10
      <4> QED BY <4>1, <4>2
    <3> HIDE DEF c, q, X
    <3> QED BY <3>1, <2>3, <2>7, <2>8
  <2>11. ASSUME i + 1 = l
         PROVE  /\ SxiSum(f, o) => X(i + 1) = Emits(q, Frame(Number(o, f.len + 1, f.ctr), SubSeq(o, h + 1, h + m)))
                /\ ~SxiSum(f, o) => X(i + 1) = Empty
    <3>1. c = o
      BY <2>11, WholeFront
    <3>2. SxiLength(f, c) = m /\ SxiSize(f, SxiLength(f, c)) = l
      BY <2>4, <2>11, <1>0
    <3>3. ~(Len(c) < h \/ Len(c) < SxiSize(f, SxiLength(f, c)))
      BY <3>2, <2>9, <2>11, <1>0
    <3> HIDE DEF c, q, X, h
    <3> QED BY <3>1, <3>2, <3>3, <2>3, <2>8
  <2> QED BY <2>10, <2>11
<1>3. ASSUME NEW i \in 0 .. l - 1, i \in T PROVE i + 1 \in T
  <2>1. X(i) = Partial(SubSeq(o, 1, i), -1, 0)
    BY <1>3, <1>0
  <2>2. i + 1 < l => X(i + 1) = Partial(SubSeq(o, 1, i + 1), -1, 0)
    BY <2>1, <1>2
  <2> HIDE DEF X
  <2> QED BY <2>2, <1>0
<1> DEFINE i == l - 1
<1>4. i \in T /\ i \in 0 .. l - 1 /\ i + 1 = l
  <2>1. i \in Nat /\ i \in 0 .. l - 1 /\ i + 1 = l /\ \A j \in 0 .. i - 1 : j \in 0 .. l - 1
    BY <1>0
  <2> HIDE DEF T, i, l
  <2>2. i \in T
    BY <2>1, <1>1, <1>3, SetInduction
  <2> QED BY <2>1, <2>2
<1>5. X(i) = Partial(SubSeq(o, 1, i), -1, 0)
  <2>1. i \in Nat /\ i < l
    BY <1>0
  <2> HIDE DEF X, i, l
  <2> QED BY <1>4, <2>1
<1>6. X(l) = FedTo("sxi", f, Empty, o)
  BY WholeFront
<1> DEFINE q == Partial(SubSeq(o, 1, i), -1, 0)
           w == Frame(Number(o, f.len + 1, f.ctr), SubSeq(o, h + 1, h + m))
<1>7. /\ SxiSum(f, o) => X(l) = Emits(q, w)
      /\ ~SxiSum(f, o) => X(l) = Empty
  <2> HIDE DEF i, l, X, h
  <2> QED BY <1>2, <1>4, <1>5
<1>8. Emits(q, w).out = <<w>> /\ Clear(Emits(q, w)) = Empty
  <2>1. Append(<<>>, w) = <<w>> /\ q.out = <<>>
    BY DEF Partial
  <2> HIDE DEF w, q
  <2>2. Emits(q, w) = [Empty EXCEPT !.out = <<w>>]
    BY <2>1 DEF Emits
  <2>3. \A e : [Empty EXCEPT !.out = e] = [buffer |-> <<>>, length |-> -1, counter |-> 0, out |-> e]
    BY DEF Empty
  <2>4. \A e : [[buffer |-> <<>>, length |-> -1, counter |-> 0, out |-> e] EXCEPT !.out = <<>>] = Empty
    BY DEF Empty
  <2> QED BY <2>2, <2>3, <2>4 DEF Clear
<1> HIDE DEF X, q, l, i
<1> QED BY <1>6, <1>7, <1>8, EmptyReceiver DEF w, h

LEMMA HeaderOctet ==
  ASSUME NEW k \in {"tcp", "udp", "usb"}, NEW f, k # "usb" => f = EthFormat, Widths(f), NEW b \in Seq(Octet), NEW x \in Octet,
         Len(Append(b, x)) >= HeaderSize(f) => Number(Append(b, x), 1, f.len) # 0
  PROVE  OctetTo(k, f, Partial(b, -1, 0), x) =
           IF Len(Append(b, x)) < HeaderSize(f) THEN Partial(Append(b, x), -1, 0)
           ELSE Partial(<<>>, Number(Append(b, x), 1, f.len), Number(Append(b, x), f.len + 1, f.ctr))
<1> DEFINE r == Partial(b, -1, 0)
           c == Append(b, x)
<1>1. r.buffer = b /\ r.length = -1 /\ r.out = <<>>
  BY DEF Partial
<1>2. /\ \A u : [r EXCEPT !.buffer = u] = Partial(u, -1, 0)
      /\ \A u, l, n : [r EXCEPT !.buffer = u, !.length = l, !.counter = n] = Partial(u, l, n)
  <2>1. \A u : [r EXCEPT !.buffer = u] = Partial(u, -1, 0)
    BY DEF Partial
  <2>2. \A u, l, n : [r EXCEPT !.buffer = u, !.length = l, !.counter = n] = Partial(u, l, n)
    <3> SUFFICES ASSUME NEW u, NEW l, NEW n
                 PROVE  [r EXCEPT !.buffer = u, !.length = l, !.counter = n] = Partial(u, l, n)
      OBVIOUS
    <3>1. [r EXCEPT !.buffer = u] = Partial(u, -1, 0)
      BY <2>1
    <3>2. [Partial(u, -1, 0) EXCEPT !.length = l] = Partial(u, l, 0)
      BY DEF Partial
    <3>3. [Partial(u, l, 0) EXCEPT !.counter = n] = Partial(u, l, n)
      BY DEF Partial
    <3> HIDE DEF r
    <3> QED BY <3>1, <3>2, <3>3
  <2> QED BY <2>1, <2>2
<1> HIDE DEF r
<1>0. Len(c) \in Nat /\ HeaderSize(f) \in Nat
  BY DEF HeaderSize, Widths
<1>3. CASE k = "usb"
  <2> HIDE DEF c
  <2>1. Append(r.buffer, x) = c
    BY <1>1 DEF c
  <2>2. UsbOctet(f, r, x) = IF Len(c) < HeaderSize(f) THEN [r EXCEPT !.buffer = c]
          ELSE IF Number(c, 1, f.len) = 0 THEN Emits(r, Frame(Number(c, f.len + 1, f.ctr), <<>>))
          ELSE [r EXCEPT !.buffer = <<>>, !.length = Number(c, 1, f.len), !.counter = Number(c, f.len + 1, f.ctr)]
    BY <1>1, <2>1 DEF UsbOctet
  <2>3. ~(Len(c) < HeaderSize(f)) => Number(c, 1, f.len) # 0
    BY <1>0 DEF c
  <2>4. OctetTo(k, f, r, x) = UsbOctet(f, r, x)
    BY <1>3 DEF OctetTo
  <2>5. OctetTo(k, f, r, x) =
           IF Len(c) < HeaderSize(f) THEN Partial(c, -1, 0)
           ELSE Partial(<<>>, Number(c, 1, f.len), Number(c, f.len + 1, f.ctr))
    BY <2>2, <2>3, <2>4, <1>2
  <2> QED BY <2>5 DEF c, r
<1>4. CASE k # "usb"
  <2>1. HeaderSize(f) = 4 /\ f.len = 2 /\ f.ctr = 2 /\ f.len + 1 = 3
    BY <1>4 DEF EthFormat, Format, HeaderSize
  <2>3. ~(Len(c) < 4) => Number(c, 1, 2) # 0
    BY <2>1, <1>0
  <2> HIDE DEF c
  <2>4. Append(r.buffer, x) = c
    BY <1>1 DEF c
  <2>2. EthOctet(r, x) = IF Len(c) < 4 THEN [r EXCEPT !.buffer = c]
          ELSE IF Number(c, 1, 2) = 0 THEN [Empty EXCEPT !.out = r.out]
          ELSE [r EXCEPT !.buffer = <<>>, !.length = Number(c, 1, 2), !.counter = Number(c, 3, 2)]
    BY <1>1, <2>4 DEF EthOctet
  <2>5. OctetTo(k, f, r, x) = EthOctet(r, x)
    BY <1>4 DEF OctetTo
  <2>6. OctetTo(k, f, r, x) =
           IF Len(c) < HeaderSize(f) THEN Partial(c, -1, 0)
           ELSE Partial(<<>>, Number(c, 1, f.len), Number(c, f.len + 1, f.ctr))
    BY <2>1, <2>2, <2>3, <2>5, <1>2
  <2> QED BY <2>6 DEF c, r
<1> QED BY <1>3, <1>4

Bodied(c, l, n) ==
  IF Len(c) < l THEN Partial(c, l, n) ELSE [Empty EXCEPT !.out = <<Frame(n, c)>>]
LEMMA BodyOctet ==
  ASSUME NEW k \in {"tcp", "udp", "usb"}, NEW f, NEW b, NEW x, NEW l \in Nat, NEW n
  PROVE  OctetTo(k, f, Partial(b, l, n), x) = Bodied(Append(b, x), l, n)
<1> DEFINE r == Partial(b, l, n)
           c == Append(b, x)
<1>1. r.buffer = b /\ r.length = l /\ r.out = <<>> /\ r.counter = n /\ l # -1
  BY DEF Partial
<1>2. \A u : [r EXCEPT !.buffer = u] = Partial(u, l, n)
  BY DEF Partial
<1> HIDE DEF r
<1>3. Append(r.buffer, x) = c
  BY <1>1
<1> HIDE DEF c
<1>4. Emits(r, Frame(r.counter, c)) = [Empty EXCEPT !.out = <<Frame(n, c)>>]
  <2>1. \A e : Append(<<>>, e) = <<e>>
    OBVIOUS
  <2> QED BY <1>1, <2>1 DEF Emits
<1>5. OctetTo(k, f, r, x) =
        IF Len(c) < l THEN [r EXCEPT !.buffer = c] ELSE Emits(r, Frame(r.counter, c))
  <2>1. CASE k = "usb"
    <3>1. OctetTo(k, f, r, x) = UsbOctet(f, r, x)
      BY <2>1 DEF OctetTo
    <3> QED BY <3>1, <1>1, <1>3 DEF UsbOctet
  <2>2. CASE k # "usb"
    <3>1. OctetTo(k, f, r, x) = EthOctet(r, x)
      BY <2>2 DEF OctetTo
    <3> QED BY <3>1, <1>1, <1>3 DEF EthOctet
  <2> QED BY <2>1, <2>2
<1>6. OctetTo(k, f, r, x) =
        IF Len(c) < l THEN Partial(c, l, n) ELSE [Empty EXCEPT !.out = <<Frame(n, c)>>]
  BY <1>2, <1>4, <1>5
<1> QED BY <1>6 DEF c, r, Bodied

LEMMA FoundClear ==
  ASSUME NEW w
  PROVE  [Empty EXCEPT !.out = <<w>>].out = <<w>> /\ Clear([Empty EXCEPT !.out = <<w>>]) = Empty
<1>1. \A e : [Empty EXCEPT !.out = e] = [buffer |-> <<>>, length |-> -1, counter |-> 0, out |-> e]
  BY DEF Empty
<1>2. \A e : [[buffer |-> <<>>, length |-> -1, counter |-> 0, out |-> e] EXCEPT !.out = <<>>] = Empty
  BY DEF Empty
<1> QED BY <1>1, <1>2 DEF Clear

LEMMA HeaderCopied ==
  ASSUME NEW f, Widths(f), NEW o, NEW c \in Seq(Octet), Len(c) >= HeaderSize(f),
         \A j \in 1 .. Len(c) : c[j] = o[j]
  PROVE  /\ Number(c, 1, f.len) = Number(o, 1, f.len)
         /\ Number(c, f.len + 1, f.ctr) = Number(o, f.len + 1, f.ctr)
<1>1. /\ f.len \in {0, 1, 2} /\ f.ctr \in {0, 1, 2} /\ f.len \in Nat /\ f.ctr \in Nat
      /\ f.len + f.ctr <= HeaderSize(f) /\ HeaderSize(f) \in Nat
  BY DEF Widths, HeaderSize
<1>2. \E a, e, n, h \in Nat : a = f.len /\ e = f.ctr /\ n = Len(c) /\ h = HeaderSize(f)
  BY <1>1
<1>3. PICK a \in Nat, e \in Nat, n \in Nat, h \in Nat :
        a = f.len /\ e = f.ctr /\ n = Len(c) /\ h = HeaderSize(f)
  BY <1>2
<1>4. n >= h /\ a + e <= h /\ \A j \in 1 .. n : c[j] = o[j]
  BY <1>1, <1>3
<1>5. Alike(c, 1, o, 1, a)
  <2> SUFFICES ASSUME NEW j \in 0 .. a - 1 PROVE c[1 + j] = o[1 + j]
    BY DEF Alike
  <2>1. 1 + j \in 1 .. n
    BY ONLY <1>4, a \in Nat, e \in Nat, n \in Nat, h \in Nat, j \in 0 .. a - 1
  <2> QED BY <2>1, <1>4
<1>6. Alike(c, a + 1, o, a + 1, e)
  <2> SUFFICES ASSUME NEW j \in 0 .. e - 1 PROVE c[(a + 1) + j] = o[(a + 1) + j]
    BY DEF Alike
  <2>1. (a + 1) + j \in 1 .. n
    BY ONLY <1>4, a \in Nat, e \in Nat, n \in Nat, h \in Nat, j \in 0 .. e - 1
  <2> QED BY <2>1, <1>4
<1>7. a \in {0, 1, 2} /\ e \in {0, 1, 2} /\ a + 1 \in Nat \ {0}
  BY <1>1, <1>3
<1>9. Number(c, 1, a) = Number(o, 1, a)
  BY <1>5, <1>7, NumberOf
<1>10. Number(c, a + 1, e) = Number(o, a + 1, e)
  BY <1>6, <1>7, NumberOf
<1> QED BY <1>3, <1>9, <1>10

(* The receivers without checksums find every frame.                       *)
Carries(o, h, p) == \A j \in 1 .. Len(p) : o[h + j] = p[j]
LEMMA PacketFound ==
  ASSUME NEW k \in {"tcp", "udp", "usb"}, NEW f, Widths(f), k # "usb" => f = EthFormat,
         NEW o \in Seq(Octet), NEW p \in Seq(Octet), p # <<>>,
         Number(o, 1, f.len) = Len(p), Len(o) = HeaderSize(f) + Len(p),
         Carries(o, HeaderSize(f), p)
  PROVE  LET x == FedTo(k, f, Empty, o)
         IN  Clear(x) = Empty /\ x.out = <<Frame(Number(o, f.len + 1, f.ctr), p)>>
<1>b. \A b, x, w : \A j \in Nat :
        OctetTo(k, f, Partial(b, j, w), x) = Bodied(Append(b, x), j, w)
  <2> TAKE b, x, w
  <2> TAKE j \in Nat
  <2> QED BY BodyOctet
<1> DEFINE l == Len(o)
           m == Len(p)
           h == HeaderSize(f)
           n == Number(o, f.len + 1, f.ctr)
           X(i) == FedTo(k, f, Empty, SubSeq(o, 1, i))
           Y(i) == IF i < h THEN Partial(SubSeq(o, 1, i), -1, 0)
                   ELSE IF i < l THEN Partial(SubSeq(p, 1, i - h), m, n)
                   ELSE [Empty EXCEPT !.out = <<Frame(n, p)>>]
           T == {i \in Nat : X(i) = Y(i)}
<1>0. /\ l \in Nat /\ h \in Nat /\ m \in Nat \ {0} /\ f.len \in Nat /\ f.ctr \in Nat /\ f.len + f.ctr <= h
      /\ 1 <= f.len /\ f.len \in {0, 1, 2} /\ f.ctr \in {0, 1, 2} /\ l = h + m
  <2> DEFINE x == f.len
             y == f.ctr
             z == f.fill
  <2>1. x \in {1, 2} /\ y \in {0, 1, 2} /\ z \in {0, 1, 2}
    BY DEF Widths
  <2>2. h = x + y + z /\ l = h + m
    BY DEF HeaderSize
  <2>3. m \in Nat \ {0}
    OBVIOUS
  <2> HIDE DEF x, y, z, l, h, m
  <2>4. /\ l \in Nat /\ h \in Nat /\ x \in Nat /\ y \in Nat /\ x + y <= h
        /\ 1 <= x /\ x \in {0, 1, 2}
    BY ONLY <2>1, <2>2, <2>3
  <2> QED BY <2>1, <2>2, <2>3, <2>4 DEF x, y
<1>1. 0 \in T
  <2>1. SubSeq(o, 1, 0) = <<>>
    BY WholeFront
  <2>2. X(0) = Empty
    <3>1. FedTo(k, f, Empty, <<>>) = Empty
      BY ONLY FedNone, EmptyReceiver
    <3> QED BY ONLY <2>1, <3>1
  <2>3. Partial(<<>>, -1, 0) = Empty
    BY DEF Partial, Empty
  <2>4. 0 < h
    BY <1>0
  <2>5. Y(0) = Empty
    BY <2>1, <2>3, <2>4
  <2> HIDE DEF X, Y
  <2> QED BY <2>2, <2>5
<1>2. ASSUME NEW i \in 0 .. l - 1, i \in T PROVE i + 1 \in T
  <2>0. i \in Nat /\ i + 1 <= Len(o) /\ X(i) = Y(i)
    BY <1>0, <1>2
  <2> DEFINE u == SubSeq(o, 1, i)
             y == o[i + 1]
             c == SubSeq(o, 1, i + 1)
  <2>1. u \in Seq(Octet) /\ Len(u) = i /\ y \in Octet /\ Append(u, y) = c
    BY <2>0, FrontMore
  <2>2. c \in Seq(Octet) /\ Len(c) = i + 1 /\ \A j \in 1 .. i + 1 : c[j] = o[j]
    <3>1. i + 1 \in Nat
      BY <2>0
    <3> QED BY <2>0, <3>1, FrontIs
  <2>3. X(i + 1) = OctetTo(k, f, Y(i), y)
    <3>1. FedTo(k, f, Empty, Append(u, y)) = OctetTo(k, f, FedTo(k, f, Empty, u), y)
      <4> HIDE DEF u, y
      <4>1. u \in Seq(Octet) /\ y \in Octet
        BY <2>1
      <4> QED BY ONLY <4>1, FedMore
    <3>2. X(i + 1) = FedTo(k, f, Empty, c) /\ X(i) = FedTo(k, f, Empty, u)
      OBVIOUS
    <3> HIDE DEF u, y, c, X, Y
    <3> QED BY <3>1, <3>2, <2>0, <2>1
  <2> HIDE DEF X
  <2>n. i + 1 \in Nat /\ (i + 1 \in Nat => (X(i + 1) = Y(i + 1) => i + 1 \in T))
    BY <2>0
  <2> SUFFICES OctetTo(k, f, Y(i), y) = Y(i + 1)
    <3> HIDE DEF T, Y
    <3> QED BY <2>n, <2>3
  <2>4. CASE i < h
    <3>1. Y(i) = Partial(u, -1, 0)
      BY <2>4
    <3>2. i + 1 >= h => Number(c, 1, f.len) = m /\ Number(c, f.len + 1, f.ctr) = n
      <4> SUFFICES ASSUME i + 1 >= h PROVE Number(c, 1, f.len) = m /\ Number(c, f.len + 1, f.ctr) = n
        OBVIOUS
      <4>1. Len(c) >= h /\ \A j \in 1 .. Len(c) : c[j] = o[j]
        BY <2>2
      <4> HIDE DEF c
      <4> QED BY <4>1, <2>2, HeaderCopied
    <3>3. Len(c) >= h => Number(c, 1, f.len) # 0
      BY <3>2, <2>2, <1>0
    <3>4. OctetTo(k, f, Partial(u, -1, 0), y) =
            IF Len(c) < h THEN Partial(c, -1, 0)
            ELSE Partial(<<>>, Number(c, 1, f.len), Number(c, f.len + 1, f.ctr))
      <4>1. Len(Append(u, y)) >= h => Number(Append(u, y), 1, f.len) # 0
        BY <3>3, <2>1
      <4> HIDE DEF u, y, c
      <4>2. OctetTo(k, f, Partial(u, -1, 0), y) =
           IF Len(Append(u, y)) < HeaderSize(f) THEN Partial(Append(u, y), -1, 0)
           ELSE Partial(<<>>, Number(Append(u, y), 1, f.len), Number(Append(u, y), f.len + 1, f.ctr))
        <5>1. u \in Seq(Octet) /\ y \in Octet
          BY <2>1
        <5> QED BY <5>1, <4>1, HeaderOctet
      <4>3. Append(u, y) = c
        BY <2>1
      <4> QED BY ONLY <4>2, <4>3
    <3>5. CASE i + 1 < h
      <4>1. Y(i + 1) = Partial(c, -1, 0)
        BY <3>5
      <4> HIDE DEF u, y, c, Y
      <4> QED BY <4>1, <3>1, <3>4, <3>5, <2>2
    <3>6. CASE ~(i + 1 < h)
      <4>0. i + 1 = h /\ h - h = 0 /\ h < l
        BY <2>4, <3>6, <2>0, <1>0
      <4>1. SubSeq(p, 1, 0) = <<>>
        BY WholeFront
      <4>2. Y(i + 1) = Partial(<<>>, m, n)
        <5>1. ~(i + 1 < h) /\ i + 1 < l /\ (i + 1) - h = 0
          BY <4>0, <3>6
        <5>2. Y(i + 1) = Partial(SubSeq(p, 1, (i + 1) - h), m, n)
          BY <5>1
        <5> QED BY <5>1, <5>2, <4>1
      <4>3. ~(Len(c) < h) /\ Len(c) >= h
        <5>1. Len(c) = i + 1
          BY <2>2
        <5> HIDE DEF c, h
        <5> QED BY <5>1, <4>0, <1>0
      <4>4. Number(c, 1, f.len) = m /\ Number(c, f.len + 1, f.ctr) = n
        BY <3>2, <4>0, <1>0
      <4> HIDE DEF u, y, c, Y, m, n, h
      <4> QED BY <4>2, <4>3, <4>4, <3>1, <3>4
    <3> QED BY <3>5, <3>6
  <2>5. CASE ~(i < h)
    <3> DEFINE e == i - h
               a == SubSeq(p, 1, e)
               d == SubSeq(p, 1, e + 1)
    <3>0. e \in Nat /\ e + 1 <= Len(p) /\ i < l /\ (i + 1) - h = e + 1 /\ ~(i + 1 < h)
      <4>1. l \in Nat /\ h \in Nat /\ l = h + Len(p) /\ Len(p) \in Nat
        BY <1>0
      <4> HIDE DEF l, h
      <4> QED BY ONLY <4>1, <2>0, <2>5
    <3>1. Y(i) = Partial(a, m, n)
      BY <2>5, <3>0
    <3>2. a \in Seq(Octet) /\ Len(a) = e /\ Append(a, p[e + 1]) = d /\ p[e + 1] = y
      <4>0. e + 1 \in 1 .. Len(p)
        BY <3>0
      <4>1. p[e + 1] = o[h + (e + 1)] /\ h + (e + 1) = i + 1
        <5>1. p[e + 1] = o[h + (e + 1)]
          <6> HIDE DEF e
          <6> QED BY <4>0 DEF Carries
        <5>2. h + (e + 1) = i + 1
          <6> HIDE DEF h
          <6> QED BY <1>0, <2>0
        <5> QED BY <5>1, <5>2
      <4> QED BY <4>1, <3>0, FrontMore
    <3>3. Len(d) = e + 1
      <4>1. e + 1 \in Nat
        BY <3>0
      <4> QED BY <4>1, <3>0, FrontIs
    <3>4. OctetTo(k, f, Partial(a, m, n), y) =
            IF Len(d) < m THEN Partial(d, m, n) ELSE [Empty EXCEPT !.out = <<Frame(n, d)>>]
      <4>1. Append(a, y) = d
        BY <3>2
      <4>2. m \in Nat
        BY <1>0
      <4> HIDE DEF a, y, d, m, n
      <4>3. OctetTo(k, f, Partial(a, m, n), y) = Bodied(Append(a, y), m, n)
        BY ONLY <4>2, <1>b
      <4> QED BY ONLY <4>1, <4>3 DEF Bodied
    <3>5. CASE i + 1 < l
      <4>1. Y(i + 1) = Partial(d, m, n)
        BY <3>0, <3>5
      <4>2. Len(d) < m
        BY <3>0, <3>3, <3>5, <1>0
      <4> HIDE DEF Y, a, d, y, m, n
      <4> QED BY <4>1, <4>2, <3>1, <3>4
    <3>6. CASE ~(i + 1 < l)
      <4>1. Y(i + 1) = [Empty EXCEPT !.out = <<Frame(n, p)>>]
        BY <3>0, <3>6
      <4>2. ~(Len(d) < m) /\ e + 1 = Len(p)
        BY <3>0, <3>3, <3>6, <1>0
      <4>3. d = p
        BY <4>2, WholeFront
      <4> HIDE DEF Y, a, d, y, m, n
      <4> QED BY <4>1, <4>2, <4>3, <3>1, <3>4
    <3> QED BY <3>5, <3>6
  <2> QED BY <2>4, <2>5
<1> HIDE DEF T
<1>3. l \in T
  BY <1>0, <1>1, <1>2, SetInduction
<1>4. X(l) = Y(l)
  BY <1>3 DEF T
<1>5. Y(l) = [Empty EXCEPT !.out = <<Frame(n, p)>>]
  BY <1>0
<1>6. X(l) = FedTo(k, f, Empty, o)
  BY WholeFront
<1> HIDE DEF X, Y
<1>7. FedTo(k, f, Empty, o) = [Empty EXCEPT !.out = <<Frame(n, p)>>]
  BY <1>4, <1>5, <1>6
<1> QED BY <1>7, FoundClear

-----------------------------------------------------------------------------
(* What is still to come from the octets on their way: a receiver finds    *)
(* the same frames however they were cut.                                  *)
Waiting == IF kind = "sxi" THEN <<>> ELSE FlattenSeq(packets)
Ahead == (Waiting \o chunk) \o FlattenSeq(line)
Coming == FedTo(kind, setup.format, receiver, Ahead)
Decoded == IF kind = "sxi" THEN found \o packets ELSE found
Taken(m) == IF Accepts(m) THEN <<PacketOf(m)>> ELSE <<>>
Takens(ms) == [i \in 1 .. Len(ms) |-> Taken(ms[i])]
PacketsOf(frames) == [i \in 1 .. Len(frames) |-> frames[i].packet]
ToCome ==
  IF kind = "can" THEN PacketsOf(found) \o FlattenSeq(Takens(line))
                  ELSE PacketsOf(Decoded \o Coming.out)

(* w is what a sequence has at the positions "keep".                       *)
Picking(idx, w, from, keep) ==
  /\ idx \in [1 .. Len(w) -> keep]
  /\ \A i, j \in 1 .. Len(w) : i < j => idx[i] < idx[j]
  /\ \A k \in keep : \E i \in 1 .. Len(w) : idx[i] = k
  /\ \A i \in 1 .. Len(w) : w[i] = from[idx[i]]
Picked(w, from, keep) == \E idx \in [1 .. Len(w) -> keep] : Picking(idx, w, from, keep)
Arrived == 1 .. Len(sent) \ lost
StreamInv ==
  ~broken => /\ kind # "can" => Clear(Coming) = Empty
             /\ Picked(heard \o ToCome, sent, Arrived)

CanMessages == {m \in Seq(Nat) \ {<<>>} : Taken(m) \in Seq(Seq(Octet))}
SlaveTypes ==
  /\ setup \in Setups
  /\ sent = SubSeq(setup.packets, 1, Len(sent)) /\ Len(sent) \in 0 .. Len(setup.packets)
  /\ lost \subseteq 1 .. Len(sent) /\ broken \in BOOLEAN
  /\ peer \in {"open", "closed"} /\ faults \in 0 .. setup.faults
  /\ line \in IF kind = "can" THEN Seq(CanMessages) ELSE Seq(Seq(Octet) \ {<<>>})
  /\ kind = "can" => ~broken
ThreadTypes ==
  /\ reader \in {"check", "read", "append"} \cup Ended
  /\ listener \in {"check", "wait", "batch"} \cup Ended
  /\ program \in {"new", "open", "finalizing", "joining", "closed", "left"}
  /\ program = "new" => reader = "none" /\ listener = "none"
  /\ kind = "can" => reader = "none"
  /\ socketOpen \in BOOLEAN /\ closeEvent \in BOOLEAN
  /\ (chunk # <<>>) = (reader = "append")
  /\ found # <<>> \/ count > 0 => listener = "batch" \/ (listener = "ended" /\ broken)
DataTypes ==
  /\ chunk \in Seq(Octet)
  /\ packets \in IF kind = "sxi" THEN Seq(FrameRecords) ELSE Seq(Seq(Octet))
  /\ kind = "can" => packets = <<>>
  /\ Ready(kind, setup.format, receiver) /\ receiver.out = <<>>
  /\ found \in Seq(FrameRecords) /\ heard \in Seq(Seq(Octet))
  /\ count \in 0 .. Len(packets)
  /\ Len(heard) = Len(fed)

(* Picked: one more at the end, and what the first that is not yet taken   *)
(* is.                                                                     *)
LEMMA PickedKept ==
  ASSUME NEW w, NEW from, NEW from2, NEW keep, Picked(w, from, keep),
         \A k \in keep : from2[k] = from[k]
  PROVE  Picked(w, from2, keep)
<1>1. PICK idx \in [1 .. Len(w) -> keep] : Picking(idx, w, from, keep)
  BY DEF Picked
<1>2. Picking(idx, w, from2, keep)
  BY <1>1 DEF Picking
<1> QED BY <1>2 DEF Picked

LEMMA PickedMore ==
  ASSUME NEW Items, NEW w \in Seq(Items), NEW from, NEW from2, NEW m \in Nat, NEW x \in Items,
         NEW keep, keep \subseteq 1 .. m, Picked(w, from, keep),
         \A k \in keep : from2[k] = from[k], from2[m + 1] = x
  PROVE  Picked(Append(w, x), from2, keep \cup {m + 1})
<1>1. PICK idx \in [1 .. Len(w) -> keep] : Picking(idx, w, from, keep)
  BY DEF Picked
<1> DEFINE l == Len(w)
           v == Append(w, x)
           new == [i \in 1 .. l + 1 |-> IF i = l + 1 THEN m + 1 ELSE idx[i]]
           all == keep \cup {m + 1}
<1>2. l \in Nat /\ Len(v) = l + 1 /\ v[l + 1] = x /\ \A i \in 1 .. l : v[i] = w[i]
  OBVIOUS
<1>3. /\ idx \in [1 .. l -> keep]
      /\ \A i, j \in 1 .. l : i < j => idx[i] < idx[j]
      /\ \A k \in keep : \E i \in 1 .. l : idx[i] = k
      /\ \A i \in 1 .. l : w[i] = from[idx[i]]
  BY <1>1 DEF Picking
<1> HIDE DEF l, v
<1>4. /\ \A i \in 1 .. l : i \in 1 .. l + 1 /\ i # l + 1 /\ i < l + 1
      /\ l + 1 \in 1 .. l + 1
      /\ \A i \in 1 .. l + 1 : i \in 1 .. l \/ i = l + 1
  BY <1>2
<1>5. new[l + 1] = m + 1 /\ \A i \in 1 .. l : new[i] = idx[i]
  BY <1>4
<1>6. new \in [1 .. l + 1 -> all]
  BY <1>3, <1>4
<1> HIDE DEF new, all
<1>7. \A i, j \in 1 .. l + 1 : i < j => new[i] < new[j]
  <2> SUFFICES ASSUME NEW i \in 1 .. l + 1, NEW j \in 1 .. l + 1, i < j PROVE new[i] < new[j]
    OBVIOUS
  <2>1. i \in 1 .. l
    BY <1>2
  <2>2. idx[i] \in 1 .. m
    BY <2>1, <1>3
  <2>3. CASE j = l + 1
    BY <2>1, <2>2, <2>3, <1>5
  <2>4. CASE j # l + 1
    BY <2>1, <2>4, <1>3, <1>4, <1>5
  <2> QED BY <2>3, <2>4
<1>8. \A k \in all : \E i \in 1 .. l + 1 : new[i] = k
  <2> SUFFICES ASSUME NEW k \in all PROVE \E i \in 1 .. l + 1 : new[i] = k
    OBVIOUS
  <2>1. CASE k = m + 1
    BY <2>1, <1>4, <1>5
  <2>2. CASE k \in keep
    BY <2>2, <1>3, <1>4, <1>5
  <2> QED BY <2>1, <2>2 DEF all
<1>9. \A i \in 1 .. l + 1 : v[i] = from2[new[i]]
  <2> SUFFICES ASSUME NEW i \in 1 .. l + 1 PROVE v[i] = from2[new[i]]
    OBVIOUS
  <2>1. CASE i = l + 1
    BY <2>1, <1>2, <1>5
  <2>2. CASE i \in 1 .. l
    <3>1. v[i] = w[i] /\ w[i] = from[idx[i]] /\ new[i] = idx[i] /\ idx[i] \in keep
      BY <2>2, <1>2, <1>3, <1>5
    <3> QED BY <3>1
  <2> QED BY <2>1, <2>2, <1>4
<1>10. Picking(new, v, from2, all)
  BY <1>2, <1>6, <1>7, <1>8, <1>9 DEF Picking
<1>11. Picked(v, from2, all)
  BY <1>2, <1>6, <1>10 DEF Picked
<1> QED BY <1>11 DEF v, all

Apart(from, keep) == \A i, j \in keep : from[i] = from[j] => i = j
Follows(n, u, from, keep) ==
  /\ \A i \in 1 .. Len(u) : u[i] # from[n]
  /\ \A k \in keep : k < n => \E i \in 1 .. Len(u) : u[i] = from[k]
LEMMA PickedNext ==
  ASSUME NEW Items, NEW u \in Seq(Items), NEW v \in Seq(Items), v # <<>>,
         NEW from, NEW keep, keep \subseteq Nat, Picked(u \o v, from, keep), Apart(from, keep)
  PROVE  \E n \in keep : from[n] = Head(v) /\ Follows(n, u, from, keep)
<1> DEFINE w == u \o v
           h == Len(u)
           l == Len(w)
<1>1. PICK idx \in [1 .. Len(w) -> keep] : Picking(idx, w, from, keep)
  BY DEF Picked
<1>2. /\ h \in Nat /\ l \in Nat /\ h + 1 <= l /\ w[h + 1] = Head(v)
      /\ \A i \in 1 .. h : w[i] = u[i]
  OBVIOUS
<1>3. /\ idx \in [1 .. l -> keep]
      /\ \A i, j \in 1 .. l : i < j => idx[i] < idx[j]
      /\ \A k \in keep : \E i \in 1 .. l : idx[i] = k
      /\ \A i \in 1 .. l : w[i] = from[idx[i]]
  BY <1>1 DEF Picking
<1> HIDE DEF h, l, w
<1>4. h + 1 \in 1 .. l /\ \A i \in 1 .. h : i \in 1 .. l /\ i < h + 1
  BY <1>2
<1>5. \E n : n = idx[h + 1]
  OBVIOUS
<1>6. PICK n : n = idx[h + 1]
  BY <1>5
<1>7. n \in keep /\ from[n] = Head(v)
  BY <1>2, <1>3, <1>4, <1>6
<1>8. \A i \in 1 .. h : u[i] # from[n]
  <2> SUFFICES ASSUME NEW i \in 1 .. h, u[i] = from[n] PROVE FALSE
    OBVIOUS
  <2>1. u[i] = from[idx[i]] /\ idx[i] \in keep /\ idx[i] < n /\ idx[i] \in Nat /\ n \in Nat
    BY <1>2, <1>3, <1>4, <1>6
  <2>2. idx[i] = n
    BY <2>1, <1>7 DEF Apart
  <2> QED BY <2>1, <2>2
<1>9. ASSUME NEW k \in keep, k < n PROVE \E i \in 1 .. h : u[i] = from[k]
  <2>1. PICK i \in 1 .. l : idx[i] = k
    BY <1>3
  <2>2. ~(h + 1 < i) /\ i # h + 1
    <3>1. k \in Nat /\ n \in Nat /\ ~(n < k) /\ n # k
      BY <1>7, <1>9
    <3> QED BY <3>1, <2>1, <1>3, <1>4, <1>6
  <2>3. i \in 1 .. h
    BY <2>2, <1>2
  <2> QED BY <2>1, <2>3, <1>2, <1>3
<1> QED BY <1>7, <1>8, <1>9 DEF h, Follows

(* The packets of frames, and what is taken of messages.                   *)
LEMMA PacketsTyped ==
  ASSUME NEW a \in Seq(FrameRecords)
  PROVE  PacketsOf(a) \in Seq(Seq(Octet)) /\ Len(PacketsOf(a)) = Len(a)
         /\ \A i \in 1 .. Len(a) : PacketsOf(a)[i] = a[i].packet
<1>1. Len(a) \in Nat /\ \A i \in 1 .. Len(a) : a[i] \in FrameRecords
  OBVIOUS
<1>2. \A i \in 1 .. Len(a) : a[i].packet \in Seq(Octet)
  BY <1>1 DEF FrameRecords
<1> QED BY <1>1, <1>2 DEF PacketsOf

LEMMA PacketsConcat ==
  ASSUME NEW a \in Seq(FrameRecords), NEW b \in Seq(FrameRecords)
  PROVE  PacketsOf(a \o b) = PacketsOf(a) \o PacketsOf(b)
<1> DEFINE c == a \o b
           l == Len(a)
           m == Len(b)
<1>1. /\ c \in Seq(FrameRecords) /\ Len(c) = l + m /\ l \in Nat /\ m \in Nat
      /\ \A i \in 1 .. l : c[i] = a[i]
      /\ \A i \in 1 .. m : c[l + i] = b[i]
  BY Joining
<1> DEFINE p == PacketsOf(a)
           q == PacketsOf(b)
           r == PacketsOf(c)
<1> HIDE DEF c
<1>2. /\ p \in Seq(Seq(Octet)) /\ Len(p) = l /\ \A i \in 1 .. l : p[i] = a[i].packet
      /\ q \in Seq(Seq(Octet)) /\ Len(q) = m /\ \A i \in 1 .. m : q[i] = b[i].packet
      /\ r \in Seq(Seq(Octet)) /\ Len(r) = l + m /\ \A i \in 1 .. l + m : r[i] = c[i].packet
  BY <1>1, PacketsTyped
<1> HIDE DEF p, q, r, l, m
<1>3. /\ p \o q \in Seq(Seq(Octet)) /\ Len(p \o q) = l + m
      /\ \A i \in 1 .. l : (p \o q)[i] = p[i]
      /\ \A i \in 1 .. m : (p \o q)[l + i] = q[i]
  <2>1. p \in Seq(Seq(Octet)) /\ q \in Seq(Seq(Octet)) /\ l = Len(p) /\ m = Len(q)
    BY <1>2
  <2> QED BY ONLY <2>1
<1>4. ASSUME NEW i \in 1 .. l + m PROVE r[i] = (p \o q)[i]
  <2>1. CASE i \in 1 .. l
    <3>1. r[i] = c[i].packet
      BY <1>2
    <3>2. c[i] = a[i] /\ p[i] = a[i].packet /\ (p \o q)[i] = p[i]
      BY <2>1, <1>1, <1>2, <1>3
    <3> QED BY <3>1, <3>2
  <2>2. CASE i \notin 1 .. l
    <3>1. \E j \in 1 .. m : i = l + j
      <4>1. i - l \in 1 .. m /\ i = l + (i - l)
        BY <2>2, <1>1
      <4> QED BY <4>1
    <3>2. PICK j \in 1 .. m : i = l + j
      BY <3>1
    <3>3. r[i] = c[i].packet /\ c[i] = b[j] /\ (p \o q)[i] = q[j] /\ q[j] = b[j].packet
      BY <3>2, <1>1, <1>2, <1>3
    <3> QED BY <3>3
  <2> QED BY <2>1, <2>2
<1>5. r = p \o q
  BY <1>2, <1>3, <1>4, SeqEqual
<1> QED BY <1>5 DEF p, q, r, c

LEMMA PacketsOne ==
  ASSUME NEW x
  PROVE  PacketsOf(<<x>>) = <<x.packet>> /\ PacketsOf(<<>>) = <<>>
<1>1. Len(<<x>>) = 1 /\ <<x>>[1] = x /\ Len(<<>>) = 0
  OBVIOUS
<1>2. PacketsOf(<<x>>) = [i \in 1 .. 1 |-> x.packet]
  BY <1>1 DEF PacketsOf
<1> QED BY <1>1, <1>2 DEF PacketsOf

LEMMA PacketsHead ==
  ASSUME NEW a \in Seq(FrameRecords), a # <<>>
  PROVE  /\ Head(a) \in FrameRecords /\ Tail(a) \in Seq(FrameRecords)
         /\ PacketsOf(a) = <<Head(a).packet>> \o PacketsOf(Tail(a))
<1>1. Head(a) \in FrameRecords /\ Tail(a) \in Seq(FrameRecords) /\ a = <<Head(a)>> \o Tail(a)
  OBVIOUS
<1>2. <<Head(a)>> \in Seq(FrameRecords)
  BY <1>1
<1>3. PacketsOf(<<Head(a)>> \o Tail(a)) = PacketsOf(<<Head(a)>>) \o PacketsOf(Tail(a))
  BY ONLY <1>1, <1>2, PacketsConcat
<1>4. PacketsOf(<<Head(a)>>) = <<Head(a).packet>>
  BY PacketsOne
<1> QED BY ONLY <1>1, <1>3, <1>4

LEMMA TakensTyped ==
  ASSUME NEW ms \in Seq(CanMessages)
  PROVE  Takens(ms) \in Seq(Seq(Seq(Octet)))
<1>1. Len(ms) \in Nat /\ \A i \in 1 .. Len(ms) : Taken(ms[i]) \in Seq(Seq(Octet))
  BY DEF CanMessages
<1> HIDE DEF Takens
<1>2. Takens(ms) = [i \in 1 .. Len(ms) |-> Taken(ms[i])]
  BY DEF Takens
<1> QED BY <1>1, <1>2

LEMMA TakensAppend ==
  ASSUME NEW ms \in Seq(CanMessages), NEW m \in CanMessages
  PROVE  /\ Append(ms, m) \in Seq(CanMessages)
         /\ Takens(Append(ms, m)) = Append(Takens(ms), Taken(m)) /\ Taken(m) \in Seq(Seq(Octet))
<1> DEFINE l == Len(ms)
           as == Append(ms, m)
           s == Takens(ms)
           t == Takens(as)
<1>1. /\ l \in Nat /\ as \in Seq(CanMessages) /\ Len(as) = l + 1 /\ as[l + 1] = m
      /\ \A i \in 1 .. l : as[i] = ms[i]
  OBVIOUS
<1>2. Taken(m) \in Seq(Seq(Octet))
  BY DEF CanMessages
<1>3. s \in Seq(Seq(Seq(Octet))) /\ t \in Seq(Seq(Seq(Octet)))
  BY <1>1, TakensTyped
<1> HIDE DEF as
<1>4. /\ Len(s) = l /\ \A i \in 1 .. l : s[i] = Taken(ms[i])
      /\ Len(t) = l + 1 /\ \A i \in 1 .. l + 1 : t[i] = Taken(as[i])
  BY <1>1 DEF Takens
<1> HIDE DEF s, t, l
<1>5. /\ Append(s, Taken(m)) \in Seq(Seq(Seq(Octet))) /\ Len(Append(s, Taken(m))) = l + 1
      /\ Append(s, Taken(m))[l + 1] = Taken(m)
      /\ \A i \in 1 .. l : Append(s, Taken(m))[i] = s[i]
  BY <1>2, <1>3, <1>4
<1>6. ASSUME NEW i \in 1 .. l + 1 PROVE t[i] = Append(s, Taken(m))[i]
  <2>1. CASE i = l + 1
    BY <2>1, <1>1, <1>4, <1>5
  <2>2. CASE i # l + 1
    <3>1. i \in 1 .. l
      BY <2>2, <1>1
    <3> QED BY <3>1, <1>1, <1>4, <1>5
  <2> QED BY <2>1, <2>2
<1>7. t = Append(s, Taken(m))
  BY <1>3, <1>4, <1>5, <1>6, SeqEqual
<1> QED BY <1>1, <1>2, <1>7 DEF s, t, as

LEMMA TakensHead ==
  ASSUME NEW ms \in Seq(CanMessages), ms # <<>>
  PROVE  /\ Head(ms) \in CanMessages /\ Tail(ms) \in Seq(CanMessages) /\ Takens(ms) # <<>>
         /\ Head(Takens(ms)) = Taken(Head(ms)) /\ Tail(Takens(ms)) = Takens(Tail(ms))
<1> DEFINE l == Len(ms)
           u == Tail(ms)
           s == Takens(ms)
           t == Takens(u)
<1>1. /\ l \in Nat /\ u \in Seq(CanMessages) /\ l >= 1 /\ Len(u) = l - 1 /\ Head(ms) = ms[1]
      /\ \A i \in 1 .. l - 1 : u[i] = ms[i + 1]
      /\ Head(ms) \in CanMessages
  OBVIOUS
<1>3. s \in Seq(Seq(Seq(Octet))) /\ t \in Seq(Seq(Seq(Octet)))
  BY <1>1, TakensTyped
<1> HIDE DEF u
<1>4. /\ Len(s) = l /\ \A i \in 1 .. l : s[i] = Taken(ms[i])
      /\ Len(t) = l - 1 /\ \A i \in 1 .. l - 1 : t[i] = Taken(u[i])
  BY <1>1 DEF Takens
<1> HIDE DEF s, t, l
<1>5. /\ s # <<>> /\ Tail(s) \in Seq(Seq(Seq(Octet))) /\ Len(Tail(s)) = l - 1 /\ Head(s) = s[1]
      /\ \A i \in 1 .. l - 1 : Tail(s)[i] = s[i + 1]
  BY <1>1, <1>3, <1>4
<1>6. \A i \in 1 .. l - 1 : Tail(s)[i] = t[i]
  <2> SUFFICES ASSUME NEW i \in 1 .. l - 1 PROVE Tail(s)[i] = t[i]
    OBVIOUS
  <2>1. i + 1 \in 1 .. l
    BY <1>1
  <2> QED BY <2>1, <1>1, <1>4, <1>5
<1>7. Tail(s) = t
  BY <1>3, <1>4, <1>5, <1>6, SeqEqual
<1>8. Head(s) = Taken(Head(ms))
  <2>1. 1 \in 1 .. l
    BY <1>1
  <2> QED BY <2>1, <1>1, <1>4, <1>5
<1> QED BY <1>1, <1>5, <1>7, <1>8 DEF s, t, u

(* The frames of a slave, and what a receiver finds of them.               *)
LEMMA PacketIs ==
  ASSUME setup \in Setups, NEW n \in 1 .. Len(setup.packets)
  PROVE  /\ setup.packets[n] \in Seq(Octet) \ {<<>>}
         /\ Len(setup.packets[n]) <= Longest(setup.format)
         /\ Widths(setup.format) /\ n \in Nat
<1>1. /\ setup.packets \in Seq(Seq(Octet) \ {<<>>})
      /\ \A i \in 1 .. Len(setup.packets) : Len(setup.packets[i]) <= Longest(setup.format)
  BY SetupsAssumption
<1>2. Widths(setup.format)
  BY FormatIs
<1> QED BY <1>1, <1>2

LEMMA FrameOctets ==
  ASSUME setup \in Setups, NEW n \in 1 .. Len(setup.packets)
  PROVE  LET o == Octets_(n)
             p == setup.packets[n]
             f == setup.format
         IN  /\ o \in Seq(Octet) /\ Len(o) = SxiSize(f, Len(p)) /\ o # <<>>
             /\ Number(o, 1, f.len) = Len(p)
             /\ \A k \in 1 .. Len(p) : o[HeaderSize(f) + k] = p[k]
             /\ SxiSum(f, o)
             /\ f.tail # 0 => f.tail * ((Len(o) - f.tail) \div f.tail) = Len(o) - f.tail
             /\ Len(o) = HeaderSize(f) + Len(p) + WordFill(f, Len(p)) + f.tail
             /\ Len(p) \in Nat \ {0} /\ WordFill(f, Len(p)) \in {0, 1}
             /\ f.tail = 0 => WordFill(f, Len(p)) = 0
<1> DEFINE p == setup.packets[n]
           f == setup.format
           c == n % Octets
           o == Octets_(n)
<1>1. p \in Seq(Octet) /\ Len(p) <= Longest(f) /\ Widths(f) /\ p # <<>>
  BY PacketIs
<1>2. c \in Nat
  BY OctetsAre
<1>3. o = Framed(f, c, p)
  BY DEF Octets_
<1> HIDE DEF p, f, c, o
<1>4. /\ o \in Seq(Octet) /\ Len(o) = SxiSize(f, Len(p))
      /\ Number(o, 1, f.len) = Len(p)
      /\ \A k \in 1 .. Len(p) : o[HeaderSize(f) + k] = p[k]
      /\ SxiSum(f, o)
      /\ f.tail # 0 => f.tail * ((Len(o) - f.tail) \div f.tail) = Len(o) - f.tail
  BY <1>1, <1>2, <1>3, FramedIs
<1>5. Len(p) \in Nat \ {0}
  BY <1>1
<1>6. WordFill(f, Len(p)) \in {0, 1} /\ (f.tail = 0 => WordFill(f, Len(p)) = 0)
  <2>1. HeaderSize(f) + Len(p) \in Nat
    BY <1>1, <1>5 DEF Widths, HeaderSize
  <2>2. \A z \in Nat : z % 2 \in {0, 1}
    OBVIOUS
  <2> QED BY <2>1, <2>2 DEF WordFill
<1>7. Len(o) = HeaderSize(f) + Len(p) + WordFill(f, Len(p)) + f.tail
  BY <1>4 DEF SxiSize
<1>8. o # <<>>
  <2>1. HeaderSize(f) \in Nat \ {0} /\ f.tail \in Nat
    BY <1>1 DEF Widths, HeaderSize
  <2>2. Len(o) # 0
    BY <2>1, <1>5, <1>6, <1>7
  <2> QED BY <2>2
<1> QED BY <1>4, <1>5, <1>6, <1>7, <1>8 DEF p, f, o

LEMMA FormatKinds ==
  ASSUME setup \in Setups
  PROVE  /\ kind \in Kinds /\ Widths(setup.format)
         /\ kind # "sxi" => setup.format.tail = 0
         /\ kind \in {"tcp", "udp"} => setup.format = EthFormat
<1>1. kind \in Kinds
  BY SetupsAssumption DEF kind
<1> QED BY <1>1, FormatIs DEF kind

(* The part of a frame that is the packet.                                 *)
LEMMA PacketWithin ==
  ASSUME NEW Items, NEW o \in Seq(Items), NEW p \in Seq(Items), NEW h \in Nat, h + Len(p) <= Len(o),
         \A k \in 1 .. Len(p) : o[h + k] = p[k]
  PROVE  SubSeq(o, h + 1, h + Len(p)) = p
<1> DEFINE m == Len(p)
           s == SubSeq(o, h + 1, h + m)
<1>1. m \in Nat /\ s \in Seq(Items) /\ Len(s) = m /\ \A k \in 1 .. m : s[k] = o[h + k]
  <2>1. m \in Nat /\ m = Len(p)
    OBVIOUS
  <2> HIDE DEF m
  <2>2. h + 1 \in Nat /\ h + 1 >= 1 /\ h + m \in Nat /\ h + m <= Len(o) /\ h <= h + m
    BY <2>1
  <2> QED BY <2>1, <2>2
<1> HIDE DEF s
<1>2. \A k \in 1 .. m : s[k] = p[k]
  BY <1>1
<1>3. s = p
  BY <1>1, <1>2, SeqEqual
<1> QED BY <1>3 DEF s

LEMMA SentFound ==
  ASSUME setup \in Setups, kind # "can", NEW n \in 1 .. Len(setup.packets), ~TooLong(Octets_(n))
  PROVE  LET x == FedTo(kind, setup.format, Empty, Octets_(n))
         IN  Clear(x) = Empty /\ \E c \in Nat : x.out = <<Frame(c, setup.packets[n])>>
<1> DEFINE p == setup.packets[n]
           f == setup.format
           o == Octets_(n)
           x == FedTo(kind, f, Empty, o)
           c == Number(o, f.len + 1, f.ctr)
           h == HeaderSize(f)
<1>1. /\ o \in Seq(Octet) /\ Len(o) = SxiSize(f, Len(p)) /\ o # <<>>
      /\ Number(o, 1, f.len) = Len(p)
      /\ \A k \in 1 .. Len(p) : o[h + k] = p[k]
      /\ SxiSum(f, o)
      /\ Len(o) = h + Len(p) + WordFill(f, Len(p)) + f.tail
      /\ Len(p) \in Nat \ {0} /\ WordFill(f, Len(p)) \in {0, 1}
      /\ f.tail = 0 => WordFill(f, Len(p)) = 0
  BY FrameOctets
<1>2. p \in Seq(Octet) /\ p # <<>> /\ Widths(f)
  BY PacketIs
<1>3. kind \in Kinds /\ (kind # "sxi" => f.tail = 0) /\ (kind \in {"tcp", "udp"} => f = EthFormat)
  BY FormatKinds
<1>4. kind = "sxi" => Len(o) <= SxiBuffer
  BY <1>1, OctetsAre DEF TooLong
<1>5. h \in Nat /\ h + Len(p) <= Len(o) /\ Len(o) >= h /\ f.tail \in Nat
  <2>1. h \in Nat /\ f.tail \in Nat
    BY <1>2 DEF Widths, HeaderSize
  <2> HIDE DEF h
  <2> QED BY <2>1, <1>1
<1> HIDE DEF p, f, o
<1>6. c \in Nat
  <2>1. HeaderSize(f) <= Len(o)
    BY <1>5
  <2> QED BY <2>1, <1>1, <1>2, HeaderNumbers
<1>7. CASE kind = "sxi"
  <2>1. SubSeq(o, HeaderSize(f) + 1, HeaderSize(f) + Len(p)) = p
    BY <1>1, <1>2, <1>5, PacketWithin
  <2>2. /\ Clear(FedTo("sxi", f, Empty, o)) = Empty
        /\ FedTo("sxi", f, Empty, o).out
             = <<Frame(c, SubSeq(o, HeaderSize(f) + 1, HeaderSize(f) + Len(p)))>>
    <3>1. Len(p) \in Nat
      BY <1>1
    <3> QED BY <3>1, <1>1, <1>2, <1>4, <1>7, SxiFinds
  <2> HIDE DEF c
  <2>3. Clear(x) = Empty /\ x.out = <<Frame(c, p)>>
    BY <2>1, <2>2, <1>7
  <2> HIDE DEF x
  <2>4. Clear(x) = Empty /\ \E d \in Nat : x.out = <<Frame(d, p)>>
    BY <2>3, <1>6
  <2> QED BY <2>4 DEF x, p, f, o
<1>8. CASE kind # "sxi"
  <2>1. Len(o) = HeaderSize(f) + Len(p)
    <3>1. f.tail = 0 /\ WordFill(f, Len(p)) = 0
      BY <1>8, <1>3, <1>1
    <3> QED BY <3>1, <1>1, <1>5
  <2>2. kind \in {"tcp", "udp", "usb"} /\ (kind # "usb" => f = EthFormat)
    BY <1>3, <1>8 DEF Kinds
  <2>3. Clear(x) = Empty /\ x.out = <<Frame(c, p)>>
    <3>1. /\ Widths(f) /\ o \in Seq(Octet) /\ p \in Seq(Octet) /\ p # <<>>
          /\ Number(o, 1, f.len) = Len(p)
          /\ Carries(o, HeaderSize(f), p)
      BY <1>1, <1>2 DEF Carries
    <3> HIDE DEF kind, o, p, f
    <3> QED BY <3>1, <2>1, <2>2, PacketFound
  <2> HIDE DEF x, c
  <2>4. Clear(x) = Empty /\ \E d \in Nat : x.out = <<Frame(d, p)>>
    BY <2>3, <1>6
  <2> QED BY <2>4 DEF x, p, f, o
<1> QED BY <1>7, <1>8

(* A wrong octet: the checksum finds it; or it is in what is neither the   *)
(* length nor the packet.                                                  *)
LEMMA AlteredIs ==
  ASSUME NEW o \in Seq(Octet), NEW i \in 1 .. Len(o), NEW v \in Octet
  PROVE  /\ Altered(o, i, v) \in Seq(Octet) /\ Len(Altered(o, i, v)) = Len(o)
         /\ Altered(o, i, v)[i] = v
         /\ \A k \in 1 .. Len(o) : k # i => Altered(o, i, v)[k] = o[k]
  BY DEF Altered

OnlyAt(o, t, i) ==
  /\ i \in 1 .. Len(o) /\ Len(t) = Len(o) /\ t[i] # o[i]
  /\ \A k \in 1 .. Len(o) : k # i => t[k] = o[k]
LEMMA AlteredSum ==
  ASSUME NEW f, f.tail \in {1, 2}, NEW o \in Seq(Octet), NEW t \in Seq(Octet),
         Len(o) >= f.tail, SxiSum(f, o), f.tail * ((Len(o) - f.tail) \div f.tail) = Len(o) - f.tail,
         NEW i, OnlyAt(o, t, i)
  PROVE  ~SxiSum(f, t)
<1> DEFINE w == f.tail
           l == Len(o)
           n == l - w
           a == SubSeq(o, 1, n)
           b == SubSeq(t, 1, n)
<1>0. w \in {1, 2} /\ w \in Nat /\ l \in Nat /\ n \in Nat /\ n + w = l /\ n <= l /\ n + 1 \in Nat \ {0}
      /\ (n + 1) + w - 1 = l
  <2>1. w \in {1, 2} /\ l \in Nat /\ l >= w /\ n = l - w
    OBVIOUS
  <2> HIDE DEF w, l, n
  <2> QED BY <2>1
<1>1. /\ a \in Seq(Octet) /\ Len(a) = n /\ \A k \in 1 .. n : a[k] = o[k]
      /\ b \in Seq(Octet) /\ Len(b) = n /\ \A k \in 1 .. n : b[k] = t[k]
  <2>1. n \in Nat /\ n <= Len(o) /\ n <= Len(t)
    BY <1>0 DEF OnlyAt
  <2> HIDE DEF n
  <2> QED BY <2>1, FrontIs
<1>2. SxiSum(f, o) <=> Number(o, n + 1, w) = Checksum(a, w)
  BY DEF SxiSum
<1>3. SxiSum(f, t) <=> Number(t, n + 1, w) = Checksum(b, w)
  BY DEF SxiSum, OnlyAt
<1>4. w * (n \div w) = n
  OBVIOUS
<1>5. i \in 1 .. l /\ t[i] # o[i] /\ \A k \in 1 .. l : k # i => t[k] = o[k]
  BY DEF OnlyAt
<1>5a. Len(o) = l /\ Len(t) = l
  BY DEF OnlyAt
<1> HIDE DEF w, l, n, a, b
<1>6. CASE i <= n
  <2>1. i \in 1 .. n
    BY <1>0, <1>5, <1>6
  <2>2. a[i] # b[i]
    BY <2>1, <1>1, <1>5
  <2>3. \A x \in 1 .. n : x # i => a[x] = b[x]
    <3> SUFFICES ASSUME NEW x \in 1 .. n, x # i PROVE a[x] = b[x]
      OBVIOUS
    <3>1. x \in 1 .. l
      BY <1>0
    <3> QED BY <3>1, <1>1, <1>5
  <2>4. Checksum(a, w) # Checksum(b, w)
    <3>1. /\ Len(a) = Len(b) /\ w * (Len(a) \div w) = Len(a) /\ i \in 1 .. Len(a)
          /\ \A x \in 1 .. Len(a) : x # i => a[x] = b[x]
      BY <2>1, <2>3, <1>1, <1>4
    <3> QED BY ONLY <3>1, <2>2, <1>0, <1>1, ChecksumChanges
  <2>5. Number(o, n + 1, w) = Number(t, n + 1, w)
    <3>1. \A k \in 0 .. w - 1 : o[(n + 1) + k] = t[(n + 1) + k]
      <4> SUFFICES ASSUME NEW k \in 0 .. w - 1 PROVE o[(n + 1) + k] = t[(n + 1) + k]
        OBVIOUS
      <4>1. (n + 1) + k \in 1 .. l /\ (n + 1) + k # i
        BY <1>0, <1>6
      <4> QED BY <4>1, <1>5
    <3>2. \E j \in Nat \ {0} : j = n + 1
      BY <1>0
    <3>3. PICK j \in Nat \ {0} : j = n + 1
      BY <3>2
    <3>4. w \in {0, 1, 2}
      BY <1>0
    <3>5. Number(o, j, w) = Number(t, j, w)
      <4>1. Alike(o, j, t, j, w)
        BY <3>1, <3>3 DEF Alike
      <4> QED BY ONLY <4>1, <3>4, j \in Nat \ {0}, NumberOf
    <3> QED BY <3>3, <3>5
  <2> QED BY <2>4, <2>5, <1>2, <1>3
<1>7. CASE ~(i <= n)
  <2>1. a = b
    <3>1. \A x \in 1 .. n : a[x] = b[x]
      <4> SUFFICES ASSUME NEW x \in 1 .. n PROVE a[x] = b[x]
        OBVIOUS
      <4>1. x \in 1 .. l /\ x # i
        BY <1>0, <1>7
      <4> QED BY <4>1, <1>1, <1>5
    <3> QED BY <3>1, <1>1, SeqEqual
  <2>2. Number(o, n + 1, w) # Number(t, n + 1, w)
    <3>1. \E j \in Nat \ {0} : j = n + 1
      BY <1>0
    <3>2. PICK j \in Nat \ {0} : j = n + 1
      BY <3>1
    <3>3. j + w - 1 <= Len(o) /\ i \in j .. j + w - 1 /\ o[i] # t[i]
      BY <3>2, <1>0, <1>5, <1>5a, <1>7
    <3>4. Number(o, j, w) # Number(t, j, w)
      BY <3>3, <1>0, <1>5a, NumberChanges
    <3> QED BY <3>2, <3>4
  <2> QED BY <2>1, <2>2, <1>2, <1>3
<1> QED BY <1>6, <1>7

LEMMA AlteredFound ==
  ASSUME setup \in Setups, kind = "sxi", NEW n \in 1 .. Len(setup.packets),
         NEW i \in 1 .. Len(Octets_(n)), NEW v \in Octet, v # Octets_(n)[i],
         ~TooLong(Octets_(n)), i > setup.format.len,
         setup.format.tail # 0 \/ i <= HeaderSize(setup.format)
  PROVE  LET x == FedTo(kind, setup.format, Empty, Altered(Octets_(n), i, v))
         IN  /\ Clear(x) = Empty
             /\ setup.format.tail = 0 => \E c \in Nat : x.out = <<Frame(c, setup.packets[n])>>
             /\ setup.format.tail # 0 => x.out = <<>>
<1> DEFINE p == setup.packets[n]
           f == setup.format
           o == Octets_(n)
           t == Altered(o, i, v)
           x == FedTo(kind, f, Empty, t)
           c == Number(t, f.len + 1, f.ctr)
           h == HeaderSize(f)
           m == Len(p)
<1>1. /\ o \in Seq(Octet) /\ Len(o) = SxiSize(f, m)
      /\ Number(o, 1, f.len) = m
      /\ \A k \in 1 .. m : o[h + k] = p[k]
      /\ SxiSum(f, o)
      /\ Len(o) = h + m + WordFill(f, m) + f.tail
      /\ f.tail # 0 => f.tail * ((Len(o) - f.tail) \div f.tail) = Len(o) - f.tail
      /\ m \in Nat \ {0} /\ WordFill(f, m) \in {0, 1}
  BY FrameOctets
<1>2. p \in Seq(Octet) /\ p # <<>> /\ Widths(f)
  BY PacketIs
<1>3. i \in 1 .. Len(o) /\ v # o[i] /\ i > f.len /\ (f.tail # 0 \/ i <= h)
  OBVIOUS
<1>4. Len(o) <= SxiBuffer
  BY <1>1, OctetsAre DEF TooLong
<1> HIDE DEF o
<1>5. /\ t \in Seq(Octet) /\ Len(t) = Len(o) /\ t[i] = v
      /\ \A k \in 1 .. Len(o) : k # i => t[k] = o[k]
  BY ONLY <1>1, <1>3, AlteredIs, v \in Octet DEF t
<1> HIDE DEF t, p, f
<1>6. h \in Nat /\ f.len \in {1, 2} /\ f.tail \in {0, 1, 2} /\ f.len <= h
  BY <1>2 DEF Widths, HeaderSize
<1> HIDE DEF h, m
<1>7. Len(o) >= h + m /\ Len(o) >= f.tail /\ Len(o) \in Nat /\ h + m \in Nat
  BY <1>1, <1>6
<1>8. Number(t, 1, f.len) = m
  <2>1. Alike(t, 1, o, 1, f.len)
    <3> SUFFICES ASSUME NEW k \in 0 .. f.len - 1 PROVE t[1 + k] = o[1 + k]
      BY DEF Alike
    <3>1. 1 + k \in 1 .. Len(o) /\ 1 + k # i
      BY <1>1, <1>3, <1>6, <1>7
    <3> QED BY <3>1, <1>5
  <2>2. f.len \in {0, 1, 2} /\ 1 \in Nat \ {0}
    BY <1>6
  <2>3. Number(t, 1, f.len) = Number(o, 1, f.len)
    BY ONLY <2>1, <2>2, NumberOf
  <2> QED BY <2>3, <1>1
<1>9. c \in Nat
  <2>1. Len(t) >= HeaderSize(f)
    BY <1>1, <1>5, <1>7, <1>6 DEF h
  <2> QED BY <2>1, <1>2, <1>5, HeaderNumbers
<1>10. /\ Clear(FedTo("sxi", f, Empty, t)) = Empty
       /\ SxiSum(f, t) => FedTo("sxi", f, Empty, t).out = <<Frame(c, SubSeq(t, h + 1, h + m))>>
       /\ ~SxiSum(f, t) => FedTo("sxi", f, Empty, t).out = <<>>
  <2>1. m \in Nat /\ Len(t) = SxiSize(f, m) /\ Len(t) <= SxiBuffer
    BY <1>1, <1>4, <1>5
  <2> QED BY <2>1, <1>2, <1>5, <1>8, SxiFinds DEF h
<1>11. x = FedTo("sxi", f, Empty, t)
  OBVIOUS
<1> HIDE DEF x, c
<1>12. f.tail # 0 => x.out = <<>>
  <2> SUFFICES ASSUME f.tail # 0 PROVE x.out = <<>>
    OBVIOUS
  <2>1. f.tail \in {1, 2}
    BY <1>6
  <2>2. ~SxiSum(f, t)
    <3>1. OnlyAt(o, t, i)
      BY <1>3, <1>5 DEF OnlyAt
    <3> QED BY <3>1, <2>1, <1>1, <1>5, <1>7, AlteredSum
  <2> QED BY <2>2, <1>10, <1>11
<1>13. f.tail = 0 => \E d \in Nat : x.out = <<Frame(d, p)>>
  <2> SUFFICES ASSUME f.tail = 0 PROVE \E d \in Nat : x.out = <<Frame(d, p)>>
    OBVIOUS
  <2>1. SxiSum(f, t)
    BY DEF SxiSum
  <2>2. \A k \in 1 .. m : t[h + k] = p[k]
    <3> SUFFICES ASSUME NEW k \in 1 .. m PROVE t[h + k] = p[k]
      OBVIOUS
    <3>1. h + k \in 1 .. Len(o) /\ h + k # i
      BY <1>1, <1>3, <1>6, <1>7
    <3> QED BY <3>1, <1>1, <1>5
  <2>3. SubSeq(t, h + 1, h + m) = p
    <3>1. h + Len(p) <= Len(t) /\ \A k \in 1 .. Len(p) : t[h + k] = p[k]
      BY <2>2, <1>5, <1>7 DEF m
    <3> QED BY <3>1, <1>2, <1>5, <1>6, PacketWithin DEF m
  <2>4. x.out = <<Frame(c, p)>>
    BY <2>1, <2>3, <1>10, <1>11
  <2> QED BY <2>4, <1>9
<1>14. Clear(x) = Empty
  BY <1>10, <1>11
<1> QED BY <1>12, <1>13, <1>14 DEF x, t, p, f, o

(* CAN: what is taken of the messages of the slave and of other nodes.     *)
LEMMA BusOf ==
  ASSUME NEW raw \in Nat, InRange(raw)
  PROVE  OnBus(raw) \in BusIds
<1> DEFINE id == stripIdentifier(raw)
           extended == is_extended_identifier(raw)
<1>1. id \in Nat /\ id <= (IF extended THEN MaxExtended ELSE MaxStandard)
  BY IdentifiersAssumption DEF InRange, stripIdentifier
<1>2. OnBus(raw) = <<id, IF extended THEN 1 ELSE 0>>
  BY DEF OnBus, Identifier
<1> HIDE DEF id, extended
<1>3. CASE extended
  BY <1>1, <1>2, <1>3, IdentifiersAssumption DEF BusIds
<1>4. CASE ~extended
  BY <1>1, <1>2, <1>4, IdentifiersAssumption DEF BusIds
<1> QED BY <1>3, <1>4

LEMMA BusJoin ==
  ASSUME NEW bus \in BusIds, NEW d \in Seq(Nat)
  PROVE  /\ bus \o d \in Seq(Nat) \ {<<>>} /\ Len(bus \o d) = 2 + Len(d)
         /\ (bus \o d)[1] = bus[1] /\ (bus \o d)[2] = bus[2]
         /\ SubSeq(bus \o d, 3, Len(bus \o d)) = d
<1>1. \E a \in Nat, b \in Nat : bus = <<a, b>>
  BY IdentifiersAssumption DEF BusIds
<1>2. PICK a \in Nat, b \in Nat : bus = <<a, b>>
  BY <1>1
<1>3. bus \in Seq(Nat) /\ Len(bus) = 2
  BY <1>2
<1> DEFINE m == bus \o d
<1>4. /\ m \in Seq(Nat) /\ Len(m) = 2 + Len(d) /\ m[1] = bus[1] /\ m[2] = bus[2]
      /\ \A k \in 1 .. Len(d) : m[2 + k] = d[k]
  <2>1. /\ m \in Seq(Nat) /\ Len(m) = Len(bus) + Len(d)
        /\ \A k \in 1 .. Len(bus) : m[k] = bus[k]
        /\ \A k \in 1 .. Len(d) : m[Len(bus) + k] = d[k]
    <3>1. bus \in Seq(Nat) /\ d \in Seq(Nat)
      BY <1>3
    <3> QED BY ONLY <3>1, Joining
  <2> HIDE DEF m
  <2>2. 1 \in 1 .. 2 /\ 2 \in 1 .. 2
    OBVIOUS
  <2> QED BY <1>3, <2>1, <2>2
<1> HIDE DEF m
<1>5. SubSeq(m, 2 + 1, 2 + Len(d)) = d
  <2>1. 2 \in Nat /\ 2 + Len(d) <= Len(m)
    BY <1>4
  <2> QED BY <2>1, <1>4, PacketWithin
<1>6. 2 + 1 = 3 /\ m # <<>>
  <2>1. Len(m) # 0
    BY <1>4
  <2> QED BY <2>1
<1> QED BY <1>4, <1>5, <1>6 DEF m

(* Can.read: a message is taken if and only if it has data and the         *)
(* identifier of the slave or of one of its DTOs, in its size, whatever    *)
(* other nodes are on the bus.                                             *)
THEOREM AcceptedExactly ==
  ASSUME setup \in Setups, NEW bus \in BusIds, NEW d \in Seq(Nat)
  PROVE  Accepts(bus \o d) <=> d # <<>> /\ bus \in {OnBus(raw) : raw \in Configured}
<1> DEFINE m == bus \o d
           filters == FiltersOf(setup.slaveId, setup.daqIds)
<1>1. m[1] = bus[1] /\ m[2] = bus[2] /\ Len(m) = 2 + Len(d)
  BY BusJoin
<1>2. Len(d) \in Nat /\ (Len(d) > 0 <=> d # <<>>)
  OBVIOUS
<1>3. Accepted(filters, bus) <=> bus \in {OnBus(raw) : raw \in Configured}
  BY FiltersExact
<1> HIDE DEF m, filters
<1>4. \A f : Passes(f, m) <=> Passes(f, bus)
  BY <1>1 DEF Passes
<1>5. Accepted(filters, m) <=> Accepted(filters, bus)
  BY <1>4 DEF Accepted
<1>6. Accepts(m) <=> d # <<>> /\ Accepted(filters, m)
  BY <1>1, <1>2 DEF Accepts, filters
<1> QED BY <1>3, <1>5, <1>6 DEF m

LEMMA IdentifierJoined ==
  ASSUME NEW bus \in BusIds, NEW d \in Seq(Nat)
  PROVE  make_identifier(bus \o d) = make_identifier(bus)
<1> DEFINE m == bus \o d
<1>1. m[1] = bus[1] /\ m[2] = bus[2]
  BY BusJoin
<1> HIDE DEF m
<1>2. make_identifier(m) = make_identifier(bus)
  BY <1>1 DEF make_identifier
<1> QED BY <1>2 DEF m

LEMMA TailLonger ==
  ASSUME NEW q \in Seq(Octet), Len(q) > 1
  PROVE  Tail(q) # <<>>
<1> DEFINE t == Tail(q)
           k == Len(q)
<1>1. Len(t) = k - 1 /\ k \in Nat /\ k > 1
  OBVIOUS
<1> HIDE DEF t, k
<1>2. Len(t) # 0
  BY <1>1
<1>3. t # <<>>
  BY <1>2
<1> QED BY <1>3 DEF t

LEMMA MessageTaken ==
  ASSUME setup \in Setups, NEW n \in 1 .. Len(setup.packets)
  PROVE  /\ Message(setup.packets[n]) \in CanMessages
         /\ Taken(Message(setup.packets[n])) = <<setup.packets[n]>>
<1> DEFINE p == setup.packets[n]
           ids == setup.daqIds
           m == Message(p)
<1>1. p \in Seq(Octet) /\ p # <<>>
  BY PacketIs
<1>2. /\ ids \in Seq(Nat) /\ setup.slaveId \in Nat
      /\ \A raw \in Configured : InRange(raw)
  BY SetupsAssumption DEF Configured
<1>3. \A i \in DOMAIN ids : ids[i] \in Configured /\ ids[i] \in Nat
  BY <1>2 DEF Configured
<1>4. setup.slaveId \in Configured
  BY DEF Configured
<1>5. /\ \A i \in DOMAIN ids : PidsOf(ids, make_identifier(OnBus(ids[i])).raw) = {i}
      /\ PidsOf(ids, make_identifier(OnBus(setup.slaveId)).raw) = {}
  BY PidsUnique
<1> HIDE DEF p, ids
<1>6. Octet \subseteq Nat
  BY OctetsAre
<1>7. p \in Seq(Nat) /\ Tail(p) \in Seq(Nat) /\ p[1] \in Octet /\ p[1] \in Nat /\ p = <<p[1]>> \o Tail(p)
  <2>1. p[1] \in Octet /\ p = <<p[1]>> \o Tail(p) /\ Tail(p) \in Seq(Octet)
    BY <1>1
  <2>2. \A s \in Seq(Octet) : s \in Seq(Nat)
    <3> SUFFICES ASSUME NEW s \in Seq(Octet) PROVE s \in Seq(Nat)
      OBVIOUS
    <3>1. Len(s) \in Nat /\ s \in [1 .. Len(s) -> Octet]
      OBVIOUS
    <3>2. s \in [1 .. Len(s) -> Nat]
      BY <3>1, <1>6
    <3> QED BY <3>1, <3>2, SeqDef
  <2> QED BY <2>1, <2>2, <1>1, <1>6
<1>8. m \in Seq(Nat) \ {<<>>} /\ Accepts(m) /\ PacketOf(m) = p
  <2>1. CASE p[1] < Len(ids)
    <3>1. \E i \in DOMAIN ids : i = p[1] + 1
      BY <2>1, <1>2, <1>7
    <3>2. PICK i \in DOMAIN ids : i = p[1] + 1
      BY <3>1
    <3> DEFINE bus == OnBus(ids[i])
               d == Tail(p)
    <3>3. m = bus \o d
      BY <2>1, <3>2 DEF Message, ids
    <3>4. bus \in BusIds /\ bus \in {OnBus(raw) : raw \in Configured}
      BY <1>2, <1>3, BusOf
    <3>5. PidsOf(ids, make_identifier(bus).raw) = {i}
      BY <1>5
    <3>6. d \in Seq(Nat) /\ d # <<>>
      <4>1. Len(p) > 1
        BY <2>1, SetupsAssumption DEF p, ids
      <4>2. \A q \in Seq(Octet) : Len(q) > 1 => Tail(q) # <<>>
        BY TailLonger
      <4>3. Tail(p) # <<>>
        BY <4>1, <4>2, <1>1
      <4> QED BY <4>3, <1>7
    <3> HIDE DEF bus, d, m
    <3>7. /\ m \in Seq(Nat) \ {<<>>} /\ SubSeq(m, 3, Len(m)) = d
          /\ Accepts(m) /\ make_identifier(m) = make_identifier(bus)
      BY <3>3, <3>4, <3>6, BusJoin, AcceptedExactly, IdentifierJoined
    <3>8. PidsOf(ids, make_identifier(m).raw) = {i}
      BY <3>5, <3>7
    <3>9. PacketOf(m) = <<(CHOOSE k \in {i} : TRUE) - 1>> \o d
      BY <3>7, <3>8 DEF PacketOf, ids
    <3>10. (CHOOSE k \in {i} : TRUE) = i
      OBVIOUS
    <3>11. i - 1 = p[1]
      BY <3>2, <1>7
    <3>12. PacketOf(m) = <<p[1]>> \o d
      BY <3>9, <3>10, <3>11
    <3>13. PacketOf(m) = p
      BY <3>12, <1>7 DEF d
    <3> QED BY <3>7, <3>13
  <2>2. CASE ~(p[1] < Len(ids))
    <3> DEFINE bus == OnBus(setup.slaveId)
    <3>3. m = bus \o p
      BY <2>2 DEF Message, ids
    <3>4. bus \in BusIds /\ bus \in {OnBus(raw) : raw \in Configured}
      BY <1>2, <1>4, BusOf
    <3>5. PidsOf(ids, make_identifier(bus).raw) = {}
      BY <1>5
    <3> HIDE DEF bus, m
    <3>7. /\ m \in Seq(Nat) \ {<<>>} /\ SubSeq(m, 3, Len(m)) = p
          /\ Accepts(m) /\ make_identifier(m) = make_identifier(bus)
      BY <3>3, <3>4, <1>1, <1>7, BusJoin, AcceptedExactly, IdentifierJoined
    <3>8. PidsOf(ids, make_identifier(m).raw) = {}
      BY <3>5, <3>7
    <3>9. PacketOf(m) = p
      BY <3>7, <3>8 DEF PacketOf, ids
    <3> QED BY <3>7, <3>9
  <2> QED BY <2>1, <2>2
<1> HIDE DEF m
<1>9. Taken(m) = <<p>>
  BY <1>8 DEF Taken
<1>10. m \in CanMessages
  <2>1. <<p>> \in Seq(Seq(Octet))
    BY <1>1
  <2> QED BY <2>1, <1>8, <1>9 DEF CanMessages
<1> QED BY <1>9, <1>10 DEF m, p

(* Messages of others, and messages without data.                          *)
LEMMA ForeignTaken ==
  ASSUME setup \in Setups, NEW bus \in BusIds, NEW d \in Seq(Nat),
         bus \notin {OnBus(raw) : raw \in Configured} \/ d = <<>>
  PROVE  bus \o d \in CanMessages /\ Taken(bus \o d) = <<>>
<1>1. ~Accepts(bus \o d) /\ bus \o d \in Seq(Nat) \ {<<>>}
  BY AcceptedExactly, BusJoin
<1>2. Taken(bus \o d) = <<>>
  BY <1>1 DEF Taken
<1>3. <<>> \in Seq(Seq(Octet))
  OBVIOUS
<1> QED BY <1>1, <1>2, <1>3 DEF CanMessages

LEMMA PacketTyped ==
  ASSUME NEW m \in CanMessages, Accepts(m)
  PROVE  PacketOf(m) \in Seq(Octet) /\ Taken(m) = <<PacketOf(m)>>
<1>1. Taken(m) = <<PacketOf(m)>> /\ Taken(m) \in Seq(Seq(Octet))
  BY DEF CanMessages, Taken
<1>2. \A x : <<x>> \in Seq(Seq(Octet)) => x \in Seq(Octet)
  OBVIOUS
<1> QED BY <1>1, <1>2

(* The types of what is on its way.                                        *)
LEMMA LineTyped ==
  ASSUME NEW s \in Seq(Seq(Octet) \ {<<>>})
  PROVE  s \in Seq(Seq(Octet))
<1>1. Seq(Octet) \ {<<>>} \subseteq Seq(Octet)
  OBVIOUS
<1> QED BY <1>1, SeqMonotonic

LEMMA ReceiverTyped ==
  ASSUME NEW k, NEW f, NEW r, Ready(k, f, r)
  PROVE  r.out \in Seq(FrameRecords)
  BY DEF Ready, Receivers

LEMMA AheadTyped ==
  ASSUME kind # "can", SlaveTypes, DataTypes
  PROVE  /\ line \in Seq(Seq(Octet)) /\ FlattenSeq(line) \in Seq(Octet)
         /\ Waiting \in Seq(Octet) /\ chunk \in Seq(Octet) /\ Waiting \o chunk \in Seq(Octet)
         /\ Ahead \in Seq(Octet)
         /\ Ready(kind, setup.format, receiver) /\ Clear(receiver) = receiver
         /\ Ready(kind, setup.format, Coming) /\ Coming.out \in Seq(FrameRecords)
         /\ Decoded \in Seq(FrameRecords) /\ Decoded \o Coming.out \in Seq(FrameRecords)
<1>1. line \in Seq(Seq(Octet) \ {<<>>}) /\ chunk \in Seq(Octet)
  BY DEF SlaveTypes, DataTypes
<1>2. line \in Seq(Seq(Octet)) /\ FlattenSeq(line) \in Seq(Octet)
  BY <1>1, LineTyped, FlattenSome
<1>3. Waiting \in Seq(Octet)
  <2>1. CASE kind = "sxi"
    BY <2>1 DEF Waiting
  <2>2. CASE kind # "sxi"
    <3>1. packets \in Seq(Seq(Octet))
      BY <2>2 DEF DataTypes
    <3> QED BY <2>2, <3>1, FlattenSome DEF Waiting
  <2> QED BY <2>1, <2>2
<1>4. Waiting \o chunk \in Seq(Octet)
  BY <1>1, <1>3
<1>5. Ahead \in Seq(Octet)
  BY <1>2, <1>4 DEF Ahead
<1>6. Ready(kind, setup.format, receiver) /\ receiver.out = <<>>
  BY DEF DataTypes
<1>7. Clear(receiver) = receiver
  BY <1>6, ClearIs DEF Ready
<1>8. Ready(kind, setup.format, Coming)
  BY <1>5, <1>6, FedReady DEF Coming
<1>9. Coming.out \in Seq(FrameRecords)
  BY <1>8, ReceiverTyped
<1>10. Decoded \in Seq(FrameRecords)
  <2>1. found \in Seq(FrameRecords)
    BY DEF DataTypes
  <2>2. kind = "sxi" => packets \in Seq(FrameRecords)
    BY DEF DataTypes
  <2> QED BY <2>1, <2>2 DEF Decoded
<1>11. Decoded \o Coming.out \in Seq(FrameRecords)
  BY <1>9, <1>10
<1> QED BY <1>1, <1>2, <1>3, <1>4, <1>5, <1>6, <1>7, <1>8, <1>9, <1>10, <1>11

LEMMA ToComeTyped ==
  ASSUME SlaveTypes, DataTypes
  PROVE  ToCome \in Seq(Seq(Octet)) /\ heard \in Seq(Seq(Octet))
         /\ heard \o ToCome \in Seq(Seq(Octet))
<1>1. found \in Seq(FrameRecords) /\ heard \in Seq(Seq(Octet))
  BY DEF DataTypes
<1>2. CASE kind = "can"
  <2>1. line \in Seq(CanMessages)
    BY <1>2 DEF SlaveTypes
  <2>2. FlattenSeq(Takens(line)) \in Seq(Seq(Octet))
    <3>1. Takens(line) \in Seq(Seq(Seq(Octet)))
      BY <2>1, TakensTyped
    <3> QED BY <3>1, FlattenSome
  <2>3. PacketsOf(found) \in Seq(Seq(Octet))
    BY <1>1, PacketsTyped
  <2>4. ToCome \in Seq(Seq(Octet))
    BY <1>2, <2>2, <2>3 DEF ToCome
  <2> QED BY <2>4, <1>1
<1>3. CASE kind # "can"
  <2>1. Decoded \o Coming.out \in Seq(FrameRecords)
    BY <1>3, AheadTyped
  <2>2. ToCome \in Seq(Seq(Octet))
    BY <1>3, <2>1, PacketsTyped DEF ToCome
  <2> QED BY <2>2, <1>1
<1> QED BY <1>2, <1>3

LEMMA FedOn ==
  ASSUME NEW k, NEW f, NEW r, Ready(k, f, r), NEW s \in Seq(Octet), NEW t \in Seq(Octet),
         NEW a, a = FedTo(k, f, r, s)
  PROVE  Joins(FedTo(k, f, r, s \o t), a, FedTo(k, f, Clear(a), t))
  BY FedConcat

(* More on the line: the frames a receiver that is empty finds of it come  *)
(* after the others.                                                       *)
LEMMA MoreComes ==
  ASSUME SlaveTypes, DataTypes, kind # "can", Clear(Coming) = Empty,
         NEW pieces \in Seq(Seq(Octet) \ {<<>>}), line' = line \o pieces,
         UNCHANGED <<setup, packets, chunk, receiver, found>>
  PROVE  LET x == FedTo(kind, setup.format, Empty, FlattenSeq(pieces))
         IN  /\ Clear(Coming') = Clear(x) /\ x.out \in Seq(FrameRecords)
             /\ ToCome' = ToCome \o PacketsOf(x.out)
             /\ FlattenSeq(pieces) \in Seq(Octet)
<1> DEFINE o == FlattenSeq(pieces)
           f == setup.format
           x == FedTo(kind, f, Empty, o)
<1>1. pieces \in Seq(Seq(Octet)) /\ o \in Seq(Octet)
  BY LineTyped, FlattenSome
<1>2. /\ line \in Seq(Seq(Octet)) /\ FlattenSeq(line) \in Seq(Octet)
      /\ Waiting \o chunk \in Seq(Octet) /\ Ahead \in Seq(Octet)
      /\ Ready(kind, f, receiver)
      /\ Coming.out \in Seq(FrameRecords) /\ Decoded \in Seq(FrameRecords)
  BY AheadTyped
<1>3. kind' = kind /\ Waiting' = Waiting /\ Decoded' = Decoded /\ f' = f
  BY DEF kind, Waiting, Decoded
<1>4. FlattenSeq(line') = FlattenSeq(line) \o o
  BY <1>1, <1>2, FlattenConcat
<1>5. Ahead' = Ahead \o o
  <2> DEFINE a == Waiting \o chunk
             b == FlattenSeq(line)
  <2>1. Ahead' = a \o (b \o o) /\ Ahead = a \o b
    BY <1>3, <1>4 DEF Ahead
  <2>2. a \in Seq(Octet) /\ b \in Seq(Octet)
    BY <1>2
  <2> HIDE DEF a, b, o
  <2>3. (a \o b) \o o = a \o (b \o o)
    BY <2>2, <1>1, Associates
  <2> QED BY <2>1, <2>3
<1>6. Coming' = FedTo(kind, f, receiver, Ahead \o o)
  BY <1>3, <1>5 DEF Coming
<1>7. Coming'.out = Coming.out \o x.out /\ Clear(Coming') = Clear(x)
  <2>1. Coming = FedTo(kind, f, receiver, Ahead)
    BY DEF Coming
  <2>3. /\ Ready(kind, f, receiver) /\ Ahead \in Seq(Octet) /\ o \in Seq(Octet)
    BY <1>1, <1>2
  <2>4. Joins(FedTo(kind, f, receiver, Ahead \o o), Coming, FedTo(kind, f, Clear(Coming), o))
    <3> HIDE DEF o, f
    <3> QED BY ONLY <2>1, <2>3, FedOn
  <2>5. Joins(Coming', Coming, x)
    BY <2>4, <1>6
  <2> HIDE DEF x
  <2> QED BY <2>5 DEF Joins
<1>8. x.out \in Seq(FrameRecords)
  <2>1. Ready(kind, f, Empty)
    <3>1. Widths(f)
      BY <1>2 DEF Ready
    <3> QED BY <3>1, EmptyReceiver DEF Ready, Empty
  <2> HIDE DEF o, f
  <2>2. Ready(kind, f, FedTo(kind, f, Empty, o))
    BY <2>1, <1>1, FedReady
  <2> QED BY <2>2, ReceiverTyped
<1> HIDE DEF x, o
<1>9. ToCome' = ToCome \o PacketsOf(x.out)
  <2> DEFINE a == Decoded
             b == Coming.out
             c == x.out
  <2>1. ToCome' = PacketsOf(a \o (b \o c)) /\ ToCome = PacketsOf(a \o b)
    BY <1>3, <1>7 DEF ToCome
  <2>2. a \in Seq(FrameRecords) /\ b \in Seq(FrameRecords) /\ c \in Seq(FrameRecords)
    BY <1>2, <1>8
  <2> HIDE DEF a, b, c
  <2>3. (a \o b) \o c = a \o (b \o c)
    BY <2>2, Associates
  <2>4. a \o b \in Seq(FrameRecords)
    BY <2>2
  <2>5. PacketsOf((a \o b) \o c) = PacketsOf(a \o b) \o PacketsOf(c)
    BY ONLY <2>2, <2>4, PacketsConcat
  <2> QED BY <2>1, <2>3, <2>5 DEF c
<1> QED BY <1>1, <1>7, <1>8, <1>9 DEF x, o

-----------------------------------------------------------------------------
(* The threads: what is to come stays as it is.                            *)
LEMMA SameStream ==
  ASSUME StreamInv, heard' \o ToCome' = heard \o ToCome,
         kind # "can" => Clear(Coming') = Clear(Coming),
         UNCHANGED <<setup, sent, lost, broken>>
  PROVE  StreamInv'
<1>1. kind' = kind /\ Arrived' = Arrived
  BY DEF kind, Arrived
<1> QED BY <1>1 DEF StreamInv

LEMMA SameAhead ==
  ASSUME UNCHANGED <<setup, receiver, heard>>, kind # "can", Ahead' = Ahead, Decoded' = Decoded
  PROVE  heard' \o ToCome' = heard \o ToCome /\ Clear(Coming') = Clear(Coming)
<1>1. kind' = kind
  BY DEF kind
<1>2. Coming' = Coming
  BY <1>1 DEF Coming
<1> QED BY <1>1, <1>2 DEF ToCome

LEMMA ReadAhead ==
  ASSUME SlaveTypes, DataTypes, kind # "can", chunk = <<>>, NEW n \in 0 .. Len(line),
         chunk' = FlattenSeq(SubSeq(line, 1, n)), line' = SubSeq(line, n + 1, Len(line)),
         UNCHANGED <<setup, receiver, packets, found, heard>>
  PROVE  /\ heard' \o ToCome' = heard \o ToCome /\ Clear(Coming') = Clear(Coming)
         /\ chunk' \in Seq(Octet)
<1>1. line \in Seq(Seq(Octet)) /\ Waiting \in Seq(Octet)
  BY AheadTyped
<1>2. /\ SubSeq(line, 1, n) \in Seq(Seq(Octet)) /\ line' \in Seq(Seq(Octet))
      /\ FlattenSeq(line) = chunk' \o FlattenSeq(line')
  BY <1>1, FlattenCut
<1>3. chunk' \in Seq(Octet) /\ FlattenSeq(line') \in Seq(Octet)
  BY <1>2, FlattenSome
<1>4. kind' = kind /\ Waiting' = Waiting /\ Decoded' = Decoded
  BY DEF kind, Waiting, Decoded
<1>5. Ahead' = Ahead
  <2> DEFINE a == Waiting
             b == chunk'
             c == FlattenSeq(line')
  <2>1. Ahead' = (a \o b) \o c /\ Ahead = (a \o <<>>) \o (b \o c)
    BY <1>2, <1>4 DEF Ahead
  <2>2. a \in Seq(Octet) /\ b \in Seq(Octet) /\ c \in Seq(Octet)
    BY <1>1, <1>3
  <2> HIDE DEF a, b, c
  <2>3. (a \o b) \o c = a \o (b \o c)
    BY <2>2, Associates
  <2>4. a \o <<>> = a
    BY <2>2, ConcatEmptySeq
  <2> QED BY <2>1, <2>3, <2>4
<1> QED BY <1>3, <1>4, <1>5, SameAhead

LEMMA AppendAhead ==
  ASSUME SlaveTypes, DataTypes, kind \notin {"can", "sxi"},
         packets' = Append(packets, chunk), chunk' = <<>>,
         UNCHANGED <<setup, receiver, line, found, heard>>
  PROVE  heard' \o ToCome' = heard \o ToCome /\ Clear(Coming') = Clear(Coming)
<1>1. Waiting \in Seq(Octet) /\ chunk \in Seq(Octet) /\ FlattenSeq(line) \in Seq(Octet)
  BY AheadTyped
<1>2. packets \in Seq(Seq(Octet))
  BY DEF DataTypes
<1>3. kind' = kind
  BY DEF kind
<1>4. Decoded' = Decoded
  BY <1>3 DEF Decoded
<1>5. Waiting' = Waiting \o chunk
  <2>1. FlattenSeq(Append(packets, chunk)) = FlattenSeq(packets) \o chunk
    BY <1>1, <1>2, FlattenAppend
  <2> QED BY <2>1, <1>3 DEF Waiting
<1>6. Waiting' \o <<>> = Waiting'
  <2>1. Waiting \o chunk \in Seq(Octet)
    BY <1>1
  <2> DEFINE a == Waiting \o chunk
  <2>2. a \in Seq(Octet) /\ Waiting' = a
    BY <1>5, <2>1
  <2> HIDE DEF a
  <2> QED BY <2>2, ConcatEmptySeq
<1>7. Ahead' = Ahead
  BY <1>5, <1>6 DEF Ahead
<1> QED BY <1>4, <1>7, SameAhead

LEMMA DecodeAhead ==
  ASSUME SlaveTypes, DataTypes, kind = "sxi", found = <<>>, packets # <<>>,
         found' = <<Head(packets)>>, packets' = Tail(packets),
         UNCHANGED <<setup, receiver, line, chunk, heard>>
  PROVE  heard' \o ToCome' = heard \o ToCome /\ Clear(Coming') = Clear(Coming)
<1>1. packets \in Seq(FrameRecords)
  BY DEF DataTypes
<1>2. kind' = kind
  BY DEF kind
<1>3. Ahead' = Ahead
  BY <1>2 DEF Ahead, Waiting
<1>4. Decoded' = <<Head(packets)>> \o Tail(packets) /\ Decoded = <<>> \o packets
  BY <1>2 DEF Decoded
<1>5. <<Head(packets)>> \o Tail(packets) = packets /\ <<>> \o packets = packets
  BY <1>1
<1> QED BY <1>3, <1>4, <1>5, SameAhead

(* A receiver is fed with the first of what is ahead.                      *)
LEMMA FedAhead ==
  ASSUME Ready(kind, setup.format, receiver), kind # "can", NEW s \in Seq(Octet), NEW t \in Seq(Octet),
         Ahead = s \o t, Ahead' = t,
         NEW r, r = FedTo(kind, setup.format, receiver, s),
         receiver' = Clear(r), UNCHANGED <<setup, heard>>,
         Decoded \in Seq(FrameRecords), Decoded' = Decoded \o r.out
  PROVE  /\ heard' \o ToCome' = heard \o ToCome /\ Clear(Coming') = Clear(Coming)
         /\ Ready(kind, setup.format, Clear(r)) /\ Clear(r).out = <<>> /\ r.out \in Seq(FrameRecords)
<1> DEFINE f == setup.format
<1>1. kind' = kind
  BY DEF kind
<1>2. Ready(kind, f, r)
  BY FedReady
<1>3. Ready(kind, f, Clear(r)) /\ Clear(r).out = <<>> /\ r.out \in Seq(FrameRecords)
  <2>1. /\ Clear(r) \in Receivers /\ Clear(r).out = <<>> /\ Clear(r).length = r.length
    BY <1>2, ClearIs DEF Ready
  <2> QED BY <2>1, <1>2, ReceiverTyped DEF Ready
<1>4. Joins(FedTo(kind, f, receiver, s \o t), r, FedTo(kind, f, Clear(r), t))
  BY FedOn
<1>5. Coming = FedTo(kind, f, receiver, s \o t) /\ Coming' = FedTo(kind, f, Clear(r), t)
  BY <1>1 DEF Coming
<1>6. Coming.out = r.out \o Coming'.out /\ Clear(Coming) = Clear(Coming')
  BY <1>4, <1>5 DEF Joins
<1>7. Coming'.out \in Seq(FrameRecords)
  <2>1. Ready(kind, f, FedTo(kind, f, Clear(r), t))
    BY ONLY <1>3, t \in Seq(Octet), FedReady
  <2> QED BY <2>1, <1>5, ReceiverTyped
<1>8. ToCome' = ToCome
  <2> DEFINE a == Decoded
             b == r.out
             c == Coming'.out
  <2>1. ToCome' = PacketsOf((a \o b) \o c) /\ ToCome = PacketsOf(a \o (b \o c))
    BY <1>1, <1>6 DEF ToCome
  <2>2. a \in Seq(FrameRecords) /\ b \in Seq(FrameRecords) /\ c \in Seq(FrameRecords)
    BY <1>3, <1>7
  <2> HIDE DEF a, b, c
  <2>3. (a \o b) \o c = a \o (b \o c)
    BY ONLY <2>2
  <2> QED BY <2>1, <2>3
<1> QED BY <1>3, <1>6, <1>8

LEMMA EmptyFirst ==
  ASSUME NEW Items, NEW s \in Seq(Items)
  PROVE  <<>> \o s = s /\ s \o <<>> = s
  BY ConcatEmptySeq

LEMMA AppendSxi ==
  ASSUME SlaveTypes, DataTypes, kind = "sxi",
         NEW r, r = FedTo(kind, setup.format, receiver, chunk),
         packets' = packets \o r.out, receiver' = [r EXCEPT !.out = <<>>], chunk' = <<>>,
         UNCHANGED <<setup, line, found, heard>>
  PROVE  /\ heard' \o ToCome' = heard \o ToCome /\ Clear(Coming') = Clear(Coming)
         /\ Ready(kind, setup.format, receiver') /\ receiver'.out = <<>>
         /\ packets' \in Seq(FrameRecords)
<1>1. /\ chunk \in Seq(Octet) /\ FlattenSeq(line) \in Seq(Octet)
      /\ Ready(kind, setup.format, receiver) /\ Decoded \in Seq(FrameRecords)
  BY AheadTyped
<1>2. packets \in Seq(FrameRecords) /\ found \in Seq(FrameRecords)
  BY DEF DataTypes
<1>3. kind' = kind
  BY DEF kind
<1>4. Ahead = chunk \o FlattenSeq(line)
  <2>1. <<>> \o chunk = chunk
    BY <1>1, EmptyFirst
  <2> QED BY <2>1 DEF Ahead, Waiting
<1>5. Ahead' = FlattenSeq(line)
  <2>1. <<>> \o <<>> = <<>>
    OBVIOUS
  <2>2. <<>> \o FlattenSeq(line) = FlattenSeq(line)
    <3> DEFINE s == FlattenSeq(line)
    <3>1. s \in Seq(Octet)
      BY <1>1
    <3> HIDE DEF s
    <3>2. <<>> \o s = s
      BY <3>1, EmptyFirst
    <3> QED BY <3>2 DEF s
  <2> QED BY <2>1, <2>2, <1>3 DEF Ahead, Waiting
<1>6. r.out \in Seq(FrameRecords)
  <2>1. Ready(kind, setup.format, r)
    BY <1>1, FedReady
  <2> QED BY <2>1, ReceiverTyped
<1>7. Decoded' = Decoded \o r.out
  <2> DEFINE e == r.out
  <2>1. e \in Seq(FrameRecords)
    BY <1>6
  <2>2. Decoded' = found \o (packets \o e) /\ Decoded = found \o packets
    BY <1>3 DEF Decoded
  <2> HIDE DEF e
  <2>3. (found \o packets) \o e = found \o (packets \o e)
    BY ONLY <2>1, <1>2
  <2> QED BY <2>2, <2>3 DEF e
<1>8. receiver' = Clear(r)
  BY DEF Clear
<1>9. packets' \in Seq(FrameRecords)
  BY <1>2, <1>6
<1>10. /\ heard' \o ToCome' = heard \o ToCome /\ Clear(Coming') = Clear(Coming)
       /\ Ready(kind, setup.format, Clear(r)) /\ Clear(r).out = <<>>
  <2> DEFINE t == FlattenSeq(line)
  <2>1. t \in Seq(Octet) /\ Ahead = chunk \o t /\ Ahead' = t
    BY <1>1, <1>4, <1>5
  <2> HIDE DEF t
  <2> QED BY <2>1, <1>1, <1>7, <1>8, FedAhead
<1> QED BY <1>8, <1>9, <1>10

LEMMA FeedDecoded ==
  ASSUME SlaveTypes, DataTypes, kind \notin {"can", "sxi"}, found = <<>>, packets # <<>>,
         NEW r, r = FedTo(kind, setup.format, receiver, Head(packets)),
         found' = r.out, receiver' = [r EXCEPT !.out = <<>>], packets' = Tail(packets),
         UNCHANGED <<setup, line, chunk, heard>>
  PROVE  /\ heard' \o ToCome' = heard \o ToCome /\ Clear(Coming') = Clear(Coming)
         /\ Ready(kind, setup.format, receiver') /\ receiver'.out = <<>>
         /\ found' \in Seq(FrameRecords) /\ packets' \in Seq(Seq(Octet))
<1>1. /\ chunk \in Seq(Octet) /\ FlattenSeq(line) \in Seq(Octet)
      /\ Ready(kind, setup.format, receiver)
  BY AheadTyped
<1>2. packets \in Seq(Seq(Octet))
  BY DEF DataTypes
<1>3. kind' = kind
  BY DEF kind
<1>4. /\ Head(packets) \in Seq(Octet) /\ Tail(packets) \in Seq(Seq(Octet))
      /\ FlattenSeq(packets) = Head(packets) \o FlattenSeq(Tail(packets))
  BY <1>2, FlattenFirst
<1>5. FlattenSeq(Tail(packets)) \in Seq(Octet)
  BY <1>4, FlattenSome
<1> DEFINE s == Head(packets)
           t == (FlattenSeq(Tail(packets)) \o chunk) \o FlattenSeq(line)
<1>6. t \in Seq(Octet)
  BY <1>1, <1>5
<1>7. Ahead' = t
  BY <1>3 DEF Ahead, Waiting
<1>8. Ahead = s \o t
  <2> DEFINE a == FlattenSeq(Tail(packets))
             b == chunk
             c == FlattenSeq(line)
  <2>1. Ahead = ((s \o a) \o b) \o c /\ t = (a \o b) \o c
    BY <1>4 DEF Ahead, Waiting
  <2>2. a \in Seq(Octet) /\ b \in Seq(Octet) /\ c \in Seq(Octet) /\ s \in Seq(Octet)
    BY <1>1, <1>4, <1>5
  <2> HIDE DEF a, b, c, s, t
  <2>3. (s \o a) \o b = s \o (a \o b) /\ a \o b \in Seq(Octet)
    BY ONLY <2>2
  <2> DEFINE d == a \o b
  <2>4. d \in Seq(Octet)
    BY <2>3
  <2>5. Ahead = (s \o d) \o c /\ t = d \o c
    BY <2>1, <2>3
  <2> HIDE DEF d
  <2>6. (s \o d) \o c = s \o (d \o c)
    BY ONLY <2>2, <2>4
  <2> QED BY <2>5, <2>6
<1>9. Decoded = <<>> /\ Decoded' = <<>> \o r.out /\ Decoded \in Seq(FrameRecords)
  <2>1. r.out \in Seq(FrameRecords)
    <3>1. Ready(kind, setup.format, r)
      BY <1>1, <1>4, FedReady
    <3> QED BY <3>1, ReceiverTyped
  <2> DEFINE e == r.out
  <2>2. e \in Seq(FrameRecords) /\ Decoded = <<>> /\ Decoded' = e
    BY <2>1, <1>3 DEF Decoded
  <2> HIDE DEF e
  <2>3. <<>> \o e = e /\ <<>> \in Seq(FrameRecords)
    BY ONLY <2>2, EmptyFirst
  <2> QED BY <2>2, <2>3 DEF e
<1>10. receiver' = Clear(r)
  BY DEF Clear
<1>11. /\ heard' \o ToCome' = heard \o ToCome /\ Clear(Coming') = Clear(Coming)
       /\ Ready(kind, setup.format, Clear(r)) /\ Clear(r).out = <<>> /\ r.out \in Seq(FrameRecords)
  <2>1. s \in Seq(Octet) /\ r = FedTo(kind, setup.format, receiver, s) /\ Decoded' = Decoded \o r.out
    BY <1>4, <1>9
  <2> HIDE DEF s, t
  <2> QED BY <2>1, <1>1, <1>6, <1>7, <1>8, <1>9, <1>10, FedAhead
<1> QED BY <1>4, <1>10, <1>11

(* The frames found are handed on first.                                   *)
LEMMA FoundFirst ==
  ASSUME SlaveTypes, DataTypes
  PROVE  \E rest \in Seq(Seq(Octet)) :
           /\ ToCome = PacketsOf(found) \o rest
           /\ \A fs \in Seq(FrameRecords) :
                (found' = fs /\ UNCHANGED <<setup, line, packets, receiver, chunk>>)
                  => ToCome' = PacketsOf(fs) \o rest
<1>1. found \in Seq(FrameRecords)
  BY DEF DataTypes
<1>2. CASE kind = "can"
  <2> DEFINE rest == FlattenSeq(Takens(line))
  <2>1. rest \in Seq(Seq(Octet))
    <3>1. line \in Seq(CanMessages)
      BY <1>2 DEF SlaveTypes
    <3>2. Takens(line) \in Seq(Seq(Seq(Octet)))
      BY <3>1, TakensTyped
    <3> QED BY <3>2, FlattenSome
  <2>2. ToCome = PacketsOf(found) \o rest
    BY <1>2 DEF ToCome
  <2>3. ASSUME NEW fs \in Seq(FrameRecords), found' = fs, UNCHANGED <<setup, line>>
        PROVE  ToCome' = PacketsOf(fs) \o rest
    <3>1. kind' = kind /\ Takens(line') = Takens(line)
      <4>1. \A m : Taken(m)' = Taken(m)
        BY <2>3 DEF Taken, Accepts, PacketOf
      <4> QED BY <2>3, <4>1 DEF kind, Takens
    <3>2. Takens(line)' = Takens(line)
      BY <2>3 DEF Takens, Taken, Accepts, PacketOf
    <3> QED BY <2>3, <3>1, <3>2, <1>2 DEF ToCome
  <2> HIDE DEF rest
  <2> QED BY <2>1, <2>2, <2>3
<1>3. CASE kind # "can"
  <2> DEFINE q == IF kind = "sxi" THEN packets ELSE <<>>
             e == Coming.out
             rest == PacketsOf(q \o e)
  <2>1. e \in Seq(FrameRecords) /\ Decoded \in Seq(FrameRecords)
    BY <1>3, AheadTyped
  <2>2. q \in Seq(FrameRecords)
    BY DEF DataTypes
  <2>3. q \o e \in Seq(FrameRecords)
    BY <2>1, <2>2
  <2>4. \A fs \in Seq(FrameRecords) :
          PacketsOf((IF kind = "sxi" THEN fs \o packets ELSE fs) \o e) = PacketsOf(fs) \o rest
    <3> SUFFICES ASSUME NEW fs \in Seq(FrameRecords)
                 PROVE  PacketsOf((IF kind = "sxi" THEN fs \o packets ELSE fs) \o e) = PacketsOf(fs) \o rest
      OBVIOUS
    <3>1. (IF kind = "sxi" THEN fs \o packets ELSE fs) = fs \o q
      <4>1. fs \o <<>> = fs
        BY EmptyFirst
      <4> QED BY <4>1
    <3> HIDE DEF q, e
    <3>2. (fs \o q) \o e = fs \o (q \o e)
      BY ONLY <2>1, <2>2, fs \in Seq(FrameRecords)
    <3>3. PacketsOf(fs \o (q \o e)) = PacketsOf(fs) \o PacketsOf(q \o e)
      BY ONLY <2>3, fs \in Seq(FrameRecords), PacketsConcat
    <3> QED BY <3>1, <3>2, <3>3
  <2>5. rest \in Seq(Seq(Octet))
    BY <2>3, PacketsTyped
  <2>6. ToCome = PacketsOf((IF kind = "sxi" THEN found \o packets ELSE found) \o e)
    BY <1>3 DEF ToCome, Decoded
  <2>7. ASSUME NEW fs \in Seq(FrameRecords), found' = fs,
               UNCHANGED <<setup, line, packets, receiver, chunk>>
        PROVE  ToCome' = PacketsOf((IF kind = "sxi" THEN fs \o packets ELSE fs) \o e)
    <3>1. kind' = kind /\ Ahead' = Ahead
      BY <2>7 DEF kind, Ahead, Waiting
    <3>2. Coming' = Coming
      BY <2>7, <3>1 DEF Coming
    <3> QED BY <2>7, <3>1, <3>2, <1>3 DEF ToCome, Decoded
  <2> HIDE DEF e, rest, q
  <2>8. ToCome = PacketsOf(found) \o rest
    BY <2>4, <2>6, <1>1
  <2> QED BY <2>4, <2>5, <2>7, <2>8
<1> QED BY <1>2, <1>3

LEMMA HandStep ==
  ASSUME SlaveTypes, DataTypes, found # <<>>,
         heard' = Append(heard, Head(found).packet), found' = Tail(found),
         UNCHANGED <<setup, line, packets, receiver, chunk>>
  PROVE  /\ heard' \o ToCome' = heard \o ToCome
         /\ kind # "can" => Clear(Coming') = Clear(Coming)
         /\ Head(found).packet \in Seq(Octet) /\ Tail(found) \in Seq(FrameRecords)
         /\ heard' \in Seq(Seq(Octet))
         /\ ToCome # <<>> /\ Head(ToCome) = Head(found).packet
<1> DEFINE p == Head(found).packet
           b == PacketsOf(Tail(found))
<1>1. found \in Seq(FrameRecords) /\ heard \in Seq(Seq(Octet))
  BY DEF DataTypes
<1>2. /\ Head(found) \in FrameRecords /\ Tail(found) \in Seq(FrameRecords)
      /\ PacketsOf(found) = <<p>> \o b
  BY <1>1, PacketsHead
<1>3. p \in Seq(Octet) /\ b \in Seq(Seq(Octet))
  BY <1>2, PacketsTyped DEF FrameRecords
<1>4. PICK rest \in Seq(Seq(Octet)) :
           /\ ToCome = PacketsOf(found) \o rest
           /\ \A fs \in Seq(FrameRecords) :
                (found' = fs /\ UNCHANGED <<setup, line, packets, receiver, chunk>>)
                  => ToCome' = PacketsOf(fs) \o rest
  BY FoundFirst
<1>5. ToCome = (<<p>> \o b) \o rest /\ ToCome' = b \o rest
  BY <1>2, <1>4
<1>6. heard' = heard \o <<p>> /\ heard' \in Seq(Seq(Octet))
  <2>1. heard' = Append(heard, p)
    OBVIOUS
  <2> HIDE DEF p
  <2> QED BY <2>1, <1>1, <1>3
<1> HIDE DEF p, b
<1>7. b \o rest \in Seq(Seq(Octet)) /\ <<p>> \in Seq(Seq(Octet))
  BY <1>3
<1>8. (<<p>> \o b) \o rest = <<p>> \o (b \o rest)
  BY ONLY <1>3, <1>7, rest \in Seq(Seq(Octet))
<1> DEFINE d == b \o rest
           l == <<p>>
<1>9. d \in Seq(Seq(Octet)) /\ l \in Seq(Seq(Octet)) /\ ToCome = l \o d /\ ToCome' = d /\ heard' = heard \o l
  BY <1>5, <1>6, <1>7, <1>8
<1> HIDE DEF d, l
<1>9a. heard \in Seq(Seq(Octet)) /\ l \in Seq(Seq(Octet)) /\ d \in Seq(Seq(Octet))
  BY <1>1, <1>9
<1>10. (heard \o l) \o d = heard \o (l \o d)
  <2> DEFINE e == heard
  <2> HIDE DEF e
  <2>1. e \in Seq(Seq(Octet)) /\ l \in Seq(Seq(Octet)) /\ d \in Seq(Seq(Octet))
    BY <1>9a DEF e
  <2>2. (e \o l) \o d = e \o (l \o d)
    BY ONLY <2>1
  <2> QED BY <2>2 DEF e
<1>11. heard' \o ToCome' = heard \o ToCome
  BY <1>9, <1>10
<1>12. ToCome # <<>> /\ Head(ToCome) = p
  <2>1. ToCome = <<p>> \o d
    BY <1>9 DEF l
  <2>2. \A z : z \in Seq(Octet) => <<z>> \o d # <<>> /\ Head(<<z>> \o d) = z
    <3> SUFFICES ASSUME NEW z \in Seq(Octet) PROVE <<z>> \o d # <<>> /\ Head(<<z>> \o d) = z
      OBVIOUS
    <3>1. <<z>> \in Seq(Seq(Octet)) /\ Len(<<z>>) = 1 /\ <<z>>[1] = z
      OBVIOUS
    <3>2. Len(<<z>> \o d) = 1 + Len(d) /\ (<<z>> \o d)[1] = z
      BY ONLY <3>1, <1>9a, Joining
    <3>3. Len(d) \in Nat
      BY <1>9
    <3> QED BY <3>2, <3>3
  <2> QED BY <2>1, <2>2, <1>3
<1>13. kind # "can" => Clear(Coming') = Clear(Coming)
  <2>1. kind' = kind /\ Ahead' = Ahead
    BY DEF kind, Ahead, Waiting
  <2> QED BY <2>1 DEF Coming
<1> QED BY <1>2, <1>3, <1>6, <1>11, <1>12, <1>13 DEF p

LEMMA ReceiveStep ==
  ASSUME SlaveTypes, DataTypes, kind = "can", found = <<>>, line # <<>>, line' = Tail(line),
         found' = IF Accepts(Head(line)) THEN <<Frame(0, PacketOf(Head(line)))>> ELSE found,
         UNCHANGED <<setup, heard>>
  PROVE  /\ heard' \o ToCome' = heard \o ToCome
         /\ found' \in Seq(FrameRecords) /\ line' \in Seq(CanMessages)
<1>1. line \in Seq(CanMessages)
  BY DEF SlaveTypes
<1>2. kind' = kind /\ Takens(line)' = Takens(line')
  <2>1. \A ms : Takens(ms)' = [i \in 1 .. Len(ms') |-> Taken(ms[i])']
    BY DEF Takens
  <2> QED BY DEF kind, Takens, Taken, Accepts, PacketOf
<1>3. /\ Head(line) \in CanMessages /\ Tail(line) \in Seq(CanMessages) /\ Takens(line) # <<>>
      /\ Head(Takens(line)) = Taken(Head(line)) /\ Tail(Takens(line)) = Takens(Tail(line))
  BY <1>1, TakensHead
<1>4. FlattenSeq(Takens(line)) = Taken(Head(line)) \o FlattenSeq(Takens(Tail(line)))
  <2>1. Takens(line) \in Seq(Seq(Seq(Octet)))
    BY <1>1, TakensTyped
  <2> QED BY <2>1, <1>3, FlattenFirst
<1>5. PacketsOf(found') = Taken(Head(line)) /\ found' \in Seq(FrameRecords)
  <2>1. CASE Accepts(Head(line))
    <3>1. PacketOf(Head(line)) \in Seq(Octet) /\ Taken(Head(line)) = <<PacketOf(Head(line))>>
      BY <2>1, <1>3, PacketTyped
    <3> DEFINE p == PacketOf(Head(line))
               g == Frame(0, p)
    <3>2. found' = <<g>>
      BY <2>1
    <3> HIDE DEF p
    <3>3. g \in FrameRecords /\ g.packet = p
      BY <3>1, LikeFrame DEF p
    <3> HIDE DEF g
    <3>4. PacketsOf(<<g>>) = <<g.packet>>
      BY PacketsOne
    <3> QED BY <3>1, <3>2, <3>3, <3>4 DEF p
  <2>2. CASE ~Accepts(Head(line))
    <3>1. found' = <<>> /\ Taken(Head(line)) = <<>>
      BY <2>2 DEF Taken
    <3> QED BY <3>1, PacketsOne
  <2> QED BY <2>1, <2>2
<1>6. PacketsOf(found) = <<>>
  BY PacketsOne
<1>7. ToCome = <<>> \o (Taken(Head(line)) \o FlattenSeq(Takens(Tail(line))))
  BY <1>4, <1>6 DEF ToCome
<1>8. ToCome' = Taken(Head(line)) \o FlattenSeq(Takens(Tail(line)))
  BY <1>2, <1>5 DEF ToCome
<1>9. ToCome' \in Seq(Seq(Octet))
  <2>1. Taken(Head(line)) \in Seq(Seq(Octet))
    BY <1>3 DEF CanMessages
  <2>2. FlattenSeq(Takens(Tail(line))) \in Seq(Seq(Octet))
    <3>1. Takens(Tail(line)) \in Seq(Seq(Seq(Octet)))
      BY <1>3, TakensTyped
    <3> QED BY <3>1, FlattenSome
  <2> DEFINE a == Taken(Head(line))
             b == FlattenSeq(Takens(Tail(line)))
  <2>3. a \in Seq(Seq(Octet)) /\ b \in Seq(Seq(Octet)) /\ ToCome' = a \o b
    BY <2>1, <2>2, <1>8
  <2> HIDE DEF a, b
  <2> QED BY <2>3
<1>10. ToCome = <<>> \o ToCome'
  BY <1>7, <1>8
<1>11. \E t \in Seq(Seq(Octet)) : t = ToCome'
  BY <1>9
<1>12. PICK t \in Seq(Seq(Octet)) : t = ToCome'
  BY <1>11
<1>13. <<>> \o t = t
  BY EmptyFirst
<1> QED BY <1>3, <1>5, <1>10, <1>12, <1>13

(* A step that leaves all that is on its way alone.                        *)
LEMMA SlaveKept ==
  ASSUME SlaveTypes, UNCHANGED <<setup, sent, lost, broken, peer, faults>>,
         line' \in IF kind = "can" THEN Seq(CanMessages) ELSE Seq(Seq(Octet) \ {<<>>})
  PROVE  SlaveTypes'
<1>1. kind' = kind /\ CanMessages' = CanMessages
  BY DEF kind, CanMessages, Taken, Accepts, PacketOf
<1> QED BY <1>1 DEF SlaveTypes

LEMMA DataKept ==
  ASSUME SlaveTypes, DataTypes, StreamInv,
         UNCHANGED <<setup, sent, lost, broken, peer, faults, line, chunk, packets, receiver, found,
                     heard, fed>>
  PROVE  SlaveTypes' /\ StreamInv' /\ (count' \in 0 .. Len(packets) => DataTypes')
<1>1. line \in IF kind = "can" THEN Seq(CanMessages) ELSE Seq(Seq(Octet) \ {<<>>})
  BY DEF SlaveTypes
<1>2. SlaveTypes'
  BY <1>1, SlaveKept
<1>3. kind' = kind
  BY DEF kind
<1>4. StreamInv'
  <2>1. Takens(line)' = Takens(line)
    BY DEF Takens, Taken, Accepts, PacketOf
  <2>2. Ahead' = Ahead /\ Decoded' = Decoded
    BY <1>3 DEF Ahead, Waiting, Decoded
  <2>3. Coming' = Coming
    BY <1>3, <2>2 DEF Coming
  <2>4. ToCome' = ToCome
    BY <1>3, <2>1, <2>2, <2>3 DEF ToCome
  <2> QED BY <2>3, <2>4, SameStream
<1>5. count' \in 0 .. Len(packets) => DataTypes'
  BY <1>3 DEF DataTypes
<1> QED BY <1>2, <1>4, <1>5

ListenInv == SlaveTypes /\ ThreadTypes /\ DataTypes /\ StreamInv
Quiet == UNCHANGED <<sent, lost, broken, heard>>

LEMMA CheckSteps ==
  ASSUME ListenInv, ReaderCheck \/ ReaderTimeout \/ ListenerCheck \/ ListenerTimeout \/ ListenerDone
  PROVE  ListenInv' /\ Quiet
<1>1. SlaveTypes /\ ThreadTypes /\ DataTypes /\ StreamInv
  BY DEF ListenInv
<1>2. /\ UNCHANGED <<setup, sent, lost, broken, peer, faults, line, chunk, packets, receiver, found,
                     heard, fed, count, closeEvent, program>>
      /\ \/ socketOpen' = socketOpen
         \/ socketOpen' = (socketOpen /\ peer = "open")
  BY DEF ReaderCheck, ReaderTimeout, ListenerCheck, ListenerTimeout, ListenerDone, slaveVars,
     listenerVars, programVars, subVars, readerVars, feeding
<1>3. count \in 0 .. Len(packets)
  BY <1>1 DEF DataTypes
<1>4. SlaveTypes' /\ StreamInv' /\ DataTypes'
  BY <1>1, <1>2, <1>3, DataKept
<1>5. kind' = kind
  BY <1>2 DEF kind
<1>6. /\ reader' \in {"check", "read", "append"} \cup Ended
      /\ listener' \in {"check", "wait", "batch"} \cup Ended
      /\ program' = "new" => reader' = "none" /\ listener' = "none"
      /\ kind = "can" => reader' = "none"
      /\ (chunk' # <<>>) = (reader' = "append")
      /\ found' # <<>> \/ count' > 0 => listener' = "batch" \/ (listener' = "ended" /\ broken')
  <2>1. CASE ReaderCheck
    BY <2>1, <1>1, <1>2 DEF ReaderCheck, ThreadTypes, listenerVars, Ended
  <2>2. CASE ReaderTimeout
    BY <2>2, <1>1, <1>2 DEF ReaderTimeout, ThreadTypes, listenerVars, Ended
  <2>3. CASE ListenerCheck
    BY <2>3, <1>1, <1>2 DEF ListenerCheck, ThreadTypes, readerVars, Ended
  <2>4. CASE ListenerTimeout
    BY <2>4, <1>1, <1>2 DEF ListenerTimeout, ThreadTypes, readerVars, Ended
  <2>5. CASE ListenerDone
    BY <2>5, <1>1, <1>2 DEF ListenerDone, ThreadTypes, readerVars, Ended
  <2> QED BY <2>1, <2>2, <2>3, <2>4, <2>5
<1>7. ThreadTypes'
  BY <1>1, <1>2, <1>5, <1>6 DEF ThreadTypes, SlaveTypes
<1> QED BY <1>2, <1>4, <1>7 DEF ListenInv, Quiet

LEMMA ProgramStep ==
  ASSUME ListenInv, Program
  PROVE  ListenInv' /\ Quiet
<1>1. SlaveTypes /\ ThreadTypes /\ DataTypes /\ StreamInv
  BY DEF ListenInv
<1>2. UNCHANGED <<setup, sent, lost, broken, peer, faults, line, chunk, packets, receiver, found,
                  heard, fed, count>>
  BY DEF Program, Connect, MasterClose, FinishListener, CloseConnection, FinalizePolicy, slaveVars,
     listenerVars, readerVars, subVars, feeding
<1>3. count \in 0 .. Len(packets)
  BY <1>1 DEF DataTypes
<1>4. SlaveTypes' /\ StreamInv' /\ DataTypes'
  BY <1>1, <1>2, <1>3, DataKept
<1>5. kind' = kind
  BY <1>2 DEF kind
<1>6. /\ reader' \in {"check", "read", "append"} \cup Ended
      /\ listener' \in {"check", "wait", "batch"} \cup Ended
      /\ program' \in {"open", "finalizing", "joining", "closed", "left"}
      /\ kind = "can" => reader' = "none"
      /\ (chunk' # <<>>) = (reader' = "append")
      /\ found' # <<>> \/ count' > 0 => listener' = "batch" \/ (listener' = "ended" /\ broken')
      /\ socketOpen' \in BOOLEAN /\ closeEvent' \in BOOLEAN
  <2>1. CASE Connect
    BY <2>1, <1>1, <1>2 DEF Connect, ThreadTypes, Ended
  <2>2. CASE MasterClose
    BY <2>2, <1>1, <1>2 DEF MasterClose, ThreadTypes, readerVars, listenerVars
  <2>3. CASE FinishListener
    BY <2>3, <1>1, <1>2 DEF FinishListener, ThreadTypes, readerVars, listenerVars
  <2>4. CASE CloseConnection
    BY <2>4, <1>1, <1>2 DEF CloseConnection, ThreadTypes, readerVars, listenerVars
  <2> QED BY <2>1, <2>2, <2>3, <2>4 DEF Program
<1>7. ThreadTypes'
  BY <1>5, <1>6 DEF ThreadTypes
<1> QED BY <1>2, <1>4, <1>7 DEF ListenInv, Quiet

LEMMA OtherStep ==
  ASSUME ListenInv, Subscription \/ UNCHANGED vars
  PROVE  ListenInv' /\ Quiet
<1>1. SlaveTypes /\ ThreadTypes /\ DataTypes /\ StreamInv
  BY DEF ListenInv
<1>2. /\ UNCHANGED <<setup, sent, lost, broken, peer, faults, line, chunk, packets, receiver, found,
                     heard, count, closeEvent, program, socketOpen, reader, listener>>
      /\ UNCHANGED fed
  <2>1. UNCHANGED listeningVars
    BY DEF Subscription, vars
  <2>2. UNCHANGED fed
    <3>1. CASE UNCHANGED vars
      BY <3>1 DEF vars, subVars, feeding
    <3>2. ASSUME NEW s \in setup.subs, SubStep(s) PROVE UNCHANGED fed
      BY <3>2 DEF SubStep, SubscribeTest, SubscribeAdd, Publish, RunLoop, Enqueue, CloseQueue, Close,
         FinalizeClose, GetAtOnce, GetWaits, GetReturns, feeding
    <3> QED BY <3>1, <3>2 DEF Subscription
  <2> QED BY <2>1, <2>2 DEF listeningVars, slaveVars, readerVars, listenerVars, programVars
<1>3. count \in 0 .. Len(packets)
  BY <1>1 DEF DataTypes
<1>4. SlaveTypes' /\ StreamInv' /\ DataTypes'
  BY <1>1, <1>2, <1>3, DataKept
<1>7. ThreadTypes'
  BY <1>1, <1>2 DEF ThreadTypes, kind
<1> QED BY <1>2, <1>4, <1>7 DEF ListenInv, Quiet

LEMMA FlattenNonempty ==
  ASSUME NEW s \in Seq(Seq(Octet) \ {<<>>}), NEW n \in 1 .. Len(s)
  PROVE  FlattenSeq(SubSeq(s, 1, n)) # <<>>
<1> DEFINE t == SubSeq(s, 1, n)
<1>1. t \in Seq(Seq(Octet) \ {<<>>}) /\ t # <<>>
  <2>1. n \in Nat /\ n <= Len(s) /\ n # 0
    OBVIOUS
  <2>2. t \in Seq(Seq(Octet) \ {<<>>}) /\ Len(t) = n
    BY <2>1, FrontIs
  <2> HIDE DEF t
  <2> QED BY <2>1, <2>2
<1> HIDE DEF t
<1>2. Head(t) \in Seq(Octet) /\ Head(t) # <<>>
  BY <1>1
<1>3. /\ Tail(t) \in Seq(Seq(Octet)) /\ FlattenSeq(t) = Head(t) \o FlattenSeq(Tail(t))
  <2>1. t \in Seq(Seq(Octet))
    BY <1>1, LineTyped
  <2> QED BY <2>1, <1>1, FlattenFirst
<1>4. FlattenSeq(Tail(t)) \in Seq(Octet)
  BY <1>3, FlattenSome
<1>5. \A a, b \in Seq(Octet) : a # <<>> => a \o b # <<>>
  OBVIOUS
<1>6. FlattenSeq(t) # <<>>
  BY <1>2, <1>3, <1>4, <1>5
<1> QED BY <1>6 DEF t

LEMMA ReadStep ==
  ASSUME ListenInv, ReaderRead
  PROVE  ListenInv' /\ Quiet
<1>1. SlaveTypes /\ ThreadTypes /\ DataTypes /\ StreamInv
  BY DEF ListenInv
<1>2. /\ UNCHANGED <<setup, sent, lost, broken, peer, faults, packets, receiver, found,
                     heard, fed, count, closeEvent, program, socketOpen, listener>>
      /\ reader = "read" /\ reader' = "append" /\ line # <<>>
  BY DEF ReaderRead, listenerVars, programVars, subVars, feeding
<1>3. kind # "can" /\ chunk = <<>>
  BY <1>1, <1>2 DEF ThreadTypes
<1>4. line \in Seq(Seq(Octet) \ {<<>>})
  BY <1>1, <1>3 DEF SlaveTypes
<1>5. PICK n \in {k \in ReadSizes \cup {Len(line)} : k <= Len(line)} :
        /\ chunk' = FlattenSeq(SubSeq(line, 1, n))
        /\ line' = SubSeq(line, n + 1, Len(line))
  BY DEF ReaderRead
<1>6. n \in 1 .. Len(line) /\ n \in 0 .. Len(line)
  <2>1. Len(line) \in Nat /\ Len(line) >= 1
    BY <1>2, <1>4
  <2> QED BY <2>1, ReadsAssumption
<1>7. /\ heard' \o ToCome' = heard \o ToCome /\ Clear(Coming') = Clear(Coming)
      /\ chunk' \in Seq(Octet)
  BY <1>1, <1>2, <1>3, <1>5, <1>6, ReadAhead
<1>8. chunk' # <<>>
  BY <1>4, <1>5, <1>6, FlattenNonempty
<1>9. line' \in Seq(Seq(Octet) \ {<<>>})
  <2>1. n + 1 \in Nat \ {0} /\ n \in Nat
    BY <1>6
  <2> QED BY <2>1, <1>4, <1>5, <1>6
<1>10. SlaveTypes'
  BY <1>1, <1>2, <1>3, <1>9, SlaveKept
<1>11. StreamInv'
  BY <1>1, <1>2, <1>7, SameStream
<1>12. kind' = kind
  BY <1>2 DEF kind
<1>13. DataTypes'
  BY <1>1, <1>2, <1>7, <1>12 DEF DataTypes
<1>14. ThreadTypes'
  BY <1>1, <1>2, <1>8, <1>12 DEF ThreadTypes
<1> QED BY <1>2, <1>10, <1>11, <1>13, <1>14 DEF ListenInv, Quiet

LEMMA AppendStep ==
  ASSUME ListenInv, ReaderAppend
  PROVE  ListenInv' /\ Quiet
<1>1. SlaveTypes /\ ThreadTypes /\ DataTypes /\ StreamInv
  BY DEF ListenInv
<1>2. /\ UNCHANGED <<setup, sent, lost, broken, peer, faults, line, found,
                     heard, fed, count, closeEvent, program, socketOpen, listener>>
      /\ reader = "append" /\ reader' = "check" /\ chunk' = <<>>
  BY DEF ReaderAppend, slaveVars, listenerVars, programVars, subVars, feeding
<1>3. kind # "can" /\ kind' = kind /\ chunk \in Seq(Octet)
  BY <1>1, <1>2 DEF ThreadTypes, DataTypes, kind
<1>4. /\ heard' \o ToCome' = heard \o ToCome /\ Clear(Coming') = Clear(Coming)
      /\ Ready(kind, setup.format, receiver') /\ receiver'.out = <<>>
      /\ packets' \in IF kind = "sxi" THEN Seq(FrameRecords) ELSE Seq(Seq(Octet))
      /\ Len(packets) <= Len(packets')
  <2>1. CASE kind = "sxi"
    <3> DEFINE r == FedTo(kind, setup.format, receiver, chunk)
    <3>1. packets' = packets \o r.out /\ receiver' = [r EXCEPT !.out = <<>>]
      BY <2>1 DEF ReaderAppend
    <3>2. r.out \in Seq(FrameRecords) /\ packets \in Seq(FrameRecords)
      <4>1. Ready(kind, setup.format, receiver)
        BY <1>1 DEF DataTypes
      <4>2. Ready(kind, setup.format, r)
        BY <4>1, <1>3, FedReady
      <4> QED BY <4>2, <2>1, <1>1, ReceiverTyped DEF DataTypes
    <3>3. \E q : q = r
      OBVIOUS
    <3> HIDE DEF r
    <3>4. Len(packets) <= Len(packets')
      <4> DEFINE e == r.out
      <4>1. e \in Seq(FrameRecords) /\ packets' = packets \o e
        BY <3>1, <3>2
      <4> HIDE DEF e
      <4>2. Len(packets \o e) = Len(packets) + Len(e) /\ Len(packets) \in Nat /\ Len(e) \in Nat
        BY <3>2, <4>1
      <4> QED BY <4>1, <4>2
    <3>5. PICK q : q = r
      BY <3>3
    <3>6. q = FedTo(kind, setup.format, receiver, chunk)
      BY <3>5 DEF r
    <3>7. /\ heard' \o ToCome' = heard \o ToCome /\ Clear(Coming') = Clear(Coming)
          /\ Ready(kind, setup.format, receiver') /\ receiver'.out = <<>>
          /\ packets' \in Seq(FrameRecords)
      BY <3>1, <3>5, <3>6, <2>1, <1>1, <1>2, AppendSxi
    <3> QED BY <2>1, <3>4, <3>7
  <2>2. CASE kind # "sxi"
    <3>1. packets' = Append(packets, chunk) /\ receiver' = receiver
      BY <2>2 DEF ReaderAppend
    <3>2. /\ heard' \o ToCome' = heard \o ToCome /\ Clear(Coming') = Clear(Coming)
      BY <3>1, <2>2, <1>1, <1>2, <1>3, AppendAhead
    <3>3. packets \in Seq(Seq(Octet)) /\ Ready(kind, setup.format, receiver) /\ receiver.out = <<>>
      BY <2>2, <1>1 DEF DataTypes
    <3>4. packets' \in Seq(Seq(Octet)) /\ Len(packets) <= Len(packets')
      <4>1. Append(packets, chunk) \in Seq(Seq(Octet)) /\ Len(Append(packets, chunk)) = Len(packets) + 1
            /\ Len(packets) \in Nat
        BY <3>3, <1>3
      <4> QED BY <4>1, <3>1
    <3> QED BY <2>2, <3>1, <3>2, <3>3, <3>4
  <2> QED BY <2>1, <2>2
<1>5. SlaveTypes'
  <2>1. line' \in IF kind = "can" THEN Seq(CanMessages) ELSE Seq(Seq(Octet) \ {<<>>})
    BY <1>1, <1>2 DEF SlaveTypes
  <2> QED BY <2>1, <1>1, <1>2, SlaveKept
<1>6. StreamInv'
  BY <1>1, <1>2, <1>4, SameStream
<1>7. DataTypes'
  <2>1. count \in 0 .. Len(packets')
    <3>1. Len(packets) \in Nat /\ Len(packets') \in Nat
      BY <1>1, <1>4 DEF DataTypes
    <3> QED BY <3>1, <1>1, <1>4 DEF DataTypes
  <2>2. chunk' \in Seq(Octet)
    BY <1>2
  <2> QED BY <2>1, <2>2, <1>1, <1>2, <1>3, <1>4 DEF DataTypes
<1>8. ThreadTypes'
  BY <1>1, <1>2, <1>3 DEF ThreadTypes
<1> QED BY <1>2, <1>5, <1>6, <1>7, <1>8 DEF ListenInv, Quiet

LEMMA BatchStep ==
  ASSUME ListenInv, ListenerBatch
  PROVE  ListenInv' /\ Quiet
<1>1. SlaveTypes /\ ThreadTypes /\ DataTypes /\ StreamInv
  BY DEF ListenInv
<1>2. /\ UNCHANGED <<setup, sent, lost, broken, peer, faults, line, chunk, packets, receiver, found,
                     heard, fed, closeEvent, program, socketOpen, reader>>
      /\ listener = "wait" /\ listener' = "batch" /\ packets # <<>> /\ kind # "can"
      /\ count' = 1 \/ count' = Len(packets)
  BY DEF ListenerBatch, slaveVars, readerVars, programVars, subVars, feeding, All
<1>3. count' \in 0 .. Len(packets)
  <2>1. Len(packets) \in Nat /\ Len(packets) >= 1
    <3>1. packets \in Seq(FrameRecords) \/ packets \in Seq(Seq(Octet))
      BY <1>1 DEF DataTypes
    <3> QED BY <3>1, <1>2
  <2> QED BY <2>1, <1>2
<1>4. SlaveTypes' /\ StreamInv' /\ DataTypes'
  BY <1>1, <1>2, <1>3, DataKept
<1>5. ThreadTypes'
  BY <1>1, <1>2 DEF ThreadTypes, kind
<1> QED BY <1>2, <1>4, <1>5 DEF ListenInv, Quiet

LEMMA DecodeStep ==
  ASSUME ListenInv, ListenerDecode
  PROVE  ListenInv' /\ Quiet
<1>1. SlaveTypes /\ ThreadTypes /\ DataTypes /\ StreamInv
  BY DEF ListenInv
<1>2. /\ UNCHANGED <<setup, sent, lost, broken, peer, faults, line, chunk,
                     heard, fed, closeEvent, program, socketOpen, reader, listener>>
      /\ listener = "batch" /\ found = <<>> /\ count > 0
      /\ count' = count - 1 /\ packets' = Tail(packets)
  BY DEF ListenerDecode, slaveVars, programVars, subVars, feeding
<1>3. kind' = kind
  BY <1>2 DEF kind
<1>4. /\ packets # <<>> /\ Len(Tail(packets)) = Len(packets) - 1 /\ Len(packets) \in Nat
      /\ kind = "sxi" => packets \in Seq(FrameRecords)
      /\ kind # "sxi" => packets \in Seq(Seq(Octet))
      /\ kind # "can"
  <2>1. packets \in Seq(FrameRecords) \/ packets \in Seq(Seq(Octet))
    BY <1>1 DEF DataTypes
  <2>2. Len(packets) \in Nat /\ count \in 0 .. Len(packets)
    BY <2>1, <1>1 DEF DataTypes
  <2>3. Len(packets) > 0
    BY <2>2, <1>2
  <2>4. packets # <<>> /\ Len(Tail(packets)) = Len(packets) - 1
    BY <2>1, <2>3
  <2> QED BY <2>2, <2>4, <1>1 DEF DataTypes
<1>5. /\ heard' \o ToCome' = heard \o ToCome /\ Clear(Coming') = Clear(Coming)
      /\ Ready(kind, setup.format, receiver') /\ receiver'.out = <<>>
      /\ found' \in Seq(FrameRecords)
      /\ packets' \in IF kind = "sxi" THEN Seq(FrameRecords) ELSE Seq(Seq(Octet))
  <2>1. CASE kind = "sxi"
    <3>1. found' = <<Head(packets)>> /\ receiver' = receiver
      BY <2>1 DEF ListenerDecode
    <3>2. /\ heard' \o ToCome' = heard \o ToCome /\ Clear(Coming') = Clear(Coming)
      BY <3>1, <2>1, <1>1, <1>2, <1>4, DecodeAhead
    <3>3. Ready(kind, setup.format, receiver) /\ receiver.out = <<>>
      BY <1>1 DEF DataTypes
    <3>4. packets' \in Seq(FrameRecords) /\ found' \in Seq(FrameRecords)
      BY <3>1, <2>1, <1>2, <1>4
    <3> QED BY <3>1, <3>2, <3>3, <3>4, <2>1
  <2>2. CASE kind # "sxi"
    <3> DEFINE r == FedTo(kind, setup.format, receiver, Head(packets))
    <3>1. found' = r.out /\ receiver' = [r EXCEPT !.out = <<>>]
      BY <2>2 DEF ListenerDecode
    <3>3. \E q : q = r
      OBVIOUS
    <3> HIDE DEF r
    <3>5. PICK q : q = r
      BY <3>3
    <3>6. q = FedTo(kind, setup.format, receiver, Head(packets))
      BY <3>5 DEF r
    <3>7. /\ heard' \o ToCome' = heard \o ToCome /\ Clear(Coming') = Clear(Coming)
          /\ Ready(kind, setup.format, receiver') /\ receiver'.out = <<>>
          /\ found' \in Seq(FrameRecords) /\ packets' \in Seq(Seq(Octet))
      BY <3>1, <3>5, <3>6, <2>2, <1>1, <1>2, <1>4, FeedDecoded
    <3> QED BY <3>7, <2>2
  <2> QED BY <2>1, <2>2
<1>6. SlaveTypes'
  <2>1. line' \in IF kind = "can" THEN Seq(CanMessages) ELSE Seq(Seq(Octet) \ {<<>>})
    BY <1>1, <1>2 DEF SlaveTypes
  <2> QED BY <2>1, <1>1, <1>2, SlaveKept
<1>7. StreamInv'
  BY <1>1, <1>2, <1>5, SameStream
<1>8. DataTypes'
  <2>1. count' \in 0 .. Len(packets')
    BY <1>1, <1>2, <1>4 DEF DataTypes
  <2> QED BY <2>1, <1>1, <1>2, <1>3, <1>4, <1>5 DEF DataTypes
<1>9. ThreadTypes'
  BY <1>1, <1>2, <1>3 DEF ThreadTypes
<1> QED BY <1>2, <1>6, <1>7, <1>8, <1>9 DEF ListenInv, Quiet

LEMMA MessageStep ==
  ASSUME ListenInv, ListenerReceive
  PROVE  ListenInv' /\ Quiet
<1>1. SlaveTypes /\ ThreadTypes /\ DataTypes /\ StreamInv
  BY DEF ListenInv
<1>2. /\ UNCHANGED <<setup, sent, lost, broken, peer, faults, chunk, packets, receiver, count,
                     heard, fed, closeEvent, program, socketOpen, reader>>
      /\ kind = "can" /\ listener = "wait" /\ line # <<>> /\ line' = Tail(line)
      /\ found' = IF Accepts(Head(line)) THEN <<Frame(0, PacketOf(Head(line)))>> ELSE found
      /\ listener' = "batch" \/ (listener' = "check" /\ found' = found)
  BY DEF ListenerReceive, programVars, subVars, feeding, readerVars
<1>3. kind' = kind
  BY <1>2 DEF kind
<1>4. found = <<>> /\ ~(count > 0)
  BY <1>1, <1>2 DEF ThreadTypes
<1>5. /\ heard' \o ToCome' = heard \o ToCome
      /\ found' \in Seq(FrameRecords) /\ line' \in Seq(CanMessages)
  BY <1>1, <1>2, <1>4, ReceiveStep
<1>6. SlaveTypes'
  BY <1>1, <1>2, <1>5, SlaveKept
<1>7. StreamInv'
  BY <1>1, <1>2, <1>5, SameStream
<1>8. DataTypes'
  BY <1>1, <1>2, <1>3, <1>5 DEF DataTypes
<1>9. ThreadTypes'
  BY <1>1, <1>2, <1>3, <1>4 DEF ThreadTypes
<1> QED BY <1>2, <1>6, <1>7, <1>8, <1>9 DEF ListenInv, Quiet

(* The packets sent are different and not empty.                           *)
LEMMA SentIs ==
  ASSUME SlaveTypes
  PROVE  /\ Len(sent) \in Nat /\ \A n \in 1 .. Len(sent) : sent[n] \in Seq(Octet) \ {<<>>}
         /\ \A i, j \in 1 .. Len(sent) : sent[i] = sent[j] => i = j
         /\ sent \in Seq(Seq(Octet))
<1> DEFINE ps == setup.packets
           l == Len(sent)
<1>1. ps \in Seq(Seq(Octet) \ {<<>>}) /\ Distinct(ps)
  BY SetupsAssumption DEF SlaveTypes
<1>2. sent = SubSeq(ps, 1, l) /\ l \in Nat /\ l <= Len(ps)
  BY DEF SlaveTypes
<1> HIDE DEF ps, l
<1>3. SubSeq(ps, 1, l) \in Seq(Seq(Octet) \ {<<>>}) /\ \A i \in 1 .. l : SubSeq(ps, 1, l)[i] = ps[i]
  BY <1>1, <1>2, FrontIs
<1>4. sent \in Seq(Seq(Octet) \ {<<>>}) /\ \A i \in 1 .. l : sent[i] = ps[i] /\ i \in 1 .. Len(ps)
  BY <1>1, <1>2, <1>3
<1>5. \A i, j \in 1 .. l : sent[i] = sent[j] => i = j
  BY <1>1, <1>4 DEF Distinct
<1>6. sent \in Seq(Seq(Octet)) /\ \A n \in 1 .. l : sent[n] \in Seq(Octet) \ {<<>>}
  <2>1. sent \in Seq(Seq(Octet))
    BY <1>4, LineTyped
  <2>2. \A s \in Seq(Seq(Octet) \ {<<>>}) : \A n \in 1 .. Len(s) : s[n] \in Seq(Octet) \ {<<>>}
    OBVIOUS
  <2> QED BY <2>1, <2>2, <1>4 DEF l
<1> QED BY <1>2, <1>5, <1>6 DEF l

LEMMA NextArrives ==
  ASSUME SlaveTypes, DataTypes, StreamInv, ~broken, ToCome # <<>>
  PROVE  \E n \in Arrived :
           /\ sent[n] = Head(ToCome) /\ n \in 1 .. Len(sent) /\ n \notin lost
           /\ ~FrameStreams!Heard(n)
           /\ \A k \in 1 .. n - 1 : k \in lost \/ FrameStreams!Heard(k)
<1>1. ToCome \in Seq(Seq(Octet)) /\ heard \in Seq(Seq(Octet))
  BY ToComeTyped
<1>2. Picked(heard \o ToCome, sent, Arrived)
  BY DEF StreamInv
<1>3. /\ Arrived \subseteq Nat /\ \A i, j \in Arrived : sent[i] = sent[j] => i = j
      /\ Len(sent) \in Nat
  BY SentIs DEF Arrived
<1>4. PICK n \in Arrived :
           /\ sent[n] = Head(ToCome)
           /\ \A i \in 1 .. Len(heard) : heard[i] # sent[n]
           /\ \A k \in Arrived : k < n => \E i \in 1 .. Len(heard) : heard[i] = sent[k]
  <2>1. Apart(sent, Arrived) /\ Arrived \subseteq Nat
    BY <1>3 DEF Apart
  <2>2. \E n \in Arrived : sent[n] = Head(ToCome) /\ Follows(n, heard, sent, Arrived)
    BY ONLY <2>1, <1>1, <1>2, PickedNext, ToCome # <<>>
  <2> QED BY <2>2 DEF Follows
<1>5. n \in 1 .. Len(sent) /\ n \notin lost
  BY DEF Arrived
<1>6. \A k \in 1 .. n - 1 : k \in lost \/ FrameStreams!Heard(k)
  <2> SUFFICES ASSUME NEW k \in 1 .. n - 1, k \notin lost PROVE FrameStreams!Heard(k)
    OBVIOUS
  <2>1. k \in Arrived /\ k < n
    BY <1>3, <1>5 DEF Arrived
  <2> QED BY <2>1, <1>4 DEF FrameStreams!Heard
<1> QED BY <1>4, <1>5, <1>6 DEF FrameStreams!Heard

LEMMA HandOn ==
  ASSUME ListenInv, SubTypeOK, ListenerHand
  PROVE  ListenInv' /\ (Quiet \/ FrameStreams!Hear \/ FrameStreams!Anything)
<1>1. SlaveTypes /\ ThreadTypes /\ DataTypes /\ StreamInv
  BY DEF ListenInv
<1>2. /\ UNCHANGED <<setup, sent, lost, broken, peer, faults, line, chunk, packets, receiver, count,
                     closeEvent, program, socketOpen, reader>>
      /\ listener = "batch" /\ found # <<>>
  BY DEF ListenerHand, slaveVars, programVars, readerVars
<1>3. kind' = kind
  BY <1>2 DEF kind
<1> DEFINE p == Head(found).packet
<1>4. ASSUME ~broken
      PROVE  /\ ToCome # <<>> /\ Head(ToCome) = p
             /\ p # <<>>
  <2>1. PICK rest \in Seq(Seq(Octet)) : ToCome = PacketsOf(found) \o rest
    BY <1>1, FoundFirst
  <2>2. found \in Seq(FrameRecords)
    BY <1>1 DEF DataTypes
  <2>3. /\ PacketsOf(found) \in Seq(Seq(Octet)) /\ Len(PacketsOf(found)) = Len(found)
        /\ \A i \in 1 .. Len(found) : PacketsOf(found)[i] = found[i].packet
    BY <2>2, PacketsTyped
  <2>4. Len(found) \in Nat /\ Len(found) >= 1 /\ Head(found) = found[1]
    BY <2>2, <1>2
  <2>5. PacketsOf(found)[1] = p
    BY <2>3, <2>4
  <2> DEFINE a == PacketsOf(found)
  <2>6. a \in Seq(Seq(Octet)) /\ Len(a) \in Nat /\ Len(a) >= 1 /\ a[1] = p
    BY <2>3, <2>4, <2>5
  <2> HIDE DEF a, p
  <2>7. a \o rest # <<>> /\ Head(a \o rest) = a[1]
    BY <2>6
  <2>8. ToCome # <<>> /\ Head(ToCome) = p
    BY <2>1, <2>6, <2>7 DEF a
  <2>9. p # <<>>
    <3>1. \E n \in 1 .. Len(sent) : sent[n] = Head(ToCome)
      BY <2>8, <1>1, <1>4, NextArrives
    <3> QED BY <3>1, <2>8, <1>1, SentIs
  <2> QED BY <2>8, <2>9 DEF p
<1>5. CASE p = <<>>
  <2>1. broken /\ listener' = "ended" /\ UNCHANGED <<found, heard, subVars>>
    BY <1>4, <1>5 DEF ListenerHand, SlaveTypes
  <2>2. UNCHANGED fed /\ Quiet
    BY <2>1, <1>2 DEF subVars, feeding, Quiet
  <2>3. count \in 0 .. Len(packets)
    BY <1>1 DEF DataTypes
  <2>4. SlaveTypes' /\ StreamInv' /\ DataTypes'
    BY <2>1, <2>2, <2>3, <1>1, <1>2, DataKept
  <2>5. ThreadTypes'
    BY <2>1, <1>1, <1>2, <1>3 DEF ThreadTypes, Ended
  <2> QED BY <2>2, <2>4, <2>5 DEF ListenInv
<1>6. CASE p # <<>>
  <2>1. /\ FeedFrame(Category(p[1])) /\ heard' = Append(heard, Head(found).packet)
        /\ found' = Tail(found) /\ listener' = listener
    BY <1>6 DEF ListenerHand
  <2>2. /\ heard' \o ToCome' = heard \o ToCome
        /\ kind # "can" => Clear(Coming') = Clear(Coming)
        /\ Head(found).packet \in Seq(Octet) /\ Tail(found) \in Seq(FrameRecords)
        /\ heard' \in Seq(Seq(Octet))
        /\ ToCome # <<>> /\ Head(ToCome) = Head(found).packet
    BY <2>1, <1>1, <1>2, HandStep
  <2>3. SlaveTypes'
    <3>1. line' \in IF kind = "can" THEN Seq(CanMessages) ELSE Seq(Seq(Octet) \ {<<>>})
      BY <1>1, <1>2 DEF SlaveTypes
    <3> QED BY <3>1, <1>1, <1>2, SlaveKept
  <2>4. StreamInv'
    BY <2>2, <1>1, <1>2, SameStream
  <2>5. Len(heard') = Len(fed')
    <3>1. fed \in Seq(Categories) /\ fed' = Append(fed, Category(p[1])) /\ Category(p[1]) \in Categories
      BY <2>1, CategoriesAssumption DEF SubTypeOK, FeedFrame, Category
    <3>2. Len(fed') = Len(fed) + 1
      BY <3>1
    <3>3. heard \in Seq(Seq(Octet)) /\ Len(heard) = Len(fed)
      BY <1>1 DEF DataTypes
    <3>4. Len(heard') = Len(heard) + 1
      <4>1. heard' = Append(heard, p) /\ p \in Seq(Octet)
        BY <2>1, <2>2
      <4> HIDE DEF p
      <4> QED BY <4>1, <3>3
    <3> QED BY <3>2, <3>3, <3>4
  <2>6. DataTypes'
    BY <2>1, <2>2, <2>5, <1>1, <1>2, <1>3 DEF DataTypes
  <2>7. ThreadTypes'
    BY <2>1, <1>1, <1>2, <1>3 DEF ThreadTypes
  <2>8. FrameStreams!Hear \/ FrameStreams!Anything
    <3>1. CASE broken
      BY <3>1, <1>2 DEF FrameStreams!Anything
    <3>2. CASE ~broken
      <4>1. PICK n \in Arrived :
              /\ sent[n] = Head(ToCome) /\ n \in 1 .. Len(sent) /\ n \notin lost
              /\ ~FrameStreams!Heard(n)
              /\ \A k \in 1 .. n - 1 : k \in lost \/ FrameStreams!Heard(k)
        BY <3>2, <2>2, <1>1, NextArrives
      <4>2. heard' = Append(heard, sent[n])
        BY <4>1, <2>1, <2>2
      <4> QED BY <4>1, <4>2, <1>2 DEF FrameStreams!Hear
    <3>3. broken \in BOOLEAN
      BY <1>1 DEF SlaveTypes
    <3> QED BY <3>1, <3>2, <3>3
  <2> QED BY <2>3, <2>4, <2>6, <2>7, <2>8 DEF ListenInv
<1> QED BY <1>5, <1>6

-----------------------------------------------------------------------------
(* The slave: one or two frames more.                                      *)
LEMMA SentMore ==
  ASSUME SlaveTypes, NEW m \in {1, 2}, Sends(m)
  PROVE  /\ Len(sent) \in Nat /\ Len(sent') = Len(sent) + m /\ Len(sent) + m <= Len(setup.packets)
         /\ \A k \in 1 .. Len(sent) + m : sent'[k] = setup.packets[k]
         /\ \A k \in 1 .. Len(sent) : sent'[k] = sent[k]
         /\ FrameStreams!IsPrefix(sent, sent')
         /\ sent' = SubSeq(setup.packets, 1, Len(sent'))
         /\ Len(setup.packets) \in Nat
<1> DEFINE ps == setup.packets
           l == Len(sent)
<1>1. ps \in Seq(Seq(Octet) \ {<<>>}) /\ sent = SubSeq(ps, 1, l) /\ l \in Nat
  <2>1. setup \in Setups /\ sent = SubSeq(setup.packets, 1, Len(sent)) /\ Len(sent) \in Nat
    BY DEF SlaveTypes
  <2>2. \A u \in Setups : u.packets \in Seq(Seq(Octet) \ {<<>>})
    BY SetupsAssumption
  <2> QED BY <2>1, <2>2
<1>2. l + m <= Len(ps) /\ sent' = SubSeq(ps, 1, l + m)
  BY DEF Sends
<1> HIDE DEF ps, l
<1>3. l + m \in Nat /\ Len(ps) \in Nat /\ l <= Len(ps)
  BY <1>1, <1>2
<1>4. /\ SubSeq(ps, 1, l + m) \in Seq(Seq(Octet) \ {<<>>}) /\ Len(SubSeq(ps, 1, l + m)) = l + m
      /\ \A i \in 1 .. l + m : SubSeq(ps, 1, l + m)[i] = ps[i]
  BY ONLY <1>1, <1>2, <1>3, FrontIs
<1>5. /\ SubSeq(ps, 1, l) \in Seq(Seq(Octet) \ {<<>>}) /\ Len(SubSeq(ps, 1, l)) = l
      /\ \A i \in 1 .. l : SubSeq(ps, 1, l)[i] = ps[i]
  BY <1>1, <1>3, FrontIs
<1>6. /\ sent \in Seq(Seq(Octet) \ {<<>>}) /\ Len(sent) = l /\ \A i \in 1 .. l : sent[i] = ps[i]
      /\ sent' \in Seq(Seq(Octet) \ {<<>>}) /\ Len(sent') = l + m
      /\ \A i \in 1 .. l + m : sent'[i] = ps[i]
  BY <1>1, <1>2, <1>4, <1>5
<1>7. \A i \in 1 .. l : i \in 1 .. l + m /\ sent'[i] = sent[i]
  BY <1>1, <1>6
<1>8. FrameStreams!IsPrefix(sent, sent')
  <2>1. /\ SubSeq(sent, 1, l) \in Seq(Seq(Octet) \ {<<>>}) /\ Len(SubSeq(sent, 1, l)) = l
        /\ \A i \in 1 .. l : SubSeq(sent, 1, l)[i] = sent[i]
    BY <1>1, <1>6, FrontIs
  <2>2. l <= Len(sent')
    BY <1>1, <1>6
  <2>3. /\ SubSeq(sent', 1, l) \in Seq(Seq(Octet) \ {<<>>}) /\ Len(SubSeq(sent', 1, l)) = l
        /\ \A i \in 1 .. l : SubSeq(sent', 1, l)[i] = sent'[i]
    BY <1>1, <1>6, <2>2, FrontIs
  <2>4. SubSeq(sent, 1, l) = SubSeq(sent', 1, l)
    BY <2>1, <2>3, <1>7
  <2> QED BY <2>2, <2>4, <1>6 DEF FrameStreams!IsPrefix
<1> QED BY <1>1, <1>2, <1>3, <1>6, <1>7, <1>8 DEF l, ps

LineSet == IF kind = "can" THEN Seq(CanMessages) ELSE Seq(Seq(Octet) \ {<<>>})

LEMMA SlaveMore ==
  ASSUME ListenInv, NEW m \in {1, 2}, Sends(m),
         lost \subseteq lost', lost' \subseteq lost \cup Len(sent) + 1 .. Len(sent) + m,
         broken => broken', broken' \in BOOLEAN, faults' \in 0 .. setup.faults, line' \in LineSet,
         kind = "can" => ~broken', StreamInv'
  PROVE  ListenInv' /\ FrameStreams!Send
<1>1. SlaveTypes /\ ThreadTypes /\ DataTypes /\ StreamInv
  BY DEF ListenInv
<1>2. UNCHANGED <<peer, setup, chunk, packets, receiver, found, heard, fed, count, closeEvent,
                  program, socketOpen, reader, listener>>
  BY DEF Sends, subVars, feeding, readerVars, listenerVars, programVars
<1>3. /\ Len(sent) \in Nat /\ Len(sent') = Len(sent) + m /\ Len(sent) + m <= Len(setup.packets)
      /\ FrameStreams!IsPrefix(sent, sent') /\ sent' = SubSeq(setup.packets, 1, Len(sent'))
      /\ Len(setup.packets) \in Nat
  BY <1>1, SentMore
<1>4. kind' = kind /\ CanMessages' = CanMessages
  BY <1>2 DEF kind, CanMessages, Taken, Accepts, PacketOf
<1>5. lost' \subseteq 1 .. Len(sent')
  BY <1>1, <1>3 DEF SlaveTypes
<1>6. Len(sent') \in 0 .. Len(setup.packets)
  BY <1>3
<1>7. SlaveTypes'
  BY <1>1, <1>2, <1>3, <1>4, <1>5, <1>6 DEF SlaveTypes, LineSet
<1>8. DataTypes'
  BY <1>1, <1>2, <1>4 DEF DataTypes
<1>9. ThreadTypes'
  BY <1>1, <1>2, <1>4 DEF ThreadTypes
<1>10. FrameStreams!Send
  BY <1>2, <1>3 DEF FrameStreams!Send
<1> QED BY <1>7, <1>8, <1>9, <1>10 DEF ListenInv

(* What the next frame to arrive changes.                                  *)
LEMMA OneArrives ==
  ASSUME SlaveTypes, DataTypes, StreamInv, Sends(1), ~broken, UNCHANGED lost,
         kind # "can" => Clear(Coming') = Empty,
         ToCome' = ToCome \o <<setup.packets[Len(sent) + 1]>>
  PROVE  StreamInv'
<1> DEFINE l == Len(sent)
           x == setup.packets[l + 1]
           w == heard \o ToCome
<1>1. /\ l \in Nat /\ Len(sent') = l + 1 /\ l + 1 <= Len(setup.packets)
      /\ \A k \in 1 .. l + 1 : sent'[k] = setup.packets[k]
      /\ \A k \in 1 .. l : sent'[k] = sent[k]
  BY SentMore
<1>2. setup \in Setups /\ l + 1 \in 1 .. Len(setup.packets)
  BY <1>1, SetupsAssumption DEF SlaveTypes
<1>3. x \in Seq(Octet)
  BY <1>2, PacketIs
<1>4. ToCome \in Seq(Seq(Octet)) /\ heard \in Seq(Seq(Octet)) /\ w \in Seq(Seq(Octet))
  BY ToComeTyped
<1>5. Picked(w, sent, Arrived) /\ Arrived \subseteq 1 .. l /\ lost \subseteq 1 .. l
  BY DEF StreamInv, Arrived, SlaveTypes
<1>6. \A k \in Arrived : sent'[k] = sent[k]
  BY <1>1, <1>5
<1>7. sent'[l + 1] = x /\ Len(sent') = l + 1
  BY <1>1
<1> HIDE DEF l, x, w
<1>8. Picked(Append(w, x), sent', Arrived \cup {l + 1})
  BY ONLY <1>1, <1>3, <1>4, <1>5, <1>6, <1>7, PickedMore
<1>9. Arrived' = Arrived \cup {l + 1}
  <2>1. \A k : k \in 1 .. l + 1 <=> k \in 1 .. l \/ k = l + 1
    BY <1>1
  <2>2. l + 1 \notin 1 .. l
    BY <1>1
  <2> QED BY <2>1, <2>2, <1>5, <1>7 DEF Arrived, l
<1>10. heard' = heard /\ kind' = kind
  BY DEF Sends, listenerVars, programVars, kind
<1>11. heard' \o ToCome' = Append(w, x)
  <2>1. heard \o (ToCome \o <<x>>) = Append(heard \o ToCome, x)
    BY ONLY <1>3, <1>4, x \in Seq(Octet)
  <2> QED BY <2>1, <1>10 DEF w, x, l
<1>12. Picked(heard' \o ToCome', sent', Arrived')
  BY <1>8, <1>9, <1>11
<1>13. StreamInv'
  BY <1>10, <1>12 DEF StreamInv
<1> QED BY <1>13

LEMMA NoneArrives ==
  ASSUME SlaveTypes, DataTypes, StreamInv, Sends(1), ~broken, lost' = lost \cup {Len(sent) + 1},
         kind # "can" => Clear(Coming') = Empty, ToCome' = ToCome
  PROVE  StreamInv'
<1> DEFINE l == Len(sent)
<1>1. l \in Nat /\ Len(sent') = l + 1 /\ \A k \in 1 .. l : sent'[k] = sent[k]
  BY SentMore
<1>2. Picked(heard \o ToCome, sent, Arrived) /\ Arrived \subseteq 1 .. l
  BY DEF StreamInv, Arrived
<1>3. Arrived' = Arrived
  <2>1. \A k : k \in 1 .. l + 1 <=> k \in 1 .. l \/ k = l + 1
    BY <1>1
  <2> HIDE DEF l
  <2>2. l + 1 \notin 1 .. l
    BY <1>1
  <2>3. lost' = lost \cup {l + 1} /\ Len(sent') = l + 1 /\ l = Len(sent)
    BY <1>1 DEF l
  <2> QED BY <2>1, <2>2, <2>3 DEF Arrived
<1>4. heard' = heard /\ kind' = kind
  BY DEF Sends, listenerVars, programVars, kind
<1>5. \A k \in Arrived : sent'[k] = sent[k]
  BY <1>1, <1>2
<1>6. Picked(heard' \o ToCome', sent', Arrived')
  BY <1>2, <1>3, <1>4, <1>5, PickedKept
<1> QED BY <1>4, <1>6 DEF StreamInv

(* A frame as a sequence of pieces.                                        *)
LEMMA PiecesAre ==
  ASSUME NEW o \in Seq(Octet), o # <<>>
  PROVE  /\ Singly(o) \in Seq(Seq(Octet) \ {<<>>}) /\ FlattenSeq(Singly(o)) = o
         /\ <<o>> \in Seq(Seq(Octet) \ {<<>>}) /\ FlattenSeq(<<o>>) = o
<1>1. FlattenSeq(Singly(o)) = o /\ FlattenSeq(<<o>>) = o
  BY FlattenSingly, FlattenSingle
<1>2. \A i \in 1 .. Len(o) : <<o[i]>> \in Seq(Octet) \ {<<>>}
  OBVIOUS
<1>3. Singly(o) \in Seq(Seq(Octet) \ {<<>>})
  <2>1. Singly(o) \in [1 .. Len(o) -> Seq(Octet) \ {<<>>}]
    BY <1>2 DEF Singly
  <2>2. Len(o) \in Nat
    OBVIOUS
  <2> QED BY <2>1, <2>2
<1> QED BY <1>1, <1>3

LEMMA CutIs ==
  ASSUME NEW d \in Seq(Octet), d # <<>>
  PROVE  /\ Cut(d) \in Seq(Octet) /\ Cut(d) # <<>>
         /\ Len(d) <= MaxDatagram => Cut(d) = d
<1> DEFINE n == IF Len(d) > MaxDatagram THEN MaxDatagram ELSE Len(d)
<1>1. n \in Nat \ {0} /\ n <= Len(d) /\ (Len(d) <= MaxDatagram => n = Len(d))
  BY ReadsAssumption
<1>2. Cut(d) = SubSeq(d, 1, n)
  BY DEF Cut
<1> HIDE DEF n
<1>3. SubSeq(d, 1, n) \in Seq(Octet) /\ Len(SubSeq(d, 1, n)) = n
  BY <1>1, FrontIs
<1>4. SubSeq(d, 1, n) # <<>>
  BY <1>1, <1>3
<1>5. n = Len(d) => SubSeq(d, 1, n) = d
  BY WholeFront
<1> QED BY <1>1, <1>2, <1>3, <1>4, <1>5

LEMMA LineMore ==
  ASSUME SlaveTypes, kind # "can", NEW pieces \in Seq(Seq(Octet) \ {<<>>}), line' = line \o pieces
  PROVE  line' \in LineSet
<1>1. line \in Seq(Seq(Octet) \ {<<>>})
  BY DEF SlaveTypes
<1>2. line \o pieces \in Seq(Seq(Octet) \ {<<>>})
  BY <1>1
<1> QED BY <1>2 DEF LineSet

(* A frame is sent by itself.                                              *)
LEMMA Arrives ==
  ASSUME SlaveTypes, DataTypes, StreamInv, kind # "can", Sends(1), UNCHANGED lost, ~broken,
         NEW pieces \in Seq(Seq(Octet) \ {<<>>}), line' = line \o pieces,
         NEW o \in Seq(Octet), FlattenSeq(pieces) = o,
         NEW x, x = FedTo(kind, setup.format, Empty, o), Clear(x) = Empty,
         \E c \in Nat : x.out = <<Frame(c, setup.packets[Len(sent) + 1])>>
  PROVE  StreamInv'
<1>1. UNCHANGED <<setup, packets, chunk, receiver, found>> /\ Clear(Coming) = Empty
  BY DEF Sends, programVars, readerVars, listenerVars, StreamInv
<1>2. /\ Clear(Coming') = Clear(x) /\ ToCome' = ToCome \o PacketsOf(x.out)
  BY <1>1, MoreComes
<1>3. PICK c \in Nat : x.out = <<Frame(c, setup.packets[Len(sent) + 1])>>
  OBVIOUS
<1>4. PacketsOf(x.out) = <<setup.packets[Len(sent) + 1]>>
  <2>1. Frame(c, setup.packets[Len(sent) + 1]).packet = setup.packets[Len(sent) + 1]
    BY DEF Frame
  <2> QED BY <1>3, <2>1, PacketsOne
<1>5. Clear(Coming') = Empty /\ ToCome' = ToCome \o <<setup.packets[Len(sent) + 1]>>
  BY <1>2, <1>4
<1> QED BY <1>5, OneArrives

LEMMA NextNumber ==
  ASSUME SlaveTypes, NEW m \in {1, 2}, Sends(m)
  PROVE  /\ setup \in Setups /\ kind \in Kinds
         /\ \A k \in 1 .. m : Len(sent) + k \in 1 .. Len(setup.packets)
<1>1. setup \in Setups
  BY DEF SlaveTypes
<1>2. Len(sent) \in Nat /\ Len(sent) + m <= Len(setup.packets) /\ Len(setup.packets) \in Nat
  BY SentMore
<1>3. \A k \in 1 .. m : Len(sent) + k \in 1 .. Len(setup.packets)
  BY <1>2
<1> QED BY <1>1, <1>3, FormatKinds

LEMMA SendStep ==
  ASSUME ListenInv, Send
  PROVE  ListenInv' /\ FrameStreams!Send
<1> DEFINE n == Len(sent) + 1
           o == Octets_(n)
<1>1. SlaveTypes /\ ThreadTypes /\ DataTypes /\ StreamInv
  BY DEF ListenInv
<1>2. Sends(1) /\ line' = line \o PiecesOf(n) /\ broken' = (broken \/ TooLong(o))
      /\ UNCHANGED <<lost, faults>>
  BY DEF Send
<1>3. setup \in Setups /\ n \in 1 .. Len(setup.packets) /\ kind \in Kinds
  BY <1>1, <1>2, NextNumber
<1> HIDE DEF n
<1>4. o \in Seq(Octet) /\ o # <<>>
  BY <1>3, FrameOctets
<1>5. broken' \in BOOLEAN /\ (broken => broken') /\ faults' \in 0 .. setup.faults
      /\ (kind = "can" => ~broken')
  BY <1>1, <1>2 DEF SlaveTypes, TooLong
<1>6. ASSUME kind # "can"
      PROVE  line' \in LineSet /\ StreamInv'
  <2> DEFINE pieces == PiecesOf(n)
  <2>1. /\ pieces \in Seq(Seq(Octet) \ {<<>>})
        /\ ~TooLong(o) => FlattenSeq(pieces) = o
    <3>1. CASE Stream
      <4>1. pieces = Singly(o)
        BY <3>1 DEF PiecesOf, Stream
      <4> QED BY <4>1, <1>4, PiecesAre
    <3>2. CASE kind = "udp"
      <4>1. pieces = <<Cut(o)>>
        BY <3>2 DEF PiecesOf, Stream
      <4>2. Cut(o) \in Seq(Octet) /\ Cut(o) # <<>>
        BY <1>4, CutIs
      <4>3. ~TooLong(o) => Len(o) <= MaxDatagram
        <5>1. Len(o) \in Nat /\ MaxDatagram \in Nat
          BY <1>4, ReadsAssumption
        <5> QED BY <3>2, <5>1 DEF TooLong
      <4>4. ~TooLong(o) => Cut(o) = o
        BY <1>4, <4>3, CutIs
      <4> QED BY <4>1, <4>2, <4>4, PiecesAre
    <3> QED BY <1>3, <1>6, <3>1, <3>2 DEF Stream, Kinds
  <2>2. line' \in LineSet
    BY <1>1, <1>2, <1>6, <2>1, LineMore
  <2>3. ASSUME ~broken' PROVE StreamInv'
    <3>1. ~broken /\ ~TooLong(o)
      BY <2>3, <1>2, <1>1 DEF SlaveTypes
    <3> DEFINE x == FedTo(kind, setup.format, Empty, o)
    <3>2. Clear(x) = Empty /\ \E c \in Nat : x.out = <<Frame(c, setup.packets[n])>>
      BY <1>3, <1>6, <3>1, SentFound
    <3> HIDE DEF x, o, pieces
    <3>3. FlattenSeq(pieces) = o /\ x = FedTo(kind, setup.format, Empty, o) /\ line' = line \o pieces
      BY <2>1, <3>1, <1>2 DEF x, pieces
    <3> QED BY <1>1, <1>2, <1>4, <1>6, <2>1, <3>1, <3>2, <3>3, Arrives DEF n
  <2>4. ASSUME broken' PROVE StreamInv'
    BY <2>4 DEF StreamInv
  <2> QED BY <2>2, <2>3, <2>4, <1>5
<1>7. ASSUME kind = "can"
      PROVE  line' \in LineSet /\ StreamInv'
  <2> DEFINE p == setup.packets[n]
  <2>1. Message(p) \in CanMessages /\ Taken(Message(p)) = <<p>> /\ p \in Seq(Octet)
    BY <1>3, MessageTaken, PacketIs
  <2>2. line \in Seq(CanMessages)
    BY <1>1, <1>7 DEF SlaveTypes
  <2>3. line' = Append(line, Message(p))
    <3>1. PiecesOf(n) = <<Message(p)>>
      BY <1>7 DEF PiecesOf, Stream
    <3> HIDE DEF p
    <3> QED BY <1>2, <3>1, <2>1, <2>2
  <2>4. line' \in Seq(CanMessages) /\ Takens(line') = Append(Takens(line), <<p>>)
    BY <2>1, <2>2, <2>3, TakensAppend
  <2>5. Takens(line) \in Seq(Seq(Seq(Octet))) /\ <<p>> \in Seq(Seq(Octet))
    BY <2>1, <2>2, TakensTyped
  <2>6. FlattenSeq(Takens(line')) = FlattenSeq(Takens(line)) \o <<p>>
    BY <2>4, <2>5, FlattenAppend
  <2>7. /\ PacketsOf(found) \in Seq(Seq(Octet)) /\ FlattenSeq(Takens(line)) \in Seq(Seq(Octet))
        /\ UNCHANGED <<setup, found>>
    <3>1. found \in Seq(FrameRecords)
      BY <1>1 DEF DataTypes
    <3> QED BY <3>1, <2>5, PacketsTyped, FlattenSome, <1>2 DEF Sends, programVars, listenerVars
  <2>8. ToCome' = ToCome \o <<p>>
    <3> DEFINE a == PacketsOf(found)
               b == FlattenSeq(Takens(line))
    <3>1. Takens(line)' = Takens(line')
      BY <2>7 DEF Takens, Taken, Accepts, PacketOf
    <3>2. ToCome' = a \o (b \o <<p>>) /\ ToCome = a \o b
      BY <1>7, <2>6, <2>7, <3>1 DEF ToCome, kind
    <3>3. a \in Seq(Seq(Octet)) /\ b \in Seq(Seq(Octet)) /\ <<p>> \in Seq(Seq(Octet))
      BY <2>5, <2>7
    <3> HIDE DEF a, b, p
    <3>4. (a \o b) \o <<p>> = a \o (b \o <<p>>)
      BY ONLY <3>3
    <3> QED BY <3>2, <3>4
  <2>9. ~broken
    BY <1>1, <1>7 DEF SlaveTypes
  <2>10. StreamInv'
    BY <1>1, <1>2, <1>7, <2>8, <2>9, OneArrives DEF n
  <2> QED BY <2>4, <2>10, <1>7 DEF LineSet
<1>8. line' \in LineSet /\ StreamInv'
  BY <1>6, <1>7
<1>9. lost \subseteq lost' /\ lost' \subseteq lost \cup Len(sent) + 1 .. Len(sent) + 1
  BY <1>2
<1> QED BY <1>2, <1>5, <1>8, <1>9, SlaveMore

LEMMA PairIs ==
  ASSUME NEW Items, NEW p \in Items, NEW q \in Items
  PROVE  <<p>> \o <<q>> = <<p, q>>
<1>1. <<p>> \in Seq(Items) /\ <<q>> \in Seq(Items) /\ Len(<<p>>) = 1 /\ Len(<<q>>) = 1
  OBVIOUS
<1> DEFINE a == <<p>> \o <<q>>
<1>2. a \in Seq(Items) /\ Len(a) = 2 /\ a[1] = p /\ a[2] = q
  BY <1>1
<1> HIDE DEF a
<1>3. a = <<p, q>>
  BY <1>2
<1> QED BY <1>3 DEF a

(* Two frames in a datagram, or one that is lost.                          *)
LEMMA TwoFound ==
  ASSUME SlaveTypes, kind = "udp", Sends(2), ~TooLong(Octets_(Len(sent) + 1) \o Octets_(Len(sent) + 2))
  PROVE  LET x == FedTo(kind, setup.format, Empty, Octets_(Len(sent) + 1) \o Octets_(Len(sent) + 2))
         IN  /\ Clear(x) = Empty
             /\ PacketsOf(x.out) = <<setup.packets[Len(sent) + 1], setup.packets[Len(sent) + 2]>>
<1> DEFINE m == Len(sent) + 1
           n == Len(sent) + 2
           a == Octets_(m)
           b == Octets_(n)
           p == setup.packets[m]
           q == setup.packets[n]
           f == setup.format
           x == FedTo(kind, f, Empty, a \o b)
           y == FedTo(kind, f, Empty, a)
           z == FedTo(kind, f, Empty, b)
<1>1. setup \in Setups /\ m \in 1 .. Len(setup.packets) /\ n \in 1 .. Len(setup.packets)
  BY NextNumber
<1>2. a \in Seq(Octet) /\ b \in Seq(Octet)
  BY <1>1, FrameOctets
<1>3. ~TooLong(a) /\ ~TooLong(b)
  <2>1. Len(a) \in Nat /\ Len(b) \in Nat /\ MaxDatagram \in Nat /\ Len(a \o b) = Len(a) + Len(b)
    BY <1>2, ReadsAssumption
  <2>2. ~(Len(a \o b) > MaxDatagram)
    BY DEF TooLong
  <2> QED BY <2>1, <2>2 DEF TooLong
<1>4. /\ Clear(y) = Empty /\ \E c \in Nat : y.out = <<Frame(c, p)>>
      /\ Clear(z) = Empty /\ \E c \in Nat : z.out = <<Frame(c, q)>>
  BY <1>1, <1>3, SentFound
<1>5. Ready(kind, f, Empty)
  BY <1>1, FormatKinds, EmptyReceiver DEF Ready, Empty
<1>6. Joins(x, y, FedTo(kind, f, Clear(y), b))
  BY <1>2, <1>5, FedConcat
<1>7. p \in Seq(Octet) /\ q \in Seq(Octet)
  BY <1>1, PacketIs
<1> HIDE DEF m, n, a, b, p, q, f
<1>8. FedTo(kind, f, Clear(y), b) = z
  BY <1>4
<1> HIDE DEF x, y, z
<1>9. PICK c \in Nat, d \in Nat : y.out = <<Frame(c, p)>> /\ z.out = <<Frame(d, q)>>
  BY <1>4
<1>10. x.out = y.out \o z.out /\ Clear(x) = Clear(z)
  BY <1>6, <1>8 DEF Joins
<1>11. /\ Frame(c, p) \in FrameRecords /\ Frame(c, p).packet = p
       /\ Frame(d, q) \in FrameRecords /\ Frame(d, q).packet = q
  BY <1>7, <1>9, LikeFrame
<1>12. y.out \in Seq(FrameRecords) /\ z.out \in Seq(FrameRecords)
  BY <1>9, <1>11
<1>13. PacketsOf(x.out) = PacketsOf(y.out) \o PacketsOf(z.out)
  BY <1>10, <1>12, PacketsConcat
<1>14. PacketsOf(y.out) = <<p>> /\ PacketsOf(z.out) = <<q>>
  BY <1>9, <1>11, PacketsOne
<1>15. PacketsOf(x.out) = <<p, q>>
  <2>1. <<p>> \o <<q>> = <<p, q>>
    BY ONLY <1>7, PairIs
  <2> QED BY <2>1, <1>13, <1>14
<1> QED BY <1>4, <1>10, <1>15 DEF x, f, a, b, m, n, p, q

LEMMA TwoArrive ==
  ASSUME SlaveTypes, DataTypes, StreamInv, Sends(2), ~broken, UNCHANGED lost,
         kind # "can" => Clear(Coming') = Empty,
         ToCome' = ToCome \o <<setup.packets[Len(sent) + 1], setup.packets[Len(sent) + 2]>>
  PROVE  StreamInv'
<1> DEFINE l == Len(sent)
           x == setup.packets[l + 1]
           y == setup.packets[l + 2]
           w == heard \o ToCome
<1>1. /\ l \in Nat /\ Len(sent') = l + 2 /\ l + 2 <= Len(setup.packets)
      /\ \A k \in 1 .. l + 2 : sent'[k] = setup.packets[k]
      /\ \A k \in 1 .. l : sent'[k] = sent[k]
  BY SentMore
<1>2. setup \in Setups /\ l + 1 \in 1 .. Len(setup.packets) /\ l + 2 \in 1 .. Len(setup.packets)
  BY NextNumber
<1>3. x \in Seq(Octet) /\ y \in Seq(Octet)
  BY <1>2, PacketIs
<1>4. ToCome \in Seq(Seq(Octet)) /\ heard \in Seq(Seq(Octet)) /\ w \in Seq(Seq(Octet))
  BY ToComeTyped
<1>5. Picked(w, sent, Arrived) /\ Arrived \subseteq 1 .. l /\ lost \subseteq 1 .. l
  BY DEF StreamInv, Arrived, SlaveTypes
<1>6. \A k \in Arrived : sent'[k] = sent[k]
  BY <1>1, <1>5
<1>7. sent'[l + 1] = x /\ sent'[l + 2] = y /\ Len(sent') = l + 2
  BY <1>1
<1> DEFINE one == Arrived \cup {l + 1}
           n == l + 1
           v == Append(w, x)
<1> HIDE DEF l, x, y, w
<1>8. Picked(v, sent', one)
  <2>1. /\ l \in Nat /\ x \in Seq(Octet) /\ w \in Seq(Seq(Octet)) /\ sent'[l + 1] = x
        /\ Arrived \subseteq 1 .. l /\ Picked(w, sent, Arrived)
    BY <1>1, <1>3, <1>4, <1>5, <1>7
  <2> QED BY ONLY <2>1, <1>6, PickedMore
<1>9. one \subseteq 1 .. n /\ n \in Nat /\ sent'[n + 1] = y /\ v \in Seq(Seq(Octet)) /\ n + 1 = l + 2
  BY <1>1, <1>3, <1>4, <1>5, <1>7
<1> HIDE DEF one, n, v
<1>10. Picked(Append(v, y), sent', one \cup {n + 1})
  BY ONLY <1>3, <1>8, <1>9, PickedMore, \A k \in one : sent'[k] = sent'[k]
<1>11. Arrived' = one \cup {n + 1}
  <2>1. \A k : k \in 1 .. l + 2 <=> k \in 1 .. l \/ k = l + 1 \/ k = l + 2
    BY <1>1
  <2>2. l + 1 \notin 1 .. l /\ l + 2 \notin 1 .. l
    BY <1>1
  <2>3. n + 1 = l + 2 /\ one = Arrived \cup {l + 1}
    BY <1>9 DEF one
  <2> QED BY <2>1, <2>2, <2>3, <1>5, <1>7 DEF Arrived, l
<1>12. heard' = heard /\ kind' = kind
  BY DEF Sends, listenerVars, programVars, kind
<1>13. heard' \o ToCome' = Append(v, y)
  <2>1. heard \o (ToCome \o <<x, y>>) = Append(Append(heard \o ToCome, x), y)
    <3> DEFINE h == heard
               t == ToCome
    <3>1. h \in Seq(Seq(Octet)) /\ t \in Seq(Seq(Octet)) /\ x \in Seq(Octet) /\ y \in Seq(Octet)
      BY <1>3, <1>4
    <3> HIDE DEF h, t
    <3>2. t \o <<x, y>> = Append(Append(t, x), y)
      BY ONLY <3>1
    <3>3. h \o Append(Append(t, x), y) = Append(h \o Append(t, x), y)
      BY ONLY <3>1, ConcatAppended, Append(t, x) \in Seq(Seq(Octet))
    <3>4. h \o Append(t, x) = Append(h \o t, x)
      BY ONLY <3>1, ConcatAppended
    <3> QED BY <3>2, <3>3, <3>4 DEF h, t
  <2> QED BY <2>1, <1>12 DEF w, x, y, l, v
<1>14. Picked(heard' \o ToCome', sent', Arrived')
  BY <1>10, <1>11, <1>13
<1> QED BY <1>12, <1>14 DEF StreamInv

LEMMA SendTogetherStep ==
  ASSUME ListenInv, SendTogether
  PROVE  ListenInv' /\ FrameStreams!Send
<1> DEFINE a == Octets_(Len(sent) + 1)
           b == Octets_(Len(sent) + 2)
           d == a \o b
           pieces == <<Cut(d)>>
<1>1. SlaveTypes /\ ThreadTypes /\ DataTypes /\ StreamInv
  BY DEF ListenInv
<1>2. /\ kind = "udp" /\ Sends(2) /\ line' = Append(line, Cut(d))
      /\ broken' = (broken \/ TooLong(d)) /\ UNCHANGED <<lost, faults>>
  BY DEF SendTogether
<1>3. /\ setup \in Setups /\ Len(sent) + 1 \in 1 .. Len(setup.packets)
      /\ Len(sent) + 2 \in 1 .. Len(setup.packets)
  BY <1>1, <1>2, NextNumber
<1>4. a \in Seq(Octet) /\ a # <<>> /\ b \in Seq(Octet)
  BY <1>3, FrameOctets
<1>5. d \in Seq(Octet) /\ d # <<>>
  <2> HIDE DEF a, b
  <2> QED BY <1>4
<1>6. Cut(d) \in Seq(Octet) /\ Cut(d) # <<>> /\ (Len(d) <= MaxDatagram => Cut(d) = d)
  BY <1>5, CutIs
<1>7. pieces \in Seq(Seq(Octet) \ {<<>>}) /\ FlattenSeq(pieces) = Cut(d)
  BY <1>6, PiecesAre
<1>8. line' = line \o pieces
  <2>1. line \in Seq(Seq(Octet) \ {<<>>}) /\ Cut(d) \in Seq(Octet) \ {<<>>}
    BY <1>1, <1>2, <1>6 DEF SlaveTypes
  <2> HIDE DEF d
  <2> QED BY <2>1, <1>2
<1>9. line' \in LineSet
  BY <1>1, <1>2, <1>7, <1>8, LineMore
<1>10. broken' \in BOOLEAN /\ (broken => broken') /\ faults' \in 0 .. setup.faults
       /\ (kind = "can" => ~broken')
  BY <1>1, <1>2 DEF SlaveTypes
<1>11. StreamInv'
  <2>1. CASE broken'
    BY <2>1 DEF StreamInv
  <2>2. CASE ~broken'
    <3>1. ~broken /\ ~TooLong(d)
      BY <2>2, <1>2, <1>1 DEF SlaveTypes
    <3>2. Len(d) <= MaxDatagram
      <4>1. Len(d) \in Nat /\ MaxDatagram \in Nat
        BY <1>5, ReadsAssumption
      <4> QED BY <4>1, <3>1, <1>2 DEF TooLong
    <3> DEFINE x == FedTo(kind, setup.format, Empty, d)
    <3>3. /\ Clear(x) = Empty
          /\ PacketsOf(x.out) = <<setup.packets[Len(sent) + 1], setup.packets[Len(sent) + 2]>>
      BY <1>1, <1>2, <3>1, TwoFound
    <3>4. FlattenSeq(pieces) = d
      BY <1>6, <1>7, <3>2
    <3>5. UNCHANGED <<setup, packets, chunk, receiver, found>> /\ Clear(Coming) = Empty
      BY <1>1, <1>2, <3>1 DEF Sends, programVars, readerVars, listenerVars, StreamInv
    <3> HIDE DEF d, pieces
    <3>6. Clear(Coming') = Clear(x) /\ ToCome' = ToCome \o PacketsOf(x.out)
      BY <1>1, <1>2, <1>7, <1>8, <3>4, <3>5, MoreComes DEF x
    <3> HIDE DEF x
    <3>7. /\ Clear(Coming') = Empty
          /\ ToCome' = ToCome \o <<setup.packets[Len(sent) + 1], setup.packets[Len(sent) + 2]>>
      BY <3>3, <3>6
    <3> QED BY <1>1, <1>2, <3>1, <3>7, TwoArrive
  <2> QED BY <2>1, <2>2
<1>12. lost \subseteq lost' /\ lost' \subseteq lost \cup Len(sent) + 1 .. Len(sent) + 2
  BY <1>2
<1> QED BY <1>2, <1>9, <1>10, <1>11, <1>12, SlaveMore

LEMMA SendLostStep ==
  ASSUME ListenInv, SendLost
  PROVE  ListenInv' /\ FrameStreams!Send
<1>1. SlaveTypes /\ ThreadTypes /\ DataTypes /\ StreamInv
  BY DEF ListenInv
<1>2. /\ kind = "udp" /\ Sends(1) /\ lost' = lost \cup {Len(sent) + 1} /\ UNCHANGED <<line, broken>>
      /\ faults > 0 /\ faults' = faults - 1
  BY DEF SendLost, Fault
<1>3. UNCHANGED <<setup, packets, chunk, receiver, found>>
  BY <1>2 DEF Sends, programVars, readerVars, listenerVars
<1>4. kind' = kind /\ Ahead' = Ahead /\ Decoded' = Decoded
  BY <1>2, <1>3 DEF kind, Ahead, Waiting, Decoded
<1>5. Coming' = Coming
  BY <1>3, <1>4 DEF Coming
<1>6. ToCome' = ToCome
  BY <1>2, <1>4, <1>5 DEF ToCome
<1>7. StreamInv'
  <2>1. CASE broken'
    BY <2>1 DEF StreamInv
  <2>2. CASE ~broken'
    BY <2>2, <1>1, <1>2, <1>5, <1>6, NoneArrives DEF StreamInv
  <2> QED BY <2>1, <2>2
<1>8. line' \in LineSet
  BY <1>1, <1>2 DEF SlaveTypes, LineSet
<1>9. broken' \in BOOLEAN /\ (broken => broken') /\ (kind = "can" => ~broken')
  BY <1>1, <1>2 DEF SlaveTypes
<1>10. faults' \in 0 .. setup.faults
  <2>1. setup.faults \in Nat /\ faults \in 0 .. setup.faults
    BY <1>1, SetupsAssumption DEF SlaveTypes
  <2> QED BY <2>1, <1>2
<1>11. lost \subseteq lost' /\ lost' \subseteq lost \cup Len(sent) + 1 .. Len(sent) + 1
  <2>1. Len(sent) + 1 \in Len(sent) + 1 .. Len(sent) + 1
    BY <1>1 DEF SlaveTypes
  <2> QED BY <2>1, <1>2
<1> QED BY <1>2, <1>7, <1>8, <1>9, <1>10, <1>11, SlaveMore

(* A frame with a wrong octet, a foreign message, a closed connection.     *)
LEMMA SendAlteredStep ==
  ASSUME ListenInv, SendAltered
  PROVE  ListenInv' /\ FrameStreams!Send
<1> DEFINE n == Len(sent) + 1
           o == Octets_(n)
           f == setup.format
<1>1. SlaveTypes /\ ThreadTypes /\ DataTypes /\ StreamInv
  BY DEF ListenInv
<1>2. kind = "sxi" /\ Sends(1) /\ faults > 0 /\ faults' = faults - 1
  BY DEF SendAltered, Fault
<1>3. PICK i \in 1 .. Len(o), v \in Octet :
        /\ v # o[i] /\ line' = line \o Singly(Altered(o, i, v))
        /\ IF i <= f.len \/ (f.tail = 0 /\ i > HeaderSize(f)) \/ TooLong(o)
             THEN broken' = TRUE /\ UNCHANGED lost
           ELSE IF f.tail = 0 THEN UNCHANGED <<broken, lost>>
             ELSE lost' = lost \cup {n} /\ UNCHANGED broken
  BY DEF SendAltered
<1>4. setup \in Setups /\ n \in 1 .. Len(setup.packets) /\ Len(sent) \in Nat
  BY <1>1, <1>2, NextNumber DEF SlaveTypes
<1>5. Widths(f)
  BY <1>4, FormatKinds
<1> DEFINE t == Altered(o, i, v)
           x == FedTo(kind, f, Empty, t)
           pieces == Singly(t)
<1>6. o \in Seq(Octet) /\ o # <<>>
  BY <1>4, FrameOctets
<1>7. t \in Seq(Octet) /\ t # <<>>
  <2>1. t \in Seq(Octet) /\ Len(t) = Len(o) /\ Len(o) >= 1
    BY <1>6, AlteredIs
  <2> HIDE DEF t, o
  <2> QED BY <2>1
<1>8. pieces \in Seq(Seq(Octet) \ {<<>>}) /\ FlattenSeq(pieces) = t /\ line' = line \o pieces
  BY <1>3, <1>7, PiecesAre
<1>9. line' \in LineSet
  BY <1>1, <1>2, <1>8, LineMore
<1>10. /\ broken' \in BOOLEAN /\ (broken => broken')
       /\ lost \subseteq lost' /\ lost' \subseteq lost \cup n .. n
  <2>1. n \in n .. n
    BY <1>4
  <2> HIDE DEF n
  <2> QED BY <1>1, <1>3, <2>1 DEF SlaveTypes
<1>11. faults' \in 0 .. setup.faults
  <2>1. setup.faults \in Nat /\ faults \in 0 .. setup.faults
    BY <1>1, SetupsAssumption DEF SlaveTypes
  <2> QED BY <2>1, <1>2
<1>12. StreamInv'
  <2>1. CASE broken'
    BY <2>1 DEF StreamInv
  <2>2. CASE ~broken'
    <3>1. /\ ~broken /\ ~TooLong(o) /\ ~(i <= f.len) /\ ~(f.tail = 0 /\ i > HeaderSize(f))
          /\ f.tail = 0 => UNCHANGED lost
          /\ f.tail # 0 => lost' = lost \cup {n}
      BY <2>2, <1>3, <1>10, <1>1 DEF SlaveTypes
    <3>2. i > f.len /\ (f.tail # 0 \/ i <= HeaderSize(f))
      <4>1. f.len \in Nat /\ HeaderSize(f) \in Nat
        BY <1>5 DEF Widths, HeaderSize
      <4>2. i \in Nat
        OBVIOUS
      <4> QED BY <4>1, <4>2, <3>1
    <3>3. /\ Clear(x) = Empty
          /\ f.tail = 0 => \E c \in Nat : x.out = <<Frame(c, setup.packets[n])>>
          /\ f.tail # 0 => x.out = <<>>
      BY <1>2, <1>3, <1>4, <3>1, <3>2, AlteredFound
    <3>4. UNCHANGED <<setup, packets, chunk, receiver, found>> /\ Clear(Coming) = Empty
      BY <1>1, <1>2, <3>1 DEF Sends, programVars, readerVars, listenerVars, StreamInv
    <3>5. kind # "can"
      BY <1>2
    <3>6. x = FedTo(kind, setup.format, Empty, t)
      OBVIOUS
    <3> HIDE DEF x, t, pieces
    <3>7. CASE f.tail = 0
      BY <3>7, <1>1, <1>2, <1>7, <1>8, <3>1, <3>3, <3>5, <3>6, Arrives
    <3>8. CASE f.tail # 0
      <4>1. Clear(Coming') = Clear(x) /\ ToCome' = ToCome \o PacketsOf(x.out)
        BY <1>1, <1>8, <3>4, <3>5, <3>6, MoreComes
      <4>2. PacketsOf(x.out) = <<>>
        BY <3>3, <3>8, PacketsOne
      <4>3. ToCome \o <<>> = ToCome
        <5>1. ToCome \in Seq(Seq(Octet))
          BY <1>1, ToComeTyped
        <5> QED BY ONLY <5>1
      <4>4. Clear(Coming') = Empty /\ ToCome' = ToCome
        BY <3>3, <4>1, <4>2, <4>3
      <4> QED BY <1>1, <1>2, <3>1, <3>8, <4>4, NoneArrives
    <3> QED BY <3>7, <3>8
  <2> QED BY <2>1, <2>2
<1> QED BY <1>2, <1>9, <1>10, <1>11, <1>12, SlaveMore

LEMMA ForeignStep ==
  ASSUME ListenInv, SendForeign \/ PeerCloses
  PROVE  ListenInv' /\ Quiet
<1>1. SlaveTypes /\ ThreadTypes /\ DataTypes /\ StreamInv
  BY DEF ListenInv
<1>2. UNCHANGED <<setup, sent, lost, broken, heard, fed, chunk, packets, receiver, found, count,
                  closeEvent, program, socketOpen, reader, listener>>
      /\ faults > 0 /\ faults' = faults - 1
  BY DEF SendForeign, PeerCloses, Fault, subVars, feeding, readerVars, listenerVars, programVars
<1>3. setup.faults \in Nat /\ setup \in Setups
  BY <1>1, SetupsAssumption DEF SlaveTypes
<1>4. faults' \in 0 .. setup.faults
  <2>1. setup.faults \in Nat /\ faults \in 0 .. setup.faults
    BY <1>1, <1>3 DEF SlaveTypes
  <2> QED BY <2>1, <1>2
<1>5. kind' = kind /\ CanMessages' = CanMessages
  BY <1>2 DEF kind, CanMessages, Taken, Accepts, PacketOf
<1>6. CASE PeerCloses
  <2>1. UNCHANGED line /\ peer' = "closed"
    BY <1>6 DEF PeerCloses
  <2>2. Takens(line)' = Takens(line)
    BY <1>2, <2>1 DEF Takens, Taken, Accepts, PacketOf
  <2>3. Ahead' = Ahead /\ Decoded' = Decoded
    BY <1>2, <1>5, <2>1 DEF Ahead, Waiting, Decoded
  <2>4. Coming' = Coming
    BY <1>2, <1>5, <2>3 DEF Coming
  <2>5. ToCome' = ToCome
    BY <1>2, <1>5, <2>2, <2>3, <2>4 DEF ToCome
  <2>6. StreamInv'
    BY <1>1, <1>2, <2>4, <2>5, SameStream
  <2>7. SlaveTypes'
    BY <1>1, <1>2, <1>4, <1>5, <2>1 DEF SlaveTypes
  <2>8. DataTypes' /\ ThreadTypes'
    BY <1>1, <1>2, <1>5 DEF DataTypes, ThreadTypes
  <2> QED BY <1>2, <2>6, <2>7, <2>8 DEF ListenInv, Quiet
<1>7. CASE SendForeign
  <2>1. kind = "can" /\ peer' = peer
    BY <1>7 DEF SendForeign
  <2>2. PICK bus \in BusIds :
          IF bus \in {OnBus(raw) : raw \in Configured} THEN line' = Append(line, bus)
                                                      ELSE line' = Append(line, bus \o <<0>>)
    BY <1>7 DEF SendForeign, Configured
  <2> DEFINE known == bus \in {OnBus(raw) : raw \in Configured}
             m == IF known THEN bus ELSE bus \o <<0>>
  <2>3. m \in CanMessages /\ Taken(m) = <<>>
    <3>1. CASE known
      <4>1. bus \o <<>> = bus /\ <<>> \in Seq(Nat)
        <5>1. \E a \in Nat, b \in Nat : bus = <<a, b>>
          BY IdentifiersAssumption DEF BusIds
        <5>2. bus \in Seq(Nat)
          BY <5>1
        <5>3. \A s \in Seq(Nat) : s \o <<>> = s
          OBVIOUS
        <5> QED BY <5>2, <5>3
      <4>2. bus \o <<>> \in CanMessages /\ Taken(bus \o <<>>) = <<>>
        BY <1>3, <4>1, ForeignTaken
      <4> QED BY <3>1, <4>1, <4>2
    <3>2. CASE ~known
      <4>1. <<0>> \in Seq(Nat)
        OBVIOUS
      <4>2. bus \o <<0>> \in CanMessages /\ Taken(bus \o <<0>>) = <<>>
        BY <1>3, <3>2, <4>1, ForeignTaken
      <4> QED BY <3>2, <4>2
    <3> QED BY <3>1, <3>2
  <2>3a. line' = Append(line, m)
    BY <2>2
  <2> HIDE DEF m, known
  <2>4. line \in Seq(CanMessages) /\ line' = Append(line, m)
    BY <1>1, <2>1, <2>3a DEF SlaveTypes
  <2>5. line' \in Seq(CanMessages) /\ Takens(line') = Append(Takens(line), <<>>)
    BY <2>3, <2>4, TakensAppend
  <2>6. Takens(line) \in Seq(Seq(Seq(Octet))) /\ <<>> \in Seq(Seq(Octet))
    BY <2>4, TakensTyped
  <2>7. FlattenSeq(Takens(line')) = FlattenSeq(Takens(line)) \o <<>>
    BY <2>5, <2>6, FlattenAppend
  <2>8. FlattenSeq(Takens(line')) = FlattenSeq(Takens(line))
    <3>1. FlattenSeq(Takens(line)) \in Seq(Seq(Octet))
      BY <2>6, FlattenSome
    <3>2. \A s \in Seq(Seq(Octet)) : s \o <<>> = s
      OBVIOUS
    <3> QED BY <3>1, <3>2, <2>7
  <2>9. Takens(line)' = Takens(line')
    BY <1>2 DEF Takens, Taken, Accepts, PacketOf
  <2>10. ToCome' = ToCome
    BY <1>2, <1>5, <2>1, <2>8, <2>9 DEF ToCome
  <2>11. StreamInv'
    BY <1>1, <1>2, <2>1, <2>10, SameStream
  <2>12. SlaveTypes'
    BY <1>1, <1>2, <1>4, <1>5, <2>1, <2>5 DEF SlaveTypes
  <2>13. DataTypes' /\ ThreadTypes'
    BY <1>1, <1>2, <1>5 DEF DataTypes, ThreadTypes
  <2> QED BY <1>2, <2>11, <2>12, <2>13 DEF ListenInv, Quiet
<1> QED BY <1>6, <1>7

-----------------------------------------------------------------------------
(* The listening starts so, and every step keeps it.                       *)
LEMMA ListenInitially == Init => ListenInv
<1> SUFFICES ASSUME Init PROVE ListenInv
  OBVIOUS
<1>1. /\ setup \in Setups /\ sent = <<>> /\ lost = {} /\ broken = FALSE /\ line = <<>>
      /\ peer = "open" /\ faults = setup.faults /\ socketOpen = FALSE /\ reader = "none"
      /\ chunk = <<>> /\ packets = <<>> /\ receiver = Empty /\ listener = "none" /\ count = 0
      /\ found = <<>> /\ heard = <<>> /\ closeEvent = FALSE /\ program = "new" /\ fed = <<>>
  BY DEF Init, SubInit
<1>2. /\ setup.faults \in Nat /\ setup.packets \in Seq(Seq(Octet) \ {<<>>})
  BY <1>1, SetupsAssumption
<1>3. Widths(setup.format)
  BY <1>1, FormatKinds
<1>4. sent = SubSeq(setup.packets, 1, Len(sent)) /\ Len(sent) \in 0 .. Len(setup.packets)
  <2>1. SubSeq(setup.packets, 1, 0) = <<>> /\ Len(setup.packets) \in Nat
    BY <1>2, WholeFront
  <2>2. Len(<<>>) = 0
    OBVIOUS
  <2> QED BY <2>1, <2>2, <1>1
<1>5. \A T : <<>> \in Seq(T)
  OBVIOUS
<1>6. SlaveTypes
  <2>1. broken \in BOOLEAN /\ ~broken
    BY <1>1
  <2>2. lost \subseteq 1 .. Len(sent) /\ faults \in 0 .. setup.faults
    BY <1>1, <1>2
  <2>3. line \in IF kind = "can" THEN Seq(CanMessages) ELSE Seq(Seq(Octet) \ {<<>>})
    BY <1>1, <1>5
  <2>4. setup \in Setups /\ peer \in {"open", "closed"}
    BY <1>1
  <2> QED BY <1>4, <2>1, <2>2, <2>3, <2>4 DEF SlaveTypes
<1>7. ThreadTypes
  <2>1. socketOpen \in BOOLEAN /\ closeEvent \in BOOLEAN
    BY <1>1
  <2>2. (chunk # <<>>) = (reader = "append")
    BY <1>1
  <2>3. ~(found # <<>>) /\ ~(count > 0) /\ reader = "none" /\ listener = "none" /\ program = "new"
    BY <1>1
  <2> QED BY <2>1, <2>2, <2>3 DEF ThreadTypes, Ended
<1>8. Empty \in Receivers /\ Clear(Empty) = Empty /\ Empty.out = <<>> /\ Empty.length = -1
  BY EmptyReceiver DEF Empty
<1>9. DataTypes
  <2>1. Len(packets) = 0 /\ Len(heard) = 0 /\ Len(fed) = 0
    BY <1>1
  <2> QED BY <2>1, <1>1, <1>3, <1>5, <1>8 DEF DataTypes, Ready
<1>10. StreamInv
  <2>1. Ahead = <<>>
    <3>1. FlattenSeq(line) = <<>> /\ Waiting = <<>>
      BY <1>1, FlattenEmpty DEF Waiting
    <3> QED BY <3>1, <1>1 DEF Ahead
  <2>2. Coming = Empty
    BY <2>1, <1>1, <1>8, FedNone DEF Coming
  <2>3. ToCome = <<>>
    <3>1. CASE kind = "can"
      <4>1. Takens(line) = <<>>
        BY <1>1 DEF Takens
      <4>2. PacketsOf(found) = <<>>
        BY <1>1, PacketsOne
      <4> QED BY <3>1, <4>1, <4>2, FlattenEmpty DEF ToCome
    <3>2. CASE kind # "can"
      <4>1. Decoded \o Coming.out = <<>>
        BY <1>1, <1>8, <2>2 DEF Decoded
      <4> QED BY <3>2, <4>1, PacketsOne DEF ToCome
    <3> QED BY <3>1, <3>2
  <2>4. heard \o ToCome = <<>> /\ Arrived = {}
    BY <1>1, <2>3 DEF Arrived
  <2>5. Picked(<<>>, sent, {})
    <3> DEFINE idx == [i \in 1 .. 0 |-> 0]
    <3>1. Len(<<>>) = 0 /\ 1 .. 0 = {}
      OBVIOUS
    <3>2. idx \in [1 .. Len(<<>>) -> {}]
      BY <3>1
    <3> HIDE DEF idx
    <3>3. Picking(idx, <<>>, sent, {})
      BY <3>1, <3>2 DEF Picking
    <3> QED BY <3>2, <3>3 DEF Picked
  <2> QED BY <1>8, <2>2, <2>4, <2>5 DEF StreamInv
<1> QED BY <1>6, <1>7, <1>9, <1>10 DEF ListenInv

LEMMA ListenSteps ==
  ASSUME ListenInv, SubTypeOK, [Next]_vars
  PROVE  ListenInv' /\ (Quiet \/ FrameStreams!Next)
<1>1. CASE Slave
  BY <1>1, SendStep, SendTogetherStep, SendLostStep, SendAlteredStep, ForeignStep
     DEF Slave, FrameStreams!Next
<1>2. CASE Reader
  BY <1>2, CheckSteps, ReadStep, AppendStep DEF Reader
<1>3. CASE Listener
  BY <1>3, CheckSteps, BatchStep, DecodeStep, MessageStep, HandOn DEF Listener, FrameStreams!Next
<1>4. CASE Program
  BY <1>4, ProgramStep
<1>5. CASE Subscription \/ UNCHANGED vars
  BY <1>5, OtherStep
<1> QED BY <1>1, <1>2, <1>3, <1>4, <1>5 DEF Next

LEMMA ListenTypes ==
  ASSUME ListenInv, SubTypeOK
  PROVE  TypeOK
<1>1. SlaveTypes /\ ThreadTypes /\ DataTypes
  BY DEF ListenInv
<1>2. \A i \in 1 .. Len(line) : line[i] \in Seq(Nat) \ {<<>>}
  <2>1. CASE kind = "can"
    <3>1. line \in Seq(CanMessages)
      BY <2>1, <1>1 DEF SlaveTypes
    <3>2. \A i \in 1 .. Len(line) : line[i] \in CanMessages
      BY <3>1
    <3> QED BY <3>2 DEF CanMessages
  <2>2. CASE kind # "can"
    <3>1. line \in Seq(Seq(Octet) \ {<<>>})
      BY <2>2, <1>1 DEF SlaveTypes
    <3>2. \A i \in 1 .. Len(line) : line[i] \in Seq(Octet) \ {<<>>}
      BY <3>1
    <3>3. Octet \subseteq Nat
      BY OctetsAre
    <3>4. \A s \in Seq(Octet) : s \in Seq(Nat)
      <4> SUFFICES ASSUME NEW s \in Seq(Octet) PROVE s \in Seq(Nat)
        OBVIOUS
      <4>1. Len(s) \in Nat /\ s \in [1 .. Len(s) -> Octet]
        OBVIOUS
      <4>2. s \in [1 .. Len(s) -> Nat]
        BY <4>1, <3>3
      <4> QED BY <4>1, <4>2
    <3> QED BY <3>2, <3>4
  <2> QED BY <2>1, <2>2
<1>3. /\ receiver.out = <<>> /\ (receiver.length = -1 \/ Len(receiver.buffer) < receiver.length)
  BY <1>1 DEF DataTypes, Ready, Receivers
<1>4. \A i \in 1 .. Len(heard) : heard[i] \in Seq(Octet)
  BY <1>1 DEF DataTypes
<1>5. count \in 0 .. Len(packets) /\ Len(heard) = Len(fed)
  BY <1>1 DEF DataTypes
<1> QED BY <1>1, <1>2, <1>3, <1>4, <1>5 DEF TypeOK, SlaveTypes, ThreadTypes

LEMMA Listens == Spec => [](ListenInv /\ SubTypeOK)
<1>1. Spec => []SubTypeOK
  BY SpecOfAdapter, SubTypesCorrect, PTL
<1>2. ListenInv /\ SubTypeOK /\ [Next]_vars => ListenInv'
  BY ListenSteps
<1> QED BY <1>1, <1>2, ListenInitially, PTL DEF Spec

(* Types, and the threads: a frame waits only for a listener in its batch, *)
(* a receiver has nothing left over, and what was handed on was also fed   *)
(* to the policy.                                                          *)
THEOREM ListeningTypes == Spec => []TypeOK
<1>1. ListenInv /\ SubTypeOK => TypeOK
  BY ListenTypes
<1> QED BY <1>1, Listens, PTL

(* However the octets are cut into reads and datagrams, whatever is lost,  *)
(* altered or foreign, whenever the transport is closed: listen() hands on *)
(* the frames that were sent, in order, without gaps and none twice, until *)
(* the stream is broken.                                                   *)
THEOREM FramesStreamed == Spec => IsFrameStream
<1>1. Init => FrameStreams!Init
  BY DEF Init, FrameStreams!Init
<1>2. ListenInv /\ SubTypeOK /\ [Next]_vars => [FrameStreams!Next]_<<sent, lost, broken, heard>>
  BY ListenSteps DEF Quiet
<1> QED BY <1>1, <1>2, Listens, PTL DEF Spec, IsFrameStream, FrameStreams!Spec

=============================================================================
