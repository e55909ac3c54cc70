------------------------ MODULE RecorderWriterProofs ------------------------
(***************************************************************************)
(* Theorems about RecorderWriter, for every number and length of frames    *)
(* and all sizes that SizesAssumption and RoomAssumption allow.            *)
(***************************************************************************)
EXTENDS RecorderWriter, SequenceTheorems, TLAPS

USE SizesAssumption

-----------------------------------------------------------------------------
(* Sequences with something taken or added.                                *)
LEMMA TailType ==
  ASSUME NEW S, NEW s \in Seq(S), s # <<>>
  PROVE  /\ Head(s) \in S /\ Head(s) = s[1]
         /\ Tail(s) \in Seq(S)
         /\ Len(s) > 0 /\ Len(Tail(s)) = Len(s) - 1
         /\ \A i \in 1 .. Len(Tail(s)) : i + 1 \in 1 .. Len(s) /\ Tail(s)[i] = s[i + 1]
  OBVIOUS

LEMMA AppendType ==
  ASSUME NEW S, NEW s \in Seq(S), NEW e \in S
  PROVE  /\ Append(s, e) \in Seq(S)
         /\ Len(Append(s, e)) = Len(s) + 1
         /\ \A i \in 1 .. Len(s) : Append(s, e)[i] = s[i]
         /\ Append(s, e)[Len(s) + 1] = e
  OBVIOUS

(* The frames gathered, after one more and after a container is written.   *)
LEMMA KeptAppend ==
  ASSUME NEW S, NEW s \in Seq(S), NEW t \in Seq(S), NEW e \in S
  PROVE  /\ s \o Append(t, e) = Append(s \o t, e)
         /\ (s \o t) \o <<>> = s \o t
         /\ s \o t \in Seq(S) /\ Len(s \o t) = Len(s) + Len(t)
<1>1. /\ Len(Append(s \o t, e)) = Len(s) + Len(t) + 1
      /\ Len(s \o Append(t, e)) = Len(s) + Len(t) + 1
  OBVIOUS
<1>2. \A i \in 1 .. Len(s) + Len(t) + 1 : (s \o Append(t, e))[i] = Append(s \o t, e)[i]
  OBVIOUS
<1>3. Append(s \o t, e) \in Seq(S) /\ s \o Append(t, e) \in Seq(S)
  OBVIOUS
<1>4. s \o Append(t, e) = Append(s \o t, e)
  BY <1>1, <1>2, <1>3, SeqEqual
<1>5. s \o t \in Seq(S) /\ Len(s \o t) = Len(s) + Len(t)
  OBVIOUS
<1> QED
  BY <1>4, <1>5, ConcatEmptySeq

-----------------------------------------------------------------------------
(* Where the frames are: the file and the storage have the first ones, the *)
(* collector's hand the next and the queue those after it, until the       *)
(* collector ends.  The sentinel is not there before stop is set.          *)
InHand == IF collector \in {"got", "store"} THEN 1 ELSE 0
Gathered == Len(stored) + Len(storage)

Line ==
  /\ \A i \in 1 .. Len(stored) : stored[i] = i
  /\ \A i \in 1 .. Len(storage) : storage[i] = Len(stored) + i
  /\ Gathered <= Len(accepted)
  /\ \A i \in 1 .. Len(queue) : queue[i] <= Len(accepted)
  /\ hand <= Len(accepted)
  /\ collector # "ended" =>
       \A i \in 1 .. Len(queue) : queue[i] \in {Nothing, Gathered + InHand + i}
  /\ collector = "got" => hand \in {Nothing, Gathered + 1}
  /\ collector = "store" => hand = Gathered + 1
  /\ ~stop => /\ collector # "ended"
              /\ collector = "got" => hand # Nothing
              /\ \A i \in 1 .. Len(queue) : queue[i] # Nothing
              /\ Len(accepted) = Gathered + InHand + Len(queue)

(* Who may be in compress_frames().                                        *)
Places ==
  /\ stop <=> finalizer # "no"
  /\ finalizer \in {"flush", "header", "close", "closed"} => collector = "ended"
  /\ compress # "no" <=> (collector = "compress" \/ finalizer = "flush")

(* The counters count the frames.                                          *)
Counts ==
  /\ recordCount = Len(stored)
  /\ containerRecordCount = Len(storage)

LogInv == TypeOK /\ Places /\ Counts /\ Line

LEMMA LogInit == Init => LogInv
<1> SUFFICES ASSUME Init PROVE LogInv
  OBVIOUS
<1> USE DEF Init, Nothing
<1>1. TypeOK
  <2>1. /\ accepted \in Seq(Lengths) /\ Len(accepted) <= MaxFrames
        /\ queue \in Seq(Frames \cup {Nothing})
        /\ storage \in Seq(Frames) /\ stored \in Seq(Frames) /\ ends \in Seq(0 .. MaxFrames)
    OBVIOUS
  <2>2. header \in [valid : BOOLEAN, containers : Nat, records : Nat]
    OBVIOUS
  <2> QED
    BY <2>1, <2>2 DEF TypeOK
<1>2. Places /\ Counts
  BY DEF Places, Counts
<1>3. Line
  BY DEF Line, Gathered, InHand
<1> QED
  BY <1>1, <1>2, <1>3 DEF LogInv

LEMMA LogAdd ==
  ASSUME LogInv, NEW length \in Lengths, AddFrame(length)
  PROVE  LogInv'
<1> DEFINE n == Len(accepted) + 1
<1>1. n \in Frames /\ n \in Nat
  BY DEF AddFrame, LogInv, TypeOK, Frames
<1>2. /\ accepted' \in Seq(Lengths) /\ Len(accepted') = n
      /\ queue' \in Seq(Frames \cup {Nothing}) /\ Len(queue') = Len(queue) + 1
      /\ \A i \in 1 .. Len(queue) : queue'[i] = queue[i]
      /\ queue'[Len(queue) + 1] = n
  BY <1>1, AppendType DEF AddFrame, Put, LogInv, TypeOK
<1>3. TypeOK'
  BY <1>1, <1>2 DEF AddFrame, LogInv, TypeOK, gathered, file, Frames
<1>4. Places' /\ Counts'
  BY DEF AddFrame, LogInv, Places, Counts, gathered, file
<1>5. /\ UNCHANGED <<stored, storage, collector, hand, stop>>
      /\ finalizer \in {"no", "closed"}
  BY DEF AddFrame, gathered, file
<1>6. Line'
  <2> USE <1>1, <1>2, <1>5 DEF Nothing
  <2>1. Line /\ Gathered' = Gathered /\ InHand' = InHand /\ Gathered \in Nat /\ InHand \in {0, 1}
        /\ Len(queue) \in Nat /\ Len(accepted) \in Nat /\ hand \in Nat
        /\ \A i \in 1 .. Len(queue) : queue[i] \in Nat
    BY SMTT(40) DEF LogInv, TypeOK, Gathered, InHand, Frames
  <2>2. stop => collector = "ended"
    BY DEF LogInv, Places
  <2>3. \A i \in 1 .. Len(queue') : i \in 1 .. Len(queue) \/ i = Len(queue) + 1
    BY <2>1
  <2>4. \A i \in 1 .. Len(queue') : queue'[i] <= Len(accepted')
    BY <2>1, <2>3 DEF Line
  <2>5. ~stop => Len(accepted') = Gathered + InHand + Len(queue')
    <3>1. ~stop => Len(accepted) = Gathered + InHand + Len(queue)
      BY <2>1 DEF Line
    <3> QED
      BY <2>1, <3>1
  <2>6. collector # "ended" => ~stop
    BY <2>2
  <2>7. collector # "ended" =>
          \A i \in 1 .. Len(queue') : queue'[i] \in {Nothing, Gathered + InHand + i}
    <3> SUFFICES ASSUME collector # "ended", NEW i \in 1 .. Len(queue')
                 PROVE  queue'[i] \in {Nothing, Gathered + InHand + i}
      OBVIOUS
    <3>1. CASE i \in 1 .. Len(queue)
      BY <2>1, <3>1 DEF Line
    <3>2. CASE i = Len(queue) + 1
      BY <2>1, <2>5, <2>6, <3>2
    <3> QED
      BY <2>3, <3>1, <3>2
  <2>8. ~stop => \A i \in 1 .. Len(queue') : queue'[i] # Nothing
    <3> SUFFICES ASSUME ~stop, NEW i \in 1 .. Len(queue')
                 PROVE  queue'[i] # Nothing
      OBVIOUS
    <3>1. CASE i \in 1 .. Len(queue)
      BY <2>1, <3>1 DEF Line
    <3>2. CASE i = Len(queue) + 1
      BY <2>1, <3>2
    <3> QED
      BY <2>3, <3>1, <3>2
  <2>9. Gathered <= Len(accepted') /\ hand <= Len(accepted')
    BY <2>1 DEF Line
  <2> QED
    BY <2>1, <2>4, <2>5, <2>7, <2>8, <2>9 DEF Line
<1> QED
  BY <1>3, <1>4, <1>6 DEF LogInv

(* The collector: it goes on or ends ...                                   *)
LEMMA LogLoop ==
  ASSUME LogInv, CollectorLoop
  PROVE  LogInv'
<1>1. TypeOK'
  BY DEF CollectorLoop, LogInv, TypeOK, queueVars, gathered, file
<1>2. Places' /\ Counts'
  BY DEF CollectorLoop, LogInv, Places, Counts, queueVars, gathered, file
<1>3. /\ UNCHANGED <<accepted, queue, stored, storage, hand, stop>>
      /\ collector = "loop" /\ collector' = IF stop THEN "ended" ELSE "get"
  BY DEF CollectorLoop, queueVars, gathered, file
<1>4. Line'
  BY <1>3 DEF LogInv, Line, Gathered, InHand
<1> QED
  BY <1>1, <1>2, <1>4 DEF LogInv

(* ... takes the next item ...                                             *)
LEMMA LogGet ==
  ASSUME LogInv, CollectorGet
  PROVE  LogInv'
<1>1. /\ queue \in Seq(Frames \cup {Nothing}) /\ queue # <<>>
      /\ hand' = Head(queue) /\ queue' = Tail(queue)
      /\ collector = "get" /\ collector' = "got"
      /\ UNCHANGED <<accepted, stored, storage, stop>>
  BY DEF CollectorGet, HasItem, LogInv, TypeOK, gathered, file
<1>2. /\ hand' \in Frames \cup {Nothing} /\ hand' = queue[1]
      /\ queue' \in Seq(Frames \cup {Nothing})
      /\ Len(queue) > 0 /\ Len(queue') = Len(queue) - 1
      /\ \A i \in 1 .. Len(queue') : i + 1 \in 1 .. Len(queue) /\ queue'[i] = queue[i + 1]
  BY <1>1, TailType
<1>3. TypeOK'
  BY <1>2 DEF CollectorGet, LogInv, TypeOK, gathered, file
<1>4. Places' /\ Counts'
  BY DEF CollectorGet, LogInv, Places, Counts, gathered, file
<1>5. Line'
  <2>1. /\ Gathered' = Gathered /\ InHand' = 1 /\ InHand = 0 /\ Gathered \in Nat
        /\ Len(queue) \in Nat /\ Len(accepted) \in Nat /\ 1 \in 1 .. Len(queue)
    BY <1>1, <1>2 DEF Gathered, InHand, LogInv, TypeOK
  <2>2. /\ \A i \in 1 .. Len(queue) : queue[i] <= Len(accepted)
        /\ \A i \in 1 .. Len(queue) : queue[i] \in {Nothing, Gathered + InHand + i}
        /\ ~stop => /\ \A i \in 1 .. Len(queue) : queue[i] # Nothing
                    /\ Len(accepted) = Gathered + InHand + Len(queue)
    BY <1>1 DEF LogInv, Line
  <2>3. \A i \in 1 .. Len(queue') : queue'[i] \in {Nothing, Gathered + 1 + i}
    BY <1>2, <2>1, <2>2
  <2>4. hand' \in {Nothing, Gathered + 1} /\ hand' <= Len(accepted)
    BY <1>2, <2>1, <2>2
  <2>5. \A i \in 1 .. Len(queue') : queue'[i] <= Len(accepted)
    BY <1>2, <2>1, <2>2
  <2>6. ~stop => /\ hand' # Nothing
                 /\ \A i \in 1 .. Len(queue') : queue'[i] # Nothing
                 /\ Len(accepted) = Gathered + 1 + Len(queue')
    <3> SUFFICES ASSUME ~stop
                 PROVE  /\ hand' # Nothing
                        /\ \A i \in 1 .. Len(queue') : queue'[i] # Nothing
                        /\ Len(accepted) = Gathered + 1 + Len(queue')
      OBVIOUS
    <3>1. \A i \in 1 .. Len(queue) : queue[i] # Nothing
      BY <2>2
    <3>2. Len(accepted) = Gathered + InHand + Len(queue)
      BY <2>2
    <3>3. hand' # Nothing /\ \A i \in 1 .. Len(queue') : queue'[i] # Nothing
      BY <1>2, <2>1, <3>1
    <3> QED
      BY <1>2, <2>1, <3>2, <3>3
  <2>7. Gathered <= Len(accepted)
    BY DEF LogInv, Line
  <2>8. /\ \A i \in 1 .. Len(stored) : stored[i] = i
        /\ \A i \in 1 .. Len(storage) : storage[i] = Len(stored) + i
    BY DEF LogInv, Line
  <2> QED
    BY <1>1, <2>1, <2>3, <2>4, <2>5, <2>6, <2>7, <2>8 DEF Line
<1> QED
  BY <1>3, <1>4, <1>5 DEF LogInv

(* ... drops it if it is to stop ...                                       *)
LEMMA LogTest ==
  ASSUME LogInv, CollectorTest
  PROVE  LogInv'
<1>1. TypeOK'
  BY DEF CollectorTest, LogInv, TypeOK, queueVars, gathered, file
<1>2. Places' /\ Counts'
  BY DEF CollectorTest, LogInv, Places, Counts, queueVars, gathered, file
<1>3. UNCHANGED <<accepted, queue, stored, storage, stop>> /\ collector = "got"
  BY DEF CollectorTest, queueVars, gathered, file
<1>4. CASE stop
  <2>1. collector' = "ended" /\ hand' = Nothing
    BY <1>4 DEF CollectorTest
  <2>2. Line'
    BY <1>3, <1>4, <2>1 DEF LogInv, TypeOK, Line, Gathered, Nothing
  <2> QED
    BY <1>1, <1>2, <2>2 DEF LogInv
<1>5. CASE ~stop
  <2>1. collector' = "store" /\ hand' = hand
    BY <1>5 DEF CollectorTest
  <2>2. Line'
    BY <1>3, <1>5, <2>1 DEF LogInv, Line, Gathered, InHand
  <2> QED
    BY <1>1, <1>2, <2>2 DEF LogInv
<1> QED
  BY <1>4, <1>5

(* ... or stores it.                                                       *)
LEMMA LogStore ==
  ASSUME LogInv, CollectorStore
  PROVE  LogInv'
<1>1. /\ collector = "store" /\ hand = Gathered + 1 /\ hand <= Len(accepted)
      /\ hand' = Nothing /\ collector' \in {"compress", "loop"}
      /\ UNCHANGED <<accepted, queue, stored, stop>>
  BY DEF CollectorStore, LogInv, Line, queueVars, file
<1>2. Gathered \in Nat /\ Len(accepted) \in Nat /\ Len(accepted) <= MaxFrames
      /\ hand \in Frames
  BY <1>1 DEF Gathered, LogInv, TypeOK, Frames
<1>3. /\ storage' \in Seq(Frames) /\ Len(storage') = Len(storage) + 1
      /\ \A i \in 1 .. Len(storage) : storage'[i] = storage[i]
      /\ storage'[Len(storage) + 1] = hand
  BY <1>2, AppendType DEF CollectorStore, LogInv, TypeOK
<1>4. size' \in Nat
  <2>1. accepted[hand] \in Nat
    <3>1. accepted \in Seq(Lengths) /\ hand \in 1 .. Len(accepted)
      BY <1>1, <1>2 DEF LogInv, TypeOK, Frames
    <3>2. accepted[hand] \in Lengths
      BY <3>1, ElementOfSeq, Zenon
    <3>3. \A x \in Lengths : x \in Nat
      OBVIOUS
    <3> QED
      BY <3>2, <3>3, Zenon
  <2>2. size' = size + (FrameHeader + accepted[hand]) /\ size \in Nat
    BY DEF CollectorStore, FrameSize, LogInv, TypeOK
  <2> QED
    BY <2>1, <2>2
<1>5. TypeOK'
  BY <1>1, <1>3, <1>4 DEF CollectorStore, LogInv, TypeOK, queueVars, file
<1>6. Places'
  BY DEF CollectorStore, LogInv, Places, queueVars, file
<1>7. Counts'
  BY <1>3 DEF CollectorStore, LogInv, Counts, queueVars, file
<1>8. Line'
  <2>1. Gathered' = Gathered + 1 /\ InHand' = 0 /\ InHand = 1 /\ Len(queue) \in Nat
        /\ Len(stored) \in Nat /\ Len(storage) \in Nat /\ Gathered = Len(stored) + Len(storage)
    BY <1>1, <1>3 DEF Gathered, InHand, LogInv, TypeOK
  <2>2. \A i \in 1 .. Len(storage') : storage'[i] = Len(stored) + i
    <3>1. \A i \in 1 .. Len(storage') : i \in 1 .. Len(storage) \/ i = Len(storage) + 1
      BY <1>3, <2>1
    <3>2. \A i \in 1 .. Len(storage) : storage[i] = Len(stored) + i
      BY DEF LogInv, Line
    <3> QED
      <4>1. \A i \in 1 .. Len(storage) : storage'[i] = Len(stored) + i
        BY <1>3, <3>2
      <4>2. storage'[Len(storage) + 1] = Len(stored) + (Len(storage) + 1)
        BY <1>1, <1>3, <2>1
      <4> QED
        BY <3>1, <4>1, <4>2
  <2>3. /\ \A i \in 1 .. Len(queue) : queue[i] <= Len(accepted)
        /\ \A i \in 1 .. Len(queue) : queue[i] \in {Nothing, Gathered + InHand + i}
        /\ ~stop => /\ \A i \in 1 .. Len(queue) : queue[i] # Nothing
                    /\ Len(accepted) = Gathered + InHand + Len(queue)
        /\ \A i \in 1 .. Len(stored) : stored[i] = i
    BY <1>1 DEF LogInv, Line
  <2>4. \A i \in 1 .. Len(queue) : queue[i] \in {Nothing, Gathered' + InHand' + i}
    BY <2>1, <2>3, <1>2
  <2>5. ~stop => Len(accepted) = Gathered' + InHand' + Len(queue)
    BY <2>1, <2>3, <1>2
  <2>6. Gathered' <= Len(accepted) /\ Nothing <= Len(accepted)
    BY <1>1, <1>2, <2>1 DEF Nothing
  <2> QED
    BY <1>1, <2>2, <2>3, <2>4, <2>5, <2>6 DEF Line
<1> QED
  BY <1>5, <1>6, <1>7, <1>8 DEF LogInv

(* Elsewhere the frames stay where they are, but for a container written.  *)
LEMMA LogCommit ==
  ASSUME LogInv, CompressCommit
  PROVE  LogInv'
<1>1. /\ UNCHANGED <<accepted, queue, hand, stop>>
      /\ stored' = stored \o storage /\ storage' = <<>> /\ compress = "commit"
      /\ recordCount' = recordCount + containerRecordCount /\ containerRecordCount' = 0
      /\ ends' = Append(ends, recordCount + containerRecordCount)
      /\ collector' = IF collector = "compress" THEN "loop" ELSE collector
  BY DEF CompressCommit, ResetStorage, queueVars
<1>2. /\ stored \in Seq(Frames) /\ storage \in Seq(Frames)
      /\ recordCount = Len(stored) /\ containerRecordCount = Len(storage)
      /\ Gathered <= Len(accepted) /\ Len(accepted) <= MaxFrames /\ Len(accepted) \in Nat
  BY DEF LogInv, TypeOK, Counts, Line
<1>3. /\ stored' \in Seq(Frames) /\ storage' \in Seq(Frames)
      /\ Len(stored') = Gathered /\ Len(storage') = 0 /\ Gathered \in Nat
      /\ \A i \in 1 .. Len(stored') :
           stored'[i] = IF i <= Len(stored) THEN stored[i] ELSE storage[i - Len(stored)]
  BY <1>1, <1>2, ConcatProperties DEF Gathered
<1>4. recordCount + containerRecordCount \in 0 .. MaxFrames
  BY <1>2, <1>3 DEF Gathered
<1>5. TypeOK'
  <2>1. ends' \in Seq(0 .. MaxFrames)
    BY <1>1, <1>4, AppendType DEF LogInv, TypeOK
  <2>2. offset' \in Nat /\ size' \in Nat /\ numContainers' \in Nat /\ recordCount' \in Nat
    BY DEF CompressCommit, ResetStorage, LogInv, TypeOK
  <2> QED
    BY <1>1, <1>3, <2>1, <2>2 DEF CompressCommit, LogInv, TypeOK, queueVars
<1>6. Places'
  BY DEF CompressCommit, LogInv, Places
<1>7. Counts'
  BY <1>1, <1>2, <1>3, <1>4 DEF Counts, Gathered
<1>8. Line'
  <2>1. Gathered' = Gathered /\ InHand' = InHand /\ Len(stored) \in Nat /\ Len(storage) \in Nat
        /\ Gathered = Len(stored) + Len(storage)
    BY <1>1, <1>2, <1>3 DEF Gathered, InHand
  <2>2. \A i \in 1 .. Len(stored') : stored'[i] = i
    <3>1. /\ \A i \in 1 .. Len(stored) : stored[i] = i
          /\ \A i \in 1 .. Len(storage) : storage[i] = Len(stored) + i
      BY DEF LogInv, Line
    <3> SUFFICES ASSUME NEW i \in 1 .. Len(stored') PROVE stored'[i] = i
      OBVIOUS
    <3>2. CASE i <= Len(stored)
      <4>1. i \in 1 .. Len(stored) /\ stored'[i] = stored[i]
        BY <1>3, <2>1, <3>2
      <4> QED
        BY <3>1, <4>1
    <3>3. CASE ~(i <= Len(stored))
      <4>1. i - Len(stored) \in 1 .. Len(storage) /\ stored'[i] = storage[i - Len(stored)]
        BY <1>3, <2>1, <3>3
      <4>2. storage[i - Len(stored)] = Len(stored) + (i - Len(stored))
        BY <3>1, <4>1
      <4> QED
        BY <2>1, <4>1, <4>2
    <3> QED
      BY <3>2, <3>3
  <2>3. \A i \in 1 .. Len(storage') : storage'[i] = Len(stored') + i
    BY <1>3
  <2>4. collector = "compress" \/ collector = "ended" \/ stop
    BY <1>1 DEF LogInv, Places
  <2>5. collector' # "ended" <=> collector # "ended"
    BY <1>1
  <2>6. /\ collector' = "got" => collector = "got"
        /\ collector' = "store" => collector = "store"
    BY <1>1
  <2> QED
    BY <1>1, <2>1, <2>2, <2>3, <2>5, <2>6 DEF LogInv, Line
<1> QED
  BY <1>5, <1>6, <1>7, <1>8 DEF LogInv

LEMMA LogStays ==
  ASSUME LogInv,
         UNCHANGED <<accepted, queue, hand, stored, storage, collector, stop>>
  PROVE  Line'
  BY DEF LogInv, Line, Gathered, InHand

LEMMA LogCompress ==
  ASSUME LogInv, (\E n \in {1, CompressBound(size)} : CompressInto(n)) \/ CompressGrow
  PROVE  LogInv'
<1>1. Line' /\ Places' /\ Counts'
  BY LogStays DEF CompressInto, CompressGrow, LogInv, Places, Counts, queueVars, gathered
<1>2. TypeOK'
  <2>1. ASSUME NEW n \in {1, CompressBound(size)}, CompressInto(n)
        PROVE  TypeOK'
    <3>1. n \in Nat
      BY DEF LogInv, TypeOK, CompressBound
    <3>2. packed' \in Nat /\ written' \in Nat
      <4>1. packed' = n /\ written' = offset + ContainerHeader + n /\ offset \in Nat
        BY <2>1 DEF CompressInto, LogInv, TypeOK
      <4> QED
        BY <3>1, <4>1
    <3> QED
      BY <2>1, <3>2 DEF CompressInto, LogInv, TypeOK, queueVars, gathered
  <2>2. CASE CompressGrow
    <3>1. header' \in [valid : BOOLEAN, containers : Nat, records : Nat] /\ fileSize' \in Nat
      <4>1. /\ CurrentHeader \in [valid : BOOLEAN, containers : Nat, records : Nat]
            /\ header \in [valid : BOOLEAN, containers : Nat, records : Nat]
            /\ fileSize \in Nat /\ 2 * fileSize \in Nat
        BY DEF CurrentHeader, LogInv, TypeOK
      <4>2. \/ fileSize' = 2 * fileSize /\ header' = CurrentHeader
            \/ fileSize' = fileSize /\ header' = header
        BY <2>2 DEF CompressGrow
      <4> QED
        BY <4>1, <4>2
    <3> QED
      BY <2>2, <3>1 DEF CompressGrow, LogInv, TypeOK, queueVars, gathered
  <2> QED
    BY <2>1, <2>2
<1> QED
  BY <1>1, <1>2 DEF LogInv

LEMMA LogFinalize ==
  ASSUME LogInv, Finalize \/ FinalizeJoin \/ FinalizeHeader \/ FinalizeClose
  PROVE  LogInv'
<1>1. TypeOK'
  <2> USE DEF LogInv, TypeOK, queueVars, gathered
  <2>1. CASE Finalize
    BY <2>1 DEF Finalize, file
  <2>2. CASE FinalizeJoin
    BY <2>2 DEF FinalizeJoin, file
  <2>3. CASE FinalizeHeader
    <3>1. header' \in [valid : BOOLEAN, containers : Nat, records : Nat]
      BY <2>3 DEF FinalizeHeader, CurrentHeader
    <3> QED
      BY <2>3, <3>1 DEF FinalizeHeader
  <2>4. CASE FinalizeClose
    BY <2>4 DEF FinalizeClose
  <2> QED
    BY <2>1, <2>2, <2>3, <2>4
<1>2. Places' /\ Counts'
  BY DEF Finalize, FinalizeJoin, FinalizeHeader, FinalizeClose, LogInv, Places, Counts,
         queueVars, gathered, file
<1>3. /\ UNCHANGED <<accepted, queue, hand, stored, storage, collector>>
      /\ stop' = stop \/ stop'
  BY DEF Finalize, FinalizeJoin, FinalizeHeader, FinalizeClose, queueVars, gathered, file
<1>4. Line'
  BY <1>3 DEF LogInv, Line, Gathered, InHand
<1> QED
  BY <1>1, <1>2, <1>4 DEF LogInv

LEMMA LogWake ==
  ASSUME LogInv, FinalizeWake
  PROVE  LogInv'
<1>1. /\ queue' \in Seq(Frames \cup {Nothing}) /\ Len(queue') = Len(queue) + 1
      /\ \A i \in 1 .. Len(queue) : queue'[i] = queue[i]
      /\ queue'[Len(queue) + 1] = Nothing
  BY AppendType DEF FinalizeWake, WakeCollector, Put, LogInv, TypeOK
<1>2. TypeOK'
  BY <1>1 DEF FinalizeWake, LogInv, TypeOK, gathered, file
<1>3. Places' /\ Counts'
  BY DEF FinalizeWake, LogInv, Places, Counts, gathered, file
<1>4. UNCHANGED <<accepted, hand, stored, storage, collector, stop>> /\ stop
  BY DEF FinalizeWake, LogInv, Places, gathered, file
<1>5. Line'
  <2>1. Gathered' = Gathered /\ InHand' = InHand /\ Len(queue) \in Nat /\ Len(accepted) \in Nat
    BY <1>4 DEF Gathered, InHand, LogInv, TypeOK
  <2>2. \A i \in 1 .. Len(queue') : i \in 1 .. Len(queue) \/ queue'[i] = Nothing
    BY <1>1, <2>1
  <2>3. \A i \in 1 .. Len(queue') : queue'[i] <= Len(accepted)
    BY <1>1, <2>1, <2>2 DEF LogInv, Line, Nothing
  <2>4. collector # "ended" =>
          \A i \in 1 .. Len(queue') : queue'[i] \in {Nothing, Gathered + InHand + i}
    BY <1>1, <2>2 DEF LogInv, Line
  <2> QED
    BY <1>4, <2>1, <2>3, <2>4 DEF LogInv, Line
<1> QED
  BY <1>2, <1>3, <1>5 DEF LogInv

LEMMA LogNext ==
  ASSUME LogInv, [Next]_vars
  PROVE  LogInv'
<1>1. CASE UNCHANGED vars
  BY <1>1, LogStays DEF vars, queueVars, gathered, file, LogInv, TypeOK, Places, Counts
<1>2. CASE Next
  BY <1>2, LogAdd, LogLoop, LogGet, LogTest, LogStore, LogCompress, LogCommit, LogFinalize,
     LogWake DEF Next, Collect, Compress, Complete
<1> QED
  BY <1>1, <1>2

(* Every variable of the writer keeps to its type; the numbers of frames   *)
(* in the containers stay below the number of frames added.                *)
THEOREM TypeCorrect == Spec => []TypeOK
<1>1. LogInv => TypeOK
  BY DEF LogInv
<1> QED
  BY LogInit, LogNext, <1>1, PTL DEF Spec

-----------------------------------------------------------------------------
(* The containers cover the frames in the file, the header some of them;   *)
(* from the moment finalize() writes it, all, and none is left in the      *)
(* storage.                                                                *)
Covered ==
  /\ numContainers = Len(ends)
  /\ \A i \in 1 .. Len(ends) : ends[i] <= Len(stored)
  /\ IF ends = <<>> THEN Len(stored) = 0 ELSE ends[Len(ends)] = Len(stored)

Described ==
  /\ header.containers <= Len(ends)
  /\ header.records = IF header.containers = 0 THEN 0 ELSE ends[header.containers]

Completed ==
  /\ finalizer \in {"header", "close", "closed"} => storage = <<>>
  /\ finalizer \in {"close", "closed"} => header = CurrentHeader

FileInv == LogInv /\ Covered /\ Described /\ Completed

LEMMA FileInit == Init => FileInv
<1>1. Init => Covered /\ Described /\ Completed
  BY DEF Init, Covered, Described, Completed
<1> QED
  BY <1>1, LogInit DEF FileInv

(* The header as it is written describes all containers.                   *)
LEMMA HeaderCurrent ==
  ASSUME FileInv, header' = CurrentHeader, UNCHANGED <<stored, ends>>
  PROVE  Described'
<1>1. /\ header'.containers = Len(ends) /\ header'.records = Len(stored)
      /\ Len(ends) \in Nat
  BY DEF FileInv, LogInv, TypeOK, Counts, Covered, CurrentHeader
<1>2. CASE ends = <<>>
  BY <1>1, <1>2 DEF FileInv, Covered, Described
<1>3. CASE ends # <<>>
  <2>1. Len(ends) # 0
    BY <1>3 DEF FileInv, LogInv, TypeOK
  <2> QED
    BY <1>1, <1>3, <2>1 DEF FileInv, Covered, Described
<1> QED
  BY <1>2, <1>3

LEMMA FileCommit ==
  ASSUME FileInv, CompressCommit
  PROVE  Covered' /\ Described' /\ Completed'
<1> DEFINE e == recordCount + containerRecordCount
<1>1. /\ stored' = stored \o storage /\ storage' = <<>> /\ compress = "commit"
      /\ ends' = Append(ends, e) /\ numContainers' = numContainers + 1
      /\ header' = header
      /\ finalizer' = IF finalizer = "flush" THEN "header" ELSE finalizer
  BY DEF CompressCommit, ResetStorage
<1>2. /\ stored \in Seq(Frames) /\ storage \in Seq(Frames) /\ ends \in Seq(0 .. MaxFrames)
      /\ e = Len(stored) + Len(storage) /\ e \in 0 .. MaxFrames
      /\ header.containers \in Nat
  BY DEF FileInv, LogInv, TypeOK, Counts, Line, Gathered
<1>3. Len(stored') = e /\ Len(stored) <= e /\ Len(stored) \in Nat
  BY <1>1, <1>2, ConcatProperties
<1>4. /\ ends' \in Seq(0 .. MaxFrames) /\ Len(ends') = Len(ends) + 1 /\ Len(ends) \in Nat
      /\ \A i \in 1 .. Len(ends) : ends'[i] = ends[i]
      /\ ends'[Len(ends) + 1] = e
  BY <1>1, <1>2, AppendType
<1>5. Covered'
  <2>1. numContainers' = Len(ends')
    BY <1>1, <1>4 DEF FileInv, Covered
  <2>2. \A i \in 1 .. Len(ends') : i \in 1 .. Len(ends) \/ i = Len(ends) + 1
    BY <1>4
  <2>3. \A i \in 1 .. Len(ends) : ends[i] <= Len(stored) /\ ends[i] \in 0 .. MaxFrames
    BY <1>2 DEF FileInv, Covered
  <2>4. \A i \in 1 .. Len(ends') : ends'[i] <= Len(stored')
    <3>1. \A i \in 1 .. Len(ends) : ends[i] <= e
      <4> HIDE DEF e
      <4> QED
        BY <1>2, <1>3, <2>3
    <3>2. e <= e
      BY <1>2
    <3> HIDE DEF e
    <3> QED
      BY <1>3, <1>4, <2>2, <3>1, <3>2
  <2>5. ends' # <<>>
    BY <1>4
  <2>6. ends'[Len(ends')] = Len(stored')
    BY <1>3, <1>4
  <2> QED
    BY <2>1, <2>4, <2>5, <2>6 DEF Covered
<1>6. Described'
  <2>1. /\ header.containers <= Len(ends)
        /\ header.records = IF header.containers = 0 THEN 0 ELSE ends[header.containers]
    BY DEF FileInv, Described
  <2>2. header.containers = 0 \/ header.containers \in 1 .. Len(ends)
    BY <1>2, <1>4, <2>1
  <2> QED
    BY <1>1, <1>2, <1>4, <2>1, <2>2 DEF Described
<1>7. Completed'
  <2>1. finalizer \notin {"header", "close", "closed"}
    BY <1>1 DEF FileInv, LogInv, Places
  <2> QED
    BY <1>1, <2>1 DEF Completed
<1> QED
  BY <1>5, <1>6, <1>7

LEMMA FileNext ==
  ASSUME FileInv, [Next]_vars
  PROVE  FileInv'
<1>0. LogInv'
  BY LogNext DEF FileInv
<1>1. ASSUME UNCHANGED <<numContainers, stored, ends>>
      PROVE  Covered'
  BY <1>1 DEF FileInv, Covered
<1>2. ASSUME UNCHANGED <<header, ends>>
      PROVE  Described'
  BY <1>2 DEF FileInv, Described
<1>3. CASE \/ UNCHANGED vars \/ \E length \in Lengths : AddFrame(length)
           \/ CollectorLoop \/ CollectorGet \/ CollectorTest \/ Finalize \/ FinalizeWake
  <2>1. /\ UNCHANGED <<recordCount, numContainers, stored, ends, header, storage>>
        /\ \/ finalizer' = finalizer
           \/ finalizer' \in {"sentinel", "join"}
    BY <1>3 DEF vars, AddFrame, CollectorLoop, CollectorGet, CollectorTest, Finalize,
                FinalizeWake, gathered, file
  <2>2. Completed'
    BY <2>1 DEF FileInv, Completed, CurrentHeader
  <2> QED
    BY <1>0, <1>1, <1>2, <2>1, <2>2 DEF FileInv
<1>4. CASE CollectorStore
  <2>1. UNCHANGED <<numContainers, stored, ends, header, finalizer>>
    BY <1>4 DEF CollectorStore, file
  <2>2. finalizer \notin {"header", "close", "closed"}
    BY <1>4 DEF CollectorStore, FileInv, LogInv, Places
  <2>3. Completed'
    BY <2>1, <2>2 DEF Completed
  <2> QED
    BY <1>0, <1>1, <1>2, <2>1, <2>3 DEF FileInv
<1>5. CASE \E n \in {1, CompressBound(size)} : CompressInto(n)
  <2>1. UNCHANGED <<recordCount, numContainers, stored, ends, header, storage, finalizer>>
    BY <1>5 DEF CompressInto, gathered
  <2>2. Completed'
    BY <2>1 DEF FileInv, Completed, CurrentHeader
  <2> QED
    BY <1>0, <1>1, <1>2, <2>1, <2>2 DEF FileInv
<1>6. CASE CompressGrow
  <2>1. UNCHANGED <<recordCount, numContainers, stored, ends, storage, finalizer>>
    BY <1>6 DEF CompressGrow, gathered
  <2>2. header' = CurrentHeader \/ header' = header
    BY <1>6 DEF CompressGrow
  <2>3. Described'
    <3>1. CASE header' = CurrentHeader
      BY <2>1, <3>1, HeaderCurrent
    <3>2. CASE header' = header
      BY <1>2, <2>1, <3>2
    <3> QED
      BY <2>2, <3>1, <3>2
  <2>4. Completed'
    BY <2>1, <2>2 DEF FileInv, Completed, CurrentHeader
  <2> QED
    BY <1>0, <1>1, <2>1, <2>3, <2>4 DEF FileInv
<1>7. CASE CompressCommit
  BY <1>0, <1>7, FileCommit DEF FileInv
<1>8. CASE FinalizeJoin
  <2>1. /\ UNCHANGED <<recordCount, numContainers, stored, ends, header, storage>>
        /\ containerRecordCount = 0 \/ finalizer' = "flush"
        /\ finalizer' \in {"flush", "header"}
    <3>1. UNCHANGED <<recordCount, numContainers, stored, ends, header, storage>>
      BY <1>8 DEF FinalizeJoin, gathered, file
    <3>2. containerRecordCount \in Nat
      BY DEF FileInv, LogInv, TypeOK
    <3>3. IF containerRecordCount > 0 THEN finalizer' = "flush" ELSE finalizer' = "header"
      BY <1>8 DEF FinalizeJoin, FramesLeft
    <3> QED
      BY <3>1, <3>2, <3>3
  <2>2. containerRecordCount = 0 => storage = <<>>
    <3>1. containerRecordCount = Len(storage) /\ storage \in Seq(Frames)
      BY DEF FileInv, LogInv, TypeOK, Counts
    <3> QED
      BY <3>1, EmptySeq
  <2>3. Completed'
    BY <2>1, <2>2 DEF Completed
  <2> QED
    BY <1>0, <1>1, <1>2, <2>1, <2>3 DEF FileInv
<1>9. CASE FinalizeHeader
  <2>1. /\ UNCHANGED <<recordCount, numContainers, stored, ends, storage>>
        /\ header' = CurrentHeader /\ finalizer = "header" /\ finalizer' = "close"
    BY <1>9 DEF FinalizeHeader, gathered
  <2>2. Completed'
    BY <2>1 DEF FileInv, Completed, CurrentHeader
  <2> QED
    BY <1>0, <1>1, <2>1, <2>2, HeaderCurrent DEF FileInv
<1>10. CASE FinalizeClose
  <2>1. /\ UNCHANGED <<recordCount, numContainers, stored, ends, storage, header>>
        /\ finalizer = "close" /\ finalizer' = "closed"
    BY <1>10 DEF FinalizeClose, gathered
  <2>2. Completed'
    BY <2>1 DEF FileInv, Completed, CurrentHeader
  <2> QED
    BY <1>0, <1>1, <1>2, <2>1, <2>2 DEF FileInv
<1> QED
  BY <1>3, <1>4, <1>5, <1>6, <1>7, <1>8, <1>9, <1>10 DEF Next, Collect, Compress, Complete

(* Whatever state the process dies in, a file with a header holds the      *)
(* first frames that were added, in order, as many as the header says.     *)
THEOREM FileHoldsPrefix == Spec => []FileIsPrefix
<1>1. FileInv => FileIsPrefix
  <2> SUFFICES ASSUME FileInv PROVE FileIsPrefix
    OBVIOUS
  <2>1. /\ stored \in Seq(Frames) /\ Len(stored) \in Nat /\ ends \in Seq(0 .. MaxFrames)
        /\ header.containers \in Nat /\ Len(ends) \in Nat
        /\ Len(stored) <= Len(accepted) /\ Len(accepted) \in Nat
        /\ \A i \in 1 .. Len(stored) : stored[i] = i
    BY DEF FileInv, LogInv, TypeOK, Line, Gathered
  <2>2. /\ header.containers <= Len(ends)
        /\ header.records = IF header.containers = 0 THEN 0 ELSE ends[header.containers]
        /\ \A i \in 1 .. Len(ends) : ends[i] <= Len(stored)
    BY DEF FileInv, Covered, Described
  <2>3. CASE header.containers = 0
    <3>1. FileContents = <<>> /\ header.records = 0
      BY <2>2, <2>3 DEF FileContents
    <3> QED
      BY <2>1, <2>2, <3>1 DEF FileIsPrefix
  <2>4. CASE header.containers # 0
    <3>1. header.containers \in 1 .. Len(ends)
      BY <2>1, <2>2, <2>4
    <3>2. /\ header.records = ends[header.containers]
          /\ header.records <= Len(stored) /\ header.records \in Nat
          /\ FileContents = SubSeq(stored, 1, header.records)
      BY <2>1, <2>2, <2>4, <3>1 DEF FileContents
    <3>3. /\ Len(FileContents) = header.records
          /\ \A i \in 1 .. header.records : FileContents[i] = stored[i]
      BY <2>1, <3>2
    <3>4. \A i \in 1 .. header.records : i \in 1 .. Len(stored)
      BY <2>1, <3>2
    <3> QED
      BY <2>1, <2>2, <3>2, <3>3, <3>4 DEF FileIsPrefix
  <2> QED
    BY <2>3, <2>4
<1> QED
  BY FileInit, FileNext, <1>1, PTL DEF Spec

(* The closed file has every frame that was gathered.                      *)
THEOREM ClosedFileComplete == Spec => []ClosedIsComplete
<1>1. FileInv => ClosedIsComplete
  <2> SUFFICES ASSUME FileInv, finalizer = "closed"
               PROVE  header.valid /\ FileContents = Kept
    BY DEF ClosedIsComplete
  <2>1. /\ storage = <<>> /\ header = CurrentHeader
        /\ stored \in Seq(Frames) /\ ends \in Seq(0 .. MaxFrames)
        /\ numContainers = Len(ends)
    BY DEF FileInv, LogInv, TypeOK, Completed, Covered
  <2>2. header.valid /\ header.containers = Len(ends)
    BY <2>1 DEF CurrentHeader
  <2>3. Kept = stored
    BY <2>1, ConcatEmptySeq DEF Kept
  <2>4. CASE ends = <<>>
    <3>1. Len(ends) = 0 /\ Len(stored) = 0
      BY <2>1, <2>4 DEF FileInv, Covered
    <3>2. stored = <<>>
      BY <2>1, <3>1
    <3> QED
      BY <2>2, <2>3, <3>1, <3>2 DEF FileContents
  <2>5. CASE ends # <<>>
    <3>1. Len(ends) # 0 /\ ends[Len(ends)] = Len(stored)
      BY <2>1, <2>5 DEF FileInv, Covered
    <3>2. SubSeq(stored, 1, Len(stored)) = stored
      BY <2>1, SubSeqFull
    <3> QED
      BY <2>2, <2>3, <3>1, <3>2 DEF FileContents
  <2> QED
    BY <2>4, <2>5
<1> QED
  BY FileInit, FileNext, <1>1, PTL DEF Spec

-----------------------------------------------------------------------------
(* How much is written.  A file is doubled when it is more than half full, *)
(* and a container takes at most a quarter of it.                          *)
Largest == CompressBound(MaxContainer)

StorageSpace ==
  /\ size <= MaxContainer
  /\ collector # "compress" => size <= Chunk

FileSpace ==
  /\ finalizer # "closed" => 4 * Room <= fileSize /\ offset <= fileSize \div 2 + Room
  /\ compress = "commit" => offset <= fileSize \div 2
  /\ IF compress \in {"grow", "commit"}
       THEN packed <= Largest /\ written = offset + ContainerHeader + packed
       ELSE written <= offset
  /\ finalizer = "closed" => fileSize = offset

SpaceInv == LogInv /\ StorageSpace /\ FileSpace

LEMMA Sizes ==
  /\ Largest \in Nat /\ 1 <= Largest /\ MaxContainer \in Nat
  /\ Room \in Nat /\ Room = ContainerHeader + Largest
  /\ \A n \in Nat : n <= MaxContainer => CompressBound(n) <= Largest
  BY DEF Largest, Room, MaxContainer, CompressBound

LEMMA Halves ==
  ASSUME NEW n \in Nat
  PROVE  /\ n \div 2 \in Nat /\ 2 * (n \div 2) <= n /\ n <= 2 * (n \div 2) + 1
         /\ 2 * n \in Nat /\ (2 * n) \div 2 = n
  OBVIOUS

LEMMA SpaceInit == Init => SpaceInv
<1> SUFFICES ASSUME Init PROVE SpaceInv
  OBVIOUS
<1>1. StorageSpace
  BY Sizes DEF Init, StorageSpace
<1>2. FileSpace
  <2>1. offset = HeaderSize /\ fileSize = Prealloc /\ written = 0 /\ compress = "no" /\ finalizer = "no"
    BY DEF Init
  <2>2. 4 * Room <= Prealloc /\ HeaderSize <= Prealloc \div 2
    BY RoomAssumption
  <2>3. Prealloc \div 2 \in Nat /\ HeaderSize <= Prealloc \div 2 + Room
    BY <2>2, Sizes, Halves
  <2> QED
    BY <2>1, <2>2, <2>3 DEF FileSpace
<1> QED
  BY <1>1, <1>2, LogInit DEF SpaceInv

LEMMA StorageSpaceNext ==
  ASSUME SpaceInv, [Next]_vars
  PROVE  StorageSpace'
<1>1. CASE CollectorStore
  <2>1. /\ size' = size + FrameSize(hand) /\ collector = "store"
        /\ (size' > Chunk /\ collector' = "compress") \/ (~(size' > Chunk) /\ collector' = "loop")
    BY <1>1 DEF CollectorStore
  <2>2. FrameSize(hand) \in Nat /\ FrameSize(hand) <= FrameHeader + MaxLength
    <3>1. hand \in 1 .. Len(accepted)
      BY <2>1 DEF SpaceInv, LogInv, TypeOK, Line, Gathered, Frames
    <3>2. accepted[hand] \in Lengths
      BY <3>1, ElementOfSeq, Zenon DEF SpaceInv, LogInv, TypeOK
    <3>3. \A x \in Lengths : x \in Nat /\ x <= MaxLength
      OBVIOUS
    <3>4. accepted[hand] \in Nat /\ accepted[hand] <= MaxLength
      BY <3>2, <3>3, Zenon
    <3> DEFINE l == accepted[hand]
    <3>5. l \in Nat /\ l <= MaxLength
      BY <3>4
    <3>6. FrameHeader + l \in Nat /\ FrameHeader + l <= FrameHeader + MaxLength
      <4> HIDE DEF l
      <4> QED
        BY <3>5
    <3> QED
      BY <3>6 DEF FrameSize
  <2>3. size \in Nat /\ size <= Chunk
    BY <2>1 DEF SpaceInv, LogInv, TypeOK, StorageSpace
  <2>4. size' <= MaxContainer /\ size' \in Nat
    BY <2>1, <2>2, <2>3 DEF MaxContainer
  <2> QED
    BY <2>1, <2>4 DEF StorageSpace
<1>2. CASE CompressCommit
  <2>1. size' = 0
    BY <1>2 DEF CompressCommit, ResetStorage
  <2> QED
    BY <2>1, Sizes DEF StorageSpace
<1>3. CASE \/ UNCHANGED vars \/ \E length \in Lengths : AddFrame(length)
           \/ CollectorLoop \/ CollectorGet \/ CollectorTest \/ Finalize \/ Complete
           \/ (\E n \in {1, CompressBound(size)} : CompressInto(n)) \/ CompressGrow
  <2>1. size' = size /\ (collector = "compress" => collector' = "compress")
    BY <1>3 DEF vars, AddFrame, CollectorLoop, CollectorGet, CollectorTest, Finalize, Complete,
                FinalizeWake, FinalizeJoin, FinalizeHeader, FinalizeClose, CompressInto,
                CompressGrow, gathered
  <2> QED
    BY <2>1 DEF SpaceInv, StorageSpace
<1> QED
  BY <1>1, <1>2, <1>3 DEF Next, Collect, Compress

LEMMA FileSpaceNext ==
  ASSUME SpaceInv, [Next]_vars
  PROVE  FileSpace'
<1>1. /\ offset \in Nat /\ fileSize \in Nat /\ written \in Nat /\ packed \in Nat /\ size \in Nat
      /\ fileSize \div 2 \in Nat
  BY Halves DEF SpaceInv, LogInv, TypeOK
<1>2. compress # "no" => finalizer # "closed"
  BY DEF SpaceInv, LogInv, Places
<1>3. CASE \/ UNCHANGED vars \/ \E length \in Lengths : AddFrame(length)
           \/ Collect \/ Finalize \/ FinalizeWake \/ FinalizeJoin \/ FinalizeHeader
  <2>1. /\ UNCHANGED <<offset, fileSize, written, packed>>
        /\ finalizer' # "closed" <=> finalizer # "closed"
        /\ compress' = compress \/ (compress' = "lz4" /\ compress = "no")
    <3>1. Collect => compress' = compress \/ (compress' = "lz4" /\ compress = "no")
      BY DEF Collect, CollectorLoop, CollectorGet, CollectorTest, CollectorStore, SpaceInv,
             LogInv, TypeOK, Places
    <3>2. FinalizeJoin => compress' = compress \/ (compress' = "lz4" /\ compress = "no")
      BY DEF FinalizeJoin, SpaceInv, LogInv, TypeOK, Places
    <3> QED
      BY <1>3, <3>1, <3>2
        DEF vars, AddFrame, Collect, CollectorLoop, CollectorGet, CollectorTest, CollectorStore,
            Finalize, FinalizeWake, FinalizeJoin, FinalizeHeader, file
  <2> QED
    BY <2>1 DEF SpaceInv, FileSpace
<1>4. ASSUME NEW n \in {1, CompressBound(size)}, CompressInto(n)
      PROVE  FileSpace'
  <2>1. n <= Largest
    BY <1>1, Sizes DEF SpaceInv, StorageSpace
  <2>2. /\ packed' = n /\ written' = offset + ContainerHeader + n /\ compress' = "grow"
        /\ UNCHANGED <<offset, fileSize, finalizer>> /\ compress = "lz4"
    BY <1>4 DEF CompressInto
  <2> QED
    BY <1>2, <2>1, <2>2 DEF SpaceInv, FileSpace
<1>5. CASE CompressGrow
  <2>1. /\ UNCHANGED <<offset, packed, written, finalizer>> /\ compress = "grow" /\ compress' = "commit"
        /\ IF offset > fileSize \div 2 THEN fileSize' = 2 * fileSize ELSE fileSize' = fileSize
    BY <1>5 DEF CompressGrow, HalfFull
  <2>2. finalizer # "closed" /\ 4 * Room <= fileSize /\ offset <= fileSize \div 2 + Room
    BY <1>2, <2>1 DEF SpaceInv, FileSpace
  <2>3. 4 * Room <= fileSize' /\ offset <= fileSize' \div 2 /\ fileSize' \div 2 \in Nat
    <3>1. CASE offset > fileSize \div 2
      <4>1. fileSize' = 2 * fileSize /\ (2 * fileSize) \div 2 = fileSize
        BY <1>1, <2>1, <3>1, Halves
      <4>2. fileSize \div 2 + Room <= fileSize
        BY <1>1, <2>2, Sizes, Halves
      <4> QED
        BY <1>1, <2>2, <4>1, <4>2, Sizes
    <3>2. CASE ~(offset > fileSize \div 2)
      BY <1>1, <2>1, <2>2, <3>2
    <3> QED
      BY <3>1, <3>2
  <2>4. offset <= fileSize' \div 2 + Room
    BY <1>1, <2>3, Sizes
  <2> QED
    BY <2>1, <2>2, <2>3, <2>4 DEF SpaceInv, FileSpace
<1>6. CASE CompressCommit
  <2>1. /\ offset' = offset + ContainerHeader + packed /\ compress = "commit" /\ compress' = "no"
        /\ UNCHANGED <<fileSize, written>>
        /\ finalizer' # "closed" <=> finalizer # "closed"
    BY <1>6 DEF CompressCommit
  <2>2. /\ finalizer # "closed" /\ 4 * Room <= fileSize /\ offset <= fileSize \div 2
        /\ packed <= Largest /\ written = offset + ContainerHeader + packed
    BY <1>2, <2>1 DEF SpaceInv, FileSpace
  <2>3. offset' <= fileSize \div 2 + Room /\ written <= offset'
    BY <1>1, <2>1, <2>2, Sizes
  <2> QED
    BY <2>1, <2>2, <2>3 DEF FileSpace
<1>7. CASE FinalizeClose
  <2>1. /\ fileSize' = offset /\ UNCHANGED <<offset, written, compress, packed>>
        /\ finalizer = "close" /\ finalizer' = "closed"
    BY <1>7 DEF FinalizeClose
  <2>2. compress = "no"
    BY <2>1 DEF SpaceInv, LogInv, Places
  <2> QED
    BY <2>1, <2>2 DEF SpaceInv, FileSpace
<1> QED
  BY <1>3, <1>4, <1>5, <1>6, <1>7 DEF Next, Compress, Complete

(* Nothing is written behind the end of the file or of the storage.        *)
THEOREM WritesInside == Spec => []InsideFile
<1>1. SpaceInv /\ [Next]_vars => SpaceInv'
  BY LogNext, StorageSpaceNext, FileSpaceNext DEF SpaceInv
<1>2. SpaceInv => InsideFile
  <2> SUFFICES ASSUME SpaceInv PROVE InsideFile
    OBVIOUS
  <2>1. /\ offset \in Nat /\ fileSize \in Nat /\ written \in Nat /\ packed \in Nat /\ size \in Nat
        /\ compress # "no" => finalizer # "closed"
    BY DEF SpaceInv, LogInv, TypeOK, Places
  <2>2. size <= Chunk + Slack
    <3>1. size <= Chunk + FrameHeader + MaxLength
      BY DEF SpaceInv, StorageSpace, MaxContainer
    <3> QED
      BY <2>1, <3>1, RoomAssumption
  <2>3. CASE finalizer = "closed"
    <3>1. written <= offset /\ fileSize = offset
      BY <2>1, <2>3 DEF SpaceInv, FileSpace
    <3> QED
      BY <2>2, <3>1 DEF InsideFile
  <2>4. CASE finalizer # "closed"
    <3>1. 4 * Room <= fileSize /\ offset <= fileSize \div 2 + Room
      BY <2>4 DEF SpaceInv, FileSpace
    <3>2. written <= offset + Room
      <4>1. CASE compress \in {"grow", "commit"}
        <5>1. packed <= Largest /\ written = offset + ContainerHeader + packed
          BY <4>1 DEF SpaceInv, FileSpace
        <5> QED
          BY <2>1, <5>1, Sizes
      <4>2. CASE compress \notin {"grow", "commit"}
        <5>1. written <= offset
          BY <4>2 DEF SpaceInv, FileSpace
        <5> QED
          BY <2>1, <5>1, Sizes
      <4> QED
        BY <4>1, <4>2
    <3>3. fileSize \div 2 + Room + Room <= fileSize
      BY <2>1, <3>1, Sizes, Halves
    <3>4. written <= fileSize
      BY <2>1, <3>1, <3>2, <3>3, Sizes, Halves
    <3> QED
      BY <2>2, <3>4 DEF InsideFile
  <2> QED
    BY <2>3, <2>4
<1> QED
  BY SpaceInit, <1>1, <1>2, PTL DEF Spec

-----------------------------------------------------------------------------
(* Every step of the writer is a step of the recorder in FrameLog, or none *)
(* of its steps: what it gathers is recorded in the order it was accepted, *)
(* once, and the record is final when the file is closed.                  *)
THEOREM WriterIsFrameLog == Spec => IsFrameLog
<1>1. Init => Log!Init
  BY DEF Init, Log!Init, Kept
<1>2. LogInv /\ [Next]_vars => [Log!Next]_(Log!vars)
  <2> SUFFICES ASSUME LogInv, [Next]_vars
               PROVE  [Log!Next]_(Log!vars)
    OBVIOUS
  <2>0. /\ stored \in Seq(Frames) /\ storage \in Seq(Frames) /\ accepted \in Seq(Lengths)
        /\ Len(Kept) = Gathered
    BY KeptAppend DEF LogInv, TypeOK, Kept, Gathered
  <2>1. ASSUME UNCHANGED <<accepted, stored, storage>>,
               finalizer' # "closed" <=> finalizer # "closed"
        PROVE  UNCHANGED Log!vars
    BY <2>1 DEF Log!vars, Kept
  <2>2. CASE UNCHANGED vars
    BY <2>1, <2>2 DEF vars, queueVars, gathered, file
  <2>3. ASSUME NEW length \in Lengths, AddFrame(length)
        PROVE  Log!Accept
    <3>1. Len(accepted') = Len(accepted) + 1
      BY <2>0, <2>3, AppendType DEF AddFrame
    <3> QED
      BY <2>3, <3>1 DEF Log!Accept, AddFrame, Kept, gathered, file
  <2>4. CASE CollectorStore
    <3>1. /\ storage' = Append(storage, hand) /\ UNCHANGED <<accepted, stored, finalizer>>
          /\ hand \in Frames /\ hand = Gathered + 1 /\ hand <= Len(accepted)
          /\ finalizer # "closed" /\ Len(accepted) \in Nat /\ Gathered \in Nat
      BY <2>0, <2>4, SMTT(40) DEF CollectorStore, queueVars, file, LogInv, TypeOK, Line, Places, Frames,
                        Gathered
    <3>2. Kept' = Append(Kept, Len(Kept) + 1)
      BY <2>0, <3>1, KeptAppend DEF Kept
    <3>3. Len(Kept) < Len(accepted)
      BY <2>0, <3>1
    <3> QED
      BY <3>1, <3>2, <3>3 DEF Log!Next, Log!Record
  <2>5. CASE CompressCommit
    <3>1. /\ stored' = stored \o storage /\ storage' = <<>> /\ accepted' = accepted
          /\ finalizer' # "closed" <=> finalizer # "closed"
      BY <2>5 DEF CompressCommit, ResetStorage, queueVars
    <3>2. stored \o storage \in Seq(Frames)
      BY <2>0, ConcatProperties
    <3>3. Kept' = Kept
      BY <3>1, <3>2, ConcatEmptySeq DEF Kept
    <3> QED
      BY <3>1, <3>3 DEF Log!vars
  <2>6. CASE FinalizeClose
    BY <2>6 DEF FinalizeClose, Log!Next, Log!Close, Kept, queueVars, gathered
  <2>7. CASE \/ CollectorLoop \/ CollectorGet \/ CollectorTest \/ Finalize \/ FinalizeWake
             \/ FinalizeJoin \/ FinalizeHeader \/ CompressGrow
             \/ \E n \in {1, CompressBound(size)} : CompressInto(n)
    <3>1. /\ UNCHANGED <<accepted, stored, storage>>
          /\ finalizer' # "closed" <=> finalizer # "closed"
      BY <2>7 DEF CollectorLoop, CollectorGet, CollectorTest, Finalize, FinalizeWake,
                  FinalizeJoin, FinalizeHeader, CompressGrow, CompressInto, queueVars,
                  gathered, file
    <3> QED
      BY <2>1, <3>1
  <2> QED
    BY <2>2, <2>3, <2>4, <2>5, <2>6, <2>7 DEF Next, Collect, Compress, Complete, Log!Next
<1>3. Spec => []LogInv
  BY LogInit, LogNext, PTL DEF Spec
<1> QED
  BY <1>1, <1>2, <1>3, PTL DEF Spec, IsFrameLog, Log!Spec
=============================================================================
