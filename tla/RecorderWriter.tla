--------------------------- MODULE RecorderWriter ---------------------------
(***************************************************************************)
(* XcpLogFileWriter (recorder/writer.hpp) and its queue (cpp_ext/          *)
(* tsqueue.hpp): add_frame() puts frames into a queue, a collector thread  *)
(* takes them out, gathers them in an intermediate storage and, when that  *)
(* exceeds a chunk, compresses them into a container of the memory-mapped  *)
(* file; finalize() stops the thread and completes the file.               *)
(*                                                                         *)
(* Frames are numbered in the order add_frame() gets them.  The file is    *)
(* mapped shared, so each state of it is what a process that dies in that  *)
(* state leaves behind.                                                    *)
(***************************************************************************)
EXTENDS Integers, Sequences

CONSTANTS
  Lengths,           \* the payload lengths of frames
  MaxLength,         \* the largest of them (XCP_PAYLOAD_MAX)
  FrameHeader,       \* sizeof(frame_header_t)
  ContainerHeader,   \* detail::CONTAINER_SIZE
  HeaderSize,        \* the file header, with magic and metadata
  Chunk,             \* m_chunk_size
  Slack,             \* by how much the intermediate storage is larger
  Prealloc,          \* the length the file starts with
  MaxFrames          \* bound: how many frames are added

ASSUME SizesAssumption ==
  /\ MaxLength \in Nat /\ Lengths \subseteq 0 .. MaxLength
  /\ FrameHeader \in Nat /\ ContainerHeader \in Nat /\ HeaderSize \in Nat
  /\ Chunk \in Nat /\ Slack \in Nat /\ Prealloc \in Nat /\ MaxFrames \in Nat

(* LZ4_COMPRESSBOUND: the most bytes n bytes are compressed to.            *)
CompressBound(n) == n + n \div 255 + 16

(* A container is closed as soon as it exceeds a chunk.                    *)
MaxContainer == Chunk + FrameHeader + MaxLength
Room == ContainerHeader + CompressBound(MaxContainer)

(* What the code relies on without testing it: a largest frame fits into   *)
(* the slack (64K into 1M), and the file has room for four containers.     *)
ASSUME RoomAssumption ==
  /\ FrameHeader + MaxLength <= Slack
  /\ 4 * Room <= Prealloc
  /\ HeaderSize <= Prealloc \div 2

VARIABLES
  accepted,    \* the payload length of each frame given to add_frame()
  queue,       \* my_queue
  stop,        \* stop_collector_thread_flag
  collector,   \* where the collector thread is
  hand,        \* the item it took from the queue
  finalizer,   \* where the thread in finalize() is; `no': not called yet
  compress,    \* where compress_frames() is
  packed,      \* cp_size
  storage,     \* the frames in m_intermediate_storage
  size,        \* m_container_size_uncompressed, m_intermediate_storage_offset
  containerRecordCount, recordCount, numContainers,
  offset,      \* m_offset
  fileSize,    \* the length of the file: m_hard_limit until it is trimmed
  written,     \* the end of the last thing written behind the header
  stored,      \* the frames in the containers of the file, in order
  ends,        \* how many of them are in the first, first two, ... containers
  header       \* the file header; valid once it was written

queueVars == <<accepted, queue>>
gathered == <<storage, size, containerRecordCount>>
file == <<recordCount, numContainers, offset, fileSize, written, stored, ends, header>>
vars == <<queueVars, stop, collector, hand, finalizer, compress, packed, gathered, file>>

Frames == 1 .. MaxFrames
Nothing == 0     \* the item stop_thread() puts into the queue

TypeOK ==
  /\ accepted \in Seq(Lengths) /\ Len(accepted) <= MaxFrames
  /\ queue \in Seq(Frames \cup {Nothing}) /\ hand \in Frames \cup {Nothing}
  /\ stop \in BOOLEAN
  /\ collector \in {"loop", "get", "got", "store", "compress", "ended"}
  /\ finalizer \in {"no", "sentinel", "join", "flush", "header", "close", "closed"}
  /\ compress \in {"no", "lz4", "grow", "commit"}
  /\ packed \in Nat
  /\ storage \in Seq(Frames) /\ stored \in Seq(Frames) /\ ends \in Seq(0 .. MaxFrames)
  /\ size \in Nat /\ offset \in Nat /\ fileSize \in Nat /\ written \in Nat
  /\ containerRecordCount \in Nat /\ recordCount \in Nat /\ numContainers \in Nat
  /\ header \in [valid : BOOLEAN, containers : Nat, records : Nat]

Init ==
  /\ accepted = <<>> /\ queue = <<>> /\ stop = FALSE
  /\ collector = "loop" /\ hand = Nothing
  /\ finalizer = "no" /\ compress = "no" /\ packed = 0
  /\ storage = <<>> /\ size = 0 /\ containerRecordCount = 0
  /\ recordCount = 0 /\ numContainers = 0
  /\ offset = HeaderSize /\ fileSize = Prealloc /\ written = 0
  /\ stored = <<>> /\ ends = <<>>
  /\ header = [valid |-> FALSE, containers |-> 0, records |-> 0]

-----------------------------------------------------------------------------
(* TsQueue::put().  (A definition marked `Mutant' is a plausible mistake   *)
(* in the definition after it; no action uses it.)                         *)
PutInFront(n) == queue' = <<n>> \o queue   \* Mutant
Put(n) == queue' = Append(queue, n)

(* TsQueue::get() waits until the queue is not empty.                      *)
HasTwoItems == Len(queue) > 1   \* Mutant
HasItem == queue # <<>>

(* add_frame().  It and finalize() are called from Python and keep the     *)
(* interpreter's lock, so no frame is added while finalize() runs.         *)
AddFrame(length) ==
  /\ finalizer \in {"no", "closed"} /\ Len(accepted) < MaxFrames
  /\ accepted' = Append(accepted, length)
  /\ Put(Len(accepted) + 1)
  /\ UNCHANGED <<stop, collector, hand, finalizer, compress, packed, gathered, file>>

-----------------------------------------------------------------------------
(* The collector thread: while (!stop_collector_thread_flag) ...           *)
CollectorLoop ==
  /\ collector = "loop"
  /\ collector' = IF stop THEN "ended" ELSE "get"
  /\ UNCHANGED <<queueVars, stop, hand, finalizer, compress, packed, gathered, file>>

(* ... my_queue.get(), which blocks on an empty queue ...                  *)
CollectorGet ==
  /\ collector = "get" /\ HasItem
  /\ hand' = Head(queue) /\ queue' = Tail(queue)
  /\ collector' = "got"
  /\ UNCHANGED <<accepted, stop, finalizer, compress, packed, gathered, file>>

(* ... the flag is tested again, and the item is dropped if it is set.     *)
CollectorTest ==
  /\ collector = "got"
  /\ IF stop THEN collector' = "ended" /\ hand' = Nothing
             ELSE collector' = "store" /\ hand' = hand
  /\ UNCHANGED <<queueVars, stop, finalizer, compress, packed, gathered, file>>

FrameSize(n) == FrameHeader + accepted[n]

(* store_im(), and compress_frames() when the storage exceeds a chunk.     *)
CollectorStore ==
  /\ collector = "store"
  /\ storage' = Append(storage, hand)
  /\ size' = size + FrameSize(hand)
  /\ containerRecordCount' = containerRecordCount + 1
  /\ hand' = Nothing
  /\ IF size' > Chunk THEN collector' = "compress" /\ compress' = "lz4"
                      ELSE collector' = "loop" /\ compress' = compress
  /\ UNCHANGED <<queueVars, stop, finalizer, packed, file>>

-----------------------------------------------------------------------------
(* compress_frames(): LZ4 writes its output into the file, behind the room *)
(* for the container's header.  It gets the bound as the output's size,    *)
(* whatever is left of the file.                                           *)
CompressInto(n) ==
  /\ compress = "lz4"
  /\ packed' = n
  /\ written' = offset + ContainerHeader + n
  /\ compress' = "grow"
  /\ UNCHANGED <<queueVars, stop, collector, hand, finalizer, gathered, recordCount,
                 numContainers, offset, fileSize, stored, ends, header>>

(* Only then does it look whether the file is half full; if so the file is *)
(* doubled and its header written with the containers so far.              *)
Full == offset > fileSize   \* Mutant
HalfFull == offset > fileSize \div 2
CurrentHeader == [valid |-> TRUE, containers |-> numContainers, records |-> recordCount]

CompressGrow ==
  /\ compress = "grow"
  /\ IF HalfFull
       THEN fileSize' = 2 * fileSize /\ header' = CurrentHeader
       ELSE UNCHANGED <<fileSize, header>>
  /\ compress' = "commit"
  /\ UNCHANGED <<queueVars, stop, collector, hand, finalizer, packed, gathered, recordCount,
                 numContainers, offset, written, stored, ends>>

(* The intermediate storage is emptied.                                    *)
StorageKept == storage' = storage /\ size' = 0 /\ containerRecordCount' = 0   \* Mutant
CountKept ==   \* Mutant
  storage' = <<>> /\ size' = 0 /\ containerRecordCount' = containerRecordCount
ResetStorage == storage' = <<>> /\ size' = 0 /\ containerRecordCount' = 0

(* The container's header, the counters; back to the caller.               *)
CompressCommit ==
  /\ compress = "commit"
  /\ stored' = stored \o storage
  /\ ends' = Append(ends, recordCount + containerRecordCount)
  /\ offset' = offset + ContainerHeader + packed
  /\ recordCount' = recordCount + containerRecordCount
  /\ numContainers' = numContainers + 1
  /\ ResetStorage
  /\ compress' = "no"
  /\ collector' = IF collector = "compress" THEN "loop" ELSE collector
  /\ finalizer' = IF finalizer = "flush" THEN "header" ELSE finalizer
  /\ UNCHANGED <<queueVars, stop, hand, packed, fileSize, written, header>>

-----------------------------------------------------------------------------
(* finalize(), the first call (a later one finds m_finalized set and does  *)
(* nothing): stop_thread() sets the flag ...                               *)
Finalize ==
  /\ finalizer = "no"
  /\ stop' = TRUE
  /\ finalizer' = "sentinel"
  /\ UNCHANGED <<queueVars, collector, hand, compress, packed, gathered, file>>

(* ... wakes the collector, which may wait for an item ...                 *)
WakeForgotten == queue' = queue   \* Mutant
WakeCollector == Put(Nothing)

FinalizeWake ==
  /\ finalizer = "sentinel"
  /\ WakeCollector
  /\ finalizer' = "join"
  /\ UNCHANGED <<accepted, stop, collector, hand, compress, packed, gathered, file>>

(* ... and waits for its end.  What is in the storage makes a last         *)
(* container.                                                              *)
ChunkLeft == size > Chunk   \* Mutant
FramesLeft == containerRecordCount > 0

FinalizeJoin ==
  /\ finalizer = "join" /\ collector = "ended"
  /\ IF FramesLeft THEN finalizer' = "flush" /\ compress' = "lz4"
                   ELSE finalizer' = "header" /\ compress' = compress
  /\ UNCHANGED <<queueVars, stop, collector, hand, packed, gathered, file>>

FinalizeHeader ==
  /\ finalizer = "header"
  /\ header' = CurrentHeader
  /\ finalizer' = "close"
  /\ UNCHANGED <<queueVars, stop, collector, hand, compress, packed, gathered, recordCount,
                 numContainers, offset, fileSize, written, stored, ends>>

(* The file is unmapped, trimmed to what is used, and closed.              *)
FinalizeClose ==
  /\ finalizer = "close"
  /\ fileSize' = offset
  /\ finalizer' = "closed"
  /\ UNCHANGED <<queueVars, stop, collector, hand, compress, packed, gathered, recordCount,
                 numContainers, offset, written, stored, ends, header>>

-----------------------------------------------------------------------------
Collect == CollectorLoop \/ CollectorGet \/ CollectorTest \/ CollectorStore

(* External: what LZ4 makes of the storage, from nearly nothing to the     *)
(* bound.                                                                  *)
Compress ==
  \/ \E n \in {1, CompressBound(size)} : CompressInto(n)
  \/ CompressGrow \/ CompressCommit

Complete == FinalizeWake \/ FinalizeJoin \/ FinalizeHeader \/ FinalizeClose

Next ==
  \/ \E length \in Lengths : AddFrame(length)
  \/ Collect \/ Compress \/ Finalize \/ Complete

Spec == Init /\ [][Next]_vars

(* The collector's mutex, jthread and the calls of the operating system    *)
(* make progress; nobody has to call finalize().                           *)
FairSpec == Spec /\ WF_vars(Collect) /\ WF_vars(Compress) /\ WF_vars(Complete)

-----------------------------------------------------------------------------
(* What XcpLogFileReader gets from the file: next_block() returns one      *)
(* container after the other, as many as the header says.                  *)
FileContents ==
  IF header.containers = 0 THEN <<>> ELSE SubSeq(stored, 1, ends[header.containers])

(* At any moment, be it the one in which the process dies, a file whose    *)
(* header was written holds the containers the header speaks of, and they  *)
(* hold the first frames that were added, in order, none missing or twice, *)
(* and as many as the header says.                                         *)
FileIsPrefix ==
  header.valid =>
    /\ header.containers <= Len(ends)
    /\ Len(FileContents) = header.records /\ header.records <= Len(accepted)
    /\ \A i \in 1 .. header.records : FileContents[i] = i

(* Nothing is written behind the end of the mapped file, though it grows   *)
(* after LZ4 has written, nor of the intermediate storage; and trimming    *)
(* the file cuts nothing off.                                              *)
InsideFile == written <= fileSize /\ size <= Chunk + Slack

(* The frames the collector has gathered.                                  *)
Kept == stored \o storage

(* The closed file has them all, whatever the collector was doing when     *)
(* finalize() was called: only what it had not yet stored is missing.      *)
ClosedIsComplete == finalizer = "closed" => header.valid /\ FileContents = Kept

(* A finalize() that was called returns: the collector does not wait for a *)
(* frame for ever.                                                         *)
FinalizeEnds == finalizer = "sentinel" ~> finalizer = "closed"

(* A frame does not stay in the queue, unless finalize() is called.        *)
FramesRecorded ==
  \A n \in Frames : (Len(accepted) >= n /\ ~stop) ~> (Len(Kept) >= n \/ stop)

(* The writer is a recorder as FrameLog describes it: what it has gathered *)
(* is its log, and it is open until the file is closed.                    *)
Log == INSTANCE FrameLog WITH accepted <- Len(accepted), log <- Kept,
                              open <- finalizer # "closed"
IsFrameLog == Log!Spec
=============================================================================
