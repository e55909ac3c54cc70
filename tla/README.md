# Formal models of pyxcp

pyxcp is an XCP master in Python with C++ extensions: it sends commands to a
slave (an ECU), receives responses, events and DAQ data, and records them.
This directory holds TLA+ models of its parts, TLC configurations that check
them on small instances, and proofs checked by TLAPS. All line numbers are of
the files under `src/pyxcp/`.

## 1. Inventory

| component | source | state | operations | hard behaviour |
|---|---|---|---|---|
| command channel | `transport/base.py` | `resQueue`, `command_lock`, `resQueue_condition`, `timer_restart_event`, `framing.counter_send`, `policy` | `request`, `request_optional_response`, `block_request`, `block_receive`, `get`, `process_response` | client threads and a listener thread; answers only matched by their order; time-outs that other traffic extends |
| event handlers | `events.py` | registered handlers | `dispatch`; EV_CMD_PENDING | run on the listener thread |
| error matrix | `errormatrix.py` | a constant table | `getActions` | rows whose pre-actions the handler cannot execute |
| error handler | `master/errorhandler.py` | handler stack of a *singleton* `Executor`, repeaters, connect retries | `Executor.__call__`, `Handler.actions`, `Repeater.repeat` | nested recovery, repetition after partial execution, sharing between threads |
| master services | `master/master.py`, `types.py` | `slaveProperties`, packers, `mta`, `currentDaqPtr`, `currentProtectionStatus` | about 150 services | what is learnt from one slave is used with the next; byte order and alignment of fields |
| block transfers | `master/master.py` 708-1350 | position in the data | `push`, `flash_program`, `fetch`, `verify`, `upload` | packets without responses, sizes of blocks and last packets, refusals in between |
| protection | `master/master.py` 2800-2905, `dllif.py` | cached protection status | `cond_unlock` | seeds and keys of several parts |
| AsyncMaster | `master/async_master.py` | a lock, a worker thread | `_call`, `close` | cancellation, several instances |
| async subscriptions | `transport/async_policy.py` | bounded asyncio queue, `_closed` | `subscribe`, `feed`, `publish`, `get`, `close`, `finalize` | threads and callbacks of an event loop, sentinel, full queue |
| Ethernet, SxI, USB, CAN | `transport/*.py`, `cpp_ext/*framing.hpp` | receive buffers, listener threads | `listen`, `send`, `connect`, `close` | frames split and merged by the stream; life cycle of threads |
| framing | `cpp_ext/framing.hpp` | counters | `prepare_request`, `verify_checksum` | six headers, three tails |
| DAQ configuration | `daq_stim/`, `cpp_ext/daqlist.hpp`, `bin.hpp`, `mcobject.hpp` | lists, ODTs, entries | `setup`, `start`, `stop`, packing | the order a device insists on, limits of entries and DTOs |
| STIM | `daq_stim/stim.hpp` | a mirror of the lists | `freeDaq` ... `setDaqListMode` | the mirror must follow the device |
| DAQ unfolder | `recorder/unfolder.hpp` | per list: ODT expected, buffer, timestamp overflows | `feed` | lost and repeated DTOs, overflows |
| recorder | `recorder/writer.hpp`, `reader.hpp`, `cpp_ext/tsqueue.hpp` | queue, intermediate buffer, file | `add_frame`, collector thread, `finalize` | shutdown against a running thread, container boundaries |
| frame policies | `transport/transport_ext.hpp`, `hdf5_policy.py` | per policy | `feed`, `finalize` | called from two threads |
| calibration, time correlation, checksums, configuration | `calibration.py`, `time_correlation.py`, `checksum.py`, `config/` | little | reads, writes, arithmetic | sequential |

How they interact: a client thread calls a service of `Master`; the decorator
`wrapped` gives the call to the `Executor`, which follows the error matrix; the
service packs a command and calls `request()` of the transport, which frames
and sends it and waits at `resQueue`. The reading thread of the transport takes
octets from the line, the listener makes frames of them and calls
`process_response()`, which puts responses into `resQueue`, dispatches events
and gives every frame to the policy: a recorder, an unfolder, or the asyncio
adapter with its subscriptions. `DaqProcessor` calls services to configure the
lists and the unfolder to take them apart; `AsyncMaster` calls services in a
worker thread.

What makes the components correct, as properties of their state:

- *command channel*: a thread is given the answer to its own command; nobody
  pops an empty queue; a time-out is reported only after a real silence, and
  every call ends; the recorder sees a response after its command.
- *error handler*: a call returns the result of its own command and has had its
  effect once and at the right place, whatever got lost; the repetitions are
  those the matrix allows; a lost frame ends no call; every call ends.
- *sharing of the Executor, AsyncMaster*: one call at a time in the Executor;
  every call gets its own result; nothing runs on a closed Master; every
  awaited call ends, whatever is cancelled.
- *services, block transfers, protection*: fields mean to the slave what they
  mean to the master, whatever slave was there before; a transfer that returned
  is exact; an unlock that returned is whole; without faults nothing is raised
  that the caller did not ask for.
- *transports, framing*: the frames handed on are those that were sent, however
  the octets are cut and whatever is lost or altered; after a `close()` that has
  seen its threads end there is silence; `close()` returns, and the threads end.
- *subscriptions*: a task sees the frames in order and none twice; a frame is
  missing only where a bounded queue or `close()` has cost it; a waiting task
  learns of the end.
- *DAQ, STIM, unfolder*: a device that insists on everything refuses nothing;
  every measurement is read by exactly one entry; a result has the octets of
  one sample under the right names, with the right time; the mirror is the
  device.
- *recorder*: the file holds the first of the frames that were added, once each
  and in order, at any moment and so also if the process dies; after
  `finalize()`, which ends, all that was gathered; no write is outside the
  mapped file.

The hard behaviour of each is listed, line by line, as `hazards` in
`PROJECT.json`.

## 2. Modules

| module | models | composed with |
|---|---|---|
| `Transport` | the command channel: client threads, the listener, the time-out clock | - |
| `ErrorMatrix` | `errormatrix.py`, command by command and error by error; repeaters | extended by `ErrorHandler` |
| `ErrorHandler` | `Executor.__call__` of one thread against a lossy slave | extends `ErrorMatrix`; the transport as it sees it is an operator `Take` |
| `SharedExecutor` | the singleton `Executor`, every access a step | extended by `AsyncMaster` |
| `AsyncMaster` | who runs those steps: threads, or tasks behind an `AsyncMaster` | extends `SharedExecutor` |
| `Services` | the layouts of every command and response | extended by `Session` |
| `Session` | connecting, transfers, unlocking: the calls of a program and a slave that checks what it is sent | extends `Services` |
| `Framing` | frames as octets; the receivers as functions | extended by `Listening` |
| `CanIdentifiers` | identifiers of both sizes and the filters made of them | extended by `Listening` |
| `Subscriptions` | `AsyncPolicyAdapter` and its subscriptions | extended by `Listening` |
| `FrameStream` | abstract: what a transport promises | implemented by `Listening` |
| `Listening` | reading thread, listener, `connect()` and `close()` of five transports | extends `Framing`, `CanIdentifiers` and `Subscriptions`; refines `FrameStream`, and `Subscriptions!SubSpec` |
| `DaqPacking` | merging and packing of measurements, as functions | extended by `Daq` |
| `Stim` | the mirror of the lists, as functions | extended by `Daq` |
| `Daq` | `DaqProcessor`, a device, the DTOs, the unfolder | extends `DaqPacking` and `Stim` |
| `FrameLog` | abstract: what a recorder promises | implemented by `RecorderWriter` |
| `RecorderWriter` | `XcpLogFileWriter`, its queue, its collector thread and its file | refines `FrameLog` (`Log == INSTANCE FrameLog WITH ...`) |
| `MC...` | values of the constants for TLC | each extends the module it names |
| `...Proofs` | theorems, checked by TLAPS | each extends the module it names; `ListeningProofs` is about `Subscriptions`, too |
| `DaqMeasureProofs` | the theorems about what the device reads and what becomes of it | extends `DaqProofs`, on whose invariant and lemmas they rest |

`PROJECT.json` maps every definition to the lines it stands for. A definition
with the comment `Mutant` is a plausible mistake in the definition after it; no
action uses it.  `PROJECT.json` says which property finds it.

### Transport

| state | in the code |
|---|---|
| `resQueue`, `commandLock`, `condition`, `timerRestart`, `counterSend` | `resQueue`, `command_lock`, the lock of `resQueue_condition`, `timer_restart_event`, `framing.counter_send` |
| `pc`, `op`, `own`, `received`, `elapsed` | where a client thread is; its locals in `_request_internal`, `get`, `block_receive` |
| `unfed`, `policyLog` | responses that the listener has queued and not yet given to the policy; what the policy was fed |
| `owed`, `events` | the slave (external) |
| `quiet`, `handed`, `abandoned` | history for the properties |
| `use` | which threads make which calls; constant during a behaviour |

An action is what a thread does between two points at which another thread can
see a difference. `request()` is RequestPrepare, RequestSend, then passes of
`get()`'s loop, then GetItem and GetPop; that GetItem and GetPop are two steps
shows what `block_request()`, which takes no lock, can do in between. A pass over
an empty queue is GetTest, which looks at `timer_restart_event`, GetRestart and
GetClear if it was set, and GetTimeout or GetWait, which look at the clock: the
listener, which sets the event, shares no lock with these steps.  A response
carries the number of the frame it answers. No PDU does: the number is how the
model tells right from wrong, and no guard of an action reads it. Time is a
count of ticks that saturates after the time-out.

### ErrorMatrix, ErrorHandler

`ErrorMatrix` is the whole matrix: for every command, which errors have a row
and with which pre-actions and action. The stack of handlers, the repeater of
each, the error replied, the local `connect_retries` and `Master.mta` are the
state; Execute, Handle, PreActionDone, Resynch and Return are the branches of
one pass of the loop.  The slave keeps what commands advance: its MTA, DAQ
pointer, memory, ODT entries and number of DAQ lists.  A loss happens before or
after the slave has executed the command: both look alike to the master, and
that is where the recovery is at stake. `LossesSurvived` leaves out
DOWNLOAD_NEXT and PROGRAM_NEXT, whose rows ask for pre-actions the handler does
not implement.

### SharedExecutor, AsyncMaster

Here every access to the singleton's stack or error code is a step. A call is
a command that succeeds or fails; recovery is one pre-action (SYNCH) and a
repeater of two, enough for a stack that grows and shrinks. `AsyncMaster` adds
the tasks: the FIFO queue of `asyncio.Lock`, the queue of the thread pool,
cancellation at each `await`, `close()` with `shutdown(wait=True)`, which stops
the event loop while it waits. The executor is AsyncMaster's own (one worker)
or supplied (`Workers`).

### Services, Session

`Services` is data: of each service every form of its parameters and of its
response, field by field, as the packers and the structs of `types.py` have
them. A field has a size and a byte order, that of the session or a fixed one.

| state of `Session` | in the code |
|---|---|
| `script`, `call`, `pc` | the calls a program still makes, the one that runs, where it is or what it has raised |
| `todo`, `got`, `expected` | packets of a transfer still to be sent; data received; the checksum to compare with |
| `names`, `status`, `seed`, `keyLeft` | locals of `cond_unlock` |
| `props` | `slaveProperties`, the byte order of the packers, `currentProtectionStatus` |
| `resQueue`, `wire` | answers that wait, and that are on their way |
| `slave` | external: its memory, MTA, open block, locked resources, seed and key so far |
| `exchanged`, `last`, `known` | history for the properties |

`request()` (RequestPacket) sends and takes the oldest answer; `block_request()`
(BlockRequest) sends and takes none, but looks at one that waits already. The
slave executes a packet when it is sent, its answers need time (Arrives), it
may refuse any packet, be reset at any moment, and be exchanged for another
device between two calls. `chunks`, `_block_downloader`, `fetch` and `verify`
are translated with their arithmetic: the packets a call will send are computed
as the code computes them, and sent one action each. The slave holds a block
against the protocol: first packet, continuation with the exact number of
elements that remain, length within MAX_BS, so a wrong count is a refusal or a
wrong memory. The memory has the address as initial content and the data of a
push are distinguishable, so that `TransfersExact` sees a shifted or torn
transfer.

The error handler is left out here; what it makes of refusals and losses is
`ErrorHandler`.

### Framing, FrameStream, Subscriptions, Listening

`Framing` puts octets around a packet as `XcpFraming` does (length, counter or
fill octets, checksum of a byte or a word) and has the receivers as functions
from a receiver and a chunk to a receiver with the frames it found.

| state of `Listening` | in the code |
|---|---|
| `line`, `peer`, `sent`, `lost`, `broken` | external: what is on its way, the other end of TCP, and for `FrameStream` what the slave has sent and what happened to it |
| `socketOpen`, `closeEvent`, `program` | the socket, port or bus; `closeEvent`; where the thread is that connects and closes |
| `reader`, `chunk`, `packets` | the reading thread, what it has read, the deque it fills |
| `receiver`, `listener`, `count`, `found` | the receiver's buffer; the listener thread, its loop counter and the frames in its hand |
| `heard` | history: what `process_response()` was called with |

A read of a stream takes 1 octet, 4, or all there are; a datagram is one frame
or two joined, or is lost; an octet may be altered on the way; on CAN foreign
identifiers are on the bus, and messages without data, which the code drops. The
listener of Ethernet decodes under the lock of
the packets; that of SxI decodes in the reading thread.

On CAN the bus carries messages of other nodes, some with the number of the
slave in the other size of identifier. `CanIdentifiers` has what the code makes
of a configured identifier (its size, its number, the filter), and of the one
in a message; DTOs may have identifiers of their own, which stand for a PID.
`IsFrameStream` then says that foreign messages never become frames.

`close()` sets `closeEvent`, waits up to two seconds for each thread, and closes
the socket whether they have ended or not; `Can.close()` does not wait. So
CloseConnection may be taken at any time: `program` is then "closed" if both
threads had ended and "left" if not, and `QuietClosed` says what a program can
rely on in each case: silence in the first, and in the second that the listener
ends with the round it is in.

`Subscriptions` is an adapter with any number of subscriptions: `feed()`
publishes to one after the other, the callbacks are run by the loop in order,
`close()` and `finalize()` come from another thread, tasks wait in `get()`.
`Listening` extends it: `process_response()` is one of its `FeedFrame` steps and
`Master.close()` its `FinalizePolicy`. The properties are stated over history:
`since`, `until` (the frames fed before a subscription was made and closed),
`taken` and `dropped`.

`FrameStream` is the abstract transport: send, some frames lost or the stream
broken, and the first frame that is neither lost nor heard is handed on. A
stream is broken when an octet that no checksum protects was wrong, a datagram
was cut, or an SxI frame is longer than the receiver's buffer (`TooLong`), even
one that is also altered: the receiver starts again in the middle of it. What
follows is then anything. How much must be protected against what is thus the
content of `broken` in the actions of `Listening`.

### DaqPacking, Stim, Daq

| state of `Daq` | in the code |
|---|---|
| `phase`, `cause`, `todo` | where the `DaqProcessor` is, why `setup()` has raised, the commands it still sends |
| `plan`, `firstPids` | `measurements_opt`, `_first_pids` |
| `mirror` | the lists in the `Stim` object |
| `decoders`, `trackers` | `m_decoder` (a `DaqListState` per list), `m_overflows` (a `DaqTimeTracker` per list) |
| `device`, `clock`, `events`, `line` | external: the device's lists, its clock, DTOs on their way |
| `lost`, `last` | history: lost DTOs; the latest result with the sample it should be of |

`setup()` computes its limits and the packing (`Setup`), then sends FREE_DAQ,
ALLOC_DAQ, ALLOC_ODT, ALLOC_ODT_ENTRY, SET_DAQ_PTR and WRITE_DAQ,
SET_DAQ_LIST_MODE and the selection, one action each; any of them can be
executed and stay unanswered, which ends `setup()` with the device, the mirror
and the processor halfway, and it may then be called again. The device refuses
a command out of order, an entry that is too large, an ODT longer than a DTO.
An octet of a DTO is the pair of where and in which sample it was read, so
`MeasurementsExact` sees a value under the wrong name and a sample made of two.
DTOs are lost and come twice. Timestamps are of one, two or four octets and
overflow at 256, 65536 or 2^32; the run has none of four octets, for TLC's
integers end at 2^31. The length of a tick is counted in thousandths of a
nanosecond, and the unfolder cuts off what is no whole nanosecond
(`Nanoseconds`); that it does so in doubles, which are exact below 2^53, is left
out.

A device in interleaved mode puts a sequence counter behind the PID
(`CHANGELOG.md` 29-37, `daq_stim/__init__.py` 233-247). `setup()` leaves room for it
(`SequenceOctets`), but the unfolder does not skip it: `Identification` and
`Shifted` are what it then takes for the number of the list, and for the first
octet of the payload. (The run has such devices with timestamps of one octet, as
each octet of a timestamp stands for all of it.)

Exemptions of the properties, each the description of what the code does not
promise or does not do:

- `Unsuitable` (`ConfigurationAccepted`): what `setup()` cannot configure, such
  as a measurement larger than a DTO; part of it are the limits of the STIM
  mirror and of predefined lists listed below.
- `Overlapping`, `SharesLastOctet`: measurements that share octets are dropped
  or merged wrongly.
- `Misread`: with list numbers in the DTOs and MIN_DAQ above 0 the unfolder
  looks up the wrong list (`Misnumbered`); of an interleaved device it finds
  neither the list nor the values.
- `Fractional` (`TimesExact`): with the units of picoseconds the time of a tick
  and of an overflow are cut off separately (`types.py` 1104-1106,
  `unfolder.hpp` 678 and 1097), so times are off by the rests, and an overflow
  shorter than a nanosecond counts for nothing.
- `lost[i] >= Len(decoders[i].odts)`: as many lost DTOs as the list has ODTs
  can make one sample of two, since no counter tells.

### FrameLog, RecorderWriter

`FrameLog` has three steps: a frame is accepted, the next frame is recorded,
the record is closed. A frame that was accepted need not be recorded; then none
after it is. `RecorderWriter` is the code of `writer.hpp` and `tsqueue.hpp`
with two threads: the collector, and the program's thread in `add_frame()` or
`finalize()` (both are called with the interpreter's lock held, so they do not
overlap).

| state | in the code |
|---|---|
| `queue`, `stop` | `my_queue` (0 is the item `stop_thread()` puts in), `stop_collector_thread_flag` |
| `collector`, `hand`, `finalizer`, `compress`, `packed` | where the threads are; locals `item` and `cp_size` |
| `storage`, `size`, `containerRecordCount` | `m_intermediate_storage`, `m_container_size_uncompressed` (always equal to `m_intermediate_storage_offset`), `m_container_record_count` |
| `recordCount`, `numContainers`, `offset` | `m_record_count`, `m_num_containers`, `m_offset` |
| `fileSize`, `written`, `stored`, `ends`, `header` | the file: its length, the end of the last write, the frames in its containers, where each container ends, its header |

`compress_frames()` is three steps, because LZ4 writes into the file before the
code looks whether the file must grow, and the header is written when it grows.
What LZ4 makes of a storage is any of 1 byte and the bound. Since the file is
mapped shared, what a process that dies leaves behind is the state of the file
in that moment: an invariant about the file is a statement about every crash,
and no crash action is needed. `FileContents` is what the reader's
`next_block()` gets from it. Contents of frames are their numbers.

## 3. Runs

| run | instance | shows |
|---|---|---|
| `Transport` | two threads, three frames, time-out 1, uploads of two parts, four ways of using the transport | all properties of the module hold |
| `TransportSynch` | one thread, three frames | *violated*: `SynchFlushes` |
| `ErrorHandler` | six scripts of two to five calls, and `SET_MTA` followed by each of the other commands of the matrix; any losses (counted to two), one late answer, two refusals with an error of each kind of row | all properties of the module hold |
| `ErrorFetch` | one setMta and two uploads, one loss | *violated*: `FetchExact` |
| `ErrorDaqPtr` | one setDaqPtr and two WRITE_DAQ, one loss | *violated*: `DaqExact` |
| `AsyncMaster` | four calls, two of them `close()`; three failures; own or supplied executor; or direct calls | all properties of the module hold |
| `ExecutorShared` | two threads with a Master each, nothing fails | *violated*: `SeparateCalls` |
| `RecorderWriter` | six frames of two lengths, one beyond a chunk; a file that is half full after three incompressible containers | all properties of the module hold, and it implements `FrameLog` |
| `Session` | four slaves, CAN and Ethernet, about sixty scripts; one refusal, one reset | all properties of the module hold |
| `SessionPush` | a slave without block mode, pushes of 1 to 8 elements, one refusal | *violated*: `PushNoticed` |
| `Listening` | sixteen setups of transport, framing and two or three frames; up to two faults; four of them with a subscription | all properties of the module hold, and it implements `FrameStream` |
| `Daq` | every list of up to three of seven measurements on four devices, sampled once; twenty-two configurations with three events, two faults and up to two `setup()` | all properties of the module hold |

Why the bounds are enough to be interesting:

*Transport, error handler, executor.* Theft of an answer needs two frames
outstanding and two takers; a stale answer needs one time-out and two further
commands (three frames); one tick past the time-out is as good as many.  In the
error handler losses are not bounded, only their count saturates; a script of
`SET_MTA`, transfer, `SET_MTA`, transfer exposes a wrong MTA after recovery;
two refusals let a pre-action fail inside a recovery. The errors a slave may
refuse with are eight, one for each kind of row; those left out are only
reported, or have the row of another. Three failures exhaust a repeater of two,
with a SYNCH pre-action in between; two ordinary calls and two `close()` cover
a call that runs, one that waits, and a shutdown between them.

*Session.* The slaves have MAX_CTO 4 or 5, so that a packet carries two or
three elements (one of a word), and blocks of two or three packets; the byte of
a length says at most 5 (`ByteMax`, 255 in the code) and the least limit of
`fetch()` is 2 (`MinLimit`, 8), so that every length from one element to two
blocks and a rest is within nine cells. Seeds are shorter than, equal to and
longer than a packet, keys two packets. Pushes of several packets without block
mode are left out of `Session` (`ChunkedPushes`), because a refusal of them
goes unnoticed: that is `SessionPush`.

*Listening.* There are five values of an octet (`Octets`), of which 4 and 3
begin a response, 2 an event, 1 a service request, 0 a DTO; frames of one to
four octets, lengths that are also PIDs, and checksums modulo 5. `SxiBuffer`
(1024 in the code) is 6, so that one frame is longer; `MaxDatagram` (512) is 9,
so that two frames together are cut or fit. Reads of 1, 4 or all octets cut
headers, frames and checksums at every place. Of identifiers there are four
short and eight long ones, with the flag at 16.

*Daq.* DTOs of two to eight octets force measurements into several ODTs.
Measurements touch, overlap, contain each other, are equal, lie apart, are in
another address extension. Devices are static or dynamic, with an identification
of one to four octets, interleaved or not. Three events are a sample, one with
losses and one that must be whole again; of two advances of the clock, 100 and
200 ticks, an octet's overflow falls between any two events or not. Results
further apart than an overflow are recognised by `last.close`.

*Recorder.* The sizes are small ones at which the same cases occur: a long frame
exceeds the chunk alone, short ones are gathered four at a time, and the file,
with exactly the room `RoomAssumption` asks for (96 = 4 * 24), is doubled within
the six frames.

`CHECK_DEADLOCK FALSE` is set in all: a program that has made its calls stops.

### Fairness

*Transport*: weak fairness of each thread inside a call, of the listener's
second half and of the clock: the operating system runs threads that can run
and time passes. Nothing is assumed of the slave or the wire, nor that anyone
makes a call. `CallsEnd` also assumes that DTOs come to an end: each of them
restarts the clock of a waiting request (base.py 448), so with a running DAQ
list a lost answer never becomes a time-out. *ErrorHandler*: weak fairness of
the one thread. `CallsEnd` allows for one loop that the code means to be
endless: after ERR_CMD_BUSY the repetitions have no limit. *AsyncMaster*: weak
fairness of every thread, worker and task that can go on. *RecorderWriter*:
weak fairness of the collector (a C++ thread that is woken when the queue is
not empty), of `compress_frames()` and of a `finalize()` that was called; nobody
has to call it. *Listening*: weak fairness of the reading thread, the listener,
a `close()` that was begun, and of the loop and the tasks of a subscription;
nobody has to send, subscribe or close. A join of two seconds ends by itself,
so `close()` needs no fairness of the threads to return; that they end after it,
also those it has left running, does. `ConsumersEnd`, a part of
`NobodyStuck`, is about a lone waiting task (see below). *Session*, *Daq*: no
liveness is claimed; each call is a finite list of packets.

### What the violated properties mean

- `SynchFlushes`: `synch()` is documented to synchronise after a time-out, but
  nothing empties `resQueue`. An answer that comes after its time-out is taken
  for the answer to SYNCH, and all answers after that are off by one.
- `FetchExact`: `fetch()` sets the MTA once and uploads in parts. After a lost
  frame the pre-action sets the MTA back to the beginning of the block.
- `DaqExact`: SET_DAQ_PTR, which the matrix asks for, is built by
  `Handler.actions` and never executed.
- `SeparateCalls`: the Executor is one per process and every call replaces its
  stack, so threads with a Master each return each other's results; two
  examples of the repository do that.
- `PushNoticed`: without block mode the slave answers each packet of a push,
  but `_download_normal_mode` sends all full packets with `block_request()`,
  which looks only at answers that are there already. A refusal of the last
  one arrives after `push()` has returned, and is taken for the answer to the
  next command.

### Seen while modelling, not stated as runs

*Channel and error handling*

- `base.py` 448: a response lost while DAQ lists run makes the call wait for
  ever, though `config/__init__.py` 862 describes a time-out in seconds.
- A sign of life that the listener gives while the waiting thread is in a pass
  of `get()`, behind the test of `timer_restart_event` (170), does not count: set
  between 171 and 172 the event is cleared, and set between 170 and 175 it does
  not keep the thread from `EmptyFrameError`. The comments at 431-432 and 446-447
  say that it extends the wait. `NoFalseTimeout` is about all other signs
  (`Overlooked`).
- `block_receive()` has a clock of its own that ignores EV_CMD_PENDING
  (`events.py` 322 says that the time-out is restarted).
- `errorhandler.py` 503-507 looks up `max_retries` under `config.general`; the
  Master's config is that section already, so the option has no effect.
- `disable_error_handling` is a global of the module: the last Master decides.
- A handler keeps the repeater of its first error (656): after one
  ERR_CMD_BUSY time-outs are repeated without limit.
- A pre-action that failed twice and then succeeded still ends the call, since
  its exhausted repeater is asked again (661-665).
- `SystemExit`, which a service without a row for the error raises (109), is a
  class of `errorhandler.py` (62-65) that hides the built-in one and, unlike
  it, is caught by `except Exception`.
- A single loss after ERR_SEQUENCE of ALLOC_DAQ exhausts its repeater.
- A second `close()` of an AsyncMaster does not wait for the first: it shuts
  the pool down, and the `Master.close()` of the first may then be refused with
  RuntimeError. `CloseCloses` is therefore about a lone `close()`.
- With a supplied executor of several workers, a cancelled call gives up the
  lock while it still runs: the serialisation the class promises is gone.
  `Discipline` excludes it.

*Services, transfers, unlocking* (the first two are `Divergent`, the next four
`Known` in `Session`)

- SET_REQUEST packs the session configuration big-endian whatever the slave
  says (`master.py` 574), and the response to DBG_SEQUENCE_MULTIPLE is parsed
  so. Eight-octet times of GET_DAQ_CLOCK, the words of SET_DAQ_PACKED_MODE and
  the values of DBG_WRITE on CAN are not aligned to their size.
- `GetDaqPackedModeResponse` is defined twice in `types.py`; the later one
  (800) replaces the earlier (723) and has neither its reserved octet nor the
  byte order of the session.
- `_block_downloader` sends the rest after exactly one full packet as DOWNLOAD,
  not DOWNLOAD_NEXT (the comment at 1302-1305 says otherwise): the slave
  answers ERR_SEQUENCE.
- `fetch()` and `verify()` with a granularity above one byte keep
  `chunk_size` bytes of `chunk_size` elements.
- Outside CAN a seed of length 0, which says that the resource is unlocked, is
  parsed as `None` (`types.py` 472), and `list(result.seed)` (`master.py` 2872)
  raises TypeError before the length is tested (2874). `cond_unlock` asks for such
  a seed when a resource is named twice, or when the status is that of a slave
  that was there before.
- Seeds of more than two parts: `cond_unlock` subtracts the remaining length,
  not the part, from what remains (2877-2881); a seed longer than a packet
  cannot be parsed at all except on CAN.
- `getCurrentProtectionStatus` swallows every exception, and the status is kept
  across a reconnect, as are `masterBlockMode`, `maxBs` and `pgmProcessor`: so
  `cond_unlock` can return with everything locked (`known` in `UnlockWhole`).
- `_block_downloader` uses `slaveProperties.maxCto` even for programming, and
  `push()` without `getCommModeInfo()` raises KeyError.
- `getPgmInfo` reads `info2.nameLength` (2797), a field `types.py` 974 calls
  `sectorNameLength`.

*Transports and subscriptions*

- UDP datagrams above 512 octets are cut; an SxI frame longer than the buffer
  of 1024 octets is dropped and the stream with it. Both are `broken`.
- An empty frame is an IndexError that ends the listener of SxI and USB.
- The Ethernet listener drops what is queued when the peer closes TCP.
- `Master.close()` finalizes the policy before the listener stops, so frames
  are still fed to a finalized policy.
- `close()` waits two seconds for each thread and then closes the socket whatever
  they do (`eth.py` 152-169, `sxi.py` 152-166, `usb_transport.py` 128-141);
  `Can.close()` (`can.py` 642-644) does not wait at all. A listener that is held up
  in `feed()` or at `policy_lock` hands on the frames in its hand after `close()`
  has returned ("left" in `QuietClosed`).
- `Usb.listen` hands `unpack_header()` an offset (`usb_transport.py` 210) that is
  16 bits wide (`framing.hpp` 217): a read of more octets is a TypeError that ends
  the listener. `Framing` assumes shorter reads.
- `publish()` calls `call_soon_threadsafe()` (`async_policy.py` 58), a RuntimeError
  that ends the listener if the loop was closed before its subscription.
  `Subscriptions` assumes that loops live as long as their subscriptions.
- Starting again: the SxI listener waits up to 1 s, the `join` before a restart
  0.5 s; an old reader or its leftover packets may survive a reopening.
- CAN gives a DTO with a `daq_identifier` of its own a PID whatever `pid_off`
  says; `update_daq_filters()` is never called and leaves the hardware filter.
- A `subscribe()` that has passed the test of `_finalized` when `finalize()`
  collects the subscriptions is left open for ever.
- One sentinel wakes one of several tasks that wait in `get()` (`ConsumersEnd`
  is about a lone one).

*DAQ*

- Interleaved devices cannot be measured: the unfolder (`unfolder.hpp` 350-366,
  1072) does not skip the octet that `setup()` has made room for (`Misread`).
- With ticks of picoseconds (`types.py` 1104-1106) times drift at every overflow,
  and 256 ticks of 1 ps are an overflow of 0 ns (`Fractional`).
- Measurements that overlap are dropped from the list without a word; one that
  begins at the last octet of another is merged into an entry shorter than its
  parts, and the values behind it shift, or the decoder reads past the DTO and,
  `feed()` being `noexcept`, the process ends. A bound of 0 means no bound to
  `make_continuous_blocks`.
- With list numbers in the DTOs the unfolder ignores `min_daq`; an unknown PID
  is taken for the first ODT of the first list.
- As many lost DTOs as a list has ODTs give a sample made of two; reordered
  DTOs (UDP) do, too, and count a spurious overflow.
- `setup()` counts predefined lists of a dynamic device in ALLOC_DAQ; ignores
  the granularity of ODT entries and the largest number of entries of an ODT;
  does not look whether a list fits in one ODT when the PID is switched off.
- The STIM mirror's pointer never advances, so only the first entry of an ODT
  is written to it; `setDaqListMode` throws for list numbers it does not know
  (MIN_DAQ above 0, static lists) and for events that only `getDaqInfo()` tells
  of, which `setup()` does not ask; `writeDaq` goes through a pointer to nothing
  if the pointer was refused before; `clearDaqList` clears a copy.
- `DaqOnlinePolicy` keeps the time trackers of an earlier `setup()`.
- The deserializer of a recording drops the packed mode (`unfolder.hpp`
  793-795): a packed recording is decoded as if it were not.

*Recorder*

- `finalize()` sets the stop flag before the queue is empty: the frames in the
  queue and the one in the collector's hand are not recorded (272-274). The
  properties say that only these are missing.
- `compress_frames()` writes up to `LZ4_COMPRESSBOUND` bytes before it tests
  whether the file must grow, and doubles it once. With containers of at most
  576 KB and incompressible data that is safe from a preallocation of four
  containers, 2.3 MB, on (`RoomAssumption`); with 1 or 2 MB, which the
  constructor accepts, data can be written behind the end of the mapping.
  Measurements compress well, which is why the defaults of 10 MB and more hide
  it. `megabytes()` (`rekorder.hpp` 66) wraps at 4096 MB.
- A process that dies before the file was doubled for the first time leaves a
  file without a magic, which the reader refuses, however much was recorded.

## 4. Proofs

All theorems are for every value of the constants that satisfies the named
assumptions; every leaf is checked by TLAPS.

*TransportProofs.* `TypeCorrect` from `LocalsInv` (a thread in a call has a
frame number). With `PlainUse` (no block transfers) `LocksHold` from `LockInv`:
who is where holds which lock, so nobody empties the queue between GetItem and
GetPop. `AnswersStayInOrder` needs more, `AnswerInv`: at most one frame is
expected by anyone (`command_lock`); every response in the queue or owed
answers a frame that was sent; whatever is in front of the expected answer has
been abandoned. `TimeoutsAreReal` from `ClockInv`: while a pass of `get()` runs
nothing is queued (`PassesEmpty`), and the clock of the thread never runs ahead of
the silence, unless the restart event is set and a pass has yet to test it, or
has tested it and is about to start the clock again (`Clocks`).
`RecordInOrder` from `RecordInv`: the response in the listener's hand answers
the last command, or the one before it, and then the thread that sent the last
one still holds `command_lock` and has not recorded it.

*ErrorHandlerProofs.* In three parts. `IInv` adds to `TypeOK` that the bottom of
the stack is the command of the current call (`CallInv`), that its failures and
what its repeater has left add up to the budget of the first error
(`BudgetInv`), and the same of `connectRetries` (`ConnectInv`).
`RepetitionsBounded` and `ConnectBounded` are the consequences. `ResultsAreOwn`
adds `ReplyInv`: with no late answer the queue is empty and the reply is that to
the handler on top.

`TransfersAreExact` is about scripts that are `Tidy`: every
transfer follows a `setMta` of its own, to an address the slave has, and no two
downloads give one address different values (then the earlier one could not
still be there). Without the pre-actions the property is not inductive, so
`Exact` adds what is on the stack: only pre-actions come above the command
(`AboveInv`), a `SET_MTA` that has succeeded has set the slave's MTA and
`Master.mta` (`SetInv`, `IdleInv`), and while a transfer runs, `Master.mta` is
its place, and either the slave's MTA is there whenever the transfer is
executed, or a `SET_MTA` to that place is still on the stack (`TransferInv`).
It rests on what the matrix says, and no row of it is assumed: `TransferRows`
and `PreActionRows` compute the rows of the transfers and of the pre-actions.

`SingleLossSurvived` is about scripts that are `Recoverable`:
in the protocol's order, `setMta` called with addresses, `connect_retries` not
0, and a bound that counts the second loss. `MatrixRecovers` goes through all
57 commands: each has a row for a time-out, that repeats it twice or for ever.
`RecoveryInv` says how far the recovery is: no loss so far, the loss just
noticed, or pre-actions on the stack that have not failed, with either nothing
left that can fail or an `ALLOC_DAQ` that may find its lists allocated already
and may be repeated once more, under a `FREE_DAQ`.

*AsyncMasterProofs.* `TypeCorrect` holds for any number of threads in the
Executor. `OneAtATime` uses that a single worker is free only when no call
runs; `ResultsAreOwn` adds `CallInv`, which knows the stack of the call inside
in every place: its command, perhaps under one SYNCH. `CloseIsLast` and
`CloseHasClosed` rest on `LockInv` (the lock's holder is the one submitted
call, and only it can be in the pool) and on what is true once Master.close()
has run (`ClosedInv`).

*ListeningProofs.* First `Subscriptions`: `SubscribersAreServed` from `SubInv`:
besides `SubTypeOK` and the parts of the property, who is in which set at which
point of `feed()`, `close()` and `finalize()` (`Places`), that every number
anywhere is that of a frame fed since the subscription was made (`Bounds`), and
that what the tasks got, the queue and the pending callbacks follow each other
in order, with the sentinel last (`Orders`). Then `SpecOfAdapter`: every step of
the transport is one of `Subscriptions` or leaves it alone, so `ListenersServe`
follows from the theorem there. `ClosedIsQuiet` from `ClosedInv`: once closed,
the listener has ended, and `closeEvent` is set since before `close()` began to
wait. Of CAN, `AcceptedExactly` and `PidsUnique` say that the filters and the
PIDs made of the configured identifiers take the messages of those that have
data and no others.

`ListeningTypes` and `FramesStreamed`, that every transport implements
`FrameStream`, are consequences of `ListenInv`. Its first three parts are types:
`SlaveTypes`, `ThreadTypes` (who is where while what is open), and `DataTypes`
(what is in the deque, the receiver and the listener's hand). The fourth is
what makes the refinement inductive:

- `StreamInv`: unless the stream is broken, what was handed on, followed by
  what is still to come (`ToCome`), are the sent frames that were not lost, in
  order (`Picked`), and the receiver will have nothing left over. What is to
  come is computed: the receiver is run to the end over what it has, what was
  read, what is in the deque and what is on the line (`Coming`). So the steps that
  only move octets nearer change nothing of it; those that send, lose or alter
  change its end; and handing on takes its first element, which is the frame
  `FrameStream` asks for.
- `FedConcat` is why octets may be moved: feeding a receiver in two parts is
  feeding it at once, for each of the receivers, whatever it has in its buffer. It
  goes through the octets, for SxI the state of the receiver for each (`Steps`).
- `SentFound`: an empty receiver finds a frame, whole, and is empty behind it.
  `AlteredFound`: with one octet wrong behind the length, the receiver is empty
  behind it too, and the frame is dropped if it has a checksum, or found with its
  packet intact if it has none and the octet was in its counter or fill.
  `AlteredSum`: one wrong octet is noticed by the checksum, of either width.
- For CAN, `MessageTaken` and `ForeignTaken`: a message of the slave gives its
  frame, a foreign one or one without data none, by `AcceptedExactly` and `PidsUnique`.

These use `SetupsAssumption` for what the code accepts: the formats that can be
configured, packets that are not empty and no longer than the length field can
say, identifiers in range, DTOs on CAN that are not empty without their PID.
That two packets are never equal is only so that history can tell them apart.

*RecorderWriterProofs.* `LogInv` is `TypeOK` with `Places` (who is where while
the other is there), `Counts` (the counters are the lengths of what they count)
and `Line` (what is gathered, the hand and the queue are consecutive numbers,
except the one item of `stop_thread()` and what is dropped behind it).
`FileHoldsPrefix` and `ClosedFileComplete` add `FileInv`: the containers end at
frames that are stored (`Covered`), a header that was written describes the
containers there were then (`Described`), and from finalize()'s header on it
describes all of them (`Completed`). `WritesInside` adds `SpaceInv`:
when `compress_frames()` begins, one largest container fits in what is left of
the file; it needs `RoomAssumption`, and after the file was doubled it holds
because half of it was more than two containers. `WriterIsFrameLog` maps Store
to Record, AddFrame to Accept, FinalizeClose to Close, and every other step to
a stutter; that CompressCommit is one needs that moving the storage to the file
changes nothing of `Kept`, and Store that the hand holds the next number.

*SessionProofs.* `SessionTypeCorrect` from `TypeInv`, which adds to `TypeOK` the
types of what is in the queue and on the wire, that every packet of a transfer
has no more elements than its block has left, and that nothing but `connect()`
is called before it has been answered (`ConnectsFirst`): with `maxCto` unknown
there would be no packets to compute.

The safety properties rest on `SessionInv`, which is `TypeInv` and `Safe`. They
are about calls that have returned; what makes them inductive is about calls
that run:

- `Quiet`: before a call, and in `cond_unlock()`, no answer waits or is on its
  way; in a transfer by blocks only errors are. Otherwise the next request would
  take an answer to something else, and be content.
- `Match`: as long as the slave is connected, what `connect()` has learned is
  what the slave is. `OrdersAgree` follows, and from it `FieldsUnderstood`.
- `TransferLeft`: the packets still to be sent are a chain (`Chain`): each begins
  where the one before it ended, the last ends at the end of the range and is
  waited for. Unless an error is on its way or the slave has been reset
  (`Alive`), the slave's MTA is at the start of the chain, and its memory has
  what was in front of it and is untouched elsewhere (`PushLeft`), or `got` is
  what the slave holds up to it (`FetchLeft`, and the four stages of `verify()`
  in `VerifyLeft`). So a transfer whose last packet is answered is exact.
- `Admitted`, `UnlockLeft`: what a status that came from this slave calls
  unlocked is unlocked; the names already dealt with are; a key is for the
  resource whose seed was asked for, and the slave has got as much of it as was
  sent.

That the packets of `push`, `flash_program` and `fetch` are chains is arithmetic
of quotients and rests, and induction over blocks. The induction theorems of the
library cannot be instantiated by the provers; the module begins with one for
sets (`SetInduction`), proved from the order of the finite subsets of a set,
which is well founded, and with it that the function `FlattenSeq` chooses
exists. `DaqProofs` begins with the same, and shows also that an order has its
sorted sequence, and what a function that goes through a sequence (`Iterates`)
keeps. `ListeningProofs` has it for numbers, for what a receiver or a checksum
makes of a sequence octet by octet.

`TransfersAreExact`, `UnlocksAreWhole` and `FieldsAreUnderstood` assume
`~ChunkedPushes`, as the run does: a push of several packets without block mode
leaves answers behind, `Quiet` fails, and `SessionPush` shows what comes of it.
`FieldsAreUnderstood` also takes `LayoutsFit`, a fact about the table of
`Services` in which no constant occurs; `MCSession` has it as an `ASSUME`, so
TLC evaluates it for every service, and its aligned offsets, which are folds.

Only model-checked: liveness (all `CallsEnd`, `FinalizeEnds`, `FramesRecorded`,
`NobodyStuck`), which needs reasoning about ENABLED; `NoTheft`, `Locked` and
`RecordOrder` with block transfers by one thread; `OnlyFaultsRaise` of `Session`,
which is about the scripts of the run (a program that skips `setMta` gets its
errors without any fault); and `ConfigurationAccepted` of `Daq`, which
counts the entries that read a measurement, follows the mirror and says which
command can be refused. What the entries are is proved (below); that none of the
commands that write them is refused is not.

*DaqProofs, DaqMeasureProofs.* In three parts, the third in a module of its own.
`DaqTypeOK`: `TypeOK` of `Daq` says of a decoder that the ODT it awaits and the
measurements it has read are those of its list, of the PIDs that there are no
more than lists, and of the trackers that there is one per list and `setup()`
(the code never removes one). `DaqInv`, which TLC has checked on the run first,
adds why:

- `Commanding`: what is left of the commands is a suffix of
  `SetupCommands(NewPlan)`, and the PIDs learned are the START_STOP_DAQ_LISTs
  among the commands before it. So no list gives two, and none is missing when
  the last command is answered.
- `Decoding`: the decoder's ODTs are those of the plan, and while it collects it
  has a value for every measurement of the ODTs before `next` and for no other.
  So at the last ODT the buffer is full, and `next` is rewound before it can
  leave the list.
- `Trackers`: as many rounds of trackers as `setup()` has come to its end.

Under this lies that the packing gives sequences of bins whose contents are
measurements or sections of them, for any measurements: `MakeContinuousBlocks`
and `FirstFitDecreasing` go through a sequence with a recursive function, and
the sorted lists they go through exist (`Ordered`).

`DaqTimesExact` says that the time of a result is right, however often the
timestamp has overflowed, for whole nanoseconds and not interleaved devices. It
adds `TimeInv`, which TLC has checked first on a part of the run's
configurations:

- `DeviceInv`: a command that was answered has had its effect (`Setting`), so
  when the last one is done, every list of the device has the ODTs and the mode
  of the plan, and its PID is the number of the ODTs before it (`Shaped`,
  `Measuring`). FREE_DAQ and ALLOC_DAQ undo what an earlier `setup()` has left;
  on a static device, which is not sent them, the user's lists are the plan's
  (`FactoryShape`). No list runs unless the processor does.
- `Line`: the DTOs on their way are of the plan, each with the identification of
  its list and ODT and, where it has one, its timestamp; and they are in the
  order of their times. `OdtToDaqIs` and `GetIdIs`: the unfolder finds the list
  and the ODT of such a DTO, since the ranges of the PIDs are disjoint
  (`PidsApart`).
- `Times`: the tracker of a list with a result counts the overflows between the
  first result and the last one, if these were close, and knows the timestamps
  of both; a decoder that collects has the time of its first ODT, which is no
  older than the last result and no younger than any DTO on its way (`Past`). A
  tracker of a list without result is as it was made, even if `setup()` was
  called again, as new trackers are appended behind.

That a smaller timestamp means one overflow is arithmetic of quotients and rests
(`Overflowed`, `ScaledDifference`). DTOs of which the unfolder misreads the
number (`Misread`) are excluded, as in the property, and so are fractions of a
nanosecond, whose cut-off rests do not add up.

`DaqMeasurementsExact` follows every octet from the address it is read at to the
value under its name, unless the unfolder misreads the device (`Misread`). It adds
`MeasureInv`, which TLC has checked first on a part of
the run's configurations:

- *The packing* (`PlanTiled`, `Parted`): the octets of the measurements in a section
  (`mc_building_blocks` has merged them) follow each other without a gap and end where
  the section ends, for any measurements of which none begins at the last octet of
  another (`SharesLastOctet`, excluded as in the property). So what the device reads
  for the entries of an ODT is what it would read for its measurements, one behind
  the other.
- `ContentInv`: of the entries that were written so far, each is in its place and the
  device's pointer is at the next one (`Written`); once `setup()` is done, all of them
  are what was planned (`Filled`). This is a theorem of its own,
  `DaqDeviceReadsPlan`.
- `Stream`: a DTO on its way has the octets of its ODT as they were in its sample,
  behind the timestamp if there is one (`Exact`), samples do not overtake each other,
  and the DTOs of a list follow each other (`Linked`): behind the j-th comes the one
  with ODT j + 1, and in front of it was the one with ODT j - 1, unless that has left.
- `Holding`: whatever a decoder has collected was read in samples that are no later than
  the DTOs on their way; and all of it in one sample s, of which the next ODT is still
  to come, unless enough DTOs were lost. `Missing` says how many: if the first DTO
  on its way is the j-th of the list and of sample s, those between the last one
  taken and it; otherwise the rest of s, and of the sample the first DTO is of the
  ODTs in front of it. By the time an ODT of another sample fits, they are as many as
  the list has ODTs. Nothing less is inductive: the losses that mix two samples may
  all have happened before either of them is noticed.
- `Delivered`: what was handed over is of one sample or as many DTOs were lost.

`Collected` is the step in between: a decoder that takes the j-th DTO either
drops what it had, or has the j-th part of the measurements of that sample
behind the parts before it; the offsets that `parse_Odt` adds up are where the
octets were put, and the end of the DTO is not passed.

Assumptions: `NoClientAssumption`, `BoundsAssumption`, `UsesAssumption`
(`Transport`); `ScriptsAssumption`, `AddressesAssumption`, `RetriesAssumption`,
`BoundsAssumption` (`ErrorHandler`); `MastersAssumption`, `CallsAssumption`,
`NumbersAssumption` (`AsyncMaster`); `SubsAssumption`, `SizesAssumption`
(`Subscriptions`); `FramingAssumption` (`Framing`); `SetupsAssumption`,
`ReadsAssumption`, `CategoriesAssumption` (`Listening`); `DevicesAssumption`,
`ScriptsAssumption`, `SessionBounds` (`Session`); `IdentifiersAssumption`
(`CanIdentifiers`); `ConfigurationsAssumption` (`Daq`); `SizesAssumption`,
`RoomAssumption` (`RecorderWriter`). Except for the last, which is a real
precondition of the code, they say that constants have their types and that
special values are not ordinary ones.

## 5. Plan

In the order of importance; what is done is marked.

1. (done) `Transport`, `TransportProofs`.
2. (done) `ErrorMatrix`, `ErrorHandler`, `ErrorHandlerProofs`.
3. (done) `SharedExecutor`, `AsyncMaster`, `AsyncMasterProofs`.
4. (done) `Services`, `Session`: transfers, unlocking, layouts; `SessionProofs`.
   Left: the compound information calls, uploads on CAN without block mode.
5. (done) `FrameLog`, `RecorderWriter`, `RecorderWriterProofs`. Left: the frame
   policies in front of it, and the reader's metadata.
6. (done) `Subscriptions`, `Framing`, `FrameStream`, `Listening` and their
   proofs. Left: opening a transport again after `close()`.
7. (done) `DaqPacking`, `Stim`, `Daq`, `DaqProofs`, `DaqMeasureProofs`. Left:
   packed DAQ modes, and the theorem `ConfigurationAccepted`: that the device refuses none of the commands,
   and that the mirror follows them.
8. Time correlation and checksums, as functions over bounded inputs.

## 6. Not modelled

- *Channel*: the events that only log; policies that issue commands themselves.
- *Session*: losses (they are in `ErrorHandler` and `Transport`), compound
  information calls (`getPagInfo`, `getPgmInfo`, `identifier`), what the seed &
  key library computes, bits within a byte.
- *Transports*: opening sockets, ports and devices; sending; errors of a
  socket; UDP frames out of order; multicast and PTP; the DLC table and
  parameters of the CAN libraries; opening a transport again.
- *Subscriptions*: a task that is cancelled in `get()`.
- *DAQ*: packed modes, how octets become numbers, loading lists from JSON, the
  CSV writer, the metadata of a recording, DTOs out of order, the host's
  timestamp, the scheduler of STIM (nothing starts it).
- *Recorder*: failing system calls, HDF5, the converters.
- *Frame policies*: sinks; the policy is the log of what it was fed.
- *Calibration*: sequential reads and writes through modelled services.
- *Time correlation*: arithmetic of clocks; its layouts are in `Services`.
- *Checksums*: table-driven functions of 16 and 32 bits, for which a bounded
  check says less than their tests.
- *Configuration, scripts and examples*: declarative, or sequential use of what
  is modelled.
