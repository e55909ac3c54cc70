-------------------------------- MODULE Daq --------------------------------
(***************************************************************************)
(* A data acquisition (src/pyxcp/daq_stim/__init__.py, src/pyxcp/recorder/ *)
(* unfolder.hpp): DaqProcessor.setup() packs the measurements of every DAQ *)
(* list, allocates and writes the lists of the device command by command,  *)
(* selects them and hands the parameters to the unfolder; start() lets the *)
(* device sample at its events; the unfolder takes the DTOs apart and      *)
(* delivers one result per sample of a list, with a time that goes on when *)
(* the device's timestamp overflows.                                       *)
(*                                                                         *)
(* The device is external: it keeps lists, ODTs and entries as the         *)
(* commands say, refuses what it has no room for, and sends a DTO per ODT. *)
(* An octet of a DTO names where and in which sample it was read.          *)
(***************************************************************************)
EXTENDS DaqPacking, Stim

CONSTANTS
  Configurations,  \* what is measured on which device, and how much may happen
  Advances         \* by how many ticks the device's clock goes on until an event

Objects ==
  [name : Int, ext : Nat, address : Nat, length : Nat \ {0}, components : {<<>>}]
DaqLists ==
  [predefined : BOOLEAN, ts : BOOLEAN, stim : BOOLEAN, event : Nat,
   odts : Seq(Seq(Objects)), measurements : Seq(Objects)]
\* scale: the length of a tick in thousandths of a nanosecond (ts_scale_factor)
DeviceProps ==
  [static : BOOLEAN, idSize : 1 .. 4, minDaq : Nat, maxDto : Nat, maxEntry : Nat,
   tsSize : {0, 1, 2, 4}, tsFixed : BOOLEAN, scale : Nat \ {0}, pidOff : BOOLEAN,
   interleaved : BOOLEAN, incomplete : BOOLEAN]

ASSUME ConfigurationsAssumption ==
  /\ Advances \subseteq Nat
  /\ \A c \in Configurations :
       /\ c \in [props : DeviceProps, lists : Seq(DaqLists), pidOff : BOOLEAN,
                stimSupport : BOOLEAN, knownEvents : SUBSET Nat, events : Nat, faults : Nat,
                rounds : Nat]
       /\ \A i \in DOMAIN c.lists : c.lists[i].predefined => c.lists[i].odts # <<>>

VARIABLES
  config,     \* one of Configurations, constant during a behaviour
  phase,      \* of the DaqProcessor
  cause,      \* why setup() has raised, or "none"
  plan,       \* measurements_opt of every list
  todo,       \* the commands setup() still has to send
  firstPids,  \* _first_pids
  mirror,     \* of the device's lists in the Stim object, if stim_support is configured
  decoders,   \* m_decoder: the DaqListState of every list
  trackers,   \* m_overflows: the DaqTimeTrackers
  device,     \* the lists of the device
  clock,      \* of the device, in ticks and without end
  events,     \* sampled so far
  line,       \* DTOs on their way, oldest first
  faults,     \* lost or duplicated DTOs, unanswered commands
  rounds,     \* calls of setup()
  lost,       \* history: DTOs lost, per list
  last        \* history: the latest result of every list, with its true times

processor == <<config, phase, cause, plan, todo, firstPids, mirror>>
unfolder == <<decoders, trackers, last>>
outside == <<device, clock, events, line>>
vars == <<processor, unfolder, outside, faults, rounds, lost>>

ListIndices == DOMAIN config.lists
Props == config.props   \* what GET_DAQ_PROCESSOR_INFO and GET_DAQ_RESOLUTION_INFO tell
Phases == {"idle", "commanding", "ready", "running", "stopped", "raised", "ended"}
Causes == {"none", "incomplete", "static", "too_large", "refused", "unanswered",
           "thrown", "crashed"}
None == [normal |-> -1]   \* no result yet
Smaller(a, b) == IF a < b THEN a ELSE b

(***************************************************************************)
(* The limits: setup() up to the packing                                   *)
(***************************************************************************)
SwitchPidOff == config.pidOff /\ Props.pidOff /\ Props.idSize = 1

\* max_dto without the identification field and the sequence counter
SequenceOctets == IF Props.interleaved THEN 1 ELSE 0
Container ==
  Props.maxDto - Props.idSize - SequenceOctets + (IF SwitchPidOff THEN 1 ELSE 0)
MaxEntry == Smaller(Props.maxEntry, Props.maxDto - Props.idSize - SequenceOctets)

\* A list is timestamped if the device has timestamps and they are fixed or enabled.
Timestamped(list) == Props.tsSize > 0 /\ (Props.tsFixed \/ list.ts)

\* Mutant: the timestamp takes no room if it may be switched off.
ContainerFirstFixed(list) ==
  IF Timestamped(list) /\ Props.tsFixed THEN Container - Props.tsSize ELSE Container

ContainerFirst(list) == IF Timestamped(list) THEN Container - Props.tsSize ELSE Container

Blocks(list) == MakeContinuousBlocks(list.measurements, MaxEntry)

MeasurementsOpt(list) ==
  IF list.predefined THEN PredefinedBins(list.odts)
  ELSE FirstFitDecreasing(Blocks(list), Container, ContainerFirst(list))

(***************************************************************************)
(* The commands: setup() from freeDaq() on                                 *)
(***************************************************************************)
Number(i) == (IF Props.static THEN 0 ELSE Props.minDaq) + i - 1
ForEach(indices, Commands(_)) == FlattenSeq([i \in indices |-> Commands(i)])

Dynamic == {i \in ListIndices : ~config.lists[i].predefined}

FreeDaq == [cmd |-> "FREE_DAQ"]
AllocDaq(count) == [cmd |-> "ALLOC_DAQ", count |-> count]
AllocOdt(p, i) == [cmd |-> "ALLOC_ODT", list |-> Number(i), count |-> Len(p[i])]
AllocOdtEntry(p, i, j) ==
  [cmd |-> "ALLOC_ODT_ENTRY", list |-> Number(i), odt |-> j, count |-> Len(p[i][j].entries)]
SetDaqPtr(i, j) == [cmd |-> "SET_DAQ_PTR", list |-> Number(i), odt |-> j, entry |-> 1]
WriteDaq(o) ==
  [cmd |-> "WRITE_DAQ", entry |-> [ext |-> o.ext, address |-> o.address, length |-> o.length]]

AllocateOdts(p) ==
  ForEach(ListIndices, LAMBDA i : IF i \in Dynamic THEN <<AllocOdt(p, i)>> ELSE <<>>)
AllocateEntries(p) ==
  ForEach(ListIndices, LAMBDA i : IF i \in Dynamic
                                  THEN [j \in DOMAIN p[i] |-> AllocOdtEntry(p, i, j)] ELSE <<>>)
WriteOdt(p, i, j) ==
  IF p[i][j].entries = <<>> THEN <<>>   \* no room for data in the first ODT
  ELSE <<SetDaqPtr(i, j)>>
         \o [e \in DOMAIN p[i][j].entries |-> WriteDaq(p[i][j].entries[e])]
WriteEntries(p) ==
  ForEach(ListIndices, LAMBDA i : IF i \in Dynamic
                                  THEN ForEach(DOMAIN p[i], LAMBDA j : WriteOdt(p, i, j))
                                  ELSE <<>>)

ListMode(list) ==
  {m \in {"timestamp", "stim", "pid_off"} :
     \/ m = "timestamp" /\ Timestamped(list)
     \/ m = "stim" /\ list.stim
     \/ m = "pid_off" /\ SwitchPidOff}
SetDaqListMode(i) ==
  [cmd |-> "SET_DAQ_LIST_MODE", list |-> Number(i), mode |-> ListMode(config.lists[i]),
   event |-> config.lists[i].event]
StartStopDaqList(i) == [cmd |-> "START_STOP_DAQ_LIST", list |-> Number(i)]
SelectLists == ForEach(ListIndices, LAMBDA i : <<SetDaqListMode(i), StartStopDaqList(i)>>)

Allocation(p) ==
  IF Props.static THEN <<>>
  ELSE <<FreeDaq, AllocDaq(Len(config.lists))>>
         \o AllocateOdts(p) \o AllocateEntries(p) \o WriteEntries(p)
SetupCommands(p) == Allocation(p) \o SelectLists

(***************************************************************************)
(* The device                                                              *)
(***************************************************************************)
ListOf(odts) == [odts |-> odts, mode |-> {}, event |-> 0, state |-> "off"]

\* The lists of a static device are those the user has described.
FactoryLists(c) ==
  IF c.props.static
  THEN [n \in {i - 1 : i \in DOMAIN c.lists} |->
          ListOf([j \in DOMAIN c.lists[n + 1].odts |->
                    [e \in DOMAIN c.lists[n + 1].odts[j] |->
                       LET o == c.lists[n + 1].odts[j][e]
                       IN [ext |-> o.ext, address |-> o.address, length |-> o.length]]])]
  ELSE <<>>
NewDevice(c) == [lists |-> FactoryLists(c), allocating |-> "start", ptr |-> <<0, 0, 0>>]

Exists(d, n) == n \in DOMAIN d.lists
OdtExists(d, n, j) == Exists(d, n) /\ j \in DOMAIN d.lists[n].odts
EntryExists(d, n, j, e) == OdtExists(d, n, j) /\ e \in DOMAIN d.lists[n].odts[j]

\* The octets of the DTO of an ODT, without its identification field and counter
DtoLength(list, j) ==
  SumOfLengths(list.odts[j]) + (IF j = 1 /\ "timestamp" \in list.mode THEN Props.tsSize ELSE 0)
Sendable(list) ==
  /\ list.odts # <<>>
  /\ \A j \in DOMAIN list.odts :
       /\ \A e \in DOMAIN list.odts[j] : list.odts[j][e].length > 0
       /\ DtoLength(list, j) + (IF "pid_off" \in list.mode THEN 0 ELSE Props.idSize)
            + SequenceOctets <= Props.maxDto
  /\ "pid_off" \in list.mode => Len(list.odts) = 1

Accepts(d, c) ==
  \/ c.cmd = "FREE_DAQ"
  \/ c.cmd = "ALLOC_DAQ" /\ d.allocating = "lists"
  \/ c.cmd = "ALLOC_ODT" /\ d.allocating = "odts" /\ Exists(d, c.list)
  \/ /\ c.cmd = "ALLOC_ODT_ENTRY" /\ d.allocating \in {"odts", "entries"}
     /\ OdtExists(d, c.list, c.odt)
  \/ c.cmd = "SET_DAQ_PTR" /\ EntryExists(d, c.list, c.odt, c.entry)
  \/ /\ c.cmd = "WRITE_DAQ" /\ EntryExists(d, d.ptr[1], d.ptr[2], d.ptr[3])
     /\ c.entry.length \in 1 .. Props.maxEntry
  \/ /\ c.cmd = "SET_DAQ_LIST_MODE" /\ Exists(d, c.list)
     /\ "timestamp" \in c.mode => Props.tsSize > 0
     /\ Props.tsFixed => "timestamp" \in c.mode
     /\ "pid_off" \in c.mode => Props.pidOff
  \/ c.cmd = "START_STOP_DAQ_LIST" /\ Exists(d, c.list) /\ Sendable(d.lists[c.list])

Executed(d, c) ==
  CASE c.cmd = "FREE_DAQ" -> [NewDevice(config) EXCEPT !.allocating = "lists"]
    [] c.cmd = "ALLOC_DAQ" ->
         [d EXCEPT !.allocating = "odts",
                   !.lists = [n \in Props.minDaq .. Props.minDaq + c.count - 1 |-> ListOf(<<>>)]]
    [] c.cmd = "ALLOC_ODT" -> [d EXCEPT !.lists[c.list].odts = Copies(c.count, <<>>)]
    [] c.cmd = "ALLOC_ODT_ENTRY" ->
         [d EXCEPT !.allocating = "entries",
                   !.lists[c.list].odts[c.odt] = Copies(c.count, NoEntry)]
    [] c.cmd = "SET_DAQ_PTR" -> [d EXCEPT !.ptr = <<c.list, c.odt, c.entry>>]
    [] c.cmd = "WRITE_DAQ" ->
         [d EXCEPT !.lists[d.ptr[1]].odts[d.ptr[2]][d.ptr[3]] = c.entry, !.ptr[3] = @ + 1]
    [] c.cmd = "SET_DAQ_LIST_MODE" ->
         [d EXCEPT !.lists[c.list].mode = c.mode, !.lists[c.list].event = c.event]
    [] c.cmd = "START_STOP_DAQ_LIST" -> [d EXCEPT !.lists[c.list].state = "selected"]

Index(n) == n - Number(1) + 1   \* in the configuration, of the device's list n

\* The absolute number of the first ODT of a list.  A list without identification
\* field has one ODT, and the CAN transport puts the index of the list in its place.
FirstPid(d, n) ==
  IF Props.idSize > 1 THEN 0
  ELSE Len(FlattenSeq([i \in 1 .. Index(n) - 1 |-> d.lists[Number(i)].odts]))

Wrap == CASE Props.tsSize = 0 -> 1 [] Props.tsSize = 1 -> 256 [] Props.tsSize = 2 -> 65536
          [] Props.tsSize = 4 -> 65536 * 65536

\* The identification as the unfolder finds it in the first octets of the DTO.  An
\* interleaved device sends a sequence counter behind the PID, and all that follows
\* is an octet further on: of its list the unfolder sees the counter in place of the
\* number, or the number shifted by an octet (behind it or behind the fill octet).
Identification(n, j, sequence) ==
  CASE Props.idSize = 1 -> <<FirstPid(device, n) + j - 1>>
    [] Props.idSize > 1 /\ ~Props.interleaved -> <<j - 1, n>>
    [] Props.idSize = 2 /\ Props.interleaved -> <<j - 1, sequence>>
    [] Props.idSize = 3 /\ Props.interleaved -> <<j - 1, sequence + 256 * (n % 256)>>
    [] Props.idSize = 4 /\ Props.interleaved -> <<j - 1, 256 * (n % 256)>>

\* Octets of no memory, with a number in place of the address: the timestamp, whose
\* octets all stand for the whole of it, and what an interleaved device's header has
\* too many, its last octet.
NoMemory == -1
Shifted(octets, n, sequence) ==
  LET pushed == CASE Props.idSize = 1 -> sequence [] Props.idSize = 2 -> n
                  [] Props.idSize > 2 -> n \div 256
  IN IF Props.interleaved THEN <<<<NoMemory, pushed, 0>>>> \o octets ELSE octets
TimestampOctets(time) == Copies(Props.tsSize, <<NoMemory, time % Wrap, 0>>)
Read(entry, sample) ==
  [k \in 1 .. entry.length |-> <<entry.ext, entry.address + k - 1, sample>>]
Dto(n, j, sample, time) ==
  [list |-> n, id |-> Identification(n, j, sample % 256), sample |-> sample, time |-> time,
   payload |-> Shifted((IF j = 1 /\ "timestamp" \in device.lists[n].mode
                        THEN TimestampOctets(time) ELSE <<>>)
                       \o ForEach(DOMAIN device.lists[n].odts[j],
                                  LAMBDA e : Read(device.lists[n].odts[j][e], sample)),
                       n, sample % 256)]
DtosOf(n, sample, time) ==
  [j \in DOMAIN device.lists[n].odts |-> Dto(n, j, sample, time)]

(***************************************************************************)
(* setup(), start() and stop()                                             *)
(***************************************************************************)
NewPlan == [i \in ListIndices |-> MeasurementsOpt(config.lists[i])]

\* Why setup() raises before it sends a command, in the order it finds out
Obstacle ==
  IF Props.incomplete THEN "incomplete"
  ELSE IF Props.static /\ Dynamic # {} THEN "static"
  ELSE IF \E i \in Dynamic : TooLarge(Blocks(config.lists[i]), Container) THEN "too_large"
  ELSE "none"

Raise(why) == phase' = "raised" /\ cause' = why

Setup ==
  /\ phase \in {"idle", "raised", "stopped"} /\ line = <<>>
  /\ rounds < config.rounds /\ rounds' = rounds + 1
  /\ IF Obstacle # "none" THEN Raise(Obstacle) /\ UNCHANGED <<plan, todo, firstPids>>
     ELSE /\ phase' = "commanding" /\ cause' = "none" /\ firstPids' = <<>>
          /\ plan' = NewPlan /\ todo' = SetupCommands(NewPlan)
  /\ UNCHANGED <<config, mirror, unfolder, outside, faults, lost>>

Mode(c) == c.cmd = "SET_DAQ_LIST_MODE"
Mirroring == config.stimSupport
Upcoming == IF phase = "commanding" /\ todo # <<>> THEN {Head(todo)} ELSE {}
Told(c) == IF Mirroring THEN Mirrored(mirror, c) ELSE mirror
ToldBefore(c) == IF Mode(c) THEN Told(c) ELSE mirror
Throwing(c) == Mirroring /\ Throws(mirror, c)   \* before c is sent

\* The next command is answered, and the mirror told of it ...
Command ==
  \E c \in Upcoming :
    /\ ~Throwing(c) /\ Accepts(device, c)
    /\ ~(Mirroring /\ WritesAstray(mirror, c))
    /\ device' = Executed(device, c)
    /\ mirror' = Told(c)
    /\ todo' = Tail(todo)
    /\ firstPids' = IF c.cmd # "START_STOP_DAQ_LIST" THEN firstPids
                    ELSE Append(firstPids, FirstPid(device, c.list))
    /\ UNCHANGED <<config, phase, cause, plan, unfolder, clock, events, line, faults, rounds,
                   lost>>

\* ... refused, ...
Refused ==
  \E c \in Upcoming :
    /\ ~Throwing(c) /\ ~Accepts(device, c)
    /\ Raise("refused") /\ mirror' = ToldBefore(c)
    /\ UNCHANGED <<config, plan, todo, firstPids, unfolder, outside, faults, rounds, lost>>

\* ... or executed or not, but never answered, ...
Unanswered ==
  \E c \in Upcoming :
    /\ ~Throwing(c) /\ Accepts(device, c)
    /\ faults < config.faults /\ faults' = faults + 1
    /\ device' \in {device, Executed(device, c)}
    /\ Raise("unanswered") /\ mirror' = ToldBefore(c)
    /\ UNCHANGED <<config, plan, todo, firstPids, unfolder, clock, events, line, rounds, lost>>

\* ... or the mirror throws, or writes through a null pointer, which ends the program.
MirrorFails ==
  \E c \in Upcoming :
    /\ \/ Throwing(c) /\ Raise("thrown") /\ UNCHANGED device
       \/ /\ Accepts(device, c) /\ Mirroring /\ WritesAstray(mirror, c)
          /\ phase' = "ended" /\ cause' = "crashed" /\ device' = Executed(device, c)
    /\ mirror' = ToldBefore(c)
    /\ UNCHANGED <<config, plan, todo, firstPids, unfolder, clock, events, line, faults, rounds,
                   lost>>

NewDecoder(bins) ==
  [odts |-> FlattenOdts(bins), state |-> "idle", next |-> 0, current |-> 0, timestamp |-> 0,
   buffer |-> Copies(Len(Headers(bins)), <<>>),
   began |-> 0]   \* history: when the device sampled the first ODT
NewTracker == [previous |-> 0, overflows |-> 0, base |-> 0, started |-> FALSE]

\* set_parameters(): a new decoder; the trackers of an earlier setup() stay in front.
SetParameters ==
  /\ phase = "commanding" /\ todo = <<>>
  /\ phase' = "ready"
  /\ decoders' = [i \in ListIndices |-> NewDecoder(plan[i])]
  /\ trackers' = trackers \o Copies(Len(config.lists), NewTracker)
  /\ UNCHANGED <<config, cause, plan, todo, firstPids, mirror, last, outside, faults, rounds, lost>>

StartStopSynch(from, to) ==
  device' = [device EXCEPT !.lists =
    [n \in DOMAIN device.lists |->
       [device.lists[n] EXCEPT !.state = IF @ = from THEN to ELSE @]]]

Start ==
  /\ phase = "ready" /\ phase' = "running"
  /\ StartStopSynch("selected", "running")
  /\ UNCHANGED <<config, cause, plan, todo, firstPids, mirror, unfolder, clock, events, line,
                 faults, rounds, lost>>
Stop ==
  /\ phase = "running" /\ phase' = "stopped"
  /\ StartStopSynch("running", "off")
  /\ UNCHANGED <<config, cause, plan, todo, firstPids, mirror, unfolder, clock, events, line,
                 faults, rounds, lost>>

\* The device samples the lists of event e and sends their DTOs.
Sampled(e) ==
  {n \in DOMAIN device.lists :
     LET list == device.lists[n]
     IN list.state = "running" /\ list.event = e /\ "stim" \notin list.mode}
Sample ==
  \E e \in {device.lists[n].event : n \in DOMAIN device.lists}, ticks \in Advances :
    /\ Sampled(e) # {}
    /\ events < config.events /\ events' = events + 1
    /\ clock' = clock + ticks
    /\ line' = line \o ForEach(ListIndices,
                               LAMBDA i : IF Number(i) \in Sampled(e)
                                          THEN DtosOf(Number(i), events', clock') ELSE <<>>)
    /\ UNCHANGED <<processor, unfolder, device, faults, rounds, lost>>

Lose ==
  /\ line # <<>> /\ faults < config.faults /\ faults' = faults + 1
  /\ line' = Tail(line)
  /\ lost' = [lost EXCEPT ![Index(Head(line).list)] = @ + 1]
  /\ UNCHANGED <<processor, unfolder, device, clock, events, rounds>>

(***************************************************************************)
(* The unfolder                                                            *)
(***************************************************************************)

\* m_odt_to_daq_map: of two lists with the same PID the later one, of an unknown
\* PID the first ODT of the first list
OdtToDaq(pid) ==
  LET owners == {i \in ListIndices : pid \in firstPids[i] .. firstPids[i] + Len(plan[i]) - 1}
      i == CHOOSE k \in owners : \A o \in owners : o <= k
  IN IF owners = {} THEN <<0, 0>> ELSE <<i - 1, pid - firstPids[i]>>

\* Getter::get_id: the number of the list and of the ODT, both from 0
GetId(id) == IF Props.idSize = 1 THEN OdtToDaq(id[1]) ELSE <<id[2], id[1]>>

\* Mutant: an ODT that is missing is not noticed.
CheckStateLax(d, odt) ==
  IF odt = 0 /\ Len(d.odts) = 1 THEN [d EXCEPT !.state = "finished", !.next = 0]
  ELSE IF odt = 0 THEN [d EXCEPT !.state = "collecting", !.next = 1]
  ELSE IF d.state # "collecting" THEN d
  ELSE IF odt + 1 = Len(d.odts) THEN [d EXCEPT !.state = "finished", !.next = 0]
  ELSE [d EXCEPT !.next = odt + 1]

\* check_state: "finished" is answered once, while the machine is idle again.
CheckState(d, odt) ==
  IF odt = 0 /\ Len(d.odts) = 1 THEN [d EXCEPT !.state = "finished", !.next = 0]
  ELSE IF odt = 0 THEN [d EXCEPT !.state = "collecting", !.next = 1]
  ELSE IF d.state # "collecting" THEN d
  ELSE IF odt # d.next THEN [d EXCEPT !.state = "idle", !.next = 0]
  ELSE IF odt + 1 = Len(d.odts) THEN [d EXCEPT !.state = "finished", !.next = 0]
  ELSE [d EXCEPT !.next = @ + 1]

\* static_cast<std::uint64_t>(ticks * m_ts_scale_factor): fractions are cut off
Nanoseconds(ticks) == (Props.scale * ticks) \div 1000

\* parse_Odt: the time, and the measurements of the ODT one behind the other; past the
\* end of the payload an exception ends the program, as feed() is noexcept.
ParseOdt(d, list, odt, payload) ==
  LET stamped == odt = 0 /\ Timestamped(list)
      first == IF stamped THEN Props.tsSize ELSE 0
      params == d.odts[odt + 1]
      offset(k) == first + SumOfLengths(SubSeq(params, 1, k - 1))
      value(k) == SubSeq(payload, offset(k) + 1, offset(k) + params[k].length)
  IN IF params # <<>> /\ first + SumOfLengths(params) > Len(payload)
     THEN [d EXCEPT !.state = "terminated"]
     ELSE [d EXCEPT !.timestamp = IF odt # 0 THEN @
                                  ELSE IF stamped THEN Nanoseconds(payload[1][2]) ELSE 0,
                    !.current = @ + Len(params),
                    !.buffer = [k \in DOMAIN @ |-> IF k - d.current \in DOMAIN params
                                                   THEN value(k - d.current) ELSE @[k]]]

\* Mutant: a first ODT does not start at the beginning of the buffer.
FedNoRewind(d, list, odt, payload) ==
  LET checked == CheckState(d, odt)
  IN IF checked.state \in {"collecting", "finished"}
     THEN ParseOdt(checked, list, odt, payload) ELSE checked

\* DaqListState::feed
Fed(d, list, odt, payload) ==
  LET checked == CheckState(d, odt)
      rewound == IF odt = 0 THEN [checked EXCEPT !.current = 0] ELSE checked
  IN IF d.state = "terminated" THEN d
     ELSE IF rewound.state \in {"collecting", "finished"}
     THEN ParseOdt(rewound, list, odt, payload) ELSE rewound

\* Mutant: the previous timestamp is the one the measurement has begun with.
NormalizedToBase(t, ts) ==
  [previous |-> IF t.started THEN t.previous ELSE ts,
   overflows |-> IF t.previous > ts THEN t.overflows + 1 ELSE t.overflows,
   base |-> IF t.started THEN t.base ELSE ts, started |-> TRUE]

\* DaqTimeTracker::normalize, its effect on the tracker ...
Normalized(t, ts) ==
  [previous |-> ts, overflows |-> IF t.previous > ts THEN t.overflows + 1 ELSE t.overflows,
   base |-> IF t.started THEN t.base ELSE ts, started |-> TRUE]
\* ... and the time it returns
NormalTime(t, ts) == ts - t.base + Nanoseconds(Wrap) * t.overflows

\* What is delivered, and how long the device has really been measuring; close, if
\* less than an overflow lay between any two results.
Result(d, t, before, sample) ==
  [values |-> d.buffer, normal |-> NormalTime(t, d.timestamp), sample |-> sample,
   time |-> d.began, first |-> IF before = None THEN d.began ELSE before.first,
   close |-> before = None \/ (before.close /\ d.began - before.time < Wrap)]

\* DaqOnlinePolicy::feed: a number that is no list's is ignored; once feed() has
\* returned, the machine of a finished list is idle.
Feed(dto) ==
  LET id == GetId(dto.id)
      i == id[1] + 1
      begun == IF id[2] = 0 THEN [decoders[i] EXCEPT !.began = dto.time] ELSE decoders[i]
      fed == Fed(begun, config.lists[i], id[2], dto.payload)
      tracker == Normalized(trackers[i], fed.timestamp)
  IN IF i \notin ListIndices THEN UNCHANGED unfolder
     ELSE IF fed.state # "finished"
     THEN decoders' = [decoders EXCEPT ![i] = fed] /\ UNCHANGED <<trackers, last>>
     ELSE /\ decoders' = [decoders EXCEPT ![i] = [fed EXCEPT !.state = "idle"]]
          /\ trackers' = [trackers EXCEPT ![i] = tracker]
          /\ last' = [last EXCEPT ![i] = Result(fed, tracker, @, dto.sample)]

Receive ==
  /\ line # <<>>
  /\ Feed(Head(line))
  /\ line' = Tail(line)
  /\ UNCHANGED <<processor, device, clock, events, faults, rounds, lost>>
Duplicate ==
  /\ line # <<>> /\ faults < config.faults /\ faults' = faults + 1
  /\ Feed(Head(line))
  /\ UNCHANGED <<processor, outside, rounds, lost>>

Init ==
  /\ config \in Configurations
  /\ phase = "idle" /\ cause = "none"
  /\ plan = <<>> /\ todo = <<>> /\ firstPids = <<>>
  /\ decoders = <<>> /\ trackers = <<>>
  /\ mirror = NewMirror(config.knownEvents)
  /\ device = NewDevice(config) /\ clock = 0 /\ events = 0 /\ line = <<>>
  /\ faults = 0 /\ rounds = 0
  /\ lost = [i \in ListIndices |-> 0] /\ last = [i \in ListIndices |-> None]

Next ==
  \/ Setup \/ Command \/ Refused \/ Unanswered \/ MirrorFails \/ SetParameters \/ Start \/ Stop
  \/ Sample \/ Lose \/ Receive \/ Duplicate

Spec == Init /\ [][Next]_vars

(***************************************************************************)
(* Properties                                                              *)
(***************************************************************************)

\* The unfolder never counts past the measurements of a list: its buffer has a
\* place for every one of them and is written nowhere else.
TypeOK ==
  /\ phase \in Phases /\ cause \in Causes
  /\ Len(decoders) \in {0, Len(config.lists)} /\ Len(firstPids) <= Len(config.lists)
  /\ \A i \in DOMAIN decoders :
       /\ decoders[i].state \in {"idle", "collecting", "terminated"}
       /\ decoders[i].next < Len(plan[i])
       /\ decoders[i].current <= Len(decoders[i].buffer)
       /\ Len(decoders[i].buffer) = Len(Headers(plan[i]))
  /\ Len(trackers) \in {r * Len(config.lists) : r \in 0 .. config.rounds}
  /\ clock \in Nat /\ events \in 0 .. config.events
  /\ faults \in 0 .. config.faults /\ rounds \in 0 .. config.rounds

SharesAnOctet(a, b) == \E o \in DOMAIN OctetsOf(a) : \E p \in DOMAIN OctetsOf(b) :
                         OctetsOf(a)[o] = OctetsOf(b)[p]
Overlapping(list) ==
  \E a, b \in Kept(list.measurements) :
    a # b /\ SharesAnOctet(list.measurements[a], list.measurements[b])

\* What setup() cannot configure: unknown or static devices, measurements larger
\* than an entry or a DTO may be, predefined lists of a device that is not static
\* (they are numbered as if they had been allocated), lists of several ODTs whose
\* DTOs have no identification, and, with stim_support, lists not allocated from 0 on
\* and events that getDaqInfo() was not asked for before.
Unsuitable ==
  \/ Props.incomplete
  \/ Props.static /\ Dynamic # {}
  \/ \E i \in Dynamic : \E k \in DOMAIN config.lists[i].measurements :
       config.lists[i].measurements[k].length > Smaller(Props.maxEntry, Container)
  \/ ~Props.static /\ Dynamic # ListIndices
  \/ SwitchPidOff /\ \E i \in DOMAIN plan : Len(plan[i]) > 1
  \/ Mirroring /\ \/ Props.static \/ Props.minDaq > 0
                  \/ \E i \in ListIndices : config.lists[i].event \notin config.knownEvents

Shape(list) == [mode |-> list.mode, odts |-> [j \in DOMAIN list.odts |-> Len(list.odts[j])]]
Selected(list) == Shape([list EXCEPT !.mode = @ \cup {"selected"}])

\* A device that insists on the order of the allocation, on the size of an entry and
\* on the length of a DTO refuses no command of setup(); and when setup() is done,
\* the device reads every measurement of a list in exactly one entry, and the list
\* has a header for each of them, and the mirror has the lists and modes of the
\* device.  Of measurements that overlap some are dropped.
ConfigurationAccepted ==
  /\ phase \in {"raised", "ended"} /\ cause # "unanswered" => Unsuitable
  /\ phase = "ready" /\ Mirroring =>
       [i \in DOMAIN mirror.lists |-> Shape(mirror.lists[i])]
         = [i \in ListIndices |-> Selected(device.lists[Number(i)])]
  /\ phase \in {"ready", "running"} =>
       \A i \in Dynamic :
         LET list == config.lists[i]
             entries == FlattenSeq(device.lists[Number(i)].odts)
             reading(m) == {e \in DOMAIN entries :
                              /\ entries[e].ext = m.ext /\ entries[e].address <= m.address
                              /\ EndOf(m) <= EndOf(entries[e])}
         IN \/ Overlapping(list)
            \/ /\ \A k \in Kept(list.measurements) :
                    Cardinality(reading(list.measurements[k])) = 1
               /\ Len(Headers(plan[i])) = Cardinality(Kept(list.measurements))

\* DTOs with the number of a list count from min_daq, the unfolder's lists from 0.
Misnumbered == Props.idSize > 1 /\ ~Props.static /\ Props.minDaq > 0

\* The unfolder does not skip the sequence counter of an interleaved device.
Misread == Misnumbered \/ Props.interleaved

\* A tick of a device that counts picoseconds is no whole number of nanoseconds.
Fractional == Props.scale % 1000 # 0

\* A measurement that begins at the last octet of another one is merged behind it,
\* although they share that octet.
SharesLastOctet(list) ==
  \E a, b \in Kept(list.measurements) :
    LET m == list.measurements[a]
        o == list.measurements[b]
    IN a # b /\ m.ext = o.ext /\ o.address = EndOf(m) - 1

\* Whatever DTOs are lost or duplicated, every result of a list of a device that is
\* not interleaved has under each header the octets the device has read there, all
\* of one sample; it mixes samples only if as many DTOs were lost as the list has
\* ODTs, and the decoder never reads past the end of a DTO.
MeasurementsExact ==
  \A i \in DOMAIN decoders :
    LET params == FlattenSeq(decoders[i].odts)
        of(s) == [k \in DOMAIN params |-> Read(params[k], s)]
    IN \/ Misread \/ SharesLastOctet(config.lists[i])
       \/ /\ decoders[i].state # "terminated"
          /\ last[i] # None =>
               \/ last[i].values = of(last[i].sample)
               \/ /\ lost[i] >= Len(decoders[i].odts)
                  /\ \A k \in DOMAIN params :
                       \E s \in 1 .. last[i].sample : last[i].values[k] = of(s)[k]

\* The time of a result is how long the device has measured since the first one,
\* however often its timestamp has overflowed, if less than an overflow lies
\* between any two results of the list; of a device that is not interleaved and
\* whose ticks are whole nanoseconds.
TimesExact ==
  \A i \in DOMAIN decoders :
    \/ Misread \/ Fractional \/ last[i] = None \/ ~Timestamped(config.lists[i])
    \/ last[i].close => last[i].normal = Nanoseconds(last[i].time - last[i].first)
=============================================================================
