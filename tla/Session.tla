------------------------------ MODULE Session ------------------------------
(***************************************************************************)
(* A session of Master (src/pyxcp/master/master.py) with an XCP slave, in  *)
(* one thread and without the error handler: connecting and learning what  *)
(* the slave can do, moving data with push(), flash_program(), fetch() and *)
(* verify(), unlocking resources with cond_unlock(), and every other       *)
(* service with the byte orders its fields are packed and parsed with.     *)
(*                                                                         *)
(* A program makes the calls of a script; an exception ends it.  request() *)
(* sends a packet and takes the oldest answer there is; block_request()    *)
(* sends one and takes no answer, except that it looks at one that waits   *)
(* in resQueue already.  The slave is external: it executes a packet when  *)
(* it is sent, and its answers need time on the wire.  It may refuse any   *)
(* packet, be reset at any moment, and be exchanged between two calls.     *)
(***************************************************************************)
EXTENDS Services, SequencesExt, FiniteSets

CONSTANTS
  Devices,          \* the slaves that may be connected
  Transports,       \* "can", "eth"
  Scripts,          \* sequences of calls
  Memory,           \* the addresses 0 .. n of a slave
  ByteMax,          \* 255, the most elements one length byte can say
  MinLimit,         \* 8, the least limit_payload of fetch()
  KeyLength,        \* bytes of a key
  ChunkedPushes,    \* whether programs push more than a packet without block mode
  MaxRefusals,      \* bound: packets the slave refuses
  MaxResets         \* bound: resets of the slave

Resources == {"calpag", "daq", "stim", "pgm", "dbg"}
Ops == {"connect", "getCommModeInfo", "getStatus", "programStart", "disconnect", "service",
        "setMta", "push", "flash_program", "fetch", "verify", "cond_unlock", "exchange"}
Keys == {"function", "dll", "dll fails", "none"}
Calls == [op : Ops, at : Nat, n : Nat, limit : Nat, names : Seq(STRING), key : Keys]
DeviceFields ==
  [order : {"INTEL", "MOTOROLA"}, bytes : {1, 2, 4}, maxCto : Nat, slaveBlock : BOOLEAN,
   masterBlock : BOOLEAN, pgmBlock : BOOLEAN, maxBs : Nat, info : BOOLEAN,
   supports : SUBSET Resources, protects : SUBSET Resources, seed : Nat]

ASSUME DevicesAssumption ==
  /\ Devices \subseteq DeviceFields /\ Devices # {}
  /\ \A v \in Devices : v.maxCto \in 4 .. ByteMax /\ v.maxBs >= 1 /\ v.seed >= 1
ASSUME ScriptsAssumption ==       \* before connect() there are no packers
  /\ Scripts \subseteq Seq(Calls)
  /\ \A s \in Scripts : s = <<>> \/ Head(s).op = "connect"
ASSUME SessionBounds ==
  /\ Cardinality(Memory) \in Nat /\ Memory = 0 .. Cardinality(Memory) - 1
  /\ ByteMax \in Nat \ {0} /\ MinLimit \in Nat /\ KeyLength \in Nat \ {0}
  /\ MaxRefusals \in Nat /\ MaxResets \in Nat
  /\ Transports \subseteq {"can", "eth"} /\ ChunkedPushes \in BOOLEAN

VARIABLES
  transport,    \* Master.transport_name
  script,       \* the calls still to be made
  pc,           \* "idle", "transfer", "names", "seed", "key" or an exception
  call,         \* the call that runs
  todo,         \* push, fetch, verify: the packets still to be sent
  got,          \* fetch, verify: the data received so far
  expected,     \* verify: the checksum of the slave
  names,        \* cond_unlock: the resource names still to be looked at
  status,       \* cond_unlock: protection_status
  seed,         \* cond_unlock: bytes of the seed received, remaining
  keyLeft,      \* cond_unlock: bytes of the key still to be sent
  props,        \* slaveProperties, the byte order of the packers, and
                \* currentProtectionStatus (a set of no or one status)
  resQueue,     \* BaseTransport.resQueue
  wire,         \* external: answers on their way
  slave,        \* external: the state of the slave
  refusals, resets,
  exchanged,    \* history: the last service and the byte orders it met
  last,         \* history: the last call that ended, and how
  known         \* history: the protection status came from this slave

transferVars == <<todo, got, expected>>
unlockVars == <<names, status, seed, keyLeft>>
channel == <<resQueue, wire>>
faults == <<refusals, resets>>
vars == <<transport, script, pc, call, transferVars, unlockVars, props, channel, slave,
          faults, exchanged, last, known>>

LeastOf(i, j) == IF i < j THEN i ELSE j
Unknown == -1                      \* an attribute slaveProperties has not got
NoCall == [how |-> "none"]
NoSeed == [bytes |-> 0, remaining |-> 0]
NoExchange == [service |-> "none"]
Fresh(v) ==
  [dev |-> v, connected |-> FALSE, mta |-> 0, memory |-> [a \in Memory |-> a], block |-> 0,
   locked |-> v.protects, asked |-> {}, seedLeft |-> 0, keyGot |-> 0]
NoProps ==
  [order |-> "none", packers |-> "none", bytes |-> 1, maxCto |-> Unknown, slaveBlock |-> FALSE,
   masterBlock |-> FALSE, maxBs |-> Unknown, pgmBlock |-> FALSE, pgmMaxBs |-> Unknown,
   pgmMaxCto |-> Unknown, supports |-> {}, protection |-> {}]
Exceptions == {"XcpResponseError", "XcpTimeoutError", "KeyError", "ValueError", "RuntimeError",
               "TypeError", "StreamError", "SeedNKeyError"}

TypeOK ==
  /\ pc \in {"idle", "transfer", "names", "seed", "key"} \cup Exceptions
  /\ (call = NoCall) = (pc \in {"idle"} \cup Exceptions)
  /\ (todo # <<>>) = (pc = "transfer")
  /\ \A i \in 1 .. Len(todo) : todo[i].count \in 0 .. ByteMax /\ todo[i].from \in Nat
  /\ got \in Seq(Int) /\ expected \in Seq(Int)
  /\ names \in Seq(STRING \cup Resources) /\ status \subseteq Resources
  /\ seed.bytes \in Nat /\ seed.remaining \in Int /\ keyLeft \in 0 .. KeyLength
  /\ props.order = props.packers
  /\ props.protection = {} \/ \E s \in SUBSET Resources : props.protection = {s}
  /\ slave.dev \in Devices /\ slave.mta \in Nat /\ slave.block \in Nat
  /\ slave.locked \subseteq slave.dev.protects /\ slave.keyGot \in 0 .. KeyLength
  /\ refusals \in 0 .. MaxRefusals /\ resets \in 0 .. MaxResets

Init ==
  /\ transport \in Transports
  /\ script \in Scripts
  /\ pc = "idle" /\ call = NoCall
  /\ todo = <<>> /\ got = <<>> /\ expected = <<>>
  /\ names = <<>> /\ status = {} /\ seed = NoSeed /\ keyLeft = 0
  /\ props = NoProps
  /\ resQueue = <<>> /\ wire = <<>>
  /\ slave \in {Fresh(v) : v \in Devices}
  /\ refusals = 0 /\ resets = 0
  /\ exchanged = NoExchange /\ last = NoCall /\ known = FALSE

-----------------------------------------------------------------------------
(* External: what the slave does with a packet, and its answers.           *)
Packet(service) ==
  [service |-> service, length |-> 0, from |-> 0, count |-> 0, wait |-> TRUE, name |-> "none"]
Answer ==
  [error |-> "none", size |-> 0, data |-> <<>>, dev |-> slave.dev, locked |-> slave.locked]
Fails(error) == [slave |-> [slave EXCEPT !.block = 0],
                 answers |-> <<[Answer EXCEPT !.error = error]>>]
Silent(s) == [slave |-> s, answers |-> <<>>]
Does(s) == [slave |-> s, answers |-> <<[Answer EXCEPT !.locked = s.locked]>>]

(* The elements a slave holds, as the bytes it sends.                      *)
Elements(from, n) == [i \in 1 .. n |-> slave.memory[from + i - 1]]
Bytes(elements, size) == [i \in 1 .. Len(elements) * size |-> elements[(i - 1) \div size + 1]]
Value(i) == 100 + i                \* element i of the data a program writes

Written(p) ==
  [slave EXCEPT !.memory = [a \in Memory |-> IF a - slave.mta \in 0 .. p.count - 1
                                               THEN Value(p.from + a - slave.mta) ELSE @[a]],
                !.mta = @ + p.count,
                !.block = p.length - p.count]
BlockLimit == slave.dev.maxBs * (slave.dev.maxCto - 2)

(* DOWNLOAD and PROGRAM, which may begin a block; their _NEXT.             *)
First(p) ==
  IF slave.block > 0 THEN Fails("SEQUENCE")
  ELSE IF p.length = p.count THEN Does(Written(p))
  ELSE IF p.length <= BlockLimit
            /\ IF p.service = "download" THEN slave.dev.masterBlock ELSE slave.dev.pgmBlock
         THEN Silent(Written(p))
         ELSE Fails("OUT_OF_RANGE")
Next_(p) ==
  IF p.length # slave.block THEN Fails("SEQUENCE")
  ELSE IF p.length = p.count THEN Does(Written(p)) ELSE Silent(Written(p))

Uploaded(p) ==
  LET sent == Bytes(Elements(slave.mta, p.length), slave.dev.bytes)
      payload == slave.dev.maxCto - 1
      part(i) == SubSeq(sent, (i - 1) * payload + 1, LeastOf(i * payload, Len(sent)))
      parts == (Len(sent) + payload - 1) \div payload
  IN  IF (parts > 1 /\ ~slave.dev.slaveBlock) \/ slave.mta + p.length > Cardinality(Memory)
        THEN Fails("OUT_OF_RANGE")
        ELSE [slave |-> [slave EXCEPT !.mta = @ + p.length],
              answers |-> [i \in 1 .. parts |-> [Answer EXCEPT !.data = part(i)]]]

(* GET_SEED: the first part, or the remaining ones; UNLOCK.                *)
SeedPart(s) ==
  [slave |-> [s EXCEPT !.seedLeft = @ - LeastOf(@, slave.dev.maxCto - 2)],
   answers |-> <<[Answer EXCEPT !.size = s.seedLeft]>>]
Seed(p) ==
  IF p.length = 1
    THEN IF slave.seedLeft = 0 THEN Fails("SEQUENCE") ELSE SeedPart(slave)
  ELSE IF p.name \notin slave.locked
    THEN SeedPart([slave EXCEPT !.asked = {}, !.seedLeft = 0])
    ELSE SeedPart([slave EXCEPT !.asked = {p.name}, !.seedLeft = slave.dev.seed, !.keyGot = 0])
Key(p) ==
  LET total == slave.keyGot + p.count
  IN  IF slave.asked = {} \/ p.length # KeyLength - slave.keyGot THEN Fails("SEQUENCE")
      ELSE IF total < KeyLength THEN Does([slave EXCEPT !.keyGot = total])
      ELSE IF p.from = slave.dev.seed       \* the key was made from the whole seed
        THEN Does([slave EXCEPT !.locked = @ \ slave.asked, !.asked = {}, !.keyGot = 0])
        ELSE [Fails("ACCESS_LOCKED") EXCEPT !.slave.connected = FALSE]

Executed(p) ==
  CASE p.service = "connect" -> Does([slave EXCEPT !.connected = TRUE, !.block = 0])
    [] p.service # "connect" /\ ~slave.connected -> Silent(slave)
    [] p.service = "disconnect" /\ slave.connected ->
         Does([slave EXCEPT !.connected = FALSE, !.locked = slave.dev.protects])
    [] p.service = "getCommModeInfo" /\ slave.connected ->
         IF slave.dev.info THEN Does(slave) ELSE Fails("CMD_UNKNOWN")
    [] p.service = "setMta" /\ slave.connected -> Does([slave EXCEPT !.mta = p.from])
    [] p.service = "buildChecksum" /\ slave.connected ->
         IF slave.mta + p.length > Cardinality(Memory) THEN Fails("OUT_OF_RANGE")
         ELSE [slave |-> [slave EXCEPT !.mta = @ + p.length],
               answers |-> <<[Answer EXCEPT !.data = Elements(slave.mta, p.length)]>>]
    [] p.service = "upload" /\ slave.connected -> Uploaded(p)
    [] p.service \in {"download", "program"} /\ slave.connected -> First(p)
    [] p.service \in {"downloadNext", "programNext"} /\ slave.connected -> Next_(p)
    [] p.service = "getSeed" /\ slave.connected -> Seed(p)
    [] p.service = "unlock" /\ slave.connected -> Key(p)
    [] OTHER -> Does(slave)

(* The slave executes the packet or refuses it.                            *)
Reaction(e, n) == [slave |-> e.slave, answers |-> e.answers, refused |-> n]
Reactions(p) ==
  {Reaction(Executed(p), 0)}
    \cup IF slave.connected /\ refusals < MaxRefusals
           THEN {Reaction(Fails("ACCESS_DENIED"), 1)} ELSE {}

-----------------------------------------------------------------------------
(* request(): send, then take the oldest answer there is or time out; an   *)
(* upload takes the oldest n.                                              *)
Answered(r) == resQueue \o wire \o r.answers
Without(seq, n) == SubSeq(seq, n + 1, Len(seq))
FirstOf(seq, n) == SubSeq(seq, 1, LeastOf(n, Len(seq)))
Ask(p, r, n) ==
  /\ slave' = r.slave
  /\ refusals' = refusals + r.refused
  /\ resQueue' = Without(resQueue, n)
  /\ wire' = IF n <= Len(resQueue) THEN wire \o r.answers
             ELSE Without(wire \o r.answers, n - Len(resQueue))
  /\ exchanged' = IF Answered(r) = <<>> THEN NoExchange
                  ELSE [service |-> p.service, packed |-> props.packers,
                        parsed |-> IF p.service = "connect" THEN slave.dev.order ELSE props.order,
                        spoken |-> slave.dev.order]
Error(r) ==
  IF Answered(r) = <<>> THEN "XcpTimeoutError"
  ELSE IF Head(Answered(r)).error # "none" THEN "XcpResponseError" ELSE "none"
Reply(r) == Head(Answered(r))

RaiseOpen(c, e) ==               \* Mutant
  /\ pc' = e /\ call' = NoCall /\ script' = <<>>
  /\ last' = [how |-> "raised", call |-> c]
  /\ UNCHANGED <<todo, names>>
Raise(c, e) ==
  /\ pc' = e /\ call' = NoCall /\ script' = <<>>
  /\ last' = [how |-> "raised", call |-> c]
  /\ todo' = <<>> /\ names' = <<>>
Return(c) ==
  /\ pc' = "idle" /\ call' = NoCall
  /\ last' = [how |-> "returned", call |-> c]
Calling(op) == pc = "idle" /\ script # <<>> /\ Head(script).op = op
Begin == script' = Tail(script)

SetupPackersOnce(v) == IF props.packers = "none" THEN v.order ELSE props.packers    \* Mutant
SetupPackers(v) == v.order
Connected(a) ==
  [props EXCEPT !.order = a.dev.order, !.packers = SetupPackers(a.dev), !.bytes = a.dev.bytes,
                !.maxCto = a.dev.maxCto, !.slaveBlock = a.dev.slaveBlock,
                !.supports = a.dev.supports]
CommMode(a) == [props EXCEPT !.masterBlock = a.dev.masterBlock, !.maxBs = a.dev.maxBs]
Protection(a) == [props EXCEPT !.protection = {a.locked}]
Programming(a) ==
  [props EXCEPT !.pgmBlock = a.dev.pgmBlock, !.pgmMaxBs = a.dev.maxBs, !.pgmMaxCto = a.dev.maxCto]
(* What the answer leaves in slaveProperties.                              *)
Learned(service, a) ==
  CASE service = "connect" -> Connected(a)
    [] service = "getCommModeInfo" -> CommMode(a)
    [] service = "getStatus" -> Protection(a)
    [] service = "programStart" -> Programming(a)
    [] OTHER -> props

(* A call that is one request.                                             *)
OneRequest(p) ==
  /\ \E r \in Reactions(p) :
       /\ Ask(p, r, 1)
       /\ IF Error(r) # "none"
            THEN Raise(Head(script), Error(r)) /\ UNCHANGED <<props, known>>
            ELSE /\ Begin /\ Return(Head(script))
                 /\ props' = Learned(p.service, Reply(r))
                 /\ known' = (p.service = "getStatus" \/ (known /\ p.service # "disconnect"))
                 /\ UNCHANGED <<todo, names>>
  /\ UNCHANGED <<transport, got, expected, status, seed, keyLeft, resets>>

Connect == Calling("connect") /\ OneRequest(Packet("connect"))
GetCommModeInfo == Calling("getCommModeInfo") /\ OneRequest(Packet("getCommModeInfo"))
GetStatus == Calling("getStatus") /\ OneRequest(Packet("getStatus"))
ProgramStart == Calling("programStart") /\ OneRequest(Packet("programStart"))
Disconnect == Calling("disconnect") /\ OneRequest(Packet("disconnect"))
SetMta == Calling("setMta") /\ OneRequest([Packet("setMta") EXCEPT !.from = Head(script).at])

(* Any other service, as far as its fields go.                             *)
Special == {"connect", "getCommModeInfo", "getStatus", "programStart", "disconnect", "setMta",
            "upload", "download", "downloadNext", "program", "programNext", "getSeed", "unlock"}
AnyService ==
  /\ Calling("service")
  /\ \E name \in DOMAIN Service \ Special : OneRequest(Packet(name))

-----------------------------------------------------------------------------
(* Transfers.  A packet with wait is sent with request(), one without with *)
(* block_request().                                                        *)
Chunk(service, length, from, count, wait) ==
  [Packet(service) EXCEPT !.length = length, !.from = from, !.count = count, !.wait = wait]
Address(a) == [Packet("setMta") EXCEPT !.from = a]

(* _download_normal_mode: full chunks are not waited for.                  *)
Normal(first, n, payload) ==
  LET full == n \div payload
      rest == n % payload
  IN  [i \in 1 .. full |-> Chunk(first, payload, (i - 1) * payload, payload, FALSE)]
        \o IF rest > 0 THEN <<Chunk(first, rest, n - rest, rest, TRUE)>> ELSE <<>>

(* _block_downloader: one block, the elements from .. from + n - 1.        *)
RemainingWhole(n, i, size) == n      \* Mutant
Remaining(n, i, size) == n - (i - 1) * size
Block(first, next, from, n) ==
  LET size == props.maxCto - 2
      full == n \div size
      rest == n % size
  IN  [i \in 1 .. full |-> Chunk(IF i = 1 THEN first ELSE next, Remaining(n, i, size),
                                 from + (i - 1) * size, size, i * size = n)]
        \o IF rest = 0 THEN <<>>
           ELSE <<Chunk(IF full <= 1 THEN first ELSE next, rest, from + n - rest, rest, TRUE)>>

(* _download_master_block_mode: blocks of at most limit elements.          *)
WholeBlocks(first, next, n, limit) ==        \* Mutant
  FlattenSeq([i \in 1 .. n \div limit |-> Block(first, next, (i - 1) * limit, limit)])
Blocks(first, next, n, limit) ==
  FlattenSeq([i \in 1 .. (n + limit - 1) \div limit |->
                Block(first, next, (i - 1) * limit, LeastOf(limit, n - (i - 1) * limit))])

Pushed(first, next, c, block, maxCto, maxBs) ==
  <<Address(c.at)>>
    \o IF block THEN Blocks(first, next, c.n, LeastOf(maxBs * (maxCto - 2), ByteMax))
                ELSE Normal(first, c.n, maxCto - 2)

(* fetch(): whole chunks, then the rest; the slave counts elements.        *)
Fetched(n, limit) ==
  LET most == IF props.slaveBlock THEN ByteMax ELSE props.maxCto - 1
      size == IF limit = 0 THEN most ELSE LeastOf(limit, most)
      part(from, k) == Chunk("upload", k, from, k, TRUE)
  IN  [i \in 1 .. n \div size |-> part((i - 1) * size, size)]
        \o IF n % size = 0 THEN <<>> ELSE <<part(n - (n % size), n % size)>>
Verified(c) ==
  <<Address(c.at), Chunk("buildChecksum", c.n, 0, 0, TRUE), Address(c.at)>> \o Fetched(c.n, 0)

TransferOf(c) ==
  CASE c.op = "push" ->
         Pushed("download", "downloadNext", c, props.masterBlock, props.maxCto, props.maxBs)
    [] c.op = "flash_program" ->
         Pushed("program", "programNext", c, props.pgmBlock, props.pgmMaxCto, props.pgmMaxBs)
    [] c.op = "fetch" -> Fetched(c.n, c.limit)
    [] c.op = "verify" -> Verified(c)
Refuses(c) ==        \* what a transfer raises before it sends anything
  CASE c.op = "push" /\ props.maxBs = Unknown -> "KeyError"
    [] c.op = "flash_program" /\ props.pgmMaxBs = Unknown -> "KeyError"
    [] c.op = "fetch" /\ c.limit > 0 /\ c.limit < MinLimit -> "ValueError"
    [] OTHER -> "none"

(* history: what the memory and the address were when the call began      *)
Remembered(c) ==
  [op |-> c.op, at |-> c.at, n |-> c.n, limit |-> c.limit, names |-> c.names, key |-> c.key,
   before |-> slave.memory, mta |-> slave.mta]
InBlocks(c) == IF c.op = "push" THEN props.masterBlock ELSE props.pgmBlock

TransferBegin ==
  /\ pc = "idle" /\ script # <<>>
  /\ Head(script).op \in {"push", "flash_program", "fetch", "verify"}
  /\ LET c == Head(script)
     IN  IF Refuses(c) # "none" THEN Raise(c, Refuses(c)) /\ UNCHANGED <<got, expected>>
         ELSE /\ Begin
              /\ todo' = TransferOf(c) /\ got' = <<>> /\ expected' = <<>>
              /\ ChunkedPushes \/ InBlocks(c) \/ \A i \in 1 .. Len(todo') : todo'[i].wait
              /\ IF todo' = <<>> THEN Return(Remembered(c))   \* fetch() of nothing
                 ELSE pc' = "transfer" /\ call' = Remembered(c) /\ last' = NoCall
              /\ UNCHANGED names
  /\ UNCHANGED <<transport, status, seed, keyLeft, props, channel, slave, faults, exchanged, known>>

(* The packet is done; the last one ends the call.                         *)
Sent == 
  /\ todo' = Tail(todo)
  /\ UNCHANGED <<script, names>>
  /\ IF Tail(todo) = <<>> THEN Return(call) ELSE UNCHANGED <<pc, call, last>>

(* upload(): more answers are received until all bytes have come.          *)
Size(p) == p.count * props.bytes
Received(r, n) == FlattenSeq([i \in 1 .. n |-> Answered(r)[i].data])
InBlock(p) == p.service = "upload" /\ Size(p) > props.maxCto - 1
Enough(p, r, n) == n = Len(Answered(r)) \/ Len(Received(r, n)) >= Size(p)
Taken(p, r) ==
  IF ~InBlock(p) \/ Error(r) # "none" THEN 1
  ELSE CHOOSE n \in 1 .. Len(Answered(r)) :
         Enough(p, r, n) /\ \A k \in 1 .. n - 1 : ~Enough(p, r, k)
Outcome(p, r) ==
  IF Error(r) = "none" /\ InBlock(p) /\ Len(Received(r, Taken(p, r))) < Size(p)
    THEN "XcpTimeoutError" ELSE Error(r)

RequestPacket ==
  /\ pc = "transfer" /\ Head(todo).wait
  /\ LET p == Head(todo) IN
       \E r \in Reactions(p) :
         /\ Ask(p, r, Taken(p, r))
         /\ IF Outcome(p, r) # "none"
              THEN Raise(call, Outcome(p, r)) /\ UNCHANGED <<got, expected>>
              ELSE /\ got' = IF p.service # "upload" THEN got
                             ELSE got \o FirstOf(Received(r, Taken(p, r)), p.count)
                   /\ expected' = IF p.service = "buildChecksum" THEN Reply(r).data ELSE expected
                   /\ Sent
  /\ UNCHANGED <<transport, status, seed, keyLeft, props, resets, known>>

(* block_request(): an answer that waits is looked at and dropped.         *)
BlockRequest ==
  /\ pc = "transfer" /\ ~Head(todo).wait
  /\ resQueue' = IF resQueue = <<>> THEN <<>> ELSE Tail(resQueue)
  /\ IF resQueue # <<>> /\ Head(resQueue).error # "none"
       THEN Raise(call, "XcpResponseError") /\ UNCHANGED <<wire, slave, refusals>>
       ELSE /\ \E r \in Reactions(Head(todo)) :
                 /\ slave' = r.slave /\ refusals' = refusals + r.refused
                 /\ wire' = wire \o r.answers
            /\ Sent
  /\ UNCHANGED <<transport, got, expected, status, seed, keyLeft, props, resets, exchanged, known>>

(* External: an answer arrives.                                            *)
Arrives ==
  /\ wire # <<>>
  /\ resQueue' = Append(resQueue, Head(wire)) /\ wire' = Tail(wire)
  /\ UNCHANGED <<transport, script, pc, call, transferVars, unlockVars, props, slave, faults,
                 exchanged, last, known>>

-----------------------------------------------------------------------------
(* cond_unlock().                                                          *)
MaxPayload == props.maxCto - 2
InOrder(supports) ==
  LET listed(name) == IF name \in supports THEN <<name>> ELSE <<>>
  IN  listed("calpag") \o listed("daq") \o listed("stim") \o listed("pgm")
Names(c) == IF c.names = <<>> THEN InOrder(props.supports) ELSE c.names

(* getCurrentProtectionStatus(): cached, or asked for; any exception means *)
(* that nothing is known to be protected.                                  *)
GoesBy(c, protected, nowKnown) ==
  IF protected # {} /\ c.key = "none"
    THEN Raise(c, "RuntimeError") /\ UNCHANGED <<status, known>>
    ELSE /\ Begin /\ pc' = "names" /\ call' = c
         /\ status' = protected /\ names' = Names(c)
         /\ known' = nowKnown
         /\ last' = NoCall /\ UNCHANGED todo
UnlockBegin ==
  /\ Calling("cond_unlock")
  /\ LET c == Head(script) IN
       IF props.protection # {}
         THEN /\ GoesBy(c, UNION props.protection, known)
              /\ UNCHANGED <<props, channel, slave, refusals, exchanged>>
         ELSE \E r \in Reactions(Packet("getStatus")) :
                /\ Ask(Packet("getStatus"), r, 1)
                /\ IF Error(r) # "none" THEN GoesBy(c, {}, FALSE) /\ UNCHANGED props
                   ELSE GoesBy(c, Reply(r).locked, TRUE) /\ props' = Protection(Reply(r))
  /\ UNCHANGED <<transport, got, expected, seed, keyLeft, resets>>

UnlockSkip ==
  /\ pc = "names"
  /\ IF names = <<>> THEN Return(call) /\ UNCHANGED <<script, todo, names>>
     ELSE IF Head(names) \notin Resources THEN Raise(call, "ValueError")
     ELSE /\ Head(names) \notin status
          /\ names' = Tail(names)
          /\ UNCHANGED <<script, pc, call, last, todo>>
  /\ UNCHANGED <<transport, got, expected, status, seed, keyLeft, props, channel, slave, faults,
                 exchanged, known>>

(* One part of a seed; on CAN it may be shorter than what remains.  Outside *)
(* CAN a seed of no bytes, which a slave sends for an unlocked resource, is *)
(* parsed as None, and list(None) raises before the length is looked at.    *)
PartOf(a) == LeastOf(a.size, a.dev.maxCto - 2)
SeedError(r) ==
  IF Error(r) # "none" \/ transport = "can" THEN Error(r)
  ELSE IF Reply(r).size > PartOf(Reply(r)) THEN "StreamError"
  ELSE IF Reply(r).size = 0 THEN "TypeError" ELSE "none"
(* The seed is complete: the key is computed.                              *)
Goes(s) ==
  /\ seed' = s
  /\ IF s.remaining > 0
       THEN pc' = "seed" /\ UNCHANGED <<script, call, last, todo, names, keyLeft>>
     ELSE IF call.key = "dll fails" THEN Raise(call, "SeedNKeyError") /\ UNCHANGED keyLeft
     ELSE pc' = "key" /\ keyLeft' = KeyLength /\ UNCHANGED <<script, call, last, todo, names>>

UnlockFirstSeed ==
  /\ pc = "names" /\ names # <<>> /\ Head(names) \in Resources \cap status
  /\ LET p == [Packet("getSeed") EXCEPT !.name = Head(names)] IN
       \E r \in Reactions(p) :
         /\ Ask(p, r, 1)
         /\ IF SeedError(r) # "none" THEN Raise(call, SeedError(r)) /\ UNCHANGED <<seed, keyLeft>>
            ELSE IF Reply(r).size = 0
              THEN names' = Tail(names) /\ UNCHANGED <<script, pc, call, last, todo, seed, keyLeft>>
            ELSE Goes([bytes |-> PartOf(Reply(r)),
                       remaining |-> IF Reply(r).size > MaxPayload
                                       THEN Reply(r).size - PartOf(Reply(r)) ELSE 0])
  /\ UNCHANGED <<transport, got, expected, status, props, resets, known>>

SeedReceived(a) == [bytes |-> seed.bytes + PartOf(a), remaining |-> seed.remaining - a.size]
UnlockNextSeed ==
  /\ pc = "seed"
  /\ LET p == [Packet("getSeed") EXCEPT !.name = Head(names), !.length = 1] IN
       \E r \in Reactions(p) :
         /\ Ask(p, r, 1)
         /\ IF SeedError(r) # "none" THEN Raise(call, SeedError(r)) /\ UNCHANGED <<seed, keyLeft>>
            ELSE Goes(SeedReceived(Reply(r)))
  /\ UNCHANGED <<transport, got, expected, status, props, resets, known>>

KeyPart(n) == LeastOf(n, MaxPayload)
KeyRestOnce(n) == 0                  \* Mutant
KeyRest(n) == n - KeyPart(n)
UnlockKey ==
  /\ pc = "key"
  /\ LET p == [Packet("unlock") EXCEPT !.length = keyLeft, !.count = KeyPart(keyLeft),
                                       !.from = seed.bytes] IN
       \E r \in Reactions(p) :
         /\ Ask(p, r, 1)
         /\ IF Error(r) # "none"
              THEN Raise(call, Error(r)) /\ UNCHANGED <<keyLeft, props>>
              ELSE /\ props' = Protection(Reply(r))
                   /\ keyLeft' = KeyRest(keyLeft)
                   /\ IF keyLeft' > 0 THEN UNCHANGED <<pc, names>>
                                      ELSE pc' = "names" /\ names' = Tail(names)
                   /\ UNCHANGED <<script, call, last, todo>>
  /\ UNCHANGED <<transport, got, expected, status, seed, resets, known>>

-----------------------------------------------------------------------------
(* External: the slave is reset, or exchanged; what it sent is lost.       *)
Restarted(v) ==
  /\ slave' = Fresh(v) /\ wire' = <<>> /\ known' = FALSE /\ last' = NoCall
  /\ UNCHANGED <<transport, pc, call, transferVars, unlockVars, props, resQueue, refusals,
                 exchanged>>
Reset == resets < MaxResets /\ resets' = resets + 1 /\ Restarted(slave.dev) /\ UNCHANGED script
Exchange == Calling("exchange") /\ (\E v \in Devices : Restarted(v)) /\ Begin /\ UNCHANGED resets

Next ==
  \/ Connect \/ GetCommModeInfo \/ GetStatus \/ ProgramStart \/ Disconnect \/ SetMta \/ AnyService
  \/ TransferBegin \/ RequestPacket \/ BlockRequest \/ Arrives
  \/ UnlockBegin \/ UnlockSkip \/ UnlockFirstSeed \/ UnlockNextSeed \/ UnlockKey
  \/ Reset \/ Exchange
Spec == Init /\ [][Next]_vars

-----------------------------------------------------------------------------
(* Where the code departs from the byte order of the session or from the   *)
(* alignment the other services keep (see the README).                     *)
Divergent == {"setRequest", "getDaqClock", "setDaqPackedMode", "getDaqPackedMode",
              "dbgSequenceMultiple", "dbgWriteCanNext"}
Understood(layouts, order) ==
  \A layout \in layouts : \A i \in 1 .. Len(layout) :
    layout[i].order = "none" \/ layout[i].order = order

(* Every field of more than a byte is packed, and parsed, in the byte      *)
(* order of the slave that is connected now, whatever slave was connected  *)
(* before; and it is aligned as its size asks for.                         *)
Spoken(layout, order) ==
  [i \in 1 .. Len(layout) |-> IF layout[i].order = "session"
                                THEN [layout[i] EXCEPT !.order = order] ELSE layout[i]]
FieldsUnderstood ==
  exchanged.service \in DOMAIN Service \ Divergent =>
    LET row == Service[exchanged.service]
        first == IF exchanged.service \in DOMAIN Debug THEN 3 ELSE 1
        firstGot == IF exchanged.service = "upload" THEN 0 ELSE 1
    IN  /\ Understood({Spoken(l, exchanged.packed) : l \in row.sent}, exchanged.spoken)
        /\ Understood({Spoken(l, exchanged.parsed) : l \in row.got}, exchanged.spoken)
        /\ \A l \in row.sent : Aligned(l, first)
        /\ \A l \in row.got : Aligned(l, firstGot)

(* What the table of layouts owes to that: no field of a fixed order, and   *)
(* every one aligned.  It is about constants only: TLC evaluates it.       *)
LayoutsFit ==
  LET fields(orders) == Seq([size : Nat, order : orders])
      Sound(service) ==
        /\ Service[service].sent \subseteq
             fields(IF service = "connect" THEN {"none"} ELSE {"none", "session"})
        /\ Service[service].got \subseteq fields({"none", "session"})
        /\ \A l \in Service[service].sent : Aligned(l, IF service \in DOMAIN Debug THEN 3 ELSE 1)
        /\ \A l \in Service[service].got : Aligned(l, IF service = "upload" THEN 0 ELSE 1)
  IN  "none" \notin DOMAIN Service /\ \A service \in DOMAIN Service \ Divergent : Sound(service)

(* A transfer that has returned is exact: a push has written every element *)
(* at its address and nothing else, fetch() returns what the slave holds,  *)
(* and verify() compares the whole range; whatever was refused, and        *)
(* wherever the slave was reset.                                           *)
Returned(op) == last.how = "returned" /\ last.call.op = op
Range_(c) == c.at .. c.at + c.n - 1
PushExact ==
  \A op \in {"push", "flash_program"} : Returned(op) =>
    \A a \in Memory : slave.memory[a] = IF a \in Range_(last.call) THEN Value(a - last.call.at)
                                        ELSE last.call.before[a]
FetchExact ==
  Returned("fetch") /\ props.bytes = 1 =>
    got = [i \in 1 .. last.call.n |-> slave.memory[last.call.mta + i - 1]]
VerifyExact == Returned("verify") /\ props.bytes = 1 => got = expected /\ Len(got) = last.call.n
TransfersExact == PushExact /\ FetchExact /\ VerifyExact

(* When cond_unlock() has returned, every resource it was asked for is     *)
(* unlocked, if it went by what this slave had said of its protection.     *)
UnlockWhole ==
  Returned("cond_unlock") /\ known =>
    slave.locked \cap {Names(last.call)[i] : i \in 1 .. Len(Names(last.call))} = {}

(* If the slave refuses nothing and is not reset, a call raises only what  *)
(* the caller asked for; apart from the cases the README describes, one of *)
(* them that outside CAN cond_unlock() asks the seed of a resource that is *)
(* unlocked: the status it goes by is that of another slave, or the        *)
(* resource is named twice.                                                *)
LastBlock(c) == IF c.op = "push" THEN c.n % LeastOf(props.maxBs * MaxPayload, ByteMax)
                                ELSE c.n % LeastOf(props.pgmMaxBs * (props.pgmMaxCto - 2), ByteMax)
OnePacketAndRest(n) == n \div MaxPayload = 1 /\ n % MaxPayload # 0
Known(c) ==
  \/ c.op = "getCommModeInfo" /\ ~slave.dev.info
  \/ c.op \in {"push", "flash_program"} /\ OnePacketAndRest(LastBlock(c))
  \/ c.op \in {"fetch", "verify"} /\ props.bytes > 1
  \/ c.op = "cond_unlock" /\ slave.dev.seed > (IF transport = "can" THEN 2 ELSE 1) * MaxPayload
  \/ c.op = "cond_unlock" /\ transport # "can" /\ ~(known /\ IsInjective(Names(c)))
OnlyFaultsRaise ==
  /\ pc \in {"XcpResponseError", "XcpTimeoutError", "StreamError", "TypeError"}
  /\ refusals = 0 /\ resets = 0
  => Known(last.call)

(* When a push has returned, no packet of it has been refused.             *)
PushNoticed ==
  Returned("push") => refusals = 0
=============================================================================
