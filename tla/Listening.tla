----------------------------- MODULE Listening -----------------------------
(***************************************************************************)
(* The receiving side of the transport layers: the thread that reads the   *)
(* socket, the port or the endpoint, the listener that turns what was read *)
(* into frames and hands them to process_response(), the asyncio           *)
(* subscriptions that get them, and close().  eth.py, sxi.py,              *)
(* usb_transport.py, can.py and base.py of src/pyxcp/transport; the octets *)
(* are those of Framing.                                                   *)
(*                                                                         *)
(* What is on its way is a sequence of pieces: single octets on a stream   *)
(* (TCP, SxI, USB), from which a read takes any number; datagrams (UDP);   *)
(* messages on a CAN bus, their identifier and its size before the data.   *)
(***************************************************************************)
EXTENDS Framing, CanIdentifiers, Subscriptions, FiniteSets

CONSTANTS
  Setups,         \* transports, their framing, the frames their slaves send, and what
                  \* program subscribes to them
  MaxDatagram,    \* 512, Eth.MAX_DATAGRAM_SIZE
  ReadSizes       \* bound: the octets a read of a stream takes, unless all there are

Kinds == {"tcp", "udp", "sxi", "usb", "can"}
Distinct(seq) == \A i, j \in 1 .. Len(seq) : seq[i] = seq[j] => i = j
(* The formats that can be configured: only SxI has checksums.             *)
FormatsOf(transport) ==
  CASE transport = "sxi" -> {FormatOf(h, tail) : h \in DOMAIN HeaderFormats, tail \in 0 .. 2}
    [] transport = "usb" -> {FormatOf(h, 0) : h \in DOMAIN HeaderFormats}
    [] OTHER -> {EthFormat}
ASSUME SetupsAssumption ==
  \A u \in Setups : /\ u.kind \in Kinds /\ u.format \in FormatsOf(u.kind)
                    /\ u.packets \in Seq(Seq(Octet) \ {<<>>})
                    /\ \A i \in 1 .. Len(u.packets) : Len(u.packets[i]) <= Longest(u.format)
                    /\ Distinct(u.packets)
                    /\ u.subs \subseteq Subs /\ u.faults \in Nat
                    /\ u.daqIds \in Seq(Nat) /\ u.slaveId \in Nat
                    /\ \A raw \in {u.slaveId} \cup {u.daqIds[i] : i \in DOMAIN u.daqIds} :
                         InRange(raw) /\ make_identifier(OnBus(raw)).raw = raw
                    /\ Distinct(<<u.slaveId>> \o u.daqIds)
                    /\ \A i \in 1 .. Len(u.packets) :
                         u.packets[i][1] < Len(u.daqIds) => Len(u.packets[i]) > 1
                    /\ u.maxsize \in MaxSizes /\ u.consumers \in ConsumerCounts
ASSUME ReadsAssumption ==
  MaxDatagram \in Nat \ {0} /\ 1 \in ReadSizes /\ ReadSizes \subseteq Nat \ {0}
ASSUME CategoriesAssumption == Categories = {"RESPONSE", "EVENT", "SERV", "DAQ"}

VARIABLES
  setup,        \* constant during a behaviour
  sent, lost, broken,   \* the slave: see FrameStream
  line,         \* external: pieces on their way
  peer,         \* external: whether the slave has closed the TCP connection
  faults,       \* bound: what may still go wrong
  socketOpen,   \* the socket, port, endpoint or bus is open
  reader,       \* the reading thread: where it is
  chunk,        \* what it has read
  packets,      \* _packets of eth and usb (chunks), _frames of sxi (frames)
  receiver,     \* EthReceiver, SxiReceiver, the locals of Usb.listen
  listener,     \* the listener thread: where it is
  count,        \* the packets it has still to take in this round
  found,        \* the frames it has still to hand on
  heard,        \* history: the frames handed to process_response()
  closeEvent,   \* BaseTransport.closeEvent
  program       \* the thread that connects and closes

slaveVars == <<sent, lost, broken, line, peer, faults>>
readerVars == <<reader, chunk, packets>>
listenerVars == <<listener, count, found, heard>>
programVars == <<setup, socketOpen, closeEvent, program>>
listeningVars == <<slaveVars, readerVars, receiver, listenerVars, programVars>>
vars == <<listeningVars, subVars>>

kind == setup.kind
Ethernet == kind \in {"tcp", "udp"}
Stream == kind \in {"tcp", "sxi", "usb"}
Ended == {"none", "ended"}

TypeOK ==
  /\ SubTypeOK /\ setup \in Setups
  /\ sent = SubSeq(setup.packets, 1, Len(sent)) /\ lost \subseteq 1 .. Len(sent)
  /\ broken \in BOOLEAN /\ peer \in {"open", "closed"} /\ faults \in 0 .. setup.faults
  /\ \A i \in 1 .. Len(line) : line[i] \in Seq(Nat) \ {<<>>}
  /\ socketOpen \in BOOLEAN /\ closeEvent \in BOOLEAN
  /\ reader \in {"check", "read", "append"} \cup Ended
  /\ (chunk # <<>>) = (reader = "append")
  /\ listener \in {"check", "wait", "batch"} \cup Ended
  /\ (found # <<>> \/ count > 0) => listener = "batch" \/ (listener = "ended" /\ broken)
  /\ count \in 0 .. Len(packets)
  /\ receiver.out = <<>> /\ (receiver.length = -1 \/ Len(receiver.buffer) < receiver.length)
  /\ \A i \in 1 .. Len(heard) : heard[i] \in Seq(Octet)
  /\ Len(heard) = Len(fed)
  /\ program \in {"new", "open", "finalizing", "joining", "closed", "left"}

Init ==
  /\ SubInit /\ setup \in Setups
  /\ maxsize = setup.maxsize /\ consumers = setup.consumers
  /\ sent = <<>> /\ lost = {} /\ broken = FALSE
  /\ line = <<>> /\ peer = "open" /\ faults = setup.faults
  /\ socketOpen = FALSE
  /\ reader = "none" /\ chunk = <<>> /\ packets = <<>> /\ receiver = Empty
  /\ listener = "none" /\ count = 0 /\ found = <<>> /\ heard = <<>>
  /\ closeEvent = FALSE /\ program = "new"

-----------------------------------------------------------------------------
(* External: the slave sends its next frames, and what happens to them.    *)
Octets_(n) == Framed(setup.format, n % Octets, setup.packets[n])
Singly(octets) == [i \in 1 .. Len(octets) |-> <<octets[i]>>]
(* A DTO with an identifier of its own on CAN has no PID.                  *)
Message(p) ==
  IF p[1] < Len(setup.daqIds) THEN OnBus(setup.daqIds[p[1] + 1]) \o Tail(p)
                              ELSE OnBus(setup.slaveId) \o p
(* A datagram that is too long is cut.                                     *)
Cut(datagram) ==
  SubSeq(datagram, 1, IF Len(datagram) > MaxDatagram THEN MaxDatagram ELSE Len(datagram))
PiecesOf(n) ==
  CASE Stream -> Singly(Octets_(n))
    [] kind = "udp" -> <<Cut(Octets_(n))>>
    [] kind = "can" -> <<Message(setup.packets[n])>>
Sends(m) ==
  /\ program # "new" /\ peer = "open"
  /\ Len(sent) + m <= Len(setup.packets)
  /\ sent' = SubSeq(setup.packets, 1, Len(sent) + m)
  /\ UNCHANGED <<peer, subVars, readerVars, receiver, listenerVars, programVars>>
Fault == faults > 0 /\ faults' = faults - 1

(* A datagram that is cut, or a frame that is longer than the buffer of    *)
(* SxiReceiver, breaks the stream.                                         *)
TooLong(octets) ==
  (kind = "udp" /\ Len(octets) > MaxDatagram) \/ (kind = "sxi" /\ Len(octets) > SxiBuffer)
Send ==
  /\ Sends(1) /\ line' = line \o PiecesOf(Len(sent) + 1)
  /\ broken' = (broken \/ TooLong(Octets_(Len(sent) + 1)))
  /\ UNCHANGED <<lost, faults>>
(* Two frames in a datagram.                                               *)
SendTogether ==
  /\ kind = "udp" /\ Sends(2)
  /\ LET datagram == Octets_(Len(sent) + 1) \o Octets_(Len(sent) + 2) IN
       /\ line' = Append(line, Cut(datagram))
       /\ broken' = (broken \/ TooLong(datagram))
  /\ UNCHANGED <<lost, faults>>
SendLost ==
  /\ kind = "udp" /\ Sends(1) /\ Fault
  /\ lost' = lost \cup {Len(sent) + 1}
  /\ UNCHANGED <<line, broken>>
(* An octet is wrong.  A checksum finds that, and only that frame is lost, *)
(* unless the octet was part of the length or the frame is too long.       *)
Altered(octets, i, o) == [octets EXCEPT ![i] = o]
SendAltered ==
  /\ kind = "sxi" /\ Sends(1) /\ Fault
  /\ \E i \in 1 .. Len(Octets_(Len(sent) + 1)), o \in Octet :
       /\ o # Octets_(Len(sent) + 1)[i]
       /\ line' = line \o Singly(Altered(Octets_(Len(sent) + 1), i, o))
       /\ IF \/ i <= setup.format.len
             \/ setup.format.tail = 0 /\ i > HeaderSize(setup.format)
             \/ TooLong(Octets_(Len(sent) + 1))
            THEN broken' = TRUE /\ UNCHANGED lost
          ELSE IF setup.format.tail = 0 THEN UNCHANGED <<broken, lost>>
            ELSE lost' = lost \cup {Len(sent) + 1} /\ UNCHANGED broken
(* On a CAN bus there are messages of others, and messages without data.   *)
SendForeign ==
  /\ kind = "can" /\ program # "new" /\ Fault
  /\ \E bus \in BusIds :
       IF bus \in {OnBus(raw) : raw \in {setup.slaveId} \cup
                                       {setup.daqIds[i] : i \in DOMAIN setup.daqIds}}
         THEN line' = Append(line, bus)
         ELSE line' = Append(line, bus \o <<0>>)
  /\ UNCHANGED <<sent, lost, broken, peer, subVars, readerVars, receiver, listenerVars,
                 programVars>>
PeerCloses ==
  /\ kind = "tcp" /\ peer = "open" /\ program = "open" /\ Fault
  /\ peer' = "closed"
  /\ UNCHANGED <<sent, lost, broken, line, subVars, readerVars, receiver, listenerVars,
                 programVars>>
Slave == Send \/ SendTogether \/ SendLost \/ SendAltered \/ SendForeign \/ PeerCloses

-----------------------------------------------------------------------------
(* The reading thread: Eth._packet_listen, SxI._frame_listen,              *)
(* Usb._packet_listen.                                                     *)
Stops == closeEvent \/ (Ethernet /\ ~socketOpen)
LockFree == ~Ethernet \/ listener # "batch"     \* _packets_condition

ReaderCheck ==
  /\ reader = "check"
  /\ reader' = IF Stops THEN "ended" ELSE "read"
  /\ UNCHANGED <<slaveVars, chunk, packets, receiver, listenerVars, programVars, subVars>>
ReaderRead ==
  /\ reader = "read" /\ line # <<>> /\ socketOpen
  /\ \E n \in {k \in ReadSizes \cup {Len(line)} : k <= Len(line)} :
       /\ Stream \/ n = 1
       /\ chunk' = FlattenSeq(SubSeq(line, 1, n))
       /\ line' = SubSeq(line, n + 1, Len(line))
  /\ reader' = "append"
  /\ UNCHANGED <<sent, lost, broken, peer, faults, packets, receiver, listenerVars, programVars,
                 subVars>>
ReaderTimeout ==
  /\ reader = "read" /\ (line = <<>> \/ ~socketOpen)
  /\ reader' = "check"
  /\ socketOpen' = (socketOpen /\ peer = "open")
  /\ UNCHANGED <<slaveVars, chunk, packets, receiver, listenerVars, setup, closeEvent, program,
                 subVars>>
ReaderAppend ==
  /\ reader = "append" /\ LockFree
  /\ IF kind = "sxi"
       THEN LET r == FedTo(kind, setup.format, receiver, chunk) IN
              /\ packets' = packets \o r.out /\ receiver' = [r EXCEPT !.out = <<>>]
       ELSE packets' = Append(packets, chunk) /\ UNCHANGED receiver
  /\ reader' = "check" /\ chunk' = <<>>
  /\ UNCHANGED <<slaveVars, listenerVars, programVars, subVars>>
Reader == ReaderCheck \/ ReaderRead \/ ReaderTimeout \/ ReaderAppend

-----------------------------------------------------------------------------
(* The listener: listen() of each transport.                               *)
ListenerCheck ==
  /\ listener = "check"
  /\ listener' = IF Stops THEN "ended" ELSE "wait"
  /\ UNCHANGED <<slaveVars, readerVars, receiver, count, found, heard, programVars, subVars>>
(* Eth.listen stays in its inner loop, the others go round.                *)
ListenerTimeout ==
  /\ listener = "wait"
  /\ IF kind = "can" THEN line = <<>> \/ ~socketOpen ELSE packets = <<>>
  /\ listener' = IF ~Ethernet THEN "check" ELSE IF Stops THEN "ended" ELSE "wait"
  /\ UNCHANGED <<slaveVars, readerVars, receiver, count, found, heard, programVars, subVars>>
AllButOne(n) == n - 1                \* Mutant
OneMore(n) == n + 1                  \* Mutant
All(n) == n
ListenerBatch ==
  /\ listener = "wait" /\ kind # "can" /\ packets # <<>>
  /\ listener' = "batch" /\ count' = IF kind = "sxi" THEN 1 ELSE All(Len(packets))
  /\ UNCHANGED <<slaveVars, readerVars, receiver, found, heard, programVars, subVars>>
ListenerDecode ==
  /\ listener = "batch" /\ found = <<>> /\ count > 0 /\ publishing = {}
  /\ count' = count - 1 /\ packets' = Tail(packets)
  /\ IF kind = "sxi" THEN found' = <<Head(packets)>> /\ UNCHANGED receiver
     ELSE LET r == FedTo(kind, setup.format, receiver, Head(packets)) IN
            found' = r.out /\ receiver' = [r EXCEPT !.out = <<>>]
  /\ UNCHANGED <<slaveVars, reader, chunk, listener, heard, programVars, subVars>>

(* Can.read, which drops messages without data, and its filter; a DTO gets *)
(* the number of its identifier as PID.                                    *)
Accepts(m) == Len(m) > 2 /\ Accepted(FiltersOf(setup.slaveId, setup.daqIds), m)
PacketOf(m) ==
  LET pids == PidsOf(setup.daqIds, make_identifier(m).raw)
      data == SubSeq(m, 3, Len(m))
  IN  IF pids = {} THEN data ELSE <<(CHOOSE i \in pids : TRUE) - 1>> \o data
ListenerReceive ==
  /\ kind = "can" /\ listener = "wait" /\ line # <<>> /\ socketOpen
  /\ line' = Tail(line)
  /\ IF Accepts(Head(line))
       THEN listener' = "batch" /\ found' = <<Frame(0, PacketOf(Head(line)))>>
       ELSE listener' = "check" /\ UNCHANGED found
  /\ UNCHANGED <<sent, lost, broken, peer, faults, readerVars, receiver, count, heard, programVars,
                 subVars>>

(* process_response(): an empty frame is an IndexError that ends the       *)
(* thread.                                                                 *)
Category(pid) ==
  CASE pid >= Octets - 2 -> "RESPONSE" [] pid = Octets - 3 -> "EVENT"
    [] pid = Octets - 4 -> "SERV"      [] OTHER -> "DAQ"
ListenerHand ==
  /\ listener = "batch" /\ found # <<>> /\ publishing = {}
  /\ LET packet == Head(found).packet IN
       IF packet = <<>>
         THEN listener' = "ended" /\ UNCHANGED <<found, heard, subVars>>
         ELSE /\ FeedFrame(Category(packet[1]))
              /\ heard' = Append(heard, packet) /\ found' = Tail(found)
              /\ UNCHANGED listener
  /\ UNCHANGED <<slaveVars, readerVars, receiver, count, programVars>>
ListenerDone ==
  /\ listener = "batch" /\ found = <<>> /\ count = 0 /\ publishing = {}
  /\ listener' = "check"
  /\ UNCHANGED <<slaveVars, readerVars, receiver, count, found, heard, programVars, subVars>>
Listener ==
  \/ ListenerCheck \/ ListenerTimeout \/ ListenerBatch \/ ListenerDecode \/ ListenerReceive
  \/ ListenerHand \/ ListenerDone

-----------------------------------------------------------------------------
(* connect(), and Master.close(): the policy is finalized first, then the  *)
(* transport closed.  It waits for its threads, for two seconds each, and  *)
(* then closes the socket whether they have ended or not; Can.close does   *)
(* not wait at all.                                                        *)
Connect ==
  /\ program = "new"
  /\ program' = "open" /\ socketOpen' = TRUE
  /\ listener' = "check" /\ reader' = IF kind = "can" THEN "none" ELSE "check"
  /\ UNCHANGED <<setup, closeEvent, slaveVars, chunk, packets, receiver, count, found, heard,
                 subVars>>
MasterClose ==
  /\ program = "open" /\ FinalizePolicy
  /\ program' = "finalizing"
  /\ UNCHANGED <<setup, socketOpen, closeEvent, slaveVars, readerVars, receiver, listenerVars>>
FinishListener ==
  /\ program = "finalizing" /\ closing = {}
  /\ program' = "joining" /\ closeEvent' = TRUE
  /\ UNCHANGED <<setup, socketOpen, slaveVars, readerVars, receiver, listenerVars, subVars>>
ReaderJoined == reader \in Ended     \* Mutant
Joined == listener \in Ended /\ reader \in Ended
CloseConnection ==
  /\ program = "joining"
  /\ program' = (IF Joined THEN "closed" ELSE "left") /\ socketOpen' = FALSE
  /\ UNCHANGED <<setup, closeEvent, slaveVars, readerVars, receiver, listenerVars, subVars>>
Program == Connect \/ MasterClose \/ FinishListener \/ CloseConnection

Subscription == (\E s \in setup.subs : SubStep(s)) /\ UNCHANGED listeningVars

Next == Slave \/ Reader \/ Listener \/ Program \/ Subscription
Spec == Init /\ [][Next]_vars

(* Threads that can run do; nobody has to send, subscribe or close.        *)
FairSpec ==
  /\ Spec /\ SubFairness
  /\ WF_vars(Reader) /\ WF_vars(Listener) /\ WF_vars(FinishListener \/ CloseConnection)

-----------------------------------------------------------------------------
(* However the octets are cut into reads, whatever is lost, altered or     *)
(* foreign, and whenever the transport is closed: the listener hands on    *)
(* the frames that were sent, in order, without gaps and none twice.       *)
FrameStreams == INSTANCE FrameStream
IsFrameStream == FrameStreams!Spec

(* After a close() that has seen both threads end no frame is handed on.   *)
(* One that has left them running, as its joins were given up or, on CAN,  *)
(* there were none, does not promise that; but the listener ends with the  *)
(* round it is in: it never goes back to wait for more.                    *)
QuietClosed ==
  [][/\ program = "closed" => UNCHANGED heard
     /\ program = "left" /\ listener' = "wait" => listener = "wait"]_vars

(* Nobody waits for ever: a frame that arrives is handed on, as long as    *)
(* nobody closes the transport; a lone task in get() of a subscription     *)
(* that was closed is told so; close() returns, and both threads end, also *)
(* those that it has left running.                                         *)
Numbers == UNION {1 .. Len(u.packets) : u \in Setups}
FramesHeard ==
  \A n \in Numbers :
    program = "open" /\ n \in 1 .. Len(sent) \ lost
      ~> \/ n <= Len(sent) /\ \E i \in 1 .. Len(heard) : heard[i] = sent[n]
         \/ broken \/ peer = "closed" \/ program # "open"
CloseReturns ==
  program \in {"finalizing", "joining"} ~> program \in {"closed", "left"} /\ Joined
NobodyStuck == FramesHeard /\ ConsumersEnd /\ CloseReturns
=============================================================================
