------------------------------ MODULE Framing ------------------------------
(***************************************************************************)
(* Frames as octets on a line: the headers and tails XcpFraming            *)
(* (src/pyxcp/cpp_ext/framing.hpp) puts around a packet, and the receivers *)
(* that find the packets again in whatever pieces the octets come:         *)
(* EthReceiver (eth_framing.hpp), SxiReceiver (sxi_framing.hpp) and the    *)
(* loop of Usb.listen (src/pyxcp/transport/usb_transport.py).              *)
(*                                                                         *)
(* A receiver is a record; feeding it yields the receiver afterwards, with *)
(* the frames it has found in "out".                                       *)
(***************************************************************************)
EXTENDS Integers, Sequences, SequencesExt

CONSTANTS
  Octets,         \* 256, the values of an octet
  SxiBuffer       \* 1024, the octets SxiReceiver can hold

ASSUME FramingAssumption == Octets \in Nat /\ Octets >= 5 /\ SxiBuffer \in Nat \ {0}

Octet == 0 .. Octets - 1
(* A format: the widths of length, counter, fill and checksum in octets.   *)
Format(len, ctr, fill, tail) == [len |-> len, ctr |-> ctr, fill |-> fill, tail |-> tail]
HeaderFormats ==
  [HEADER_LEN_BYTE |-> <<1, 0, 0>>, HEADER_LEN_CTR_BYTE |-> <<1, 1, 0>>,
   HEADER_LEN_FILL_BYTE |-> <<1, 0, 1>>, HEADER_LEN_WORD |-> <<2, 0, 0>>,
   HEADER_LEN_CTR_WORD |-> <<2, 2, 0>>, HEADER_LEN_FILL_WORD |-> <<2, 0, 2>>]
FormatOf(header, tail) ==
  LET h == HeaderFormats[header] IN Format(h[1], h[2], h[3], tail)
EthFormat == Format(2, 2, 0, 0)
HeaderSize(f) == f.len + f.ctr + f.fill

LittleEndian(n, width) ==
  CASE width = 0 -> <<>>
    [] width = 1 -> <<n % Octets>>
    [] width = 2 -> <<n % Octets, (n \div Octets) % Octets>>
Zeros(n) == [i \in 1 .. n |-> 0]
(* The number in "width" octets that start at position i.                  *)
Number(octets, i, width) ==
  CASE width = 0 -> 0
    [] width = 1 -> octets[i]
    [] width = 2 -> octets[i] + Octets * octets[i + 1]

(* Checksums: octets, or words of a sequence of even length.               *)
Modulus(width) == IF width = 1 THEN Octets ELSE Octets * Octets
Checksum(octets, tail) ==
  LET sum[i \in 0 .. Len(octets) \div tail] ==
        IF i = 0 THEN 0
        ELSE (sum[i - 1] + Number(octets, tail * (i - 1) + 1, tail)) % Modulus(tail)
  IN  sum[Len(octets) \div tail]
(* What the length can be at most.                                         *)
Longest(f) == Modulus(f.len) - 1
WordFill(f, n) == IF f.tail = 2 THEN (HeaderSize(f) + n) % 2 ELSE 0

(* prepare_request().                                                      *)
Framed(f, counter, packet) ==
  LET body == LittleEndian(Len(packet), f.len) \o LittleEndian(counter, f.ctr) \o Zeros(f.fill)
                \o packet \o Zeros(WordFill(f, Len(packet)))
  IN  IF f.tail = 0 THEN body ELSE body \o LittleEndian(Checksum(body, f.tail), f.tail)

Frame(counter, packet) == [counter |-> counter, packet |-> packet]
Empty == [buffer |-> <<>>, length |-> -1, counter |-> 0, out |-> <<>>]
Emits(r, frame) == [Empty EXCEPT !.out = Append(r.out, frame)]

-----------------------------------------------------------------------------
(* EthReceiver: "length" is -1 until the header is complete; a packet of   *)
(* length zero is skipped.                                                 *)
EthOctet(r, octet) ==
  LET buffer == Append(r.buffer, octet)
  IN  IF r.length = -1
        THEN IF Len(buffer) < 4 THEN [r EXCEPT !.buffer = buffer]
             ELSE IF Number(buffer, 1, 2) = 0 THEN [Empty EXCEPT !.out = r.out]
             ELSE [r EXCEPT !.buffer = <<>>, !.length = Number(buffer, 1, 2),
                            !.counter = Number(buffer, 3, 2)]
        ELSE IF Len(buffer) < r.length THEN [r EXCEPT !.buffer = buffer]
             ELSE Emits(r, Frame(r.counter, buffer))

(* SxiReceiver: the buffer has the whole frame, header and tail.           *)
SxiLength(f, buffer) == Number(buffer, 1, f.len)
SxiSize(f, n) == HeaderSize(f) + n + WordFill(f, n) + f.tail
SxiSumIgnored(f, buffer) == TRUE     \* Mutant
SxiSum(f, buffer) ==
  f.tail = 0 \/ LET n == Len(buffer) - f.tail
                IN  Number(buffer, n + 1, f.tail) = Checksum(SubSeq(buffer, 1, n), f.tail)
SxiOctet(f, r, octet) ==
  LET buffer == Append(r.buffer, octet)
      n == SxiLength(f, buffer)
  IN  IF Len(r.buffer) >= SxiBuffer THEN [Empty EXCEPT !.out = r.out]
      ELSE IF Len(buffer) < HeaderSize(f) \/ Len(buffer) < SxiSize(f, n)
        THEN [r EXCEPT !.buffer = buffer]
      ELSE IF SxiSum(f, buffer)
        THEN Emits(r, Frame(Number(buffer, f.len + 1, f.ctr),
                            SubSeq(buffer, HeaderSize(f) + 1, HeaderSize(f) + n)))
        ELSE [Empty EXCEPT !.out = r.out]

(* Usb.listen: whole headers and whole packets are taken off the front of  *)
(* the data; unpack_header() reads the counter.  Its offset has 16 bits:   *)
(* that a read is no longer than 65535 octets is an assumption.            *)
UsbOctet(f, r, octet) ==
  LET buffer == Append(r.buffer, octet)
      length == Number(buffer, 1, f.len)
      counter == Number(buffer, f.len + 1, f.ctr)
  IN  IF r.length = -1
        THEN IF Len(buffer) < HeaderSize(f) THEN [r EXCEPT !.buffer = buffer]
             ELSE IF length = 0 THEN Emits(r, Frame(counter, <<>>))
             ELSE [r EXCEPT !.buffer = <<>>, !.length = length, !.counter = counter]
        ELSE IF Len(buffer) < r.length THEN [r EXCEPT !.buffer = buffer]
             ELSE Emits(r, Frame(r.counter, buffer))

(* Octets fed one after the other; the frames found before are dropped.    *)
(* (The set around each state has TLC evaluate it once.)                   *)
OctetTo(kind, f, r, octet) ==
  CASE kind = "sxi" -> SxiOctet(f, r, octet)
    [] kind = "usb" -> UsbOctet(f, r, octet)
    [] OTHER -> EthOctet(r, octet)
FedTo(kind, f, r, octets) ==
  LET after[i \in 0 .. Len(octets)] ==
        IF i = 0 THEN [r EXCEPT !.out = <<>>]
        ELSE CHOOSE next \in {OctetTo(kind, f, before, octets[i]) : before \in {after[i - 1]}} : TRUE
  IN  after[Len(octets)]
=============================================================================
