---------------------------- MODULE FrameStream ----------------------------
(***************************************************************************)
(* What a transport layer of pyxcp promises of the frames a slave sends:   *)
(* they are handed to process_response() whole, in order and none twice,   *)
(* and none is skipped unless it was lost on the way.  When an octet that  *)
(* no checksum protects is wrong, or a datagram is cut, the stream is      *)
(* broken, and anything may be handed on.                                  *)
(***************************************************************************)
EXTENDS Naturals, Sequences, SequencesExt

VARIABLES
  sent,      \* the frames sent, all different
  lost,      \* the numbers of those that do not arrive
  broken,    \* the receiver has lost the stream
  heard      \* the frames handed on

(* More frames are sent; some of them may be lost, or break the stream.    *)
Send ==
  /\ IsPrefix(sent, sent')
  /\ lost \subseteq lost' /\ lost' \subseteq lost \cup Len(sent) + 1 .. Len(sent')
  /\ broken => broken'
  /\ UNCHANGED heard
Heard(n) == \E i \in 1 .. Len(heard) : heard[i] = sent[n]
(* The first frame that is neither lost nor heard is handed on.           *)
Hear ==
  /\ \E n \in 1 .. Len(sent) :
       /\ n \notin lost /\ ~Heard(n)
       /\ \A k \in 1 .. n - 1 : k \in lost \/ Heard(k)
       /\ heard' = Append(heard, sent[n])
  /\ UNCHANGED <<sent, lost, broken>>
Anything == broken /\ broken'

Init == sent = <<>> /\ lost = {} /\ broken = FALSE /\ heard = <<>>
Next == Send \/ Hear \/ Anything
Spec == Init /\ [][Next]_<<sent, lost, broken, heard>>
=============================================================================
