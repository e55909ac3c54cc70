------------------------------ MODULE FrameLog ------------------------------
(***************************************************************************)
(* What a recorder promises: the frames it is given are numbered 1, 2, ... *)
(* in the order they come; while it is open it records them one by one, in *)
(* that order and none twice; once it is closed the record is final.  A    *)
(* frame may be given to it and not be recorded: then none after it is.    *)
(***************************************************************************)
EXTENDS Naturals, Sequences

VARIABLES accepted,   \* how many frames the recorder was given
          log,        \* the frames it has recorded
          open

vars == <<accepted, log, open>>

TypeOK == accepted \in Nat /\ log \in Seq(Nat) /\ open \in BOOLEAN

Init == accepted = 0 /\ log = <<>> /\ open = TRUE

Accept ==
  /\ accepted' = accepted + 1
  /\ UNCHANGED <<log, open>>

Record ==
  /\ open /\ Len(log) < accepted
  /\ log' = Append(log, Len(log) + 1)
  /\ UNCHANGED <<accepted, open>>

Close ==
  /\ open /\ open' = FALSE
  /\ UNCHANGED <<accepted, log>>

Next == Accept \/ Record \/ Close

Spec == Init /\ [][Next]_vars
=============================================================================
