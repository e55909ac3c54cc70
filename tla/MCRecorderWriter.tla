-------------------------- MODULE MCRecorderWriter --------------------------
(* RecorderWriter with small sizes: a frame with a payload exceeds a chunk *)
(* by itself, frames without one are gathered; incompressible containers   *)
(* fill half of the file after three of them.                              *)
EXTENDS RecorderWriter

ShortAndLong == {0, 3}
=============================================================================
