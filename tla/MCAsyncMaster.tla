--------------------------- MODULE MCAsyncMaster ---------------------------
(* AsyncMaster on small instances.                                         *)
EXTENDS AsyncMaster

CONSTANTS a, b, k1, k2, m1, m2

SomeCalls == {a, b, k1, k2}
TwoCalls == {a, b}
TwoClosers == {k1, k2}
NoClosers == {}
TwoMasters == {m1, m2}

(* All calls through the AsyncMaster; or by a thread of its own.           *)
OneMaster == {[x \in SomeCalls |-> m1], [x \in SomeCalls |-> m2]}
(* Two threads, each with a Master of its own.                             *)
OwnMasters == {[x \in TwoCalls |-> IF x = a THEN m1 ELSE m2]}
=============================================================================
