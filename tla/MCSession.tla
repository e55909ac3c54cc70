----------------------------- MODULE MCSession -----------------------------
(* Slaves and scripts for the model checking of Session.                   *)
EXTENDS Session

ASSUME Layouts == LayoutsFit

Cells == 0 .. 8
BothTransports == {"can", "eth"}

Device == [order |-> "INTEL", bytes |-> 1, maxCto |-> 4, slaveBlock |-> FALSE,
           masterBlock |-> TRUE, pgmBlock |-> TRUE, maxBs |-> 3, info |-> TRUE,
           supports |-> {"daq", "pgm"}, protects |-> {"daq", "pgm"}, seed |-> 3]
Blocks1 == [Device EXCEPT !.slaveBlock = TRUE, !.maxBs = 2, !.seed = 2]
Motorola == [Device EXCEPT !.order = "MOTOROLA", !.masterBlock = FALSE, !.pgmBlock = FALSE,
                           !.maxCto = 5, !.protects = {"pgm"}, !.seed = 5]
Words == [Device EXCEPT !.order = "MOTOROLA", !.bytes = 2, !.slaveBlock = TRUE, !.info = FALSE,
                        !.seed = 4]
AllDevices == {Device, Blocks1, Motorola, Words}
OneDevice == {Motorola}

C(op) == [op |-> op, at |-> 0, n |-> 0, limit |-> 0, names |-> <<>>, key |-> "function"]
T(op, a, n) == [C(op) EXCEPT !.at = a, !.n = n]
Unlock(ns, key) == [C("cond_unlock") EXCEPT !.names = ns, !.key = key]
Begin_ == <<C("connect"), C("getCommModeInfo")>>

Pushes == {Begin_ \o <<T("push", a, n)>> : a \in {0, 1}, n \in 1 .. 8}
Flashes == {<<C("connect"), C("programStart"), T("flash_program", 0, n)>> : n \in 5 .. 9}
Fetches == {<<C("connect"), T("setMta", a, 0), [T("fetch", a, n) EXCEPT !.limit = l]>> :
              a \in {0, 1}, n \in {0, 1, 3, 5, 8}, l \in {0, 1, 2}}
Verifies == {<<C("connect"), T("verify", 1, n)>> : n \in {2, 7}}
Both == {Begin_ \o <<T("push", 2, 6), T("setMta", 1, 0), T("fetch", 1, 6)>>,
         <<C("connect"), T("push", 0, 2)>>, <<C("connect"), T("flash_program", 0, 2)>>}
Unlocks ==
  {<<C("connect")>> \o s \o <<Unlock(ns, "function")>> :
     s \in {<<>>, <<C("getStatus")>>}, ns \in {<<>>, <<"pgm">>, <<"daq", "dbg", "fuel">>}}
    \cup {<<C("connect"), Unlock(<<>>, key)>> : key \in {"none", "dll fails", "dll"}}
    \cup {<<C("connect"), Unlock(<<"daq", "pgm", "daq">>, "function")>>,
          <<C("connect"), C("getStatus"), C("exchange"), C("connect"), Unlock(<<>>, "function")>>}
    \cup {<<C("connect"), Unlock(<<>>, "function"), C("disconnect"), C("connect"), C("getStatus"),
            Unlock(<<>>, "function")>>,
          <<C("connect"), C("getStatus"), C("exchange"), C("connect"), C("getStatus"),
            Unlock(<<>>, "function")>>}
Reconnects ==
  {<<C("connect"), C("service"), C("exchange"), C("connect"), C("service")>>,
   Begin_ \o <<C("exchange")>> \o Begin_ \o <<T("push", 0, 5)>>}
AllScripts == Pushes \cup Flashes \cup Fetches \cup Verifies \cup Both \cup Unlocks \cup Reconnects
PushScripts == Pushes
=============================================================================
