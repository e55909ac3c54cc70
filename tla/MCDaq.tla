------------------------------- MODULE MCDaq -------------------------------
(* Configurations for the model checking of Daq: many lists of up to three *)
(* measurements that are sampled once (Packed), and a few that are sampled *)
(* with losses, duplicates and a second setup (Measured).                  *)
EXTENDS Daq

Device == [static |-> FALSE, idSize |-> 1, minDaq |-> 0, maxDto |-> 8, maxEntry |-> 4,
           tsSize |-> 0, tsFixed |-> FALSE, scale |-> 1000, pidOff |-> FALSE,
           interleaved |-> FALSE, incomplete |-> FALSE]
Devices ==
  {[Device EXCEPT !.maxDto = 5, !.minDaq = 1],
   [Device EXCEPT !.idSize = 2, !.maxDto = 6, !.tsSize = 1],
   [Device EXCEPT !.idSize = 2, !.maxDto = 4, !.tsSize = 2, !.tsFixed = TRUE, !.minDaq = 2],
   [Device EXCEPT !.maxDto = 4, !.pidOff = TRUE, !.interleaved = TRUE],
   [Device EXCEPT !.maxDto = 5, !.interleaved = TRUE]}

List(ms, event, ts) ==
  [predefined |-> FALSE, ts |-> ts, stim |-> FALSE, event |-> event, odts |-> <<>>,
   measurements |-> [k \in DOMAIN ms |-> McObject(k, ms[k][1], ms[k][2], ms[k][3])]]
Predefined(odts, event) ==
  [predefined |-> TRUE, ts |-> TRUE, stim |-> FALSE, event |-> event, measurements |-> <<>>,
   odts |-> [j \in DOMAIN odts |->
               [k \in DOMAIN odts[j] |-> McObject(10 * j + k, 0, odts[j][k][1], odts[j][k][2])]]]

Places ==
  {<<0, 0, 1>>, <<0, 0, 2>>, <<0, 1, 1>>, <<0, 1, 2>>, <<0, 3, 1>>, <<0, 3, 4>>, <<1, 1, 2>>}
UpTo3 == {<<a>> : a \in Places} \cup {<<a, b>> : a, b \in Places}
           \cup {<<a, b, c>> : a, b, c \in Places}
Packed ==
  {[props |-> d, lists |-> <<List(ms, 0, TRUE)>>, pidOff |-> TRUE, stimSupport |-> FALSE,
    knownEvents |-> {},
    events |-> 1, faults |-> 0, rounds |-> 1] : d \in Devices, ms \in UpTo3}

Two == <<List(<<<<0, 0, 1>>, <<0, 1, 1>>, <<1, 0, 2>>, <<0, 8, 1>>>>, 0, TRUE),
         List(<<<<0, 1, 2>>>>, 1, FALSE)>>
Three == <<List(<<<<0, 0, 2>>, <<0, 4, 2>>, <<0, 8, 2>>>>, 0, TRUE)>>
Stimulated == <<[Two[1] EXCEPT !.stim = TRUE], Two[2]>>
Gap == <<List(<<<<0, 0, 1>>, <<0, 2, 1>>>>, 0, TRUE)>>
Factory ==
  <<Predefined(<<<<<<0, 1>>>>, <<<<4, 1>>, <<6, 2>>>>>>, 0), Predefined(<<<<<<9, 1>>>>>>, 0)>>
Small == [Device EXCEPT !.maxDto = 5, !.maxEntry = 2, !.tsSize = 1]
Run(d, ls) ==
  [props |-> d, lists |-> ls, pidOff |-> FALSE, stimSupport |-> FALSE, knownEvents |-> {0, 1},
   events |-> 3, faults |-> 2, rounds |-> 1]
Measured ==
  {Run(Small, Two), Run([Small EXCEPT !.idSize = 2], Stimulated),
   Run([Small EXCEPT !.idSize = 2, !.tsFixed = TRUE, !.scale = 10000], Three),
   Run([Small EXCEPT !.tsFixed = TRUE, !.scale = 100], Three),
   Run([Small EXCEPT !.maxDto = 6, !.interleaved = TRUE], Gap),
   Run([Small EXCEPT !.idSize = 2, !.maxDto = 6, !.interleaved = TRUE], Two),
   Run([Small EXCEPT !.idSize = 3, !.maxDto = 7, !.interleaved = TRUE], Two),
   Run([Small EXCEPT !.idSize = 4, !.maxDto = 8, !.interleaved = TRUE], Two),
   Run([Small EXCEPT !.idSize = 4, !.maxDto = 6, !.minDaq = 1], Two),
   Run([Small EXCEPT !.minDaq = 1], Two),
   Run([Small EXCEPT !.static = TRUE, !.idSize = 2, !.maxDto = 6], Factory),
   [Run([Small EXCEPT !.maxDto = 2, !.tsSize = 0, !.pidOff = TRUE], Gap) EXCEPT !.pidOff = TRUE],
   [Run(Small, Gap) EXCEPT !.rounds = 2, !.faults = 1]}
Hopeless ==
  {Run([Small EXCEPT !.incomplete = TRUE], Two), Run([Small EXCEPT !.static = TRUE], Two),
   Run(Small, <<Factory[1], Two[2]>>), Run(Small, <<List(<<<<0, 0, 4>>>>, 0, TRUE)>>)}
WithStim(c, known) == [c EXCEPT !.stimSupport = TRUE, !.knownEvents = known, !.rounds = 2]
Stims ==
  {WithStim(Run([Small EXCEPT !.idSize = 2], Stimulated), {0, 1}),
   WithStim(Run(Small, Two), {0}), WithStim(Run([Small EXCEPT !.minDaq = 1], Three), {0}),
   WithStim(Run([Small EXCEPT !.minDaq = 1], Two), {0, 1}),
   WithStim(Run([Small EXCEPT !.static = TRUE, !.idSize = 2, !.maxDto = 6], Factory), {0, 1})}
AllConfigurations == Packed \cup Stims \cup Measured \cup Hopeless
=============================================================================
