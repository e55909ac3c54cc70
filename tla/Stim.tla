-------------------------------- MODULE Stim --------------------------------
(***************************************************************************)
(* The mirror of the device's DAQ lists that the Stim object keeps when    *)
(* stim_support is configured (src/pyxcp/daq_stim/stim.hpp).  The services *)
(* of the master call it after the command was answered, SET_DAQ_LIST_MODE *)
(* before it is sent.  List numbers count from 0 whatever min_daq says.    *)
(***************************************************************************)
EXTENDS Integers, Sequences

NoEntry == [ext |-> 0, address |-> 0, length |-> 0]
EmptyList == [odts |-> <<>>, mode |-> {}]
Copies(n, what) == [k \in 1 .. n |-> what]

\* events: the event channels an earlier getDaqInfo() has told of
NewMirror(events) == [lists |-> <<>>, ptr |-> <<0, 1, 1>>, events |-> events, stimLists |-> {}]

\* validateEntryNumber
ValidList(m, n) == n < Len(m.lists)
ValidOdt(m, n, j) == ValidList(m, n) /\ j <= Len(m.lists[n + 1].odts)
ValidEntry(m, n, j, e) == ValidOdt(m, n, j) /\ e <= Len(m.lists[n + 1].odts[j])

\* setDaqListMode throws for lists and events it does not know; it stores the mode
\* before it looks for the event.
Throws(m, c) ==
  c.cmd = "SET_DAQ_LIST_MODE" /\ (~ValidList(m, c.list) \/ c.event \notin m.events)

\* writeDaq does not look: without a pointer that was accepted it writes to a list
\* or an ODT that is not there.
WritesAstray(m, c) == c.cmd = "WRITE_DAQ" /\ ~ValidEntry(m, m.ptr[1], m.ptr[2], m.ptr[3])

Mirrored(m, c) ==
  CASE c.cmd = "FREE_DAQ" -> [m EXCEPT !.lists = <<>>, !.stimLists = {}]
    [] c.cmd = "ALLOC_DAQ" -> [m EXCEPT !.lists = Copies(c.count, EmptyList)]
    [] c.cmd = "ALLOC_ODT" ->
         IF ValidList(m, c.list) THEN [m EXCEPT !.lists[c.list + 1].odts = Copies(c.count, <<>>)]
         ELSE m
    [] c.cmd = "ALLOC_ODT_ENTRY" ->
         IF ValidOdt(m, c.list, c.odt)
         THEN [m EXCEPT !.lists[c.list + 1].odts[c.odt] = Copies(c.count, NoEntry)]
         ELSE m
    [] c.cmd = "SET_DAQ_PTR" ->
         IF ValidEntry(m, c.list, c.odt, c.entry)
         THEN [m EXCEPT !.ptr = <<c.list, c.odt, c.entry>>] ELSE m
    [] c.cmd = "WRITE_DAQ" ->   \* the pointer stays where it is
         [m EXCEPT !.lists[m.ptr[1] + 1].odts[m.ptr[2]][m.ptr[3]] = c.entry]
    [] c.cmd = "SET_DAQ_LIST_MODE" ->
         IF ~ValidList(m, c.list) THEN m
         ELSE [m EXCEPT !.lists[c.list + 1].mode = c.mode,
                        !.stimLists = IF c.event \in m.events /\ "stim" \in c.mode
                                      THEN @ \cup {c.list} ELSE @]
    [] c.cmd = "START_STOP_DAQ_LIST" ->
         IF ValidList(m, c.list)
         THEN [m EXCEPT !.lists[c.list + 1].mode = @ \cup {"selected"}] ELSE m
=============================================================================
