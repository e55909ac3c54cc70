----------------------------- MODULE DaqPacking -----------------------------
(***************************************************************************)
(* How the measurements of a DAQ list become ODTs                          *)
(* (src/pyxcp/daq_stim/optimize, src/pyxcp/cpp_ext/{mcobject,bin,daqlist}. *)
(* hpp): neighbouring measurements are merged into one ODT entry, the      *)
(* entries are packed first-fit-decreasing into ODTs, and the list keeps   *)
(* the flattened ODTs by which the unfolder takes the DTOs apart.          *)
(*                                                                         *)
(* An octet of the device's memory is a pair of extension and address.     *)
(***************************************************************************)
EXTENDS Integers, Sequences, SequencesExt

\* The members of a set, each before those it precedes
Ordered(S, Precedes(_, _)) ==
  CHOOSE s \in SetToSeqs(S) : \A i, j \in DOMAIN s : i < j => Precedes(s[i], s[j])

\* McObject: a named, typed object; one that stands for several has components.
McObject(name, ext, address, length) ==
  [name |-> name, ext |-> ext, address |-> address, length |-> length, components |-> <<>>]

OctetsOf(o) == [k \in 1 .. o.length |-> <<o.ext, o.address + k - 1>>]

EndOf(o) == o.address + o.length

Before(a, b) == a.ext < b.ext \/ (a.ext = b.ext /\ a.address < b.address)

SumOfLengths(objects) == Len(FlattenSeq([k \in DOMAIN objects |-> OctetsOf(objects[k])]))

(***************************************************************************)
(* make_continuous_blocks                                                  *)
(***************************************************************************)

\* Of the measurements at one address the first of the longest ones is kept.
Kept(chunks) ==
  {i \in DOMAIN chunks :
     \A j \in DOMAIN chunks \ {i} :
       (chunks[j].ext = chunks[i].ext /\ chunks[j].address = chunks[i].address) =>
         \/ chunks[j].length < chunks[i].length
         \/ (chunks[j].length = chunks[i].length /\ i < j)}

Sections(chunks) == Ordered({chunks[i] : i \in Kept(chunks)}, Before)

NewSection(o) == [McObject("", o.ext, o.address, o.length) EXCEPT !.components = <<o>>]

Extended(section, o) ==
  [section EXCEPT !.length = EndOf(o) - section.address, !.components = Append(@, o)]

\* One turn of the loop: o is dropped if it begins before the last octet of the
\* last section, else it extends that section as far as the bound (0: none) allows.
NextBlock(sections, o, bound) ==
  LET last == Last(sections)
      neighbours == sections # <<>> /\ o.ext = last.ext /\ o.address <= EndOf(last)
  IN IF neighbours /\ EndOf(last) - 1 > o.address THEN sections
     ELSE IF neighbours /\ (bound = 0 \/ EndOf(o) - last.address <= bound)
     THEN [sections EXCEPT ![Len(sections)] = Extended(@, o)]
     ELSE Append(sections, NewSection(o))

MakeContinuousBlocks(chunks, bound) ==
  LET objects == Sections(chunks)
      blocks[k \in 0 .. Len(objects)] ==
        IF k = 0 THEN <<>> ELSE NextBlock(blocks[k - 1], objects[k], bound)
  IN blocks[Len(objects)]

(***************************************************************************)
(* first_fit_decreasing                                                    *)
(***************************************************************************)
Bin(size, entries) == [size |-> size, residual |-> size, entries |-> entries]

ByDecreasingLength(items) ==
  LET longer(i, j) == \/ items[i].length > items[j].length
                      \/ (items[i].length = items[j].length /\ i < j)
  IN [k \in DOMAIN items |-> items[Ordered(DOMAIN items, longer)[k]]]

Roomy(bins, item) == {b \in DOMAIN bins : bins[b].residual >= item.length}

PutInto(bins, b, item) ==
  [bins EXCEPT ![b].entries = Append(@, item), ![b].residual = @ - item.length]

NextFit(bins, item, size) ==
  IF Roomy(bins, item) # {}
  THEN PutInto(bins, CHOOSE b \in Roomy(bins, item) : \A c \in Roomy(bins, item) : b <= c, item)
  ELSE PutInto(Append(bins, Bin(size, <<>>)), Len(bins) + 1, item)

\* ValueError, as soon as the first item, the longest, does not fit
TooLarge(items, size) == \E i \in DOMAIN items : items[i].length > size

\* The first bin has a size of its own and may stay empty.
FirstFitDecreasing(items, size, initial) ==
  LET sorted == ByDecreasingLength(items)
      bins[k \in 0 .. Len(sorted)] ==
        IF k = 0 THEN <<Bin(initial, <<>>)>> ELSE NextFit(bins[k - 1], sorted[k], size)
  IN bins[Len(sorted)]

(***************************************************************************)
(* DaqListBase::set_measurements_opt                                       *)
(***************************************************************************)
Components(o) == IF o.components = <<>> THEN <<o>> ELSE o.components

FlattenOdt(bin) == FlattenSeq([e \in DOMAIN bin.entries |-> Components(bin.entries[e])])

FlattenOdts(bins) == [b \in DOMAIN bins |-> FlattenOdt(bins[b])]

Headers(bins) ==
  LET all == FlattenSeq(FlattenOdts(bins))
  IN [k \in DOMAIN all |-> all[k].name]

\* Odt and PredefinedDaqList: ODTs the device has, with types but no addresses
PredefinedBins(odts) ==
  [b \in DOMAIN odts |-> Bin(SumOfLengths(odts[b]), odts[b])]
=============================================================================
