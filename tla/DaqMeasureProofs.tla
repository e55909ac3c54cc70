-------------------------- MODULE DaqMeasureProofs --------------------------
(***************************************************************************)
(* The measurements of Daq, for every configuration: each value that a     *)
(* policy gets was read from the device's memory where its measurement     *)
(* lies, all of it in one cycle.  First what the packing does to the       *)
(* measurements: the ODTs hold each octet of them once, in order.  Then    *)
(* what the commands of setup() leave in the device, what a DTO carries    *)
(* through losses and repetitions, and what the unfolder makes of it.      *)
(***************************************************************************)
EXTENDS DaqProofs

(***************************************************************************)
(* Sections are made of measurements that lie one behind the other         *)
(***************************************************************************)
(* What an object reads; what several of them read one after another.      *)
Region(o) == o.ext \in Nat /\ o.address \in Nat /\ o.length \in Nat
Octet == Int \X Int \X Int
Readings(objects, s) == FlattenSeq(Pieces([k \in 1 .. Len(objects) |-> Read(objects[k], s)],
                                          Len(objects)))

LEMMA RegionOf ==
  ASSUME NEW o \in Entries
  PROVE  Region(o) /\ o.length >= 1
<1>1. o.ext \in Nat /\ o.address \in Nat /\ o.length \in Nat \ {0}
  <2>1. CASE o \in Objects
    BY <2>1 DEF Objects
  <2>2. CASE o \in Sectioned
    BY <2>2 DEF Sectioned
  <2> QED BY <2>1, <2>2 DEF Entries
<1> QED BY <1>1 DEF Region

LEMMA ReadTyped ==
  ASSUME NEW o, Region(o), NEW s \in Int
  PROVE  /\ Read(o, s) \in Seq(Octet) /\ Len(Read(o, s)) = o.length
         /\ \A k \in 1 .. o.length : Read(o, s)[k] = <<o.ext, o.address + k - 1, s>>
<1> DEFINE n == o.length
           f == [k \in 1 .. n |-> <<o.ext, o.address + k - 1, s>>]
<1>1. n \in Nat /\ o.ext \in Nat /\ o.address \in Nat
  BY DEF Region
<1>2. ASSUME NEW k \in 1 .. n PROVE <<o.ext, o.address + k - 1, s>> \in Octet
  <2> DEFINE a == o.address + k - 1
             e == o.ext
  <2>1. a \in Int /\ e \in Int
    BY <1>1
  <2> HIDE DEF a, e
  <2>2. <<e, a, s>> \in Octet
    BY <2>1 DEF Octet
  <2> QED BY <2>2 DEF a, e
<1>3. f \in [1 .. n -> Octet]
  BY <1>2
<1>4. f \in Seq(Octet) /\ Len(f) = n
  <2> HIDE DEF f, n, Octet
  <2> QED BY <1>1, <1>3
<1>5. Read(o, s) = f
  BY DEF Read
<1> QED BY <1>4, <1>5

LEMMA ReadJoined ==
  ASSUME NEW a, NEW b, NEW c, Region(a), Region(b), Region(c), NEW s \in Int,
         a.ext = b.ext, b.address = EndOf(a),
         c.ext = a.ext, c.address = a.address, c.length = a.length + b.length
  PROVE  Read(a, s) \o Read(b, s) = Read(c, s)
<1> DEFINE x == Read(a, s)
           y == Read(b, s)
           z == Read(c, s)
           m == a.length
           n == b.length
           p == a.address
           e == a.ext
<1>1. m \in Nat /\ n \in Nat /\ p \in Nat
  BY DEF Region
<1>2. x \in Seq(Octet) /\ Len(x) = m /\ \A k \in 1 .. m : x[k] = <<e, p + k - 1, s>>
  BY ReadTyped
<1>3. y \in Seq(Octet) /\ Len(y) = n /\ \A k \in 1 .. n : y[k] = <<e, (p + m) + k - 1, s>>
  BY ReadTyped DEF EndOf
<1>4. z \in Seq(Octet) /\ Len(z) = m + n /\ \A k \in 1 .. m + n : z[k] = <<e, p + k - 1, s>>
  BY ReadTyped
<1> HIDE DEF x, y, z, m, n, p, e, Octet
<1>5. /\ x \o y \in Seq(Octet) /\ Len(x \o y) = m + n
      /\ \A k \in 1 .. m + n : (x \o y)[k] = IF k <= m THEN x[k] ELSE y[k - m]
  <2>1. /\ x \o y \in Seq(Octet) /\ Len(x \o y) = Len(x) + Len(y)
        /\ \A k \in 1 .. Len(x) + Len(y) :
             (x \o y)[k] = IF k <= Len(x) THEN x[k] ELSE y[k - Len(x)]
    BY <1>2, <1>3, ConcatProperties
  <2> QED BY <2>1, <1>2, <1>3
<1>6. ASSUME NEW k \in 1 .. m + n PROVE (x \o y)[k] = z[k]
  <2>1. CASE k <= m
    <3>1. k \in 1 .. m
      BY <1>1, <2>1
    <3> QED BY <1>2, <1>4, <1>5, <2>1, <3>1
  <2>2. CASE ~(k <= m)
    <3>1. k - m \in 1 .. n /\ (p + m) + (k - m) - 1 = p + k - 1
      BY <1>1, <2>2
    <3>2. (x \o y)[k] = y[k - m]
      BY <1>5, <2>2
    <3>3. y[k - m] = <<e, p + k - 1, s>>
      BY <1>3, <3>1
    <3> QED BY <1>4, <3>2, <3>3
  <2> QED BY <2>1, <2>2
<1>7. x \o y = z
  BY <1>4, <1>5, <1>6, SeqEqual
<1> QED BY <1>7 DEF x, y, z

(* A section, or a measurement on its own, reads what its measurements     *)
(* read one after another.                                                 *)
Tiled(o) == \A s \in Int : Readings(Components(o), s) = Read(o, s)

LEMMA ReadingsAppend ==
  ASSUME NEW c \in Seq(Objects), c # <<>>, NEW o \in Objects, NEW s \in Int
  PROVE  Readings(Append(c, o), s) = Readings(c, s) \o Read(o, s)
<1> DEFINE d == Append(c, o)
           n == Len(c)
           f == [k \in 1 .. n |-> Read(c[k], s)]
           g == [k \in 1 .. n + 1 |-> Read(d[k], s)]
<1>1. n \in Nat \ {0} /\ Len(d) = n + 1 /\ d[n + 1] = o /\ \A k \in 1 .. n : d[k] = c[k]
  BY LenProperties, EmptySeq, AppendProperties
<1>2. Readings(d, s) = FlattenSeq(Pieces(g, n + 1)) /\ Readings(c, s) = FlattenSeq(Pieces(f, n))
  BY <1>1 DEF Readings
<1> HIDE DEF d, n
<1>3. Pieces(g, n) = Pieces(f, n)
  BY <1>1 DEF Pieces
<1>4. g[n + 1] = Read(o, s)
  BY <1>1
<1> HIDE DEF f, g
<1>5. FlattenSeq(Pieces(g, n + 1)) = FlattenSeq(Pieces(g, n)) \o g[n + 1]
  BY <1>1, FlattenOneMore
<1>6. Readings(d, s) = Readings(c, s) \o Read(o, s)
  BY <1>2, <1>3, <1>4, <1>5
<1> QED BY <1>6 DEF d

LEMMA ReadingsOne ==
  ASSUME NEW o \in Objects, NEW s \in Int
  PROVE  Readings(<<o>>, s) = Read(o, s)
<1> DEFINE f == [k \in 1 .. 1 |-> Read(o, s)]
<1>1. Len(<<o>>) = 1 /\ \A k \in 1 .. 1 : <<o>>[k] = o
  OBVIOUS
<1>2. Readings(<<o>>, s) = FlattenSeq(Pieces(f, 1))
  BY <1>1 DEF Readings
<1>3. f[1] = Read(o, s)
  OBVIOUS
<1> HIDE DEF f
<1> QED BY <1>2, <1>3, FlattenOne

LEMMA ObjectTiled ==
  ASSUME NEW o \in Objects
  PROVE  Tiled(o)
<1>1. Components(o) = <<o>>
  BY DEF Components, Objects
<1> QED BY <1>1, ReadingsOne DEF Tiled

LEMMA NewSectionTiled ==
  ASSUME NEW o \in Objects
  PROVE  Tiled(NewSection(o)) /\ NewSection(o).ext = o.ext /\ EndOf(NewSection(o)) = EndOf(o)
<1> DEFINE n == NewSection(o)
<1>1. n.ext = o.ext /\ n.address = o.address /\ n.length = o.length /\ n.components = <<o>>
  BY DEF NewSection, McObject
<1> HIDE DEF n
<1>2. Components(n) = <<o>>
  <2>1. <<o>> # <<>>
    OBVIOUS
  <2> QED BY <1>1, <2>1 DEF Components
<1>3. ASSUME NEW s \in Int PROVE Readings(Components(n), s) = Read(n, s)
  <2>1. Read(n, s) = Read(o, s)
    BY <1>1 DEF Read
  <2> QED BY <1>2, <2>1, ReadingsOne
<1>4. Tiled(n) /\ n.ext = o.ext /\ EndOf(n) = EndOf(o)
  BY <1>1, <1>3 DEF Tiled, EndOf
<1> QED BY <1>4 DEF n

LEMMA ExtendedTiled ==
  ASSUME NEW z \in Sectioned, Tiled(z), NEW o \in Objects, o.ext = z.ext, o.address = EndOf(z)
  PROVE  Tiled(Extended(z, o)) /\ Extended(z, o).ext = o.ext /\ EndOf(Extended(z, o)) = EndOf(o)
<1> DEFINE n == Extended(z, o)
           c == z.components
<1>1. n \in Sectioned
  <2>1. EndOf(z) \in Nat
    <3>1. z.address \in Nat /\ z.length \in Nat
      BY RegionOf DEF Entries, Region
    <3> QED BY <3>1 DEF EndOf
  <2>2. EndOf(z) - 1 <= o.address
    BY <2>1
  <2> QED BY <2>2, ExtendedTyped
<1>2. /\ n.ext = z.ext /\ n.address = z.address /\ n.length = EndOf(o) - z.address
      /\ n.components = Append(c, o)
  BY DEF Extended, Sectioned
<1>3. c \in Seq(Objects) /\ c # <<>>
  BY DEF Sectioned
<1>4. Append(c, o) # <<>>
  BY <1>1, <1>2 DEF Sectioned
<1>5. Components(n) = Append(c, o) /\ Components(z) = c
  BY <1>2, <1>3, <1>4 DEF Components
<1>6. Region(z) /\ Region(o) /\ Region(n)
  BY <1>1, RegionOf DEF Entries
<1>7. n.length = z.length + o.length /\ EndOf(n) = EndOf(o)
  <2> DEFINE za == z.address
             zl == z.length
             ol == o.length
  <2>1. za \in Nat /\ zl \in Nat /\ ol \in Nat
    BY <1>6 DEF Region
  <2>2. n.length = ((za + zl) + ol) - za /\ EndOf(n) = za + n.length /\ EndOf(o) = (za + zl) + ol
    BY <1>2 DEF EndOf
  <2> HIDE DEF za, zl, ol, n
  <2>3. n.length = zl + ol /\ EndOf(n) = EndOf(o)
    BY <2>1, <2>2
  <2> QED BY <2>3 DEF zl, ol
<1> HIDE DEF n, c
<1>8. ASSUME NEW s \in Int PROVE Readings(Components(n), s) = Read(n, s)
  <2>1. Readings(Components(n), s) = Readings(c, s) \o Read(o, s)
    BY <1>3, <1>5, ReadingsAppend
  <2>2. Readings(c, s) = Read(z, s)
    BY <1>5 DEF Tiled
  <2>3. Read(z, s) \o Read(o, s) = Read(n, s)
    BY <1>2, <1>6, <1>7, ReadJoined
  <2> QED BY <2>1, <2>2, <2>3
<1>9. Tiled(n) /\ n.ext = o.ext /\ EndOf(n) = EndOf(o)
  BY <1>2, <1>7, <1>8 DEF Tiled
<1> QED BY <1>9 DEF n

(* Where make_continuous_blocks() goes through the measurements, none      *)
(* begins at the last octet of an earlier one.                             *)
Disjoint(objects) ==
  \A x, y \in DOMAIN objects :
    x < y /\ objects[y].ext = objects[x].ext => objects[y].address # EndOf(objects[x]) - 1

(* A section ends where one of the first k measurements ends.              *)
EndsWith(s, objects, k) ==
  \E x \in 1 .. k : objects[x].ext = s.ext /\ EndOf(objects[x]) = EndOf(s)
Made(sections, objects, k) ==
  /\ sections \in Seq(Sectioned)
  /\ \A b \in 1 .. Len(sections) : Tiled(sections[b]) /\ EndsWith(sections[b], objects, k)

LEMMA NextBlockTiled ==
  ASSUME NEW objects \in Seq(Objects), Disjoint(objects), NEW bound, NEW s,
         NEW k \in Nat, k + 1 <= Len(objects), Made(s, objects, k)
  PROVE  Made(NextBlock(s, objects[k + 1], bound), objects, k + 1)
<1> DEFINE o == objects[k + 1]
           z == s[Len(s)]
           neighbours == s # <<>> /\ o.ext = z.ext /\ o.address <= EndOf(z)
           t == NextBlock(s, o, bound)
<1> SUFFICES Made(t, objects, k + 1)
  OBVIOUS
<1>1. t = IF neighbours /\ EndOf(z) - 1 > o.address THEN s
          ELSE IF neighbours /\ (bound = 0 \/ EndOf(o) - z.address <= bound)
          THEN [s EXCEPT ![Len(s)] = Extended(z, o)]
          ELSE Append(s, NewSection(o))
  BY DEF NextBlock, Last
<1>2. /\ Len(objects) \in Nat /\ k + 1 \in DOMAIN objects /\ \A x \in 1 .. k : x \in DOMAIN objects /\ x < k + 1
      /\ o \in Objects /\ s \in Seq(Sectioned)
  BY LenProperties, ElementOfSeq DEF Made
<1>3. t \in Seq(Sectioned)
  BY <1>2, NextBlockTyped
<1>4. Len(s) \in Nat /\ DOMAIN s = 1 .. Len(s)
  BY <1>2, LenProperties
<1>5. \A b \in 1 .. Len(s) : Tiled(s[b]) /\ EndsWith(s[b], objects, k + 1)
  BY DEF Made, EndsWith
<1>6. \A u : u.ext = o.ext /\ EndOf(u) = EndOf(o) => EndsWith(u, objects, k + 1)
  <2>1. k + 1 \in 1 .. k + 1
    OBVIOUS
  <2> QED BY <2>1 DEF EndsWith
<1>7. CASE t = s
  BY <1>3, <1>5, <1>7 DEF Made
<1>8. CASE t = Append(s, NewSection(o))
  <2> DEFINE n == NewSection(o)
  <2>1. Tiled(n) /\ EndsWith(n, objects, k + 1)
    BY <1>2, <1>6, NewSectionTiled
  <2>2. Len(t) = Len(s) + 1 /\ t[Len(s) + 1] = n /\ \A b \in 1 .. Len(s) : t[b] = s[b]
    BY <1>2, <1>8, NewSectionTyped, AppendProperties
  <2> HIDE DEF t, n, o
  <2>3. ASSUME NEW b \in 1 .. Len(t) PROVE Tiled(t[b]) /\ EndsWith(t[b], objects, k + 1)
    <3>1. b \in 1 .. Len(s) \/ b = Len(s) + 1
      BY <1>4, <2>2
    <3> QED BY <1>5, <2>1, <2>2, <3>1
  <2> QED BY <1>3, <2>3 DEF Made
<1>9. CASE /\ neighbours /\ ~(EndOf(z) - 1 > o.address)
           /\ t = [s EXCEPT ![Len(s)] = Extended(z, o)]
  <2> DEFINE n == Extended(z, o)
  <2>1. Len(s) \in 1 .. Len(s) /\ z \in Sectioned
    <3>1. Len(s) # 0
      BY <1>2, <1>9, EmptySeq
    <3>2. Len(s) \in 1 .. Len(s)
      BY <1>4, <3>1
    <3> HIDE DEF Sectioned
    <3> QED BY <1>2, <3>2, ElementOfSeq
  <2>2. Tiled(z)
    BY <2>1 DEF Made
  <2>3. PICK x \in 1 .. k : objects[x].ext = z.ext /\ EndOf(objects[x]) = EndOf(z)
    BY <2>1 DEF Made, EndsWith
  <2>4. o.address = EndOf(z)
    <3> DEFINE a == o.address
               e == EndOf(z)
    <3>1. a \in Nat /\ e \in Nat
      <4>1. Region(o) /\ Region(z)
        BY <1>2, <2>1, RegionOf DEF Entries
      <4>2. a \in Nat
        BY <4>1 DEF Region
      <4>3. z.address \in Nat /\ z.length \in Nat
        BY <4>1 DEF Region
      <4> HIDE DEF z
      <4> QED BY <4>2, <4>3 DEF EndOf
    <3>2. a # e - 1
      BY <1>2, <1>9, <2>3 DEF Disjoint
    <3>3. a <= e /\ ~(e - 1 > a)
      BY <1>9
    <3> HIDE DEF a, e
    <3>4. a = e
      BY <3>1, <3>2, <3>3
    <3> QED BY <3>4 DEF a, e
  <2>5. Tiled(n) /\ EndsWith(n, objects, k + 1)
    <3>1. Tiled(n) /\ n.ext = o.ext /\ EndOf(n) = EndOf(o)
      BY <1>2, <1>9, <2>1, <2>2, <2>4, ExtendedTiled
    <3> QED BY <1>6, <3>1
  <2> HIDE DEF n, z, o, t
  <2>6. Len(t) = Len(s) /\ \A b \in 1 .. Len(s) : t[b] = IF b = Len(s) THEN n ELSE s[b]
    BY <1>2, <1>4, <1>9 DEF n
  <2>7. \A b \in 1 .. Len(t) : Tiled(t[b]) /\ EndsWith(t[b], objects, k + 1)
    BY <1>5, <2>5, <2>6
  <2> QED BY <1>3, <2>7 DEF Made
<1>10. \/ t = s \/ t = Append(s, NewSection(o))
       \/ neighbours /\ ~(EndOf(z) - 1 > o.address) /\ t = [s EXCEPT ![Len(s)] = Extended(z, o)]
  <2> HIDE DEF t, z, o
  <2> QED BY <1>1
<1> QED BY <1>7, <1>8, <1>9, <1>10

LEMMA BlocksTiled ==
  ASSUME NEW chunks \in Seq(Objects), Disjoint(Sections(chunks)), NEW bound
  PROVE  LET blocks == MakeContinuousBlocks(chunks, bound)
         IN \A b \in 1 .. Len(blocks) : Tiled(blocks[b])
<1> DEFINE objects == Sections(chunks)
           n == Len(objects)
<1>1. objects \in Seq(Objects) /\ n \in Nat /\ Disjoint(objects)
  BY SectionsTyped, LenProperties
<1>2. PICK f : /\ BlocksOf(f, objects, bound)
               /\ MakeContinuousBlocks(chunks, bound) = f[n]
  BY BlocksBy
<1> HIDE DEF objects
<1> DEFINE T == {k \in Nat : k <= n => Made(f[k], objects, k)}
<1>3. 0 \in T
  <2>1. f[0] = <<>>
    BY <1>1, <1>2 DEF BlocksOf
  <2>2. f[0] \in Seq(Sectioned) /\ Len(f[0]) = 0
    BY <2>1, EmptySeq
  <2> QED BY <2>2 DEF Made
<1>4. ASSUME NEW k \in 0 .. n - 1, k \in T PROVE k + 1 \in T
  <2>1. k + 1 \in 1 .. n /\ (k + 1) - 1 = k /\ k \in Nat /\ k + 1 <= n /\ Made(f[k], objects, k)
    BY <1>1, <1>4
  <2>2. f[k + 1] = NextBlock(f[k], objects[k + 1], bound)
    BY <2>1, <1>2 DEF BlocksOf
  <2>3. Made(f[k + 1], objects, k + 1)
    BY <2>1, <2>2, <1>1, NextBlockTiled
  <2> QED BY <2>3
<1>5. n \in T
  <2> HIDE DEF T, n
  <2> QED BY <1>1, <1>3, <1>4, SetInduction
<1> QED BY <1>1, <1>2, <1>5 DEF Made

LEMMA SectionsDisjoint ==
  ASSUME NEW list, list.measurements \in Seq(Objects), ~SharesLastOctet(list)
  PROVE  Disjoint(Sections(list.measurements))
<1> DEFINE chunks == list.measurements
           S == {chunks[i] : i \in Kept(chunks)}
           objects == Sections(chunks)
<1>1. objects \in SetToSeqs(S)
  BY SectionsAre
<1>2. ASSUME NEW p \in S, NEW q \in S, p # q, q.ext = p.ext PROVE q.address # EndOf(p) - 1
  <2>1. PICK a \in Kept(chunks) : p = chunks[a]
    OBVIOUS
  <2>2. PICK b \in Kept(chunks) : q = chunks[b]
    OBVIOUS
  <2>3. a # b
    BY <1>2, <2>1, <2>2
  <2> QED BY <1>2, <2>1, <2>2, <2>3 DEF SharesLastOctet
<1> HIDE DEF S, chunks
<1>3. /\ DOMAIN objects = 1 .. Cardinality(S) /\ \A x \in DOMAIN objects : objects[x] \in S
      /\ \A x, y \in DOMAIN objects : x # y => objects[x] # objects[y]
  <2> HIDE DEF objects
  <2> QED BY <1>1 DEF SetToSeqs
<1>4. ASSUME NEW x \in DOMAIN objects, NEW y \in DOMAIN objects, x < y,
             objects[y].ext = objects[x].ext
      PROVE  objects[y].address # EndOf(objects[x]) - 1
  <2>1. x # y
    <3>1. Cardinality(S) \in Nat
      BY SectionsAre, FS_CardinalityType DEF S, chunks
    <3>2. x \in Nat /\ y \in Nat
      BY <1>3, <3>1
    <3> QED BY <1>4, <3>2
  <2> QED BY <1>2, <1>3, <1>4, <2>1
<1>5. Disjoint(objects)
  <2> HIDE DEF objects
  <2> QED BY <1>4 DEF Disjoint
<1> QED BY <1>5 DEF chunks

(* What first_fit_decreasing() puts into the bins are the items.           *)
From(bins, X) ==
  \A b \in 1 .. Len(bins) : \A e \in 1 .. Len(bins[b].entries) : bins[b].entries[e] \in X

LEMMA PutIntoFrom ==
  ASSUME NEW X, NEW s \in BinSeqs, From(s, X), NEW b \in 1 .. Len(s), NEW item \in Sectioned,
         item \in X
  PROVE  From(PutInto(s, b, item), X)
<1> DEFINE old == s[b]
           new == [old EXCEPT !.entries = Append(@, item), !.residual = @ - item.length]
           t == PutInto(s, b, item)
<1> SUFFICES From(t, X)
  OBVIOUS
<1>1. Len(s) \in Nat /\ DOMAIN s = 1 .. Len(s) /\ s \in Seq(Bins) /\ old \in Bins
  BY LenProperties, ElementOfSeq DEF BinSeqs
<1>2. new.entries = Append(old.entries, item) /\ old.entries \in Seq(Entries)
  BY <1>1 DEF Bins
<1>3. ASSUME NEW e \in 1 .. Len(new.entries) PROVE new.entries[e] \in X
  <2> DEFINE c == old.entries
  <2>1. c \in Seq(Entries) /\ item \in Entries
    BY <1>2 DEF Entries
  <2>2. /\ Len(Append(c, item)) = Len(c) + 1 /\ Append(c, item)[Len(c) + 1] = item
        /\ \A k \in 1 .. Len(c) : Append(c, item)[k] = c[k]
    BY <2>1, AppendProperties
  <2>3. e \in 1 .. Len(c) + 1 /\ Len(c) \in Nat
    BY <1>2, <1>3, <2>1, <2>2, LenProperties
  <2>4. \A k \in 1 .. Len(c) : c[k] \in X
    BY DEF From
  <2> HIDE DEF c, old, new
  <2>5. e \in 1 .. Len(c) \/ e = Len(c) + 1
    BY <2>3
  <2> QED BY <1>2, <2>2, <2>4, <2>5 DEF c
<1>4. t = [s EXCEPT ![b] = new]
  BY DEF PutInto
<1> HIDE DEF new, t
<1>5. Len(t) = Len(s) /\ \A k \in 1 .. Len(s) : t[k] = IF k = b THEN new ELSE s[k]
  BY <1>1, <1>4
<1>6. ASSUME NEW k \in 1 .. Len(t), NEW e \in 1 .. Len(t[k].entries) PROVE t[k].entries[e] \in X
  <2>1. CASE k = b
    BY <1>3, <1>5, <1>6, <2>1
  <2>2. CASE k # b
    BY <1>5, <1>6, <2>2 DEF From
  <2> QED BY <2>1, <2>2
<1> QED BY <1>6 DEF From

LEMMA NextFitFrom ==
  ASSUME NEW X, NEW s \in BinSeqs, From(s, X), NEW item \in Sectioned, item \in X,
         NEW size \in Int
  PROVE  From(NextFit(s, item, size), X)
<1>1. CASE Roomy(s, item) # {}
  <2> DEFINE b == CHOOSE b \in Roomy(s, item) : \A c \in Roomy(s, item) : b <= c
  <2>1. Roomy(s, item) \subseteq 1 .. Len(s) /\ 1 .. Len(s) \subseteq Nat
    BY LenProperties DEF Roomy, BinSeqs
  <2>2. \E x \in Roomy(s, item) : \A c \in Roomy(s, item) : x <= c
    BY <1>1, <2>1, Least
  <2>3. b \in 1 .. Len(s)
    BY <2>1, <2>2
  <2>4. NextFit(s, item, size) = PutInto(s, b, item)
    BY <1>1 DEF NextFit
  <2> HIDE DEF b
  <2> QED BY <2>3, <2>4, PutIntoFrom
<1>2. CASE Roomy(s, item) = {}
  <2> DEFINE new == Bin(size, <<>>)
             t == Append(s, new)
  <2>1. /\ t \in BinSeqs /\ Len(t) = Len(s) + 1 /\ Len(s) \in Nat /\ t[Len(s) + 1] = new
        /\ \A k \in 1 .. Len(s) : t[k] = s[k]
    BY EmptyBin, AppendProperties, LenProperties DEF BinSeqs
  <2>2. NextFit(s, item, size) = PutInto(t, Len(s) + 1, item)
    BY <1>2 DEF NextFit
  <2>3. Len(new.entries) = 0
    BY DEF Bin
  <2> HIDE DEF t, new
  <2>4. ASSUME NEW k \in 1 .. Len(t), NEW e \in 1 .. Len(t[k].entries) PROVE t[k].entries[e] \in X
    <3>1. k \in 1 .. Len(s) \/ k = Len(s) + 1
      BY <2>1
    <3>2. CASE k \in 1 .. Len(s)
      BY <2>1, <2>4, <3>2 DEF From
    <3>3. CASE k = Len(s) + 1
      BY <2>1, <2>3, <2>4, <3>3
    <3> QED BY <3>1, <3>2, <3>3
  <2>5. From(t, X)
    BY <2>4 DEF From
  <2> QED BY <2>1, <2>2, <2>5, PutIntoFrom
<1> QED BY <1>1, <1>2

LEMMA BinsFrom ==
  ASSUME NEW X, NEW items \in Seq(Sectioned), \A k \in 1 .. Len(items) : items[k] \in X,
         NEW size \in Int, NEW initial \in Int
  PROVE  From(FirstFitDecreasing(items, size, initial), X)
<1> DEFINE sorted == ByDecreasingLength(items)
           n == Len(sorted)
<1>1. sorted \in Seq(Sectioned) /\ n \in Nat
  BY SortedTyped, LenProperties
<1>2. \A k \in 1 .. n : sorted[k] \in X /\ sorted[k] \in Sectioned
  <2>1. PICK p \in [1 .. Len(items) -> 1 .. Len(items)] :
           sorted = [k \in 1 .. Len(items) |-> items[p[k]]]
    BY SortedItems
  <2>2. n = Len(items)
    BY <2>1, LenProperties
  <2>3. \A k \in 1 .. n : sorted[k] \in X
    BY <2>1, <2>2
  <2> QED BY <1>1, <2>3, ElementOfSeq
<1>3. PICK f : /\ BinsOf(f, sorted, size, initial)
               /\ FirstFitDecreasing(items, size, initial) = f[n]
  BY BinsBy
<1> HIDE DEF sorted
<1> DEFINE T == {k \in Nat : k <= n => f[k] \in BinSeqs /\ From(f[k], X)}
<1>4. 0 \in T
  <2> DEFINE new == Bin(initial, <<>>)
  <2>1. f[0] = <<new>>
    BY <1>1, <1>3 DEF BinsOf
  <2>2. <<new>> \in Seq(Bins) /\ Len(<<new>>) = 1 /\ <<new>>[1] = new
    BY EmptyBin, Single
  <2>3. Len(new.entries) = 0
    BY DEF Bin
  <2> HIDE DEF new
  <2>4. \A k \in 1 .. 1 : k = 1
    OBVIOUS
  <2>5. From(f[0], X)
    BY <2>1, <2>2, <2>3, <2>4 DEF From
  <2>6. f[0] \in BinSeqs
    BY <2>1, <2>2 DEF BinSeqs
  <2> QED BY <2>5, <2>6
<1>5. ASSUME NEW k \in 0 .. n - 1, k \in T PROVE k + 1 \in T
  <2>1. k + 1 \in 1 .. n /\ (k + 1) - 1 = k /\ f[k] \in BinSeqs /\ From(f[k], X)
    BY <1>1, <1>5
  <2>2. f[k + 1] = NextFit(f[k], sorted[k + 1], size)
    BY <2>1, <1>3 DEF BinsOf
  <2>3. f[k + 1] \in BinSeqs /\ From(f[k + 1], X)
    BY <1>2, <2>1, <2>2, NextFitTyped, NextFitFrom
  <2> QED BY <2>3
<1>6. n \in T
  <2> HIDE DEF T, n
  <2> QED BY <1>1, <1>4, <1>5, SetInduction
<1> QED BY <1>1, <1>3, <1>6

(* Every entry of a plan reads what its measurements read.                 *)
LEMMA PlanTiled ==
  ASSUME config \in Configurations, NEW i \in ListIndices, ~SharesLastOctet(config.lists[i]),
         NEW j \in 1 .. Len(NewPlan[i]), NEW e \in 1 .. Len(NewPlan[i][j].entries)
  PROVE  Tiled(NewPlan[i][j].entries[e])
<1> DEFINE l == config.lists[i]
           bins == MeasurementsOpt(l)
<1>1. NewPlan[i] = bins
  BY DEF NewPlan
<1>2. CASE l.predefined
  <2>1. l.odts \in Seq(Seq(Objects)) /\ l.odts # <<>>
    BY <1>2, ListTyped
  <2>2. bins = [b \in DOMAIN l.odts |-> Bin(SumOfLengths(l.odts[b]), l.odts[b])]
    BY <1>2 DEF MeasurementsOpt, PredefinedBins
  <2>3. DOMAIN l.odts = 1 .. Len(l.odts) /\ Len(l.odts) \in Nat
    BY <2>1, LenProperties
  <2>4. j \in 1 .. Len(l.odts)
    BY <1>1, <2>2, <2>3
  <2>5. NewPlan[i][j].entries = l.odts[j]
    BY <1>1, <2>2, <2>3, <2>4 DEF Bin
  <2>6. l.odts[j] \in Seq(Objects)
    BY <2>1, <2>4, ElementOfSeq
  <2>7. NewPlan[i][j].entries[e] \in Objects
    BY <2>5, <2>6, ElementOfSeq
  <2> QED BY <2>7, ObjectTiled
<1>3. CASE ~l.predefined
  <2> DEFINE blocks == Blocks(l)
             X == {s \in Sectioned : Tiled(s)}
  <2>1. l.measurements \in Seq(Objects) /\ ~SharesLastOctet(l)
    BY ListTyped
  <2>2. blocks \in Seq(Sectioned) /\ \A b \in 1 .. Len(blocks) : Tiled(blocks[b])
    BY <2>1, BlocksTyped, SectionsDisjoint, BlocksTiled DEF Blocks
  <2>3. bins = FirstFitDecreasing(blocks, Container, ContainerFirst(l))
    BY <1>3 DEF MeasurementsOpt
  <2>4. Container \in Int /\ ContainerFirst(l) \in Int
    BY LimitsTyped
  <2>5. \A b \in 1 .. Len(blocks) : blocks[b] \in X
    BY <2>2, ElementOfSeq
  <2> HIDE DEF blocks, X
  <2>6. From(bins, X)
    BY <2>2, <2>3, <2>4, <2>5, BinsFrom
  <2>7. NewPlan[i][j].entries[e] \in X
    BY <1>1, <2>6 DEF From
  <2> QED BY <2>7 DEF X
<1> QED BY <1>2, <1>3

(***************************************************************************)
(* Where the commands for an entry are                                     *)
(***************************************************************************)
EntriesOf(i, j) == NewPlan[i][j].entries
(* The commands that write the j-th ODT of list i begin at x.              *)
Laid(x, i, j) ==
  /\ x \in 1 .. FirstOf(5) /\ Cmds[x] = SetDaqPtr(i, j)
  /\ \A e \in 1 .. Len(EntriesOf(i, j)) :
       x + e \in 1 .. FirstOf(5) /\ Cmds[x + e] = WriteDaq(EntriesOf(i, j)[e])
(* What is in front of them.                                               *)
BeforeOdt(i, j) ==
  FirstOf(4) + (Len(FlattenSeq(Pieces(WriteCommands, i - 1)))
                  + Len(FlattenSeq(Pieces(OdtWrites(i), j - 1))))

LEMMA StageEnds ==
  ASSUME config \in Configurations
  PROVE  /\ FirstOf(1) \in Nat /\ FirstOf(1) <= FirstOf(2) /\ FirstOf(2) <= FirstOf(3)
         /\ FirstOf(3) <= FirstOf(4) /\ FirstOf(4) <= FirstOf(5)
         /\ \A s \in 1 .. 5 : FirstOf(s) \in Nat /\ Len(Stages[s]) \in Nat
         /\ \A s \in 1 .. 4 : FirstOf(s + 1) = FirstOf(s) + Len(Stages[s])
         /\ FirstOf(5) <= Len(Cmds) /\ Len(Cmds) \in Nat
<1>1. /\ \A s \in 1 .. 5 : FirstOf(s) \in Nat
      /\ \A s \in 1 .. 4 : FirstOf(s + 1) = FirstOf(s) + Len(Stages[s])
      /\ Len(Cmds) = FirstOf(5) + 2 * Len(config.lists)
  BY CmdsTyped
<1>2. \A s \in 1 .. 5 : Len(Stages[s]) \in Nat
  BY StagesTyped, LenProperties
<1>3. ASSUME NEW s \in 1 .. 4 PROVE FirstOf(s) <= FirstOf(s + 1)
  <2> DEFINE a == FirstOf(s)
             b == Len(Stages[s])
  <2>0. s \in 1 .. 5
    OBVIOUS
  <2>1. a \in Nat /\ b \in Nat /\ FirstOf(s + 1) = a + b
    BY <1>1, <1>2, <2>0
  <2> HIDE DEF a, b
  <2>2. a <= a + b
    BY <2>1
  <2> QED BY <2>1, <2>2 DEF a
<1>4. 1 \in 1 .. 4 /\ 2 \in 1 .. 4 /\ 3 \in 1 .. 4 /\ 4 \in 1 .. 4
      /\ 1 + 1 = 2 /\ 2 + 1 = 3 /\ 3 + 1 = 4 /\ 4 + 1 = 5 /\ 1 \in 1 .. 5 /\ 5 \in 1 .. 5
  OBVIOUS
<1>5. FirstOf(1) <= FirstOf(2)
  BY <1>3, <1>4
<1>6. FirstOf(2) <= FirstOf(3)
  BY <1>3, <1>4
<1>7. FirstOf(3) <= FirstOf(4)
  BY <1>3, <1>4
<1>8. FirstOf(4) <= FirstOf(5)
  BY <1>3, <1>4
<1>9. FirstOf(5) <= Len(Cmds) /\ Len(Cmds) \in Nat
  <2> DEFINE n == Len(config.lists)
             a == FirstOf(5)
  <2>1. n \in Nat /\ a \in Nat /\ Len(Cmds) = a + 2 * n
    BY <1>1, <1>4, ConfigTyped
  <2> HIDE DEF n, a
  <2>2. a <= a + 2 * n /\ a + 2 * n \in Nat
    BY <2>1
  <2> QED BY <2>1, <2>2 DEF a
<1> QED BY <1>1, <1>2, <1>4, <1>5, <1>6, <1>7, <1>8, <1>9

(* A command is in the stage of its kind.                                  *)
LEMMA StageOf ==
  ASSUME config \in Configurations, NEW x \in 1 .. Len(Cmds), NEW s \in 1 .. 5,
         Cmds[x] \in StageItems[s]
  PROVE  \E k \in 1 .. Len(Stages[s]) : x = FirstOf(s) + k /\ Cmds[x] = Stages[s][k]
<1>1. PICK t \in 1 .. 5 : \E k \in 1 .. Len(Stages[t]) :
        x = FirstOf(t) + k /\ Cmds[x] = Stages[t][k] /\ Cmds[x] \in StageItems[t]
  BY CmdFrom
<1>2. t = s
  <2> DEFINE Named(u) == IF u = 1 THEN {"FREE_DAQ", "ALLOC_DAQ"} ELSE IF u = 2 THEN {"ALLOC_ODT"}
                         ELSE IF u = 3 THEN {"ALLOC_ODT_ENTRY"}
                         ELSE IF u = 4 THEN {"SET_DAQ_PTR", "WRITE_DAQ"}
                         ELSE {"SET_DAQ_LIST_MODE", "START_STOP_DAQ_LIST"}
  <2>1. ASSUME NEW u \in 1 .. 5, NEW c \in StageItems[u] PROVE c.cmd \in Named(u)
    <3>1. CASE u = 1
      BY <2>1, <3>1 DEF StageItems, Frees, AllocDaqs
    <3>2. CASE u = 2
      BY <2>1, <3>2 DEF StageItems, AllocOdts
    <3>3. CASE u = 3
      BY <2>1, <3>3 DEF StageItems, AllocEntries
    <3>4. CASE u = 4
      BY <2>1, <3>4 DEF StageItems, SetPtrs, Writes
    <3>5. CASE u = 5
      BY <2>1, <3>5 DEF StageItems, Selections, Modes, Starts
    <3> QED BY <3>1, <3>2, <3>3, <3>4, <3>5
  <2> DEFINE c == Cmds[x].cmd
  <2>2. c \in Named(s) /\ c \in Named(t)
    BY <1>1, <2>1
  <2> HIDE DEF c
  <2> QED BY <2>2
<1> QED BY <1>1, <1>2

(* The stages are one behind the other.                                    *)
LEMMA InOrder ==
  ASSUME config \in Configurations, NEW x \in 1 .. Len(Cmds), NEW y \in 1 .. Len(Cmds),
         NEW s \in 1 .. 5, NEW t \in 1 .. 5, Cmds[x] \in StageItems[s], Cmds[y] \in StageItems[t],
         x <= y
  PROVE  s <= t
<1>1. PICK k \in 1 .. Len(Stages[s]) : x = FirstOf(s) + k
  BY StageOf
<1>2. PICK l \in 1 .. Len(Stages[t]) : y = FirstOf(t) + l
  BY StageOf
<1> SUFFICES ASSUME t < s PROVE FALSE
  OBVIOUS
<1>3. t \in 1 .. 4 /\ t + 1 \in 1 .. 5
  OBVIOUS
<1>4. FirstOf(t + 1) = FirstOf(t) + Len(Stages[t])
  BY <1>3, StageEnds
<1>5. FirstOf(t + 1) <= FirstOf(s)
  <2> DEFINE F1 == FirstOf(1)
             F2 == FirstOf(2)
             F3 == FirstOf(3)
             F4 == FirstOf(4)
             F5 == FirstOf(5)
  <2>1. /\ F2 <= F3 /\ F3 <= F4 /\ F4 <= F5
        /\ F2 \in Nat /\ F3 \in Nat /\ F4 \in Nat /\ F5 \in Nat
    BY StageEnds
  <2>2. FirstOf(t + 1) \in {F2, F3, F4, F5}
    BY <1>3
  <2>3. CASE t = 1
    <3>1. FirstOf(t + 1) = F2 /\ FirstOf(s) \in {F2, F3, F4, F5}
      BY <2>3
    <3> HIDE DEF F2, F3, F4, F5
    <3> QED BY <2>1, <3>1
  <2>4. CASE t = 2
    <3>1. FirstOf(t + 1) = F3 /\ FirstOf(s) \in {F3, F4, F5}
      BY <2>4
    <3> HIDE DEF F2, F3, F4, F5
    <3> QED BY <2>1, <3>1
  <2>5. CASE t = 3
    <3>1. FirstOf(t + 1) = F4 /\ FirstOf(s) \in {F4, F5}
      BY <2>5
    <3> HIDE DEF F2, F3, F4, F5
    <3> QED BY <2>1, <3>1
  <2>6. CASE t = 4
    <3>1. FirstOf(t + 1) = F5 /\ FirstOf(s) = F5
      BY <2>6
    <3> HIDE DEF F2, F3, F4, F5
    <3> QED BY <2>1, <3>1
  <2> QED BY <1>3, <2>3, <2>4, <2>5, <2>6
<1> DEFINE a == FirstOf(s)
           b == FirstOf(t)
           c == Len(Stages[t])
<1>6. a \in Nat /\ b \in Nat /\ c \in Nat /\ k \in Nat \ {0} /\ l \in 1 .. c /\ b + c <= a
  <2>1. a \in Nat /\ b \in Nat /\ c \in Nat
    BY StageEnds
  <2>2. Len(Stages[s]) \in Nat
    BY StageEnds
  <2>3. k \in Nat \ {0}
    BY <2>2
  <2>3a. l \in 1 .. c
    OBVIOUS
  <2>4. b + c <= a
    BY <1>4, <1>5
  <2> QED BY <2>1, <2>3, <2>3a, <2>4
<1>7. x = a + k /\ y = b + l
  BY <1>1, <1>2
<1> HIDE DEF a, b, c
<1> QED BY <1>6, <1>7

LEMMA FourthStage ==
  ASSUME config \in Configurations, NEW i \in Dynamic, ~Props.static
  PROVE  /\ Len(config.lists) \in Nat /\ ListIndices = 1 .. Len(config.lists)
         /\ i \in 1 .. Len(config.lists) /\ Len(NewPlan[i]) \in Nat
         /\ Stages[4] = FlattenSeq(Pieces(WriteCommands, Len(config.lists)))
         /\ \A m \in 1 .. Len(config.lists) : WriteCommands[m] \in Seq(SetPtrs \cup Writes)
         /\ WriteCommands[i] = FlattenSeq(Pieces(OdtWrites(i), Len(NewPlan[i])))
         /\ \A j \in 1 .. Len(NewPlan[i]) : /\ OdtWrites(i)[j] = WriteOdt(NewPlan, i, j)
                                            /\ OdtWrites(i)[j] \in Seq(SetPtrs \cup Writes)
<1>1. i \in ListIndices /\ Len(config.lists) \in Nat /\ ListIndices = 1 .. Len(config.lists)
  BY ConfigTyped DEF Dynamic
<1>2. Stages[4] = WriteEntries(NewPlan)
  BY DEF Stages
<1>3. Stages[4] = FlattenSeq(Pieces(WriteCommands, Len(config.lists)))
  BY <1>2, StagesTyped
<1>4. \A m \in 1 .. Len(config.lists) : WriteCommands[m] \in Seq(SetPtrs \cup Writes)
  BY <1>1, WriteCommandsTyped
<1>5. WriteCommands[i] = FlattenSeq(Pieces(OdtWrites(i), Len(NewPlan[i])))
  BY <1>1, WriteCommandsTyped
<1>6. Len(NewPlan[i]) \in Nat
  BY <1>1, PlanList
<1>7. ASSUME NEW j \in 1 .. Len(NewPlan[i])
      PROVE  /\ OdtWrites(i)[j] = WriteOdt(NewPlan, i, j)
             /\ OdtWrites(i)[j] \in Seq(SetPtrs \cup Writes)
  <2>1. OdtWrites(i)[j] = WriteOdt(NewPlan, i, j)
    BY DEF OdtWrites
  <2> QED BY <1>1, <2>1, WriteOdtTyped
<1> QED BY <1>1, <1>3, <1>4, <1>5, <1>6, <1>7

(* The commands of an ODT are where the ODTs before it end.                *)
LEMMA OdtAtPlace ==
  ASSUME config \in Configurations, NEW i \in Dynamic, ~Props.static,
         NEW j \in 1 .. Len(NewPlan[i]), NEW k \in 1 .. Len(WriteOdt(NewPlan, i, j))
  PROVE  /\ BeforeOdt(i, j) + k \in 1 .. FirstOf(5) /\ BeforeOdt(i, j) \in Nat
         /\ Cmds[BeforeOdt(i, j) + k] = WriteOdt(NewPlan, i, j)[k]
<1> DEFINE n == Len(config.lists)
           f == WriteCommands
           m == Len(NewPlan[i])
           g == OdtWrites(i)
           X == SetPtrs \cup Writes
           A == Len(FlattenSeq(Pieces(f, i - 1)))
           B == Len(FlattenSeq(Pieces(g, j - 1)))
<1>1. /\ n \in Nat /\ i \in 1 .. n /\ m \in Nat /\ Stages[4] = FlattenSeq(Pieces(f, n))
      /\ \A q \in 1 .. n : f[q] \in Seq(X)
      /\ f[i] = FlattenSeq(Pieces(g, m)) /\ \A q \in 1 .. m : g[q] \in Seq(X)
      /\ g[j] = WriteOdt(NewPlan, i, j)
  BY FourthStage
<1>2. j \in 1 .. m /\ k \in 1 .. Len(g[j])
  BY <1>1
<1> HIDE DEF n, f, m, g, X
<1>3. B + k \in 1 .. Len(f[i]) /\ f[i][B + k] = g[j][k]
  <2>1. /\ Len(FlattenSeq(Pieces(g, j - 1))) + k \in 1 .. Len(FlattenSeq(Pieces(g, m)))
        /\ FlattenSeq(Pieces(g, m))[Len(FlattenSeq(Pieces(g, j - 1))) + k] = g[j][k]
    <3>1. m \in Nat /\ \A q \in 1 .. m : g[q] \in Seq(X)
      BY <1>1
    <3> QED BY <3>1, <1>2, FlattenPlace
  <2> QED BY <1>1, <2>1
<1> DEFINE h == B + k
<1>3a. h \in 1 .. Len(f[i])
  BY <1>3
<1> HIDE DEF h
<1>4. A + h \in 1 .. Len(FlattenSeq(Pieces(f, n)))
      /\ FlattenSeq(Pieces(f, n))[A + h] = f[i][h]
  <2>1. /\ Len(FlattenSeq(Pieces(f, i - 1))) + h \in 1 .. Len(FlattenSeq(Pieces(f, n)))
        /\ FlattenSeq(Pieces(f, n))[Len(FlattenSeq(Pieces(f, i - 1))) + h] = f[i][h]
    <3>1. n \in Nat /\ i \in 1 .. n /\ \A q \in 1 .. n : f[q] \in Seq(X)
      BY <1>1
    <3> QED BY <3>1, <1>3a, FlattenPlace
  <2> QED BY <2>1
<1>5. A \in Nat
  <2>1. i - 1 \in 0 .. n
    BY <1>1
  <2> QED BY <1>1, <2>1, FlattenGrows
<1>6. B \in Nat
  <2>1. j - 1 \in 0 .. m
    BY <1>1, <1>2
  <2> QED BY <1>1, <2>1, FlattenGrows
<1> DEFINE p == A + (B + k)
<1>7. p \in 1 .. Len(Stages[4]) /\ Stages[4][p] = WriteOdt(NewPlan, i, j)[k]
  BY <1>1, <1>3, <1>4 DEF h
<1>8. FirstOf(4) + p \in 1 .. Len(Cmds) /\ Cmds[FirstOf(4) + p] = Stages[4][p]
  <2>1. 4 \in 1 .. 5
    OBVIOUS
  <2> HIDE DEF p
  <2> QED BY <1>7, <2>1, CmdAt
<1> DEFINE F == FirstOf(4)
           L == Len(Stages[4])
<1>9. F \in Nat /\ L \in Nat /\ FirstOf(5) = F + L
  <2>1. 4 \in 1 .. 5 /\ 4 \in 1 .. 4 /\ 4 + 1 = 5
    OBVIOUS
  <2> QED BY <2>1, StageEnds
<1>10. BeforeOdt(i, j) = F + (A + B)
  BY DEF BeforeOdt, f, g
<1>11. k \in Nat /\ p \in 1 .. L
  BY <1>7
<1>12. p = A + (B + k)
  OBVIOUS
<1> HIDE DEF A, B, F, L, p
<1>13. F + (A + B) + k = F + p /\ F + p \in 1 .. F + L /\ F + (A + B) \in Nat
  BY <1>5, <1>6, <1>9, <1>11, <1>12
<1> QED BY <1>7, <1>8, <1>9, <1>10, <1>13 DEF F, L

LEMMA LaidAt ==
  ASSUME config \in Configurations, NEW i \in Dynamic, ~Props.static,
         NEW j \in 1 .. Len(NewPlan[i]), EntriesOf(i, j) # <<>>
  PROVE  Laid(BeforeOdt(i, j) + 1, i, j)
<1> DEFINE es == EntriesOf(i, j)
           w == WriteOdt(NewPlan, i, j)
           b == BeforeOdt(i, j)
<1>0. i \in ListIndices
  BY DEF Dynamic
<1>1. /\ Len(es) \in Nat /\ Len(w) = 1 + Len(es) /\ w[1] = SetDaqPtr(i, j)
      /\ \A e \in 1 .. Len(es) : w[1 + e] = WriteDaq(es[e])
  <2>1. Len(NewPlan[i][j].entries) \in Nat
    BY <1>0, PlanList
  <2> QED BY <1>0, <2>1, WriteOdtTyped DEF EntriesOf
<1>2. \A k \in 1 .. Len(w) : b + k \in 1 .. FirstOf(5) /\ b \in Nat /\ Cmds[b + k] = w[k]
  BY OdtAtPlace
<1> HIDE DEF es, w, b
<1>3. 1 \in 1 .. Len(w)
  BY <1>1
<1>4. b + 1 \in 1 .. FirstOf(5) /\ Cmds[b + 1] = SetDaqPtr(i, j) /\ b \in Nat
  BY <1>1, <1>2, <1>3
<1>5. ASSUME NEW e \in 1 .. Len(es)
      PROVE  (b + 1) + e \in 1 .. FirstOf(5) /\ Cmds[(b + 1) + e] = WriteDaq(es[e])
  <2>1. 1 + e \in 1 .. Len(w) /\ b + (1 + e) = (b + 1) + e
    BY <1>1, <1>4
  <2> QED BY <1>1, <1>2, <2>1
<1> QED BY <1>4, <1>5 DEF Laid, es, b

(* A command that writes is one of those of an ODT.                        *)
LEMMA WriteFrom ==
  ASSUME config \in Configurations, NEW y \in 1 .. Len(Cmds), Cmds[y] \in SetPtrs \cup Writes
  PROVE  \E i \in Dynamic : \E j \in 1 .. Len(NewPlan[i]) : \E x \in Nat :
           \E e \in 0 .. Len(EntriesOf(i, j)) :
             Laid(x, i, j) /\ y = x + e /\ (e = 0 <=> Cmds[y] \in SetPtrs)
<1>1. 4 \in 1 .. 5 /\ StageItems[4] = SetPtrs \cup Writes
  BY DEF StageItems
<1>2. PICK p \in 1 .. Len(Stages[4]) : y = FirstOf(4) + p /\ Cmds[y] = Stages[4][p]
  BY <1>1, StageOf
<1>3. ~Props.static
  <2>1. Props.static => Stages[4] = <<>>
    BY DEF Stages
  <2>2. Len(<<>>) = 0
    OBVIOUS
  <2> QED BY <1>2, <2>1, <2>2
<1> DEFINE n == Len(config.lists)
           f == WriteCommands
           X == SetPtrs \cup Writes
<1>4. /\ n \in Nat /\ ListIndices = 1 .. n /\ Stages[4] = FlattenSeq(Pieces(f, n))
      /\ \A q \in 1 .. n : f[q] \in Seq(X)
  <2>1. n \in Nat /\ ListIndices = 1 .. n
    BY ConfigTyped
  <2>2. Stages[4] = WriteEntries(NewPlan)
    BY <1>3 DEF Stages
  <2>3. Stages[4] = FlattenSeq(Pieces(f, n))
    BY <2>2, StagesTyped
  <2> QED BY <2>1, <2>3, WriteCommandsTyped
<1>5. ComesFrom(f, n, p)
  <2>1. p \in 1 .. Len(FlattenSeq(Pieces(f, n)))
    BY <1>2, <1>4
  <2> HIDE DEF n, f, X
  <2> QED BY <1>4, <2>1, FlattenSplit
<1>6. PICK i \in 1 .. n : \E k \in 1 .. Len(f[i]) : p = Len(FlattenSeq(Pieces(f, i - 1))) + k
  BY <1>5 DEF ComesFrom
<1>7. PICK k \in 1 .. Len(f[i]) : p = Len(FlattenSeq(Pieces(f, i - 1))) + k
  BY <1>6
<1>8. i \in Dynamic
  <2>1. i \notin Dynamic => f[i] = <<>>
    BY <1>4, WriteCommandsTyped
  <2>2. Len(<<>>) = 0
    OBVIOUS
  <2> QED BY <1>7, <2>1, <2>2
<1> DEFINE m == Len(NewPlan[i])
           g == OdtWrites(i)
<1>9. /\ m \in Nat /\ f[i] = FlattenSeq(Pieces(g, m)) /\ \A q \in 1 .. m : g[q] \in Seq(X)
      /\ \A j \in 1 .. m : g[j] = WriteOdt(NewPlan, i, j)
  BY <1>3, <1>8, FourthStage
<1>10. ComesFrom(g, m, k)
  <2>1. k \in 1 .. Len(FlattenSeq(Pieces(g, m)))
    BY <1>7, <1>9
  <2> HIDE DEF m, g, X, f
  <2> QED BY <1>9, <2>1, FlattenSplit
<1>11. PICK j \in 1 .. m : \E l \in 1 .. Len(g[j]) : k = Len(FlattenSeq(Pieces(g, j - 1))) + l
  BY <1>10 DEF ComesFrom
<1>12. PICK l \in 1 .. Len(g[j]) : k = Len(FlattenSeq(Pieces(g, j - 1))) + l
  BY <1>11
<1> DEFINE es == EntriesOf(i, j)
           w == WriteOdt(NewPlan, i, j)
           b == BeforeOdt(i, j)
           x == b + 1
           e == l - 1
<1>13. /\ Len(w) = IF es = <<>> THEN 0 ELSE 1 + Len(es)
       /\ l \in 1 .. Len(w) /\ Len(es) \in Nat
  <2>1. i \in ListIndices
    BY <1>8 DEF Dynamic
  <2>2. Len(NewPlan[i][j].entries) \in Nat
    BY <2>1, PlanList
  <2>3. l \in 1 .. Len(w)
    BY <1>9, <1>12
  <2> QED BY <2>1, <2>2, <2>3, WriteOdtTyped DEF EntriesOf
<1>14. es # <<>> /\ e \in 0 .. Len(es)
  <2> HIDE DEF es, w
  <2> QED BY <1>13
<1>15. b + l \in 1 .. FirstOf(5) /\ b \in Nat /\ Cmds[b + l] = w[l]
  BY <1>3, <1>8, <1>13, OdtAtPlace
<1>16. Laid(x, i, j)
  BY <1>3, <1>8, <1>14, LaidAt
<1>17. y = b + l /\ y = x + e /\ x \in Nat
  <2> DEFINE F == FirstOf(4)
             A == Len(FlattenSeq(Pieces(f, i - 1)))
             B == Len(FlattenSeq(Pieces(g, j - 1)))
  <2>1. b = F + (A + B) /\ y = F + p /\ p = A + k /\ k = B + l
    BY <1>2, <1>7, <1>12 DEF BeforeOdt
  <2>2. F \in Nat
    BY <1>1, StageEnds
  <2>3. A \in Nat
    <3>1. i - 1 \in 0 .. n
      BY <1>4
    <3> HIDE DEF f, n, X
    <3> QED BY <1>4, <3>1, FlattenGrows
  <2>4. B \in Nat
    <3>1. j - 1 \in 0 .. m
      BY <1>9
    <3> HIDE DEF g, m, X, f
    <3> QED BY <1>9, <3>1, FlattenGrows
  <2>5. l \in Nat
    BY <1>12
  <2> HIDE DEF F, A, B, b
  <2> QED BY <1>15, <2>1, <2>2, <2>3, <2>4, <2>5
<1>18. e = 0 <=> Cmds[y] \in SetPtrs
  <2>1. e = 0 => Cmds[y] \in SetPtrs
    <3>1. SUFFICES ASSUME e = 0 PROVE Cmds[y] \in SetPtrs
      OBVIOUS
    <3>2. Cmds[y] = SetDaqPtr(i, j)
      <4>1. y = x
        BY <1>17, <3>1
      <4> QED BY <1>16, <4>1 DEF Laid
    <3>3. SetDaqPtr(i, j) \notin Writes
      BY DEF SetDaqPtr, Writes
    <3> QED BY <3>2, <3>3
  <2>2. e # 0 => Cmds[y] \notin SetPtrs
    <3>1. SUFFICES ASSUME e # 0 PROVE Cmds[y] \notin SetPtrs
      OBVIOUS
    <3>2. e \in 1 .. Len(es)
      BY <1>13, <1>14, <3>1
    <3>3. Cmds[y] = WriteDaq(es[e])
      BY <1>16, <1>17, <3>2 DEF Laid
    <3>4. WriteDaq(es[e]) \notin SetPtrs
      BY DEF WriteDaq, SetPtrs
    <3> QED BY <3>3, <3>4
  <2> QED BY <2>1, <2>2
<1>19. j \in 1 .. Len(NewPlan[i])
  BY <1>11
<1> HIDE DEF x, e, m, n
<1> QED BY <1>8, <1>14, <1>16, <1>17, <1>18, <1>19

(* The entries of every ODT are allocated.                                 *)
LEMMA AllocatedAt ==
  ASSUME config \in Configurations, NEW i \in Dynamic, ~Props.static,
         NEW j \in 1 .. Len(NewPlan[i])
  PROVE  \E x \in 1 .. Len(Cmds) : Cmds[x] = AllocOdtEntry(NewPlan, i, j)
<1> DEFINE n == Len(config.lists)
           f == EntryCommands
           X == AllocEntries
<1>1. n \in Nat /\ i \in 1 .. n /\ ListIndices = 1 .. n
  BY ConfigTyped DEF Dynamic
<1>2. \A m \in 1 .. n : f[m] \in Seq(X)
  BY <1>1, EntryCommandsTyped
<1>3. Len(f[i]) = Len(NewPlan[i]) /\ f[i][j] = AllocOdtEntry(NewPlan, i, j)
  BY <1>1, EntryCommandsTyped
<1>4. Stages[3] = FlattenSeq(Pieces(f, n))
  <2>1. Stages[3] = AllocateEntries(NewPlan)
    BY DEF Stages
  <2> QED BY <2>1, StagesTyped
<1>5. j \in 1 .. Len(f[i])
  BY <1>3
<1> HIDE DEF n, f, X
<1>6. /\ Len(FlattenSeq(Pieces(f, i - 1))) + j \in 1 .. Len(FlattenSeq(Pieces(f, n)))
      /\ FlattenSeq(Pieces(f, n))[Len(FlattenSeq(Pieces(f, i - 1))) + j] = f[i][j]
  BY <1>1, <1>2, <1>5, FlattenPlace, SMTT(40)
<1> DEFINE k == Len(FlattenSeq(Pieces(f, i - 1))) + j
<1>7. k \in 1 .. Len(Stages[3]) /\ Stages[3][k] = AllocOdtEntry(NewPlan, i, j)
  BY <1>3, <1>4, <1>6
<1> HIDE DEF k
<1>8. 3 \in 1 .. 5
  OBVIOUS
<1>9. FirstOf(3) + k \in 1 .. Len(Cmds) /\ Cmds[FirstOf(3) + k] = Stages[3][k]
  BY <1>7, <1>8, CmdAt
<1> QED BY <1>7, <1>9

(* A command says for which list and ODT it is.                            *)
LEMMA SamePlace ==
  ASSUME config \in Configurations, NEW i \in ListIndices, NEW k \in ListIndices, NEW j, NEW l
  PROVE  /\ SetDaqPtr(i, j) = SetDaqPtr(k, l) => i = k /\ j = l
         /\ AllocOdtEntry(NewPlan, i, j) = AllocOdtEntry(NewPlan, k, l) => i = k /\ j = l
<1>1. SetDaqPtr(i, j).list = Number(i) /\ SetDaqPtr(i, j).odt = j
      /\ SetDaqPtr(k, l).list = Number(k) /\ SetDaqPtr(k, l).odt = l
  BY DEF SetDaqPtr
<1>2. AllocOdtEntry(NewPlan, i, j).list = Number(i) /\ AllocOdtEntry(NewPlan, i, j).odt = j
      /\ AllocOdtEntry(NewPlan, k, l).list = Number(k) /\ AllocOdtEntry(NewPlan, k, l).odt = l
  BY DEF AllocOdtEntry
<1>3. Number(i) = Number(k) => i = k
  BY Numbers
<1> QED BY <1>1, <1>2, <1>3

LEMMA LaidOnce ==
  ASSUME config \in Configurations, NEW i \in Dynamic, NEW j, NEW x \in 1 .. Len(Cmds),
         Cmds[x] = SetDaqPtr(i, j)
  PROVE  Laid(x, i, j) /\ j \in 1 .. Len(NewPlan[i])
<1>1. Cmds[x].cmd = "SET_DAQ_PTR"
  BY DEF SetDaqPtr
<1>2. Cmds[x] \in SetPtrs
  <2>1. Cmds \in Seq(Commands)
    BY CmdsTyped
  <2>2. Cmds[x] \in Commands
    <3> HIDE DEF Cmds
    <3> QED BY <2>1, ElementOfSeq
  <2> HIDE DEF Cmds
  <2> QED BY <1>1, <2>2 DEF Commands, Allocations, Selections, Frees, AllocDaqs, AllocOdts,
                            AllocEntries, Writes, Modes, Starts
<1>3. PICK k \in Dynamic : \E l \in 1 .. Len(NewPlan[k]) : \E y \in Nat :
        \E e \in 0 .. Len(EntriesOf(k, l)) :
          Laid(y, k, l) /\ x = y + e /\ (e = 0 <=> Cmds[x] \in SetPtrs)
  BY <1>2, WriteFrom
<1>4. PICK l \in 1 .. Len(NewPlan[k]) : \E y \in Nat :
        \E e \in 0 .. Len(EntriesOf(k, l)) :
          Laid(y, k, l) /\ x = y + e /\ (e = 0 <=> Cmds[x] \in SetPtrs)
  BY <1>3
<1>5. Laid(x, k, l)
  BY <1>2, <1>4
<1>6. k = i /\ l = j
  <2>1. SetDaqPtr(k, l) = SetDaqPtr(i, j)
    BY <1>5 DEF Laid
  <2>2. i \in ListIndices /\ k \in ListIndices
    BY DEF Dynamic
  <2> QED BY <2>1, <2>2, SamePlace
<1> QED BY <1>4, <1>5, <1>6

(***************************************************************************)
(* What a command makes of the entries                                     *)
(***************************************************************************)
(* The ODTs of list n become x.                                            *)
WithOdts(s, n, x) == Replaced(s, n, [s[n] EXCEPT !.odts = x])
Emptied(o, j, count) == [o EXCEPT ![j] = Copies(count, NoEntry)]
Entered(o, j, k, entry) == [o EXCEPT ![j] = [o[j] EXCEPT ![k] = entry]]

LEMMA ExecutedTo ==
  ASSUME NEW d, IsDevice(d), NEW c \in Commands, Accepts(d, c)
  PROVE  LET s == d.lists
             a == d.allocating
             p == d.ptr
         IN /\ d = Dev(s, a, p)
            /\ c.cmd = "ALLOC_ODT" =>
                 /\ c.list \in DOMAIN s /\ Copies(c.count, <<>>) \in Seq(Seq(Ext))
                 /\ Len(Copies(c.count, <<>>)) = c.count
                 /\ Executed(d, c) = Dev(WithOdts(s, c.list, Copies(c.count, <<>>)), a, p)
            /\ c.cmd = "ALLOC_ODT_ENTRY" =>
                 LET o == s[c.list].odts
                     x == Emptied(o, c.odt, c.count)
                 IN /\ c.list \in DOMAIN s /\ c.odt \in DOMAIN o /\ c.count \in Nat
                    /\ x \in Seq(Seq(Ext)) /\ Len(x) = Len(o)
                    /\ Executed(d, c) = Dev(WithOdts(s, c.list, x), "entries", p)
            /\ c.cmd = "SET_DAQ_PTR" =>
                 Executed(d, c) = Dev(s, a, <<c.list, c.odt, c.entry>>)
            /\ c.cmd = "WRITE_DAQ" =>
                 LET o == s[p[1]].odts
                     x == Entered(o, p[2], p[3], c.entry)
                 IN /\ p[1] \in DOMAIN s /\ p[2] \in DOMAIN o /\ p[3] \in DOMAIN o[p[2]]
                    /\ x \in Seq(Seq(Ext)) /\ Len(x) = Len(o)
                    /\ Executed(d, c) = Dev(WithOdts(s, p[1], x), a, [p EXCEPT ![3] = @ + 1])
            /\ c.cmd = "SET_DAQ_LIST_MODE" =>
                 LET l == Moded(s[c.list], c.mode, c.event)
                 IN /\ c.list \in DOMAIN s /\ l \in DeviceLists /\ l.odts = s[c.list].odts
                    /\ l.mode = c.mode /\ l.state = s[c.list].state
                    /\ Executed(d, c) = Dev(Replaced(s, c.list, l), a, p)
            /\ c.cmd = "START_STOP_DAQ_LIST" =>
                 LET l == [s[c.list] EXCEPT !.state = "selected"]
                 IN /\ c.list \in DOMAIN s /\ l \in DeviceLists /\ l.odts = s[c.list].odts
                    /\ l.mode = s[c.list].mode /\ l.state = "selected"
                    /\ Executed(d, c) = Dev(Replaced(s, c.list, l), a, p)
<1> DEFINE s == d.lists
           a == d.allocating
           p == d.ptr
<1>1. d = Dev(s, a, p)
  BY DEF IsDevice, Dev
<1>2. s = [m \in DOMAIN s |-> s[m]] /\ \A m \in DOMAIN s : s[m] \in DeviceLists
  BY DEF IsDevice
<1>3. IsDevice(Dev(s, a, p))
  BY <1>1
<1>4. ASSUME c.cmd = "ALLOC_ODT"
      PROVE  /\ c.list \in DOMAIN s /\ Copies(c.count, <<>>) \in Seq(Seq(Ext))
             /\ Len(Copies(c.count, <<>>)) = c.count
             /\ Executed(d, c) = Dev(WithOdts(s, c.list, Copies(c.count, <<>>)), a, p)
  <2> DEFINE n == c.list
             x == Copies(c.count, <<>>)
             l == [s[n] EXCEPT !.odts = x]
  <2>1. n \in DOMAIN s /\ c.count \in Nat
    BY <1>4, CommandFields DEF Accepts, Exists
  <2>2. x \in Seq(Seq(Ext)) /\ Len(x) = c.count
    <3>1. <<>> \in Seq(Ext)
      OBVIOUS
    <3> QED BY <2>1, <3>1, CopiesTyped
  <2>3. Executed(d, c) = [d EXCEPT !.lists = [s EXCEPT ![n] = l]]
    BY <1>4 DEF Executed
  <2> HIDE DEF s, a, p, n, x
  <2>4. Executed(d, c) = Dev(Replaced(s, n, l), a, p)
    <3> HIDE DEF l
    <3> QED BY <1>1, <1>2, <2>3, DevUpdated, ReplacedIs
  <2> QED BY <2>1, <2>2, <2>4 DEF WithOdts, n, x
<1>5. ASSUME c.cmd = "ALLOC_ODT_ENTRY"
      PROVE  LET o == s[c.list].odts
                 x == Emptied(o, c.odt, c.count)
             IN /\ c.list \in DOMAIN s /\ c.odt \in DOMAIN o /\ c.count \in Nat
                /\ x \in Seq(Seq(Ext)) /\ Len(x) = Len(o)
                /\ Executed(d, c) = Dev(WithOdts(s, c.list, x), "entries", p)
  <2> DEFINE n == c.list
             o == s[n].odts
             y == Copies(c.count, NoEntry)
             x == [o EXCEPT ![c.odt] = y]
             l == [s[n] EXCEPT !.odts = x]
  <2>1. n \in DOMAIN s /\ c.count \in Nat /\ c.odt \in DOMAIN o
    BY <1>5, CommandFields DEF Accepts, OdtExists, Exists
  <2>2. y \in Seq(Ext)
    <3>1. NoEntry \in Ext
      BY DEF NoEntry, Ext
    <3> QED BY <2>1, <3>1, CopiesTyped
  <2>3. x \in Seq(Seq(Ext)) /\ Len(x) = Len(o)
    <3>1. o \in Seq(Seq(Ext))
      BY <1>2, <2>1, ListUpdated
    <3> HIDE DEF o, y
    <3> QED BY <2>1, <2>2, <3>1, EntryReplaced
  <2>4. Executed(d, c) = [[d EXCEPT !.allocating = "entries"] EXCEPT !.lists = [s EXCEPT ![n] = l]]
    <3>1. Executed(d, c) = [d EXCEPT !.allocating = "entries",
                   !.lists[c.list].odts[c.odt] = Copies(c.count, NoEntry)]
      BY <1>5 DEF Executed
    <3>2. [d EXCEPT !.allocating = "entries"].lists = s
      BY <1>1, DevUpdated, DevFields
    <3> QED BY <3>1, <3>2
  <2> HIDE DEF s, a, p, n, x, o
  <2>5. Executed(d, c) = Dev(Replaced(s, n, l), "entries", p)
    <3> DEFINE g == "entries"
               z == [s EXCEPT ![n] = l]
    <3> HIDE DEF l
    <3>1. z = Replaced(s, n, l)
      BY <1>2, ReplacedIs
    <3>2. Executed(d, c) = [[d EXCEPT !.allocating = g] EXCEPT !.lists = z]
      BY <2>4
    <3> HIDE DEF g, z
    <3>3. [d EXCEPT !.allocating = g] = Dev(s, g, p)
      BY <1>1, DevUpdated
    <3>4. Executed(d, c) = Dev(z, g, p)
      BY <3>2, <3>3 DEF Dev
    <3> QED BY <3>1, <3>4 DEF g
  <2> QED BY <2>1, <2>3, <2>5 DEF WithOdts, Emptied, n, o, x
<1>6. ASSUME c.cmd = "SET_DAQ_PTR"
      PROVE  Executed(d, c) = Dev(s, a, <<c.list, c.odt, c.entry>>)
  <2> DEFINE q == <<c.list, c.odt, c.entry>>
  <2>1. Executed(d, c) = [d EXCEPT !.ptr = q]
    BY <1>6 DEF Executed
  <2> HIDE DEF q
  <2>2. Executed(d, c) = Dev(s, a, q)
    <3> HIDE DEF s, a, p
    <3>1. [Dev(s, a, p) EXCEPT !.ptr = q] = Dev(s, a, q)
      BY DevUpdated
    <3> QED BY <1>1, <2>1, <3>1
  <2> QED BY <2>2 DEF q
<1>7. ASSUME c.cmd = "WRITE_DAQ"
      PROVE  LET o == s[p[1]].odts
                 x == Entered(o, p[2], p[3], c.entry)
             IN /\ p[1] \in DOMAIN s /\ p[2] \in DOMAIN o /\ p[3] \in DOMAIN o[p[2]]
                /\ x \in Seq(Seq(Ext)) /\ Len(x) = Len(o)
                /\ Executed(d, c) = Dev(WithOdts(s, p[1], x), a, [p EXCEPT ![3] = @ + 1])
  <2> DEFINE n == p[1]
             j == p[2]
             k == p[3]
             o == s[n].odts
             y == [o[j] EXCEPT ![k] = c.entry]
             x == [o EXCEPT ![j] = y]
             l == [s[n] EXCEPT !.odts = x]
             q == [p EXCEPT ![3] = @ + 1]
  <2>1. n \in DOMAIN s /\ j \in DOMAIN o /\ k \in DOMAIN o[j] /\ c.entry \in Ext
    BY <1>7, CommandFields DEF Accepts, EntryExists, OdtExists, Exists
  <2>3. x \in Seq(Seq(Ext)) /\ Len(x) = Len(o)
    <3>1. o \in Seq(Seq(Ext))
      BY <1>2, <2>1, ListUpdated
    <3>2. y \in Seq(Ext)
      <4> HIDE DEF o, j, k
      <4> QED BY <2>1, <3>1, EntryReplaced
    <3> HIDE DEF o, y, j
    <3> QED BY <2>1, <3>1, <3>2, EntryReplaced
  <2>4. Executed(d, c) = [[d EXCEPT !.lists = [s EXCEPT ![n] = l]] EXCEPT !.ptr = q]
    <3>1. Executed(d, c) = [d EXCEPT !.lists[d.ptr[1]].odts[d.ptr[2]][d.ptr[3]] = c.entry,
                                     !.ptr[3] = @ + 1]
      BY <1>7 DEF Executed
    <3> DEFINE z == [s EXCEPT ![n] = l]
    <3>2. [d EXCEPT !.lists = z].ptr = p
      <4> HIDE DEF z
      <4> QED BY <1>1, DevUpdated, DevFields
    <3> QED BY <3>1, <3>2
  <2> HIDE DEF s, a, p, n, j, k, x, o, q
  <2>5. Executed(d, c) = Dev(Replaced(s, n, l), a, q)
    <3> DEFINE z == [s EXCEPT ![n] = l]
    <3> HIDE DEF l
    <3>1. z = Replaced(s, n, l)
      BY <1>2, ReplacedIs
    <3>2. Executed(d, c) = [[d EXCEPT !.lists = z] EXCEPT !.ptr = q]
      BY <2>4
    <3> HIDE DEF z
    <3>3. [d EXCEPT !.lists = z] = Dev(z, a, p)
      BY <1>1 DEF Dev
    <3>4. Executed(d, c) = Dev(z, a, q)
      BY <3>2, <3>3 DEF Dev
    <3> QED BY <3>1, <3>4
  <2>6. /\ n = p[1] /\ j = p[2] /\ k = p[3] /\ o = s[p[1]].odts /\ q = [p EXCEPT ![3] = @ + 1]
        /\ x = Entered(s[p[1]].odts, p[2], p[3], c.entry)
    BY DEF Entered, n, j, k, o, x, q
  <2> QED BY <2>1, <2>3, <2>5, <2>6 DEF WithOdts
<1>8. ASSUME c.cmd = "SET_DAQ_LIST_MODE"
      PROVE  LET l == Moded(s[c.list], c.mode, c.event)
             IN /\ c.list \in DOMAIN s /\ l \in DeviceLists /\ l.odts = s[c.list].odts
                /\ l.mode = c.mode /\ l.state = s[c.list].state
                /\ Executed(d, c) = Dev(Replaced(s, c.list, l), a, p)
  <2> DEFINE n == c.list
             x == c.mode
             y == c.event
             l == [s[n] EXCEPT !.mode = x, !.event = y]
  <2>1. n \in DOMAIN s /\ x \in SUBSET {"timestamp", "stim", "pid_off"} /\ y \in Nat
    BY <1>8, CommandFields DEF Accepts, Exists
  <2>2. /\ l \in DeviceLists /\ l.odts = s[n].odts /\ l.mode = x /\ l.state = s[n].state
    <3> DEFINE k == s[n]
    <3>1. k \in DeviceLists
      BY <1>2, <2>1
    <3> HIDE DEF k, x, y
    <3>2. LET u == Moded(k, x, y)
          IN u \in DeviceLists /\ u.odts = k.odts /\ u.mode = x /\ u.state = k.state
      BY <2>1, <3>1, ModeUpdated
    <3> QED BY <3>2 DEF k, x, y, Moded
  <2>3. Executed(d, c) = [d EXCEPT !.lists = [s EXCEPT ![n] = l]]
    <3>1. Executed(d, c) = [d EXCEPT !.lists[c.list].mode = c.mode, !.lists[c.list].event = c.event]
      BY <1>8 DEF Executed
    <3> DEFINE u == [s[n] EXCEPT !.mode = x]
               z == [s EXCEPT ![n] = u]
    <3>2. Executed(d, c) = [[d EXCEPT !.lists = z] EXCEPT !.lists[n].event = y]
      BY <3>1
    <3>3. [d EXCEPT !.lists = z] = Dev(z, a, p)
      <4> HIDE DEF z
      <4> QED BY <1>1, DevUpdated
    <3>4. Executed(d, c)
            = [Dev(z, a, p) EXCEPT !.lists = [z EXCEPT ![n] = [z[n] EXCEPT !.event = y]]]
      <4>1. Dev(z, a, p).lists = z
        <5> HIDE DEF z
        <5> QED BY DevFields
      <4> HIDE DEF z
      <4> QED BY <3>2, <3>3, <4>1
    <3>5. z[n] = u /\ [u EXCEPT !.event = y] = l
      <4>1. z[n] = u
        <5> HIDE DEF u
        <5> QED BY <1>2, <2>1
      <4> QED BY <4>1
    <3>6. [z EXCEPT ![n] = l] = [s EXCEPT ![n] = l]
      <4> HIDE DEF u, l
      <4> QED BY <1>2
    <3> DEFINE w == [s EXCEPT ![n] = l]
    <3>7. Executed(d, c) = [Dev(z, a, p) EXCEPT !.lists = w]
      <4> HIDE DEF z, u, l
      <4> QED BY <3>4, <3>5, <3>6
    <3> HIDE DEF z, w, s, a, p
    <3>8. Executed(d, c) = Dev(w, a, p) /\ [d EXCEPT !.lists = w] = Dev(w, a, p)
      <4>1. [Dev(z, a, p) EXCEPT !.lists = w] = Dev(w, a, p)
        BY DevUpdated
      <4>2. [Dev(s, a, p) EXCEPT !.lists = w] = Dev(w, a, p)
        BY DevUpdated
      <4> QED BY <1>1, <3>7, <4>1, <4>2
    <3> QED BY <3>8 DEF w
  <2> HIDE DEF s, a, p, n, x, y, l
  <2>4. Executed(d, c) = Dev(Replaced(s, n, l), a, p)
    BY <1>1, <1>2, <2>3, DevUpdated, ReplacedIs
  <2>5. l = Moded(s[c.list], c.mode, c.event) /\ n = c.list /\ x = c.mode
    BY DEF Moded, n, x, y, l
  <2> QED BY <2>1, <2>2, <2>4, <2>5
<1>9. ASSUME c.cmd = "START_STOP_DAQ_LIST"
      PROVE  LET l == [s[c.list] EXCEPT !.state = "selected"]
             IN /\ c.list \in DOMAIN s /\ l \in DeviceLists /\ l.odts = s[c.list].odts
                /\ l.mode = s[c.list].mode /\ l.state = "selected"
                /\ Executed(d, c) = Dev(Replaced(s, c.list, l), a, p)
  <2> DEFINE n == c.list
             l == [s[n] EXCEPT !.state = "selected"]
  <2>1. n \in DOMAIN s
    BY <1>9 DEF Accepts, Exists
  <2>2. /\ l \in DeviceLists /\ l.odts = s[n].odts /\ l.mode = s[n].mode /\ l.state = "selected"
    BY <1>2, <2>1, ListUpdated
  <2>3. Executed(d, c) = [d EXCEPT !.lists = [s EXCEPT ![n] = l]]
    BY <1>9 DEF Executed
  <2> HIDE DEF s, a, p, n, l
  <2>4. Executed(d, c) = Dev(Replaced(s, n, l), a, p)
    BY <1>1, <1>2, <2>3, DevUpdated, ReplacedIs
  <2> QED BY <2>1, <2>2, <2>4 DEF n, l
<1> QED BY <1>1, <1>4, <1>5, <1>6, <1>7, <1>8, <1>9

LEMMA ReplacedOdts ==
  ASSUME NEW s, NEW n, NEW l, NEW b, NEW q, NEW m \in DOMAIN s
  PROVE  /\ Dev(Replaced(s, n, l), b, q).lists[m].odts = IF m = n THEN l.odts ELSE s[m].odts
         /\ Dev(Replaced(s, n, l), b, q).ptr = q
<1>1. Dev(Replaced(s, n, l), b, q).lists = Replaced(s, n, l) /\ Dev(Replaced(s, n, l), b, q).ptr = q
  BY DevFields
<1>2. Replaced(s, n, l)[m] = IF m = n THEN l ELSE s[m]
  BY DEF Replaced
<1> QED BY <1>1, <1>2

(* The ODTs of list m and the pointer after a command.                     *)
After(d, e, c, m) ==
  /\ c.cmd \in {"SET_DAQ_PTR", "SET_DAQ_LIST_MODE", "START_STOP_DAQ_LIST"} =>
       e.lists[m].odts = d.lists[m].odts
  /\ c.cmd = "SET_DAQ_PTR" => e.ptr = <<c.list, c.odt, c.entry>>
  /\ c.cmd = "ALLOC_ODT_ENTRY" =>
       e.lists[m].odts = IF m = c.list THEN Emptied(d.lists[m].odts, c.odt, c.count)
                         ELSE d.lists[m].odts
  /\ c.cmd = "WRITE_DAQ" =>
       /\ e.lists[m].odts = IF m = d.ptr[1] THEN Entered(d.lists[m].odts, d.ptr[2], d.ptr[3], c.entry)
                            ELSE d.lists[m].odts
       /\ e.ptr = [d.ptr EXCEPT ![3] = @ + 1]

LEMMA OdtsAfter ==
  ASSUME NEW d, IsDevice(d), NEW c \in Commands, Accepts(d, c), NEW m \in DOMAIN d.lists
  PROVE  After(d, Executed(d, c), c, m)
<1> DEFINE e == Executed(d, c)
           s == d.lists
           a == d.allocating
           p == d.ptr
<1>0. s = [k \in DOMAIN s |-> s[k]] /\ \A k \in DOMAIN s : s[k] \in DeviceLists
  BY DEF IsDevice
<1>1. ASSUME c.cmd = "SET_DAQ_PTR"
      PROVE  e.lists[m].odts = s[m].odts /\ e.ptr = <<c.list, c.odt, c.entry>>
  <2> DEFINE q == <<c.list, c.odt, c.entry>>
  <2>1. e = Dev(s, a, q)
    BY <1>1, ExecutedTo
  <2> HIDE DEF e, q
  <2> QED BY <2>1, DevFields DEF q
<1>2. ASSUME c.cmd = "SET_DAQ_LIST_MODE" PROVE e.lists[m].odts = s[m].odts
  <2> DEFINE l == Moded(s[c.list], c.mode, c.event)
  <2>1. l.odts = s[c.list].odts /\ e = Dev(Replaced(s, c.list, l), a, p)
    BY <1>2, ExecutedTo
  <2> HIDE DEF e, l, s, a, p
  <2>2. Dev(Replaced(s, c.list, l), a, p).lists[m].odts = IF m = c.list THEN l.odts ELSE s[m].odts
    BY ReplacedOdts DEF s
  <2> QED BY <2>1, <2>2
<1>3. ASSUME c.cmd = "START_STOP_DAQ_LIST" PROVE e.lists[m].odts = s[m].odts
  <2> DEFINE l == [s[c.list] EXCEPT !.state = "selected"]
  <2>1. l.odts = s[c.list].odts /\ e = Dev(Replaced(s, c.list, l), a, p)
    BY <1>3, ExecutedTo
  <2> HIDE DEF e, l, s, a, p
  <2>2. Dev(Replaced(s, c.list, l), a, p).lists[m].odts = IF m = c.list THEN l.odts ELSE s[m].odts
    BY ReplacedOdts DEF s
  <2> QED BY <2>1, <2>2
<1>4. ASSUME c.cmd = "ALLOC_ODT_ENTRY"
      PROVE  e.lists[m].odts = IF m = c.list THEN Emptied(s[m].odts, c.odt, c.count) ELSE s[m].odts
  <2> DEFINE n == c.list
             x == Emptied(s[n].odts, c.odt, c.count)
             l == [s[n] EXCEPT !.odts = x]
  <2>1. n \in DOMAIN s /\ x \in Seq(Seq(Ext)) /\ e = Dev(WithOdts(s, n, x), "entries", p)
    BY <1>4, ExecutedTo
  <2>2. l.odts = x
    <3> HIDE DEF x, s
    <3>1. s[n] \in DeviceLists
      BY <1>0, <2>1
    <3> QED BY <2>1, <3>1, OdtsUpdated
  <2>3. e = Dev(Replaced(s, n, l), "entries", p)
    BY <2>1 DEF WithOdts
  <2> HIDE DEF e, l, s, a, p, n
  <2>4. Dev(Replaced(s, n, l), "entries", p).lists[m].odts = IF m = n THEN l.odts ELSE s[m].odts
    BY ReplacedOdts DEF s
  <2> QED BY <2>2, <2>3, <2>4 DEF n
<1>5. ASSUME c.cmd = "WRITE_DAQ"
      PROVE  /\ e.lists[m].odts = IF m = p[1] THEN Entered(s[m].odts, p[2], p[3], c.entry)
                                  ELSE s[m].odts
             /\ e.ptr = [p EXCEPT ![3] = @ + 1]
  <2> DEFINE n == p[1]
             x == Entered(s[n].odts, p[2], p[3], c.entry)
             l == [s[n] EXCEPT !.odts = x]
             q == [p EXCEPT ![3] = @ + 1]
  <2>1. n \in DOMAIN s /\ x \in Seq(Seq(Ext)) /\ e = Dev(WithOdts(s, n, x), a, q)
    BY <1>5, ExecutedTo
  <2>2. l.odts = x
    <3> HIDE DEF x, s
    <3>1. s[n] \in DeviceLists
      BY <1>0, <2>1
    <3> QED BY <2>1, <3>1, OdtsUpdated
  <2>3. e = Dev(Replaced(s, n, l), a, q)
    BY <2>1 DEF WithOdts
  <2> HIDE DEF e, l, s, a, q, n
  <2>4. /\ Dev(Replaced(s, n, l), a, q).lists[m].odts = IF m = n THEN l.odts ELSE s[m].odts
        /\ Dev(Replaced(s, n, l), a, q).ptr = q
    BY ReplacedOdts DEF s
  <2>5. e.ptr = q
    BY <2>3, <2>4
  <2>6. e.lists[m].odts = IF m = n THEN x ELSE s[m].odts
    BY <2>2, <2>3, <2>4
  <2> QED BY <2>5, <2>6 DEF n, q
<1> HIDE DEF e
<1> QED BY <1>1, <1>2, <1>3, <1>4, <1>5 DEF e, After

(***************************************************************************)
(* What is written to the device                                           *)
(***************************************************************************)
EntryOf(o) == [ext |-> o.ext, address |-> o.address, length |-> o.length]
OdtAt(d, i, j) == d.lists[Number(i)].odts[j]

(* When the first done commands are answered: the ODTs that were allocated *)
(* have their entries; those an SET_DAQ_PTR was sent for are written as    *)
(* far as WRITE_DAQ has gone, and the pointer is behind.                   *)
WrittenOdt(d, done, x, i, j) ==
  \A e \in 0 .. Len(EntriesOf(i, j)) :
    /\ e > 0 /\ x + e <= done => OdtAt(d, i, j)[e] = EntryOf(EntriesOf(i, j)[e])
    /\ x + e = done => d.ptr = <<Number(i), j, e + 1>>
Written(d, done) ==
  \A i \in Dynamic : \A j \in 1 .. Len(NewPlan[i]) : \A x \in 1 .. done :
    /\ Cmds[x] = AllocOdtEntry(NewPlan, i, j) => Len(OdtAt(d, i, j)) = Len(EntriesOf(i, j))
    /\ Cmds[x] = SetDaqPtr(i, j) => WrittenOdt(d, done, x, i, j)

(* ... and what the device reads when all is written.                      *)
Filled(d) ==
  \A i \in ListIndices : \A j \in 1 .. Len(NewPlan[i]) :
    OdtAt(d, i, j) = [e \in 1 .. Len(EntriesOf(i, j)) |-> EntryOf(EntriesOf(i, j)[e])]

(* Of what kind the commands for an ODT are.                               *)
LEMMA Kinds ==
  ASSUME config \in Configurations, NEW i \in Dynamic, NEW j \in 1 .. Len(NewPlan[i])
  PROVE  /\ AllocOdtEntry(NewPlan, i, j) \in StageItems[3] /\ SetDaqPtr(i, j) \in StageItems[4]
         /\ AllocOdt(NewPlan, i) \in StageItems[2]
         /\ \A e \in 1 .. Len(EntriesOf(i, j)) : WriteDaq(EntriesOf(i, j)[e]) \in StageItems[4]
<1>1. i \in ListIndices
  BY DEF Dynamic
<1>2. /\ NewPlan[i][j].entries \in Seq(Entries) /\ Len(NewPlan[i][j].entries) \in Nat
      /\ Number(i) \in Nat /\ Len(NewPlan[i]) \in Nat /\ j \in Nat
  BY <1>1, PlanList, NumberTyped
<1>3. AllocOdtEntry(NewPlan, i, j) \in AllocEntries
  BY <1>2 DEF AllocOdtEntry, AllocEntries
<1>4. SetDaqPtr(i, j) \in SetPtrs
  BY <1>2 DEF SetDaqPtr, SetPtrs
<1>5. AllocOdt(NewPlan, i) \in AllocOdts
  BY <1>2 DEF AllocOdt, AllocOdts
<1>6. ASSUME NEW e \in 1 .. Len(EntriesOf(i, j)) PROVE WriteDaq(EntriesOf(i, j)[e]) \in Writes
  <2> DEFINE es == EntriesOf(i, j)
             o == es[e]
  <2>1. es \in Seq(Entries) /\ e \in 1 .. Len(es)
    BY <1>2 DEF EntriesOf
  <2>2. o \in Entries
    <3> HIDE DEF es
    <3> QED BY <2>1, ElementOfSeq
  <2> HIDE DEF o
  <2> DEFINE y == [ext |-> o.ext, address |-> o.address, length |-> o.length]
  <2>3. y \in Ext
    BY <2>2, EntryTyped
  <2>4. WriteDaq(o) = [cmd |-> "WRITE_DAQ", entry |-> y]
    BY DEF WriteDaq
  <2> HIDE DEF y
  <2>5. WriteDaq(o) \in Writes
    BY <2>3, <2>4 DEF Writes
  <2> QED BY <2>5 DEF o
<1>7. StageItems[3] = AllocEntries /\ StageItems[4] = SetPtrs \cup Writes /\ StageItems[2] = AllocOdts
  BY DEF StageItems
<1> QED BY <1>3, <1>4, <1>5, <1>6, <1>7

(* An ODT whose entries were allocated is one of the list.                 *)
LEMMA OdtThere ==
  ASSUME config \in Configurations, NEW d, NEW k \in 0 .. Len(Cmds), NEW pids, Suited(d, k, pids),
         NEW i \in Dynamic, NEW j \in 1 .. Len(NewPlan[i]), ~Props.static, NEW x \in 1 .. Len(Cmds),
         NEW s \in {3, 4}, Cmds[x] \in StageItems[s], x <= k + 1
  PROVE  /\ k >= 2 /\ Number(i) \in DOMAIN d.lists /\ Numbered(d)
         /\ d.lists[Number(i)].odts \in Seq(Seq(Ext))
         /\ OdtsOf(d, i) = Len(NewPlan[i])
         /\ j \in DOMAIN d.lists[Number(i)].odts /\ OdtAt(d, i, j) \in Seq(Ext)
<1>0. i \in ListIndices /\ Len(Cmds) \in Nat
  BY CmdsTyped DEF Dynamic
<1>1. PICK y \in 1 .. FirstOf(5) : Cmds[y] = AllocOdt(NewPlan, i)
  BY Places
<1>2. y \in 1 .. Len(Cmds) /\ Cmds[y] \in StageItems[2]
  <2>1. FirstOf(5) \in Nat /\ FirstOf(5) <= Len(Cmds)
    BY StageEnds, Places
  <2>2. y \in 1 .. Len(Cmds)
    <3> DEFINE F == FirstOf(5)
               L == Len(Cmds)
    <3>1. F \in Nat /\ F <= L /\ L \in Nat /\ y \in 1 .. F
      BY <1>0, <2>1
    <3> HIDE DEF F, L
    <3>2. y \in 1 .. L
      BY <3>1
    <3> QED BY <3>2 DEF L
  <2>3. AllocOdt(NewPlan, i) \in StageItems[2]
    BY Kinds
  <2> QED BY <1>1, <2>2, <2>3
<1>3. y < x
  <2>1. SUFFICES ASSUME x <= y PROVE FALSE
    <3>1. x \in Int /\ y \in Int
      OBVIOUS
    <3> QED BY <3>1
  <2>2. 2 \in 1 .. 5 /\ s \in 1 .. 5
    OBVIOUS
  <2>3. s <= 2
    BY <1>2, <2>1, <2>2, InOrder
  <2> QED BY <2>3
<1>4. y \in 1 .. k
  <2> HIDE DEF Cmds
  <2> QED BY <1>0, <1>3
<1>5. OdtsOf(d, i) = Len(NewPlan[i])
  <2>1. Effected(d, Cmds[y])
    BY <1>4 DEF Suited, SetUp
  <2> QED BY <1>0, <1>1, <2>1 DEF Effected
<1>6. k >= 2
  <2>1. PICK l \in 1 .. Len(Stages[2]) : y = FirstOf(2) + l
    <3>1. 2 \in 1 .. 5
      OBVIOUS
    <3> QED BY <1>2, <3>1, StageOf
  <2>2. FirstOf(2) = 2
    <3>1. Stages[1] = Opening
      BY DEF Stages
    <3>2. Len(Stages[1]) = 2
      BY <3>1 DEF Opening
    <3>3. 1 \in 1 .. 4 /\ 1 + 1 = 2
      OBVIOUS
    <3>4. FirstOf(2) = FirstOf(1) + Len(Stages[1]) /\ FirstOf(1) = 0
      BY <3>3, CmdsTyped
    <3> QED BY <3>2, <3>4
  <2>3. Len(Stages[2]) \in Nat
    BY StageEnds
  <2>4. l >= 1 /\ l \in Nat
    BY <2>3
  <2>5. y >= 3
    BY <2>1, <2>2, <2>4
  <2>6. k \in Nat
    <3> HIDE DEF Cmds
    <3> QED BY <1>0
  <2> QED BY <1>4, <2>5, <2>6
<1>7. Numbered(d) /\ IsDevice(d)
  BY <1>6 DEF Suited, SetUp
<1>8. Number(i) \in DOMAIN d.lists
  BY <1>0, <1>7 DEF Numbered
<1> DEFINE o == d.lists[Number(i)].odts
           X == Seq(Ext)
<1>9. o \in Seq(X)
  <2> DEFINE l == d.lists[Number(i)]
  <2>1. l \in DeviceLists
    BY <1>7, <1>8 DEF IsDevice
  <2> HIDE DEF l
  <2>2. l.odts \in Seq(Seq(Ext))
    BY <2>1, ListUpdated
  <2> QED BY <2>2 DEF l
<1>10. j \in 1 .. Len(o)
  BY <1>5 DEF OdtsOf
<1>11. o \in Seq(Seq(Ext))
  BY <1>9
<1> HIDE DEF o, X
<1>12. j \in DOMAIN o /\ o[j] \in X
  BY <1>9, <1>10, LenProperties, ElementOfSeq
<1> QED BY <1>5, <1>6, <1>7, <1>8, <1>11, <1>12 DEF o, X, OdtAt

(* A command leads from Written to Written: those of the stages 1, 2 and 5 *)
(* do not touch the entries; ...                                           *)
LEMMA WrittenByOthers ==
  ASSUME config \in Configurations, NEW d, NEW k \in 0 .. Len(Cmds) - 1, NEW pids,
         Suited(d, k, pids), ~Props.static, Written(d, k), Accepts(d, Cmds[k + 1]),
         NEW s \in {1, 2, 5}, Cmds[k + 1] \in StageItems[s]
  PROVE  Written(Executed(d, Cmds[k + 1]), k + 1)
<1> DEFINE c == Cmds[k + 1]
           e == Executed(d, c)
<1>0. Len(Cmds) \in Nat /\ k \in Nat /\ k + 1 \in 1 .. Len(Cmds) /\ s \in 1 .. 5 /\ k \in 0 .. Len(Cmds)
  <2>1. Len(Cmds) \in Nat
    BY CmdsTyped
  <2> HIDE DEF Cmds
  <2> QED BY <2>1
<1> SUFFICES ASSUME NEW i \in Dynamic, NEW j \in 1 .. Len(NewPlan[i]), NEW x \in 1 .. k + 1
             PROVE  /\ Cmds[x] = AllocOdtEntry(NewPlan, i, j) =>
                         Len(OdtAt(e, i, j)) = Len(EntriesOf(i, j))
                    /\ Cmds[x] = SetDaqPtr(i, j) => WrittenOdt(e, k + 1, x, i, j)
  BY DEF Written
<1>1. x \in 1 .. Len(Cmds) /\ x <= k + 1
  <2> HIDE DEF Cmds
  <2> QED BY <1>0
<1>2. /\ AllocOdtEntry(NewPlan, i, j) \in StageItems[3] /\ SetDaqPtr(i, j) \in StageItems[4]
      /\ \A f \in 1 .. Len(EntriesOf(i, j)) : WriteDaq(EntriesOf(i, j)[f]) \in StageItems[4]
  BY Kinds
<1>3. ASSUME NEW t \in {3, 4}, NEW y \in 1 .. k + 1, Cmds[y] \in StageItems[t]
      PROVE  s = 5 /\ y \in 1 .. k
  <2>1. t \in 1 .. 5 /\ y \in 1 .. Len(Cmds) /\ y <= k + 1
    <3> HIDE DEF Cmds
    <3> QED BY <1>0
  <2>2. t <= s
    BY <1>0, <1>3, <2>1, InOrder
  <2>3. s = 5
    BY <2>2
  <2>4. y # k + 1
    <3>1. SUFFICES ASSUME y = k + 1 PROVE FALSE
      OBVIOUS
    <3>2. k + 1 <= y
      BY <3>1, <1>0
    <3>3. s <= t
      BY <1>0, <1>3, <2>1, <3>2, InOrder
    <3> QED BY <2>3, <3>3
  <2> QED BY <1>0, <2>3, <2>4
<1>4. ASSUME NEW t \in {3, 4}, Cmds[x] \in StageItems[t]
      PROVE  /\ OdtAt(e, i, j) = OdtAt(d, i, j) /\ x \in 1 .. k /\ s = 5
  <2>1. s = 5 /\ x \in 1 .. k
    BY <1>3, <1>4
  <2>2. Number(i) \in DOMAIN d.lists /\ IsDevice(d)
    BY <1>0, <1>1, <1>4, OdtThere DEF Suited
  <2>3. c \in Selections
    BY <2>1 DEF StageItems
  <2>4. c \in Commands /\ c.cmd \in {"SET_DAQ_LIST_MODE", "START_STOP_DAQ_LIST"}
    <3> HIDE DEF c
    <3> QED BY <2>3 DEF Commands, Selections, Modes, Starts
  <2>5. e.lists[Number(i)].odts = d.lists[Number(i)].odts
    <3> DEFINE m == Number(i)
    <3>1. IsDevice(d) /\ Accepts(d, c) /\ m \in DOMAIN d.lists
      BY <2>2
    <3> HIDE DEF c, m
    <3>2. After(d, e, c, m)
      BY <2>4, <3>1, OdtsAfter
    <3> QED BY <2>4, <3>2 DEF After, m
  <2> QED BY <2>1, <2>5 DEF OdtAt
<1>5. Cmds[x] = AllocOdtEntry(NewPlan, i, j) => Len(OdtAt(e, i, j)) = Len(EntriesOf(i, j))
  <2>1. SUFFICES ASSUME Cmds[x] = AllocOdtEntry(NewPlan, i, j)
                 PROVE  Len(OdtAt(e, i, j)) = Len(EntriesOf(i, j))
    OBVIOUS
  <2>2. OdtAt(e, i, j) = OdtAt(d, i, j) /\ x \in 1 .. k
    BY <1>2, <1>4, <2>1
  <2> QED BY <2>1, <2>2 DEF Written
<1>6. ASSUME Cmds[x] = SetDaqPtr(i, j) PROVE WrittenOdt(e, k + 1, x, i, j)
  <2>1. OdtAt(e, i, j) = OdtAt(d, i, j) /\ x \in 1 .. k
    BY <1>2, <1>4, <1>6
  <2>2. WrittenOdt(d, k, x, i, j)
    BY <1>6, <2>1 DEF Written
  <2>3. Laid(x, i, j)
    BY <1>1, <1>6, LaidOnce
  <2>4. ASSUME NEW f \in 0 .. Len(EntriesOf(i, j)) PROVE x + f # k + 1
    <3>1. SUFFICES ASSUME x + f = k + 1 PROVE FALSE
      OBVIOUS
    <3>2. f # 0
      BY <2>1, <3>1
    <3>3. Cmds[k + 1] \in StageItems[4]
      <4>1. f \in 1 .. Len(EntriesOf(i, j))
        BY <3>2
      <4>2. Cmds[x + f] = WriteDaq(EntriesOf(i, j)[f])
        BY <2>3, <4>1 DEF Laid
      <4> QED BY <1>2, <3>1, <4>1, <4>2
    <3>4. k + 1 \in 1 .. k
      <4>1. k + 1 \in 1 .. k + 1
        BY <1>0
      <4> QED BY <1>3, <3>3, <4>1
    <3> QED BY <1>0, <3>4
  <2> SUFFICES ASSUME NEW f \in 0 .. Len(EntriesOf(i, j))
               PROVE  /\ f > 0 /\ x + f <= k + 1 => OdtAt(e, i, j)[f] = EntryOf(EntriesOf(i, j)[f])
                      /\ x + f = k + 1 => e.ptr = <<Number(i), j, f + 1>>
    BY DEF WrittenOdt
  <2>5. x + f <= k + 1 => x + f <= k
    <3>1. x + f # k + 1
      BY <2>4
    <3> QED BY <1>0, <3>1
  <2> HIDE DEF e
  <2> QED BY <2>1, <2>2, <2>4, <2>5 DEF WrittenOdt
<1> QED BY <1>5, <1>6

(* An ALLOC_ODT_ENTRY is for an ODT of the plan.                           *)
LEMMA AllocFrom ==
  ASSUME config \in Configurations, NEW y \in 1 .. Len(Cmds), Cmds[y] \in AllocEntries
  PROVE  \E i \in Dynamic : \E j \in 1 .. Len(NewPlan[i]) : Cmds[y] = AllocOdtEntry(NewPlan, i, j)
<1>1. 3 \in 1 .. 5 /\ StageItems[3] = AllocEntries
  BY DEF StageItems
<1>2. PICK p \in 1 .. Len(Stages[3]) : y = FirstOf(3) + p /\ Cmds[y] = Stages[3][p]
  BY <1>1, StageOf
<1>3. ~Props.static
  <2>1. Props.static => Stages[3] = <<>>
    BY DEF Stages
  <2>2. Len(<<>>) = 0
    OBVIOUS
  <2> QED BY <1>2, <2>1, <2>2
<1> DEFINE n == Len(config.lists)
           f == EntryCommands
           X == AllocEntries
<1>4. /\ n \in Nat /\ ListIndices = 1 .. n /\ Stages[3] = FlattenSeq(Pieces(f, n))
      /\ \A q \in 1 .. n : f[q] \in Seq(X)
  <2>1. n \in Nat /\ ListIndices = 1 .. n
    BY ConfigTyped
  <2>2. Stages[3] = AllocateEntries(NewPlan)
    BY <1>3 DEF Stages
  <2>3. Stages[3] = FlattenSeq(Pieces(f, n))
    BY <2>2, StagesTyped
  <2> QED BY <2>1, <2>3, EntryCommandsTyped
<1>5. ComesFrom(f, n, p)
  <2>1. p \in 1 .. Len(FlattenSeq(Pieces(f, n)))
    BY <1>2, <1>4
  <2> HIDE DEF n, f, X
  <2> QED BY <1>4, <2>1, FlattenSplit
<1>6. PICK i \in 1 .. n : \E k \in 1 .. Len(f[i]) : FlattenSeq(Pieces(f, n))[p] = f[i][k]
  BY <1>5 DEF ComesFrom
<1>7. PICK k \in 1 .. Len(f[i]) : FlattenSeq(Pieces(f, n))[p] = f[i][k]
  BY <1>6
<1>8. i \in ListIndices
  BY <1>4
<1>9. i \in Dynamic /\ Len(f[i]) = Len(NewPlan[i])
  <2>1. Len(f[i]) = IF i \in Dynamic THEN Len(NewPlan[i]) ELSE 0
    BY <1>8, EntryCommandsTyped
  <2> QED BY <1>7, <2>1
<1>10. k \in 1 .. Len(NewPlan[i])
  BY <1>9
<1>11. Cmds[y] = f[i][k]
  BY <1>2, <1>4, <1>7
<1>12. f[i][k] = AllocOdtEntry(NewPlan, i, k)
  BY <1>8, <1>9, <1>10, EntryCommandsTyped
<1> QED BY <1>9, <1>10, <1>11, <1>12

LEMMA EmptiedIs ==
  ASSUME NEW o \in Seq(Seq(Ext)), NEW m \in DOMAIN o, NEW n \in Nat, NEW j \in DOMAIN o
  PROVE  Emptied(o, m, n)[j] = (IF j = m THEN Copies(n, NoEntry) ELSE o[j]) /\ Len(Copies(n, NoEntry)) = n
<1>1. NoEntry \in Ext
  BY DEF NoEntry, Ext
<1>2. Len(Copies(n, NoEntry)) = n
  BY <1>1, CopiesTyped
<1> DEFINE y == Copies(n, NoEntry)
<1>3. Emptied(o, m, n) = [o EXCEPT ![m] = y]
  BY DEF Emptied
<1> HIDE DEF y
<1> QED BY <1>2, <1>3 DEF y

(* ... ALLOC_ODT_ENTRY makes the entries of one ODT; ...                   *)
LEMMA WrittenByAlloc ==
  ASSUME config \in Configurations, NEW d, NEW k \in 0 .. Len(Cmds) - 1, NEW pids,
         Suited(d, k, pids), ~Props.static, Written(d, k), Accepts(d, Cmds[k + 1]),
         Cmds[k + 1] \in StageItems[3]
  PROVE  Written(Executed(d, Cmds[k + 1]), k + 1)
<1> DEFINE c == Cmds[k + 1]
           e == Executed(d, c)
<1>0. Len(Cmds) \in Nat /\ k \in Nat /\ k + 1 \in 1 .. Len(Cmds) /\ k \in 0 .. Len(Cmds)
  <2>1. Len(Cmds) \in Nat
    BY CmdsTyped
  <2> HIDE DEF Cmds
  <2> QED BY <2>1
<1>1. PICK p \in Dynamic : \E q \in 1 .. Len(NewPlan[p]) : c = AllocOdtEntry(NewPlan, p, q)
  BY <1>0, AllocFrom DEF StageItems
<1>2. PICK q \in 1 .. Len(NewPlan[p]) : c = AllocOdtEntry(NewPlan, p, q)
  BY <1>1
<1>3. p \in ListIndices /\ Len(EntriesOf(p, q)) \in Nat
  <2>1. p \in ListIndices
    BY DEF Dynamic
  <2> QED BY <2>1, PlanList DEF EntriesOf
<1>4. /\ c \in Commands /\ c.cmd = "ALLOC_ODT_ENTRY" /\ c.list = Number(p) /\ c.odt = q
      /\ c.count = Len(EntriesOf(p, q))
  <2>1. c \in AllocEntries
    BY DEF StageItems
  <2>2. c \in Commands
    BY <2>1 DEF Commands, Allocations
  <2> HIDE DEF c
  <2> QED BY <1>2, <2>2 DEF AllocOdtEntry, EntriesOf
<1> SUFFICES ASSUME NEW i \in Dynamic, NEW j \in 1 .. Len(NewPlan[i]), NEW x \in 1 .. k + 1
             PROVE  /\ Cmds[x] = AllocOdtEntry(NewPlan, i, j) =>
                         Len(OdtAt(e, i, j)) = Len(EntriesOf(i, j))
                    /\ Cmds[x] = SetDaqPtr(i, j) => WrittenOdt(e, k + 1, x, i, j)
  BY DEF Written
<1>5. x \in 1 .. Len(Cmds) /\ x <= k + 1 /\ i \in ListIndices
  <2>1. i \in ListIndices
    BY DEF Dynamic
  <2> HIDE DEF Cmds
  <2> QED BY <1>0, <2>1
<1>6. AllocOdtEntry(NewPlan, i, j) \in StageItems[3] /\ SetDaqPtr(i, j) \in StageItems[4]
  BY Kinds
<1>7. Cmds[x] # SetDaqPtr(i, j)
  <2>1. SUFFICES ASSUME Cmds[x] = SetDaqPtr(i, j) PROVE FALSE
    OBVIOUS
  <2>2. 3 \in 1 .. 5 /\ 4 \in 1 .. 5
    OBVIOUS
  <2>3. 4 <= 3
    BY <1>0, <1>5, <1>6, <2>1, <2>2, InOrder
  <2> QED BY <2>3
<1>8. ASSUME Cmds[x] = AllocOdtEntry(NewPlan, i, j)
      PROVE  Len(OdtAt(e, i, j)) = Len(EntriesOf(i, j))
  <2> DEFINE o == d.lists[Number(i)].odts
  <2>1. IsDevice(d) /\ Number(i) \in DOMAIN d.lists /\ o \in Seq(Seq(Ext)) /\ j \in DOMAIN o
        /\ OdtsOf(d, i) = Len(NewPlan[i]) /\ DOMAIN o = 1 .. Len(NewPlan[i])
    <3>1. 3 \in {3, 4} /\ IsDevice(d)
      BY DEF Suited
    <3>2. /\ Number(i) \in DOMAIN d.lists /\ o \in Seq(Seq(Ext)) /\ j \in DOMAIN o
          /\ OdtsOf(d, i) = Len(NewPlan[i])
      BY <1>0, <1>5, <1>6, <1>8, <3>1, OdtThere
    <3>3. DOMAIN o = 1 .. Len(o)
      <4> DEFINE X == Seq(Ext)
      <4>1. o \in Seq(X)
        BY <3>2
      <4> HIDE DEF X, o
      <4> QED BY <4>1, LenProperties
    <3> QED BY <3>1, <3>2, <3>3 DEF OdtsOf
  <2>2. e.lists[Number(i)].odts = IF Number(i) = c.list THEN Emptied(o, c.odt, c.count) ELSE o
    <3> DEFINE m == Number(i)
    <3>1. /\ c \in Commands /\ c.cmd = "ALLOC_ODT_ENTRY" /\ IsDevice(d) /\ Accepts(d, c)
          /\ m \in DOMAIN d.lists
      BY <1>4, <2>1
    <3> HIDE DEF c, m, o
    <3>2. After(d, e, c, m)
      BY <3>1, OdtsAfter
    <3> QED BY <3>1, <3>2 DEF After, m, o
  <2>3. x \in 1 .. k => Len(OdtAt(d, i, j)) = Len(EntriesOf(i, j))
    BY <1>8 DEF Written
  <2>4. CASE i = p /\ j = q
    <3>1. Number(i) = c.list /\ c.odt = j /\ c.count = Len(EntriesOf(i, j))
      BY <1>4, <2>4
    <3>2. OdtAt(e, i, j) = Emptied(o, c.odt, c.count)[j]
      BY <2>2, <3>1 DEF OdtAt
    <3>3. Emptied(o, c.odt, c.count)[j] = Copies(c.count, NoEntry) /\ Len(Copies(c.count, NoEntry)) = c.count
      <4> DEFINE m == c.count
                 l == c.odt
      <4>1. l \in DOMAIN o /\ m \in Nat /\ j = l /\ j \in DOMAIN o /\ o \in Seq(Seq(Ext))
        BY <1>3, <2>1, <2>4, <3>1
      <4> HIDE DEF m, l, o
      <4>2. Emptied(o, l, m)[j] = Copies(m, NoEntry) /\ Len(Copies(m, NoEntry)) = m
        BY <4>1, EmptiedIs
      <4> QED BY <4>2 DEF m, l
    <3> QED BY <3>1, <3>2, <3>3
  <2>5. CASE ~(i = p /\ j = q)
    <3>1. x # k + 1
      <4>1. SUFFICES ASSUME x = k + 1 PROVE FALSE
        OBVIOUS
      <4>2. AllocOdtEntry(NewPlan, i, j) = AllocOdtEntry(NewPlan, p, q)
        BY <1>2, <1>8, <4>1
      <4> QED BY <1>3, <1>5, <2>5, <4>2, SamePlace
    <3>2. x \in 1 .. k
      BY <1>0, <3>1
    <3>3. OdtAt(e, i, j) = OdtAt(d, i, j)
      <4>1. CASE Number(i) # c.list
        BY <2>2, <4>1 DEF OdtAt
      <4>2. CASE Number(i) = c.list
        <5>1. i = p
          BY <1>3, <1>4, <1>5, <4>2, Numbers
        <5> DEFINE m == c.count
                   l == c.odt
        <5>2. l \in DOMAIN o /\ m \in Nat /\ j # l /\ j \in DOMAIN o /\ o \in Seq(Seq(Ext))
          <6>1. l = q /\ m = Len(EntriesOf(p, q))
            BY <1>4
          <6> QED BY <1>3, <2>1, <2>5, <5>1, <6>1
        <5> HIDE DEF m, l
        <5>3. Emptied(o, l, m)[j] = o[j]
          <6> HIDE DEF o
          <6> QED BY <5>2, EmptiedIs
        <5>4. e.lists[Number(i)].odts = Emptied(o, l, m)
          BY <2>2, <4>2 DEF m, l
        <5> QED BY <5>3, <5>4 DEF OdtAt
      <4> QED BY <4>1, <4>2
    <3> QED BY <2>3, <3>2, <3>3
  <2> QED BY <2>4, <2>5
<1> QED BY <1>7, <1>8

(* ... SET_DAQ_PTR sets the pointer to the first entry of an ODT; ...      *)
LEMMA WrittenByPtr ==
  ASSUME config \in Configurations, NEW d, NEW k \in 0 .. Len(Cmds) - 1, NEW pids,
         Suited(d, k, pids), ~Props.static, Written(d, k), Accepts(d, Cmds[k + 1]),
         Cmds[k + 1] \in SetPtrs
  PROVE  Written(Executed(d, Cmds[k + 1]), k + 1)
<1> DEFINE c == Cmds[k + 1]
           e == Executed(d, c)
<1>0. Len(Cmds) \in Nat /\ k \in Nat /\ k + 1 \in 1 .. Len(Cmds) /\ k \in 0 .. Len(Cmds)
  <2>1. Len(Cmds) \in Nat
    BY CmdsTyped
  <2> HIDE DEF Cmds
  <2> QED BY <2>1
<1>1. c \in Commands /\ c.cmd = "SET_DAQ_PTR" /\ IsDevice(d) /\ Accepts(d, c)
  <2>1. c \in SetPtrs /\ IsDevice(d) /\ Accepts(d, c)
    BY DEF Suited
  <2> HIDE DEF c
  <2> QED BY <2>1 DEF Commands, Allocations, SetPtrs
<1> SUFFICES ASSUME NEW i \in Dynamic, NEW j \in 1 .. Len(NewPlan[i]), NEW x \in 1 .. k + 1
             PROVE  /\ Cmds[x] = AllocOdtEntry(NewPlan, i, j) =>
                         Len(OdtAt(e, i, j)) = Len(EntriesOf(i, j))
                    /\ Cmds[x] = SetDaqPtr(i, j) => WrittenOdt(e, k + 1, x, i, j)
  BY DEF Written
<1>2. /\ AllocOdtEntry(NewPlan, i, j) \in StageItems[3] /\ SetDaqPtr(i, j) \in StageItems[4]
      /\ x \in 1 .. Len(Cmds) /\ x <= k + 1
  <2>1. x \in 1 .. Len(Cmds) /\ x <= k + 1
    <3> HIDE DEF Cmds
    <3> QED BY <1>0
  <2> QED BY <2>1, Kinds
<1>3. ASSUME NEW s \in {3, 4}, Cmds[x] \in StageItems[s]
      PROVE  OdtAt(e, i, j) = OdtAt(d, i, j) /\ After(d, e, c, Number(i))
  <2> DEFINE m == Number(i)
  <2>1. m \in DOMAIN d.lists
    BY <1>0, <1>2, <1>3, OdtThere
  <2> HIDE DEF c, m
  <2>2. After(d, e, c, m)
    BY <1>1, <2>1, OdtsAfter
  <2>3. e.lists[m].odts = d.lists[m].odts
    BY <1>1, <2>2 DEF After
  <2> QED BY <2>2, <2>3 DEF m, OdtAt
<1>4. ASSUME Cmds[x] = AllocOdtEntry(NewPlan, i, j)
      PROVE  Len(OdtAt(e, i, j)) = Len(EntriesOf(i, j))
  <2>1. OdtAt(e, i, j) = OdtAt(d, i, j)
    BY <1>2, <1>3, <1>4
  <2>2. x \in 1 .. k
    <3>1. AllocOdtEntry(NewPlan, i, j).cmd = "ALLOC_ODT_ENTRY"
      BY DEF AllocOdtEntry
    <3>2. x # k + 1
      BY <1>1, <1>4, <3>1
    <3> QED BY <1>0, <3>2
  <2> QED BY <1>4, <2>1, <2>2 DEF Written
<1>5. ASSUME Cmds[x] = SetDaqPtr(i, j) PROVE WrittenOdt(e, k + 1, x, i, j)
  <2>1. OdtAt(e, i, j) = OdtAt(d, i, j) /\ After(d, e, c, Number(i))
    BY <1>2, <1>3, <1>5
  <2>2. Laid(x, i, j)
    BY <1>2, <1>5, LaidOnce
  <2> SUFFICES ASSUME NEW f \in 0 .. Len(EntriesOf(i, j))
               PROVE  /\ f > 0 /\ x + f <= k + 1 => OdtAt(e, i, j)[f] = EntryOf(EntriesOf(i, j)[f])
                      /\ x + f = k + 1 => e.ptr = <<Number(i), j, f + 1>>
    BY DEF WrittenOdt
  <2>3. ASSUME f > 0 PROVE x + f # k + 1
    <3>1. f \in 1 .. Len(EntriesOf(i, j))
      BY <2>3
    <3>2. Cmds[x + f] = WriteDaq(EntriesOf(i, j)[f])
      BY <2>2, <3>1 DEF Laid
    <3>3. WriteDaq(EntriesOf(i, j)[f]).cmd = "WRITE_DAQ"
      BY DEF WriteDaq
    <3> QED BY <1>1, <3>2, <3>3
  <2>4. ASSUME f > 0, x + f <= k + 1 PROVE OdtAt(e, i, j)[f] = EntryOf(EntriesOf(i, j)[f])
    <3>1. x + f <= k /\ x \in 1 .. k
      BY <1>0, <2>3, <2>4
    <3>2. WrittenOdt(d, k, x, i, j)
      BY <1>5, <3>1 DEF Written
    <3>3. OdtAt(d, i, j)[f] = EntryOf(EntriesOf(i, j)[f])
      BY <2>4, <3>1, <3>2 DEF WrittenOdt
    <3> QED BY <2>1, <3>3
  <2>5. ASSUME x + f = k + 1 PROVE e.ptr = <<Number(i), j, f + 1>>
    <3>1. f = 0
      BY <2>3, <2>5
    <3>2. c = SetDaqPtr(i, j)
      BY <1>0, <1>5, <2>5, <3>1
    <3>3. c.list = Number(i) /\ c.odt = j /\ c.entry = 1
      BY <3>2 DEF SetDaqPtr
    <3>4. e.ptr = <<c.list, c.odt, c.entry>>
      BY <1>1, <2>1 DEF After
    <3> QED BY <3>1, <3>3, <3>4
  <2> QED BY <2>4, <2>5
<1> QED BY <1>4, <1>5

LEMMA EnteredIs ==
  ASSUME NEW o \in Seq(Seq(Ext)), NEW m \in DOMAIN o, NEW n \in DOMAIN o[m], NEW x \in Ext,
         NEW j \in DOMAIN o
  PROVE  /\ Len(Entered(o, m, n, x)[j]) = Len(o[j])
         /\ \A f \in DOMAIN o[j] : Entered(o, m, n, x)[j][f] = IF j = m /\ f = n THEN x ELSE o[j][f]
<1> DEFINE y == [o[m] EXCEPT ![n] = x]
           r == o[m]
           X == Seq(Ext)
<1>1. o \in Seq(X) /\ r \in Seq(Ext)
  <2>1. o \in Seq(X)
    OBVIOUS
  <2> HIDE DEF X
  <2>2. o[m] \in X
    BY <2>1
  <2> QED BY <2>1, <2>2 DEF X
<1>2. Len(y) = Len(r) /\ \A f \in DOMAIN r : y[f] = IF f = n THEN x ELSE r[f]
  <2>1. y = [r EXCEPT ![n] = x] /\ n \in DOMAIN r
    OBVIOUS
  <2> HIDE DEF r, y
  <2> QED BY <1>1, <2>1
<1>3. Entered(o, m, n, x) = [o EXCEPT ![m] = y]
  BY DEF Entered
<1>4. Entered(o, m, n, x)[j] = IF j = m THEN y ELSE o[j]
  <2> HIDE DEF y
  <2> QED BY <1>3
<1>5. CASE j = m
  <2> HIDE DEF y
  <2> QED BY <1>2, <1>4, <1>5
<1>6. CASE j # m
  <2>1. Entered(o, m, n, x)[j] = o[j]
    BY <1>4, <1>6
  <2> QED BY <1>6, <2>1
<1> QED BY <1>5, <1>6

(* ... WRITE_DAQ writes the entry at the pointer, which is the one the     *)
(* command is for.                                                         *)
LEMMA WrittenByWrite ==
  ASSUME config \in Configurations, NEW d, NEW k \in 0 .. Len(Cmds) - 1, NEW pids,
         Suited(d, k, pids), ~Props.static, Written(d, k), Accepts(d, Cmds[k + 1]),
         Cmds[k + 1] \in Writes
  PROVE  Written(Executed(d, Cmds[k + 1]), k + 1)
<1> DEFINE c == Cmds[k + 1]
           e == Executed(d, c)
           p == d.ptr
<1>0. Len(Cmds) \in Nat /\ k \in Nat /\ k + 1 \in 1 .. Len(Cmds) /\ k \in 0 .. Len(Cmds)
  <2>1. Len(Cmds) \in Nat
    BY CmdsTyped
  <2> HIDE DEF Cmds
  <2> QED BY <2>1
<1>1. /\ c \in Commands /\ c.cmd = "WRITE_DAQ" /\ c \notin SetPtrs /\ IsDevice(d)
      /\ Accepts(d, c) /\ c.entry \in Ext
  <2>1. c \in Writes /\ IsDevice(d) /\ Accepts(d, c)
    BY DEF Suited
  <2> HIDE DEF c
  <2> QED BY <2>1 DEF Commands, Allocations, SetPtrs, Writes
<1>2. \E i \in Dynamic : \E j \in 1 .. Len(NewPlan[i]) : \E x \in Nat :
        \E f \in 0 .. Len(EntriesOf(i, j)) :
          Laid(x, i, j) /\ k + 1 = x + f /\ (f = 0 <=> c \in SetPtrs)
  <2>1. c \in SetPtrs \cup Writes
    OBVIOUS
  <2> QED BY <1>0, <2>1, WriteFrom
<1>3. PICK i0 \in Dynamic : \E j \in 1 .. Len(NewPlan[i0]) : \E x \in Nat :
        \E f \in 0 .. Len(EntriesOf(i0, j)) : Laid(x, i0, j) /\ k + 1 = x + f /\ f # 0
  BY <1>1, <1>2
<1>4. PICK j0 \in 1 .. Len(NewPlan[i0]) : \E x \in Nat :
        \E f \in 0 .. Len(EntriesOf(i0, j0)) : Laid(x, i0, j0) /\ k + 1 = x + f /\ f # 0
  BY <1>3
<1>5. PICK x0 \in Nat : \E f \in 0 .. Len(EntriesOf(i0, j0)) :
        Laid(x0, i0, j0) /\ k + 1 = x0 + f /\ f # 0
  BY <1>4
<1>6. PICK f0 \in 0 .. Len(EntriesOf(i0, j0)) : Laid(x0, i0, j0) /\ k + 1 = x0 + f0 /\ f0 # 0
  BY <1>5
<1> HIDE DEF e
(* For every ODT of which the next entry is written now, it is at the pointer. *)
<1>7. ASSUME NEW i \in Dynamic, NEW j \in 1 .. Len(NewPlan[i]), NEW x \in 1 .. k + 1,
             Cmds[x] = SetDaqPtr(i, j), NEW f \in 0 .. Len(EntriesOf(i, j)), x + f = k + 1
      PROVE  p = <<Number(i), j, f>> /\ f > 0 /\ x \in 1 .. k /\ c.entry = EntryOf(EntriesOf(i, j)[f])
  <2>1. x \in 1 .. Len(Cmds)
    <3> HIDE DEF Cmds
    <3> QED BY <1>0
  <2>2. Laid(x, i, j)
    BY <1>7, <2>1, LaidOnce
  <2>3. f # 0
    <3>1. SUFFICES ASSUME f = 0 PROVE FALSE
      OBVIOUS
    <3>2. c = SetDaqPtr(i, j)
      BY <1>0, <1>7, <3>1
    <3>3. SetDaqPtr(i, j).cmd = "SET_DAQ_PTR"
      BY DEF SetDaqPtr
    <3> QED BY <1>1, <3>2, <3>3
  <2>4. x \in 1 .. k /\ f - 1 \in 0 .. Len(EntriesOf(i, j)) /\ x + (f - 1) = k /\ f \in Nat
        /\ f \in 1 .. Len(EntriesOf(i, j))
    BY <1>0, <1>7, <2>3
  <2>5. WrittenOdt(d, k, x, i, j)
    BY <1>7, <2>4 DEF Written
  <2>6. p = <<Number(i), j, (f - 1) + 1>>
    BY <2>4, <2>5 DEF WrittenOdt
  <2>7. c = WriteDaq(EntriesOf(i, j)[f])
    BY <1>7, <2>2, <2>4 DEF Laid
  <2>8. c.entry = EntryOf(EntriesOf(i, j)[f])
    BY <2>7 DEF WriteDaq, EntryOf
  <2>9. (f - 1) + 1 = f /\ f > 0
    BY <2>3, <2>4
  <2> QED BY <2>4, <2>6, <2>8, <2>9
<1>8. /\ p = <<Number(i0), j0, f0>> /\ c.entry = EntryOf(EntriesOf(i0, j0)[f0]) /\ i0 \in ListIndices
      /\ p[1] = Number(i0) /\ p[2] = j0 /\ p[3] = f0
  <2>1. x0 \in 1 .. k + 1
    <3>1. x0 \in 1 .. FirstOf(5)
      BY <1>6 DEF Laid
    <3> HIDE DEF Cmds
    <3> QED BY <1>0, <1>6, <3>1
  <2>2. Cmds[x0] = SetDaqPtr(i0, j0)
    BY <1>6 DEF Laid
  <2>3. p = <<Number(i0), j0, f0>> /\ c.entry = EntryOf(EntriesOf(i0, j0)[f0])
    BY <1>6, <1>7, <2>1, <2>2
  <2>4. i0 \in ListIndices
    BY DEF Dynamic
  <2> HIDE DEF p, c
  <2> QED BY <2>3, <2>4
<1> SUFFICES ASSUME NEW i \in Dynamic, NEW j \in 1 .. Len(NewPlan[i]), NEW x \in 1 .. k + 1
             PROVE  /\ Cmds[x] = AllocOdtEntry(NewPlan, i, j) =>
                         Len(OdtAt(e, i, j)) = Len(EntriesOf(i, j))
                    /\ Cmds[x] = SetDaqPtr(i, j) => WrittenOdt(e, k + 1, x, i, j)
  BY DEF Written, e
<1>9. /\ AllocOdtEntry(NewPlan, i, j) \in StageItems[3] /\ SetDaqPtr(i, j) \in StageItems[4]
      /\ x \in 1 .. Len(Cmds) /\ x <= k + 1 /\ i \in ListIndices
  <2>1. x \in 1 .. Len(Cmds) /\ x <= k + 1
    <3> HIDE DEF Cmds
    <3> QED BY <1>0
  <2>2. i \in ListIndices
    BY DEF Dynamic
  <2> QED BY <2>1, <2>2, Kinds
<1> DEFINE o == d.lists[Number(i)].odts
           new == OdtAt(e, i, j)
           old == OdtAt(d, i, j)
(* What is left of the ODT, and what is new.                               *)
<1>10. ASSUME NEW s \in {3, 4}, Cmds[x] \in StageItems[s]
       PROVE  /\ e.ptr = [p EXCEPT ![3] = @ + 1] /\ Len(new) = Len(old) /\ old \in Seq(Ext)
              /\ \A f \in DOMAIN old : new[f] = IF i = i0 /\ j = j0 /\ f = f0 THEN c.entry ELSE old[f]
  <2> DEFINE m == Number(i)
  <2>1. m \in DOMAIN d.lists /\ o \in Seq(Seq(Ext)) /\ j \in DOMAIN o /\ old \in Seq(Ext)
    BY <1>0, <1>9, <1>10, OdtThere
  <2> HIDE DEF c
  <2>2. After(d, e, c, m)
    <3> HIDE DEF m
    <3> QED BY <1>1, <2>1, OdtsAfter DEF e
  <2>3. /\ e.ptr = [p EXCEPT ![3] = @ + 1]
        /\ e.lists[m].odts = IF m = p[1] THEN Entered(o, p[2], p[3], c.entry) ELSE o
    BY <1>1, <2>2 DEF After
  <2>4. m = p[1] <=> i = i0
    BY <1>8, <1>9, Numbers
  <2>5. old = o[j]
    BY DEF OdtAt
  <2>6. CASE i # i0
    <3>1. new = old
      BY <2>3, <2>4, <2>6 DEF OdtAt
    <3> HIDE DEF new, old
    <3> QED BY <2>1, <2>3, <2>6, <3>1
  <2>7. CASE i = i0
    <3>1. new = Entered(o, j0, f0, c.entry)[j]
      BY <1>8, <2>3, <2>4, <2>7 DEF OdtAt
    <3>2. j0 \in DOMAIN o /\ f0 \in DOMAIN o[j0]
      <4>1. EntryExists(d, p[1], p[2], p[3])
        BY <1>1 DEF Accepts
      <4>2. EntryExists(d, m, j0, f0)
        BY <1>8, <2>7, <4>1
      <4> QED BY <4>2 DEF EntryExists, OdtExists
    <3> DEFINE y == c.entry
    <3>3. y \in Ext
      BY <1>1
    <3>4. new = Entered(o, j0, f0, y)[j]
      BY <3>1
    <3> HIDE DEF o, y, new, old, m
    <3>5. /\ Len(Entered(o, j0, f0, y)[j]) = Len(o[j])
          /\ \A f \in DOMAIN o[j] : Entered(o, j0, f0, y)[j][f]
                                      = IF j = j0 /\ f = f0 THEN y ELSE o[j][f]
      BY <2>1, <3>2, <3>3, EnteredIs, SMTT(40)
    <3>6. Len(new) = Len(old) /\ \A f \in DOMAIN old : new[f] = IF j = j0 /\ f = f0 THEN y ELSE old[f]
      BY <2>5, <3>4, <3>5
    <3> QED BY <2>1, <2>3, <2>7, <3>6 DEF y
  <2> QED BY <2>6, <2>7
<1>11. ASSUME Cmds[x] = AllocOdtEntry(NewPlan, i, j)
       PROVE  Len(OdtAt(e, i, j)) = Len(EntriesOf(i, j))
  <2>1. Len(new) = Len(old)
    BY <1>9, <1>10, <1>11
  <2>2. x \in 1 .. k
    <3>1. AllocOdtEntry(NewPlan, i, j).cmd = "ALLOC_ODT_ENTRY"
      BY DEF AllocOdtEntry
    <3>2. x # k + 1
      BY <1>1, <1>11, <3>1
    <3> QED BY <1>0, <3>2
  <2>3. Len(old) = Len(EntriesOf(i, j))
    BY <1>11, <2>2 DEF Written
  <2> QED BY <2>1, <2>3
<1>12. ASSUME Cmds[x] = SetDaqPtr(i, j) PROVE WrittenOdt(e, k + 1, x, i, j)
  <2>1. /\ e.ptr = [p EXCEPT ![3] = @ + 1] /\ Len(new) = Len(old) /\ old \in Seq(Ext)
        /\ \A f \in DOMAIN old : new[f] = IF i = i0 /\ j = j0 /\ f = f0 THEN c.entry ELSE old[f]
    BY <1>9, <1>10, <1>12
  <2>2. Len(old) = Len(EntriesOf(i, j))
    <3>1. PICK y \in 1 .. Len(Cmds) : Cmds[y] = AllocOdtEntry(NewPlan, i, j)
      BY AllocatedAt
    <3>2. y \in 1 .. k
      <4>1. y <= x
        <5>1. SUFFICES ASSUME x <= y PROVE FALSE
          <6>1. x \in Int /\ y \in Int
            BY <3>1
          <6> QED BY <6>1
        <5>2. 3 \in 1 .. 5 /\ 4 \in 1 .. 5
          OBVIOUS
        <5>3. 4 <= 3
          BY <1>9, <1>12, <3>1, <5>1, <5>2, InOrder
        <5> QED BY <5>3
      <4>2. y # k + 1
        <5>1. AllocOdtEntry(NewPlan, i, j).cmd = "ALLOC_ODT_ENTRY"
          BY DEF AllocOdtEntry
        <5> QED BY <1>1, <3>1, <5>1
      <4>3. y \in Nat /\ y >= 1
        BY <3>1
      <4> QED BY <1>0, <4>1, <4>2, <4>3
    <3> QED BY <3>1, <3>2 DEF Written
  <2> SUFFICES ASSUME NEW f \in 0 .. Len(EntriesOf(i, j))
               PROVE  /\ f > 0 /\ x + f <= k + 1 => new[f] = EntryOf(EntriesOf(i, j)[f])
                      /\ x + f = k + 1 => e.ptr = <<Number(i), j, f + 1>>
    BY DEF WrittenOdt
  <2>3. ASSUME f > 0, x + f <= k + 1 PROVE new[f] = EntryOf(EntriesOf(i, j)[f])
    <3>1. f \in DOMAIN old
      <4>1. f \in 1 .. Len(old)
        BY <2>2, <2>3
      <4> HIDE DEF old
      <4> QED BY <2>1, <4>1, LenProperties
    <3>2. CASE i = i0 /\ j = j0 /\ f = f0
      BY <1>8, <2>1, <3>1, <3>2
    <3>3. CASE ~(i = i0 /\ j = j0 /\ f = f0)
      <4>1. new[f] = old[f]
        BY <2>1, <3>1, <3>3
      <4>2. x + f # k + 1
        <5>1. SUFFICES ASSUME x + f = k + 1 PROVE FALSE
          OBVIOUS
        <5>2. p = <<Number(i), j, f>>
          BY <1>7, <1>12, <5>1
        <5>3. p[1] = Number(i) /\ p[2] = j /\ p[3] = f
          <6> HIDE DEF p
          <6> QED BY <5>2
        <5>4. i = i0
          BY <1>8, <1>9, <5>3, Numbers
        <5> QED BY <1>8, <3>3, <5>3, <5>4
      <4>3. x + f <= k /\ x \in 1 .. k
        BY <1>0, <2>3, <4>2
      <4>4. WrittenOdt(d, k, x, i, j)
        BY <1>12, <4>3 DEF Written
      <4>5. old[f] = EntryOf(EntriesOf(i, j)[f])
        BY <2>3, <4>3, <4>4 DEF WrittenOdt
      <4> QED BY <4>1, <4>5
    <3> QED BY <3>2, <3>3
  <2>4. ASSUME x + f = k + 1 PROVE e.ptr = <<Number(i), j, f + 1>>
    <3>1. p = <<Number(i), j, f>>
      BY <1>7, <1>12, <2>4
    <3> HIDE DEF p
    <3>2. e.ptr = [p EXCEPT ![3] = @ + 1]
      BY <2>1
    <3> QED BY <3>1, <3>2
  <2> QED BY <2>3, <2>4
<1> QED BY <1>11, <1>12

LEMMA WrittenNext ==
  ASSUME config \in Configurations, NEW d, NEW k \in 0 .. Len(Cmds) - 1, NEW pids,
         Suited(d, k, pids), ~Props.static, Written(d, k), Accepts(d, Cmds[k + 1])
  PROVE  Written(Executed(d, Cmds[k + 1]), k + 1)
<1>0. k + 1 \in 1 .. Len(Cmds)
  <2>1. Len(Cmds) \in Nat
    BY CmdsTyped
  <2> HIDE DEF Cmds
  <2> QED BY <2>1
<1>1. PICK s \in 1 .. 5 : Cmds[k + 1] \in StageItems[s]
  BY <1>0, CmdFrom
<1>2. CASE s \in {1, 2, 5}
  BY <1>1, <1>2, WrittenByOthers
<1>3. CASE s = 3
  BY <1>1, <1>3, WrittenByAlloc
<1>4. CASE s = 4
  <2>1. Cmds[k + 1] \in SetPtrs \/ Cmds[k + 1] \in Writes
    BY <1>1, <1>4 DEF StageItems
  <2> QED BY <2>1, WrittenByPtr, WrittenByWrite
<1> QED BY <1>2, <1>3, <1>4

(* When all is sent, the device reads what setup() has planned: every list *)
(* was allocated, and all of it was written.                               *)
LEMMA FilledAtEnd ==
  ASSUME config \in Configurations, NEW d, NEW pids, Suited(d, Len(Cmds), pids), ~Props.static,
         Shaped(d), Written(d, Len(Cmds))
  PROVE  Filled(d)
<1> DEFINE L == Len(Cmds)
<1>1. SUFFICES ASSUME NEW i \in ListIndices, NEW j \in 1 .. Len(NewPlan[i])
               PROVE  OdtAt(d, i, j)
                        = [e \in 1 .. Len(EntriesOf(i, j)) |-> EntryOf(EntriesOf(i, j)[e])]
  BY DEF Filled
<1>2. L \in Nat /\ FirstOf(5) \in Nat /\ FirstOf(5) <= L
  BY StageEnds
<1>3. L >= 2
  <2>1. FirstOf(5) >= 2
    BY Places
  <2> HIDE DEF L
  <2> QED BY <1>2, <2>1
<1>4. i \in Dynamic
  <2>1. SUFFICES ASSUME i \notin Dynamic PROVE FALSE
    OBVIOUS
  <2>2. OdtsOf(d, i) = 0
    <3>1. SetUp(d, L, pids)
      BY DEF Suited
    <3> HIDE DEF L
    <3> QED BY <1>3, <2>1, <3>1 DEF SetUp
  <2>3. OdtsOf(d, i) = Len(NewPlan[i]) /\ Len(NewPlan[i]) \in Nat \ {0}
    BY PlanList DEF Shaped
  <2> QED BY <2>2, <2>3
<1> DEFINE es == EntriesOf(i, j)
           o == OdtAt(d, i, j)
           n == Len(es)
<1>5. es \in Seq(Entries) /\ n \in Nat
  BY PlanList DEF EntriesOf
<1>6. PICK x \in 1 .. Len(Cmds) : Cmds[x] = AllocOdtEntry(NewPlan, i, j)
  BY <1>4, AllocatedAt
<1>7. o \in Seq(Ext)
  <2>1. Cmds[x] \in StageItems[3]
    BY <1>4, <1>6, Kinds
  <2>2. x <= Len(Cmds) + 1 /\ Len(Cmds) \in 0 .. Len(Cmds) /\ 3 \in {3, 4}
    <3> HIDE DEF Cmds
    <3> QED BY <1>2 DEF L
  <2> QED BY <1>4, <2>1, <2>2, OdtThere
<1>8. Len(o) = n
  BY <1>4, <1>6 DEF Written
<1>9. ASSUME NEW e \in 1 .. n PROVE o[e] = EntryOf(es[e])
  <2> DEFINE y == BeforeOdt(i, j) + 1
  <2>1. es # <<>>
    BY <1>9, EmptySequence
  <2>2. Laid(y, i, j)
    BY <1>4, <2>1, LaidAt
  <2> HIDE DEF y
  <2>3. /\ y \in 1 .. FirstOf(5) /\ Cmds[y] = SetDaqPtr(i, j)
        /\ y + e \in 1 .. FirstOf(5)
    BY <1>9, <2>2 DEF Laid
  <2>4. y \in 1 .. L /\ y + e <= L
    <3> DEFINE F == FirstOf(5)
    <3>1. F \in Nat /\ F <= L /\ L \in Nat /\ y \in 1 .. F /\ y + e \in 1 .. F
      BY <1>2, <2>3
    <3> HIDE DEF F, L
    <3> QED BY <3>1
  <2>5. WrittenOdt(d, L, y, i, j)
    BY <1>4, <2>3, <2>4 DEF Written
  <2>6. e \in 0 .. n /\ e > 0
    BY <1>5, <1>9
  <2> HIDE DEF L
  <2> QED BY <2>4, <2>5, <2>6 DEF WrittenOdt
<1>10. o = [e \in 1 .. Len(o) |-> o[e]]
  <2> HIDE DEF o
  <2> QED BY <1>7
<1> HIDE DEF es, o, n
<1>11. o = [e \in 1 .. n |-> EntryOf(es[e])]
  BY <1>8, <1>9, <1>10
<1> QED BY <1>11 DEF es, o, n

(* A static device reads what the user has described from the start, ...   *)
LEMMA FactoryFilled ==
  ASSUME config \in Configurations, NEW a, Props.static, Dynamic = {}
  PROVE  Filled([NewDevice(config) EXCEPT !.allocating = a])
<1> DEFINE d == [NewDevice(config) EXCEPT !.allocating = a]
<1>1. SUFFICES ASSUME NEW i \in ListIndices, NEW j \in 1 .. Len(NewPlan[i])
               PROVE  OdtAt(d, i, j)
                        = [e \in 1 .. Len(EntriesOf(i, j)) |-> EntryOf(EntriesOf(i, j)[e])]
  BY DEF Filled
<1>2. Number(i) = i - 1 /\ i \in Nat /\ (i - 1) + 1 = i
  BY NumberTyped DEF Number
<1>3. d.lists = FactoryLists(config)
  BY DEF NewDevice
<1>4. FactoryLists(config) = [n \in {k - 1 : k \in ListIndices} |-> ListOf(FactoryOdts(n + 1))]
  BY DEF FactoryLists, FactoryOdts, ListIndices, Props
<1> HIDE DEF d
<1>5. d.lists[Number(i)] = ListOf(FactoryOdts(i))
  <2>1. i - 1 \in {k - 1 : k \in ListIndices}
    OBVIOUS
  <2>2. FactoryLists(config)[i - 1] = ListOf(FactoryOdts((i - 1) + 1))
    BY <1>4, <2>1
  <2> QED BY <1>2, <1>3, <2>2
<1>6. d.lists[Number(i)].odts = FactoryOdts(i)
  <2> DEFINE o == FactoryOdts(i)
  <2>1. o \in Seq(Seq(Ext))
    BY FactoryOdtsTyped
  <2> HIDE DEF o
  <2>2. ListOf(o).odts = o
    BY <2>1, ListOfTyped
  <2> QED BY <1>5, <2>2 DEF o
<1> DEFINE s == config.lists[i].odts
<1>7. NewPlan[i] = PredefinedBins(s)
  BY ListTyped DEF NewPlan, MeasurementsOpt, Dynamic
<1>8. s \in Seq(Seq(Objects))
  BY ListTyped
<1>9. DOMAIN s = 1 .. Len(s) /\ Len(s) \in Nat /\ \A l \in 1 .. Len(s) : s[l] \in Seq(Objects)
  <2> DEFINE X == Seq(Objects)
  <2>1. s \in Seq(X)
    BY <1>8
  <2> HIDE DEF s, X
  <2>2. Len(s) \in Nat /\ DOMAIN s = 1 .. Len(s) /\ \A l \in 1 .. Len(s) : s[l] \in X
    BY <2>1
  <2> QED BY <2>2 DEF X
<1>10. j \in 1 .. Len(s) /\ EntriesOf(i, j) = s[j]
  <2>1. PredefinedBins(s) = [b \in 1 .. Len(s) |-> Bin(SumOfLengths(s[b]), s[b])]
    BY <1>9 DEF PredefinedBins
  <2>2. Len(NewPlan[i]) = Len(s)
    <3>1. DOMAIN NewPlan[i] = 1 .. Len(NewPlan[i]) /\ Len(NewPlan[i]) \in Nat
      BY PlanList
    <3>2. DOMAIN NewPlan[i] = 1 .. Len(s)
      BY <1>7, <2>1
    <3> DEFINE m == Len(NewPlan[i])
               n == Len(s)
    <3>3. 1 .. m = 1 .. n /\ m \in Nat /\ n \in Nat
      BY <1>9, <3>1, <3>2
    <3> HIDE DEF m, n
    <3>4. m = n
      <4>1. m >= 1 => m \in 1 .. n
        BY <3>3
      <4>2. n >= 1 => n \in 1 .. m
        BY <3>3
      <4> QED BY <3>3, <4>1, <4>2
    <3> QED BY <3>4 DEF m, n
  <2>3. j \in 1 .. Len(s)
    BY <2>2
  <2>4. NewPlan[i][j].entries = s[j]
    BY <1>7, <2>1, <2>3 DEF Bin
  <2> QED BY <2>3, <2>4 DEF EntriesOf
<1>11. s[j] \in Seq(Objects)
  BY <1>9, <1>10
<1>12. FactoryOdts(i)[j] = [e \in DOMAIN s[j] |-> EntryOf(s[j][e])]
  BY <1>9, <1>10 DEF FactoryOdts, EntryOf
<1>13. DOMAIN s[j] = 1 .. Len(s[j])
  <2> DEFINE t == s[j]
  <2>1. t \in Seq(Objects)
    BY <1>11
  <2> HIDE DEF t
  <2>2. DOMAIN t = 1 .. Len(t)
    BY <2>1
  <2> QED BY <2>2 DEF t
<1> HIDE DEF s
<1> QED BY <1>6, <1>10, <1>12, <1>13 DEF OdtAt

(* ... and goes on to, as it takes no commands that change its lists.      *)
LEMMA SelectionKeepsFilled ==
  ASSUME config \in Configurations, NEW d, IsDevice(d), FactoryShape(d), Props.static,
         Dynamic = {}, Filled(d), NEW x \in 1 .. Len(Cmds), Accepts(d, Cmds[x])
  PROVE  Filled(Executed(d, Cmds[x]))
<1> DEFINE c == Cmds[x]
           e == Executed(d, c)
<1>1. Numbered(d)
  BY DEF FactoryShape
<1>2. c \in Commands
  <2>1. Cmds \in Seq(Commands)
    BY CmdsTyped
  <2> HIDE DEF Cmds
  <2> QED BY <2>1, ElementOfSeq
<1>3. c.cmd \in {"SET_DAQ_LIST_MODE", "START_STOP_DAQ_LIST"}
  <2>1. \E i \in ListIndices : c = SetDaqListMode(i) \/ c = StartStopDaqList(i)
    BY CommandIs
  <2> HIDE DEF c
  <2> QED BY <2>1, CommandParts
<1>4. Accepts(d, c)
  OBVIOUS
<1> HIDE DEF c
<1>5. ASSUME NEW i \in ListIndices PROVE e.lists[Number(i)].odts = d.lists[Number(i)].odts
  <2> DEFINE m == Number(i)
  <2>1. m \in DOMAIN d.lists
    BY <1>1 DEF Numbered
  <2> HIDE DEF m
  <2>2. After(d, Executed(d, c), c, m)
    BY <1>2, <1>4, <2>1, OdtsAfter
  <2>3. After(d, e, c, m)
    BY <2>2
  <2> HIDE DEF e
  <2>4. e.lists[m].odts = d.lists[m].odts
    BY <1>3, <2>3 DEF After
  <2> QED BY <2>4 DEF m
<1> HIDE DEF e
<1>6. \A i \in ListIndices : \A j : OdtAt(e, i, j) = OdtAt(d, i, j)
  BY <1>5 DEF OdtAt
<1>7. Filled(e)
  BY <1>6 DEF Filled
<1> QED BY <1>7 DEF e, c

(***************************************************************************)
(* The device reads what setup() has planned                               *)
(***************************************************************************)
ContentInv ==
  /\ phase = "commanding" /\ ~Props.static => Written(device, Done)
  /\ Props.static /\ Dynamic = {} => Filled(device)
  /\ phase \in {"ready", "running"} => Filled(device)

LEMMA ContentPrimed ==
  ASSUME config' = config
  PROVE  /\ Filled(device') => Filled(device)'
         /\ \A k : Done' = k /\ Written(device', k) => Written(device, Done)'
         /\ (Props.static /\ Dynamic = {})' <=> Props.static /\ Dynamic = {}
<1>1. /\ ListIndices' = ListIndices /\ Props' = Props /\ NewPlan' = NewPlan /\ Cmds' = Cmds
      /\ Dynamic' = Dynamic
  BY Constancy, Unchanging
<1>2. \A i : \A j : EntriesOf(i, j)' = EntriesOf(i, j)
  BY <1>1 DEF EntriesOf
<1>3. \A i : \A j : OdtAt(device, i, j)' = OdtAt(device', i, j)
  BY Unchanging DEF OdtAt
<1>4. Filled(device') => Filled(device)'
  BY <1>1, <1>2, <1>3 DEF Filled, EntryOf
<1>5. \A i : \A j : /\ AllocOdtEntry(NewPlan, i, j)' = AllocOdtEntry(NewPlan, i, j)
                    /\ SetDaqPtr(i, j)' = SetDaqPtr(i, j)
  BY <1>1, Unchanging DEF AllocOdtEntry, SetDaqPtr
<1>6. ASSUME NEW k, Done' = k, Written(device', k) PROVE Written(device, Done)'
  <2>1. \A x : \A i : \A j : WrittenOdt(device', k, x, i, j) => WrittenOdt(device, Done, x, i, j)'
    BY <1>2, <1>3, <1>6, Unchanging DEF WrittenOdt, EntryOf
  <2> QED BY <1>1, <1>2, <1>3, <1>5, <1>6, <2>1 DEF Written
<1> QED BY <1>1, <1>4, <1>6

(* Neither ready nor running, nor in the middle of setup().                *)
LEMMA ContentIdle ==
  ASSUME config' = config, phase' \notin {"commanding", "ready", "running"},
         Props.static /\ Dynamic = {} => Filled(device')
  PROVE  ContentInv'
<1>1. (Props.static /\ Dynamic = {} => Filled(device))'
  BY ContentPrimed
<1> QED BY <1>1 DEF ContentInv

LEMMA ContentAtFirst ==
  ASSUME Init
  PROVE  ContentInv
<1>1. config \in Configurations /\ phase = "idle" /\ device = NewDevice(config)
  BY DEF Init
<1> DEFINE a == "start"
           d == [NewDevice(config) EXCEPT !.allocating = a]
<1>2. d = NewDevice(config)
  BY DEF NewDevice
<1> HIDE DEF a
<1>3. Props.static /\ Dynamic = {} => Filled(d)
  BY <1>1, FactoryFilled
<1> HIDE DEF d
<1> QED BY <1>1, <1>2, <1>3 DEF ContentInv

LEMMA CommandingKeepsContent ==
  ASSUME DaqInv, DeviceInv, ContentInv, Command \/ Refused \/ Unanswered \/ MirrorFails
  PROVE  ContentInv'
<1> DEFINE c == Head(todo)
           after == Executed(device, c)
           k == Done
<1>1. phase = "commanding" /\ todo # <<>> /\ config' = config /\ config \in Configurations
  BY DEF Command, Refused, Unanswered, MirrorFails, Upcoming, DaqInv
<1>2. /\ Len(Cmds) - Len(Tail(todo)) = k + 1 /\ k \in 0 .. Len(Cmds) - 1
      /\ c = Cmds[k + 1] /\ Suited(device, k, firstPids)
  BY <1>1, Attempted
<1>3. Upcoming = {c}
  BY <1>1 DEF Upcoming
<1>4. k + 1 \in 1 .. Len(Cmds)
  <2> DEFINE L == Len(Cmds)
  <2>1. L \in Nat /\ k \in 0 .. L - 1
    BY <1>1, <1>2, CmdsTyped
  <2> HIDE DEF L, k
  <2>2. k + 1 \in 1 .. L
    BY <2>1
  <2> QED BY <2>2 DEF L
<1>5. Accepts(device, c) /\ ~Props.static => Written(after, k + 1)
  <2>1. SUFFICES ASSUME Accepts(device, c), ~Props.static PROVE Written(after, k + 1)
    OBVIOUS
  <2>2. Written(device, k) /\ Accepts(device, Cmds[k + 1])
    BY <1>1, <1>2, <2>1 DEF ContentInv
  <2> HIDE DEF k, c
  <2>3. Written(Executed(device, Cmds[k + 1]), k + 1)
    BY <1>1, <1>2, <2>1, <2>2, WrittenNext
  <2> QED BY <1>2, <2>3
<1>6. Accepts(device, c) /\ Props.static /\ Dynamic = {} => Filled(after)
  <2>1. SUFFICES ASSUME Accepts(device, c), Props.static, Dynamic = {} PROVE Filled(after)
    OBVIOUS
  <2>2. Filled(device) /\ Accepts(device, Cmds[k + 1])
    BY <1>2, <2>1 DEF ContentInv
  <2>3. IsDevice(device) /\ FactoryShape(device)
    BY <1>2 DEF Suited
  <2> HIDE DEF k, c
  <2>4. Filled(Executed(device, Cmds[k + 1]))
    BY <1>1, <1>4, <2>1, <2>2, <2>3, SelectionKeepsFilled
  <2> QED BY <1>2, <2>4
<1> HIDE DEF c, after
<1>7. CASE Command
  <2>1. /\ Accepts(device, c) /\ device' = after /\ phase' = "commanding" /\ todo' = Tail(todo)
    BY <1>1, <1>3, <1>7 DEF Command, after
  <2>2. Done' = k + 1
    <3>1. Cmds' = Cmds
      BY <1>1, Constancy
    <3>2. Done' = Len(Cmds) - Len(Tail(todo))
      BY <2>1, <3>1 DEF Done
    <3> QED BY <1>2, <3>2
  <2> HIDE DEF k
  <2>3. ~Props.static => Written(device, Done)'
    BY <1>1, <1>5, <2>1, <2>2, ContentPrimed
  <2>4. (Props.static /\ Dynamic = {} => Filled(device))'
    BY <1>1, <1>6, <2>1, ContentPrimed
  <2>5. Props' = Props
    BY <1>1, Constancy
  <2> QED BY <2>1, <2>3, <2>4, <2>5 DEF ContentInv
<1>8. CASE Refused \/ Unanswered \/ MirrorFails
  <2>1. /\ phase' \in {"raised", "ended"}
        /\ device' = device \/ (Accepts(device, c) /\ device' = after)
    BY <1>3, <1>8 DEF Refused, Unanswered, MirrorFails, Raise, after, outside
  <2>2. Props.static /\ Dynamic = {} => Filled(device')
    BY <1>6, <2>1 DEF ContentInv
  <2> QED BY <1>1, <2>1, <2>2, ContentIdle
<1> QED BY <1>7, <1>8

LEMMA SetupKeepsContent ==
  ASSUME DaqInv, ContentInv, Setup
  PROVE  ContentInv'
<1>1. /\ config' = config /\ device' = device /\ config \in Configurations
      /\ phase' = "raised" \/ (phase' = "commanding" /\ todo' = Cmds)
  BY DEF Setup, Raise, outside, Cmds, DaqInv
<1>2. Props.static /\ Dynamic = {} => Filled(device')
  BY <1>1 DEF ContentInv
<1>3. CASE phase' = "raised"
  BY <1>1, <1>2, <1>3, ContentIdle
<1>4. CASE phase' = "commanding" /\ todo' = Cmds
  <2>1. Done' = 0
    <3>1. Cmds' = Cmds
      BY <1>1, Constancy
    <3>2. Len(Cmds) \in Nat
      BY <1>1, CmdsTyped
    <3>3. Done' = Len(Cmds) - Len(Cmds)
      BY <1>4, <3>1 DEF Done
    <3> QED BY <3>2, <3>3
  <2>2. Written(device', 0)
    <3>1. 1 .. 0 = {}
      OBVIOUS
    <3> QED BY <3>1 DEF Written
  <2>3. Written(device, Done)'
    BY <1>1, <2>1, <2>2, ContentPrimed
  <2>4. (Props.static /\ Dynamic = {} => Filled(device))'
    BY <1>1, <1>2, ContentPrimed
  <2> QED BY <1>4, <2>3, <2>4 DEF ContentInv
<1> QED BY <1>1, <1>3, <1>4

LEMMA SetParametersKeepsContent ==
  ASSUME DaqInv, DeviceInv, ContentInv, SetParameters
  PROVE  ContentInv'
<1>1. /\ phase = "commanding" /\ todo = <<>> /\ phase' = "ready" /\ config' = config
      /\ device' = device /\ config \in Configurations
  BY DEF SetParameters, outside, DaqInv
<1>2. Filled(device)
  <2>1. CASE Props.static
    <3>1. Dynamic = {}
      BY <1>1, <2>1 DEF DeviceInv, Setting, SetUp
    <3> QED BY <2>1, <3>1 DEF ContentInv
  <2>2. CASE ~Props.static
    <3>1. Done = Len(Cmds)
      <4>1. Len(todo) = 0 /\ Len(Cmds) \in Nat
        BY <1>1, CmdsTyped, EmptySequence
      <4> QED BY <4>1 DEF Done
    <3>2. Suited(device, Done, firstPids)
      BY <1>1 DEF DeviceInv, Setting, Measuring, Suited
    <3>3. Written(device, Done)
      BY <1>1, <2>2 DEF ContentInv
    <3>4. Shaped(device)
      BY <1>1, AllDone
    <3>5. Suited(device, Len(Cmds), firstPids) /\ Written(device, Len(Cmds))
      BY <3>1, <3>2, <3>3
    <3> QED BY <1>1, <2>2, <3>4, <3>5, FilledAtEnd
  <2> QED BY <2>1, <2>2
<1>3. Filled(device)'
  BY <1>1, <1>2, ContentPrimed
<1> QED BY <1>1, <1>3 DEF ContentInv

(* START_STOP_SYNCH leaves what is read alone.                             *)
LEMMA SynchronizedOdts ==
  ASSUME DeviceInv, NEW from, NEW to \in {"off", "running"}, StartStopSynch(from, to),
         Numbered(device), Filled(device)
  PROVE  Filled(device')
<1> DEFINE s == device.lists
           state(n) == IF s[n].state = from THEN to ELSE s[n].state
           u == [n \in DOMAIN s |-> [s[n] EXCEPT !.state = state(n)]]
<1>1. /\ device = [lists |-> device.lists, allocating |-> device.allocating, ptr |-> device.ptr]
      /\ \A n \in DOMAIN s : s[n] \in DeviceLists
  BY DEF DeviceInv, IsDevice
<1>2. device'.lists = u
  <2>1. device' = [device EXCEPT !.lists = u]
    BY DEF StartStopSynch
  <2> HIDE DEF u
  <2> QED BY <1>1, <2>1
<1>3. ASSUME NEW n \in DOMAIN s PROVE u[n].odts = s[n].odts
  <2> DEFINE l == s[n]
             x == state(n)
  <2>1. l \in DeviceLists
    BY <1>1
  <2>2. u[n] = [l EXCEPT !.state = x]
    OBVIOUS
  <2> HIDE DEF u, x, l
  <2>3. [l EXCEPT !.state = x].odts = l.odts
    BY <2>1 DEF DeviceLists
  <2> QED BY <2>2, <2>3 DEF l
<1> HIDE DEF u
<1>4. ASSUME NEW i \in ListIndices, NEW j PROVE OdtAt(device', i, j) = OdtAt(device, i, j)
  <2>1. Number(i) \in DOMAIN s
    BY DEF Numbered
  <2>2. u[Number(i)].odts = s[Number(i)].odts
    BY <1>3, <2>1
  <2> QED BY <1>2, <2>2 DEF OdtAt
<1> QED BY <1>4 DEF Filled

LEMMA StartStopKeepsContent ==
  ASSUME DaqInv, DeviceInv, ContentInv, Start \/ Stop
  PROVE  ContentInv'
<1>1. /\ \/ phase = "ready" /\ phase' = "running" /\ StartStopSynch("selected", "running")
         \/ phase = "running" /\ phase' = "stopped" /\ StartStopSynch("running", "off")
      /\ config' = config
  BY DEF Start, Stop
<1>2. Filled(device) /\ Numbered(device)
  BY <1>1 DEF ContentInv, DeviceInv, Measuring, Shaped
<1>3. Filled(device')
  BY <1>1, <1>2, SynchronizedOdts
<1>4. Filled(device)'
  BY <1>1, <1>3, ContentPrimed
<1> QED BY <1>1, <1>4 DEF ContentInv

LEMMA ContentStays ==
  ASSUME ContentInv, config' = config, phase' = phase, todo' = todo, device' = device
  PROVE  ContentInv'
<1>1. Filled(device) => Filled(device)'
  BY ContentPrimed
<1>2. Written(device, Done) => Written(device, Done)'
  <2>1. Cmds' = Cmds
    BY Constancy
  <2>2. Done' = Done
    BY <2>1 DEF Done
  <2> QED BY <2>2, ContentPrimed
<1>3. Props' = Props
  BY Constancy
<1>4. (Props.static /\ Dynamic = {})' <=> Props.static /\ Dynamic = {}
  BY ContentPrimed
<1> QED BY <1>1, <1>2, <1>3, <1>4 DEF ContentInv

LEMMA ContentKept ==
  ASSUME DaqInv, DeviceInv, ContentInv, [Next]_vars
  PROVE  ContentInv'
<1>1. CASE Command \/ Refused \/ Unanswered \/ MirrorFails
  BY <1>1, CommandingKeepsContent
<1>2. CASE Setup
  BY <1>2, SetupKeepsContent
<1>3. CASE SetParameters
  BY <1>3, SetParametersKeepsContent
<1>4. CASE Start \/ Stop
  BY <1>4, StartStopKeepsContent
<1>5. CASE Sample \/ Lose \/ Receive \/ Duplicate \/ UNCHANGED vars
  <2>1. config' = config /\ phase' = phase /\ todo' = todo /\ device' = device
    BY <1>5 DEF Sample, Lose, Receive, Duplicate, vars, processor, outside
  <2> QED BY <2>1, ContentStays
<1> QED BY <1>1, <1>2, <1>3, <1>4, <1>5 DEF Next

(* For every configuration: once setup() is done, and while the device     *)
(* measures, the ODTs of the device have the entries setup() has planned:  *)
(* SET_DAQ_PTR and WRITE_DAQ have reached every one, in its place.         *)
THEOREM DaqDeviceReadsPlan == Spec => [](phase \in {"ready", "running"} => Filled(device))
<1>1. Init => DaqInv /\ TimeInv /\ ContentInv
  BY InitHolds, TimesAtFirst, ContentAtFirst
<1>2. DaqInv /\ TimeInv /\ ContentInv /\ [Next]_vars => (DaqInv /\ TimeInv /\ ContentInv)'
  <2>1. SUFFICES ASSUME DaqInv, TimeInv, ContentInv, [Next]_vars
                 PROVE  (DaqInv /\ TimeInv /\ ContentInv)'
    OBVIOUS
  <2>2. DeviceInv
    BY <2>1 DEF TimeInv
  <2> QED BY <2>1, <2>2, NextHolds, TimesKept, ContentKept
<1>3. ContentInv => (phase \in {"ready", "running"} => Filled(device))
  BY DEF ContentInv
<1> QED BY <1>1, <1>2, <1>3, PTL DEF Spec

(***************************************************************************)
(* What a DTO carries                                                      *)
(***************************************************************************)
(* h is f with g behind, and both are made of sequences.                   *)
InTwo(h, p, f, n, g, m, Items) ==
  /\ n \in Nat /\ m \in Nat /\ p = n + m
  /\ \A k \in 1 .. n : f[k] \in Seq(Items) /\ h[k] = f[k]
  /\ \A k \in 1 .. m : g[k] \in Seq(Items) /\ h[n + k] = g[k]

LEMMA FlattenJoined ==
  ASSUME NEW Items, NEW n, NEW m, NEW p, NEW f, NEW g, NEW h, InTwo(h, p, f, n, g, m, Items)
  PROVE  FlattenSeq(Pieces(h, p)) = FlattenSeq(Pieces(f, n)) \o FlattenSeq(Pieces(g, m))
<1>0. /\ \A k \in 1 .. n : f[k] \in Seq(Items) /\ h[k] = f[k]
      /\ \A k \in 1 .. m : g[k] \in Seq(Items) /\ h[n + k] = g[k]
      /\ n \in Nat /\ m \in Nat /\ p = n + m
  BY DEF InTwo
<1> DEFINE F == FlattenSeq(Pieces(f, n))
           G(j) == FlattenSeq(Pieces(g, j))
           H(j) == FlattenSeq(Pieces(h, j))
           T == {j \in Nat : j <= m => H(n + j) = F \o G(j)}
<1>1. \A k \in 1 .. n + m : h[k] \in Seq(Items)
  <2>1. SUFFICES ASSUME NEW k \in 1 .. n + m PROVE h[k] \in Seq(Items)
    OBVIOUS
  <2>2. CASE k <= n
    BY <1>0, <2>2
  <2>3. CASE ~(k <= n)
    <3>1. k - n \in 1 .. m /\ n + (k - n) = k
      BY <1>0, <2>3
    <3> QED BY <1>0, <3>1
  <2> QED BY <2>2, <2>3
<1>2. F \in Seq(Items) /\ \A j \in 0 .. m : G(j) \in Seq(Items)
  <2>1. F \in Seq(Items)
    BY <1>0, FlattenTyped
  <2>2. ASSUME NEW j \in 0 .. m PROVE G(j) \in Seq(Items)
    <3>1. j \in Nat /\ \A k \in 1 .. j : g[k] \in Seq(Items)
      BY <1>0
    <3> QED BY <3>1, FlattenTyped
  <2> QED BY <2>1, <2>2
<1>3. 0 \in T
  <2>1. G(0) = <<>>
    BY FlattenNone
  <2>2. H(n + 0) = F
    <3>1. Pieces(h, n + 0) = Pieces(f, n)
      BY <1>0 DEF Pieces
    <3> QED BY <3>1
  <2>3. F \o <<>> = F
    BY <1>2, ConcatEmptySeq
  <2> HIDE DEF F, G, H
  <2> QED BY <2>1, <2>2, <2>3
<1>4. ASSUME NEW j \in 0 .. m - 1, j \in T PROVE j + 1 \in T
  <2>1. /\ j \in Nat /\ j \in 0 .. m /\ n + j \in 0 .. (n + m) - 1 /\ j + 1 \in 1 .. m
        /\ n + (j + 1) = (n + j) + 1 /\ n + m \in Nat
    BY <1>0
  <2>2. H((n + j) + 1) = H(n + j) \o h[(n + j) + 1]
    BY <1>1, <2>1, FlattenNext
  <2>3. G(j + 1) = G(j) \o g[j + 1]
    BY <1>0, FlattenNext
  <2>4. h[(n + j) + 1] = g[j + 1] /\ g[j + 1] \in Seq(Items)
    BY <1>0, <2>1
  <2>5. H(n + j) = F \o G(j)
    BY <1>4, <2>1
  <2>6. G(j) \in Seq(Items)
    BY <1>2, <2>1
  <2> HIDE DEF F, G, H
  <2> DEFINE x == G(j)
             y == g[j + 1]
  <2>7. (F \o x) \o y = F \o (x \o y)
    <3>1. F \in Seq(Items) /\ x \in Seq(Items) /\ y \in Seq(Items)
      BY <1>2, <2>4, <2>6
    <3> HIDE DEF x, y
    <3> QED BY <3>1, Associative
  <2>8. H((n + j) + 1) = F \o G(j + 1)
    BY <2>2, <2>3, <2>4, <2>5, <2>7
  <2>9. H(n + (j + 1)) = F \o G(j + 1)
    BY <2>1, <2>8
  <2> QED BY <2>1, <2>9
<1> HIDE DEF T
<1>5. m \in T
  BY <1>0, <1>3, <1>4, SetInduction
<1> HIDE DEF F, G, H
<1>6. H(n + m) = F \o G(m)
  BY <1>0, <1>5 DEF T
<1> QED BY <1>0, <1>6 DEF F, G, H

LEMMA SeqOfObjects ==
  ASSUME NEW o \in Seq(Objects)
  PROVE  o \in Seq(Entries)
<1>1. Len(o) \in Nat /\ o = [k \in 1 .. Len(o) |-> o[k]]
  OBVIOUS
<1>2. \A k \in 1 .. Len(o) : o[k] \in Entries
  <2>1. SUFFICES ASSUME NEW k \in 1 .. Len(o) PROVE o[k] \in Entries
    OBVIOUS
  <2>2. o[k] \in Objects
    BY ElementOfSeq
  <2> QED BY <2>2 DEF Entries
<1> QED BY <1>1, <1>2, SequenceOf DEF IsSequence

LEMMA ReadsTyped ==
  ASSUME NEW o \in Seq(Entries), NEW s \in Int
  PROVE  /\ Len(o) \in Nat
         /\ \A k \in 1 .. Len(o) : /\ Read(o[k], s) \in Seq(Octet)
                                   /\ Len(Read(o[k], s)) = o[k].length
                                   /\ o[k].length \in Nat
         /\ Readings(o, s) \in Seq(Octet)
<1> DEFINE f == [k \in 1 .. Len(o) |-> Read(o[k], s)]
<1>1. Len(o) \in Nat
  BY LenProperties
<1>2. ASSUME NEW k \in 1 .. Len(o)
      PROVE  /\ Read(o[k], s) \in Seq(Octet) /\ Len(Read(o[k], s)) = o[k].length
             /\ o[k].length \in Nat
  <2> DEFINE x == o[k]
  <2>1. x \in Entries
    BY ElementOfSeq
  <2> HIDE DEF x
  <2>2. Region(x)
    BY <2>1, RegionOf
  <2>3. Read(x, s) \in Seq(Octet) /\ Len(Read(x, s)) = x.length
    BY <2>2, ReadTyped
  <2> QED BY <2>2, <2>3 DEF x, Region
<1>3. \A k \in 1 .. Len(o) : f[k] \in Seq(Octet)
  BY <1>2
<1>4. Readings(o, s) = FlattenSeq(Pieces(f, Len(o)))
  BY DEF Readings
<1> HIDE DEF f
<1>5. FlattenSeq(Pieces(f, Len(o))) \in Seq(Octet)
  BY <1>1, <1>3, FlattenTyped
<1> QED BY <1>1, <1>2, <1>4, <1>5

LEMMA ReadingsJoined ==
  ASSUME NEW a \in Seq(Entries), NEW b \in Seq(Entries), NEW s \in Int
  PROVE  Readings(a \o b, s) = Readings(a, s) \o Readings(b, s)
<1> DEFINE n == Len(a)
           m == Len(b)
           c == a \o b
           f == [k \in 1 .. n |-> Read(a[k], s)]
           g == [k \in 1 .. m |-> Read(b[k], s)]
           h == [k \in 1 .. n + m |-> Read(c[k], s)]
<1>1. /\ n \in Nat /\ m \in Nat /\ Len(c) = n + m
      /\ \A k \in 1 .. n + m : c[k] = IF k <= n THEN a[k] ELSE b[k - n]
  BY LenProperties, ConcatProperties
<1>2. /\ Readings(c, s) = FlattenSeq(Pieces(h, n + m)) /\ Readings(a, s) = FlattenSeq(Pieces(f, n))
      /\ Readings(b, s) = FlattenSeq(Pieces(g, m))
  BY <1>1 DEF Readings
<1>3. /\ \A k \in 1 .. n : Read(a[k], s) \in Seq(Octet)
      /\ \A k \in 1 .. m : Read(b[k], s) \in Seq(Octet)
  BY ReadsTyped
<1> HIDE DEF c, n, m
<1>4. \A k \in 1 .. n : f[k] \in Seq(Octet) /\ h[k] = f[k]
  <2>1. SUFFICES ASSUME NEW k \in 1 .. n PROVE f[k] \in Seq(Octet) /\ h[k] = f[k]
    OBVIOUS
  <2>2. k \in 1 .. n + m /\ k <= n
    BY <1>1
  <2>3. c[k] = a[k]
    BY <1>1, <2>2
  <2> QED BY <1>3, <2>2, <2>3
<1>5. \A k \in 1 .. m : g[k] \in Seq(Octet) /\ h[n + k] = g[k]
  <2>1. SUFFICES ASSUME NEW k \in 1 .. m PROVE g[k] \in Seq(Octet) /\ h[n + k] = g[k]
    OBVIOUS
  <2>2. n + k \in 1 .. n + m /\ ~(n + k <= n) /\ (n + k) - n = k
    BY <1>1
  <2>3. c[n + k] = b[k]
    BY <1>1, <2>2
  <2> QED BY <1>3, <2>2, <2>3
<1> HIDE DEF f, g, h
<1> DEFINE X == Octet
<1>7. n \in Nat /\ m \in Nat
  BY <1>1
<1> DEFINE p == n + m
<1>8. InTwo(h, p, f, n, g, m, X)
  BY <1>4, <1>5, <1>7 DEF InTwo
<1> HIDE DEF p, X
<1>6. FlattenSeq(Pieces(h, p)) = FlattenSeq(Pieces(f, n)) \o FlattenSeq(Pieces(g, m))
  BY <1>8, FlattenJoined
<1> QED BY <1>2, <1>6 DEF c, p

(* The measurements of an ODT read what its entries do.                    *)
LEMMA FlattenTiled ==
  ASSUME NEW bin \in Bins, \A e \in 1 .. Len(bin.entries) : Tiled(bin.entries[e]), NEW s \in Int
  PROVE  Readings(FlattenOdt(bin), s) = Readings(bin.entries, s)
<1> DEFINE es == bin.entries
           n == Len(es)
           C == [e \in 1 .. n |-> Components(es[e])]
           R == [e \in 1 .. n |-> Read(es[e], s)]
           P(j) == FlattenSeq(Pieces(C, j))
           Q(j) == FlattenSeq(Pieces(R, j))
           T == {j \in Nat : j <= n => Readings(P(j), s) = Q(j)}
<1>1. es \in Seq(Entries) /\ n \in Nat /\ DOMAIN es = 1 .. n
  BY LenProperties DEF Bins
<1>2. /\ FlattenOdt(bin) = P(n) /\ Readings(es, s) = Q(n)
  <2>1. FlattenOdt(bin) = FlattenSeq(C)
    BY <1>1 DEF FlattenOdt
  <2>2. C = Pieces(C, n)
    BY DEF Pieces
  <2> QED BY <2>1, <2>2 DEF Readings
<1>3. \A e \in 1 .. n : C[e] \in Seq(Objects) /\ Readings(C[e], s) = R[e] /\ R[e] \in Seq(Octet)
  <2>1. SUFFICES ASSUME NEW e \in 1 .. n
                 PROVE  C[e] \in Seq(Objects) /\ Readings(C[e], s) = R[e] /\ R[e] \in Seq(Octet)
    OBVIOUS
  <2> DEFINE x == es[e]
  <2>2. x \in Entries
    BY <1>1, ElementOfSeq
  <2>3. Read(x, s) \in Seq(Octet)
    BY <1>1, ReadsTyped
  <2>4. C[e] = Components(x) /\ R[e] = Read(x, s) /\ Tiled(x)
    OBVIOUS
  <2> HIDE DEF x, C, R
  <2>5. Components(x) \in Seq(Objects)
    BY <2>2, ComponentsTyped
  <2>6. Readings(Components(x), s) = Read(x, s)
    BY <2>4 DEF Tiled
  <2> QED BY <2>3, <2>4, <2>5, <2>6
<1> HIDE DEF es, C, R, n
<1>4. 0 \in T
  <2>1. P(0) = <<>> /\ Q(0) = <<>>
    BY FlattenNone
  <2>2. Readings(<<>>, s) = <<>>
    <3>1. Len(<<>>) = 0
      OBVIOUS
    <3> DEFINE o == <<>>
               f == [k \in 1 .. 0 |-> Read(o[k], s)]
    <3>2. Readings(<<>>, s) = FlattenSeq(Pieces(f, 0))
      BY <3>1 DEF Readings
    <3> HIDE DEF f
    <3> QED BY <3>2, FlattenNone
  <2> HIDE DEF P, Q
  <2> QED BY <2>1, <2>2
<1>5. ASSUME NEW j \in 0 .. n - 1, j \in T PROVE j + 1 \in T
  <2>1. j \in Nat /\ j <= n /\ j + 1 \in 1 .. n /\ \A k \in 1 .. j : k \in 1 .. n
    BY <1>1
  <2>2. P(j + 1) = P(j) \o C[j + 1]
    BY <1>1, <1>3, FlattenNext
  <2>3. Q(j + 1) = Q(j) \o R[j + 1]
    BY <1>1, <1>3, FlattenNext
  <2>4. P(j) \in Seq(Objects)
    BY <1>3, <2>1, FlattenTyped
  <2>5. Readings(P(j), s) = Q(j)
    BY <1>5, <2>1
  <2> HIDE DEF P, Q
  <2>6. P(j) \in Seq(Entries) /\ C[j + 1] \in Seq(Entries)
    <3>1. \A x \in Seq(Objects) : x \in Seq(Entries)
      BY SeqOfObjects
    <3> QED BY <1>3, <2>1, <2>4, <3>1
  <2> DEFINE p == P(j)
             c == C[j + 1]
  <2>7. Readings(p \o c, s) = Readings(p, s) \o Readings(c, s)
    <3>1. p \in Seq(Entries) /\ c \in Seq(Entries)
      BY <2>6
    <3> HIDE DEF p, c
    <3> QED BY <3>1, ReadingsJoined
  <2>8. Readings(P(j + 1), s) = Q(j + 1)
    BY <1>3, <2>1, <2>2, <2>3, <2>5, <2>7
  <2> QED BY <2>1, <2>8
<1> HIDE DEF T
<1>6. n \in T
  BY <1>1, <1>4, <1>5, SetInduction
<1> HIDE DEF P, Q
<1>7. Readings(P(n), s) = Q(n)
  BY <1>1, <1>6 DEF T
<1> QED BY <1>2, <1>7 DEF es

LEMMA OctetsTyped ==
  ASSUME NEW o, Region(o)
  PROVE  OctetsOf(o) \in Seq(Nat \X Int) /\ Len(OctetsOf(o)) = o.length
<1> DEFINE n == o.length
           f == [k \in 1 .. n |-> <<o.ext, o.address + k - 1>>]
           I == Nat \X Int
<1>1. n \in Nat /\ \A k \in 1 .. n : <<o.ext, o.address + k - 1>> \in I
  BY DEF Region
<1>2. f \in [1 .. n -> I]
  BY <1>1
<1>3. OctetsOf(o) = f
  BY DEF OctetsOf
<1> HIDE DEF f, n, I
<1>4. f \in Seq(I) /\ Len(f) = n
  BY <1>1, <1>2
<1> QED BY <1>3, <1>4 DEF n, I

(* The parser of an ODT counts as many octets before a measurement as the  *)
(* ones before it read.                                                    *)
LEMMA SumIsRead ==
  ASSUME NEW ps \in Seq(Objects), NEW s \in Int, NEW m \in 0 .. Len(ps)
  PROVE  SumOfLengths(SubSeq(ps, 1, m))
           = Len(FlattenSeq(Pieces([k \in 1 .. Len(ps) |-> Read(ps[k], s)], m)))
<1> DEFINE f == [k \in 1 .. Len(ps) |-> Read(ps[k], s)]
           q == SubSeq(ps, 1, m)
           g == [k \in DOMAIN q |-> OctetsOf(q[k])]
           I == Nat \X Int
<1>1. Len(ps) \in Nat /\ m \in Nat /\ m <= Len(ps)
  BY LenProperties
<1>2. q \in Seq(Objects) /\ Len(q) = m /\ \A k \in 1 .. m : q[k] = ps[k]
  BY <1>1, FirstOnes
<1> HIDE DEF q
<1>3. SumOfLengths(q) = Len(FlattenSeq(Pieces(g, m)))
  <2>1. SumOfLengths(q) = Len(Octets(q))
    BY <1>2, SumIsOctets
  <2>2. Octets(q) = FlattenSeq(Pieces(g, Len(q)))
    BY DEF Octets
  <2> HIDE DEF g
  <2> QED BY <1>2, <2>1, <2>2
<1>4. \A k \in 1 .. m : f[k] \in Seq(Octet) /\ g[k] \in Seq(I) /\ Len(f[k]) = Len(g[k])
  <2>1. SUFFICES ASSUME NEW k \in 1 .. m
                 PROVE  f[k] \in Seq(Octet) /\ g[k] \in Seq(I) /\ Len(f[k]) = Len(g[k])
    OBVIOUS
  <2> DEFINE o == ps[k]
  <2>2. k \in 1 .. Len(ps)
    BY <1>1
  <2>3. k \in DOMAIN q /\ q[k] = o
    BY <1>2, LenProperties
  <2>4. Region(o)
    <3>1. o \in Objects
      BY <2>2, ElementOfSeq
    <3>2. o \in Entries
      BY <3>1 DEF Entries
    <3> HIDE DEF o
    <3> QED BY <3>2, RegionOf
  <2>5. f[k] = Read(o, s) /\ g[k] = OctetsOf(o)
    BY <2>2, <2>3
  <2> HIDE DEF o, f, g
  <2>6. Read(o, s) \in Seq(Octet) /\ Len(Read(o, s)) = o.length
    BY <2>4, ReadTyped
  <2>7. OctetsOf(o) \in Seq(I) /\ Len(OctetsOf(o)) = o.length
    BY <2>4, OctetsTyped
  <2> QED BY <2>5, <2>6, <2>7
<1>5. /\ \A k \in 1 .. m : f[k] \in Seq(Octet)
      /\ \A k \in 1 .. m : g[k] \in Seq(I)
      /\ \A k \in 1 .. m : Len(f[k]) = Len(g[k])
  BY <1>4
<1> HIDE DEF f, g, I
<1>6. Len(FlattenSeq(Pieces(f, m))) = Len(FlattenSeq(Pieces(g, m)))
  BY <1>1, <1>5, FlattenLengths
<1>7. SumOfLengths(q) = Len(FlattenSeq(Pieces(f, m)))
  BY <1>3, <1>6
<1> QED BY <1>7 DEF q, f

(* It finds each measurement's octets where the DTO has them.              *)
LEMMA Parted ==
  ASSUME NEW ps \in Seq(Objects), NEW s \in Int, NEW head \in Seq(Octet),
         NEW first, first = Len(head)
  PROVE  LET P == head \o Readings(ps, s)
         IN /\ Len(P) = first + SumOfLengths(ps)
            /\ \A k \in 1 .. Len(ps) :
                 LET o == first + SumOfLengths(SubSeq(ps, 1, k - 1))
                 IN SubSeq(P, o + 1, o + ps[k].length) = Read(ps[k], s)
<1> DEFINE n == Len(ps)
           f == [k \in 1 .. n |-> Read(ps[k], s)]
           R == Readings(ps, s)
           P == head \o R
<1>1. n \in Nat /\ first \in Nat
  BY LenProperties
<1>2. R = FlattenSeq(Pieces(f, n))
  BY DEF Readings
<1>3. ps \in Seq(Entries)
  BY SeqOfObjects
<1>4. /\ R \in Seq(Octet)
      /\ \A k \in 1 .. n : f[k] \in Seq(Octet) /\ Len(f[k]) = ps[k].length /\ f[k] = Read(ps[k], s)
  BY <1>3, ReadsTyped
<1>5. SumOfLengths(ps) = Len(R)
  <2>1. n \in 0 .. Len(ps)
    BY <1>1
  <2>2. SubSeq(ps, 1, n) = ps
    <3>1. /\ SubSeq(ps, 1, n) \in Seq(Objects) /\ Len(SubSeq(ps, 1, n)) = n
          /\ \A k \in 1 .. n : SubSeq(ps, 1, n)[k] = ps[k]
      BY <1>1, FirstOnes
    <3> DEFINE q == SubSeq(ps, 1, n)
    <3> HIDE DEF q
    <3>2. q = ps
      BY <3>1, SeqEqual DEF q
    <3> QED BY <3>2 DEF q
  <2>3. SumOfLengths(SubSeq(ps, 1, n)) = Len(FlattenSeq(Pieces(f, n)))
    BY <2>1, SumIsRead
  <2> HIDE DEF f, R, n
  <2> QED BY <1>2, <2>2, <2>3
<1> HIDE DEF R
<1>6. /\ P \in Seq(Octet) /\ Len(P) = first + Len(R) /\ Len(R) \in Nat
      /\ \A x \in 1 .. Len(R) : P[first + x] = R[x]
  <2>1. /\ P \in Seq(Octet) /\ Len(P) = Len(head) + Len(R) /\ Len(R) \in Nat
        /\ \A x \in 1 .. Len(head) + Len(R) :
             P[x] = IF x <= Len(head) THEN head[x] ELSE R[x - Len(head)]
    BY <1>4, ConcatProperties, LenProperties
  <2> HIDE DEF P
  <2>2. ASSUME NEW x \in 1 .. Len(R) PROVE P[first + x] = R[x]
    <3> DEFINE y == first + x
               r == Len(R)
    <3>1. r \in Nat
      BY <2>1
    <3>2. y \in 1 .. first + r /\ ~(y <= first) /\ y - first = x
      BY <1>1, <3>1
    <3> HIDE DEF y
    <3> QED BY <2>1, <3>2 DEF y
  <2> QED BY <2>1, <2>2
<1> HIDE DEF P
<1>7. ASSUME NEW k \in 1 .. n
      PROVE  LET o == first + SumOfLengths(SubSeq(ps, 1, k - 1))
             IN SubSeq(P, o + 1, o + ps[k].length) = Read(ps[k], s)
  <2> DEFINE b == Len(FlattenSeq(Pieces(f, k - 1)))
             o == first + b
             l == ps[k].length
             F == f[k]
  <2>1. SumOfLengths(SubSeq(ps, 1, k - 1)) = b
    <3>1. k - 1 \in 0 .. Len(ps)
      BY <1>1
    <3> QED BY <3>1, SumIsRead
  <2>2. F \in Seq(Octet) /\ Len(F) = l /\ F = Read(ps[k], s) /\ l \in Nat
    BY <1>4, LenProperties
  <2>3. b \in Nat
    <3> HIDE DEF f
    <3>1. k - 1 \in 0 .. n
      BY <1>1
    <3> QED BY <1>1, <1>4, <3>1, FlattenGrows
  <2>4. \A x \in 1 .. l : b + x \in 1 .. Len(R) /\ R[b + x] = F[x]
    <3>1. SUFFICES ASSUME NEW x \in 1 .. l PROVE b + x \in 1 .. Len(R) /\ R[b + x] = F[x]
      OBVIOUS
    <3> HIDE DEF f
    <3>2. x \in 1 .. Len(f[k])
      BY <2>2
    <3>3. /\ Len(FlattenSeq(Pieces(f, k - 1))) + x \in 1 .. Len(FlattenSeq(Pieces(f, n)))
          /\ FlattenSeq(Pieces(f, n))[Len(FlattenSeq(Pieces(f, k - 1))) + x] = f[k][x]
      BY <1>1, <1>4, <3>2, FlattenPlace, ZenonT(60)
    <3> QED BY <1>2, <3>3
  <2> HIDE DEF b, F, l, f, n
  <2>5. \A x \in 1 .. l : o + x \in 1 .. Len(P) /\ P[o + x] = F[x]
    <3>1. SUFFICES ASSUME NEW x \in 1 .. l PROVE o + x \in 1 .. Len(P) /\ P[o + x] = F[x]
      OBVIOUS
    <3> DEFINE y == b + x
               r == Len(R)
    <3>2. y \in 1 .. r /\ R[y] = F[x]
      BY <2>4
    <3>3. o + x = first + y
      BY <1>1, <2>3
    <3>4. first + y \in 1 .. first + r
      <4>1. r \in Nat
        BY <1>6
      <4> HIDE DEF y, r
      <4> QED BY <1>1, <3>2, <4>1
    <3>5. P[first + y] = R[y]
      BY <1>6, <3>2
    <3> HIDE DEF o, y, r
    <3> QED BY <1>6, <3>2, <3>3, <3>4, <3>5 DEF r
  <2> DEFINE S == SubSeq(P, o + 1, o + l)
  <2>6. S \in Seq(Octet) /\ Len(S) = l /\ \A x \in 1 .. l : S[x] = P[o + x]
    <3> DEFINE i == o + 1
               j == o + l
    <3>1. o \in Nat /\ i \in Int /\ j \in Int /\ j - i + 1 = l
      BY <1>1, <2>2, <2>3
    <3>2. \A x \in i .. j : P[x] \in Octet
      <4>1. SUFFICES ASSUME NEW x \in i .. j PROVE P[x] \in Octet
        OBVIOUS
      <4>2. x - o \in 1 .. l /\ o + (x - o) = x
        <5>1. l \in Nat /\ o \in Nat /\ x \in o + 1 .. o + l
          BY <2>2, <3>1
        <5> HIDE DEF o
        <5> QED BY <5>1
      <4>3. x \in 1 .. Len(P)
        BY <2>5, <4>2
      <4>4. P \in Seq(Octet)
        BY <1>6
      <4> QED BY <4>3, <4>4, ElementOfSeq
    <3> HIDE DEF i, j, o
    <3>3. /\ SubSeq(P, i, j) \in Seq(Octet)
          /\ Len(SubSeq(P, i, j)) = IF i <= j THEN j - i + 1 ELSE 0
          /\ \A x \in 1 .. j - i + 1 : SubSeq(P, i, j)[x] = P[i + x - 1]
      BY <1>6, <3>1, <3>2, SubSeqProperties
    <3>4. Len(SubSeq(P, i, j)) = l
      BY <2>2, <3>1, <3>3
    <3>5. \A x \in 1 .. l : i + x - 1 = o + x
      BY <3>1, <2>2 DEF i
    <3> QED BY <3>1, <3>3, <3>4, <3>5 DEF i, j
  <2> HIDE DEF S
  <2>7. S = F
    BY <2>2, <2>5, <2>6, SeqEqual
  <2>8. SubSeq(P, o + 1, o + l) = Read(ps[k], s)
    BY <2>2, <2>7 DEF S
  <2> QED BY <2>1, <2>8 DEF o, l
<1> QED BY <1>5, <1>6, <1>7 DEF n, P, R

(***************************************************************************)
(* What a DTO carries: the measurements of its ODT, as they were when the  *)
(* device sampled.                                                         *)
(***************************************************************************)
Heading(i, j, time) == IF Stamped(config.lists[i], j) THEN TimestampOctets(time) ELSE <<>>
IsPart(dto, i, j) == IsDto(dto, i, j) /\ dto.list = Number(i)
Exact(dto, i, j) ==
  \/ Props.interleaved \/ SharesLastOctet(config.lists[i])
  \/ dto.payload = Heading(i, j, dto.time) \o Readings(FlattenOdt(NewPlan[i][j]), dto.sample)

LEMMA HeadingTyped ==
  ASSUME config \in Configurations, NEW i, NEW j, NEW time \in Nat
  PROVE  /\ Heading(i, j, time) \in Seq(Octet)
         /\ Len(Heading(i, j, time)) = IF Stamped(config.lists[i], j) THEN Props.tsSize ELSE 0
<1> DEFINE x == <<NoMemory, time % Wrap, 0>>
           n == Props.tsSize
<1>1. n \in Nat
  BY PropsTyped
<1>2. Wrap \in Nat \ {0}
  <2>1. Props.tsSize \in {0, 1, 2, 4}
    BY PropsTyped
  <2> QED BY <2>1 DEF Wrap
<1>3. x \in Octet
  <2>1. time % Wrap \in Int /\ NoMemory \in Int
    BY <1>2 DEF NoMemory
  <2> QED BY <2>1 DEF Octet
<1> HIDE DEF x, n
<1>4. Copies(n, x) \in Seq(Octet) /\ Len(Copies(n, x)) = n
  BY <1>1, <1>3, CopiesTyped
<1>5. TimestampOctets(time) = Copies(n, x)
  BY DEF TimestampOctets, x, n
<1>6. <<>> \in Seq(Octet) /\ Len(<<>>) = 0
  BY EmptySeq
<1> QED BY <1>4, <1>5, <1>6 DEF Heading, n

(* The octets that the device reads of an ODT.                             *)
OdtOctets(o, s) == ForEach(DOMAIN o, LAMBDA e : Read(o[e], s))

LEMMA EntriesRead ==
  ASSUME NEW o, NEW es, NEW m \in Nat, o = [e \in 1 .. m |-> EntryOf(es[e])], Len(es) = m, NEW s
  PROVE  OdtOctets(o, s) = Readings(es, s)
<1> DEFINE f == [k \in 1 .. m |-> Read(es[k], s)]
           g == [e \in DOMAIN o |-> Read(o[e], s)]
<1>1. \A x : Read(EntryOf(x), s) = Read(x, s)
  BY DEF Read, EntryOf
<1>2. DOMAIN o = 1 .. m /\ \A e \in 1 .. m : o[e] = EntryOf(es[e])
  OBVIOUS
<1>3. g = Pieces(f, m)
  BY <1>1, <1>2 DEF Pieces
<1>4. OdtOctets(o, s) = FlattenSeq(g)
  BY DEF ForEach, OdtOctets
<1>5. Readings(es, s) = FlattenSeq(Pieces(f, m))
  BY DEF Readings
<1> HIDE DEF f, g
<1> QED BY <1>3, <1>4, <1>5

LEMMA DtoCarries ==
  ASSUME config \in Configurations, IsDevice(device), Shaped(device), Filled(device),
         NEW i \in ListIndices, NEW j \in 1 .. Len(NewPlan[i]), NEW sample \in Int,
         NEW time \in Nat
  PROVE  LET d == Dto(Number(i), j, sample, time)
         IN IsPart(d, i, j) /\ Exact(d, i, j) /\ d.sample = sample /\ d.time = time
<1> DEFINE n == Number(i)
           l == device.lists[n]
           o == l.odts[j]
           es == EntriesOf(i, j)
           m == Len(es)
           bin == NewPlan[i][j]
           d == Dto(n, j, sample, time)
<1>1. /\ d.list = n /\ d.sample = sample
      /\ ~Props.interleaved =>
           d.payload = (IF j = 1 /\ "timestamp" \in l.mode THEN TimestampOctets(time) ELSE <<>>)
                       \o OdtOctets(o, sample)
  BY DEF Dto, Shifted, OdtOctets
<1>2. IsDto(d, i, j) /\ d.time = time
  BY DtoIs
<1>3. "timestamp" \in l.mode <=> Timestamped(config.lists[i])
  <2>1. l.mode = ListMode(config.lists[i])
    BY DEF Shaped, ModeOf
  <2> QED BY <2>1 DEF ListMode
<1>4. bin \in Bins /\ m \in Nat
  BY PlanList DEF EntriesOf
<1>5. o = [e \in 1 .. m |-> EntryOf(es[e])]
  BY DEF Filled, OdtAt
<1> HIDE DEF d, o, bin, m
<1>6. OdtOctets(o, sample) = Readings(es, sample)
  <2>1. Len(es) = m
    BY DEF m
  <2> HIDE DEF es
  <2>2. o = [e \in 1 .. m |-> EntryOf(es[e])] /\ m \in Nat
    BY <1>4, <1>5
  <2> QED BY <2>1, <2>2, EntriesRead
<1>7. ASSUME ~Props.interleaved PROVE d.payload = Heading(i, j, time) \o Readings(es, sample)
  <2> DEFINE a == OdtOctets(o, sample)
             r == Readings(es, sample)
  <2>1. /\ d.payload = (IF j = 1 /\ "timestamp" \in l.mode THEN TimestampOctets(time) ELSE <<>>)
                         \o a
        /\ a = r
    BY <1>1, <1>6, <1>7
  <2> HIDE DEF a, r, l
  <2>2. d.payload = (IF j = 1 /\ "timestamp" \in l.mode THEN TimestampOctets(time) ELSE <<>>) \o r
    BY <2>1
  <2>3. d.payload = Heading(i, j, time) \o r
    BY <1>3, <2>2 DEF Heading, Stamped
  <2> QED BY <2>3 DEF r
<1>8. ASSUME ~SharesLastOctet(config.lists[i])
      PROVE  Readings(FlattenOdt(bin), sample) = Readings(es, sample)
  <2>1. es = bin.entries
    BY DEF EntriesOf, bin
  <2>2. \A e \in 1 .. Len(bin.entries) : Tiled(bin.entries[e])
    BY <1>8, PlanTiled DEF bin
  <2> HIDE DEF es
  <2>3. Readings(FlattenOdt(bin), sample) = Readings(bin.entries, sample)
    BY <1>4, <2>2, FlattenTiled
  <2> QED BY <2>1, <2>3
<1>9. Exact(d, i, j)
  BY <1>1, <1>2, <1>7, <1>8 DEF Exact, bin
<1> QED BY <1>1, <1>2, <1>9 DEF IsPart, d

(***************************************************************************)
(* What the decoder makes of it                                            *)
(***************************************************************************)
Carries(payload, list, odt, params, s) ==
  /\ params \in Seq(Objects) /\ s \in Int
  /\ \E head \in Seq(Octet) :
       /\ Len(head) = IF odt = 0 /\ Timestamped(list) THEN Props.tsSize ELSE 0
       /\ payload = head \o Readings(params, s)

(* The measurements of an ODT go behind the first c of the buffer.         *)
Refilled(v, b, c, params, s) ==
  /\ IsSequence(v) /\ Len(v) = Len(b)
  /\ \A k \in 1 .. Len(b) :
       v[k] = IF k - c \in 1 .. Len(params) THEN Read(params[k - c], s) ELSE b[k]

Fitting(o, c, m, odt, list, payload, params, s) ==
  params = o[odt + 1] /\ m = c + Len(params) /\ Carries(payload, list, odt, params, s)

LEMMA ParsedExactly ==
  ASSUME NEW o, NEW s, NEW n, NEW c, NEW t, NEW b, NEW g, NEW odt, NEW list, NEW payload,
         IsSequence(b), NEW params, NEW m, NEW sample,
         Fitting(o, c, m, odt, list, payload, params, sample)
  PROVE  \E v : /\ ParseOdt(Decoder(o, s, n, c, t, b, g), list, odt, payload)
                     = Decoder(o, s, n, m, Stamp(list, odt, payload, t), v, g)
                /\ Refilled(v, b, c, params, sample)
<1> DEFINE d == Decoder(o, s, n, c, t, b, g)
           first == IF odt = 0 /\ Timestamped(list) THEN Props.tsSize ELSE 0
           offset(k) == first + SumOfLengths(SubSeq(params, 1, k - 1))
           value(k) == SubSeq(payload, offset(k) + 1, offset(k) + params[k].length)
           v == [k \in DOMAIN b |-> IF k - c \in DOMAIN params THEN value(k - c) ELSE b[k]]
           u == Stamp(list, odt, payload, t)
<1>0. params = o[odt + 1] /\ m = c + Len(params) /\ Carries(payload, list, odt, params, sample)
  BY DEF Fitting
<1>1. d.odts = o /\ d.state = s /\ d.next = n /\ d.current = c /\ d.timestamp = t
      /\ d.buffer = b /\ d.began = g
  BY DEF Decoder
<1>2. [d EXCEPT !.timestamp = u, !.current = m, !.buffer = v] = Decoder(o, s, n, m, u, v, g)
  <2> HIDE DEF u, v
  <2>1. [d EXCEPT !.timestamp = u] = Decoder(o, s, n, c, u, b, g)
    BY DEF Decoder
  <2>2. [Decoder(o, s, n, c, u, b, g) EXCEPT !.current = m] = Decoder(o, s, n, m, u, b, g)
    BY DEF Decoder
  <2>3. [Decoder(o, s, n, m, u, b, g) EXCEPT !.buffer = v] = Decoder(o, s, n, m, u, v, g)
    BY DEF Decoder
  <2> HIDE DEF d
  <2> QED BY <2>1, <2>2, <2>3
<1> HIDE DEF d
<1>3. ParseOdt(d, list, odt, payload)
        = IF params # <<>> /\ first + SumOfLengths(params) > Len(payload)
          THEN [d EXCEPT !.state = "terminated"]
          ELSE [d EXCEPT !.timestamp = u, !.current = m, !.buffer = v]
  BY <1>0, <1>1 DEF ParseOdt, Stamp
<1>4. /\ params \in Seq(Objects) /\ Len(params) \in Nat /\ DOMAIN params = 1 .. Len(params)
      /\ Len(payload) = first + SumOfLengths(params) /\ Len(payload) \in Nat
      /\ \A k \in 1 .. Len(params) : value(k) = Read(params[k], sample)
  <2>1. params \in Seq(Objects) /\ sample \in Int
    BY <1>0 DEF Carries
  <2>2. PICK head \in Seq(Octet) : Len(head) = first /\ payload = head \o Readings(params, sample)
    BY <1>0 DEF Carries
  <2> HIDE DEF first
  <2>3. /\ Len(head \o Readings(params, sample)) = first + SumOfLengths(params)
        /\ \A k \in 1 .. Len(params) :
             LET y == first + SumOfLengths(SubSeq(params, 1, k - 1))
             IN SubSeq(head \o Readings(params, sample), y + 1, y + params[k].length)
                  = Read(params[k], sample)
    BY <2>1, <2>2, Parted
  <2>4. payload \in Seq(Octet)
    <3>1. Readings(params, sample) \in Seq(Octet)
      BY <2>1, SeqOfObjects, ReadsTyped
    <3> QED BY <2>2, <3>1, ConcatProperties
  <2>5. Len(payload) \in Nat /\ Len(params) \in Nat /\ DOMAIN params = 1 .. Len(params)
    BY <2>1, <2>4, LenProperties
  <2> QED BY <2>1, <2>2, <2>3, <2>5
<1>5. ParseOdt(d, list, odt, payload) = Decoder(o, s, n, m, u, v, g)
  <2> DEFINE x == first + SumOfLengths(params)
             y == Len(payload)
  <2>1. ~(x > y)
    <3>1. x = y /\ y \in Int
      BY <1>4
    <3> HIDE DEF x, y
    <3> QED BY <3>1
  <2> HIDE DEF v, u, first, x, y
  <2> QED BY <1>2, <1>3, <2>1 DEF x, y
<1>6. Refilled(v, b, c, params, sample)
  <2> DEFINE l == Len(b)
             e(k) == IF k - c \in DOMAIN params THEN value(k - c) ELSE b[k]
             X == {e(k) : k \in 1 .. l}
             w == [k \in 1 .. l |-> e(k)]
  <2>1. l \in Nat /\ DOMAIN b = 1 .. l
    BY DEF IsSequence
  <2>2. v = w /\ \A k \in 1 .. l : e(k) \in X
    BY <2>1
  <2>3. \A k \in 1 .. l :
          e(k) = IF k - c \in 1 .. Len(params) THEN Read(params[k - c], sample) ELSE b[k]
    <3> HIDE DEF value
    <3> QED BY <1>4
  <2>4. \A k \in 1 .. l : w[k] = e(k)
    <3> HIDE DEF e
    <3> QED OBVIOUS
  <2> HIDE DEF l, e, X
  <2>5. w \in Seq(X) /\ Len(w) = l
    BY <2>1, <2>2
  <2> HIDE DEF v, w
  <2> QED BY <2>2, <2>3, <2>4, <2>5, SequenceIs DEF l, Refilled
<1> HIDE DEF v, u
<1> QED BY <1>5, <1>6 DEF d, u

(* feed() takes the ODT that is due.                                       *)
Collects(f, o, c, t, b, g, list, odt, payload, s) ==
  LET p == IF odt = 0 THEN 0 ELSE c
      done == odt + 1 = Len(o)
  IN \E v : /\ f = Decoder(o, IF done THEN "finished" ELSE "collecting",
                           IF done THEN 0 ELSE odt + 1, p + Len(o[odt + 1]),
                           Stamp(list, odt, payload, t), v, g)
            /\ Refilled(v, b, p, o[odt + 1], s)

LEMMA FedExactly ==
  ASSUME NEW o, NEW s, NEW n, NEW c, NEW t, NEW b, NEW g, NEW list, NEW odt, NEW payload,
         IsSequence(b), s \in {"idle", "collecting"},
         odt = 0 \/ (odt # 0 /\ s = "collecting" /\ odt = n),
         NEW sample, Carries(payload, list, odt, o[odt + 1], sample)
  PROVE  Collects(Fed(Decoder(o, s, n, c, t, b, g), list, odt, payload),
                  o, c, t, b, g, list, odt, payload, sample)
<1> DEFINE d == Decoder(o, s, n, c, t, b, g)
           checked == CheckState(d, odt)
           rewound == IF odt = 0 THEN [checked EXCEPT !.current = 0] ELSE checked
           f == Fed(d, list, odt, payload)
           u == Stamp(list, odt, payload, t)
           p == IF odt = 0 THEN 0 ELSE c
           done == odt + 1 = Len(o)
           s1 == IF done THEN "finished" ELSE "collecting"
           n1 == IF done THEN 0 ELSE odt + 1
           parsed(e) == ParseOdt(e, list, odt, payload)
<1>1. d.state = s
  BY FieldsHold DEF Fields
<1>2. f = IF rewound.state \in {"collecting", "finished"} THEN parsed(rewound) ELSE rewound
  <2> HIDE DEF d
  <2> QED BY <1>1 DEF Fed
<1>3. checked = Decoder(o, s1, n1, c, t, b, g)
  <2>1. checked = IF odt = 0 /\ Len(o) = 1 THEN Decoder(o, "finished", 0, c, t, b, g)
                  ELSE IF odt = 0 THEN Decoder(o, "collecting", 1, c, t, b, g)
                  ELSE IF s # "collecting" THEN d
                  ELSE IF odt # n THEN Decoder(o, "idle", 0, c, t, b, g)
                  ELSE IF odt + 1 = Len(o) THEN Decoder(o, "finished", 0, c, t, b, g)
                  ELSE Decoder(o, s, n + 1, c, t, b, g)
    BY Checked
  <2> HIDE DEF checked, d
  <2>2. CASE odt = 0
    <3>1. odt + 1 = 1
      BY <2>2
    <3> QED BY <2>1, <2>2, <3>1
  <2>3. CASE odt # 0 /\ s = "collecting" /\ odt = n
    BY <2>1, <2>3
  <2> QED BY <2>2, <2>3
<1>4. rewound = Decoder(o, s1, n1, p, t, b, g)
  <2> HIDE DEF checked, s1, n1
  <2>1. [Decoder(o, s1, n1, c, t, b, g) EXCEPT !.current = 0] = Decoder(o, s1, n1, 0, t, b, g)
    BY DEF Decoder
  <2> QED BY <1>3, <2>1
<1>5. Decoder(o, s1, n1, p, t, b, g).state = s1 /\ s1 \in {"collecting", "finished"}
  <2>1. s1 \in {"collecting", "finished"}
    OBVIOUS
  <2> HIDE DEF s1, n1, p
  <2> QED BY <2>1, FieldsHold DEF Fields
<1> HIDE DEF s1, n1, p, rewound, f
<1>6. f = parsed(Decoder(o, s1, n1, p, t, b, g))
  <2> HIDE DEF parsed
  <2> QED BY <1>2, <1>4, <1>5
<1> DEFINE params == o[odt + 1]
           m == p + Len(params)
<1>7. \E v : /\ parsed(Decoder(o, s1, n1, p, t, b, g)) = Decoder(o, s1, n1, m, u, v, g)
             /\ Refilled(v, b, p, params, sample)
  <2>1. Fitting(o, p, m, odt, list, payload, params, sample)
    BY DEF Fitting
  <2> HIDE DEF params, m
  <2> QED BY <1>6, <2>1, ParsedExactly
<1> HIDE DEF m
<1>8. \E v : /\ f = Decoder(o, s1, n1, m, u, v, g)
             /\ Refilled(v, b, p, params, sample)
  <2> HIDE DEF parsed, u, params
  <2> QED BY <1>6, <1>7
<1>9. \E v : /\ f = Decoder(o, IF done THEN "finished" ELSE "collecting",
                            IF done THEN 0 ELSE odt + 1, m, u, v, g)
             /\ Refilled(v, b, p, params, sample)
  <2> HIDE DEF u, done, params
  <2> QED BY <1>8 DEF s1, n1
<1>10. Collects(f, o, c, t, b, g, list, odt, payload, sample)
  BY <1>9 DEF Collects, p, m
<1> QED BY <1>10 DEF f

(* A measurement of the i-th list as it was in sample s.                   *)
ValueOf(i, k, s) == Read(Flat(NewPlan[i])[k], s)

(* The decoder f has taken the j-th ODT of sample s behind those that d    *)
(* has taken.                                                              *)
Gained(f, d, i, j, s) ==
  LET bins == NewPlan[i]
  IN /\ f.state = IF j = Len(bins) THEN "finished" ELSE "collecting"
     /\ f.next = IF j = Len(bins) THEN 0 ELSE j
     /\ f.current = Ends(bins, j)
     /\ IsSequence(f.buffer) /\ Len(f.buffer) = Len(Flat(bins))
     /\ \A k \in 1 .. Ends(bins, j) :
          f.buffer[k] = IF k <= Ends(bins, j - 1) THEN d.buffer[k] ELSE ValueOf(i, k, s)
     /\ j > 1 => d.state = "collecting" /\ d.next = j - 1 /\ d.current = Ends(bins, j - 1)

LEMMA BeginningIs ==
  ASSUME NEW o, NEW s, NEW n, NEW c, NEW t, NEW b, NEW h, NEW odt, NEW time
  PROVE  Beginning(Decoder(o, s, n, c, t, b, h), odt, time)
           = Decoder(o, s, n, c, t, b, IF odt = 0 THEN time ELSE h)
<1>1. [Decoder(o, s, n, c, t, b, h) EXCEPT !.began = time] = Decoder(o, s, n, c, t, b, time)
  BY DEF Decoder
<1> QED BY <1>1 DEF Beginning

(* Where the measurements of an ODT are among those of the list.           *)
LEMMA PlacesOf ==
  ASSUME NEW bins \in BinSeqs, NEW j \in 1 .. Len(bins)
  PROVE  /\ j \in Nat /\ j - 1 \in 0 .. Len(bins) /\ Len(bins) \in Nat
         /\ Ends(bins, 0) = 0 /\ Len(Flat(bins)) \in Nat
         /\ Ends(bins, j - 1) \in Nat /\ Len(FlattenOdts(bins)[j]) \in Nat
         /\ FlattenOdts(bins)[j] = FlattenOdt(bins[j]) /\ FlattenOdts(bins)[j] \in Seq(Objects)
         /\ Ends(bins, j) = Ends(bins, j - 1) + Len(FlattenOdts(bins)[j])
         /\ Ends(bins, j) \in 0 .. Len(Flat(bins))
         /\ \A x \in 1 .. Len(FlattenOdts(bins)[j]) :
              Flat(bins)[Ends(bins, j - 1) + x] = FlattenOdts(bins)[j][x]
<1> DEFINE o == FlattenOdts(bins)
           n == Len(bins)
<1>1. /\ n \in Nat \ {0} /\ n \in Nat /\ \A k \in 1 .. n : o[k] \in Seq(Objects)
      /\ o[j] = FlattenOdt(bins[j])
  BY OdtsTyped
<1>2. j \in Nat /\ j - 1 \in 0 .. n - 1 /\ j - 1 \in 0 .. n /\ (j - 1) + 1 = j
  BY <1>1
<1>3. Ends(bins, 0) = 0
  <2>1. FlattenSeq(Pieces(o, 0)) = <<>>
    BY FlattenNone
  <2>2. Ends(bins, 0) = Len(<<>>)
    BY <2>1 DEF Ends
  <2> QED BY <2>2
<1>4. /\ \A m \in 0 .. n : Ends(bins, m) \in 0 .. Len(Flat(bins))
      /\ \A m \in 0 .. n - 1 : Ends(bins, m + 1) = Ends(bins, m) + Len(o[m + 1])
  BY EndsGrow
<1>5. Ends(bins, j) = Ends(bins, j - 1) + Len(o[j])
  <2> HIDE DEF o
  <2>1. Ends(bins, (j - 1) + 1) = Ends(bins, j - 1) + Len(o[(j - 1) + 1])
    BY <1>2, <1>4
  <2> QED BY <1>2, <2>1
<1>6. Len(o[j]) \in Nat /\ Len(Flat(bins)) \in Nat
  BY <1>1, OdtsTyped, LenProperties
<1>7. ASSUME NEW x \in 1 .. Len(o[j]) PROVE Flat(bins)[Ends(bins, j - 1) + x] = o[j][x]
  <2> HIDE DEF o, n
  <2>1. FlattenSeq(Pieces(o, n))[Len(FlattenSeq(Pieces(o, j - 1))) + x] = o[j][x]
    <3>1. j \in 1 .. n
      BY DEF n
    <3> QED BY <1>1, <3>1, FlattenPlace, ZenonT(60)
  <2>2. Flat(bins) = FlattenSeq(Pieces(o, n)) /\ Ends(bins, j - 1) = Len(FlattenSeq(Pieces(o, j - 1)))
    BY DEF Flat, Ends, o, n
  <2> QED BY <2>1, <2>2
<1>8. Ends(bins, j - 1) \in Nat /\ Ends(bins, j) \in 0 .. Len(Flat(bins))
  <2>1. Ends(bins, j - 1) \in 0 .. Len(Flat(bins)) /\ j \in 0 .. n
    BY <1>2, <1>4
  <2>2. Ends(bins, j) \in 0 .. Len(Flat(bins))
    BY <1>4, <2>1
  <2> QED BY <2>1, <2>2
<1> QED BY <1>1, <1>2, <1>3, <1>5, <1>6, <1>7, <1>8

LEMMA Collected ==
  ASSUME config \in Configurations, NEW i \in ListIndices, ~SharesLastOctet(config.lists[i]),
         ~Props.interleaved, NEW d, Decoding(d, NewPlan[i]), d.state # "terminated", NEW j \in 1 .. Len(NewPlan[i]),
         NEW dto, IsPart(dto, i, j), Exact(dto, i, j), dto.sample \in Int
  PROVE  LET f == Fed(Beginning(d, j - 1, dto.time), config.lists[i], j - 1, dto.payload)
         IN f.state = "idle" \/ Gained(f, d, i, j, dto.sample)
<1> DEFINE bins == NewPlan[i]
           L == Len(bins)
           list == config.lists[i]
           payload == dto.payload
           time == dto.time
           sample == dto.sample
           odt == j - 1
           o == d.odts
           s == d.state
           n == d.next
           c == d.current
           t == d.timestamp
           b == d.buffer
           g == IF odt = 0 THEN time ELSE d.began
           u == Stamp(list, odt, payload, t)
           f == Fed(Beginning(d, odt, time), list, odt, payload)
           p == IF odt = 0 THEN 0 ELSE c
           params == FlattenOdts(bins)[j]
<1>1. /\ d = Decoder(o, s, n, c, t, b, d.began) /\ o = FlattenOdts(bins)
      /\ s \in {"idle", "collecting"} /\ IsSequence(b) /\ Len(b) = Len(Flat(bins))
      /\ s = "collecting" => c = Ends(bins, n)
  <2>1. /\ IsDecoder(d) /\ o = FlattenOdts(bins) /\ s \in {"idle", "collecting", "terminated"}
        /\ IsSequence(b) /\ Len(b) = Len(Flat(bins))
        /\ s = "collecting" => c = Len(FlattenSeq(Pieces(o, n)))
    BY DEF Decoding
  <2>2. s = "collecting" => c = Ends(bins, n)
    BY <2>1 DEF Ends
  <2>3. d = Decoder(o, s, n, c, t, b, d.began)
    BY <2>1 DEF IsDecoder
  <2> QED BY <2>1, <2>2, <2>3
<1>2. f = Fed(Decoder(o, s, n, c, t, b, g), list, odt, payload)
  <2> DEFINE h == d.began
  <2>1. d = Decoder(o, s, n, c, t, b, h) /\ g = IF odt = 0 THEN time ELSE h
    BY <1>1
  <2> HIDE DEF o, s, n, c, t, b, g, h, odt
  <2> QED BY <2>1, BeginningIs
<1>3. bins \in BinSeqs /\ j \in 1 .. Len(bins)
  BY PlanList
<1> HIDE DEF bins
<1>4. /\ j \in Nat /\ L \in Nat /\ Ends(bins, 0) = 0 /\ Len(Flat(bins)) \in Nat
      /\ Ends(bins, j - 1) \in Nat /\ Len(params) \in Nat
      /\ params = FlattenOdt(bins[j]) /\ params \in Seq(Objects)
      /\ Ends(bins, j) = Ends(bins, j - 1) + Len(params)
      /\ Ends(bins, j) \in 0 .. Len(Flat(bins))
      /\ \A x \in 1 .. Len(params) : Flat(bins)[Ends(bins, j - 1) + x] = params[x]
  BY <1>3, PlacesOf
<1>5. Carries(payload, list, odt, params, sample)
  <2>1. time \in Nat
    BY DEF IsPart, IsDto
  <2>2. payload = Heading(i, j, time) \o Readings(params, sample)
    BY <1>4 DEF Exact, bins
  <2>3. /\ Heading(i, j, time) \in Seq(Octet)
        /\ Len(Heading(i, j, time)) = IF Stamped(list, j) THEN Props.tsSize ELSE 0
    <3> HIDE DEF time
    <3> QED BY <2>1, HeadingTyped
  <2>4. Stamped(list, j) <=> odt = 0 /\ Timestamped(list)
    BY <1>4 DEF Stamped
  <2> HIDE DEF payload, list, odt, params, time
  <2> QED BY <1>4, <2>2, <2>3, <2>4 DEF Carries
<1> HIDE DEF f, g, s, n, c, t, b, o, time, payload, sample
<1>6. ASSUME odt = 0 \/ (odt # 0 /\ s = "collecting" /\ odt = n)
      PROVE  Gained(f, d, i, j, sample)
  <2>1. o[odt + 1] = params
    <3>1. odt + 1 = j
      BY <1>4
    <3> QED BY <1>1, <3>1
  <2> DEFINE done == odt + 1 = Len(o)
             y == IF done THEN "finished" ELSE "collecting"
             z == IF done THEN 0 ELSE odt + 1
             m == p + Len(o[odt + 1])
  <2>2. PICK v : f = Decoder(o, y, z, m, u, v, g) /\ Refilled(v, b, p, o[odt + 1], sample)
    <3>1. Carries(payload, list, odt, o[odt + 1], sample)
      BY <1>5, <2>1
    <3>2. Collects(f, o, c, t, b, g, list, odt, payload, sample)
      <4> HIDE DEF odt, list, params
      <4> QED BY <1>1, <1>2, <1>6, <3>1, FedExactly
    <3> QED BY <3>2 DEF Collects
  <2>3. p = Ends(bins, j - 1)
    BY <1>1, <1>4, <1>6
  <2>4. Len(o) = L
    BY <1>1, <1>3, OdtsTyped
  <2>5. y = IF j = L THEN "finished" ELSE "collecting"
    BY <1>4, <2>4
  <2>6. z = IF j = L THEN 0 ELSE j
    BY <1>4, <2>4
  <2>7. m = Ends(bins, j)
    BY <1>4, <2>1, <2>3
  <2>8. f.state = y /\ f.next = z /\ f.current = m /\ f.buffer = v
    <3> HIDE DEF y, z, m, u
    <3> QED BY <2>2, FieldsHold DEF Fields
  <2>9. IsSequence(v) /\ Len(v) = Len(Flat(bins))
    BY <1>1, <2>2 DEF Refilled
  <2>10. ASSUME NEW k \in 1 .. Ends(bins, j)
         PROVE  v[k] = IF k <= Ends(bins, j - 1) THEN b[k] ELSE ValueOf(i, k, sample)
    <3> DEFINE e == Ends(bins, j - 1)
               r == Len(params)
    <3>1. /\ e \in Nat /\ r \in Nat /\ k \in 1 .. e + r /\ k \in 1 .. Len(b)
      BY <1>1, <1>4
    <3>2. v[k] = IF k - e \in 1 .. r THEN Read(params[k - e], sample) ELSE b[k]
      <4> HIDE DEF params, p, odt
      <4>1. v[k] = IF k - p \in 1 .. Len(params) THEN Read(params[k - p], sample) ELSE b[k]
        BY <2>1, <2>2, <3>1 DEF Refilled
      <4> QED BY <2>3, <4>1
    <3>3. \A x \in 1 .. r : Flat(bins)[e + x] = params[x]
      BY <1>4
    <3> HIDE DEF e, r, params
    <3>4. CASE k <= e
      <4>1. ~(k - e \in 1 .. r)
        BY <3>1, <3>4
      <4> QED BY <3>2, <3>4, <4>1 DEF e
    <3>5. CASE ~(k <= e)
      <4>1. k - e \in 1 .. r /\ e + (k - e) = k
        BY <3>1, <3>5
      <4>2. Flat(bins)[k] = params[k - e]
        BY <3>3, <4>1
      <4> QED BY <3>2, <3>5, <4>1, <4>2 DEF e, ValueOf, bins
    <3> QED BY <3>4, <3>5
  <2>11. j > 1 => s = "collecting" /\ n = j - 1 /\ c = Ends(bins, j - 1)
    <3>1. j > 1 => odt # 0 /\ odt = j - 1
      BY <1>4
    <3> QED BY <1>1, <1>6, <3>1
  <2> HIDE DEF y, z, m
  <2> QED BY <2>5, <2>6, <2>7, <2>8, <2>9, <2>10, <2>11 DEF Gained, bins, s, n, c, b
<1>7. ASSUME ~(odt = 0 \/ (odt # 0 /\ s = "collecting" /\ odt = n))
      PROVE  f.state = "idle"
  <2>1. \/ Taken(f, o, s, n, c, t, b, g, list, odt, payload)
        \/ Dropped(f, o, s, n, c, t, b, g, odt)
        \/ Crashed(f, o, s, n, c, t, b, g, odt)
    BY <1>1, <1>2, FedIs
  <2> HIDE DEF odt, list
  <2>2. ~Taken(f, o, s, n, c, t, b, g, list, odt, payload)
    BY <1>7 DEF Taken
  <2>3. ~Crashed(f, o, s, n, c, t, b, g, odt)
    BY <1>7 DEF Crashed
  <2>4. Dropped(f, o, s, n, c, t, b, g, odt)
    BY <2>1, <2>2, <2>3
  <2>5. PICK y, m : f = Decoder(o, y, m, c, t, b, g) /\ y = "idle"
    BY <1>1, <2>4 DEF Dropped
  <2> QED BY <2>5, FieldsHold DEF Fields
<1>8. f.state = "idle" \/ Gained(f, d, i, j, sample)
  BY <1>6, <1>7
<1> QED BY <1>8 DEF f, payload, time, sample

(***************************************************************************)
(* The DTOs on their way                                                   *)
(***************************************************************************)

(* The k-th of them is of the j-th ODT of list i, and its neighbours are   *)
(* of the ODTs next to it.                                                 *)
Linked(dtos, k, i, j) ==
  /\ IsPart(dtos[k], i, j) /\ Exact(dtos[k], i, j)
  /\ j < Len(NewPlan[i]) => /\ k + 1 \in 1 .. Len(dtos) /\ IsPart(dtos[k + 1], i, j + 1)
                            /\ dtos[k + 1].sample = dtos[k].sample
  /\ j > 1 /\ k > 1 => IsPart(dtos[k - 1], i, j - 1)
Placed(dtos, k) == \E i \in ListIndices : \E j \in 1 .. Len(NewPlan[i]) : Linked(dtos, k, i, j)
Streamed(dtos, count) ==
  \A k \in 1 .. Len(dtos) :
    /\ dtos[k].sample \in 1 .. count
    /\ \A l \in k .. Len(dtos) : dtos[k].sample <= dtos[l].sample
    /\ Placed(dtos, k)
Stream == Streamed(line, events)

(* All the DTOs of one sample.                                             *)
Whole(dtos, s) ==
  \A k \in 1 .. Len(dtos) :
    /\ dtos[k].sample = s
    /\ \E i \in ListIndices : \E j \in 1 .. Len(NewPlan[i]) :
         Linked(dtos, k, i, j) /\ (j > 1 => k > 1)

LEMMA PartsApart ==
  ASSUME config \in Configurations, NEW dto, NEW i \in ListIndices, NEW j \in 1 .. Len(NewPlan[i]),
         NEW k \in ListIndices, NEW l \in 1 .. Len(NewPlan[k]), IsPart(dto, i, j),
         IsPart(dto, k, l)
  PROVE  i = k /\ j = l
<1>1. i = k
  <2>1. Number(i) = Number(k)
    BY DEF IsPart
  <2> QED BY <2>1, Numbers
<1>2. j \in Nat /\ l \in Nat
  BY PlanList
<1>3. CASE Props.idSize = 1
  <2> DEFINE p == PidOf(i)
  <2>2. p \in Nat
    BY <1>3, PidsApart
  <2>3. p + j - 1 = p + l - 1
    BY <1>1, <1>3 DEF IsPart, IsDto
  <2> HIDE DEF p
  <2>4. j = l
    BY <1>2, <2>2, <2>3
  <2> QED BY <1>1, <2>4
<1>4. CASE Props.idSize # 1
  <2>2. j - 1 = l - 1
    BY <1>4 DEF IsPart, IsDto
  <2>3. j = l
    BY <1>2, <2>2
  <2> QED BY <1>1, <2>3
<1> QED BY <1>3, <1>4

LEMMA StreamedTail ==
  ASSUME config \in Configurations, NEW dtos, NEW count, IsSequence(dtos), dtos # <<>>,
         Streamed(dtos, count)
  PROVE  Streamed(Tail(dtos), count)
<1> DEFINE n == Len(dtos)
           t == Tail(dtos)
           m == Len(t)
<1>1. n \in Nat \ {0} /\ m = n - 1 /\ \A k \in 1 .. m : t[k] = dtos[k + 1]
  BY TailIs
<1>2. \A k \in 1 .. n : /\ dtos[k].sample \in 1 .. count
                        /\ \A l \in k .. n : dtos[k].sample <= dtos[l].sample
                        /\ Placed(dtos, k)
  BY DEF Streamed
<1> HIDE DEF n, t, m
<1>3. SUFFICES ASSUME NEW k \in 1 .. m
               PROVE  /\ t[k].sample \in 1 .. count
                      /\ \A l \in k .. m : t[k].sample <= t[l].sample
                      /\ Placed(t, k)
  BY DEF Streamed, t, m
<1>4. k \in Nat /\ k + 1 \in 1 .. n /\ t[k] = dtos[k + 1] /\ (k + 1) - 1 = k
  BY <1>1, <1>3
<1>5. t[k].sample \in 1 .. count
  BY <1>2, <1>4
<1>6. ASSUME NEW l \in k .. m PROVE t[k].sample <= t[l].sample
  <2>1. l \in 1 .. m /\ l + 1 \in k + 1 .. n
    BY <1>1, <1>4
  <2> QED BY <1>1, <1>2, <1>4, <2>1
<1>7. PICK i \in ListIndices : \E j \in 1 .. Len(NewPlan[i]) : Linked(dtos, k + 1, i, j)
  BY <1>2, <1>4 DEF Placed
<1>8. PICK j \in 1 .. Len(NewPlan[i]) : Linked(dtos, k + 1, i, j)
  BY <1>7
<1>9. IsPart(t[k], i, j) /\ Exact(t[k], i, j)
  BY <1>4, <1>8 DEF Linked
<1>10. ASSUME j < Len(NewPlan[i])
       PROVE  /\ k + 1 \in 1 .. m /\ IsPart(t[k + 1], i, j + 1)
              /\ t[k + 1].sample = t[k].sample
  <2> DEFINE x == k + 1
  <2>1. x + 1 \in 1 .. n /\ IsPart(dtos[x + 1], i, j + 1) /\ dtos[x + 1].sample = dtos[x].sample
    BY <1>8, <1>10 DEF Linked, n
  <2>2. x \in 1 .. m
    BY <1>1, <1>4, <2>1
  <2>3. t[x] = dtos[x + 1]
    BY <1>1, <2>2
  <2> QED BY <1>4, <2>1, <2>2, <2>3
<1>11. ASSUME j > 1, k > 1 PROVE IsPart(t[k - 1], i, j - 1)
  <2>1. k + 1 > 1 /\ k - 1 \in 1 .. m /\ (k - 1) + 1 = k
    BY <1>1, <1>3, <1>4, <1>11
  <2>2. IsPart(dtos[(k + 1) - 1], i, j - 1)
    BY <1>8, <1>11, <2>1 DEF Linked
  <2>3. t[k - 1] = dtos[k]
    BY <1>1, <2>1
  <2> QED BY <1>4, <2>2, <2>3
<1>12. Linked(t, k, i, j)
  BY <1>9, <1>10, <1>11 DEF Linked, m
<1>13. Placed(t, k)
  BY <1>12 DEF Placed
<1> QED BY <1>5, <1>6, <1>13

LEMMA StreamedJoined ==
  ASSUME config \in Configurations, NEW dtos, NEW count \in Nat, IsSequence(dtos),
         Streamed(dtos, count), NEW new, IsSequence(new), NEW s \in Nat \ {0}, count <= s,
         Whole(new, s)
  PROVE  Streamed(dtos \o new, s)
<1> DEFINE n == Len(dtos)
           m == Len(new)
           t == dtos \o new
<1>1. /\ n \in Nat /\ m \in Nat /\ Len(t) = n + m
      /\ \A k \in 1 .. n : t[k] = dtos[k]
      /\ \A k \in 1 .. m : t[n + k] = new[k]
  BY JoinedIs
<1>2. \A k \in 1 .. n : /\ dtos[k].sample \in 1 .. count
                        /\ \A l \in k .. n : dtos[k].sample <= dtos[l].sample
                        /\ Placed(dtos, k)
  BY DEF Streamed
<1>3. \A k \in 1 .. m : /\ new[k].sample = s
                        /\ \E i \in ListIndices : \E j \in 1 .. Len(NewPlan[i]) :
                             Linked(new, k, i, j) /\ (j > 1 => k > 1)
  BY DEF Whole
<1> HIDE DEF n, m, t
<1>4. SUFFICES ASSUME NEW k \in 1 .. n + m
               PROVE  /\ t[k].sample \in 1 .. s
                      /\ \A l \in k .. n + m : t[k].sample <= t[l].sample
                      /\ Placed(t, k)
  BY <1>1 DEF Streamed, t
<1>5. \A l \in n + 1 .. n + m : l - n \in 1 .. m /\ t[l] = new[l - n] /\ t[l].sample = s
  <2>1. SUFFICES ASSUME NEW l \in n + 1 .. n + m
                 PROVE  l - n \in 1 .. m /\ t[l] = new[l - n] /\ t[l].sample = s
    OBVIOUS
  <2>2. l - n \in 1 .. m /\ n + (l - n) = l
    BY <1>1
  <2> QED BY <1>1, <1>3, <2>2
<1>6. CASE k \in 1 .. n
  <2>1. t[k] = dtos[k] /\ dtos[k].sample \in 1 .. count /\ t[k].sample \in 1 .. s
    <3>1. t[k] = dtos[k] /\ dtos[k].sample \in 1 .. count
      BY <1>1, <1>2, <1>6
    <3> DEFINE x == dtos[k].sample
    <3>2. x \in 1 .. count /\ t[k].sample = x
      BY <3>1
    <3> HIDE DEF x
    <3>3. x \in 1 .. s
      BY <3>2
    <3> QED BY <3>1, <3>2, <3>3
  <2>2. ASSUME NEW l \in k .. n + m PROVE t[k].sample <= t[l].sample
    <3>1. CASE l \in 1 .. n
      <4>1. l \in k .. n
        BY <1>6, <3>1
      <4> QED BY <1>1, <1>2, <1>6, <2>1, <3>1, <4>1
    <3>2. CASE l \in n + 1 .. n + m
      <4>1. t[l].sample = s
        BY <1>5, <3>2
      <4> QED BY <2>1, <4>1
    <3>3. l \in 1 .. n \/ l \in n + 1 .. n + m
      BY <1>1, <1>6
    <3> QED BY <3>1, <3>2, <3>3
  <2>3. PICK i \in ListIndices : \E j \in 1 .. Len(NewPlan[i]) : Linked(dtos, k, i, j)
    BY <1>2, <1>6 DEF Placed
  <2>4. PICK j \in 1 .. Len(NewPlan[i]) : Linked(dtos, k, i, j)
    BY <2>3
  <2>5. ASSUME j < Len(NewPlan[i])
        PROVE  /\ k + 1 \in 1 .. n + m /\ IsPart(t[k + 1], i, j + 1)
               /\ t[k + 1].sample = t[k].sample
    <3> DEFINE x == k + 1
    <3>1. x \in 1 .. n /\ IsPart(dtos[x], i, j + 1) /\ dtos[x].sample = dtos[k].sample
      BY <2>4, <2>5 DEF Linked, n
    <3>2. x \in 1 .. n + m
      BY <1>1, <3>1
    <3>3. t[x] = dtos[x]
      BY <1>1, <3>1
    <3> QED BY <2>1, <3>1, <3>2, <3>3
  <2>6. ASSUME j > 1, k > 1 PROVE IsPart(t[k - 1], i, j - 1)
    <3>1. k - 1 \in 1 .. n
      BY <1>1, <1>6, <2>6
    <3>2. IsPart(dtos[k - 1], i, j - 1)
      BY <2>4, <2>6 DEF Linked
    <3> QED BY <1>1, <3>1, <3>2
  <2>7. Linked(t, k, i, j)
    BY <1>1, <2>1, <2>4, <2>5, <2>6 DEF Linked
  <2> QED BY <2>1, <2>2, <2>7 DEF Placed
<1>7. CASE k \in n + 1 .. n + m
  <2> DEFINE y == k - n
  <2>1. y \in 1 .. m /\ t[k] = new[y] /\ t[k].sample = s
    BY <1>5, <1>7
  <2>2. ASSUME NEW l \in k .. n + m PROVE t[k].sample <= t[l].sample
    <3>1. l \in n + 1 .. n + m
      BY <1>1, <1>7
    <3>2. t[l].sample = s
      BY <1>5, <3>1
    <3> QED BY <2>1, <3>2
  <2>3. PICK i \in ListIndices : \E j \in 1 .. Len(NewPlan[i]) :
          Linked(new, y, i, j) /\ (j > 1 => y > 1)
    BY <1>3, <2>1
  <2>4. PICK j \in 1 .. Len(NewPlan[i]) : Linked(new, y, i, j) /\ (j > 1 => y > 1)
    BY <2>3
  <2>5. ASSUME j < Len(NewPlan[i])
        PROVE  /\ k + 1 \in 1 .. n + m /\ IsPart(t[k + 1], i, j + 1)
               /\ t[k + 1].sample = t[k].sample
    <3>1. y + 1 \in 1 .. m /\ IsPart(new[y + 1], i, j + 1) /\ new[y + 1].sample = new[y].sample
      BY <2>4, <2>5 DEF Linked, m
    <3>2. k + 1 \in n + 1 .. n + m /\ (k + 1) - n = y + 1
      BY <1>1, <1>7, <3>1
    <3>3. t[k + 1] = new[y + 1]
      BY <1>5, <3>2
    <3>4. k + 1 \in 1 .. n + m
      BY <1>1, <3>2
    <3> HIDE DEF y
    <3> QED BY <2>1, <3>1, <3>3, <3>4
  <2>6. ASSUME j > 1 PROVE IsPart(t[k - 1], i, j - 1)
    <3>1. y > 1 /\ IsPart(new[y - 1], i, j - 1)
      BY <2>4, <2>6 DEF Linked
    <3>2. k - 1 \in n + 1 .. n + m /\ (k - 1) - n = y - 1
      BY <1>1, <1>7, <3>1
    <3>3. t[k - 1] = new[y - 1]
      BY <1>5, <3>2
    <3> HIDE DEF y
    <3> QED BY <3>1, <3>3
  <2>7. IsPart(t[k], i, j) /\ Exact(t[k], i, j)
    <3> HIDE DEF y
    <3> QED BY <2>1, <2>4 DEF Linked
  <2>8. Linked(t, k, i, j)
    BY <1>1, <2>5, <2>6, <2>7 DEF Linked
  <2>9. t[k].sample \in 1 .. s
    BY <2>1
  <2> QED BY <2>2, <2>8, <2>9 DEF Placed
<1>8. k \in 1 .. n \/ k \in n + 1 .. n + m
  BY <1>1
<1> QED BY <1>6, <1>7, <1>8

(* What the device sends of a list in a sample.                            *)
LEMMA DtosOfList ==
  ASSUME config \in Configurations, IsDevice(device), Shaped(device), NEW i \in ListIndices,
         NEW s, NEW u
  PROVE  /\ Len(NewPlan[i]) \in Nat
         /\ DtosOf(Number(i), s, u) = [j \in 1 .. Len(NewPlan[i]) |-> Dto(Number(i), j, s, u)]
<1> DEFINE m == Len(NewPlan[i])
           l == device.lists[Number(i)]
<1>1. l \in DeviceLists /\ Len(l.odts) = m
  BY DEF IsDevice, Shaped, Numbered, OdtsOf
<1>2. m \in Nat
  BY PlanList
<1>3. DOMAIN l.odts = 1 .. m
  <2> HIDE DEF l, m
  <2>1. l.odts \in Seq(Seq(Ext))
    BY <1>1, ListUpdated
  <2> QED BY <1>1, <1>2, <2>1, LenProperties
<1>4. DtosOf(Number(i), s, u) = [j \in DOMAIN l.odts |-> Dto(Number(i), j, s, u)]
  BY DEF DtosOf
<1> QED BY <1>2, <1>3, <1>4

LEMMA SampledWhole ==
  ASSUME DaqInv, DeviceInv, ContentInv, Sample
  PROVE  /\ phase = "running" /\ events' = events + 1
         /\ \E new : IsSequence(new) /\ Whole(new, events') /\ line' = line \o new
<1>1. PICK e \in {device.lists[n].event : n \in DOMAIN device.lists}, ticks \in Advances :
        /\ Sampled(e) # {} /\ clock' = clock + ticks /\ events' = events + 1
        /\ line' = line \o ForEach(ListIndices,
                                   LAMBDA i : IF Number(i) \in Sampled(e)
                                              THEN DtosOf(Number(i), events', clock') ELSE <<>>)
  BY DEF Sample
<1>2. config \in Configurations /\ clock' \in Nat /\ events' \in Int
  <2>1. config \in Configurations /\ clock \in Nat /\ events \in 0 .. config.events
    BY DEF DaqInv
  <2>2. ticks \in Nat
    BY ConfigurationsAssumption
  <2>3. clock' = clock + ticks /\ events' = events + 1
    BY <1>1
  <2> QED BY <2>1, <2>2, <2>3
<1>3. phase = "running" /\ IsDevice(device) /\ Shaped(device) /\ Filled(device)
  <2>1. Running(device)
    BY <1>1 DEF Sampled, Running
  <2>2. phase = "running" /\ IsDevice(device) /\ Shaped(device)
    BY <2>1 DEF DeviceInv, Measuring
  <2> QED BY <2>2 DEF ContentInv
<1> DEFINE u == clock'
           s == events'
           f == [i \in ListIndices |-> IF Number(i) \in Sampled(e) THEN DtosOf(Number(i), s, u)
                                       ELSE <<>>]
           n == Len(config.lists)
           X == UNION {{Dto(Number(i), j, s, u) : j \in 1 .. Len(NewPlan[i])} : i \in ListIndices}
           new == FlattenSeq(Pieces(f, n))
           F(i) == Len(FlattenSeq(Pieces(f, i)))
<1>4. ListIndices = 1 .. n /\ n \in Nat
  BY <1>2, ConfigTyped
<1>5. line' = line \o new
  <2>1. f = Pieces(f, n)
    BY <1>4 DEF Pieces
  <2>2. line' = line \o FlattenSeq(f)
    BY <1>1 DEF ForEach
  <2> HIDE DEF f
  <2> QED BY <2>1, <2>2
<1>6. \A i \in 1 .. n :
        /\ f[i] \in Seq(X) /\ Len(NewPlan[i]) \in Nat
        /\ \A k \in 1 .. Len(f[i]) : /\ Len(f[i]) = Len(NewPlan[i])
                                     /\ f[i][k] = Dto(Number(i), k, s, u)
  <2>1. SUFFICES ASSUME NEW i \in 1 .. n
                 PROVE  /\ f[i] \in Seq(X) /\ Len(NewPlan[i]) \in Nat
                        /\ \A k \in 1 .. Len(f[i]) : /\ Len(f[i]) = Len(NewPlan[i])
                                                     /\ f[i][k] = Dto(Number(i), k, s, u)
    OBVIOUS
  <2> DEFINE m == Len(NewPlan[i])
             g == DtosOf(Number(i), s, u)
  <2>2. i \in ListIndices
    BY <1>4
  <2>3. m \in Nat /\ g = [j \in 1 .. m |-> Dto(Number(i), j, s, u)]
    <3> HIDE DEF s, u
    <3> QED BY <1>2, <1>3, <2>2, DtosOfList
  <2>4. \A j \in 1 .. m : Dto(Number(i), j, s, u) \in X
    BY <2>2
  <2>5. f[i] = g \/ f[i] = <<>>
    BY <2>2
  <2> HIDE DEF f, g, m, X, s, u
  <2>6. g \in Seq(X) /\ Len(g) = m /\ \A k \in 1 .. m : g[k] = Dto(Number(i), k, s, u)
    BY <2>3, <2>4
  <2>7. CASE f[i] = g
    BY <2>3, <2>6, <2>7 DEF m
  <2>8. CASE f[i] = <<>>
    <3>1. <<>> \in Seq(X) /\ 1 .. Len(<<>>) = {}
      BY EmptySeq, EmptySequence
    <3> QED BY <2>3, <2>8, <3>1 DEF m
  <2> QED BY <2>5, <2>7, <2>8
<1> HIDE DEF f, X, n
<1>7. IsSequence(new)
  <2>1. new \in Seq(X)
    BY <1>4, <1>6, FlattenTyped
  <2> HIDE DEF new
  <2> QED BY <2>1, SequenceIs
<1>8. ASSUME NEW i \in 1 .. n, NEW k \in 1 .. Len(f[i])
      PROVE  F(i - 1) + k \in 1 .. Len(new) /\ new[F(i - 1) + k] = Dto(Number(i), k, s, u)
  <2>1. F(i - 1) + k \in 1 .. Len(new) /\ new[F(i - 1) + k] = f[i][k]
    BY <1>4, <1>6, FlattenPlace
  <2>2. f[i][k] = Dto(Number(i), k, s, u)
    BY <1>6
  <2> HIDE DEF F, new, s, u
  <2> QED BY <2>1, <2>2
<1>9. ASSUME NEW x \in 1 .. Len(new)
      PROVE  \E i \in 1 .. n : \E k \in 1 .. Len(f[i]) : x = F(i - 1) + k
  <2>1. ComesFrom(f, n, x)
    BY <1>4, <1>6, FlattenSplit
  <2> HIDE DEF new, s, u, F
  <2>2. \E i \in 1 .. n : \E k \in 1 .. Len(f[i]) :
          x = Len(FlattenSeq(Pieces(f, i - 1))) + k
    BY <2>1 DEF ComesFrom
  <2> QED BY <2>2 DEF F
<1>10. \A i \in 1 .. n : F(i - 1) \in Nat
  <2>1. SUFFICES ASSUME NEW i \in 1 .. n PROVE F(i - 1) \in Nat
    OBVIOUS
  <2>2. i - 1 \in 0 .. n
    BY <1>4
  <2> QED BY <1>4, <1>6, <2>2, FlattenGrows
<1>11. \A i \in 1 .. n : \A j \in 1 .. Len(NewPlan[i]) :
         LET d == Dto(Number(i), j, s, u)
         IN IsPart(d, i, j) /\ Exact(d, i, j) /\ d.sample = s
  <2> HIDE DEF s, u
  <2>1. s \in Int /\ u \in Nat
    BY <1>2 DEF s, u
  <2>2. ASSUME NEW i \in 1 .. n, NEW j \in 1 .. Len(NewPlan[i])
        PROVE  LET d == Dto(Number(i), j, s, u)
               IN IsPart(d, i, j) /\ Exact(d, i, j) /\ d.sample = s
    <3>1. i \in ListIndices
      BY <1>4
    <3> QED BY <1>2, <1>3, <2>1, <3>1, DtoCarries, ZenonT(60)
  <2> QED BY <2>2
<1> HIDE DEF new, F, s, u
<1>12. ASSUME NEW x \in 1 .. Len(new)
       PROVE  /\ new[x].sample = s
              /\ \E i \in ListIndices : \E j \in 1 .. Len(NewPlan[i]) :
                   Linked(new, x, i, j) /\ (j > 1 => x > 1)
  <2>1. PICK i \in 1 .. n : \E k \in 1 .. Len(f[i]) : x = F(i - 1) + k
    BY <1>9
  <2>2. PICK j \in 1 .. Len(f[i]) : x = F(i - 1) + j
    BY <2>1
  <2>3. /\ Len(f[i]) = Len(NewPlan[i]) /\ Len(NewPlan[i]) \in Nat /\ F(i - 1) \in Nat /\ j \in Nat
        /\ j \in 1 .. Len(NewPlan[i])
    <3>1. Len(f[i]) = Len(NewPlan[i]) /\ Len(NewPlan[i]) \in Nat
      BY <1>6
    <3> QED BY <1>10, <3>1
  <2> DEFINE L == Len(NewPlan[i])
             b == F(i - 1)
  <2>4. \A k \in 1 .. L : /\ b + k \in 1 .. Len(new) /\ IsPart(new[b + k], i, k)
                          /\ Exact(new[b + k], i, k) /\ new[b + k].sample = s
    <3>1. SUFFICES ASSUME NEW k \in 1 .. L
                   PROVE  /\ b + k \in 1 .. Len(new) /\ IsPart(new[b + k], i, k)
                          /\ Exact(new[b + k], i, k) /\ new[b + k].sample = s
      OBVIOUS
    <3>2. k \in 1 .. Len(f[i])
      BY <2>3
    <3>3. b + k \in 1 .. Len(new) /\ new[b + k] = Dto(Number(i), k, s, u)
      BY <1>8, <3>2
    <3> DEFINE d == Dto(Number(i), k, s, u)
    <3>4. IsPart(d, i, k) /\ Exact(d, i, k) /\ d.sample = s
      BY <1>11
    <3>5. b + k \in 1 .. Len(new) /\ new[b + k] = d
      BY <3>3
    <3> HIDE DEF d, b, L
    <3> QED BY <3>4, <3>5
  <2>5. L \in Nat /\ b \in Nat /\ j \in 1 .. L /\ x = b + j
    BY <2>2, <2>3
  <2> HIDE DEF L, b
  <2>6. IsPart(new[x], i, j) /\ Exact(new[x], i, j) /\ new[x].sample = s
    BY <2>4, <2>5
  <2>7. ASSUME j < L
        PROVE  x + 1 \in 1 .. Len(new) /\ IsPart(new[x + 1], i, j + 1) /\ new[x + 1].sample = s
    <3>1. j + 1 \in 1 .. L /\ b + (j + 1) = x + 1
      BY <2>5, <2>7
    <3>2. /\ b + (j + 1) \in 1 .. Len(new) /\ IsPart(new[b + (j + 1)], i, j + 1)
          /\ new[b + (j + 1)].sample = s
      BY <2>4, <3>1
    <3> QED BY <3>1, <3>2
  <2>8. ASSUME j > 1 PROVE x > 1 /\ IsPart(new[x - 1], i, j - 1)
    <3>1. j - 1 \in 1 .. L /\ b + (j - 1) = x - 1 /\ x > 1
      BY <2>5, <2>8
    <3>2. IsPart(new[b + (j - 1)], i, j - 1)
      BY <2>4, <3>1
    <3> QED BY <3>1, <3>2
  <2>9. Linked(new, x, i, j)
    BY <2>6, <2>7, <2>8 DEF Linked, L
  <2>10. i \in ListIndices /\ j \in 1 .. Len(NewPlan[i])
    BY <1>4, <2>3
  <2> QED BY <2>6, <2>8, <2>9, <2>10
<1>13. Whole(new, s)
  BY <1>12 DEF Whole
<1> QED BY <1>1, <1>3, <1>5, <1>7, <1>13 DEF s

(* The configuration says what is linked.                                  *)
LEMMA StreamPrimed ==
  ASSUME config' = config
  PROVE  /\ \A dto, i, j : IsPart(dto, i, j)' <=> IsPart(dto, i, j)
         /\ \A dto, i, j : Exact(dto, i, j)' <=> Exact(dto, i, j)
         /\ Streamed(line', events') => Stream'
<1>1. /\ NewPlan' = NewPlan /\ ListIndices' = ListIndices /\ Props' = Props
      /\ \A i : PidOf(i)' = PidOf(i)
      /\ \A i : Number(i)' = Number(i)
      /\ \A list : Timestamped(list)' = Timestamped(list)
      /\ Wrap' = Wrap
  BY Constancy, Unchanging, LinePrimed
<1>2. \A dto, i, j : IsPart(dto, i, j)' <=> IsPart(dto, i, j)
  BY <1>1 DEF IsPart, IsDto, Stamped
<1>3. \A i, j, time : Heading(i, j, time)' = Heading(i, j, time)
  BY <1>1 DEF Heading, Stamped, TimestampOctets
<1>4. \A dto, i, j : Exact(dto, i, j)' <=> Exact(dto, i, j)
  BY <1>1, <1>3, ZenonT(60) DEF Exact, SharesLastOctet
<1>5. ASSUME Streamed(line', events') PROVE Stream'
  <2>1. ASSUME NEW k, Placed(line', k) PROVE Placed(line, k)'
    BY <1>1, <1>2, <1>4, <2>1 DEF Placed, Linked
  <2>2. \A k \in 1 .. Len(line') :
          /\ line'[k].sample \in 1 .. events'
          /\ \A l \in k .. Len(line') : line'[k].sample <= line'[l].sample
          /\ Placed(line', k)
    BY <1>5 DEF Streamed
  <2> QED BY <2>1, <2>2 DEF Stream, Streamed
<1> QED BY <1>2, <1>4, <1>5

LEMMA StreamKept ==
  ASSUME DaqInv, DeviceInv, Line, ContentInv, Stream, [Next]_vars
  PROVE  Stream'
<1>0. config \in Configurations /\ events \in Nat /\ IsSequence(line) /\ Streamed(line, events)
  <2>1. config \in Configurations /\ events \in 0 .. config.events
    BY DEF DaqInv
  <2>2. events \in Nat
    BY <2>1
  <2> QED BY <2>1, <2>2 DEF Line, Lined, Stream
<1>1. CASE Sample
  <2>1. config' = config
    BY <1>1 DEF Sample, processor
  <2>2. PICK new : IsSequence(new) /\ Whole(new, events') /\ line' = line \o new
    BY <1>1, SampledWhole
  <2>3. events' \in Nat \ {0} /\ events <= events'
    <3>1. events' = events + 1
      BY <1>1, SampledWhole
    <3> QED BY <1>0, <3>1
  <2>4. Streamed(line \o new, events')
    BY <1>0, <2>2, <2>3, StreamedJoined
  <2> QED BY <2>1, <2>2, <2>4, StreamPrimed
<1>2. CASE ~Sample
  <2>1. /\ config' = config /\ events' = events
        /\ line' = line \/ (line # <<>> /\ line' = Tail(line))
    <3>1. CASE \/ Setup \/ Command \/ Refused \/ Unanswered \/ MirrorFails \/ SetParameters
      BY <3>1 DEF Setup, Command, Refused, Unanswered, MirrorFails, SetParameters, outside
    <3>2. CASE \/ Start \/ Stop \/ Lose \/ Receive \/ Duplicate \/ UNCHANGED vars
      BY <3>2 DEF Start, Stop, Lose, Receive, Duplicate, vars, outside, processor
    <3> QED BY <1>2, <3>1, <3>2 DEF Next
  <2>2. Streamed(line', events')
    <3>1. CASE line' = line
      BY <1>0, <2>1, <3>1
    <3>2. CASE line # <<>> /\ line' = Tail(line)
      <4>1. Streamed(Tail(line), events)
        BY <1>0, <3>2, StreamedTail
      <4> QED BY <2>1, <3>2, <4>1
    <3> QED BY <2>1, <3>1, <3>2
  <2> QED BY <2>1, <2>2, StreamPrimed
<1> QED BY <1>1, <1>2

(***************************************************************************)
(* What the decoders hold                                                  *)
(***************************************************************************)

(* No DTO on its way is older than sample s.                               *)
Earlier(dtos, count, s) ==
  s \in 1 .. count /\ \A k \in 1 .. Len(dtos) : s <= dtos[k].sample

(* A decoder that has taken n ODTs of list i, all of sample s, either gets *)
(* the others of that sample or so many DTOs were lost, so far or with     *)
(* those that a completed result takes more.                               *)
Missing(dtos, i, n, s, losses) ==
  IF dtos # <<>> /\ dtos[1].list = Number(i)
  THEN \E j \in 1 .. Len(NewPlan[i]) :
         /\ IsPart(dtos[1], i, j)
         /\ \/ dtos[1].sample = s /\ (j = n \/ (j > n /\ losses >= j - 1 - n))
            \/ losses >= Len(NewPlan[i]) - n + j - 1
  ELSE losses >= Len(NewPlan[i]) - n

Sampling(dtos, count, i, d, k) ==
  \E s \in 1 .. count : Earlier(dtos, count, s) /\ d.buffer[k] = ValueOf(i, k, s)
OfSample(i, d, s) == \A k \in 1 .. d.current : d.buffer[k] = ValueOf(i, k, s)
Holding(dtos, count, i, d, losses) ==
  d.state = "collecting" =>
    /\ \A k \in 1 .. d.current : Sampling(dtos, count, i, d, k)
    /\ \/ losses >= Len(NewPlan[i])
       \/ \E s \in 1 .. count : /\ Earlier(dtos, count, s) /\ OfSample(i, d, s)
                                /\ Missing(dtos, i, d.next, s, losses)

Delivered(i, r, count, losses) ==
  r # None =>
    /\ r.sample \in 1 .. count
    /\ \/ r.values = [k \in 1 .. Len(Flat(NewPlan[i])) |-> ValueOf(i, k, r.sample)]
       \/ /\ losses >= Len(NewPlan[i])
          /\ \A k \in 1 .. Len(Flat(NewPlan[i])) :
               \E s \in 1 .. r.sample : r.values[k] = ValueOf(i, k, s)

LEMMA DeliveredStays ==
  ASSUME config \in Configurations, NEW i \in ListIndices, NEW r, NEW count \in Nat,
         NEW more \in Nat, count <= more, NEW losses \in Nat, NEW greater \in Nat,
         losses <= greater, Delivered(i, r, count, losses)
  PROVE  Delivered(i, r, more, greater)
<1> DEFINE L == Len(NewPlan[i])
<1>1. L \in Nat
  BY PlanList
<1>2. losses >= L => greater >= L
  <2> HIDE DEF L
  <2> QED BY <1>1
<1>3. r.sample \in 1 .. count => r.sample \in 1 .. more
  OBVIOUS
<1> QED BY <1>2, <1>3 DEF Delivered

LEMMA HoldingStays ==
  ASSUME NEW dtos, NEW count \in Nat, NEW later, NEW more \in Nat, NEW i, NEW d, NEW losses \in Nat,
         NEW greater \in Nat, Len(NewPlan[i]) \in Nat, losses <= greater,
         \A s : Earlier(dtos, count, s) => Earlier(later, more, s),
         \A s : /\ d.state = "collecting" /\ Earlier(dtos, count, s)
                /\ Missing(dtos, i, d.next, s, losses)
                => Missing(later, i, d.next, s, greater),
         Holding(dtos, count, i, d, losses)
  PROVE  Holding(later, more, i, d, greater)
<1> SUFFICES ASSUME d.state = "collecting"
             PROVE  /\ \A k \in 1 .. d.current : Sampling(later, more, i, d, k)
                    /\ \/ greater >= Len(NewPlan[i])
                       \/ \E s \in 1 .. more : /\ Earlier(later, more, s) /\ OfSample(i, d, s)
                                               /\ Missing(later, i, d.next, s, greater)
  BY DEF Holding
<1>1. \A s : Earlier(later, more, s) => s \in 1 .. more
  BY DEF Earlier
<1>2. /\ \A k \in 1 .. d.current : Sampling(dtos, count, i, d, k)
      /\ \/ losses >= Len(NewPlan[i])
         \/ \E s \in 1 .. count : /\ Earlier(dtos, count, s) /\ OfSample(i, d, s)
                                  /\ Missing(dtos, i, d.next, s, losses)
  BY DEF Holding
<1>3. ASSUME NEW k \in 1 .. d.current PROVE Sampling(later, more, i, d, k)
  <2>1. Sampling(dtos, count, i, d, k)
    BY <1>2
  <2>2. PICK s \in 1 .. count : Earlier(dtos, count, s) /\ d.buffer[k] = ValueOf(i, k, s)
    BY <2>1 DEF Sampling
  <2>3. Earlier(later, more, s) /\ s \in 1 .. more
    BY <1>1, <2>2
  <2> QED BY <2>2, <2>3 DEF Sampling
<1>4. CASE losses >= Len(NewPlan[i])
  <2> DEFINE L == Len(NewPlan[i])
  <2>1. greater >= L
    <3>1. losses >= L /\ L \in Nat
      BY <1>4
    <3> HIDE DEF L
    <3> QED BY <3>1
  <2> QED BY <1>3, <2>1
<1>5. CASE ~(losses >= Len(NewPlan[i]))
  <2>1. PICK s \in 1 .. count : /\ Earlier(dtos, count, s) /\ OfSample(i, d, s)
                                /\ Missing(dtos, i, d.next, s, losses)
    BY <1>2, <1>5
  <2>2. Earlier(later, more, s) /\ s \in 1 .. more
    BY <1>1, <2>1
  <2>3. Missing(later, i, d.next, s, greater)
    BY <2>1
  <2> QED BY <1>3, <2>1, <2>2, <2>3
<1> QED BY <1>4, <1>5

(* What comes behind the first DTO.                                        *)
LEMMA NextHead ==
  ASSUME config \in Configurations, NEW dtos, NEW count, IsSequence(dtos), dtos # <<>>,
         Streamed(dtos, count)
  PROVE  \E i \in ListIndices : \E j \in 1 .. Len(NewPlan[i]) :
           /\ IsPart(dtos[1], i, j) /\ Exact(dtos[1], i, j) /\ dtos[1].sample \in 1 .. count
           /\ j < Len(NewPlan[i]) =>
                /\ Tail(dtos) # <<>> /\ IsPart(Tail(dtos)[1], i, j + 1)
                /\ Tail(dtos)[1].sample = dtos[1].sample
           /\ j = Len(NewPlan[i]) /\ Tail(dtos) # <<>> =>
                \E k \in ListIndices : IsPart(Tail(dtos)[1], k, 1)
<1> DEFINE n == Len(dtos)
           t == Tail(dtos)
           m == Len(t)
<1>1. /\ n \in Nat \ {0} /\ m = n - 1 /\ \A k \in 1 .. m : t[k] = dtos[k + 1]
      /\ IsSequence(t)
  BY TailIs
<1>2. \A k \in 1 .. n : /\ dtos[k].sample \in 1 .. count
                        /\ Placed(dtos, k)
  BY DEF Streamed
<1>3. 1 \in 1 .. n
  BY <1>1
<1>4. PICK i \in ListIndices : \E j \in 1 .. Len(NewPlan[i]) : Linked(dtos, 1, i, j)
  BY <1>2, <1>3 DEF Placed
<1>5. PICK j \in 1 .. Len(NewPlan[i]) : Linked(dtos, 1, i, j)
  BY <1>4
<1>6. IsPart(dtos[1], i, j) /\ Exact(dtos[1], i, j) /\ dtos[1].sample \in 1 .. count
  BY <1>2, <1>3, <1>5 DEF Linked
<1>7. m >= 1 => 1 \in 1 .. m /\ t[1] = dtos[2] /\ 2 \in 1 .. n
  <2> HIDE DEF n, m, t
  <2> QED BY <1>1
<1>8. t # <<>> => m >= 1
  <2>1. m = 0 => t = <<>>
    <3>1. m = 0 => t = [k \in 1 .. 0 |-> t[k]]
      BY <1>1 DEF IsSequence
    <3> HIDE DEF t, m
    <3>2. [k \in 1 .. 0 |-> t[k]] = <<>>
      OBVIOUS
    <3> QED BY <3>1, <3>2
  <2>2. m \in Nat
    BY <1>1
  <2> HIDE DEF m, t
  <2> QED BY <2>1, <2>2
<1>9. m >= 1 => t # <<>>
  <2> HIDE DEF t
  <2> QED BY EmptySequence
<1>10. ASSUME j < Len(NewPlan[i])
       PROVE  t # <<>> /\ IsPart(t[1], i, j + 1) /\ t[1].sample = dtos[1].sample
  <2>1. 2 \in 1 .. n /\ IsPart(dtos[2], i, j + 1) /\ dtos[2].sample = dtos[1].sample
    <3> DEFINE x == 1
    <3>1. x + 1 \in 1 .. n /\ IsPart(dtos[x + 1], i, j + 1) /\ dtos[x + 1].sample = dtos[x].sample
      BY <1>5, <1>10 DEF Linked, n
    <3>2. x + 1 = 2
      OBVIOUS
    <3> QED BY <3>1, <3>2
  <2>2. m >= 1
    <3> HIDE DEF n, m, t
    <3> QED BY <1>1, <2>1
  <2> QED BY <1>7, <1>9, <2>1, <2>2
<1>11. ASSUME j = Len(NewPlan[i]), t # <<>>
       PROVE  \E k \in ListIndices : IsPart(t[1], k, 1)
  <2>1. t[1] = dtos[2] /\ 2 \in 1 .. n
    BY <1>7, <1>8, <1>11
  <2>2. PICK k \in ListIndices : \E l \in 1 .. Len(NewPlan[k]) : Linked(dtos, 2, k, l)
    BY <1>2, <2>1 DEF Placed
  <2>3. PICK l \in 1 .. Len(NewPlan[k]) : Linked(dtos, 2, k, l)
    BY <2>2
  <2>4. l = 1
    <3>1. SUFFICES ASSUME l # 1 PROVE FALSE
      OBVIOUS
    <3>2. /\ l \in Nat /\ Len(NewPlan[k]) \in Nat /\ l > 1 /\ l - 1 \in 1 .. Len(NewPlan[k])
          /\ l - 1 < Len(NewPlan[k]) /\ (l - 1) + 1 = l
      BY <3>1, PlanList
    <3>3. IsPart(dtos[1], k, l - 1)
      <4> DEFINE x == 2
      <4>1. l > 1 /\ x > 1 => IsPart(dtos[x - 1], k, l - 1)
        BY <2>3 DEF Linked
      <4>2. x > 1 /\ x - 1 = 1
        OBVIOUS
      <4> QED BY <3>2, <4>1, <4>2
    <3> DEFINE h == dtos[1]
               g == l - 1
    <3>4. g \in 1 .. Len(NewPlan[k]) /\ IsPart(h, k, g) /\ IsPart(h, i, j) /\ g < Len(NewPlan[k])
      BY <1>6, <3>2, <3>3
    <3> HIDE DEF h, g
    <3>5. k = i /\ g = j
      BY <3>4, PartsApart
    <3>6. j \in Nat /\ g < j
      BY <1>11, <3>4, <3>5, PlanList
    <3> QED BY <3>5, <3>6
  <2>5. IsPart(dtos[2], k, 1)
    BY <2>3, <2>4 DEF Linked
  <2> QED BY <2>1, <2>5
<1> QED BY <1>6, <1>10, <1>11

LEMMA EarlierTail ==
  ASSUME NEW dtos, IsSequence(dtos), dtos # <<>>, NEW count, NEW s, Earlier(dtos, count, s)
  PROVE  Earlier(Tail(dtos), count, s) /\ s <= dtos[1].sample
<1> DEFINE n == Len(dtos)
           t == Tail(dtos)
           m == Len(t)
<1>1. n \in Nat \ {0} /\ m = n - 1 /\ \A k \in 1 .. m : t[k] = dtos[k + 1]
  BY TailIs
<1>2. s \in 1 .. count /\ \A k \in 1 .. n : s <= dtos[k].sample
  BY DEF Earlier
<1> HIDE DEF n, m, t
<1>3. ASSUME NEW k \in 1 .. m PROVE s <= t[k].sample
  <2>1. k + 1 \in 1 .. n
    BY <1>1
  <2> QED BY <1>1, <1>2, <2>1
<1>4. 1 \in 1 .. n
  BY <1>1
<1> QED BY <1>2, <1>3, <1>4 DEF Earlier, m, t

LEMMA EarlierJoined ==
  ASSUME NEW dtos, IsSequence(dtos), NEW new, IsSequence(new), NEW count \in Nat,
         NEW u \in Nat, count <= u, Whole(new, u), NEW s, Earlier(dtos, count, s)
  PROVE  Earlier(dtos \o new, u, s)
<1> DEFINE n == Len(dtos)
           m == Len(new)
           t == dtos \o new
<1>1. /\ n \in Nat /\ m \in Nat /\ Len(t) = n + m
      /\ \A k \in 1 .. n : t[k] = dtos[k]
      /\ \A k \in 1 .. m : t[n + k] = new[k]
  BY JoinedIs
<1>2. s \in 1 .. count /\ \A k \in 1 .. n : s <= dtos[k].sample
  BY DEF Earlier
<1>3. \A k \in 1 .. m : new[k].sample = u
  BY DEF Whole
<1> HIDE DEF n, m, t
<1>4. ASSUME NEW k \in 1 .. Len(t) PROVE s <= t[k].sample
  <2>1. k \in 1 .. n \/ (k - n \in 1 .. m /\ n + (k - n) = k)
    BY <1>1
  <2>2. CASE k \in 1 .. n
    BY <1>1, <1>2, <2>2
  <2>3. CASE k - n \in 1 .. m /\ n + (k - n) = k
    <3>1. t[k] = new[k - n]
      BY <1>1, <2>3
    <3>2. t[k].sample = u
      BY <1>3, <2>3, <3>1
    <3>3. s <= u
      BY <1>2
    <3> QED BY <3>2, <3>3
  <2> QED BY <2>1, <2>2, <2>3
<1>5. s \in 1 .. u
  BY <1>2
<1> QED BY <1>4, <1>5 DEF Earlier, t

(* A DTO that is lost, or one of another list, leaves what is missing.     *)
LEMMA MissingTail ==
  ASSUME config \in Configurations, NEW dtos, NEW count, IsSequence(dtos), dtos # <<>>,
         Streamed(dtos, count), NEW i \in ListIndices, NEW n \in 0 .. Len(NewPlan[i]) - 1, NEW s,
         NEW losses \in Nat, NEW greater \in Nat, losses <= greater,
         dtos[1].list = Number(i) => losses < greater, Missing(dtos, i, n, s, losses)
  PROVE  Missing(Tail(dtos), i, n, s, greater)
<1> DEFINE t == Tail(dtos)
           L == Len(NewPlan[i])
<1>1. L \in Nat \ {0} /\ n \in 0 .. L - 1
  BY PlanList
<1>2. PICK h \in ListIndices : \E g \in 1 .. Len(NewPlan[h]) :
           /\ IsPart(dtos[1], h, g)
           /\ g < Len(NewPlan[h]) => /\ t # <<>> /\ IsPart(t[1], h, g + 1)
                                     /\ t[1].sample = dtos[1].sample
           /\ g = Len(NewPlan[h]) /\ t # <<>> => \E k \in ListIndices : IsPart(t[1], k, 1)
  BY NextHead
<1>3. PICK g \in 1 .. Len(NewPlan[h]) :
           /\ IsPart(dtos[1], h, g)
           /\ g < Len(NewPlan[h]) => /\ t # <<>> /\ IsPart(t[1], h, g + 1)
                                     /\ t[1].sample = dtos[1].sample
           /\ g = Len(NewPlan[h]) /\ t # <<>> => \E k \in ListIndices : IsPart(t[1], k, 1)
  BY <1>2
<1>4. dtos[1].list = Number(h) /\ g \in Nat /\ Len(NewPlan[h]) \in Nat
  BY <1>3, PlanList DEF IsPart
<1> SUFFICES Missing(t, i, n, s, greater)
  OBVIOUS
<1> HIDE DEF t
(* Whatever comes next of the list is its first ODT.                       *)
<1>5. ASSUME greater >= L - n, t # <<>> /\ t[1].list = Number(i) => IsPart(t[1], i, 1)
      PROVE  Missing(t, i, n, s, greater)
  <2>1. CASE t # <<>> /\ t[1].list = Number(i)
    <3>1. 1 \in 1 .. L /\ greater >= L - n + 1 - 1
      <4> HIDE DEF L
      <4> QED BY <1>1, <1>5
    <3> QED BY <1>5, <2>1, <3>1 DEF Missing
  <2>2. CASE ~(t # <<>> /\ t[1].list = Number(i))
    BY <1>5, <2>2 DEF Missing
  <2> QED BY <2>1, <2>2
<1>6. ASSUME g = Len(NewPlan[h]), t # <<>>, t[1].list = Number(i)
      PROVE  IsPart(t[1], i, 1)
  <2>1. PICK k \in ListIndices : IsPart(t[1], k, 1)
    BY <1>3, <1>6
  <2>2. Number(k) = Number(i)
    BY <1>6, <2>1 DEF IsPart
  <2>3. k = i
    BY <2>2, Numbers
  <2> QED BY <2>1, <2>3
<1>7. CASE h # i
  <2>1. Number(h) # Number(i)
    BY <1>7, Numbers
  <2>2. losses >= L - n
    BY <1>4, <2>1 DEF Missing
  <2>3. greater >= L - n
    <3> HIDE DEF L
    <3> QED BY <1>1, <2>2
  <2>4. CASE g < Len(NewPlan[h])
    <3>1. t # <<>> /\ t[1].list # Number(i)
      BY <1>3, <2>1, <2>4 DEF IsPart
    <3> QED BY <1>5, <2>3, <3>1
  <2>5. CASE ~(g < Len(NewPlan[h]))
    <3>1. g = Len(NewPlan[h])
      BY <1>3, <1>4, <2>5
    <3> QED BY <1>5, <1>6, <2>3, <3>1
  <2> QED BY <2>4, <2>5
<1>8. CASE h = i
  <2>1. g \in 1 .. L /\ IsPart(dtos[1], i, g)
    BY <1>3, <1>8
  <2>2. losses < greater
    BY <1>4, <1>8
  <2>3. PICK j \in 1 .. L :
          /\ IsPart(dtos[1], i, j)
          /\ \/ dtos[1].sample = s /\ (j = n \/ (j > n /\ losses >= j - 1 - n))
             \/ losses >= L - n + j - 1
    BY <1>4, <1>8 DEF Missing
  <2>4. j = g
    <3> DEFINE x == dtos[1]
    <3>1. IsPart(x, i, j) /\ IsPart(x, i, g)
      BY <2>1, <2>3
    <3> HIDE DEF x
    <3> QED BY <2>1, <3>1, PartsApart
  <2>5. \/ dtos[1].sample = s /\ (g = n \/ (g > n /\ losses >= g - 1 - n))
        \/ losses >= L - n + g - 1
    BY <2>3, <2>4
  <2>6. CASE g < L
    <3>1. t # <<>> /\ IsPart(t[1], i, g + 1) /\ t[1].sample = dtos[1].sample
      BY <1>3, <1>8, <2>6
    <3>2. t[1].list = Number(i)
      BY <3>1 DEF IsPart
    <3> DEFINE j2 == g + 1
    <3>3. /\ j2 \in 1 .. L
          /\ \/ t[1].sample = s /\ (j2 = n \/ (j2 > n /\ greater >= j2 - 1 - n))
             \/ greater >= L - n + j2 - 1
      <4> HIDE DEF L
      <4> QED BY <1>1, <2>1, <2>2, <2>5, <2>6, <3>1
    <3>4. IsPart(t[1], i, j2)
      BY <3>1
    <3> HIDE DEF j2
    <3> QED BY <3>1, <3>2, <3>3, <3>4 DEF Missing
  <2>7. CASE ~(g < L)
    <3>1. g = L
      <4> HIDE DEF L
      <4> QED BY <1>1, <2>1, <2>7
    <3>2. greater >= L - n
      <4> HIDE DEF L
      <4> QED BY <1>1, <2>2, <2>5, <3>1
    <3> QED BY <1>5, <1>6, <1>8, <3>1, <3>2
  <2> QED BY <2>6, <2>7
<1> QED BY <1>7, <1>8

(* So do the DTOs of the next sample.                                      *)
LEMMA MissingJoined ==
  ASSUME config \in Configurations, NEW dtos, IsSequence(dtos), NEW new, IsSequence(new), NEW u,
         Whole(new, u), NEW i \in ListIndices, NEW n \in 0 .. Len(NewPlan[i]) - 1, NEW s,
         NEW losses \in Nat, Missing(dtos, i, n, s, losses)
  PROVE  Missing(dtos \o new, i, n, s, losses)
<1> DEFINE t == dtos \o new
           L == Len(NewPlan[i])
<1>1. L \in Nat \ {0} /\ n \in 0 .. L - 1
  BY PlanList
<1>2. /\ Len(dtos) \in Nat /\ Len(new) \in Nat /\ Len(t) = Len(dtos) + Len(new)
      /\ \A k \in 1 .. Len(dtos) : t[k] = dtos[k]
      /\ \A k \in 1 .. Len(new) : t[Len(dtos) + k] = new[k]
      /\ IsSequence(t)
  BY JoinedIs
<1>3. \A q : IsSequence(q) /\ Len(q) = 0 => q = <<>>
  <2>1. SUFFICES ASSUME NEW q, IsSequence(q), Len(q) = 0 PROVE q = <<>>
    OBVIOUS
  <2>2. q = [k \in 1 .. 0 |-> q[k]]
    BY <2>1 DEF IsSequence
  <2>3. [k \in 1 .. 0 |-> q[k]] = <<>>
    OBVIOUS
  <2> QED BY <2>2, <2>3
<1>4. CASE dtos # <<>>
  <2> DEFINE m == Len(dtos)
             l == Len(new)
  <2>1. m # 0
    BY <1>3, <1>4
  <2>2. 1 \in 1 .. m /\ Len(t) # 0
    <3>1. m \in Nat /\ l \in Nat /\ Len(t) = m + l
      BY <1>2
    <3> HIDE DEF m, l, t
    <3> QED BY <2>1, <3>1
  <2>3. t[1] = dtos[1]
    BY <1>2, <2>2
  <2>4. t # <<>>
    <3> HIDE DEF t
    <3> QED BY <2>2, EmptySequence
  <2> HIDE DEF t
  <2>5. Missing(t, i, n, s, losses)
    BY <1>4, <2>3, <2>4 DEF Missing
  <2> QED BY <2>5 DEF t
<1>5. CASE dtos = <<>>
  <2>1. losses >= L - n
    BY <1>5 DEF Missing
  <2>2. CASE t # <<>> /\ t[1].list = Number(i)
    <3>1. 1 \in 1 .. Len(new) /\ t[1] = new[1]
      <4> DEFINE m == Len(dtos)
                 l == Len(new)
      <4>1. Len(t) # 0 /\ m = 0
        BY <1>2, <1>3, <1>5, <2>2, EmptySequence
      <4>2. l \in Nat /\ Len(t) = m + l /\ \A k \in 1 .. l : t[m + k] = new[k]
        BY <1>2
      <4> HIDE DEF m, l, t
      <4>3. 1 \in 1 .. l /\ m + 1 = 1
        BY <4>1, <4>2
      <4>4. t[m + 1] = new[1]
        BY <4>2, <4>3
      <4>5. t[1] = new[1]
        BY <4>3, <4>4
      <4> QED BY <4>3, <4>5 DEF l
    <3>2. PICK h \in ListIndices : \E j \in 1 .. Len(NewPlan[h]) :
             Linked(new, 1, h, j) /\ (j > 1 => 1 > 1)
      BY <3>1 DEF Whole
    <3>3. PICK j \in 1 .. Len(NewPlan[h]) : Linked(new, 1, h, j) /\ (j > 1 => 1 > 1)
      BY <3>2
    <3>4. j = 1
      <4>1. j \in Nat /\ j >= 1
        OBVIOUS
      <4> QED BY <3>3, <4>1
    <3>5. IsPart(t[1], h, 1)
      BY <3>1, <3>3, <3>4 DEF Linked
    <3> HIDE DEF t
    <3>6. Number(h) = Number(i)
      BY <2>2, <3>5 DEF IsPart
    <3>7. h = i
      BY <3>6, Numbers
    <3>8. 1 \in 1 .. L /\ losses >= L - n + 1 - 1
      <4> HIDE DEF L
      <4> QED BY <1>1, <2>1
    <3>9. Missing(t, i, n, s, losses)
      BY <2>2, <3>5, <3>7, <3>8 DEF Missing
    <3> QED BY <3>9 DEF t
  <2>3. CASE ~(t # <<>> /\ t[1].list = Number(i))
    <3> HIDE DEF t
    <3>1. Missing(t, i, n, s, losses)
      BY <2>1, <2>3 DEF Missing
    <3> QED BY <3>1 DEF t
  <2> QED BY <2>2, <2>3
<1> QED BY <1>4, <1>5

LEMMA HoldingTail ==
  ASSUME config \in Configurations, NEW dtos, NEW count \in Nat, IsSequence(dtos), dtos # <<>>,
         Streamed(dtos, count), NEW i \in ListIndices, NEW d,
         d.next \in 0 .. Len(NewPlan[i]) - 1,
         NEW losses \in Nat, NEW greater \in Nat, losses <= greater,
         dtos[1].list = Number(i) => losses < greater, Holding(dtos, count, i, d, losses)
  PROVE  Holding(Tail(dtos), count, i, d, greater)
<1> DEFINE t == Tail(dtos)
           n == d.next
<1>1. Len(NewPlan[i]) \in Nat /\ n \in 0 .. Len(NewPlan[i]) - 1
  BY PlanList
<1>2. \A s : Earlier(dtos, count, s) => Earlier(t, count, s)
  BY EarlierTail
<1>3. \A s : Missing(dtos, i, n, s, losses) => Missing(t, i, n, s, greater)
  <2> HIDE DEF n
  <2> QED BY <1>1, MissingTail
<1> HIDE DEF t
<1>4. Holding(t, count, i, d, greater)
  BY <1>1, <1>2, <1>3, HoldingStays
<1> QED BY <1>4 DEF t

LEMMA HoldingJoined ==
  ASSUME config \in Configurations, NEW dtos, NEW count \in Nat, IsSequence(dtos), NEW new,
         IsSequence(new), NEW u \in Nat, count <= u, Whole(new, u), NEW i \in ListIndices, NEW d,
         d.next \in 0 .. Len(NewPlan[i]) - 1, NEW losses \in Nat,
         Holding(dtos, count, i, d, losses)
  PROVE  Holding(dtos \o new, u, i, d, losses)
<1> DEFINE t == dtos \o new
           n == d.next
<1>1. Len(NewPlan[i]) \in Nat /\ n \in 0 .. Len(NewPlan[i]) - 1
  BY PlanList
<1>2. \A s : Earlier(dtos, count, s) => Earlier(t, u, s)
  BY EarlierJoined
<1>3. \A s : Missing(dtos, i, n, s, losses) => Missing(t, i, n, s, losses)
  <2> HIDE DEF n
  <2> QED BY <1>1, MissingJoined
<1>4. losses <= losses
  OBVIOUS
<1> HIDE DEF t
<1>5. Holding(t, u, i, d, losses)
  BY <1>1, <1>2, <1>3, <1>4, HoldingStays
<1> QED BY <1>5 DEF t

(* What the decoder has when it has taken the first DTO on its way.        *)
LEMMA GainedValues ==
  ASSUME config \in Configurations, NEW dtos, NEW count \in Nat, IsSequence(dtos), dtos # <<>>,
         Streamed(dtos, count), NEW i \in ListIndices, NEW j \in 1 .. Len(NewPlan[i]),
         IsPart(dtos[1], i, j), NEW d, NEW losses \in Nat, Holding(dtos, count, i, d, losses),
         NEW f, Gained(f, d, i, j, dtos[1].sample)
  PROVE  /\ Earlier(dtos, count, dtos[1].sample)
         /\ \A k \in 1 .. f.current : Sampling(dtos, count, i, f, k)
         /\ losses >= Len(NewPlan[i]) \/ OfSample(i, f, dtos[1].sample)
<1> DEFINE s == dtos[1].sample
           L == Len(NewPlan[i])
           e == Ends(NewPlan[i], j)
           b == Ends(NewPlan[i], j - 1)
<1>1. /\ f.current = e
      /\ \A k \in 1 .. e : f.buffer[k] = IF k <= b THEN d.buffer[k] ELSE ValueOf(i, k, s)
      /\ j > 1 => d.state = "collecting" /\ d.next = j - 1 /\ d.current = b
  BY DEF Gained
<1>2. Earlier(dtos, count, s) /\ s \in 1 .. count
  <2>1. 1 \in 1 .. Len(dtos)
    <3> DEFINE n == Len(dtos)
    <3>1. n \in Nat \ {0}
      BY TailIs
    <3> HIDE DEF n
    <3>2. 1 \in 1 .. n
      BY <3>1
    <3> QED BY <3>2 DEF n
  <2> QED BY <2>1 DEF Streamed, Earlier
<1>3. /\ j \in Nat /\ j >= 1 /\ L \in Nat /\ b \in Nat /\ e \in Nat
      /\ j = 1 => b = 0
  <2>1. NewPlan[i] \in BinSeqs
    BY PlanList
  <2>2. /\ j \in Nat /\ L \in Nat /\ b \in Nat /\ Ends(NewPlan[i], 0) = 0
        /\ e \in 0 .. Len(Flat(NewPlan[i])) /\ Len(Flat(NewPlan[i])) \in Nat
    BY <2>1, PlacesOf
  <2>3. j = 1 => j - 1 = 0
    OBVIOUS
  <2>4. j = 1 => b = 0
    BY <2>2, <2>3
  <2>5. e \in Nat
    <3> DEFINE a == Len(Flat(NewPlan[i]))
    <3> HIDE DEF a, e
    <3>1. e \in 0 .. a /\ a \in Nat
      BY <2>2 DEF a
    <3> QED BY <3>1
  <2> QED BY <2>2, <2>4, <2>5
<1> HIDE DEF s, e, b
<1>4. ASSUME NEW k \in 1 .. e PROVE Sampling(dtos, count, i, f, k)
  <2>1. CASE k <= b
    <3>1. j > 1
      BY <1>3, <2>1
    <3>2. k \in 1 .. d.current /\ f.buffer[k] = d.buffer[k]
      BY <1>1, <1>3, <2>1, <3>1
    <3>3. Sampling(dtos, count, i, d, k)
      BY <1>1, <3>1, <3>2 DEF Holding
    <3> QED BY <3>2, <3>3 DEF Sampling
  <2>2. CASE ~(k <= b)
    <3>1. f.buffer[k] = ValueOf(i, k, s)
      BY <1>1, <2>2
    <3> QED BY <1>2, <3>1 DEF Sampling
  <2> QED BY <2>1, <2>2
<1>5. ASSUME ~(losses >= L) PROVE OfSample(i, f, s)
  <2>1. CASE j = 1
    <3>1. \A k \in 1 .. e : ~(k <= b)
      BY <1>3, <2>1
    <3>2. \A k \in 1 .. e : f.buffer[k] = ValueOf(i, k, s)
      BY <1>1, <3>1
    <3> QED BY <1>1, <3>2 DEF OfSample
  <2>2. CASE j # 1
    <3>1. j > 1
      BY <1>3, <2>2
    <3>2. d.state = "collecting" /\ d.next = j - 1 /\ d.current = b
      BY <1>1, <3>1
    <3>3. PICK z \in 1 .. count : OfSample(i, d, z) /\ Missing(dtos, i, d.next, z, losses)
      BY <1>5, <3>2 DEF Holding
    <3>4. dtos[1].list = Number(i)
      BY DEF IsPart
    <3>5. PICK g \in 1 .. L :
            /\ IsPart(dtos[1], i, g)
            /\ dtos[1].sample = z \/ losses >= L - (j - 1) + g - 1
      BY <3>2, <3>3, <3>4 DEF Missing
    <3>6. g = j
      <4> DEFINE x == dtos[1]
      <4>1. IsPart(x, i, j) /\ IsPart(x, i, g)
        BY <3>5
      <4> HIDE DEF x
      <4> QED BY <4>1, PartsApart
    <3>7. s = z
      <4>1. s = z \/ losses >= L - (j - 1) + j - 1
        BY <3>5, <3>6 DEF s
      <4> HIDE DEF L
      <4> QED BY <1>3, <1>5, <4>1
    <3>8. ASSUME NEW k \in 1 .. e PROVE f.buffer[k] = ValueOf(i, k, s)
      <4>1. CASE k <= b
        <5>1. k \in 1 .. d.current /\ f.buffer[k] = d.buffer[k]
          BY <1>1, <1>3, <3>2, <4>1
        <5> QED BY <3>3, <3>7, <5>1 DEF OfSample
      <4>2. CASE ~(k <= b)
        BY <1>1, <4>2
      <4> QED BY <4>1, <4>2
    <3> QED BY <1>1, <3>8 DEF OfSample
  <2> QED BY <2>1, <2>2
<1> QED BY <1>1, <1>2, <1>4, <1>5 DEF s

LEMMA HoldingFed ==
  ASSUME config \in Configurations, NEW dtos, NEW count \in Nat, IsSequence(dtos), dtos # <<>>,
         Streamed(dtos, count), NEW i \in ListIndices, NEW j \in 1 .. Len(NewPlan[i]),
         IsPart(dtos[1], i, j), NEW d, NEW losses \in Nat, Holding(dtos, count, i, d, losses),
         NEW f, Gained(f, d, i, j, dtos[1].sample), NEW after, after = dtos \/ after = Tail(dtos)
  PROVE  Holding(after, count, i, f, losses)
<1> DEFINE s == dtos[1].sample
           L == Len(NewPlan[i])
<1>1. /\ Earlier(dtos, count, s)
      /\ \A k \in 1 .. f.current : Sampling(dtos, count, i, f, k)
      /\ losses >= L \/ OfSample(i, f, s)
  BY GainedValues
<1>2. f.state = IF j = L THEN "finished" ELSE "collecting"
  BY DEF Gained
<1>3. SUFFICES ASSUME f.state = "collecting"
               PROVE  /\ \A k \in 1 .. f.current : Sampling(after, count, i, f, k)
                      /\ losses >= L
                           \/ \E z \in 1 .. count : /\ Earlier(after, count, z)
                                                    /\ OfSample(i, f, z)
                                                    /\ Missing(after, i, f.next, z, losses)
  BY DEF Holding
<1>4. j # L /\ f.next = j /\ j \in Nat /\ L \in Nat /\ j < L
  <2>1. j # L
    BY <1>2, <1>3
  <2>2. f.next = j
    BY <2>1 DEF Gained
  <2>3. L \in Nat /\ j \in 1 .. L
    BY PlanList
  <2> HIDE DEF L
  <2> QED BY <2>1, <2>2, <2>3
<1>5. \A z : Earlier(dtos, count, z) => Earlier(after, count, z)
  BY EarlierTail
<1>6. ASSUME NEW k \in 1 .. f.current PROVE Sampling(after, count, i, f, k)
  <2>1. Sampling(dtos, count, i, f, k)
    BY <1>1
  <2>2. PICK z \in 1 .. count : Earlier(dtos, count, z) /\ f.buffer[k] = ValueOf(i, k, z)
    BY <2>1 DEF Sampling
  <2> QED BY <1>5, <2>2 DEF Sampling
<1>7. Missing(after, i, j, s, losses)
  <2>1. CASE after = dtos
    <3>1. dtos[1].list = Number(i)
      BY DEF IsPart
    <3> QED BY <2>1, <3>1 DEF Missing
  <2>2. CASE after = Tail(dtos)
    <3> DEFINE t == Tail(dtos)
    <3>1. PICK h \in ListIndices : \E g \in 1 .. Len(NewPlan[h]) :
             /\ IsPart(dtos[1], h, g)
             /\ g < Len(NewPlan[h]) => /\ t # <<>> /\ IsPart(t[1], h, g + 1)
                                       /\ t[1].sample = dtos[1].sample
      BY NextHead
    <3>2. PICK g \in 1 .. Len(NewPlan[h]) :
             /\ IsPart(dtos[1], h, g)
             /\ g < Len(NewPlan[h]) => /\ t # <<>> /\ IsPart(t[1], h, g + 1)
                                       /\ t[1].sample = dtos[1].sample
      BY <3>1
    <3> HIDE DEF t
    <3>3. h = i /\ g = j
      <4> DEFINE x == dtos[1]
      <4>1. IsPart(x, h, g) /\ IsPart(x, i, j)
        BY <3>2
      <4> HIDE DEF x
      <4> QED BY <4>1, PartsApart
    <3>4. t # <<>> /\ IsPart(t[1], i, j + 1) /\ t[1].sample = s
      BY <1>4, <3>2, <3>3
    <3> DEFINE g2 == j + 1
    <3>5. g2 \in 1 .. L /\ g2 > j /\ losses >= g2 - 1 - j
      <4> HIDE DEF L
      <4> QED BY <1>4
    <3>6. IsPart(t[1], i, g2) /\ t[1].list = Number(i)
      BY <3>4 DEF IsPart
    <3> HIDE DEF g2, s
    <3>7. Missing(t, i, j, s, losses)
      BY <3>4, <3>5, <3>6 DEF Missing
    <3> QED BY <2>2, <3>7 DEF t
  <2> QED BY <2>1, <2>2
<1>8. s \in 1 .. count
  BY <1>1 DEF Earlier
<1> QED BY <1>1, <1>4, <1>5, <1>6, <1>7, <1>8

LEMMA DeliveredFed ==
  ASSUME config \in Configurations, NEW dtos, NEW count \in Nat, IsSequence(dtos), dtos # <<>>,
         Streamed(dtos, count), NEW i \in ListIndices, NEW j \in 1 .. Len(NewPlan[i]),
         IsPart(dtos[1], i, j), NEW d, NEW losses \in Nat, Holding(dtos, count, i, d, losses),
         NEW f, Gained(f, d, i, j, dtos[1].sample), f.state = "finished",
         NEW r, r.sample = dtos[1].sample, r.values = f.buffer
  PROVE  Delivered(i, r, count, losses)
<1> DEFINE s == dtos[1].sample
           L == Len(NewPlan[i])
           m == Len(Flat(NewPlan[i]))
<1>1. /\ Earlier(dtos, count, s)
      /\ \A k \in 1 .. f.current : Sampling(dtos, count, i, f, k)
      /\ losses >= L \/ OfSample(i, f, s)
  BY GainedValues
<1>2. /\ f.state = IF j = L THEN "finished" ELSE "collecting"
      /\ f.current = Ends(NewPlan[i], j) /\ IsSequence(f.buffer) /\ Len(f.buffer) = m
  BY DEF Gained
<1>3. f.current = m
  <2>1. j = L
    BY <1>2
  <2>2. NewPlan[i] \in BinSeqs
    BY PlanList
  <2>3. Ends(NewPlan[i], L) = m
    BY <2>2, EndsGrow
  <2> QED BY <1>2, <2>1, <2>3
<1>4. \A k \in 1 .. m : \E z \in 1 .. s : f.buffer[k] = ValueOf(i, k, z)
  <2>1. SUFFICES ASSUME NEW k \in 1 .. m
                 PROVE  \E z \in 1 .. s : f.buffer[k] = ValueOf(i, k, z)
    OBVIOUS
  <2>2. Sampling(dtos, count, i, f, k)
    BY <1>1, <1>3
  <2>3. PICK z \in 1 .. count : Earlier(dtos, count, z) /\ f.buffer[k] = ValueOf(i, k, z)
    BY <2>2 DEF Sampling
  <2>4. z <= s
    BY <2>3, EarlierTail
  <2>5. z \in 1 .. s
    <3>1. s \in 1 .. count
      BY <1>1 DEF Earlier
    <3> HIDE DEF s
    <3> QED BY <2>4, <3>1
  <2> QED BY <2>3, <2>5
<1>5. f.buffer = [k \in 1 .. m |-> f.buffer[k]]
  BY <1>2 DEF IsSequence
<1>6. OfSample(i, f, s) => f.buffer = [k \in 1 .. m |-> ValueOf(i, k, s)]
  <2>1. SUFFICES ASSUME OfSample(i, f, s)
                 PROVE  f.buffer = [k \in 1 .. m |-> ValueOf(i, k, s)]
    OBVIOUS
  <2>2. \A k \in 1 .. m : f.buffer[k] = ValueOf(i, k, s)
    BY <1>3, <2>1 DEF OfSample
  <2> HIDE DEF m, s
  <2> QED BY <1>5, <2>2
<1>7. s \in 1 .. count
  BY <1>1 DEF Earlier
<1>8. r.sample = s /\ r.values = f.buffer
  OBVIOUS
<1> HIDE DEF s, m
<1>9. /\ r.sample \in 1 .. count
      /\ \/ r.values = [k \in 1 .. m |-> ValueOf(i, k, r.sample)]
         \/ /\ losses >= L
            /\ \A k \in 1 .. m : \E z \in 1 .. r.sample : r.values[k] = ValueOf(i, k, z)
  BY <1>1, <1>4, <1>6, <1>7, <1>8
<1> QED BY <1>9 DEF Delivered, m

(* What a list has delivered and holds is right, if its measurements are   *)
(* packed as they should be and its DTOs are numbered as the unfolder      *)
(* counts.                                                                 *)
Decoded(dtos, count, i, losses, r, ds) ==
  \/ Misread \/ SharesLastOctet(config.lists[i])
  \/ /\ Delivered(i, r, count, losses)
     /\ i \in DOMAIN ds => /\ ds[i].state # "terminated"
                           /\ Holding(dtos, count, i, ds[i], losses)
Measured ==
  /\ lost = [i \in ListIndices |-> lost[i]] /\ last = [i \in ListIndices |-> last[i]]
  /\ \A i \in ListIndices : /\ lost[i] \in Nat
                            /\ Decoded(line, events, i, lost[i], last[i], decoders)

LEMMA MeasuredPrimed ==
  ASSUME config' = config,
         lost' = [i \in ListIndices |-> lost'[i]], last' = [i \in ListIndices |-> last'[i]],
         \A i \in ListIndices : /\ lost'[i] \in Nat
                                /\ Decoded(line', events', i, lost'[i], last'[i], decoders')
  PROVE  Measured'
<1>1. /\ NewPlan' = NewPlan /\ ListIndices' = ListIndices
      /\ \A i : Number(i)' = Number(i)
      /\ \A dto, i, j : IsPart(dto, i, j)' <=> IsPart(dto, i, j)
      /\ Misread' <=> Misread
  BY Constancy, Unchanging, LinePrimed, StreamPrimed
<1>2. ASSUME NEW i \in ListIndices
      PROVE  (lost[i] \in Nat /\ Decoded(line, events, i, lost[i], last[i], decoders))'
  <2>1. lost'[i] \in Nat /\ Decoded(line', events', i, lost'[i], last'[i], decoders')
    OBVIOUS
  <2>2. CASE Misread \/ SharesLastOctet(config.lists[i])
    BY <1>1, <2>1, <2>2 DEF Decoded, SharesLastOctet
  <2>3. CASE ~(Misread \/ SharesLastOctet(config.lists[i]))
    <3>1. /\ Delivered(i, last'[i], events', lost'[i])
          /\ i \in DOMAIN decoders' =>
               /\ decoders'[i].state # "terminated"
               /\ Holding(line', events', i, decoders'[i], lost'[i])
      BY <2>1, <2>3 DEF Decoded
    <3>2. Delivered(i, last[i], events, lost[i])'
      BY <1>1, <3>1 DEF Delivered, ValueOf
    <3>3. ASSUME Holding(line', events', i, decoders'[i], lost'[i])
          PROVE  Holding(line, events, i, decoders[i], lost[i])'
      <4>1. \A k, s : ValueOf(i, k, s)' = ValueOf(i, k, s)
        BY <1>1 DEF ValueOf
      <4>2. \A k : Sampling(line', events', i, decoders'[i], k)
                     => Sampling(line, events, i, decoders[i], k)'
        BY <4>1 DEF Sampling, Earlier
      <4>3. \A s : OfSample(i, decoders'[i], s) => OfSample(i, decoders[i], s)'
        BY <4>1 DEF OfSample
      <4>4. \A s : Missing(line', i, decoders'[i].next, s, lost'[i])
                     => Missing(line, i, decoders[i].next, s, lost[i])'
        BY <1>1 DEF Missing
      <4>5. \A s : Earlier(line', events', s) => Earlier(line, events, s)'
        BY DEF Earlier
      <4> QED BY <1>1, <3>3, <4>2, <4>3, <4>4, <4>5 DEF Holding
    <3> QED BY <2>1, <3>1, <3>2, <3>3 DEF Decoded
  <2> QED BY <2>2, <2>3
<1> QED BY <1>1, <1>2 DEF Measured

(* feed() takes the oldest DTO, which may stay on its way.                 *)
LEMMA FetchedDecodes ==
  ASSUME config \in Configurations, config' = config, events \in Nat, events' = events,
         IsSequence(line), line # <<>>, Streamed(line, events), Measured, lost' = lost,
         line' = line \/ line' = Tail(line),
         decoders = [k \in ListIndices |-> decoders[k]],
         \A k \in ListIndices : Decoding(decoders[k], NewPlan[k]) /\ IsDecoder(decoders'[k]),
         NEW i \in ListIndices, NEW j \in 1 .. Len(NewPlan[i]), NEW dto, dto = line[1],
         IsPart(dto, i, j), Exact(dto, i, j), Fetched(dto, i, j - 1)
  PROVE  Measured'
<1> DEFINE f == FedBy(dto, i, j - 1)
           d == decoders[i]
           t == Normalized(trackers[i], f.timestamp)
           r == Result(f, t, last[i], dto.sample)
           idle == [f EXCEPT !.state = "idle"]
           L == Len(NewPlan[i])
<1>1. /\ \A k \in ListIndices : /\ lost[k] \in Nat
                                /\ Decoded(line, events, k, lost[k], last[k], decoders)
      /\ lost = [k \in ListIndices |-> lost[k]] /\ last = [k \in ListIndices |-> last[k]]
  BY DEF Measured
<1>2. /\ \/ /\ f.state # "finished" /\ decoders' = [decoders EXCEPT ![i] = f] /\ last' = last
         \/ /\ f.state = "finished" /\ decoders' = [decoders EXCEPT ![i] = idle]
            /\ last' = [last EXCEPT ![i] = r]
  BY DEF Fetched
<1>3. Decoding(d, NewPlan[i]) /\ IsDecoder(decoders'[i]) /\ d.next \in 0 .. L - 1
  BY DEF Decoding
<1>4. DOMAIN decoders = ListIndices /\ DOMAIN decoders' = ListIndices
  <2> HIDE DEF f, idle, r
  <2> QED BY <1>2
<1>5. r.values = f.buffer /\ r.sample = dto.sample
  <2> HIDE DEF f, t
  <2> QED BY DEF Result
<1>6. last' = [k \in ListIndices |-> last'[k]]
  <2> HIDE DEF f, idle, r
  <2> QED BY <1>1, <1>2
<1>7. dto.sample \in Int /\ events \in Nat
  <2>1. 1 \in 1 .. Len(line)
    <3> DEFINE n == Len(line)
    <3>1. n \in Nat \ {0}
      BY TailIs
    <3> HIDE DEF n
    <3>2. 1 \in 1 .. n
      BY <3>1
    <3> QED BY <3>2 DEF n
  <2>2. line[1].sample \in 1 .. events
    BY <2>1 DEF Streamed
  <2> QED BY <2>2
<1>8. ASSUME ~Misread, ~SharesLastOctet(config.lists[i])
      PROVE  /\ Delivered(i, last'[i], events', lost'[i])
             /\ decoders'[i].state # "terminated"
             /\ Holding(line', events', i, decoders'[i], lost'[i])
  <2>1. /\ Delivered(i, last[i], events, lost[i]) /\ lost[i] \in Nat
        /\ d.state # "terminated" /\ Holding(line, events, i, d, lost[i])
    BY <1>1, <1>4, <1>8 DEF Decoded
  <2>2. f.state = "idle" \/ Gained(f, d, i, j, dto.sample)
    <3>1. f = Fed(Beginning(d, j - 1, dto.time), config.lists[i], j - 1, dto.payload)
      BY DEF FedBy
    <3> HIDE DEF f, d
    <3>2. LET g == Fed(Beginning(d, j - 1, dto.time), config.lists[i], j - 1, dto.payload)
          IN g.state = "idle" \/ Gained(g, d, i, j, dto.sample)
      BY <1>3, <1>7, <1>8, <2>1, Collected DEF Misread
    <3> QED BY <3>1, <3>2
  <2> HIDE DEF f, d, r, idle
  <2>3. CASE f.state = "finished"
    <3>1. Gained(f, d, i, j, dto.sample) /\ decoders'[i] = idle /\ last'[i] = r
      BY <1>1, <1>2, <1>4, <2>2, <2>3
    <3>2. Delivered(i, r, events, lost[i])
      <4> DEFINE losses == lost[i]
      <4>1. Delivered(i, r, events, losses)
        <5>1. /\ losses \in Nat /\ Holding(line, events, i, d, losses)
              /\ Gained(f, d, i, j, line[1].sample) /\ IsPart(line[1], i, j)
              /\ r.sample = line[1].sample /\ r.values = f.buffer
          BY <1>5, <2>1, <3>1
        <5> HIDE DEF losses
        <5> QED BY <2>3, <5>1, DeliveredFed
      <4> QED BY <4>1
    <3>3. decoders'[i].state = "idle"
      <4>1. "state" \in DOMAIN idle
        <5>1. idle = Decoder(idle.odts, idle.state, idle.next, idle.current, idle.timestamp,
                             idle.buffer, idle.began)
          BY <1>3, <3>1 DEF IsDecoder
        <5> QED BY <5>1 DEF Decoder
      <4>2. DOMAIN idle = DOMAIN f
        BY DEF idle
      <4>3. idle.state = "idle"
        BY <4>1, <4>2 DEF idle
      <4> QED BY <3>1, <4>3
    <3> QED BY <3>1, <3>2, <3>3 DEF Holding
  <2>4. CASE f.state # "finished"
    <3>1. decoders'[i] = f /\ last'[i] = last[i]
      BY <1>2, <1>4, <2>4
    <3>2. CASE f.state = "idle"
      BY <2>1, <3>1, <3>2 DEF Holding
    <3>3. CASE f.state # "idle"
      <4>1. Gained(f, d, i, j, dto.sample)
        BY <2>2, <3>3
      <4>2. f.state # "terminated"
        BY <4>1 DEF Gained
      <4>3. Holding(line', events, i, f, lost[i])
        <5> DEFINE losses == lost[i]
                   after == line'
        <5>1. /\ losses \in Nat /\ Holding(line, events, i, d, losses)
              /\ Gained(f, d, i, j, line[1].sample) /\ IsPart(line[1], i, j)
              /\ after = line \/ after = Tail(line)
          BY <2>1, <4>1
        <5> HIDE DEF losses, after
        <5>2. Holding(after, events, i, f, losses)
          BY <5>1, HoldingFed
        <5> QED BY <5>2 DEF losses, after
      <4> QED BY <2>1, <3>1, <4>2, <4>3
    <3> QED BY <3>2, <3>3
  <2> QED BY <2>3, <2>4
<1>9. ASSUME NEW k \in ListIndices, k # i
      PROVE  /\ decoders'[k] = decoders[k] /\ last'[k] = last[k]
             /\ Holding(line, events, k, decoders[k], lost[k])
                  => Holding(line', events, k, decoders[k], lost[k])
  <2>1. decoders'[k] = decoders[k] /\ last'[k] = last[k]
    <3> HIDE DEF f, idle, r
    <3> QED BY <1>1, <1>2, <1>4, <1>9
  <2>2. ASSUME Holding(line, events, k, decoders[k], lost[k]), line' = Tail(line)
        PROVE  Holding(line', events, k, decoders[k], lost[k])
    <3> DEFINE losses == lost[k]
               e == decoders[k]
    <3>1. line[1].list # Number(k)
      BY <1>9, Numbers DEF IsPart
    <3>2. e.next \in 0 .. Len(NewPlan[k]) - 1
      <4>1. Decoding(e, NewPlan[k])
        OBVIOUS
      <4> HIDE DEF e
      <4> QED BY <4>1 DEF Decoding
    <3>3. losses \in Nat /\ Holding(line, events, k, e, losses)
      BY <1>1, <2>2
    <3> HIDE DEF losses, e
    <3>4. losses <= losses
      BY <3>3
    <3>5. Holding(Tail(line), events, k, e, losses)
      BY <3>1, <3>2, <3>3, <3>4, HoldingTail
    <3> QED BY <2>2, <3>5 DEF losses, e
  <2>3. ASSUME Holding(line, events, k, decoders[k], lost[k]), line' = line
        PROVE  Holding(line', events, k, decoders[k], lost[k])
    BY <2>3
  <2> QED BY <2>1, <2>2, <2>3
<1>10. ASSUME NEW k \in ListIndices
       PROVE  /\ lost'[k] \in Nat
              /\ Decoded(line', events', k, lost'[k], last'[k], decoders')
  <2>1. lost'[k] = lost[k] /\ lost[k] \in Nat
    BY <1>1
  <2>2. CASE Misread \/ SharesLastOctet(config.lists[k])
    BY <2>1, <2>2 DEF Decoded
  <2>3. CASE ~(Misread \/ SharesLastOctet(config.lists[k]))
    <3>1. CASE k = i
      <4>1. /\ Delivered(k, last'[k], events', lost'[k])
            /\ decoders'[k].state # "terminated"
            /\ Holding(line', events', k, decoders'[k], lost'[k])
        BY <1>8, <2>3, <3>1
      <4> QED BY <2>1, <4>1 DEF Decoded
    <3>2. CASE k # i
      <4>1. /\ Delivered(k, last[k], events, lost[k])
            /\ decoders[k].state # "terminated"
            /\ Holding(line, events, k, decoders[k], lost[k])
        BY <1>1, <1>4, <2>3 DEF Decoded
      <4>2. /\ Delivered(k, last'[k], events', lost'[k])
            /\ decoders'[k].state # "terminated"
            /\ Holding(line', events', k, decoders'[k], lost'[k])
        BY <1>9, <2>1, <3>2, <4>1
      <4> QED BY <2>1, <4>2 DEF Decoded
    <3> QED BY <3>1, <3>2
  <2> QED BY <2>2, <2>3
<1>11. lost' = [k \in ListIndices |-> lost'[k]]
  BY <1>1
<1> QED BY <1>6, <1>10, <1>11, MeasuredPrimed

LEMMA ReceivingDecodes ==
  ASSUME DaqInv, DaqInv', DeviceInv, Line, Stream, Measured, Receive \/ Duplicate
  PROVE  Measured'
<1> DEFINE dto == Head(line)
<1>1. /\ line # <<>> /\ Feed(dto) /\ (line' = line \/ line' = Tail(line))
      /\ config' = config /\ plan' = plan /\ firstPids' = firstPids
      /\ phase' = phase /\ events' = events /\ lost' = lost
  BY DEF Receive, Duplicate, processor, outside
<1>2. /\ config \in Configurations /\ IsSequence(trackers) /\ Decoders
      /\ plan = NewPlan /\ \A k \in ListIndices : firstPids[k] = PidOf(k)
      /\ decoders = [k \in ListIndices |-> decoders[k]]
  BY <1>1 DEF DaqInv, Trackers, DeviceInv, Measuring
<1>3. IsSequence(line) /\ Streamed(line, events) /\ dto = line[1]
  BY <1>1, TailIs DEF Line, Lined, Stream
<1>4. events \in Nat
  <2>1. events \in 0 .. config.events
    BY DEF DaqInv
  <2> QED BY <2>1
<1>5. /\ \A k \in ListIndices : /\ lost[k] \in Nat
                                /\ Decoded(line, events, k, lost[k], last[k], decoders)
      /\ lost = [k \in ListIndices |-> lost[k]] /\ last = [k \in ListIndices |-> last[k]]
  BY DEF Measured
<1>6. PICK i \in ListIndices : \E j \in 1 .. Len(NewPlan[i]) :
             IsPart(line[1], i, j) /\ Exact(line[1], i, j)
  BY <1>1, <1>2, <1>3, NextHead
<1>7. PICK j \in 1 .. Len(NewPlan[i]) : IsPart(line[1], i, j) /\ Exact(line[1], i, j)
  BY <1>6
<1>8. IsPart(dto, i, j) /\ Exact(dto, i, j) /\ IsDto(dto, i, j)
  BY <1>3, <1>7 DEF IsPart
<1> HIDE DEF dto
<1>9. CASE Misread
  <2>1. last' = [k \in ListIndices |-> last'[k]]
    <3> DEFINE id == GetId(dto.id)
               x == id[1] + 1
    <3>1. last' = last \/ \E r : last' = [last EXCEPT ![x] = r]
      BY <1>1 DEF Feed, unfolder
    <3> HIDE DEF x
    <3>2. ASSUME NEW r
          PROVE  LET e == [last EXCEPT ![x] = r]
                 IN e = [k \in ListIndices |-> e[k]]
      BY <1>5
    <3> QED BY <1>5, <3>1, <3>2
  <2>2. lost' = [k \in ListIndices |-> lost'[k]] /\ \A k \in ListIndices : lost'[k] \in Nat
    BY <1>1, <1>5
  <2>3. \A k \in ListIndices : Decoded(line', events', k, lost'[k], last'[k], decoders')
    BY <1>9 DEF Decoded
  <2> QED BY <1>1, <2>1, <2>2, <2>3, MeasuredPrimed
<1>10. CASE ~Misread
  <2>1. Fetched(dto, i, j - 1)
    BY <1>1, <1>2, <1>8, <1>10, FeedFetches DEF Known
  <2>2. \A k \in ListIndices : Decoding(decoders[k], NewPlan[k])
    <3>1. decoders # <<>>
      BY <1>2
    <3> QED BY <1>2, <3>1 DEF Decoders
  <2>3. \A k \in ListIndices : IsDecoder(decoders'[k])
    <3>1. decoders' = [k \in ListIndices |-> decoders'[k]]
      BY <1>1, <1>2, FeedShape
    <3>2. decoders' # <<>>
      BY <3>1
    <3>3. (\A k \in ListIndices : Decoding(decoders[k], NewPlan[k]))'
      BY <3>2 DEF DaqInv, Decoders
    <3>4. ListIndices' = ListIndices
      BY <1>1, Constancy
    <3> QED BY <3>3, <3>4 DEF Decoding, IsDecoder
  <2> QED BY <1>1, <1>2, <1>3, <1>4, <1>8, <2>1, <2>2, <2>3, FetchedDecodes
<1> QED BY <1>9, <1>10

LEMMA LosingDecodes ==
  ASSUME DaqInv, Line, Stream, Measured, Lose
  PROVE  Measured'
<1> DEFINE x == Index(Head(line).list)
<1>1. /\ line # <<>> /\ line' = Tail(line) /\ config' = config /\ events' = events
      /\ decoders' = decoders /\ last' = last /\ lost' = [lost EXCEPT ![x] = @ + 1]
  BY DEF Lose, processor, unfolder
<1>2. config \in Configurations /\ events \in Nat /\ Decoders
  <2>1. config \in Configurations /\ events \in 0 .. config.events /\ Decoders
    BY DEF DaqInv
  <2> QED BY <2>1
<1>3. IsSequence(line) /\ Streamed(line, events) /\ Head(line) = line[1]
  BY <1>1, TailIs DEF Line, Lined, Stream
<1>4. /\ \A k \in ListIndices : /\ lost[k] \in Nat
                                /\ Decoded(line, events, k, lost[k], last[k], decoders)
      /\ lost = [k \in ListIndices |-> lost[k]] /\ last = [k \in ListIndices |-> last[k]]
  BY DEF Measured
<1>5. PICK i \in ListIndices : \E j \in 1 .. Len(NewPlan[i]) : IsPart(line[1], i, j)
  BY <1>1, <1>2, <1>3, NextHead
<1>6. line[1].list = Number(i)
  BY <1>5 DEF IsPart
<1>7. x = i
  BY <1>2, <1>3, <1>6, Numbers DEF Index
<1> HIDE DEF x
<1>8. /\ lost' = [k \in ListIndices |-> lost'[k]]
      /\ \A k \in ListIndices : lost'[k] = IF k = i THEN lost[k] + 1 ELSE lost[k]
  BY <1>1, <1>4, <1>7
<1>9. ASSUME NEW k \in ListIndices
      PROVE  /\ lost'[k] \in Nat
             /\ Decoded(line', events', k, lost'[k], last'[k], decoders')
  <2> DEFINE losses == lost[k]
             greater == lost'[k]
  <2>1. losses \in Nat /\ greater \in Nat /\ losses <= greater /\ (k = i => losses < greater)
    <3>1. losses \in Nat /\ greater = IF k = i THEN losses + 1 ELSE losses
      BY <1>4, <1>8
    <3> HIDE DEF losses, greater
    <3> QED BY <3>1
  <2>2. line[1].list = Number(k) => losses < greater
    BY <1>2, <1>6, <2>1, Numbers
  <2>3. CASE Misread \/ SharesLastOctet(config.lists[k])
    BY <2>1, <2>3 DEF Decoded
  <2>4. CASE ~(Misread \/ SharesLastOctet(config.lists[k]))
    <3>1. /\ Delivered(k, last[k], events, losses)
          /\ k \in DOMAIN decoders => /\ decoders[k].state # "terminated"
                                      /\ Holding(line, events, k, decoders[k], losses)
      BY <1>4, <2>4 DEF Decoded
    <3>2. Delivered(k, last[k], events, greater)
      <4> HIDE DEF losses, greater
      <4>1. events <= events
        BY <1>2
      <4> QED BY <1>2, <2>1, <3>1, <4>1, DeliveredStays
    <3>3. ASSUME k \in DOMAIN decoders PROVE Holding(Tail(line), events, k, decoders[k], greater)
      <4> DEFINE d == decoders[k]
      <4>1. Decoding(d, NewPlan[k])
        <5>1. decoders # <<>>
          BY <3>3
        <5> QED BY <1>2, <5>1 DEF Decoders
      <4>2. Holding(line, events, k, d, losses)
        BY <3>1, <3>3
      <4> HIDE DEF d, losses, greater
      <4>3. d.next \in 0 .. Len(NewPlan[k]) - 1
        BY <4>1 DEF Decoding
      <4>4. Holding(Tail(line), events, k, d, greater)
        BY <1>1, <1>2, <1>3, <2>1, <2>2, <4>2, <4>3, HoldingTail
      <4> QED BY <4>4 DEF d
    <3> QED BY <1>1, <2>1, <3>1, <3>2, <3>3 DEF Decoded
  <2> QED BY <2>3, <2>4
<1>10. last' = [k \in ListIndices |-> last'[k]]
  BY <1>1, <1>4
<1> QED BY <1>1, <1>8, <1>9, <1>10, MeasuredPrimed

LEMMA SamplingDecodes ==
  ASSUME DaqInv, DeviceInv, Line, ContentInv, Measured, Sample
  PROVE  Measured'
<1>1. /\ config' = config /\ decoders' = decoders /\ last' = last /\ lost' = lost
  BY DEF Sample, processor, unfolder
<1>2. config \in Configurations /\ events \in Nat /\ Decoders
  <2>1. config \in Configurations /\ events \in 0 .. config.events /\ Decoders
    BY DEF DaqInv
  <2> QED BY <2>1
<1>3. IsSequence(line)
  BY DEF Line, Lined
<1>4. PICK new : IsSequence(new) /\ Whole(new, events') /\ line' = line \o new
  BY SampledWhole
<1>5. events' \in Nat /\ events <= events'
  <2>1. events' = events + 1
    BY SampledWhole
  <2> QED BY <1>2, <2>1
<1>6. /\ \A k \in ListIndices : /\ lost[k] \in Nat
                                /\ Decoded(line, events, k, lost[k], last[k], decoders)
      /\ lost = [k \in ListIndices |-> lost[k]] /\ last = [k \in ListIndices |-> last[k]]
  BY DEF Measured
<1>7. ASSUME NEW k \in ListIndices
      PROVE  /\ lost'[k] \in Nat
             /\ Decoded(line', events', k, lost'[k], last'[k], decoders')
  <2> DEFINE losses == lost[k]
             u == events'
  <2>1. losses \in Nat /\ u \in Nat /\ losses <= losses /\ events <= u
    <3>1. losses \in Nat /\ u \in Nat /\ events <= u
      BY <1>5, <1>6
    <3> HIDE DEF losses, u
    <3> QED BY <3>1
  <2>2. CASE Misread \/ SharesLastOctet(config.lists[k])
    BY <1>1, <1>6, <2>2 DEF Decoded
  <2>3. CASE ~(Misread \/ SharesLastOctet(config.lists[k]))
    <3>1. /\ Delivered(k, last[k], events, losses)
          /\ k \in DOMAIN decoders => /\ decoders[k].state # "terminated"
                                      /\ Holding(line, events, k, decoders[k], losses)
      BY <1>6, <2>3 DEF Decoded
    <3>2. Delivered(k, last[k], u, losses)
      <4> HIDE DEF losses, u
      <4> QED BY <1>2, <2>1, <3>1, DeliveredStays
    <3>3. ASSUME k \in DOMAIN decoders PROVE Holding(line', u, k, decoders[k], losses)
      <4> DEFINE d == decoders[k]
      <4>1. Decoding(d, NewPlan[k])
        <5>1. decoders # <<>>
          BY <3>3
        <5> QED BY <1>2, <5>1 DEF Decoders
      <4>2. Holding(line, events, k, d, losses) /\ Whole(new, u)
        BY <1>4, <3>1, <3>3
      <4> HIDE DEF d, losses, u
      <4>3. d.next \in 0 .. Len(NewPlan[k]) - 1
        BY <4>1 DEF Decoding
      <4>4. Holding(line \o new, u, k, d, losses)
        BY <1>2, <1>3, <1>4, <2>1, <4>2, <4>3, HoldingJoined
      <4>5. Holding(line', u, k, d, losses)
        BY <1>4, <4>4
      <4> QED BY <4>5 DEF d
    <3> QED BY <1>1, <2>1, <3>1, <3>2, <3>3 DEF Decoded
  <2> QED BY <2>2, <2>3
<1>8. last' = [k \in ListIndices |-> last'[k]] /\ lost' = [k \in ListIndices |-> lost'[k]]
  BY <1>1, <1>6
<1> QED BY <1>1, <1>7, <1>8, MeasuredPrimed

(* A step that leaves the unfolder and the DTOs.                           *)
LEMMA QuietDecodes ==
  ASSUME DaqInv, Measured,
         \/ Setup \/ Command \/ Refused \/ Unanswered \/ MirrorFails \/ Start \/ Stop
         \/ SetParameters \/ UNCHANGED vars
  PROVE  Measured'
<1>1. /\ config' = config /\ line' = line /\ events' = events /\ lost' = lost /\ last' = last
      /\ decoders' = decoders \/ decoders' = [i \in ListIndices |-> NewDecoder(plan[i])]
  <2>1. CASE Setup \/ Command \/ Refused \/ Unanswered \/ MirrorFails
    BY <2>1 DEF Setup, Command, Refused, Unanswered, MirrorFails, outside, unfolder
  <2>2. CASE Start \/ Stop \/ SetParameters \/ UNCHANGED vars
    BY <2>2 DEF Start, Stop, SetParameters, vars, outside, processor, unfolder
  <2> QED BY <2>1, <2>2
<1>2. /\ \A k \in ListIndices : /\ lost[k] \in Nat
                                /\ Decoded(line, events, k, lost[k], last[k], decoders)
      /\ lost = [k \in ListIndices |-> lost[k]] /\ last = [k \in ListIndices |-> last[k]]
  BY DEF Measured
<1>3. ASSUME NEW k \in ListIndices
      PROVE  Decoded(line, events, k, lost[k], last[k], decoders')
  <2>1. CASE decoders' = decoders
    BY <1>2, <2>1
  <2>2. CASE decoders' = [i \in ListIndices |-> NewDecoder(plan[i])]
    <3>1. decoders'[k].state = "idle"
      BY <2>2 DEF NewDecoder
    <3>2. Decoded(line, events, k, lost[k], last[k], decoders)
      BY <1>2
    <3> QED BY <3>1, <3>2 DEF Decoded, Holding
  <2> QED BY <1>1, <2>1, <2>2
<1>4. \A k \in ListIndices : /\ lost'[k] \in Nat
                             /\ Decoded(line', events', k, lost'[k], last'[k], decoders')
  BY <1>1, <1>2, <1>3
<1>5. lost' = [k \in ListIndices |-> lost'[k]] /\ last' = [k \in ListIndices |-> last'[k]]
  BY <1>1, <1>2
<1> QED BY <1>1, <1>4, <1>5, MeasuredPrimed

LEMMA MeasuredAtFirst ==
  ASSUME Init
  PROVE  Stream /\ Measured
<1>1. /\ line = <<>> /\ decoders = <<>> /\ lost = [i \in ListIndices |-> 0]
      /\ last = [i \in ListIndices |-> None]
  BY DEF Init
<1>2. Stream
  <2>1. 1 .. Len(line) = {}
    BY <1>1, EmptySequence
  <2> QED BY <2>1 DEF Stream, Streamed
<1>3. ASSUME NEW i \in ListIndices
      PROVE  lost[i] \in Nat /\ Decoded(line, events, i, lost[i], last[i], decoders)
  <2>1. lost[i] = 0 /\ last[i] = None /\ DOMAIN decoders = {}
    BY <1>1
  <2> QED BY <2>1 DEF Decoded, Delivered
<1>4. lost = [i \in ListIndices |-> lost[i]] /\ last = [i \in ListIndices |-> last[i]]
  BY <1>1
<1> QED BY <1>2, <1>3, <1>4 DEF Measured

MeasureInv == TimeInv /\ ContentInv /\ Stream /\ Measured

LEMMA MeasuredKept ==
  ASSUME DaqInv, DaqInv', MeasureInv, [Next]_vars
  PROVE  MeasureInv'
<1>1. DeviceInv /\ Line /\ TimeInv /\ ContentInv /\ Stream /\ Measured
  BY DEF MeasureInv, TimeInv
<1>2. TimeInv' /\ ContentInv' /\ Stream'
  BY <1>1, TimesKept, ContentKept, StreamKept
<1>3. Measured'
  <2>1. CASE \/ Setup \/ Command \/ Refused \/ Unanswered \/ MirrorFails \/ Start \/ Stop
             \/ SetParameters \/ UNCHANGED vars
    BY <1>1, <2>1, QuietDecodes
  <2>2. CASE Sample
    BY <1>1, <2>2, SamplingDecodes
  <2>3. CASE Lose
    BY <1>1, <2>3, LosingDecodes
  <2>4. CASE Receive \/ Duplicate
    BY <1>1, <2>4, ReceivingDecodes
  <2> QED BY <2>1, <2>2, <2>3, <2>4 DEF Next
<1> QED BY <1>2, <1>3 DEF MeasureInv

LEMMA MeasurementsAreExact ==
  ASSUME DaqInv, Measured
  PROVE  MeasurementsExact
<1>1. SUFFICES ASSUME NEW i \in DOMAIN decoders, ~Misread, ~SharesLastOctet(config.lists[i])
               PROVE  LET params == FlattenSeq(decoders[i].odts)
                          of(s) == [k \in DOMAIN params |-> Read(params[k], s)]
                      IN /\ decoders[i].state # "terminated"
                         /\ last[i] # None =>
                              \/ last[i].values = of(last[i].sample)
                              \/ /\ lost[i] >= Len(decoders[i].odts)
                                 /\ \A k \in DOMAIN params :
                                      \E s \in 1 .. last[i].sample : last[i].values[k] = of(s)[k]
  BY DEF MeasurementsExact
<1>2. config \in Configurations /\ i \in ListIndices /\ Decoding(decoders[i], NewPlan[i])
  <2>1. Decoders /\ decoders # <<>> /\ config \in Configurations
    BY DEF DaqInv
  <2> QED BY <2>1 DEF Decoders
<1> DEFINE odts == decoders[i].odts
           params == FlattenSeq(odts)
           bins == NewPlan[i]
           of(s) == [k \in DOMAIN params |-> Read(params[k], s)]
<1>3. odts = FlattenOdts(bins) /\ bins \in BinSeqs
  BY <1>2, PlanList DEF Decoding
<1>4. params = Flat(bins) /\ Len(odts) = Len(bins) /\ DOMAIN params = 1 .. Len(Flat(bins))
  <2> HIDE DEF bins, odts
  <2>1. /\ Len(FlattenOdts(bins)) = Len(bins) /\ FlattenSeq(FlattenOdts(bins)) = Flat(bins)
        /\ Flat(bins) \in Seq(Objects)
    BY <1>3, OdtsTyped
  <2>2. DOMAIN Flat(bins) = 1 .. Len(Flat(bins))
    BY <2>1, LenProperties
  <2> QED BY <1>3, <2>1, <2>2
<1>5. /\ decoders[i].state # "terminated"
      /\ Delivered(i, last[i], events, lost[i])
  BY <1>1, <1>2 DEF Measured, Decoded
<1> HIDE DEF odts, params
<1>6. \A s : of(s) = [k \in 1 .. Len(Flat(bins)) |-> ValueOf(i, k, s)]
  BY <1>4 DEF ValueOf
<1>7. \A k \in DOMAIN params : \A s : of(s)[k] = ValueOf(i, k, s)
  BY <1>4 DEF ValueOf
<1>8. ASSUME last[i] # None
      PROVE  \/ last[i].values = of(last[i].sample)
             \/ /\ lost[i] >= Len(odts)
                /\ \A k \in DOMAIN params :
                     \E s \in 1 .. last[i].sample : last[i].values[k] = of(s)[k]
  <2> DEFINE r == last[i]
             m == Len(Flat(bins))
  <2>1. \/ r.values = [k \in 1 .. m |-> ValueOf(i, k, r.sample)]
        \/ /\ lost[i] >= Len(bins)
           /\ \A k \in 1 .. m : \E s \in 1 .. r.sample : r.values[k] = ValueOf(i, k, s)
    BY <1>5, <1>8 DEF Delivered
  <2>2. CASE r.values = [k \in 1 .. m |-> ValueOf(i, k, r.sample)]
    BY <1>6, <2>2
  <2>3. CASE /\ lost[i] >= Len(bins)
             /\ \A k \in 1 .. m : \E s \in 1 .. r.sample : r.values[k] = ValueOf(i, k, s)
    <3>1. ASSUME NEW k \in DOMAIN params
          PROVE  \E s \in 1 .. r.sample : r.values[k] = of(s)[k]
      <4>1. k \in 1 .. m
        BY <1>4
      <4>2. PICK s \in 1 .. r.sample : r.values[k] = ValueOf(i, k, s)
        BY <2>3, <4>1
      <4>3. of(s)[k] = ValueOf(i, k, s)
        BY <1>7
      <4> HIDE DEF of, r
      <4> QED BY <4>2, <4>3
    <3> QED BY <1>4, <2>3, <3>1
  <2> QED BY <2>1, <2>2, <2>3
<1> QED BY <1>5, <1>8 DEF odts, params

(* MeasurementsExact of Daq, for every configuration: whatever DTOs are    *)
(* lost or come twice, and however often setup() is called, a result has   *)
(* for every measurement what the device has read there, all of it in one  *)
(* sample; only where as many DTOs were lost as the list has ODTs may it   *)
(* be of several samples, and never does the unfolder read past the end of *)
(* a DTO.                                                                  *)
THEOREM DaqMeasurementsExact == Spec => []MeasurementsExact
<1>1. Init => DaqInv /\ MeasureInv
  BY InitHolds, TimesAtFirst, ContentAtFirst, MeasuredAtFirst DEF MeasureInv
<1>2. DaqInv /\ MeasureInv /\ [Next]_vars => (DaqInv /\ MeasureInv)'
  <2>1. SUFFICES ASSUME DaqInv, MeasureInv, [Next]_vars PROVE DaqInv' /\ MeasureInv'
    OBVIOUS
  <2>2. DaqInv'
    BY <2>1, NextHolds
  <2> QED BY <2>1, <2>2, MeasuredKept
<1>3. DaqInv /\ MeasureInv => MeasurementsExact
  BY MeasurementsAreExact DEF MeasureInv
<1> QED BY <1>1, <1>2, <1>3, PTL DEF Spec
=============================================================================
