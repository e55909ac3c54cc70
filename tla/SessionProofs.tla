---------------------------- MODULE SessionProofs ----------------------------
(***************************************************************************)
(* The safety of Session, for every set of slaves and scripts, every       *)
(* memory, every bound, and any refusals and resets: a transfer that has   *)
(* returned is exact, cond_unlock() is whole, and no field is packed or    *)
(* parsed in another byte order than that of the slave.  First the types:  *)
(* what slaveProperties, the packets of a transfer, the parts of a seed    *)
(* and the answers on their way can be.  Then the parts of the inductive   *)
(* invariant, what a packet does to the slave, the steps one by one, and   *)
(* the theorems at the end.                                                *)
(***************************************************************************)
EXTENDS Session, SequenceTheorems, FiniteSetTheorems, TLAPS

(***************************************************************************)
(* Facts about numbers and sequences.  The induction theorems of the       *)
(* library have an operator as a parameter; here they are stated for sets, *)
(* from the order of the finite subsets of a set, which is well founded.   *)
(* With them the function that FlattenSeq chooses is shown to exist, and   *)
(* to be what its recursive definition says.                               *)
(***************************************************************************)

(* A set of numbers that is not empty has a least one.                     *)
LEMMA Least ==
  ASSUME NEW T, T \subseteq Nat, T # {}
  PROVE  \E z \in T : \A y \in T : z <= y
<1> DEFINE U == {0 .. z - 1 : z \in T}
<1>1. U \subseteq FiniteSubsetsOf(Nat) /\ U # {}
  <2>1. \A z \in T : IsFiniteSet(0 .. z - 1) /\ 0 .. z - 1 \subseteq Nat
    BY FS_Interval
  <2>2. QED BY <2>1 DEF FiniteSubsetsOf
<1> HIDE DEF U
<1>2. PICK u \in U : \A v \in U : <<v, u>> \notin StrictSubsetOrdering(Nat)
  BY <1>1, FS_StrictSubsetOrderingWellFounded, WFMin
<1>3. PICK z \in T : u = 0 .. z - 1
  BY DEF U
<1>4. ASSUME NEW y \in T, y < z PROVE FALSE
  <2>1. 0 .. y - 1 \subseteq 0 .. z - 1 /\ 0 .. y - 1 # 0 .. z - 1
    <3>1. y \in 0 .. z - 1 /\ y \notin 0 .. y - 1 BY <1>4
    <3>2. QED BY <3>1
  <2>2. <<0 .. y - 1, u>> \in StrictSubsetOrdering(Nat)
    BY <2>1, <1>3, SMTT(40) DEF StrictSubsetOrdering
  <2>3. QED BY <2>2, <1>2 DEF U
<1>5. QED BY <1>4

(* Induction: a set with 0 and with the successor of each of its members.  *)
LEMMA SetInduction ==
  ASSUME NEW T, NEW n \in Nat, 0 \in T, \A i \in 0 .. n - 1 : i \in T => i + 1 \in T
  PROVE  n \in T
<1> DEFINE B == {i \in 0 .. n : i \notin T}
<1>1. SUFFICES ASSUME B # {} PROVE FALSE
  OBVIOUS
<1>2. B \subseteq Nat OBVIOUS
<1>2a. \A i : i \in B <=> i \in 0 .. n /\ i \notin T OBVIOUS
<1> HIDE DEF B
<1>3. PICK m \in B : \A y \in B : m <= y
  BY <1>1, <1>2, Least
<1>4. m \in 0 .. n /\ m \notin T
  BY <1>3, <1>2a
<1>5. m # 0 /\ m - 1 \in 0 .. n - 1 /\ m - 1 \in 0 .. n /\ (m - 1) + 1 = m /\ ~(m <= m - 1)
  BY <1>4
<1>6. m - 1 \in T
  BY <1>5, <1>3, <1>2a
<1>7. QED BY <1>6, <1>5, <1>4

-----------------------------------------------------------------------------
(* FlattenSeq: f[i] is the first i sequences, one after another.           *)
Flattening(f, seqs, n) ==
  f = [i \in 1 .. n |-> IF i = 1 THEN seqs[i] ELSE f[i - 1] \o seqs[i]]

LEMMA FlatteningExists ==
  ASSUME NEW seqs, NEW n \in Nat
  PROVE  \E f : Flattening(f, seqs, n)
<1> DEFINE T == {m \in Nat : \E f : Flattening(f, seqs, m)}
<1>1. 0 \in T
  <2>1. Flattening([i \in 1 .. 0 |-> seqs[i]], seqs, 0) BY DEF Flattening
  <2>2. QED BY <2>1
<1>2. ASSUME NEW m \in 0 .. n - 1, m \in T PROVE m + 1 \in T
  <2>1. PICK f : Flattening(f, seqs, m) BY <1>2
  <2> DEFINE g == [i \in 1 .. m + 1 |-> IF i <= m THEN f[i]
                                      ELSE IF i = 1 THEN seqs[i] ELSE f[m] \o seqs[i]]
  <2>2. \A i \in 1 .. m + 1 : g[i] = IF i = 1 THEN seqs[i] ELSE g[i - 1] \o seqs[i]
    <3>1. \A i \in 1 .. m : f[i] = IF i = 1 THEN seqs[i] ELSE f[i - 1] \o seqs[i]
      BY <2>1 DEF Flattening
    <3>2. \A i \in 1 .. m : i # 1 => i - 1 \in 1 .. m /\ i - 1 <= m /\ i - 1 \in 1 .. m + 1 OBVIOUS
    <3>3. TAKE i \in 1 .. m + 1
    <3>4. CASE i \in 1 .. m BY <3>1, <3>2, <3>4
    <3>5. CASE i = m + 1 
      <4>1. CASE m = 0 BY <4>1, <3>5
      <4>2. CASE m # 0
         <5>1. m \in 1 .. m + 1 /\ m <= m /\ i - 1 = m /\ i # 1 /\ ~(i <= m) BY <4>2, <3>5
         <5>2. QED BY <5>1
      <4>3. QED BY <4>1, <4>2
    <3>6. QED BY <3>4, <3>5
  <2>3. g = [i \in 1 .. m + 1 |-> IF i = 1 THEN seqs[i] ELSE g[i - 1] \o seqs[i]]
    BY <2>2
  <2> HIDE DEF g
  <2>4. Flattening(g, seqs, m + 1) BY <2>3 DEF Flattening
  <2>5. QED BY <2>4
<1> HIDE DEF T
<1>3. n \in T BY <1>1, <1>2, SetInduction
<1>4. QED BY <1>3 DEF T

Pieces(seqs, n) == [i \in 1 .. n |-> seqs[i]]

LEMMA FlattenedBy ==
  ASSUME NEW seqs, NEW n \in Nat \ {0}
  PROVE  \E f : Flattening(f, seqs, n) /\ FlattenSeq(Pieces(seqs, n)) = f[n]
<1> DEFINE p == Pieces(seqs, n)
           g == CHOOSE f : f = [i \in 1 .. n |-> IF i = 1 THEN p[i] ELSE f[i - 1] \o p[i]]
<1>1. Len(p) = n /\ n # 0
  BY DEF Pieces
<1>2. FlattenSeq(p) = g[n]
  BY <1>1 DEF FlattenSeq
<1>3. Flattening(g, p, n)
  <2>1. \E f : f = [i \in 1 .. n |-> IF i = 1 THEN p[i] ELSE f[i - 1] \o p[i]]
    BY FlatteningExists DEF Flattening
  <2>2. QED BY <2>1 DEF Flattening
<1>4. Flattening(g, seqs, n)
  <2>1. \A i \in 1 .. n : p[i] = seqs[i] BY DEF Pieces
  <2> HIDE DEF p, g
  <2>2. QED BY <2>1, <1>3 DEF Flattening
<1> HIDE DEF p, g
<1>5. QED BY <1>2, <1>4 DEF p

LEMMA FlatteningAgrees ==
  ASSUME NEW seqs, NEW m \in Nat, NEW n \in Nat, m <= n, NEW f, NEW g,
         Flattening(f, seqs, m), Flattening(g, seqs, n), NEW k \in 1 .. m
  PROVE  f[k] = g[k]
<1> DEFINE T == {i \in Nat : i \in 1 .. m => f[i] = g[i]}
<1>1. 0 \in T OBVIOUS
<1>2. ASSUME NEW i \in 0 .. m - 1, i \in T PROVE i + 1 \in T
  <2>1. i + 1 \in 1 .. m /\ i + 1 \in 1 .. n /\ (i + 1) - 1 = i OBVIOUS
  <2>2. f[i + 1] = IF i + 1 = 1 THEN seqs[i + 1] ELSE f[i] \o seqs[i + 1]
    BY <2>1 DEF Flattening
  <2>3. g[i + 1] = IF i + 1 = 1 THEN seqs[i + 1] ELSE g[i] \o seqs[i + 1]
    BY <2>1 DEF Flattening
  <2>4. i = 0 \/ f[i] = g[i] BY <1>2
  <2>5. f[i + 1] = g[i + 1] BY <2>2, <2>3, <2>4
  <2>6. QED BY <2>5
<1>3. \A i \in 0 .. k - 1 : i \in 0 .. m - 1 OBVIOUS
<1>4. k \in Nat OBVIOUS
<1> HIDE DEF T
<1>5. k \in T BY <1>1, <1>2, <1>3, <1>4, SetInduction
<1>6. QED BY <1>5 DEF T

LEMMA FlattenOneMore ==
  ASSUME NEW seqs, NEW n \in Nat \ {0}
  PROVE  FlattenSeq(Pieces(seqs, n + 1)) = FlattenSeq(Pieces(seqs, n)) \o seqs[n + 1]
<1>1. PICK f : Flattening(f, seqs, n) /\ FlattenSeq(Pieces(seqs, n)) = f[n]
  BY FlattenedBy
<1>2. PICK g : Flattening(g, seqs, n + 1) /\ FlattenSeq(Pieces(seqs, n + 1)) = g[n + 1]
  <2>1. n + 1 \in Nat \ {0} OBVIOUS
  <2>2. QED BY <2>1, FlattenedBy
<1>3. g[n + 1] = g[n] \o seqs[n + 1]
  <2>1. n + 1 \in 1 .. n + 1 /\ n + 1 # 1 /\ (n + 1) - 1 = n OBVIOUS
  <2>2. QED BY <2>1, <1>2 DEF Flattening
<1>4. f[n] = g[n]
  <2>1. n \in 1 .. n /\ n <= n + 1 /\ n \in Nat /\ n + 1 \in Nat OBVIOUS
  <2>2. QED BY <2>1, <1>1, <1>2, FlatteningAgrees
<1>5. QED BY <1>1, <1>2, <1>3, <1>4

LEMMA FlattenOne ==
  ASSUME NEW seqs
  PROVE  FlattenSeq(Pieces(seqs, 1)) = seqs[1]
<1>1. PICK f : Flattening(f, seqs, 1) /\ FlattenSeq(Pieces(seqs, 1)) = f[1]
  BY FlattenedBy
<1>2. QED BY <1>1 DEF Flattening

LEMMA FlattenNone ==
  ASSUME NEW seqs
  PROVE  FlattenSeq(Pieces(seqs, 0)) = <<>>
<1>1. Pieces(seqs, 0) = <<>> BY DEF Pieces
<1>2. QED BY <1>1 DEF FlattenSeq

(* What is put together from sequences over a set is one.                  *)
LEMMA FlattenTyped ==
  ASSUME NEW seqs, NEW n \in Nat, NEW Items, \A i \in 1 .. n : seqs[i] \in Seq(Items)
  PROVE  FlattenSeq(Pieces(seqs, n)) \in Seq(Items)
<1> DEFINE T == {m \in Nat : m <= n => FlattenSeq(Pieces(seqs, m)) \in Seq(Items)}
<1>1. 0 \in T
  <2>1. <<>> \in Seq(Items) BY EmptySeq
  <2>2. FlattenSeq(Pieces(seqs, 0)) \in Seq(Items) BY <2>1, FlattenNone
  <2>3. QED BY <2>2
<1>2. ASSUME NEW m \in 0 .. n - 1, m \in T PROVE m + 1 \in T
  <2>1. m + 1 <= n /\ m <= n /\ m + 1 \in 1 .. n /\ m \in Nat OBVIOUS
  <2>2. FlattenSeq(Pieces(seqs, m)) \in Seq(Items) BY <2>1, <1>2
  <2>3. seqs[m + 1] \in Seq(Items) BY <2>1
  <2>4. CASE m = 0
    <3>1. FlattenSeq(Pieces(seqs, m + 1)) = seqs[m + 1] BY <2>4, FlattenOne
    <3>2. QED BY <2>3, <3>1
  <2>5. CASE m # 0
    <3>1. FlattenSeq(Pieces(seqs, m + 1)) = FlattenSeq(Pieces(seqs, m)) \o seqs[m + 1]
      BY <2>1, <2>5, FlattenOneMore
    <3>2. FlattenSeq(Pieces(seqs, m)) \o seqs[m + 1] \in Seq(Items)
      BY <2>2, <2>3, ConcatProperties
    <3>3. FlattenSeq(Pieces(seqs, m + 1)) \in Seq(Items) BY ONLY <3>1, <3>2
    <3>4. QED BY <3>3, <2>1
  <2>6. QED BY <2>4, <2>5
<1> HIDE DEF T
<1>3. n \in T BY <1>1, <1>2, SetInduction
<1>4. QED BY <1>3 DEF T

(* What is left of a sequence without its first n members.                 *)
LEMMA Remainder ==
  ASSUME NEW Items, NEW s \in Seq(Items), NEW n \in Nat
  PROVE  /\ SubSeq(s, n + 1, Len(s)) \in Seq(Items)
         /\ Len(SubSeq(s, n + 1, Len(s))) = IF n <= Len(s) THEN Len(s) - n ELSE 0
         /\ \A i \in 1 .. Len(SubSeq(s, n + 1, Len(s))) : SubSeq(s, n + 1, Len(s))[i] = s[n + i]
<1>1. Len(s) \in Nat /\ \A i \in n + 1 .. Len(s) : s[i] \in Items
  BY LenProperties, ElementOfSeq
<1>2. /\ SubSeq(s, n + 1, Len(s)) \in Seq(Items)
      /\ Len(SubSeq(s, n + 1, Len(s))) = IF n + 1 <= Len(s) THEN Len(s) - (n + 1) + 1 ELSE 0
      /\ \A i \in 1 .. Len(s) - (n + 1) + 1 : SubSeq(s, n + 1, Len(s))[i] = s[(n + 1) + i - 1]
  BY <1>1, SubSeqProperties
<1>3. \A i \in Int : (n + 1) + i - 1 = n + i OBVIOUS
<1>4. QED BY <1>1, <1>2, <1>3

(* Taking one more.                                                        *)
LEMMA TailOfRemainder ==
  ASSUME NEW Items, NEW s \in Seq(Items), NEW n \in 0 .. Len(s), SubSeq(s, n + 1, Len(s)) # <<>>
  PROVE  /\ n + 1 <= Len(s) /\ Head(SubSeq(s, n + 1, Len(s))) = s[n + 1]
         /\ Tail(SubSeq(s, n + 1, Len(s))) = SubSeq(s, (n + 1) + 1, Len(s))
<1> DEFINE u == SubSeq(s, n + 1, Len(s))
           v == SubSeq(s, (n + 1) + 1, Len(s))
<1>1. n \in Nat /\ n <= Len(s) /\ n + 1 \in Nat /\ Len(s) \in Nat
  OBVIOUS
<1>2. /\ u \in Seq(Items) /\ Len(u) = Len(s) - n
      /\ \A i \in 1 .. Len(u) : u[i] = s[n + i]
  BY <1>1, Remainder
<1>3. u # <<>>
  OBVIOUS
<1> HIDE DEF u
<1>4. Len(u) >= 1 /\ n + 1 <= Len(s) /\ Head(u) = s[n + 1]
  BY <1>1, <1>2, <1>3
<1>5. /\ v \in Seq(Items) /\ Len(v) = Len(s) - (n + 1)
      /\ \A i \in 1 .. Len(v) : v[i] = s[(n + 1) + i]
  <2>1. /\ v \in Seq(Items) /\ Len(v) = IF n + 1 <= Len(s) THEN Len(s) - (n + 1) ELSE 0
        /\ \A i \in 1 .. Len(v) : v[i] = s[(n + 1) + i]
    BY <1>1, Remainder
  <2> HIDE DEF v
  <2> QED
    BY <1>4, <2>1
<1> HIDE DEF v
<1>6. /\ Tail(u) \in Seq(Items) /\ Len(Tail(u)) = Len(u) - 1
      /\ \A i \in 1 .. Len(u) - 1 : Tail(u)[i] = u[i + 1]
  BY <1>2, <1>3, HeadTailProperties
<1>7. Len(Tail(u)) = Len(v) /\ \A i \in 1 .. Len(v) : Tail(u)[i] = v[i]
  BY <1>1, <1>2, <1>4, <1>5, <1>6
<1>8. Tail(u) = v
  BY <1>5, <1>6, <1>7, SeqEqual
<1> QED
  BY <1>4, <1>8 DEF u, v

(* Taking n members from two sequences is taking them from the first one   *)
(* and, if it has not got as many, the others from the second one.         *)
LEMMA RemainderOfTwo ==
  ASSUME NEW Items, NEW s \in Seq(Items), NEW t \in Seq(Items), NEW n \in Nat
  PROVE  SubSeq(s \o t, n + 1, Len(s \o t))
           = SubSeq(s, n + 1, Len(s))
               \o (IF n <= Len(s) THEN t ELSE SubSeq(t, n - Len(s) + 1, Len(t)))
<1> DEFINE l == SubSeq(s \o t, n + 1, Len(s \o t))
           r == SubSeq(s, n + 1, Len(s))
           u == IF n <= Len(s) THEN t ELSE SubSeq(t, n - Len(s) + 1, Len(t))
<1>1. /\ s \o t \in Seq(Items) /\ Len(s \o t) = Len(s) + Len(t)
      /\ \A i \in 1 .. Len(s) + Len(t) : (s \o t)[i] = IF i <= Len(s) THEN s[i] ELSE t[i - Len(s)]
  BY ConcatProperties
<1>2. Len(s) \in Nat /\ Len(t) \in Nat
  BY LenProperties
<1>3. /\ l \in Seq(Items)
      /\ Len(l) = IF n <= Len(s) + Len(t) THEN Len(s) + Len(t) - n ELSE 0
      /\ \A i \in 1 .. Len(l) : l[i] = (s \o t)[n + i]
  <2> DEFINE c == s \o t
  <2>1. c \in Seq(Items) /\ Len(c) = Len(s) + Len(t) BY <1>1
  <2> HIDE DEF c
  <2>2. /\ SubSeq(c, n + 1, Len(c)) \in Seq(Items)
        /\ Len(SubSeq(c, n + 1, Len(c))) = IF n <= Len(c) THEN Len(c) - n ELSE 0
        /\ \A i \in 1 .. Len(SubSeq(c, n + 1, Len(c))) : SubSeq(c, n + 1, Len(c))[i] = c[n + i]
    BY <2>1, Remainder
  <2>3. QED BY <2>1, <2>2 DEF c
<1>4. /\ r \in Seq(Items)
      /\ Len(r) = IF n <= Len(s) THEN Len(s) - n ELSE 0
      /\ \A i \in 1 .. Len(r) : r[i] = s[n + i]
  BY Remainder
<1>5. n > Len(s) => /\ u \in Seq(Items)
                    /\ Len(u) = IF n - Len(s) <= Len(t) THEN Len(t) - (n - Len(s)) ELSE 0
                    /\ \A i \in 1 .. Len(u) : u[i] = t[(n - Len(s)) + i]
  <2> HIDE DEF u
  <2>1. HAVE n > Len(s)
  <2> DEFINE k == n - Len(s)
  <2>2. k \in Nat /\ ~(n <= Len(s)) BY <1>2, <2>1
  <2>3. u = SubSeq(t, k + 1, Len(t)) BY <2>2 DEF u
  <2> HIDE DEF k
  <2>4. /\ SubSeq(t, k + 1, Len(t)) \in Seq(Items)
        /\ Len(SubSeq(t, k + 1, Len(t))) = IF k <= Len(t) THEN Len(t) - k ELSE 0
        /\ \A i \in 1 .. Len(SubSeq(t, k + 1, Len(t))) : SubSeq(t, k + 1, Len(t))[i] = t[k + i]
    BY <2>2, Remainder
  <2>5. QED BY <2>3, <2>4 DEF k
<1>6. n <= Len(s) => u = t OBVIOUS
<1> HIDE DEF l, r, u
<1>7. u \in Seq(Items) /\ Len(u) \in Nat /\ Len(l) \in Nat /\ Len(r) \in Nat
  BY <1>2, <1>3, <1>4, <1>5, <1>6, LenProperties
<1>8. /\ r \o u \in Seq(Items) /\ Len(r \o u) = Len(r) + Len(u)
      /\ \A i \in 1 .. Len(r) + Len(u) : (r \o u)[i] = IF i <= Len(r) THEN r[i] ELSE u[i - Len(r)]
  BY <1>4, <1>7, ConcatProperties
<1>9. Len(l) = Len(r) + Len(u)
  <2>1. CASE n > Len(s) BY <2>1, <1>2, <1>3, <1>4, <1>5
  <2>2. CASE n <= Len(s) BY <2>2, <1>2, <1>3, <1>4, <1>6
  <2>3. QED BY <2>1, <2>2, <1>2
<1>10. ASSUME NEW i \in 1 .. Len(l) PROVE l[i] = (r \o u)[i]
  <2>1. i \in Nat /\ l[i] = (s \o t)[n + i] /\ n + i \in 1 .. Len(s) + Len(t)
    BY <1>2, <1>3
  <2>2. l[i] = IF n + i <= Len(s) THEN s[n + i] ELSE t[n + i - Len(s)]
    BY <2>1, <1>1
  <2>3. (r \o u)[i] = IF i <= Len(r) THEN r[i] ELSE u[i - Len(r)]
    BY <1>7, <1>8, <1>9
  <2>4. CASE n > Len(s)
    <3>1. Len(r) = 0 /\ ~(n + i <= Len(s)) /\ i - Len(r) = i /\ i \in 1 .. Len(u)
      BY <2>4, <1>2, <1>4, <1>9, <1>8, <1>7
    <3>2. u[i] = t[(n - Len(s)) + i] BY <3>1, <1>5, <2>4
    <3>3. (n - Len(s)) + i = n + i - Len(s) BY <1>2
    <3>4. ~(i <= Len(r)) BY <3>1
    <3>5. QED BY <3>1, <3>2, <3>3, <3>4, <2>2, <2>3
  <2>5. CASE n <= Len(s)
    <3>1. Len(r) = Len(s) - n /\ u = t BY <2>5, <1>4, <1>6
    <3>2. CASE i <= Len(r)
      <4>1. n + i <= Len(s) /\ i \in 1 .. Len(r) BY <3>1, <3>2, <1>2
      <4>2. QED BY <4>1, <2>2, <2>3, <1>4
    <3>3. CASE ~(i <= Len(r))
      <4>1. ~(n + i <= Len(s)) /\ i - Len(r) = n + i - Len(s) BY <3>1, <3>3, <1>2
      <4>2. QED BY <4>1, <3>1, <3>3, <2>2, <2>3
    <3>4. QED BY <3>2, <3>3
  <2>6. n > Len(s) \/ n <= Len(s) BY <1>2
  <2>7. QED BY <2>4, <2>5, <2>6
<1>11. l = r \o u
  BY <1>3, <1>8, <1>9, <1>10, SeqEqual
<1>12. QED BY <1>11 DEF l, r, u

LEMMA Associative ==
  ASSUME NEW Items, NEW s \in Seq(Items), NEW t \in Seq(Items), NEW u \in Seq(Items)
  PROVE  (s \o t) \o u = s \o (t \o u)
  BY ConcatAssociative

LEMMA SubSeqTyped ==
  ASSUME NEW Items, NEW s \in Seq(Items), NEW m \in Nat, m >= 1, NEW n \in Nat, n <= Len(s)
  PROVE  SubSeq(s, m, n) \in Seq(Items)
<1>1. \A i \in 1 .. Len(s) : s[i] \in Items
  BY ElementOfSeq
<1> QED
  BY <1>1

LEMMA FirstOnes ==
  ASSUME NEW Items, NEW s \in Seq(Items), NEW n \in Nat, n <= Len(s)
  PROVE  /\ SubSeq(s, 1, n) \in Seq(Items) /\ Len(SubSeq(s, 1, n)) = n
         /\ \A i \in 1 .. n : SubSeq(s, 1, n)[i] = s[i]
<1>1. \A i \in 1 .. n : s[i] \in Items
  BY LenProperties, ElementOfSeq
<1>2. /\ SubSeq(s, 1, n) \in Seq(Items)
      /\ Len(SubSeq(s, 1, n)) = IF 1 <= n THEN n - 1 + 1 ELSE 0
      /\ \A i \in 1 .. n - 1 + 1 : SubSeq(s, 1, n)[i] = s[1 + i - 1]
  BY <1>1, SubSeqProperties
<1>3. n - 1 + 1 = n /\ \A i \in Int : 1 + i - 1 = i OBVIOUS
<1>4. QED BY <1>2, <1>3

-----------------------------------------------------------------------------
(* Types.                                                                  *)
Unlocking == {"names", "seed", "key"}
TransferOps == {"push", "flash_program", "fetch", "verify"}
ByteOrders == {"none", "INTEL", "MOTOROLA"}
Limits == {Unknown} \cup (Nat \ {0})
Ctos == {Unknown} \cup 4 .. ByteMax
PropsType ==
  [order : ByteOrders, packers : ByteOrders, bytes : {1, 2, 4}, maxCto : Ctos, slaveBlock : BOOLEAN,
   masterBlock : BOOLEAN, maxBs : Limits, pgmBlock : BOOLEAN, pgmMaxBs : Limits,
   pgmMaxCto : Ctos, supports : SUBSET Resources, protection : SUBSET SUBSET Resources]
ErrorCodes ==
  {"none", "OUT_OF_RANGE", "SEQUENCE", "ACCESS_LOCKED", "ACCESS_DENIED", "CMD_UNKNOWN"}
ResourceNames == STRING \cup Resources
Answers ==
  [error : ErrorCodes, size : Nat, data : Seq(Int), dev : Devices, locked : SUBSET Resources]
Slaves ==
  [dev : Devices, connected : BOOLEAN, mta : Nat, memory : [Memory -> Int], block : Nat,
   locked : SUBSET Resources, asked : SUBSET Resources, seedLeft : Nat,
   keyGot : 0 .. KeyLength]
Downloads == {"download", "downloadNext", "program", "programNext"}
Chunks ==
  {p \in [service : Downloads \cup {"setMta", "buildChecksum", "upload"}, length : Nat,
          from : Nat, count : 0 .. ByteMax, wait : BOOLEAN, name : {"none"}] :
     p.service \in Downloads => p.count <= p.length}
Remembering ==
  [op : TransferOps, at : Nat, n : Nat, limit : Nat, names : Seq(STRING), key : Keys,
   before : [Memory -> Int], mta : Nat]

SlaveType == slave \in Slaves /\ slave.locked \subseteq slave.dev.protects
TypedProps(v) ==
  /\ v \in PropsType /\ v.order = v.packers
  /\ v.protection = {} \/ \E s \in SUBSET Resources : v.protection = {s}
  /\ v.pgmMaxBs # Unknown => v.pgmMaxCto # Unknown
PropsTyped == TypedProps(props)
ChannelType == resQueue \in Seq(Answers) /\ wire \in Seq(Answers)
(* Until connect() has been answered nothing else is called.               *)
ConnectsFirst ==
  \/ pc \in Exceptions \/ props.maxCto # Unknown
  \/ pc = "idle" /\ (script = <<>> \/ Head(script).op = "connect")
CallType ==
  /\ pc \in {"idle"} \cup Exceptions => call = NoCall
  /\ pc = "transfer" => call \in Remembering
  /\ pc \in Unlocking => call \in Calls
TodoType == todo \in Seq(Chunks) /\ (todo # <<>>) = (pc = "transfer")
UnlockType ==
  /\ names \in Seq(ResourceNames) /\ status \subseteq Resources
  /\ seed \in [bytes : Nat, remaining : Int] /\ keyLeft \in 0 .. KeyLength
  /\ pc \in {"seed", "key"} => names # <<>>
FaultsType == refusals \in 0 .. MaxRefusals /\ resets \in 0 .. MaxResets
ScriptType == script \in Seq(Calls)
PcType == pc \in {"idle", "transfer"} \cup Unlocking \cup Exceptions
DataType == got \in Seq(Int) /\ expected \in Seq(Int)
TypeInv ==
  /\ PcType /\ ScriptType /\ CallType /\ TodoType /\ DataType /\ UnlockType /\ PropsTyped
  /\ ChannelType /\ SlaveType /\ FaultsType /\ ConnectsFirst

-----------------------------------------------------------------------------
(* External: the slave stays well-typed whatever it is sent.               *)
PacketType(p) == p.length \in Nat /\ p.from \in Nat /\ p.count \in Nat
ReactionTyped(r) ==
  /\ r.slave \in Slaves /\ r.slave.locked \subseteq r.slave.dev.protects
  /\ r.slave.dev = slave.dev
  /\ r.answers \in Seq(Answers)
  /\ \A i \in 1 .. Len(r.answers) : r.answers[i].dev = slave.dev

LEMMA DeviceFacts ==
  ASSUME NEW v \in Devices
  PROVE  /\ v.order \in {"INTEL", "MOTOROLA"} /\ v.bytes \in {1, 2, 4}
         /\ v.maxCto \in 4 .. ByteMax /\ v.maxCto \in Nat /\ v.maxCto >= 4
         /\ v.maxBs \in Nat \ {0} /\ v.seed \in Nat \ {0}
         /\ v.slaveBlock \in BOOLEAN /\ v.masterBlock \in BOOLEAN /\ v.pgmBlock \in BOOLEAN
         /\ v.info \in BOOLEAN
         /\ v.supports \subseteq Resources /\ v.protects \subseteq Resources
<1>1. v \in DeviceFields /\ v.maxCto \in 4 .. ByteMax /\ v.maxBs >= 1 /\ v.seed >= 1
  BY DevicesAssumption
<1> QED
  BY <1>1, SessionBounds DEF DeviceFields

LEMMA SlaveFacts ==
  ASSUME SlaveType
  PROVE  /\ slave.dev \in Devices /\ slave.connected \in BOOLEAN /\ slave.mta \in Nat
         /\ slave.memory \in [Memory -> Int] /\ slave.block \in Nat
         /\ slave.locked \subseteq Resources /\ slave.asked \subseteq Resources
         /\ slave.seedLeft \in Nat /\ slave.keyGot \in 0 .. KeyLength
  BY DEF SlaveType, Slaves

LEMMA AnswerTyped ==
  ASSUME SlaveType
  PROVE  /\ Answer \in Answers /\ Answer.dev = slave.dev
         /\ \A e \in ErrorCodes : [Answer EXCEPT !.error = e] \in Answers
         /\ \A l \in SUBSET Resources : [Answer EXCEPT !.locked = l] \in Answers
         /\ \A n \in Nat : [Answer EXCEPT !.size = n] \in Answers
         /\ \A bytes \in Seq(Int) : [Answer EXCEPT !.data = bytes] \in Answers
<1>1. Answer = [error |-> "none", size |-> 0, data |-> <<>>, dev |-> slave.dev,
                locked |-> slave.locked]
  BY DEF Answer
<1>2. <<>> \in Seq(Int) /\ "none" \in ErrorCodes /\ 0 \in Nat
  BY DEF ErrorCodes
<1>3. slave.locked \in SUBSET Resources /\ slave.dev \in Devices
  BY SlaveFacts
<1>4. Answer \in Answers
  BY <1>1, <1>2, <1>3 DEF Answers
<1> QED
  BY <1>1, <1>4 DEF Answers

LEMMA OneAnswer ==
  ASSUME NEW a \in Answers, a.dev = slave.dev
  PROVE  <<a>> \in Seq(Answers) /\ \A i \in 1 .. Len(<<a>>) : <<a>>[i].dev = slave.dev
  OBVIOUS

LEMMA FailsTyped ==
  ASSUME SlaveType, NEW e \in ErrorCodes
  PROVE  ReactionTyped(Fails(e))
<1>1. [slave EXCEPT !.block = 0] \in Slaves
  BY DEF SlaveType, Slaves
<1>2. [Answer EXCEPT !.error = e] \in Answers /\ [Answer EXCEPT !.error = e].dev = slave.dev
  BY AnswerTyped DEF Answer
<1>3. [slave EXCEPT !.block = 0].locked = slave.locked /\ [slave EXCEPT !.block = 0].dev = slave.dev
  BY DEF SlaveType, Slaves
<1> QED
  BY <1>1, <1>2, <1>3, OneAnswer DEF Fails, ReactionTyped, SlaveType

LEMMA DoesTyped ==
  ASSUME SlaveType, NEW s \in Slaves, s.locked \subseteq s.dev.protects, s.dev = slave.dev
  PROVE  ReactionTyped(Does(s)) /\ ReactionTyped(Silent(s))
<1>1. [Answer EXCEPT !.locked = s.locked] \in Answers
  BY AnswerTyped DEF Slaves
<1>2. [Answer EXCEPT !.locked = s.locked].dev = slave.dev
  BY DEF Answer
<1>3. <<>> \in Seq(Answers) /\ Len(<<>>) = 0
  OBVIOUS
<1> DEFINE a == [Answer EXCEPT !.locked = s.locked]
<1> HIDE DEF a
<1>4. Does(s).slave = s /\ Does(s).answers = <<a>>
  BY DEF Does, a
<1>5. Silent(s).slave = s /\ Silent(s).answers = <<>>
  BY DEF Silent
<1>6. <<a>> \in Seq(Answers) /\ \A i \in 1 .. Len(<<a>>) : <<a>>[i].dev = slave.dev
  BY <1>1, <1>2, OneAnswer DEF a
<1> QED
  BY <1>3, <1>4, <1>5, <1>6 DEF ReactionTyped

LEMMA WrittenTyped ==
  ASSUME SlaveType, NEW p, PacketType(p), p.count <= p.length
  PROVE  /\ Written(p) \in Slaves /\ Written(p).locked = slave.locked
         /\ Written(p).dev = slave.dev
<1>1. p.length - p.count \in Nat /\ slave.mta + p.count \in Nat
  BY SlaveFacts DEF PacketType
<1> DEFINE m == [a \in Memory |-> IF a - slave.mta \in 0 .. p.count - 1
                                    THEN Value(p.from + a - slave.mta) ELSE slave.memory[a]]
<1>2. m \in [Memory -> Int]
  <2>1. \A a \in Memory : a \in Int
    BY SessionBounds
  <2>2. p.from \in Nat /\ slave.mta \in Nat
    BY SlaveFacts DEF PacketType
  <2>3. \A a \in Memory : Value(p.from + a - slave.mta) \in Int /\ slave.memory[a] \in Int
    BY <2>1, <2>2, SlaveFacts DEF Value
  <2> QED
    BY <2>3
<1>3. Written(p) = [slave EXCEPT !.memory = m, !.mta = slave.mta + p.count,
                                 !.block = p.length - p.count]
  BY DEF Written
<1> HIDE DEF m
<1> DEFINE k == slave.mta + p.count
           n == p.length - p.count
<1> HIDE DEF k, n
<1>4. [slave EXCEPT !.memory = m, !.mta = k, !.block = n] \in Slaves
  BY <1>1, <1>2 DEF SlaveType, Slaves, k, n
<1>5. Written(p) = [slave EXCEPT !.memory = m, !.mta = k, !.block = n]
  BY <1>3 DEF k, n
<1> QED
  BY <1>4, <1>5 DEF SlaveType, Slaves

LEMMA FirstTyped ==
  ASSUME SlaveType, NEW p, PacketType(p), p.count <= p.length
  PROVE  ReactionTyped(First(p)) /\ ReactionTyped(Next_(p))
<1>1. ReactionTyped(Does(Written(p))) /\ ReactionTyped(Silent(Written(p)))
  BY WrittenTyped, DoesTyped DEF SlaveType
<1>2. ReactionTyped(Fails("SEQUENCE")) /\ ReactionTyped(Fails("OUT_OF_RANGE"))
  BY FailsTyped DEF ErrorCodes
<1> QED
  BY <1>1, <1>2 DEF First, Next_

LEMMA ElementsTyped ==
  ASSUME SlaveType, NEW n \in Nat, slave.mta + n <= Cardinality(Memory)
  PROVE  Elements(slave.mta, n) \in Seq(Int) /\ Len(Elements(slave.mta, n)) = n
<1>1. \A i \in 1 .. n : slave.mta + i - 1 \in Memory
  BY SlaveFacts, SessionBounds
<1>2. \A i \in 1 .. n : slave.memory[slave.mta + i - 1] \in Int
  BY <1>1, SlaveFacts
<1>3. Elements(slave.mta, n) \in [1 .. n -> Int]
  BY <1>2 DEF Elements
<1> QED
  BY <1>3

LEMMA UploadedTyped ==
  ASSUME SlaveType, NEW p, PacketType(p)
  PROVE  ReactionTyped(Uploaded(p))
<1> DEFINE elements == Elements(slave.mta, p.length)
           size == slave.dev.bytes
           sent == Bytes(elements, size)
           payload == slave.dev.maxCto - 1
           parts == (Len(sent) + payload - 1) \div payload
           part(i) == SubSeq(sent, (i - 1) * payload + 1, LeastOf(i * payload, Len(sent)))
<1> SUFFICES ASSUME ~(slave.mta + p.length > Cardinality(Memory)), ~(parts > 1 /\ ~slave.dev.slaveBlock)
             PROVE  ReactionTyped([slave |-> [slave EXCEPT !.mta = @ + p.length],
                                   answers |-> [i \in 1 .. parts |-> [Answer EXCEPT !.data = part(i)]]])
  BY FailsTyped DEF Uploaded, ErrorCodes
<1>1. elements \in Seq(Int) /\ Len(elements) = p.length /\ p.length \in Nat
  BY ElementsTyped, SlaveFacts, SessionBounds DEF PacketType
<1>2. size \in {1, 2, 4} /\ payload \in Nat \ {0}
  BY DeviceFacts, SlaveFacts
<1> HIDE DEF elements, size, payload
<1>3. sent \in Seq(Int) /\ Len(sent) \in Nat
  <2>1. \A i \in 1 .. Len(elements) * size : (i - 1) \div size + 1 \in 1 .. Len(elements)
    <3>1. CASE size = 1
      BY <3>1, <1>1
    <3>2. CASE size = 2
      BY <3>2, <1>1
    <3>3. CASE size = 4
      BY <3>3, <1>1
    <3> QED
      BY <3>1, <3>2, <3>3, <1>2
  <2>2. \A i \in 1 .. Len(elements) * size : elements[(i - 1) \div size + 1] \in Int
    BY <2>1, <1>1, ElementOfSeq
  <2>3. sent \in [1 .. Len(elements) * size -> Int] /\ Len(elements) * size \in Nat
    BY <2>2, <1>1, <1>2 DEF Bytes
  <2> QED
    BY <2>3
<1> HIDE DEF sent
<1>4. parts \in Nat
  BY <1>2, <1>3
<1> HIDE DEF parts
<1>5. ASSUME NEW i \in 1 .. parts PROVE part(i) \in Seq(Int)
  <2>1. (i - 1) * payload \in Nat /\ i * payload \in Nat
    BY <1>2, <1>4
  <2>2. (i - 1) * payload + 1 \in 1 .. (i - 1) * payload + 1
    BY <2>1
  <2>3. LeastOf(i * payload, Len(sent)) \in Nat /\ LeastOf(i * payload, Len(sent)) <= Len(sent)
    BY <2>1, <1>3 DEF LeastOf
  <2> DEFINE m == (i - 1) * payload + 1
             n == LeastOf(i * payload, Len(sent))
  <2>4. m \in Nat /\ m >= 1 /\ n \in Nat /\ n <= Len(sent)
    BY <2>1, <2>3
  <2> HIDE DEF m, n
  <2>5. SubSeq(sent, m, n) \in Seq(Int)
    BY <2>4, <1>3, SubSeqTyped
  <2> QED
    BY <2>5 DEF m, n
<1> DEFINE answers == [i \in 1 .. parts |-> [Answer EXCEPT !.data = part(i)]]
<1>6. answers \in [1 .. parts -> Answers] /\ \A i \in 1 .. parts : answers[i].dev = slave.dev
  <2>1. \A i \in 1 .. parts : [Answer EXCEPT !.data = part(i)] \in Answers
    BY <1>5, AnswerTyped
  <2>2. \A i \in 1 .. parts : [Answer EXCEPT !.data = part(i)].dev = slave.dev
    BY DEF Answer
  <2> QED
    BY <2>1, <2>2
<1> HIDE DEF answers
<1>7. answers \in Seq(Answers) /\ Len(answers) = parts
  BY <1>4, <1>6
<1> DEFINE k == slave.mta + p.length
<1>8. k \in Nat
  BY <1>1, SlaveFacts
<1> HIDE DEF k
<1>9. [slave EXCEPT !.mta = k] \in Slaves /\ [slave EXCEPT !.mta = k].locked = slave.locked
        /\ [slave EXCEPT !.mta = k].dev = slave.dev
  BY <1>8 DEF SlaveType, Slaves
<1>10. ReactionTyped([slave |-> [slave EXCEPT !.mta = k], answers |-> answers])
  BY <1>6, <1>7, <1>9 DEF ReactionTyped, SlaveType
<1> QED
  BY <1>10 DEF k, answers

LEMMA SeedPartTyped ==
  ASSUME SlaveType, NEW s \in Slaves, s.locked \subseteq s.dev.protects, s.dev = slave.dev
  PROVE  ReactionTyped(SeedPart(s))
<1> DEFINE rest == s.seedLeft - LeastOf(s.seedLeft, slave.dev.maxCto - 2)
           a == [Answer EXCEPT !.size = s.seedLeft]
<1>1. rest \in Nat
  BY DeviceFacts, SlaveFacts DEF LeastOf, Slaves
<1>2. a \in Answers /\ a.dev = slave.dev
  BY AnswerTyped DEF Answer, Slaves
<1>3. SeedPart(s) = [slave |-> [s EXCEPT !.seedLeft = rest], answers |-> <<a>>]
  BY DEF SeedPart, Slaves
<1> HIDE DEF rest, a
<1>4. /\ [s EXCEPT !.seedLeft = rest] \in Slaves
      /\ [s EXCEPT !.seedLeft = rest].locked = s.locked
      /\ [s EXCEPT !.seedLeft = rest].dev = s.dev
  BY <1>1 DEF Slaves
<1>5. SeedPart(s).slave = [s EXCEPT !.seedLeft = rest] /\ SeedPart(s).answers = <<a>>
  BY <1>3
<1>6. <<a>> \in Seq(Answers) /\ \A i \in 1 .. Len(<<a>>) : <<a>>[i].dev = slave.dev
  BY <1>2, OneAnswer
<1> QED
  BY <1>4, <1>5, <1>6 DEF ReactionTyped

LEMMA SeedTyped ==
  ASSUME SlaveType, NEW p, PacketType(p)
  PROVE  ReactionTyped(Seed(p))
<1>1. ReactionTyped(Fails("SEQUENCE"))
  BY FailsTyped DEF ErrorCodes
<1>2. ReactionTyped(SeedPart(slave))
  BY SeedPartTyped DEF SlaveType
<1>3. ReactionTyped(SeedPart([slave EXCEPT !.asked = {}, !.seedLeft = 0]))
  <2> DEFINE s == [slave EXCEPT !.asked = {}, !.seedLeft = 0]
  <2>1. s \in Slaves /\ s.locked = slave.locked /\ s.dev = slave.dev
    BY DEF SlaveType, Slaves
  <2> HIDE DEF s
  <2>2. ReactionTyped(SeedPart(s))
    BY <2>1, SeedPartTyped DEF SlaveType
  <2> QED
    BY <2>2 DEF s
<1>4. ASSUME p.name \in slave.locked
      PROVE  ReactionTyped(SeedPart([slave EXCEPT !.asked = {p.name}, !.seedLeft = slave.dev.seed,
                                                  !.keyGot = 0]))
  <2> DEFINE s == [slave EXCEPT !.asked = {p.name}, !.seedLeft = slave.dev.seed, !.keyGot = 0]
  <2>1. {p.name} \subseteq Resources /\ slave.dev.seed \in Nat /\ 0 \in 0 .. KeyLength
    BY <1>4, SlaveFacts, DeviceFacts, SessionBounds
  <2>2. s \in Slaves /\ s.locked = slave.locked /\ s.dev = slave.dev
    BY <2>1 DEF SlaveType, Slaves
  <2> HIDE DEF s
  <2>3. ReactionTyped(SeedPart(s))
    BY <2>2, SeedPartTyped DEF SlaveType
  <2> QED
    BY <2>3 DEF s
<1> QED
  BY <1>1, <1>2, <1>3, <1>4 DEF Seed

LEMMA KeyTyped ==
  ASSUME SlaveType, NEW p, PacketType(p)
  PROVE  ReactionTyped(Key(p))
<1> DEFINE total == slave.keyGot + p.count
<1>1. ReactionTyped(Fails("SEQUENCE")) /\ ReactionTyped(Fails("ACCESS_LOCKED"))
  BY FailsTyped DEF ErrorCodes
<1>2. ASSUME total < KeyLength PROVE ReactionTyped(Does([slave EXCEPT !.keyGot = total]))
  <2>1. total \in 0 .. KeyLength
    BY <1>2, SlaveFacts, SessionBounds DEF PacketType
  <2> HIDE DEF total
  <2> DEFINE s == [slave EXCEPT !.keyGot = total]
  <2>2. s \in Slaves /\ s.locked = slave.locked /\ s.dev = slave.dev
    BY <2>1 DEF SlaveType, Slaves
  <2> HIDE DEF s
  <2>3. ReactionTyped(Does(s))
    BY <2>2, DoesTyped DEF SlaveType
  <2> QED
    BY <2>3 DEF s
<1>3. ReactionTyped(Does([slave EXCEPT !.locked = @ \ slave.asked, !.asked = {}, !.keyGot = 0]))
  <2> DEFINE l == slave.locked \ slave.asked
             s == [slave EXCEPT !.locked = l, !.asked = {}, !.keyGot = 0]
  <2>1. l \subseteq Resources /\ l \subseteq slave.dev.protects /\ 0 \in 0 .. KeyLength
    BY SlaveFacts, SessionBounds DEF SlaveType
  <2> HIDE DEF l
  <2>2. s \in Slaves /\ s.locked = l /\ s.dev = slave.dev
    BY <2>1 DEF SlaveType, Slaves
  <2> HIDE DEF s
  <2>3. ReactionTyped(Does(s))
    BY <2>1, <2>2, DoesTyped
  <2> QED
    BY <2>3 DEF s, l, SlaveType, Slaves
<1>4. ReactionTyped([Fails("ACCESS_LOCKED") EXCEPT !.slave.connected = FALSE])
  <2> DEFINE f == Fails("ACCESS_LOCKED")
             s == [f.slave EXCEPT !.connected = FALSE]
  <2>1. [f EXCEPT !.slave.connected = FALSE] = [slave |-> s, answers |-> f.answers]
    BY DEF Fails
  <2> HIDE DEF f
  <2>2. s \in Slaves /\ s.locked = f.slave.locked /\ s.dev = f.slave.dev
    BY <1>1 DEF ReactionTyped, Slaves, f
  <2> HIDE DEF s
  <2>3. ReactionTyped([slave |-> s, answers |-> f.answers])
    BY <1>1, <2>2 DEF ReactionTyped, f
  <2> QED
    BY <2>1, <2>3 DEF f, s
<1> QED
  BY <1>1, <1>2, <1>3, <1>4 DEF Key

LEMMA ChecksumTyped ==
  ASSUME SlaveType, NEW p, PacketType(p), ~(slave.mta + p.length > Cardinality(Memory))
  PROVE  ReactionTyped([slave |-> [slave EXCEPT !.mta = @ + p.length],
                        answers |-> <<[Answer EXCEPT !.data = Elements(slave.mta, p.length)]>>])
<1> DEFINE k == slave.mta + p.length
           sum == Elements(slave.mta, p.length)
           a == [Answer EXCEPT !.data = sum]
<1>1. k \in Nat /\ sum \in Seq(Int)
  BY ElementsTyped, SlaveFacts, SessionBounds DEF PacketType
<1> HIDE DEF k, sum
<1>2. a \in Answers /\ a.dev = slave.dev
  BY <1>1, AnswerTyped DEF Answer
<1> HIDE DEF a
<1>3. [slave EXCEPT !.mta = k] \in Slaves /\ [slave EXCEPT !.mta = k].locked = slave.locked
        /\ [slave EXCEPT !.mta = k].dev = slave.dev
  BY <1>1 DEF SlaveType, Slaves
<1>4. ReactionTyped([slave |-> [slave EXCEPT !.mta = k], answers |-> <<a>>])
  BY <1>2, <1>3, OneAnswer DEF ReactionTyped, SlaveType
<1> QED
  BY <1>4 DEF a, sum, k

LEMMA ExecutedTyped ==
  ASSUME SlaveType, NEW p, PacketType(p), p.service \in Downloads => p.count <= p.length
  PROVE  ReactionTyped(Executed(p))
<1>1. ReactionTyped(Does(slave)) /\ ReactionTyped(Silent(slave))
  BY DoesTyped DEF SlaveType
<1>2. ReactionTyped(Does([slave EXCEPT !.connected = TRUE, !.block = 0]))
  <2> DEFINE s == [slave EXCEPT !.connected = TRUE, !.block = 0]
  <2>1. s \in Slaves /\ s.locked = slave.locked /\ s.dev = slave.dev
    BY DEF SlaveType, Slaves
  <2> HIDE DEF s
  <2>2. ReactionTyped(Does(s))
    BY <2>1, DoesTyped DEF SlaveType
  <2> QED
    BY <2>2 DEF s
<1>3. ReactionTyped(Does([slave EXCEPT !.connected = FALSE, !.locked = slave.dev.protects]))
  <2> DEFINE s == [slave EXCEPT !.connected = FALSE, !.locked = slave.dev.protects]
  <2>0. slave.dev.protects \subseteq Resources
    BY SlaveFacts, DeviceFacts
  <2>1. s \in Slaves /\ s.locked = slave.dev.protects /\ s.dev = slave.dev
    BY <2>0 DEF SlaveType, Slaves
  <2> HIDE DEF s
  <2>2. ReactionTyped(Does(s))
    BY <2>1, DoesTyped DEF SlaveType
  <2> QED
    BY <2>2 DEF s
<1>4. ReactionTyped(Does([slave EXCEPT !.mta = p.from]))
  <2> DEFINE s == [slave EXCEPT !.mta = p.from]
  <2>1. s \in Slaves /\ s.locked = slave.locked /\ s.dev = slave.dev
    BY DEF SlaveType, Slaves, PacketType
  <2> HIDE DEF s
  <2>2. ReactionTyped(Does(s))
    BY <2>1, DoesTyped DEF SlaveType
  <2> QED
    BY <2>2 DEF s
<1>5. ReactionTyped(Fails("CMD_UNKNOWN")) /\ ReactionTyped(Fails("OUT_OF_RANGE"))
  BY FailsTyped DEF ErrorCodes
<1>6. p.service \in Downloads => ReactionTyped(First(p)) /\ ReactionTyped(Next_(p))
  BY FirstTyped
<1> QED
  BY <1>1, <1>2, <1>3, <1>4, <1>5, <1>6, ChecksumTyped, UploadedTyped, SeedTyped, KeyTyped
     DEF Executed, Downloads

LEMMA ReactionsTyped ==
  ASSUME SlaveType, FaultsType, NEW p, PacketType(p), p.service \in Downloads => p.count <= p.length,
         NEW r \in Reactions(p)
  PROVE  ReactionTyped(r) /\ refusals + r.refused \in 0 .. MaxRefusals
<1>1. CASE r = Reaction(Executed(p), 0)
  BY <1>1, ExecutedTyped DEF Reaction, ReactionTyped, FaultsType
<1>2. CASE r = Reaction(Fails("ACCESS_DENIED"), 1) /\ refusals < MaxRefusals
  <2>1. ReactionTyped(Fails("ACCESS_DENIED"))
    BY FailsTyped DEF ErrorCodes
  <2> QED
    BY <1>2, <2>1, SessionBounds DEF Reaction, ReactionTyped, FaultsType
<1> QED
  BY <1>1, <1>2 DEF Reactions

-----------------------------------------------------------------------------
(* What a request leaves in the channel: the answers that waited and those *)
(* that came, without the ones it took.                                    *)
Waiting == resQueue \o wire

LEMMA TailTyped ==
  ASSUME NEW Items, NEW s \in Seq(Items), s # <<>>
  PROVE  Tail(s) \in Seq(Items) /\ Head(s) \in Items /\ Len(Tail(s)) = Len(s) - 1
  OBVIOUS

LEMMA AskTyped ==
  ASSUME ChannelType, SlaveType, FaultsType, NEW p, PacketType(p),
         p.service \in Downloads => p.count <= p.length,
         NEW r \in Reactions(p), NEW n \in Nat, Ask(p, r, n)
  PROVE  /\ ChannelType' /\ SlaveType' /\ refusals' \in 0 .. MaxRefusals
         /\ Answered(r) \in Seq(Answers)
         /\ Waiting' = Without(Answered(r), n)
<1>1. ReactionTyped(r) /\ refusals + r.refused \in 0 .. MaxRefusals
  BY ReactionsTyped
<1>2. slave' = r.slave /\ refusals' = refusals + r.refused
  BY DEF Ask
<1> DEFINE new == wire \o r.answers
<1>3. new \in Seq(Answers) /\ resQueue \in Seq(Answers) /\ Len(resQueue) \in Nat
  BY <1>1 DEF ChannelType, ReactionTyped
<1>4. Answered(r) = resQueue \o new
  <2>1. resQueue \in Seq(Answers) /\ wire \in Seq(Answers) /\ r.answers \in Seq(Answers)
    BY <1>1 DEF ChannelType, ReactionTyped
  <2>2. \A s, t, u \in Seq(Answers) : (s \o t) \o u = s \o (t \o u)
    BY Associative
  <2>3. (resQueue \o wire) \o r.answers = resQueue \o (wire \o r.answers)
    BY <2>1, <2>2, Zenon
  <2> QED
    BY <2>3 DEF Answered
<1>5. /\ resQueue' = SubSeq(resQueue, n + 1, Len(resQueue))
      /\ wire' = IF n <= Len(resQueue) THEN new
                 ELSE SubSeq(new, n - Len(resQueue) + 1, Len(new))
  BY DEF Ask, Without
<1> HIDE DEF new
<1>6. resQueue' \in Seq(Answers)
  BY <1>3, <1>5, Remainder
<1>7. wire' \in Seq(Answers)
  <2>1. CASE n <= Len(resQueue)
    BY <2>1, <1>3, <1>5
  <2>2. CASE ~(n <= Len(resQueue))
    <3> DEFINE k == n - Len(resQueue)
    <3>1. k \in Nat
      BY <2>2, <1>3
    <3> HIDE DEF k
    <3>2. SubSeq(new, k + 1, Len(new)) \in Seq(Answers)
      BY <3>1, <1>3, Remainder
    <3> QED
      BY <3>2, <2>2, <1>5 DEF k
  <2> QED
    BY <2>1, <2>2
<1>8. Waiting' = Without(Answered(r), n)
  <2>1. SubSeq(resQueue \o new, n + 1, Len(resQueue \o new))
          = SubSeq(resQueue, n + 1, Len(resQueue))
              \o (IF n <= Len(resQueue) THEN new
                  ELSE SubSeq(new, n - Len(resQueue) + 1, Len(new)))
    BY <1>3, RemainderOfTwo
  <2>2. Waiting' = resQueue' \o wire'
    BY DEF Waiting
  <2> QED
    BY <2>1, <2>2, <1>4, <1>5 DEF Without
<1>9. Answered(r) \in Seq(Answers)
  BY <1>3, <1>4
<1> QED
  BY <1>1, <1>2, <1>6, <1>7, <1>8, <1>9 DEF ChannelType, SlaveType, ReactionTyped

LEMMA LearnedTyped ==
  ASSUME PropsTyped, NEW service, NEW a \in Answers
  PROVE  /\ TypedProps(Learned(service, a)) /\ TypedProps(Protection(a))
         /\ service = "connect" \/ props.maxCto # Unknown => Learned(service, a).maxCto # Unknown
         /\ Protection(a).maxCto = props.maxCto
<1>1. a.dev \in Devices /\ a.locked \subseteq Resources
  BY DEF Answers
<1> DEFINE v == a.dev
<1>2. /\ v.order \in {"INTEL", "MOTOROLA"} /\ v.bytes \in {1, 2, 4}
      /\ v.maxCto \in 4 .. ByteMax /\ v.maxCto >= 4 /\ v.maxBs \in Nat \ {0}
      /\ v.slaveBlock \in BOOLEAN /\ v.masterBlock \in BOOLEAN /\ v.pgmBlock \in BOOLEAN
      /\ v.supports \subseteq Resources
  BY <1>1, DeviceFacts
<1>3. v.maxCto \in Ctos /\ v.maxBs \in Limits /\ v.order \in ByteOrders /\ v.maxCto # Unknown
      /\ v.maxBs # Unknown
  BY <1>2 DEF Ctos, Limits, ByteOrders, Unknown
<1>4. props \in PropsType
  BY DEF PropsTyped, TypedProps
<1>5. TypedProps(Connected(a)) /\ Connected(a).maxCto # Unknown
  <2>1. Connected(a) =
          [props EXCEPT !.order = v.order, !.packers = v.order, !.bytes = v.bytes,
                        !.maxCto = v.maxCto, !.slaveBlock = v.slaveBlock, !.supports = v.supports]
    BY DEF Connected, SetupPackers
  <2> HIDE DEF v
  <2>2. Connected(a) \in PropsType
    <3>1. v.order \in ByteOrders /\ v.bytes \in {1, 2, 4} /\ v.maxCto \in Ctos
          /\ v.slaveBlock \in BOOLEAN /\ v.supports \subseteq Resources
      BY <1>2, <1>3
    <3> QED
      BY <2>1, <3>1, <1>4, ZenonT(60) DEF PropsType
  <2>3. /\ Connected(a).order = v.order /\ Connected(a).packers = v.order
        /\ Connected(a).maxCto = v.maxCto
        /\ Connected(a).protection = props.protection
        /\ Connected(a).pgmMaxBs = props.pgmMaxBs /\ Connected(a).pgmMaxCto = props.pgmMaxCto
    BY <2>1, <1>4 DEF PropsType
  <2> QED
    BY <2>2, <2>3, <1>3 DEF PropsTyped, TypedProps
<1>6. TypedProps(CommMode(a)) /\ CommMode(a).maxCto = props.maxCto
  <2> HIDE DEF v
  <2>1. CommMode(a) \in PropsType
    BY <1>2, <1>3, <1>4 DEF CommMode, PropsType, v
  <2>2. /\ CommMode(a).order = props.order /\ CommMode(a).packers = props.packers
        /\ CommMode(a).maxCto = props.maxCto
        /\ CommMode(a).protection = props.protection
        /\ CommMode(a).pgmMaxBs = props.pgmMaxBs /\ CommMode(a).pgmMaxCto = props.pgmMaxCto
    BY <1>4 DEF CommMode, PropsType
  <2> QED
    BY <2>1, <2>2 DEF PropsTyped, TypedProps
<1>7. TypedProps(Protection(a)) /\ Protection(a).maxCto = props.maxCto
  <2>1. Protection(a) \in PropsType
    BY <1>1, <1>4 DEF Protection, PropsType
  <2>2. /\ Protection(a).order = props.order /\ Protection(a).packers = props.packers
        /\ Protection(a).maxCto = props.maxCto
        /\ Protection(a).protection = {a.locked}
        /\ Protection(a).pgmMaxBs = props.pgmMaxBs /\ Protection(a).pgmMaxCto = props.pgmMaxCto
    BY <1>4 DEF Protection, PropsType
  <2> QED
    BY <2>1, <2>2, <1>1 DEF PropsTyped, TypedProps
<1>8. TypedProps(Programming(a)) /\ Programming(a).maxCto = props.maxCto
  <2> HIDE DEF v
  <2>1. Programming(a) \in PropsType
    BY <1>2, <1>3, <1>4 DEF Programming, PropsType, v
  <2>2. /\ Programming(a).order = props.order /\ Programming(a).packers = props.packers
        /\ Programming(a).maxCto = props.maxCto
        /\ Programming(a).protection = props.protection
        /\ Programming(a).pgmMaxCto = a.dev.maxCto
    BY <1>4 DEF Programming, PropsType
  <2> QED
    BY <2>1, <2>2, <1>3 DEF PropsTyped, TypedProps, v
<1> QED
  BY <1>5, <1>6, <1>7, <1>8 DEF Learned, PropsTyped

-----------------------------------------------------------------------------
(* Types: Init, and the calls that are one request.                        *)
LEMMA ErrorTyped ==
  ASSUME NEW r, Answered(r) \in Seq(Answers)
  PROVE  /\ Error(r) \in {"none"} \cup Exceptions
         /\ Error(r) = "none" => Answered(r) # <<>> /\ Reply(r) \in Answers
                                   /\ Reply(r).error = "none"
  BY TailTyped DEF Error, Reply, Exceptions

LEMMA InitTyped == Init => TypeInv
<1> SUFFICES ASSUME Init PROVE TypeInv
  OBVIOUS
<1>1. script \in Seq(Calls) /\ (script = <<>> \/ Head(script).op = "connect")
  BY ScriptsAssumption DEF Init
<1>2. SlaveType
  <2> PICK v \in Devices : slave = Fresh(v)
    BY DEF Init
  <2>1. v.protects \subseteq Resources /\ 0 \in 0 .. KeyLength
    BY DeviceFacts, SessionBounds
  <2>2. [a \in Memory |-> a] \in [Memory -> Int]
    BY SessionBounds
  <2>3. Fresh(v) \in Slaves /\ Fresh(v).locked = v.protects /\ Fresh(v).dev = v
    BY <2>1, <2>2 DEF Fresh, Slaves
  <2> QED
    BY <2>3 DEF SlaveType
<1>3. PropsTyped
  BY DEF Init, NoProps, PropsTyped, TypedProps, PropsType, ByteOrders, Ctos, Limits, Unknown
<1>4. /\ <<>> \in Seq(Answers) /\ <<>> \in Seq(Chunks) /\ <<>> \in Seq(Int)
      /\ <<>> \in Seq(ResourceNames) /\ Len(<<>>) = 0
  OBVIOUS
<1>5. FaultsType /\ 0 \in 0 .. KeyLength
  BY SessionBounds DEF Init, FaultsType
<1>6. UnlockType
  BY <1>4, <1>5 DEF Init, UnlockType, NoSeed
<1>7. TodoType /\ ChannelType /\ DataType
  BY <1>4 DEF Init, TodoType, ChannelType, DataType
<1> QED
  BY <1>1, <1>2, <1>3, <1>5, <1>6, <1>7
     DEF Init, TypeInv, PcType, ScriptType, CallType, ConnectsFirst, Unlocking

LEMMA RaiseTyped ==
  ASSUME TypeInv, NEW c, NEW e \in Exceptions, Raise(c, e)
  PROVE  /\ PcType' /\ ScriptType' /\ CallType' /\ TodoType' /\ ConnectsFirst'
         /\ names' \in Seq(ResourceNames) /\ pc' \notin {"seed", "key"}
<1>1. <<>> \in Seq(Calls) /\ <<>> \in Seq(Chunks) /\ <<>> \in Seq(ResourceNames) /\ Len(<<>>) = 0
  OBVIOUS
<1>2. pc' = e /\ call' = NoCall /\ script' = <<>> /\ todo' = <<>> /\ names' = <<>>
  BY DEF Raise
<1>3. e \notin {"idle", "transfer"} \cup Unlocking
  BY DEF Exceptions, Unlocking
<1> QED
  BY <1>1, <1>2, <1>3 DEF PcType, ScriptType, CallType, TodoType, ConnectsFirst, Unlocking

LEMMA OneRequestTyped ==
  ASSUME TypeInv, pc = "idle", script # <<>>, NEW p, PacketType(p), p.service \notin Downloads,
         OneRequest(p), p.service = "connect" \/ props.maxCto # Unknown
  PROVE  TypeInv'
<1> PICK r \in Reactions(p) :
      /\ Ask(p, r, 1)
      /\ IF Error(r) # "none"
           THEN Raise(Head(script), Error(r)) /\ UNCHANGED <<props, known>>
           ELSE /\ Begin /\ Return(Head(script))
                /\ props' = Learned(p.service, Reply(r))
                /\ UNCHANGED <<todo, names>>
  BY DEF OneRequest
<1>1. UNCHANGED <<transport, got, expected, status, seed, keyLeft, resets>>
  BY DEF OneRequest
<1>2. /\ ChannelType' /\ SlaveType' /\ refusals' \in 0 .. MaxRefusals
      /\ Answered(r) \in Seq(Answers)
  BY AskTyped DEF TypeInv
<1>3. FaultsType' /\ DataType'
  BY <1>1, <1>2 DEF TypeInv, FaultsType, DataType
<1>4. CASE Error(r) # "none"
  <2>1. /\ PcType' /\ ScriptType' /\ CallType' /\ TodoType' /\ ConnectsFirst'
        /\ names' \in Seq(ResourceNames) /\ pc' \notin {"seed", "key"}
    BY <1>2, <1>4, ErrorTyped, RaiseTyped
  <2>2. UnlockType' /\ PropsTyped'
    BY <1>1, <1>4, <2>1 DEF TypeInv, UnlockType, PropsTyped
  <2> QED
    BY <1>2, <1>3, <2>1, <2>2 DEF TypeInv
<1>5. CASE Error(r) = "none"
  <2>1. TypedProps(Learned(p.service, Reply(r))) /\ Learned(p.service, Reply(r)).maxCto # Unknown
    BY <1>2, <1>5, ErrorTyped, LearnedTyped DEF TypeInv
  <2>2. PropsTyped' /\ ConnectsFirst'
    BY <1>5, <2>1 DEF PropsTyped, ConnectsFirst
  <2>3. pc' = "idle" /\ call' = NoCall /\ script' = Tail(script) /\ UNCHANGED <<todo, names>>
    BY <1>5 DEF Return, Begin
  <2>4. script' \in Seq(Calls)
    BY <2>3, TailTyped DEF TypeInv, ScriptType
  <2>5. UnlockType' /\ TodoType'
    BY <1>1, <2>3 DEF TypeInv, UnlockType, TodoType
  <2> QED
    BY <1>2, <1>3, <2>2, <2>3, <2>4, <2>5 DEF TypeInv, PcType, ScriptType, CallType, Unlocking
<1> QED
  BY <1>4, <1>5

LEMMA OneRequestsTyped ==
  ASSUME TypeInv, Connect \/ GetCommModeInfo \/ GetStatus \/ ProgramStart \/ Disconnect \/ SetMta
                    \/ AnyService
  PROVE  TypeInv'
<1>1. Calling("connect") \/ props.maxCto # Unknown
  BY DEF TypeInv, ConnectsFirst, Calling, Connect, GetCommModeInfo, GetStatus, ProgramStart,
         Disconnect, SetMta, AnyService, Exceptions
<1>2. \A service : PacketType(Packet(service)) /\ Packet(service).service = service
  BY DEF PacketType, Packet
<1>3. CASE Connect
  BY <1>2, <1>3, OneRequestTyped DEF Connect, Calling, Downloads
<1>4. CASE GetCommModeInfo \/ GetStatus \/ ProgramStart \/ Disconnect
  <2>1. props.maxCto # Unknown
    BY <1>1, <1>4 DEF Calling, GetCommModeInfo, GetStatus, ProgramStart, Disconnect
  <2>2. /\ pc = "idle" /\ script # <<>>
        /\ \/ OneRequest(Packet("getCommModeInfo")) \/ OneRequest(Packet("getStatus"))
           \/ OneRequest(Packet("programStart")) \/ OneRequest(Packet("disconnect"))
    BY <1>4 DEF GetCommModeInfo, GetStatus, ProgramStart, Disconnect, Calling
  <2>3. ASSUME NEW service \in {"getCommModeInfo", "getStatus", "programStart", "disconnect"},
               OneRequest(Packet(service))
        PROVE  TypeInv'
    <3>1. PacketType(Packet(service)) /\ Packet(service).service \notin Downloads
      BY <1>2 DEF Downloads
    <3> QED
      BY <2>1, <2>2, <2>3, <3>1, OneRequestTyped
  <2> QED
    BY <2>2, <2>3
<1>5. CASE SetMta
  <2> DEFINE p == [Packet("setMta") EXCEPT !.from = Head(script).at]
  <2>1. props.maxCto # Unknown /\ pc = "idle" /\ script # <<>>
    BY <1>1, <1>5 DEF Calling, SetMta
  <2>4. Head(script) \in Calls
    BY <2>1, TailTyped DEF TypeInv, ScriptType
  <2>2. Head(script).at \in Nat
    BY <2>4 DEF Calls
  <2>3. PacketType(p) /\ p.service = "setMta" /\ OneRequest(p)
    BY <1>5, <2>2 DEF PacketType, Packet, SetMta
  <2> HIDE DEF p
  <2> QED
    BY <2>1, <2>3, OneRequestTyped DEF Downloads
<1>6. CASE AnyService
  <2>1. props.maxCto # Unknown /\ pc = "idle" /\ script # <<>>
    BY <1>1, <1>6 DEF Calling, AnyService
  <2>3. PICK name \in DOMAIN Service \ Special : OneRequest(Packet(name))
    BY <1>6 DEF AnyService
  <2>2. name \notin Downloads
    BY DEF Special, Downloads
  <2> QED
    BY <1>2, <2>1, <2>2, <2>3, OneRequestTyped
<1> QED
  BY <1>3, <1>4, <1>5, <1>6

-----------------------------------------------------------------------------
(* Types: the packets of a transfer.                                       *)
LEMMA Multiples ==
  ASSUME NEW i \in Nat, NEW j \in Nat, NEW size \in Nat, i <= j
  PROVE  i * size <= j * size /\ i * size \in Nat /\ j * size \in Nat
<1>1. (j - i) * size \in Nat
  <2>1. j - i \in Nat
    OBVIOUS
  <2> DEFINE k == j - i
  <2> HIDE DEF k
  <2>2. k \in Nat => k * size \in Nat
    OBVIOUS
  <2> QED
    BY <2>1, <2>2 DEF k
<1>2. (j - i) * size = j * size - i * size
  OBVIOUS
<1>3. i * size \in Nat /\ j * size \in Nat
  OBVIOUS
<1> QED
  BY <1>1, <1>2, <1>3

Divided(n, size, full, rest) ==
  /\ full \in Nat /\ rest \in Nat /\ rest < size /\ n = full * size + rest
  /\ full * size \in Nat /\ full * size <= n
  /\ \A i \in 1 .. full : /\ i * size \in Nat /\ i * size <= n
                         /\ (i - 1) * size \in Nat
                         /\ (i - 1) * size + size = i * size

LEMMA Division ==
  ASSUME NEW n \in Nat, NEW size \in Nat \ {0}
  PROVE  Divided(n, size, n \div size, n % size)
<1> DEFINE full == n \div size
           rest == n % size
           most == full * size
<1>1. full \in Nat /\ rest \in Nat /\ rest < size /\ n = full * size + rest
  OBVIOUS
<1> HIDE DEF full, rest
<1>2. most \in Nat
  BY <1>1, Multiples
<1>5. ASSUME NEW i \in 1 .. full PROVE i * size \in Nat /\ i * size <= most
  BY <1>1, Multiples
<1>6. n = most + rest
  BY <1>1
<1> HIDE DEF most
<1>7. most <= n
  BY <1>1, <1>2, <1>6
<1>3. ASSUME NEW i \in 1 .. full PROVE i * size \in Nat /\ i * size <= n
  <2>1. i * size \in Nat /\ i * size <= most
    BY <1>5
  <2> QED
    BY <1>2, <1>7, <2>1
<1>4. ASSUME NEW i \in 1 .. full PROVE (i - 1) * size \in Nat /\ (i - 1) * size + size = i * size
  <2>1. i - 1 \in Nat
    BY <1>1
  <2> DEFINE k == i - 1
  <2>2. k \in Nat /\ i = k + 1
    BY <1>1, <2>1
  <2> HIDE DEF k
  <2>3. k * size \in Nat /\ k * size + size = (k + 1) * size
    BY <2>2
  <2> QED
    BY <2>2, <2>3 DEF k
<1>8. Divided(n, size, full, rest)
  BY <1>1, <1>2, <1>3, <1>4, <1>7 DEF Divided, most
<1> QED
  BY <1>8 DEF full, rest

LEMMA ChunkTyped ==
  ASSUME NEW service \in Downloads \cup {"buildChecksum", "upload"}, NEW length \in Nat,
         NEW from \in Nat, NEW count \in 0 .. ByteMax, NEW wait \in BOOLEAN,
         service \in Downloads => count <= length
  PROVE  Chunk(service, length, from, count, wait) \in Chunks
  BY DEF Chunk, Packet, Chunks

LEMMA WholeTyped ==
  ASSUME NEW service \in Downloads \cup {"buildChecksum", "upload"}, NEW from \in Nat,
         NEW count \in 0 .. ByteMax
  PROVE  /\ Chunk(service, count, from, count, TRUE) \in Chunks
         /\ Chunk(service, count, from, count, FALSE) \in Chunks
<1>1. count \in Nat /\ count <= count
  BY SessionBounds
<1> QED
  BY <1>1 DEF Chunk, Packet, Chunks

LEMMA AddressTyped ==
  ASSUME NEW a \in Nat
  PROVE  Address(a) \in Chunks
<1>1. 0 \in 0 .. ByteMax /\ "setMta" \notin Downloads
  BY SessionBounds DEF Downloads
<1> QED
  BY <1>1 DEF Address, Packet, Chunks

(* A sequence is typed when each of its elements is; a chunk may follow.   *)
LEMMA WholeAndRest ==
  ASSUME NEW A, NEW whole \in Seq(A), NEW rest, rest = <<>> \/ \E a \in A : rest = <<a>>
  PROVE  whole \o rest \in Seq(A)
<1>1. CASE rest = <<>>
  BY <1>1
<1>2. ASSUME NEW a \in A, rest = <<a>> PROVE rest \in Seq(A)
  BY <1>2
<1> QED
  BY <1>1, <1>2

LEMMA NormalTyped ==
  ASSUME NEW first \in Downloads, NEW n \in Nat, NEW payload \in 1 .. ByteMax
  PROVE  Normal(first, n, payload) \in Seq(Chunks)
<1>1. payload \in Nat \ {0} /\ payload <= ByteMax /\ payload \in 0 .. ByteMax
  BY SessionBounds
<1> DEFINE full == n \div payload
           rest == n % payload
           part(i) == Chunk(first, payload, (i - 1) * payload, payload, FALSE)
           whole == [i \in 1 .. full |-> part(i)]
           remainder == IF rest > 0 THEN <<Chunk(first, rest, n - rest, rest, TRUE)>> ELSE <<>>
<1>2. Normal(first, n, payload) = whole \o remainder
  BY DEF Normal
<1>3. Divided(n, payload, full, rest)
  BY <1>1, Division
<1> HIDE DEF full, rest
<1>4. whole \in Seq(Chunks)
  <2>1. ASSUME NEW i \in 1 .. full PROVE part(i) \in Chunks
    <3> DEFINE here == (i - 1) * payload
    <3>1. here \in Nat
      BY <1>3 DEF Divided
    <3> HIDE DEF here
    <3>2. Chunk(first, payload, here, payload, FALSE) \in Chunks
      BY <1>1, <3>1, WholeTyped
    <3> QED
      BY <3>2 DEF here
  <2> HIDE DEF part
  <2> QED
    BY <1>3, <2>1 DEF Divided
<1>5. remainder = <<>> \/ \E a \in Chunks : remainder = <<a>>
  <2>1. rest \in 0 .. ByteMax
    BY <1>1, <1>3, SessionBounds DEF Divided
  <2>2. n - rest \in Nat
    <3> DEFINE most == full * payload
    <3>1. most \in Nat /\ n = most + rest
      BY <1>3 DEF Divided
    <3> HIDE DEF most
    <3> QED
      BY <3>1, <2>1, SessionBounds
  <2>3. Chunk(first, rest, n - rest, rest, TRUE) \in Chunks
    BY <2>1, <2>2, WholeTyped
  <2> QED
    BY <2>3
<1> HIDE DEF whole, remainder
<1> QED
  BY <1>2, <1>4, <1>5, WholeAndRest

LEMMA BlockTyped ==
  ASSUME PropsTyped, props.maxCto # Unknown, NEW first \in Downloads, NEW next \in Downloads,
         NEW from \in Nat, NEW n \in Nat
  PROVE  Block(first, next, from, n) \in Seq(Chunks)
<1> DEFINE size == props.maxCto - 2
<1>1. size \in Nat \ {0} /\ size <= ByteMax
  BY SessionBounds DEF PropsTyped, TypedProps, PropsType, Ctos
<1> HIDE DEF size
<1> DEFINE full == n \div size
           rest == n % size
           part(i) == Chunk(IF i = 1 THEN first ELSE next, Remaining(n, i, size),
                            from + (i - 1) * size, size, i * size = n)
           whole == [i \in 1 .. full |-> part(i)]
           remainder == IF rest = 0 THEN <<>>
                        ELSE <<Chunk(IF full <= 1 THEN first ELSE next, rest, from + n - rest,
                                     rest, TRUE)>>
<1>2. Block(first, next, from, n) = whole \o remainder
  BY DEF Block, size
<1>3. Divided(n, size, full, rest)
  BY <1>1, Division
<1> HIDE DEF full, rest
<1>4. whole \in Seq(Chunks)
  <2>1. ASSUME NEW i \in 1 .. full PROVE part(i) \in Chunks
    <3> DEFINE here == (i - 1) * size
               there == i * size
    <3>1. here \in Nat /\ there \in Nat /\ there <= n /\ here + size = there
      BY <1>3 DEF Divided
    <3> HIDE DEF here, there
    <3>2. n - here \in Nat /\ size <= n - here /\ from + here \in Nat /\ size \in 0 .. ByteMax
      BY <3>1, <1>1, SessionBounds
    <3>3. Chunk(IF i = 1 THEN first ELSE next, n - here, from + here, size, there = n) \in Chunks
      BY <3>2, ChunkTyped
    <3> QED
      BY <3>3 DEF here, there, Remaining
  <2> HIDE DEF part
  <2> QED
    BY <1>3, <2>1 DEF Divided
<1>5. remainder = <<>> \/ \E a \in Chunks : remainder = <<a>>
  <2>1. rest \in 0 .. ByteMax
    BY <1>1, <1>3, SessionBounds DEF Divided
  <2>2. from + n - rest \in Nat
    <3> DEFINE most == full * size
    <3>1. most \in Nat /\ n = most + rest
      BY <1>3 DEF Divided
    <3> HIDE DEF most
    <3> QED
      BY <3>1, <2>1, SessionBounds
  <2> DEFINE service == IF full <= 1 THEN first ELSE next
             place == from + n - rest
  <2>3. service \in Downloads \cup {"buildChecksum", "upload"} /\ place \in Nat
    BY <2>2
  <2> HIDE DEF service, place
  <2>4. Chunk(service, rest, place, rest, TRUE) \in Chunks
    BY <2>1, <2>3, WholeTyped
  <2> QED
    BY <2>4 DEF service, place
<1> HIDE DEF whole, remainder
<1> QED
  BY <1>2, <1>4, <1>5, WholeAndRest

LEMMA BlocksTyped ==
  ASSUME PropsTyped, props.maxCto # Unknown, NEW first \in Downloads, NEW next \in Downloads,
         NEW n \in Nat, NEW limit \in Nat \ {0}
  PROVE  Blocks(first, next, n, limit) \in Seq(Chunks)
<1> DEFINE count == (n + limit - 1) \div limit
           blocks == [i \in 1 .. count |-> Block(first, next, (i - 1) * limit,
                                                 LeastOf(limit, n - (i - 1) * limit))]
<1>1. /\ n + limit - 1 \in Nat /\ count \in Nat
      /\ \A i \in 1 .. count : /\ i * limit \in Nat /\ i * limit <= n + limit - 1
                             /\ (i - 1) * limit \in Nat
                             /\ (i - 1) * limit + limit = i * limit
  <2>1. n + limit - 1 \in Nat
    OBVIOUS
  <2>2. Divided(n + limit - 1, limit, count, (n + limit - 1) % limit)
    BY <2>1, Division
  <2> HIDE DEF count
  <2> QED
    BY <2>1, <2>2 DEF Divided
<1> HIDE DEF count
<1>2. ASSUME NEW i \in 1 .. count
      PROVE  blocks[i] \in Seq(Chunks)
  <2> DEFINE here == (i - 1) * limit
  <2>1. here \in Nat /\ here <= n
    BY <1>1
  <2> HIDE DEF here
  <2>2. LeastOf(limit, n - here) \in Nat
    BY <2>1 DEF LeastOf
  <2>3. Block(first, next, here, LeastOf(limit, n - here)) \in Seq(Chunks)
    BY <2>1, <2>2, BlockTyped
  <2> QED
    BY <2>3 DEF here
<1>3. Blocks(first, next, n, limit) = FlattenSeq(blocks) /\ Pieces(blocks, count) = blocks
  BY DEF Blocks, Pieces, count
<1> HIDE DEF blocks
<1>4. FlattenSeq(Pieces(blocks, count)) \in Seq(Chunks)
  BY <1>1, <1>2, FlattenTyped
<1> QED
  BY <1>3, <1>4

LEMMA FetchedTyped ==
  ASSUME PropsTyped, props.maxCto # Unknown, NEW n \in Nat, NEW limit \in Nat
  PROVE  Fetched(n, limit) \in Seq(Chunks)
<1> DEFINE most == IF props.slaveBlock THEN ByteMax ELSE props.maxCto - 1
           size == IF limit = 0 THEN most ELSE LeastOf(limit, most)
<1>1. size \in Nat \ {0} /\ size <= ByteMax
  <2>1. most \in Nat \ {0} /\ most <= ByteMax
    BY SessionBounds DEF PropsTyped, TypedProps, PropsType, Ctos
  <2> HIDE DEF most
  <2> QED
    BY <2>1, SessionBounds DEF LeastOf
<1> DEFINE full == n \div size
           rest == n % size
           part(from, k) == Chunk("upload", k, from, k, TRUE)
           whole == [i \in 1 .. full |-> part((i - 1) * size, size)]
           remainder == IF rest = 0 THEN <<>> ELSE <<part(n - rest, rest)>>
<1>2. Fetched(n, limit) = whole \o remainder
  BY DEF Fetched
<1> HIDE DEF size
<1>3. Divided(n, size, full, rest)
  BY <1>1, Division
<1> HIDE DEF full, rest
<1>4. whole \in Seq(Chunks)
  <2>1. ASSUME NEW i \in 1 .. full PROVE part((i - 1) * size, size) \in Chunks
    <3> DEFINE here == (i - 1) * size
    <3>1. here \in Nat
      BY <1>3 DEF Divided
    <3> HIDE DEF here
    <3>2. Chunk("upload", size, here, size, TRUE) \in Chunks
      <4>1. size \in 0 .. ByteMax /\ "upload" \in Downloads \cup {"buildChecksum", "upload"}
        BY <1>1, SessionBounds
      <4> QED
        BY <3>1, <4>1, WholeTyped
    <3> QED
      BY <3>2 DEF here
  <2> HIDE DEF part
  <2> QED
    BY <1>3, <2>1 DEF Divided
<1>5. remainder = <<>> \/ \E a \in Chunks : remainder = <<a>>
  <2>1. rest \in 0 .. ByteMax
    BY <1>1, <1>3, SessionBounds DEF Divided
  <2>2. n - rest \in Nat
    <3> DEFINE whole_ == full * size
    <3>1. whole_ \in Nat /\ n = whole_ + rest
      BY <1>3 DEF Divided
    <3> HIDE DEF whole_
    <3> QED
      BY <3>1, <2>1, SessionBounds
  <2>3. Chunk("upload", rest, n - rest, rest, TRUE) \in Chunks
    BY <2>1, <2>2, WholeTyped
  <2> QED
    BY <2>3
<1> HIDE DEF whole, remainder
<1> QED
  BY <1>2, <1>4, <1>5, WholeAndRest

LEMMA PushedTyped ==
  ASSUME PropsTyped, props.maxCto # Unknown, NEW first \in Downloads, NEW next \in Downloads,
         NEW c \in Calls, NEW block \in BOOLEAN, NEW maxCto \in 4 .. ByteMax,
         NEW maxBs \in Nat \ {0}
  PROVE  Pushed(first, next, c, block, maxCto, maxBs) \in Seq(Chunks)
<1> DEFINE limit == LeastOf(maxBs * (maxCto - 2), ByteMax)
           packets == IF block THEN Blocks(first, next, c.n, limit)
                               ELSE Normal(first, c.n, maxCto - 2)
<1>1. c.at \in Nat /\ c.n \in Nat
  BY DEF Calls
<1>2. maxCto - 2 \in 1 .. ByteMax
  BY SessionBounds
<1>3. limit \in Nat \ {0}
  <2> DEFINE payload == maxCto - 2
             most == maxBs * payload
  <2>1. payload \in Nat \ {0}
    BY <1>2
  <2> HIDE DEF payload
  <2>2. most \in Nat \ {0}
    BY <2>1
  <2> HIDE DEF most
  <2>3. LeastOf(most, ByteMax) \in Nat \ {0}
    BY <2>2, SessionBounds DEF LeastOf
  <2> QED
    BY <2>3 DEF most, payload
<1> HIDE DEF limit
<1>4. packets \in Seq(Chunks)
  BY <1>1, <1>2, <1>3, BlocksTyped, NormalTyped
<1>5. <<Address(c.at)>> \in Seq(Chunks)
  BY <1>1, AddressTyped
<1>6. Pushed(first, next, c, block, maxCto, maxBs) = <<Address(c.at)>> \o packets
  BY DEF Pushed, limit
<1> HIDE DEF packets
<1> QED
  BY <1>4, <1>5, <1>6

LEMMA VerifiedTyped ==
  ASSUME PropsTyped, props.maxCto # Unknown, NEW c \in Calls
  PROVE  Verified(c) \in Seq(Chunks)
<1> DEFINE sum == Chunk("buildChecksum", c.n, 0, 0, TRUE)
<1>1. c.at \in Nat /\ c.n \in Nat
  BY DEF Calls
<1>2. Address(c.at) \in Chunks /\ Fetched(c.n, 0) \in Seq(Chunks)
  BY <1>1, AddressTyped, FetchedTyped
<1>3. sum \in Chunks
  <2>1. 0 \in 0 .. ByteMax /\ "buildChecksum" \notin Downloads
    BY SessionBounds DEF Downloads
  <2> QED
    BY <1>1, <2>1 DEF Chunk, Packet, Chunks
<1> HIDE DEF sum
<1>4. <<Address(c.at), sum, Address(c.at)>> \in Seq(Chunks)
  BY <1>2, <1>3
<1>5. Verified(c) = <<Address(c.at), sum, Address(c.at)>> \o Fetched(c.n, 0)
  BY DEF Verified, sum
<1> QED
  BY <1>2, <1>4, <1>5

LEMMA TransferTyped ==
  ASSUME PropsTyped, props.maxCto # Unknown, NEW c \in Calls, c.op \in TransferOps,
         Refuses(c) = "none"
  PROVE  TransferOf(c) \in Seq(Chunks)
<1>1. /\ props.masterBlock \in BOOLEAN /\ props.pgmBlock \in BOOLEAN
      /\ props.maxCto \in 4 .. ByteMax
      /\ props.maxBs # Unknown => props.maxBs \in Nat \ {0}
      /\ props.pgmMaxBs # Unknown => props.pgmMaxBs \in Nat \ {0}
                                       /\ props.pgmMaxCto \in 4 .. ByteMax
  BY DEF PropsTyped, TypedProps, PropsType, Limits, Ctos
<1>2. /\ "download" \in Downloads /\ "downloadNext" \in Downloads
      /\ "program" \in Downloads /\ "programNext" \in Downloads
  BY DEF Downloads
<1>3. CASE c.op = "push"
  <2>1. props.maxBs # Unknown
    BY <1>3 DEF Refuses
  <2>2. TransferOf(c) = Pushed("download", "downloadNext", c, props.masterBlock, props.maxCto,
                               props.maxBs)
    BY <1>3 DEF TransferOf
  <2> QED
    BY <1>1, <1>2, <2>1, <2>2, PushedTyped
<1>4. CASE c.op = "flash_program"
  <2>1. props.pgmMaxBs # Unknown
    BY <1>4 DEF Refuses
  <2>2. TransferOf(c) = Pushed("program", "programNext", c, props.pgmBlock, props.pgmMaxCto,
                               props.pgmMaxBs)
    BY <1>4 DEF TransferOf
  <2>3. props.pgmMaxBs \in Nat \ {0} /\ props.pgmMaxCto \in 4 .. ByteMax
    BY <1>1, <2>1
  <2>4. Pushed("program", "programNext", c, props.pgmBlock, props.pgmMaxCto, props.pgmMaxBs)
          \in Seq(Chunks)
    BY <1>1, <1>2, <2>3, PushedTyped
  <2> QED
    BY <2>2, <2>4
<1>5. CASE c.op = "fetch"
  <2>1. TransferOf(c) = Fetched(c.n, c.limit)
    BY <1>5 DEF TransferOf
  <2>2. c.n \in Nat /\ c.limit \in Nat
    BY DEF Calls
  <2> QED
    BY <2>1, <2>2, FetchedTyped
<1>6. CASE c.op = "verify"
  BY <1>6, VerifiedTyped DEF TransferOf
<1> QED
  BY <1>3, <1>4, <1>5, <1>6 DEF TransferOps

LEMMA TransferBeginTyped ==
  ASSUME TypeInv, TransferBegin
  PROVE  TypeInv'
<1> DEFINE c == Head(script)
<1>1. /\ pc = "idle" /\ script # <<>> /\ c.op \in TransferOps
      /\ UNCHANGED <<transport, status, seed, keyLeft, props, channel, slave, faults, exchanged,
                     known>>
  BY DEF TransferBegin, TransferOps
<1>2. c \in Calls /\ Tail(script) \in Seq(Calls)
  BY <1>1, TailTyped DEF TypeInv, ScriptType
<1>3. props.maxCto # Unknown
  BY <1>1 DEF TypeInv, ConnectsFirst, TransferOps, Exceptions
<1>4. IF Refuses(c) # "none" THEN Raise(c, Refuses(c)) /\ UNCHANGED <<got, expected>>
      ELSE /\ Begin
           /\ todo' = TransferOf(c) /\ got' = <<>> /\ expected' = <<>>
           /\ IF todo' = <<>> THEN Return(Remembered(c))
              ELSE pc' = "transfer" /\ call' = Remembered(c) /\ last' = NoCall
           /\ UNCHANGED names
  BY DEF TransferBegin
<1>5. ChannelType' /\ SlaveType' /\ FaultsType' /\ PropsTyped'
  BY <1>1 DEF TypeInv, ChannelType, SlaveType, FaultsType, PropsTyped, channel, faults
<1> HIDE DEF c
<1>6. CASE Refuses(c) # "none"
  <2>1. Refuses(c) \in Exceptions /\ Raise(c, Refuses(c))
    BY <1>4, <1>6 DEF Refuses, Exceptions
  <2>2. /\ PcType' /\ ScriptType' /\ CallType' /\ TodoType' /\ ConnectsFirst'
        /\ names' \in Seq(ResourceNames) /\ pc' \notin {"seed", "key"}
    BY <2>1, RaiseTyped
  <2>3. UnlockType' /\ DataType'
    BY <1>1, <1>4, <1>6, <2>2 DEF TypeInv, UnlockType, DataType
  <2> QED
    BY <1>5, <2>2, <2>3 DEF TypeInv
<1>7. CASE Refuses(c) = "none"
  <2>1. todo' \in Seq(Chunks) /\ script' \in Seq(Calls)
    BY <1>1, <1>2, <1>3, <1>4, <1>7, TransferTyped DEF TypeInv, Begin, c
  <2>2. got' \in Seq(Int) /\ expected' \in Seq(Int)
    BY <1>4, <1>7
  <2>3. Remembered(c) \in Remembering
    BY <1>1, <1>2, SlaveFacts DEF TypeInv, Remembered, Remembering, Calls
  <2>4. /\ pc' \in {"idle", "transfer"} /\ (todo' # <<>>) = (pc' = "transfer")
        /\ pc' = "idle" => call' = NoCall
        /\ pc' = "transfer" => call' = Remembered(c)
    BY <1>4, <1>7 DEF Return
  <2>5. pc' \notin Exceptions \cup Unlocking
    BY <2>4 DEF Exceptions, Unlocking
  <2>6. PcType' /\ CallType' /\ TodoType' /\ ScriptType' /\ DataType'
    BY <2>1, <2>2, <2>3, <2>4, <2>5 DEF PcType, CallType, TodoType, ScriptType, DataType
  <2>7. UnlockType' /\ ConnectsFirst'
    BY <1>1, <1>3, <1>4, <1>7, <2>5 DEF TypeInv, UnlockType, ConnectsFirst, Unlocking
  <2> QED
    BY <1>5, <2>6, <2>7 DEF TypeInv
<1> QED
  BY <1>6, <1>7

-----------------------------------------------------------------------------
(* Types: the steps of a transfer.                                         *)
LEMMA SentTyped ==
  ASSUME TypeInv, pc = "transfer", Sent
  PROVE  /\ PcType' /\ ScriptType' /\ CallType' /\ TodoType' /\ names' = names
         /\ pc' \in {"idle", "transfer"}
<1>1. todo \in Seq(Chunks) /\ todo # <<>> /\ call \in Remembering
  BY DEF TypeInv, TodoType, CallType
<1>2. /\ todo' = Tail(todo) /\ script' = script /\ names' = names
      /\ IF Tail(todo) = <<>> THEN pc' = "idle" /\ call' = NoCall ELSE pc' = pc /\ call' = call
  BY DEF Sent, Return
<1>3. todo' \in Seq(Chunks) /\ (todo' # <<>>) = (pc' = "transfer")
  BY <1>1, <1>2, TailTyped
<1>4. pc' \in {"idle", "transfer"} /\ (pc' = "idle" => call' = NoCall)
        /\ (pc' = "transfer" => call' = call)
  BY <1>2
<1>5. pc' \notin Exceptions \cup Unlocking
  BY <1>4 DEF Exceptions, Unlocking
<1> QED
  BY <1>1, <1>2, <1>3, <1>4, <1>5 DEF TypeInv, PcType, ScriptType, CallType, TodoType

LEMMA ChunkIsPacket ==
  ASSUME NEW p \in Chunks
  PROVE  PacketType(p) /\ (p.service \in Downloads => p.count <= p.length)
  BY SessionBounds DEF Chunks, PacketType

(* What upload() takes is what came, up to the answer that suffices.       *)
LEMMA TakenTyped ==
  ASSUME NEW p, NEW r, Answered(r) \in Seq(Answers)
  PROVE  /\ Taken(p, r) \in Nat \ {0}
         /\ Answered(r) # <<>> => Taken(p, r) <= Len(Answered(r))
<1>1. CASE ~InBlock(p) \/ Error(r) # "none"
  BY <1>1 DEF Taken
<1>2. CASE InBlock(p) /\ Error(r) = "none"
  <2> DEFINE n == Len(Answered(r))
             T == {k \in 1 .. n : Enough(p, r, k)}
  <2>1. n \in Nat \ {0}
    BY <1>2, ErrorTyped
  <2>2. n \in T
    BY <2>1 DEF Enough
  <2>3. T \subseteq Nat /\ T # {}
    BY <2>1, <2>2
  <2>4. PICK k \in T : \A i \in T : k <= i
    BY <2>3, Least
  <2> HIDE DEF n
  <2>5. \A i \in 1 .. k - 1 : ~Enough(p, r, i)
    BY <2>1, <2>4
  <2>6. k \in 1 .. n /\ Enough(p, r, k)
    BY <2>4
  <2>7. Taken(p, r) = CHOOSE i \in 1 .. n : Enough(p, r, i) /\ \A j \in 1 .. i - 1 : ~Enough(p, r, j)
    BY <1>2 DEF Taken, n
  <2> HIDE DEF T
  <2>8. Taken(p, r) \in 1 .. n
    BY <2>5, <2>6, <2>7
  <2> QED
    BY <2>1, <2>8 DEF n
<1> QED
  BY <1>1, <1>2

LEMMA ReceivedTyped ==
  ASSUME NEW r, Answered(r) \in Seq(Answers), NEW n \in 0 .. Len(Answered(r))
  PROVE  Received(r, n) \in Seq(Int)
<1> DEFINE pieces == [i \in 1 .. n |-> Answered(r)[i].data]
<1>1. \A i \in 1 .. n : pieces[i] \in Seq(Int)
  <2>1. \A i \in 1 .. n : Answered(r)[i] \in Answers
    OBVIOUS
  <2> QED
    BY <2>1 DEF Answers
<1>2. Received(r, n) = FlattenSeq(pieces) /\ Pieces(pieces, n) = pieces
  BY DEF Received, Pieces
<1> HIDE DEF pieces
<1>3. FlattenSeq(Pieces(pieces, n)) \in Seq(Int)
  BY <1>1, FlattenTyped
<1> QED
  BY <1>2, <1>3

LEMMA FirstOfTyped ==
  ASSUME NEW Items, NEW s \in Seq(Items), NEW n \in Nat
  PROVE  FirstOf(s, n) \in Seq(Items)
<1>1. LeastOf(n, Len(s)) \in Nat /\ LeastOf(n, Len(s)) <= Len(s)
  BY DEF LeastOf
<1> QED
  BY <1>1, SubSeqTyped DEF FirstOf

LEMMA RequestPacketTyped ==
  ASSUME TypeInv, RequestPacket
  PROVE  TypeInv'
<1> DEFINE p == Head(todo)
<1>1. pc = "transfer" /\ UNCHANGED <<transport, status, seed, keyLeft, props, resets, known>>
  BY DEF RequestPacket
<1>2. p \in Chunks
  BY <1>1, TailTyped DEF TypeInv, TodoType
<1>3. PICK r \in Reactions(p) :
        /\ Ask(p, r, Taken(p, r))
        /\ IF Outcome(p, r) # "none"
             THEN Raise(call, Outcome(p, r)) /\ UNCHANGED <<got, expected>>
             ELSE /\ got' = IF p.service # "upload" THEN got
                            ELSE got \o FirstOf(Received(r, Taken(p, r)), p.count)
                  /\ expected' = IF p.service = "buildChecksum" THEN Reply(r).data ELSE expected
                  /\ Sent
  BY DEF RequestPacket
<1> HIDE DEF p
<1>4. Answered(r) \in Seq(Answers)
  <2>1. ReactionTyped(r)
    BY <1>2, ChunkIsPacket, ReactionsTyped DEF TypeInv
  <2> QED
    BY <2>1 DEF Answered, ReactionTyped, TypeInv, ChannelType
<1>5. Taken(p, r) \in Nat \ {0} /\ (Answered(r) # <<>> => Taken(p, r) <= Len(Answered(r)))
  BY <1>4, TakenTyped
<1>6. /\ ChannelType' /\ SlaveType' /\ refusals' \in 0 .. MaxRefusals
  BY <1>2, <1>3, <1>5, ChunkIsPacket, AskTyped DEF TypeInv
<1>7. FaultsType' /\ PropsTyped' /\ props.maxCto # Unknown
  BY <1>1, <1>6 DEF TypeInv, FaultsType, PropsTyped, ConnectsFirst, Exceptions
<1>8. CASE Outcome(p, r) # "none"
  <2>1. Outcome(p, r) \in Exceptions
    BY <1>4, <1>8, ErrorTyped DEF Outcome, Exceptions
  <2>2. /\ PcType' /\ ScriptType' /\ CallType' /\ TodoType' /\ ConnectsFirst'
        /\ names' \in Seq(ResourceNames) /\ pc' \notin {"seed", "key"}
    BY <1>3, <1>8, <2>1, RaiseTyped
  <2>3. UnlockType' /\ DataType'
    BY <1>1, <1>3, <1>8, <2>2 DEF TypeInv, UnlockType, DataType
  <2> QED
    BY <1>6, <1>7, <2>2, <2>3 DEF TypeInv
<1>9. CASE Outcome(p, r) = "none"
  <2>1. /\ PcType' /\ ScriptType' /\ CallType' /\ TodoType' /\ names' = names
        /\ pc' \in {"idle", "transfer"}
    BY <1>1, <1>3, <1>9, SentTyped
  <2>2. UnlockType' /\ ConnectsFirst'
    BY <1>1, <1>7, <2>1 DEF TypeInv, UnlockType, ConnectsFirst
  <2>3. Error(r) = "none"
    BY <1>9 DEF Outcome
  <2>4. Reply(r) \in Answers /\ Answered(r) # <<>>
    BY <1>4, <2>3, ErrorTyped
  <2>5. Reply(r).data \in Seq(Int)
    BY <2>4 DEF Answers
  <2>6. FirstOf(Received(r, Taken(p, r)), p.count) \in Seq(Int)
    <3>1. Received(r, Taken(p, r)) \in Seq(Int)
      BY <1>4, <1>5, <2>4, ReceivedTyped
    <3>2. p.count \in Nat
      BY <1>2, ChunkIsPacket DEF PacketType
    <3> QED
      BY <3>1, <3>2, FirstOfTyped
  <2> DEFINE piece == FirstOf(Received(r, Taken(p, r)), p.count)
             sum == Reply(r).data
  <2>8. got' = (IF p.service # "upload" THEN got ELSE got \o piece)
          /\ expected' = (IF p.service = "buildChecksum" THEN sum ELSE expected)
    BY <1>3, <1>9
  <2>9. got \in Seq(Int) /\ expected \in Seq(Int) /\ piece \in Seq(Int) /\ sum \in Seq(Int)
    BY <2>5, <2>6 DEF TypeInv, DataType
  <2> HIDE DEF piece, sum
  <2>7. DataType'
    BY <2>8, <2>9 DEF DataType
  <2> QED
    BY <1>6, <1>7, <2>1, <2>2, <2>7 DEF TypeInv
<1> QED
  BY <1>8, <1>9

LEMMA BlockRequestTyped ==
  ASSUME TypeInv, BlockRequest
  PROVE  TypeInv'
<1> DEFINE p == Head(todo)
<1>1. /\ pc = "transfer"
      /\ UNCHANGED <<transport, got, expected, status, seed, keyLeft, props, resets, known>>
      /\ resQueue' = IF resQueue = <<>> THEN <<>> ELSE Tail(resQueue)
  BY DEF BlockRequest
<1>2. p \in Chunks
  BY <1>1, TailTyped DEF TypeInv, TodoType
<1>3. resQueue' \in Seq(Answers)
  BY <1>1, TailTyped DEF TypeInv, ChannelType
<1>4. PropsTyped' /\ DataType' /\ props.maxCto # Unknown
  BY <1>1 DEF TypeInv, DataType, PropsTyped, ConnectsFirst, Exceptions
<1>5. \/ Raise(call, "XcpResponseError") /\ UNCHANGED <<wire, slave, refusals>>
      \/ /\ Sent
         /\ \E r \in Reactions(p) : /\ slave' = r.slave /\ refusals' = refusals + r.refused
                                    /\ wire' = wire \o r.answers
  BY DEF BlockRequest
<1> HIDE DEF p
<1>6. CASE Raise(call, "XcpResponseError") /\ UNCHANGED <<wire, slave, refusals>>
  <2>1. "XcpResponseError" \in Exceptions
    BY DEF Exceptions
  <2>2. /\ PcType' /\ ScriptType' /\ CallType' /\ TodoType' /\ ConnectsFirst'
        /\ names' \in Seq(ResourceNames) /\ pc' \notin {"seed", "key"}
    BY <1>6, <2>1, RaiseTyped
  <2>3. UnlockType' /\ ChannelType' /\ SlaveType' /\ FaultsType'
    BY <1>1, <1>3, <1>6, <2>2 DEF TypeInv, UnlockType, ChannelType, SlaveType, FaultsType
  <2> QED
    BY <1>4, <2>2, <2>3 DEF TypeInv
<1>7. ASSUME NEW r \in Reactions(p), Sent, slave' = r.slave, refusals' = refusals + r.refused,
             wire' = wire \o r.answers
      PROVE  TypeInv'
  <2>1. ReactionTyped(r) /\ refusals + r.refused \in 0 .. MaxRefusals
    BY <1>2, ChunkIsPacket, ReactionsTyped DEF TypeInv
  <2>2. /\ PcType' /\ ScriptType' /\ CallType' /\ TodoType' /\ names' = names
        /\ pc' \in {"idle", "transfer"}
    BY <1>1, <1>7, SentTyped
  <2>3. wire' \in Seq(Answers)
    BY <1>7, <2>1 DEF ReactionTyped, TypeInv, ChannelType
  <2>4. ChannelType' /\ SlaveType' /\ FaultsType'
    BY <1>1, <1>3, <1>7, <2>1, <2>3 DEF TypeInv, ChannelType, SlaveType, FaultsType, ReactionTyped
  <2>5. UnlockType' /\ ConnectsFirst'
    BY <1>1, <1>4, <2>2 DEF TypeInv, UnlockType, ConnectsFirst
  <2> QED
    BY <1>4, <2>2, <2>4, <2>5 DEF TypeInv
<1> QED
  BY <1>5, <1>6, <1>7

LEMMA ArrivesTyped ==
  ASSUME TypeInv, Arrives
  PROVE  TypeInv'
<1>1. /\ wire # <<>> /\ resQueue' = Append(resQueue, Head(wire)) /\ wire' = Tail(wire)
      /\ UNCHANGED <<script, pc, call, transferVars, unlockVars, props, slave, faults>>
  BY DEF Arrives
<1>2. ChannelType'
  BY <1>1, TailTyped DEF TypeInv, ChannelType
<1> QED
  BY <1>1, <1>2
     DEF TypeInv, PcType, ScriptType, CallType, TodoType, DataType, UnlockType, PropsTyped,
         SlaveType, FaultsType, ConnectsFirst, transferVars, unlockVars, faults

LEMMA RestartedTyped ==
  ASSUME TypeInv, Reset \/ Exchange
  PROVE  TypeInv'
<1>1. PICK v \in Devices : Restarted(v)
  BY SlaveFacts DEF TypeInv, Reset, Exchange
<1>2. /\ slave' = Fresh(v) /\ wire' = <<>>
      /\ UNCHANGED <<pc, call, transferVars, unlockVars, props, resQueue, refusals>>
  BY <1>1 DEF Restarted
<1>3. SlaveType'
  <2>1. Fresh(v) \in Slaves /\ Fresh(v).locked \subseteq Fresh(v).dev.protects
    <3>1. [a \in Memory |-> a] \in [Memory -> Int] /\ 0 \in 0 .. KeyLength
      BY SessionBounds
    <3>2. v.protects \subseteq Resources
      BY DeviceFacts
    <3> QED
      BY <3>1, <3>2 DEF Fresh, Slaves
  <2> QED
    BY <1>2, <2>1 DEF SlaveType
<1>4. script' \in Seq(Calls) /\ resets' \in 0 .. MaxResets
  <2>1. CASE Reset
    BY <2>1, SessionBounds DEF Reset, TypeInv, ScriptType, FaultsType
  <2>2. CASE Exchange
    BY <2>2, TailTyped DEF Exchange, Calling, Begin, TypeInv, ScriptType, FaultsType
  <2> QED
    BY <2>1, <2>2
<1>5. ChannelType' /\ FaultsType' /\ ScriptType'
  BY <1>2, <1>4 DEF TypeInv, ChannelType, FaultsType, ScriptType
<1>6. ConnectsFirst'
  <2>1. CASE Reset
    BY <1>2, <2>1 DEF Reset, TypeInv, ConnectsFirst
  <2>2. CASE Exchange
    BY <1>2, <2>2 DEF Exchange, Calling, TypeInv, ConnectsFirst, Exceptions
  <2> QED
    BY <2>1, <2>2
<1> QED
  BY <1>2, <1>3, <1>5, <1>6
     DEF TypeInv, PcType, CallType, TodoType, DataType, UnlockType, PropsTyped, transferVars,
         unlockVars

-----------------------------------------------------------------------------
(* Types: the steps of cond_unlock().                                      *)
LEMMA NamesTyped ==
  ASSUME TypeInv, NEW c \in Calls
  PROVE  Names(c) \in Seq(ResourceNames)
<1> DEFINE listed(name) == IF name \in props.supports THEN <<name>> ELSE <<>>
<1>1. c.names \in Seq(STRING)
  BY DEF Calls
<1>2. \A name \in Resources : listed(name) \in Seq(ResourceNames)
  <2>1. \A name \in ResourceNames : <<name>> \in Seq(ResourceNames)
    OBVIOUS
  <2>2. Resources \subseteq ResourceNames /\ <<>> \in Seq(ResourceNames)
    BY DEF ResourceNames
  <2> QED
    BY <2>1, <2>2
<1>3. InOrder(props.supports) = listed("calpag") \o listed("daq") \o listed("stim") \o listed("pgm")
  BY DEF InOrder
<1>4. /\ "calpag" \in Resources /\ "daq" \in Resources /\ "stim" \in Resources
      /\ "pgm" \in Resources
  BY DEF Resources
<1> HIDE DEF listed
<1>5. InOrder(props.supports) \in Seq(ResourceNames)
  BY <1>2, <1>3, <1>4
<1>6. Seq(STRING) \subseteq Seq(ResourceNames)
  BY DEF ResourceNames
<1> QED
  BY <1>1, <1>5, <1>6 DEF Names

LEMMA GoesByTyped ==
  ASSUME TypeInv, NEW c \in Calls, pc = "idle", script # <<>>, props.maxCto # Unknown,
         NEW protected \in SUBSET Resources, NEW nowKnown, GoesBy(c, protected, nowKnown),
         props'.maxCto = props.maxCto, UNCHANGED <<seed, keyLeft>>
  PROVE  PcType' /\ ScriptType' /\ CallType' /\ TodoType' /\ UnlockType' /\ ConnectsFirst'
<1>1. CASE protected # {} /\ c.key = "none"
  <2>1. Raise(c, "RuntimeError") /\ status' = status /\ "RuntimeError" \in Exceptions
    BY <1>1 DEF GoesBy, Exceptions
  <2>2. /\ PcType' /\ ScriptType' /\ CallType' /\ TodoType' /\ ConnectsFirst'
        /\ names' \in Seq(ResourceNames) /\ pc' \notin {"seed", "key"}
    BY <2>1, RaiseTyped
  <2> QED
    BY <2>1, <2>2 DEF TypeInv, UnlockType
<1>2. CASE ~(protected # {} /\ c.key = "none")
  <2>1. /\ script' = Tail(script) /\ pc' = "names" /\ call' = c
        /\ status' = protected /\ names' = Names(c) /\ todo' = todo
    BY <1>2 DEF GoesBy, Begin
  <2>2. names' \in Seq(ResourceNames) /\ script' \in Seq(Calls)
    BY <2>1, NamesTyped, TailTyped DEF TypeInv, ScriptType
  <2>3. pc' \notin {"idle", "transfer", "seed", "key"} \cup Exceptions /\ pc' \in Unlocking
    BY <2>1 DEF Exceptions, Unlocking
  <2> QED
    BY <2>1, <2>2, <2>3
       DEF TypeInv, PcType, ScriptType, CallType, TodoType, UnlockType, ConnectsFirst
<1> QED
  BY <1>1, <1>2

LEMMA UnlockBeginTyped ==
  ASSUME TypeInv, UnlockBegin
  PROVE  TypeInv'
<1> DEFINE c == Head(script)
           p == Packet("getStatus")
<1>1. /\ pc = "idle" /\ script # <<>> /\ c.op = "cond_unlock"
      /\ UNCHANGED <<transport, got, expected, seed, keyLeft, resets>>
  BY DEF UnlockBegin, Calling
<1>2. c \in Calls
  BY <1>1, TailTyped DEF TypeInv, ScriptType
<1>3. props.maxCto # Unknown
  BY <1>1 DEF TypeInv, ConnectsFirst, Exceptions
<1>4. \/ /\ GoesBy(c, UNION props.protection, known) /\ props.protection # {}
         /\ UNCHANGED <<props, channel, slave, refusals, exchanged>>
      \/ \E r \in Reactions(p) :
           /\ Ask(p, r, 1)
           /\ IF Error(r) # "none" THEN GoesBy(c, {}, FALSE) /\ UNCHANGED props
              ELSE GoesBy(c, Reply(r).locked, TRUE) /\ props' = Protection(Reply(r))
  BY DEF UnlockBegin
<1>5. DataType'
  BY <1>1 DEF TypeInv, DataType
<1>6. PacketType(p) /\ p.service = "getStatus" /\ p.service \notin Downloads
  BY DEF PacketType, Packet, Downloads
<1> HIDE DEF c, p
<1>7. CASE GoesBy(c, UNION props.protection, known) /\ UNCHANGED <<props, channel, slave, refusals>>
  <2>1. UNION props.protection \in SUBSET Resources
    BY DEF TypeInv, PropsTyped, TypedProps
  <2>2. PcType' /\ ScriptType' /\ CallType' /\ TodoType' /\ UnlockType' /\ ConnectsFirst'
    BY <1>1, <1>2, <1>3, <1>7, <2>1, GoesByTyped
  <2>3. ChannelType' /\ SlaveType' /\ FaultsType' /\ PropsTyped'
    BY <1>1, <1>7 DEF TypeInv, ChannelType, SlaveType, FaultsType, PropsTyped, channel
  <2> QED
    BY <1>5, <2>2, <2>3 DEF TypeInv
<1>8. ASSUME NEW r \in Reactions(p), Ask(p, r, 1),
             IF Error(r) # "none" THEN GoesBy(c, {}, FALSE) /\ UNCHANGED props
             ELSE GoesBy(c, Reply(r).locked, TRUE) /\ props' = Protection(Reply(r))
      PROVE  TypeInv'
  <2>1. /\ ChannelType' /\ SlaveType' /\ refusals' \in 0 .. MaxRefusals
        /\ Answered(r) \in Seq(Answers)
    BY <1>6, <1>8, AskTyped DEF TypeInv
  <2>2. FaultsType'
    BY <1>1, <2>1 DEF TypeInv, FaultsType
  <2>3. CASE Error(r) # "none"
    <3>1. PcType' /\ ScriptType' /\ CallType' /\ TodoType' /\ UnlockType' /\ ConnectsFirst'
      BY <1>1, <1>2, <1>3, <1>8, <2>3, GoesByTyped
    <3>2. PropsTyped'
      BY <1>8, <2>3 DEF TypeInv, PropsTyped
    <3> QED
      BY <1>5, <2>1, <2>2, <3>1, <3>2 DEF TypeInv
  <2>4. CASE Error(r) = "none"
    <3>1. Reply(r) \in Answers /\ props' = Protection(Reply(r))
      BY <1>8, <2>1, <2>4, ErrorTyped
    <3>2. Reply(r).locked \in SUBSET Resources
      BY <3>1 DEF Answers
    <3>3. Learned("getStatus", Reply(r)) = Protection(Reply(r))
      BY DEF Learned
    <3>4. TypedProps(Protection(Reply(r))) /\ Protection(Reply(r)).maxCto = props.maxCto
      <4>1. TypedProps(Learned("getStatus", Reply(r)))
        BY <1>3, <3>1, LearnedTyped DEF TypeInv
      <4>2. Protection(Reply(r)).maxCto = props.maxCto
        BY DEF Protection, TypeInv, PropsTyped, TypedProps, PropsType
      <4> QED
        BY <3>3, <4>1, <4>2
    <3>5. PcType' /\ ScriptType' /\ CallType' /\ TodoType' /\ UnlockType' /\ ConnectsFirst'
      BY <1>1, <1>2, <1>3, <1>8, <2>4, <3>1, <3>2, <3>4, GoesByTyped
    <3> QED
      BY <1>5, <2>1, <2>2, <3>1, <3>4, <3>5 DEF TypeInv, PropsTyped
  <2> QED
    BY <2>3, <2>4
<1> QED
  BY <1>4, <1>7, <1>8

LEMMA UnlockSkipTyped ==
  ASSUME TypeInv, UnlockSkip
  PROVE  TypeInv'
<1>1. /\ pc = "names"
      /\ UNCHANGED <<transport, got, expected, status, seed, keyLeft, props, channel, slave,
                     faults, exchanged, known>>
  BY DEF UnlockSkip
<1>2. ChannelType' /\ SlaveType' /\ FaultsType' /\ PropsTyped' /\ DataType'
        /\ props.maxCto # Unknown
  BY <1>1 DEF TypeInv, ChannelType, SlaveType, FaultsType, PropsTyped, DataType, channel, faults,
              ConnectsFirst, Exceptions
<1>3. names \in Seq(ResourceNames)
  BY DEF TypeInv, UnlockType
<1>4. CASE names = <<>>
  <2>1. pc' = "idle" /\ call' = NoCall /\ UNCHANGED <<script, todo, names>>
    BY <1>4 DEF UnlockSkip, Return
  <2>2. pc' \notin {"transfer", "seed", "key"} \cup Unlocking
    BY <2>1 DEF Unlocking
  <2> QED
    BY <1>1, <1>2, <2>1, <2>2
       DEF TypeInv, PcType, ScriptType, CallType, TodoType, UnlockType, ConnectsFirst
<1>5. CASE names # <<>> /\ Head(names) \notin Resources
  <2>1. Raise(call, "ValueError") /\ "ValueError" \in Exceptions
    BY <1>5 DEF UnlockSkip, Exceptions
  <2>2. /\ PcType' /\ ScriptType' /\ CallType' /\ TodoType' /\ ConnectsFirst'
        /\ names' \in Seq(ResourceNames) /\ pc' \notin {"seed", "key"}
    BY <2>1, RaiseTyped
  <2>3. UnlockType'
    BY <1>1, <2>2 DEF TypeInv, UnlockType
  <2> QED
    BY <1>2, <2>2, <2>3 DEF TypeInv
<1>6. CASE names # <<>> /\ Head(names) \in Resources
  <2>1. names' = Tail(names) /\ UNCHANGED <<script, pc, call, todo>>
    BY <1>6 DEF UnlockSkip
  <2>2. names' \in Seq(ResourceNames)
    BY <1>3, <1>6, <2>1, TailTyped
  <2> QED
    BY <1>1, <1>2, <2>1, <2>2
       DEF TypeInv, PcType, ScriptType, CallType, TodoType, UnlockType, ConnectsFirst
<1> QED
  BY <1>4, <1>5, <1>6

LEMMA PartTyped ==
  ASSUME NEW a \in Answers
  PROVE  PartOf(a) \in Nat /\ PartOf(a) <= a.size /\ a.size \in Nat
<1>1. a.size \in Nat /\ a.dev \in Devices
  BY DEF Answers
<1> QED
  BY <1>1, DeviceFacts DEF PartOf, LeastOf

LEMMA GoesTyped ==
  ASSUME TypeInv, pc \in Unlocking, names # <<>>, NEW s \in [bytes : Nat, remaining : Int],
         Goes(s), UNCHANGED <<status, props>>
  PROVE  PcType' /\ ScriptType' /\ CallType' /\ TodoType' /\ UnlockType' /\ ConnectsFirst'
<1>1. call \in Calls /\ KeyLength \in 0 .. KeyLength /\ props.maxCto # Unknown
        /\ "SeedNKeyError" \in Exceptions
  BY SessionBounds DEF TypeInv, CallType, ConnectsFirst, Exceptions, Unlocking
<1>2. seed' = s
  BY DEF Goes
<1>3. CASE ~(s.remaining > 0) /\ call.key = "dll fails"
  <2>1. Raise(call, "SeedNKeyError") /\ keyLeft' = keyLeft
    BY <1>3 DEF Goes
  <2>2. /\ PcType' /\ ScriptType' /\ CallType' /\ TodoType' /\ ConnectsFirst'
        /\ names' \in Seq(ResourceNames) /\ pc' \notin {"seed", "key"}
    BY <1>1, <2>1, RaiseTyped
  <2> QED
    BY <1>2, <2>1, <2>2 DEF TypeInv, UnlockType
<1>4. CASE s.remaining > 0 \/ call.key # "dll fails"
  <2>1. /\ pc' \in {"seed", "key"} /\ UNCHANGED <<script, call, todo, names>>
        /\ keyLeft' \in {keyLeft, KeyLength}
    BY <1>4 DEF Goes
  <2>2. pc' \notin {"idle", "transfer"} \cup Exceptions /\ pc' \in Unlocking
          /\ pc \notin {"idle", "transfer"} \cup Exceptions
    BY <2>1 DEF Exceptions, Unlocking
  <2>3. UnlockType'
    BY <1>1, <1>2, <2>1 DEF TypeInv, UnlockType
  <2> QED
    BY <1>1, <2>1, <2>2, <2>3
       DEF TypeInv, PcType, ScriptType, CallType, TodoType, ConnectsFirst
<1> QED
  BY <1>3, <1>4

LEMMA SeedErrorTyped ==
  ASSUME NEW r, Answered(r) \in Seq(Answers)
  PROVE  /\ SeedError(r) \in {"none"} \cup Exceptions
         /\ SeedError(r) = "none" => Reply(r) \in Answers /\ Error(r) = "none"
  BY ErrorTyped DEF SeedError, Exceptions

LEMMA UnlockFirstSeedTyped ==
  ASSUME TypeInv, UnlockFirstSeed
  PROVE  TypeInv'
<1> DEFINE p == [Packet("getSeed") EXCEPT !.name = Head(names)]
<1>1. /\ pc = "names" /\ names # <<>>
      /\ UNCHANGED <<transport, got, expected, status, props, resets, known>>
  BY DEF UnlockFirstSeed
<1>2. PacketType(p) /\ p.service = "getSeed" /\ p.service \notin Downloads
  BY DEF PacketType, Packet, Downloads
<1>3. PICK r \in Reactions(p) :
        /\ Ask(p, r, 1)
        /\ IF SeedError(r) # "none" THEN Raise(call, SeedError(r)) /\ UNCHANGED <<seed, keyLeft>>
           ELSE IF Reply(r).size = 0
             THEN names' = Tail(names) /\ UNCHANGED <<script, pc, call, last, todo, seed, keyLeft>>
           ELSE Goes([bytes |-> PartOf(Reply(r)),
                      remaining |-> IF Reply(r).size > MaxPayload
                                      THEN Reply(r).size - PartOf(Reply(r)) ELSE 0])
  BY DEF UnlockFirstSeed
<1> HIDE DEF p
<1>4. /\ ChannelType' /\ SlaveType' /\ refusals' \in 0 .. MaxRefusals
      /\ Answered(r) \in Seq(Answers)
  BY <1>2, <1>3, AskTyped DEF TypeInv
<1>5. FaultsType' /\ DataType' /\ PropsTyped' /\ props.maxCto # Unknown
  BY <1>1, <1>4 DEF TypeInv, FaultsType, DataType, PropsTyped, ConnectsFirst, Exceptions
<1>6. CASE SeedError(r) # "none"
  <2>1. SeedError(r) \in Exceptions
    BY <1>4, <1>6, SeedErrorTyped
  <2>2. /\ PcType' /\ ScriptType' /\ CallType' /\ TodoType' /\ ConnectsFirst'
        /\ names' \in Seq(ResourceNames) /\ pc' \notin {"seed", "key"}
    BY <1>3, <1>6, <2>1, RaiseTyped
  <2>3. UnlockType'
    BY <1>1, <1>3, <1>6, <2>2 DEF TypeInv, UnlockType
  <2> QED
    BY <1>4, <1>5, <2>2, <2>3 DEF TypeInv
<1>7. CASE SeedError(r) = "none" /\ Reply(r).size = 0
  <2>1. names' = Tail(names) /\ UNCHANGED <<script, pc, call, todo, seed, keyLeft>>
    BY <1>3, <1>7
  <2>2. names' \in Seq(ResourceNames)
    BY <1>1, <2>1, TailTyped DEF TypeInv, UnlockType
  <2> QED
    BY <1>1, <1>4, <1>5, <2>1, <2>2
       DEF TypeInv, PcType, ScriptType, CallType, TodoType, UnlockType, ConnectsFirst
<1>8. CASE SeedError(r) = "none" /\ Reply(r).size # 0
  <2> DEFINE s == [bytes |-> PartOf(Reply(r)),
                   remaining |-> IF Reply(r).size > MaxPayload
                                   THEN Reply(r).size - PartOf(Reply(r)) ELSE 0]
  <2>1. Goes(s)
    BY <1>3, <1>8
  <2>2. PartOf(Reply(r)) \in Nat /\ Reply(r).size \in Nat
    BY <1>4, <1>8, SeedErrorTyped, PartTyped
  <2>3. s \in [bytes : Nat, remaining : Int]
    BY <2>2
  <2> HIDE DEF s
  <2>4. PcType' /\ ScriptType' /\ CallType' /\ TodoType' /\ UnlockType' /\ ConnectsFirst'
    BY <1>1, <2>1, <2>3, GoesTyped DEF Unlocking
  <2> QED
    BY <1>4, <1>5, <2>4 DEF TypeInv
<1> QED
  BY <1>6, <1>7, <1>8

LEMMA UnlockNextSeedTyped ==
  ASSUME TypeInv, UnlockNextSeed
  PROVE  TypeInv'
<1> DEFINE p == [Packet("getSeed") EXCEPT !.name = Head(names), !.length = 1]
<1>1. /\ pc = "seed" /\ names # <<>>
      /\ UNCHANGED <<transport, got, expected, status, props, resets, known>>
  BY DEF UnlockNextSeed, TypeInv, UnlockType
<1>2. PacketType(p) /\ p.service = "getSeed" /\ p.service \notin Downloads
  BY DEF PacketType, Packet, Downloads
<1>3. PICK r \in Reactions(p) :
        /\ Ask(p, r, 1)
        /\ IF SeedError(r) # "none" THEN Raise(call, SeedError(r)) /\ UNCHANGED <<seed, keyLeft>>
           ELSE Goes(SeedReceived(Reply(r)))
  BY DEF UnlockNextSeed
<1> HIDE DEF p
<1>4. /\ ChannelType' /\ SlaveType' /\ refusals' \in 0 .. MaxRefusals
      /\ Answered(r) \in Seq(Answers)
  BY <1>2, <1>3, AskTyped DEF TypeInv
<1>5. FaultsType' /\ DataType' /\ PropsTyped' /\ props.maxCto # Unknown
  BY <1>1, <1>4 DEF TypeInv, FaultsType, DataType, PropsTyped, ConnectsFirst, Exceptions
<1>6. CASE SeedError(r) # "none"
  <2>1. SeedError(r) \in Exceptions
    BY <1>4, <1>6, SeedErrorTyped
  <2>2. /\ PcType' /\ ScriptType' /\ CallType' /\ TodoType' /\ ConnectsFirst'
        /\ names' \in Seq(ResourceNames) /\ pc' \notin {"seed", "key"}
    BY <1>3, <1>6, <2>1, RaiseTyped
  <2>3. UnlockType'
    BY <1>1, <1>3, <1>6, <2>2 DEF TypeInv, UnlockType
  <2> QED
    BY <1>4, <1>5, <2>2, <2>3 DEF TypeInv
<1>7. CASE SeedError(r) = "none"
  <2> DEFINE s == SeedReceived(Reply(r))
  <2>1. Goes(s)
    BY <1>3, <1>7
  <2>2. PartOf(Reply(r)) \in Nat /\ Reply(r).size \in Nat
    BY <1>4, <1>7, SeedErrorTyped, PartTyped
  <2>3. s \in [bytes : Nat, remaining : Int]
    BY <2>2 DEF SeedReceived, TypeInv, UnlockType
  <2> HIDE DEF s
  <2>4. PcType' /\ ScriptType' /\ CallType' /\ TodoType' /\ UnlockType' /\ ConnectsFirst'
    BY <1>1, <2>1, <2>3, GoesTyped DEF Unlocking
  <2> QED
    BY <1>4, <1>5, <2>4 DEF TypeInv
<1> QED
  BY <1>6, <1>7

LEMMA UnlockKeyTyped ==
  ASSUME TypeInv, UnlockKey
  PROVE  TypeInv'
<1> DEFINE p == [Packet("unlock") EXCEPT !.length = keyLeft, !.count = KeyPart(keyLeft),
                                         !.from = seed.bytes]
<1>1. /\ pc = "key" /\ names # <<>>
      /\ UNCHANGED <<transport, got, expected, status, seed, resets, known>>
  BY DEF UnlockKey, TypeInv, UnlockType
<1>2. /\ keyLeft \in 0 .. KeyLength /\ keyLeft \in Nat /\ seed.bytes \in Nat
      /\ props.maxCto \in 4 .. ByteMax /\ props.maxCto # Unknown
      /\ KeyPart(keyLeft) \in Nat /\ KeyPart(keyLeft) <= keyLeft
      /\ KeyRest(keyLeft) \in 0 .. KeyLength
  <2>1. props.maxCto \in 4 .. ByteMax /\ props.maxCto # Unknown
    BY <1>1 DEF TypeInv, ConnectsFirst, Exceptions, PropsTyped, TypedProps, PropsType, Ctos
  <2>2. keyLeft \in 0 .. KeyLength /\ seed.bytes \in Nat
    BY DEF TypeInv, UnlockType
  <2> QED
    <3>1. props.maxCto \in Nat /\ props.maxCto >= 4 /\ KeyLength \in Nat
      BY <2>1, SessionBounds
    <3> QED
      BY <2>1, <2>2, <3>1, SMTT(40) DEF KeyPart, KeyRest, MaxPayload, LeastOf
<1>3. PacketType(p) /\ p.service = "unlock" /\ p.service \notin Downloads
  BY <1>2 DEF PacketType, Packet, Downloads
<1>4. PICK r \in Reactions(p) :
        /\ Ask(p, r, 1)
        /\ IF Error(r) # "none"
             THEN Raise(call, Error(r)) /\ UNCHANGED <<keyLeft, props>>
             ELSE /\ props' = Protection(Reply(r))
                  /\ keyLeft' = KeyRest(keyLeft)
                  /\ IF keyLeft' > 0 THEN UNCHANGED <<pc, names>>
                                     ELSE pc' = "names" /\ names' = Tail(names)
                  /\ UNCHANGED <<script, call, last, todo>>
  BY DEF UnlockKey
<1> HIDE DEF p
<1>5. /\ ChannelType' /\ SlaveType' /\ refusals' \in 0 .. MaxRefusals
      /\ Answered(r) \in Seq(Answers)
  BY <1>3, <1>4, AskTyped DEF TypeInv
<1>6. FaultsType' /\ DataType'
  BY <1>1, <1>5 DEF TypeInv, FaultsType, DataType
<1>7. CASE Error(r) # "none"
  <2>1. Error(r) \in Exceptions
    BY <1>5, <1>7, ErrorTyped
  <2>2. /\ PcType' /\ ScriptType' /\ CallType' /\ TodoType' /\ ConnectsFirst'
        /\ names' \in Seq(ResourceNames) /\ pc' \notin {"seed", "key"}
    BY <1>4, <1>7, <2>1, RaiseTyped
  <2>3. UnlockType' /\ PropsTyped'
    BY <1>1, <1>4, <1>7, <2>2 DEF TypeInv, UnlockType, PropsTyped
  <2> QED
    BY <1>5, <1>6, <2>2, <2>3 DEF TypeInv
<1>8. CASE Error(r) = "none"
  <2>1. /\ props' = Protection(Reply(r)) /\ keyLeft' = KeyRest(keyLeft)
        /\ UNCHANGED <<script, call, todo>>
        /\ pc' \in {"key", "names"} /\ names' \in {names, Tail(names)}
        /\ pc' = "key" => names' = names
    BY <1>1, <1>4, <1>8
  <2>2. Reply(r) \in Answers
    BY <1>5, <1>8, ErrorTyped
  <2>3. TypedProps(props') /\ props'.maxCto # Unknown
    <3>1. Learned("getStatus", Reply(r)) = Protection(Reply(r))
      BY DEF Learned
    <3>2. TypedProps(Learned("getStatus", Reply(r)))
      BY <1>2, <2>2, LearnedTyped DEF TypeInv
    <3>3. Protection(Reply(r)).maxCto = props.maxCto
      BY DEF Protection, TypeInv, PropsTyped, TypedProps, PropsType
    <3> QED
      BY <1>2, <2>1, <3>1, <3>2, <3>3
  <2>4. pc' \notin {"idle", "transfer", "seed"} \cup Exceptions /\ pc' \in Unlocking
    BY <2>1 DEF Exceptions, Unlocking
  <2>5. names' \in Seq(ResourceNames) /\ (pc' \in {"seed", "key"} => names' # <<>>)
    <3>1. names \in Seq(ResourceNames) /\ names # <<>>
      BY <1>1 DEF TypeInv, UnlockType
    <3>2. Tail(names) \in Seq(ResourceNames)
      BY <3>1, TailTyped
    <3> QED
      BY <2>1, <2>4, <3>1, <3>2
  <2>6. UnlockType' /\ PropsTyped' /\ ConnectsFirst'
    BY <1>1, <1>2, <2>1, <2>3, <2>5 DEF TypeInv, UnlockType, PropsTyped, ConnectsFirst
  <2>7. PcType' /\ ScriptType' /\ CallType' /\ TodoType'
    BY <1>1, <2>1, <2>4 DEF TypeInv, PcType, ScriptType, CallType, TodoType, Unlocking
  <2> QED
    BY <1>5, <1>6, <2>6, <2>7 DEF TypeInv
<1> QED
  BY <1>7, <1>8

-----------------------------------------------------------------------------
(* Session.TypeOK: every variable holds what its type says, and what a call *)
(* keeps exists exactly while the call runs.                               *)
LEMMA NextTyped ==
  ASSUME TypeInv, [Next]_vars
  PROVE  TypeInv'
<1>1. CASE Connect \/ GetCommModeInfo \/ GetStatus \/ ProgramStart \/ Disconnect \/ SetMta
             \/ AnyService
  BY <1>1, OneRequestsTyped
<1>2. CASE UNCHANGED vars
  BY <1>2
     DEF vars, TypeInv, PcType, ScriptType, CallType, TodoType, DataType, UnlockType, PropsTyped,
         ChannelType, SlaveType, FaultsType, ConnectsFirst, transferVars, unlockVars, channel,
         faults
<1> QED
  BY <1>1, <1>2, TransferBeginTyped, RequestPacketTyped, BlockRequestTyped, ArrivesTyped,
     UnlockBeginTyped, UnlockSkipTyped, UnlockFirstSeedTyped, UnlockNextSeedTyped, UnlockKeyTyped,
     RestartedTyped DEF Next

THEOREM SessionTypes == Spec => []TypeInv
<1> QED
  BY InitTyped, NextTyped, PTL DEF Spec

LEMMA TypesOK ==
  ASSUME TypeInv
  PROVE  TypeOK
<1>1. NoCall \notin Remembering /\ NoCall \notin Calls
  <2>1. NoCall # [NoCall EXCEPT !.how = "other"]
    BY DEF NoCall
  <2> QED
    BY DEF NoCall, Remembering, Calls
<1>2. (call = NoCall) = (pc \in {"idle"} \cup Exceptions)
  BY <1>1 DEF TypeInv, PcType, CallType, Unlocking
<1>3. \A i \in 1 .. Len(todo) : todo[i].count \in 0 .. ByteMax /\ todo[i].from \in Nat
  <2>1. \A i \in 1 .. Len(todo) : todo[i] \in Chunks
    BY DEF TypeInv, TodoType
  <2> QED
    BY <2>1 DEF Chunks
<1>5. /\ slave.dev \in Devices /\ slave.mta \in Nat /\ slave.block \in Nat
      /\ slave.locked \subseteq slave.dev.protects /\ slave.keyGot \in 0 .. KeyLength
  BY SlaveFacts DEF TypeInv, SlaveType
<1> QED
  BY <1>2, <1>3, <1>5
     DEF TypeInv, TypeOK, PcType, TodoType, DataType, UnlockType, PropsTyped, TypedProps,
         FaultsType, Unlocking, ResourceNames

THEOREM SessionTypeCorrect == Spec => []TypeOK
<1> QED
  BY SessionTypes, TypesOK, PTL

-----------------------------------------------------------------------------
(* The answers that nobody has taken.  Before a call, and while            *)
(* cond_unlock() runs, there are none: an answer that was left behind      *)
(* would be taken for the next one.  A block leaves only errors, and those *)
(* are noticed before the transfer returns.                                *)
Quiet ==
  /\ pc \in {"idle"} \cup Unlocking => Waiting = <<>>
  /\ pc = "transfer" =>
       /\ \A i \in 1 .. Len(Waiting) : Waiting[i].error # "none"
       /\ call.op \in {"fetch", "verify"} => Waiting = <<>>

(* What connect() learned is what the slave is that answers.               *)
Met == slave.connected \/ (pc = "transfer" /\ Waiting # <<>>)
Match ==
  Met => /\ props.order = slave.dev.order /\ props.bytes = slave.dev.bytes
         /\ props.maxCto = slave.dev.maxCto

OrdersAgree ==
  exchanged = NoExchange \/
    /\ exchanged.parsed = exchanged.spoken
    /\ exchanged.service = "connect" \/ exchanged.packed = exchanged.spoken

(* A result is there only between two calls.                               *)
Finished == last.how = "returned" => pc = "idle"

(* The packets of a transfer that are left: each begins where the one      *)
(* before it ended, the last one ends at n and is waited for.  A write     *)
(* that is not waited for is never the end of its block.                   *)
Writes == {p \in Chunks : p.service \in Downloads /\ (p.wait \/ p.count < p.length)}
Reads ==
  {p \in Chunks : p.service = "upload" /\ p.wait /\ p.length = p.count /\ p.count >= 1}
Start(s, n) == IF s = <<>> THEN n ELSE Head(s).from
Chain(K, s, n) ==
  /\ s \in Seq(K)
  /\ \A i \in 1 .. Len(s) :
       s[i].from + s[i].count = IF i = Len(s) THEN n ELSE s[i + 1].from
  /\ s # <<>> => s[Len(s)].wait

(* The slave has executed everything it was sent; if not, an error is on   *)
(* its way or no answer will come.                                         *)
Alive == slave.connected /\ Waiting = <<>>
HeldIn(m, a, n) == [i \in 1 .. n |-> m[a + i - 1]]
Held(a, n) == HeldIn(slave.memory, a, n)
Half(c, k) ==
  [a \in Memory |-> IF a \in c.at .. c.at + k - 1 THEN Value(a - c.at) ELSE c.before[a]]

PushLeft ==
  \/ /\ Head(todo) = Address(call.at) /\ Chain(Writes, Tail(todo), call.n)
     /\ Start(Tail(todo), call.n) = 0
     /\ Alive => slave.memory = call.before
  \/ /\ Chain(Writes, todo, call.n)
     /\ Alive => /\ slave.mta = call.at + Start(todo, call.n)
                 /\ slave.memory = Half(call, Start(todo, call.n))
FetchLeft ==
  /\ Chain(Reads, todo, call.n)
  /\ slave.connected /\ props.bytes = 1 =>
       LET k == Start(todo, call.n)
       IN  slave.mta = call.mta + k /\ got = Held(call.mta, k)
Sum(c) == Chunk("buildChecksum", c.n, 0, 0, TRUE)
(* The four stages of a verify(): the packet that is sent next.            *)
SumFirst == \E s \in {Without(todo, 3)} :
  /\ todo = <<Address(call.at), Sum(call), Address(call.at)>> \o s
  /\ Chain(Reads, s, call.n) /\ Start(s, call.n) = 0 /\ got = <<>>
SumNext == \E s \in {Without(todo, 2)} :
  /\ todo = <<Sum(call), Address(call.at)>> \o s
  /\ Chain(Reads, s, call.n) /\ Start(s, call.n) = 0 /\ got = <<>>
  /\ slave.connected => slave.mta = call.at
ReadFirst ==
  /\ Head(todo) = Address(call.at)
  /\ Chain(Reads, Tail(todo), call.n) /\ Start(Tail(todo), call.n) = 0 /\ got = <<>>
  /\ slave.connected => expected = Held(call.at, call.n)
ReadNext ==
  /\ Chain(Reads, todo, call.n)
  /\ slave.connected => expected = Held(call.at, call.n)
  /\ slave.connected /\ props.bytes = 1 =>
       LET k == Start(todo, call.n)
       IN  slave.mta = call.at + k /\ got = Held(call.at, k)
VerifyLeft == SumFirst \/ SumNext \/ ReadFirst \/ ReadNext
TransferLeft ==
  pc = "transfer" =>
    /\ call.op \in {"push", "flash_program"} => PushLeft
    /\ call.op = "fetch" => FetchLeft
    /\ call.op = "verify" => VerifyLeft

(* cond_unlock().                                                          *)
Admitted == known => \A s \in props.protection : slave.locked \subseteq s
NamesDone ==
  \E k \in 0 .. Len(Names(call)) :
    /\ names = SubSeq(Names(call), k + 1, Len(Names(call)))
    /\ known => \A i \in 1 .. k : Names(call)[i] \notin slave.locked
UnlockLeft ==
  /\ pc \in Unlocking =>
       call.op = "cond_unlock" /\ NamesDone /\ (known => slave.locked \subseteq status)
  /\ pc \in {"seed", "key"} /\ slave.connected => Head(names) \in slave.asked
  /\ pc = "seed" /\ slave.connected => slave.keyGot = 0
  /\ pc = "key" => keyLeft > 0
  /\ pc = "key" /\ slave.connected => slave.keyGot = KeyLength - keyLeft

Safe ==
  /\ Quiet /\ Match /\ OrdersAgree /\ Finished /\ TransferLeft /\ TransfersExact
  /\ Admitted /\ UnlockLeft /\ UnlockWhole
SessionInv == TypeInv /\ Safe

-----------------------------------------------------------------------------
(* External: what a packet does to the slave, as far as safety goes.       *)
LEMMA FailsFacts ==
  ASSUME SlaveType, NEW e \in ErrorCodes \ {"none"}
  PROVE  /\ Fails(e).slave = [slave EXCEPT !.block = 0]
         /\ Fails(e).answers = <<[Answer EXCEPT !.error = e]>>
         /\ [Answer EXCEPT !.error = e].error = e
  BY DEF Fails, Answer

LEMMA SlaveKeeps ==
  ASSUME SlaveType
  PROVE  /\ \A n \in Nat : /\ [slave EXCEPT !.block = n].connected = slave.connected
                           /\ [slave EXCEPT !.block = n].locked = slave.locked
                           /\ [slave EXCEPT !.block = n].asked = slave.asked
                           /\ [slave EXCEPT !.block = n].keyGot = slave.keyGot
                           /\ [slave EXCEPT !.block = n].memory = slave.memory
                           /\ [slave EXCEPT !.block = n].mta = slave.mta
         /\ \A n \in Nat : /\ [slave EXCEPT !.mta = n].connected = slave.connected
                           /\ [slave EXCEPT !.mta = n].locked = slave.locked
                           /\ [slave EXCEPT !.mta = n].asked = slave.asked
                           /\ [slave EXCEPT !.mta = n].keyGot = slave.keyGot
                           /\ [slave EXCEPT !.mta = n].memory = slave.memory
                           /\ [slave EXCEPT !.mta = n].mta = n
  BY DEF SlaveType, Slaves

LEMMA Deaf ==
  ASSUME SlaveType, ~slave.connected, NEW p, p.service # "connect", NEW r \in Reactions(p)
  PROVE  r.answers = <<>> /\ r.slave = slave
<1>1. r = Reaction(Executed(p), 0)
  BY DEF Reactions
<1>2. Executed(p) = Silent(slave)
  BY DEF Executed
<1> QED
  BY <1>1, <1>2 DEF Reaction, Silent

(* Every answer is to one packet, but for those of a long upload.          *)
OneOrNone(answers) == answers = <<>> \/ \E a : answers = <<a>>
LEMMA SingleAnswer ==
  ASSUME NEW p, p.service # "upload", NEW r \in Reactions(p)
  PROVE  OneOrNone(r.answers)
<1>1. /\ \A e : OneOrNone(Fails(e).answers)
      /\ \A s : OneOrNone(Does(s).answers) /\ OneOrNone(Silent(s).answers)
      /\ \A s : OneOrNone(SeedPart(s).answers)
  BY DEF OneOrNone, Fails, Does, Silent, SeedPart
<1>2. OneOrNone(First(p).answers) /\ OneOrNone(Next_(p).answers)
  BY <1>1 DEF First, Next_
<1>3. OneOrNone(Seed(p).answers)
  BY <1>1 DEF Seed
<1>4. OneOrNone(Key(p).answers)
  <2>1. [Fails("ACCESS_LOCKED") EXCEPT !.slave.connected = FALSE].answers
          = Fails("ACCESS_LOCKED").answers
    BY DEF Fails
  <2> QED
    BY <1>1, <2>1 DEF Key
<1>5. OneOrNone(Executed(p).answers)
  <2>1. \A a : OneOrNone([slave |-> [slave EXCEPT !.mta = @ + p.length], answers |-> <<a>>].answers)
    BY DEF OneOrNone
  <2> QED
    BY <1>1, <1>2, <1>3, <1>4, <2>1 DEF Executed
<1> QED
  BY <1>1, <1>5 DEF Reactions, Reaction

(* Only connect() connects, disconnect() and unlock() change what is       *)
(* locked, and UNLOCK unlocks only what a seed was asked for.              *)
Keeps(s) == s.connected = slave.connected /\ s.locked = slave.locked

LEMMA WrittenKeeps ==
  ASSUME SlaveType, NEW p
  PROVE  Keeps(Written(p)) /\ Written(p).asked = slave.asked /\ Written(p).keyGot = slave.keyGot
  BY DEF Written, Keeps, SlaveType, Slaves

LEMMA FailsKeeps ==
  ASSUME SlaveType
  PROVE  \A e : Keeps(Fails(e).slave)
  BY DEF Fails, Keeps, SlaveType, Slaves

LEMMA SeedKeeps ==
  ASSUME SlaveType, NEW p
  PROVE  Keeps(Seed(p).slave)
<1>1. Keeps(SeedPart(slave).slave)
  BY DEF SeedPart, Keeps, SlaveType, Slaves
<1>2. Keeps(SeedPart([slave EXCEPT !.asked = {}, !.seedLeft = 0]).slave)
  BY DEF SeedPart, Keeps, SlaveType, Slaves
<1>3. Keeps(SeedPart([slave EXCEPT !.asked = {p.name}, !.seedLeft = slave.dev.seed,
                                   !.keyGot = 0]).slave)
  BY DEF SeedPart, Keeps, SlaveType, Slaves
<1> QED
  BY <1>1, <1>2, <1>3, FailsKeeps DEF Seed

LEMMA UploadedKeeps ==
  ASSUME SlaveType, NEW p
  PROVE  Keeps(Uploaded(p).slave)
<1>1. Keeps([slave EXCEPT !.mta = @ + p.length])
  BY DEF Keeps, SlaveType, Slaves
<1> QED
  BY <1>1, FailsKeeps DEF Uploaded

LEMMA Steady ==
  ASSUME SlaveType, NEW p, p.service \notin {"connect", "disconnect", "unlock"},
         NEW r \in Reactions(p)
  PROVE  Keeps(r.slave)
<1>1. Keeps(slave) /\ Keeps([slave EXCEPT !.mta = p.from])
        /\ Keeps([slave EXCEPT !.mta = @ + p.length])
  BY DEF Keeps, SlaveType, Slaves
<1>2. Keeps(First(p).slave) /\ Keeps(Next_(p).slave)
  BY WrittenKeeps, FailsKeeps DEF First, Next_, Does, Silent
<1>3. Keeps(Executed(p).slave)
  BY <1>1, <1>2, SeedKeeps, UploadedKeeps, FailsKeeps DEF Executed, Does, Silent
<1> QED
  BY <1>3, FailsKeeps DEF Reactions, Reaction

LEMMA DoesFacts ==
  ASSUME NEW s
  PROVE  /\ Does(s).slave = s /\ Does(s).answers # <<>>
         /\ Head(Does(s).answers).error = "none" /\ Head(Does(s).answers).locked = s.locked
<1> DEFINE a == [Answer EXCEPT !.locked = s.locked]
<1>1. a.error = "none" /\ a.locked = s.locked
  BY DEF Answer
<1>2. Does(s).slave = s /\ Does(s).answers = <<a>>
  BY DEF Does
<1> HIDE DEF a
<1> QED
  BY <1>1, <1>2

LEMMA FailsAnswer ==
  ASSUME NEW e
  PROVE  Fails(e).answers # <<>> /\ Head(Fails(e).answers).error = e
<1> DEFINE a == [Answer EXCEPT !.error = e]
<1>1. a.error = e
  BY DEF Answer
<1>2. Fails(e).answers = <<a>>
  BY DEF Fails
<1> HIDE DEF a
<1> QED
  BY <1>1, <1>2

LEMMA ReactionFacts ==
  ASSUME NEW p, NEW r \in Reactions(p)
  PROVE  \/ r.slave = Executed(p).slave /\ r.answers = Executed(p).answers
         \/ /\ slave.connected
            /\ r.slave = Fails("ACCESS_DENIED").slave /\ r.answers = Fails("ACCESS_DENIED").answers
<1>1. r = Reaction(Executed(p), 0) \/ (r = Reaction(Fails("ACCESS_DENIED"), 1) /\ slave.connected)
  BY DEF Reactions
<1> QED
  BY <1>1 DEF Reaction

LEMMA Connects ==
  ASSUME SlaveType, NEW p, p.service = "connect", NEW r \in Reactions(p)
  PROVE  /\ r.slave.connected /\ r.slave.locked = slave.locked /\ r.answers # <<>>
         /\ Head(r.answers).error = "none" \/ slave.connected
<1>1. CASE r.slave = Executed(p).slave /\ r.answers = Executed(p).answers
  <2> DEFINE s == [slave EXCEPT !.connected = TRUE, !.block = 0]
  <2>1. Executed(p) = Does(s)
    BY DEF Executed
  <2>2. s.connected /\ s.locked = slave.locked
    BY DEF SlaveType, Slaves
  <2> HIDE DEF s
  <2> QED
    BY <1>1, <2>1, <2>2, DoesFacts
<1>2. CASE /\ slave.connected
           /\ r.slave = Fails("ACCESS_DENIED").slave /\ r.answers = Fails("ACCESS_DENIED").answers
  <2>1. Keeps(Fails("ACCESS_DENIED").slave) /\ Fails("ACCESS_DENIED").answers # <<>>
    BY FailsKeeps, FailsAnswer
  <2> QED
    BY <1>2, <2>1 DEF Keeps
<1> QED
  BY <1>1, <1>2, ReactionFacts

LEMMA Disconnects ==
  ASSUME SlaveType, NEW p, p.service = "disconnect", NEW r \in Reactions(p)
  PROVE  /\ r.slave.connected => slave.connected
         /\ \/ r.answers # <<>> /\ Head(r.answers).error = "none"
            \/ r.slave.locked = slave.locked
<1>1. CASE ~slave.connected
  BY <1>1, Deaf
<1>2. CASE slave.connected /\ r.slave = Executed(p).slave /\ r.answers = Executed(p).answers
  <2> DEFINE s == [slave EXCEPT !.connected = FALSE, !.locked = slave.dev.protects]
  <2>1. Executed(p) = Does(s)
    BY <1>2 DEF Executed
  <2> HIDE DEF s
  <2> QED
    BY <1>2, <2>1, DoesFacts
<1>3. CASE /\ slave.connected
           /\ r.slave = Fails("ACCESS_DENIED").slave /\ r.answers = Fails("ACCESS_DENIED").answers
  <2>1. Keeps(Fails("ACCESS_DENIED").slave)
    BY FailsKeeps
  <2> QED
    BY <1>3, <2>1 DEF Keeps
<1> QED
  BY <1>1, <1>2, <1>3, ReactionFacts

LEMMA StatusAnswered ==
  ASSUME SlaveType, NEW p, p.service = "getStatus", NEW r \in Reactions(p), r.answers # <<>>
  PROVE  Head(r.answers).locked = slave.locked
<1>1. slave.connected
  BY Deaf
<1>2. Executed(p) = Does(slave)
  BY <1>1 DEF Executed, Downloads
<1> QED
  BY <1>2 DEF Reactions, Reaction, Does, Fails, Answer

-----------------------------------------------------------------------------
(* The channel: an answer that arrives only moves; a request that meets no *)
(* answer takes its own and leaves none behind.                            *)
LEMMA Moved ==
  ASSUME NEW Items, NEW s \in Seq(Items), NEW t \in Seq(Items), t # <<>>
  PROVE  Append(s, Head(t)) \o Tail(t) = s \o t
<1> DEFINE one == Append(s, Head(t)) \o Tail(t)
           two == s \o t
<1>1. /\ one \in Seq(Items) /\ two \in Seq(Items)
      /\ Len(one) = Len(s) + Len(t) /\ Len(two) = Len(s) + Len(t)
  OBVIOUS
<1>2. \A i \in 1 .. Len(s) + Len(t) : one[i] = two[i]
  OBVIOUS
<1> HIDE DEF one, two
<1>3. one = two
  BY <1>1, <1>2, SeqEqual
<1> QED
  BY <1>3 DEF one, two

LEMMA ArrivesWaiting ==
  ASSUME ChannelType, Arrives
  PROVE  Waiting' = Waiting
<1>1. /\ resQueue \in Seq(Answers) /\ wire \in Seq(Answers) /\ wire # <<>>
      /\ resQueue' = Append(resQueue, Head(wire)) /\ wire' = Tail(wire)
  BY DEF ChannelType, Arrives
<1>2. Append(resQueue, Head(wire)) \o Tail(wire) = resQueue \o wire
  BY <1>1, Moved
<1> QED
  BY <1>1, <1>2 DEF Waiting

LEMMA AnsweredIs ==
  ASSUME ChannelType, NEW r, r.answers \in Seq(Answers), Waiting = <<>>
  PROVE  Answered(r) = r.answers
<1>1. <<>> \o r.answers = r.answers
  OBVIOUS
<1> QED
  BY <1>1 DEF Answered, Waiting

LEMMA NothingLeft ==
  ASSUME NEW answers, OneOrNone(answers)
  PROVE  Without(answers, 1) = <<>>
<1>1. CASE answers = <<>>
  <2>1. SubSeq(<<>>, 2, 0) = <<>>
    BY SubSeqEmpty
  <2>2. Without(<<>>, 1) = SubSeq(<<>>, 2, 0)
    BY DEF Without
  <2> QED
    BY <1>1, <2>1, <2>2
<1>2. ASSUME NEW a, answers = <<a>> PROVE Without(answers, 1) = <<>>
  <2>1. SubSeq(<<a>>, 2, 1) = <<>>
    BY SubSeqEmpty
  <2>2. Without(<<a>>, 1) = SubSeq(<<a>>, 2, 1)
    BY DEF Without
  <2> QED
    BY <1>2, <2>1, <2>2
<1> QED
  BY <1>1, <1>2 DEF OneOrNone

LEMMA AskedAlone ==
  ASSUME TypeInv, Waiting = <<>>, NEW p, PacketType(p), p.service # "upload",
         p.service \in Downloads => p.count <= p.length,
         NEW r \in Reactions(p), Ask(p, r, 1)
  PROVE  Answered(r) = r.answers /\ Waiting' = <<>> /\ ReactionTyped(r) /\ OneOrNone(r.answers)
<1>1. ReactionTyped(r)
  BY ReactionsTyped DEF TypeInv
<1>2. Answered(r) = r.answers
  BY <1>1, AnsweredIs DEF TypeInv, ReactionTyped
<1>3. Waiting' = Without(Answered(r), 1)
  BY AskTyped DEF TypeInv
<1>4. OneOrNone(r.answers)
  BY SingleAnswer
<1> QED
  BY <1>1, <1>2, <1>3, <1>4, NothingLeft

-----------------------------------------------------------------------------
(* The steps that are one request.                                         *)
LEMMA AskOrders ==
  ASSUME TypeInv, Match, NEW p, NEW r, NEW n, Ask(p, r, n),
         Answered(r) = <<>> \/ p.service = "connect" \/ Met
  PROVE  OrdersAgree'
<1>1. exchanged' = IF Answered(r) = <<>> THEN NoExchange
                   ELSE [service |-> p.service, packed |-> props.packers,
                         parsed |-> IF p.service = "connect" THEN slave.dev.order ELSE props.order,
                         spoken |-> slave.dev.order]
  BY DEF Ask
<1>2. props.order = props.packers
  BY DEF TypeInv, PropsTyped, TypedProps
<1>3. CASE Answered(r) = <<>>
  BY <1>1, <1>3 DEF OrdersAgree
<1>4. CASE Answered(r) # <<>>
  <2>1. Met => props.order = slave.dev.order
    BY DEF Match
  <2> QED
    BY <1>1, <1>2, <1>4, <2>1 DEF OrdersAgree
<1> QED
  BY <1>3, <1>4

(* When nothing runs, and nothing has returned a transfer or an unlocking. *)
LEMMA NothingRuns ==
  ASSUME pc' \in {"idle"} \cup Exceptions, Waiting' = <<>> \/ pc' # "idle",
         last'.how = "returned" =>
           pc' = "idle" /\ last'.call.op \notin TransferOps \cup {"cond_unlock"}
  PROVE  /\ Quiet' /\ Finished' /\ TransferLeft' /\ TransfersExact' /\ UnlockLeft' /\ UnlockWhole'
<1>1. pc' \notin {"transfer"} \cup Unlocking
  BY DEF Exceptions, Unlocking
<1>2. "idle" \notin Unlocking
  BY DEF Unlocking
<1>3. Quiet' /\ Finished' /\ TransferLeft' /\ UnlockLeft'
  BY <1>1, <1>2 DEF Quiet, Finished, TransferLeft, UnlockLeft, Unlocking
<1>4. TransfersExact' /\ UnlockWhole'
  BY DEF TransfersExact, PushExact, FetchExact, VerifyExact, UnlockWhole, Returned, TransferOps
<1> QED
  BY <1>3, <1>4

LEMMA OneRequestSafe ==
  ASSUME TypeInv, Safe, pc = "idle", script # <<>>, NEW p, PacketType(p),
         p.service \notin Downloads \cup {"upload", "unlock"},
         OneRequest(p), Head(script).op \notin TransferOps \cup {"cond_unlock"}
  PROVE  Safe'
<1>0. PICK r \in Reactions(p) :
      /\ Ask(p, r, 1)
      /\ IF Error(r) # "none"
           THEN Raise(Head(script), Error(r)) /\ UNCHANGED <<props, known>>
           ELSE /\ Begin /\ Return(Head(script))
                /\ props' = Learned(p.service, Reply(r))
                /\ known' = (p.service = "getStatus" \/ (known /\ p.service # "disconnect"))
                /\ UNCHANGED <<todo, names>>
  BY DEF OneRequest
<1>1. Waiting = <<>>
  BY DEF Safe, Quiet
<1>2. Answered(r) = r.answers /\ Waiting' = <<>> /\ ReactionTyped(r) /\ OneOrNone(r.answers)
  BY <1>0, <1>1, AskedAlone
<1>3. slave' = r.slave /\ slave'.dev = slave.dev
  BY <1>0, <1>2 DEF Ask, ReactionTyped
<1>4. SlaveType
  BY DEF TypeInv
<1>5. Error(r) \in {"none"} \cup Exceptions
        /\ (Error(r) = "none" => r.answers # <<>> /\ Reply(r) = Head(r.answers)
                                   /\ Reply(r).error = "none" /\ Reply(r) \in Answers)
        /\ (Error(r) # "none" => r.answers = <<>> \/ Head(r.answers).error # "none")
  BY <1>2, ErrorTyped DEF ReactionTyped, Error, Reply
<1>6. OrdersAgree'
  <2>1. r.answers = <<>> \/ p.service = "connect" \/ slave.connected
    BY <1>4, Deaf
  <2> QED
    BY <1>0, <1>2, <2>1, AskOrders DEF Met, Safe
<1>7. /\ pc' \in {"idle"} \cup Exceptions
      /\ last'.how = "returned" =>
           pc' = "idle" /\ last'.call.op \notin TransferOps \cup {"cond_unlock"}
  BY <1>0, <1>5 DEF Raise, Return
<1>8. /\ Quiet' /\ Finished' /\ TransferLeft' /\ TransfersExact' /\ UnlockLeft' /\ UnlockWhole'
  BY <1>2, <1>7, NothingRuns
<1>9. Match'
  <2>1. Met' => r.slave.connected
    BY <1>2, <1>3 DEF Met
  <2>2. CASE p.service = "connect" /\ Error(r) = "none"
    <3>1. props' = Connected(Reply(r)) /\ Reply(r).dev = slave.dev
      BY <1>0, <1>2, <1>5, <2>2 DEF ReactionTyped, Learned
    <3>2. Connected(Reply(r)).order = Reply(r).dev.order /\ Connected(Reply(r)).bytes = Reply(r).dev.bytes
            /\ Connected(Reply(r)).maxCto = Reply(r).dev.maxCto
      BY DEF Connected, TypeInv, PropsTyped, TypedProps, PropsType
    <3> QED
      BY <1>3, <3>1, <3>2 DEF Match
  <2>3. CASE ~(p.service = "connect" /\ Error(r) = "none")
    <3>1. r.slave.connected => slave.connected
      BY <1>4, <1>5, <2>3, Connects, Disconnects, Steady DEF Keeps
    <3>2. props'.order = props.order /\ props'.bytes = props.bytes /\ props'.maxCto = props.maxCto
      <4>1. props' = props \/ props' = CommMode(Reply(r)) \/ props' = Protection(Reply(r))
              \/ props' = Programming(Reply(r))
        BY <1>0, <2>3 DEF Learned
      <4>2. props \in PropsType
        BY DEF TypeInv, PropsTyped, TypedProps
      <4>3. CASE props' = CommMode(Reply(r))
        BY <4>2, <4>3 DEF CommMode, PropsType
      <4>4. CASE props' = Protection(Reply(r))
        BY <4>2, <4>4 DEF Protection, PropsType
      <4>5. CASE props' = Programming(Reply(r))
        BY <4>2, <4>5 DEF Programming, PropsType
      <4> QED
        BY <4>1, <4>3, <4>4, <4>5
    <3> QED
      BY <1>3, <2>1, <3>1, <3>2 DEF Match, Met, Safe
  <2> QED
    BY <2>2, <2>3
<1>10. Admitted'
  <2>1. CASE p.service = "getStatus" /\ Error(r) = "none"
    <3>1. props' = Protection(Reply(r)) /\ Reply(r).locked = slave.locked
      BY <1>0, <1>4, <1>5, <2>1, StatusAnswered DEF Learned
    <3>2. Protection(Reply(r)).protection = {Reply(r).locked}
      BY DEF Protection, TypeInv, PropsTyped, TypedProps, PropsType
    <3>3. r.slave.locked = slave.locked
      BY <1>4, <2>1, Steady DEF Keeps
    <3> QED
      BY <1>3, <3>1, <3>2, <3>3 DEF Admitted
  <2>2. CASE p.service = "disconnect" /\ Error(r) = "none"
    BY <1>0, <2>2 DEF Admitted
  <2>3. CASE ~(p.service \in {"getStatus", "disconnect"} /\ Error(r) = "none")
    <3>1. r.slave.locked = slave.locked
      BY <1>4, <1>5, <2>3, Connects, Disconnects, Steady DEF Keeps
    <3>2. props'.protection = props.protection
      <4>1. props' = props \/ props' = CommMode(Reply(r)) \/ props' = Connected(Reply(r))
              \/ props' = Programming(Reply(r))
        BY <1>0, <2>3 DEF Learned
      <4> QED
        BY <4>1 DEF CommMode, Connected, Programming, TypeInv, PropsTyped, TypedProps, PropsType
    <3>3. known' => known
      BY <1>0, <2>3
    <3> QED
      BY <1>3, <3>1, <3>2, <3>3 DEF Admitted, Safe
  <2> QED
    BY <2>1, <2>2, <2>3
<1> QED
  BY <1>6, <1>8, <1>9, <1>10 DEF Safe

LEMMA OneRequestsSafe ==
  ASSUME TypeInv, Safe, Connect \/ GetCommModeInfo \/ GetStatus \/ ProgramStart \/ Disconnect
                          \/ SetMta \/ AnyService
  PROVE  Safe'
<1> DEFINE Apart == Downloads \cup {"upload", "unlock"}
           Long == TransferOps \cup {"cond_unlock"}
<1>1. \A service : PacketType(Packet(service)) /\ Packet(service).service = service
  BY DEF PacketType, Packet
<1>2. CASE Connect \/ GetCommModeInfo \/ GetStatus \/ ProgramStart \/ Disconnect
  <2>1. /\ pc = "idle" /\ script # <<>> /\ Head(script).op \notin Long
        /\ \/ OneRequest(Packet("connect")) \/ OneRequest(Packet("getCommModeInfo"))
           \/ OneRequest(Packet("getStatus")) \/ OneRequest(Packet("programStart"))
           \/ OneRequest(Packet("disconnect"))
    BY <1>2 DEF Connect, GetCommModeInfo, GetStatus, ProgramStart, Disconnect, Calling, TransferOps
  <2>2. ASSUME NEW service \in {"connect", "getCommModeInfo", "getStatus", "programStart",
                                "disconnect"},
               OneRequest(Packet(service))
        PROVE  Safe'
    <3>1. PacketType(Packet(service)) /\ Packet(service).service \notin Apart
      BY <1>1 DEF Downloads
    <3> QED
      BY <2>1, <2>2, <3>1, OneRequestSafe
  <2> QED
    BY <2>1, <2>2
<1>3. CASE SetMta
  <2> DEFINE p == [Packet("setMta") EXCEPT !.from = Head(script).at]
  <2>1. pc = "idle" /\ script # <<>> /\ Head(script).op \notin Long
    BY <1>3 DEF Calling, SetMta, TransferOps
  <2>2. Head(script) \in Calls
    BY <2>1, TailTyped DEF TypeInv, ScriptType
  <2>3. Head(script).at \in Nat
    BY <2>2 DEF Calls
  <2>4. PacketType(p) /\ p.service \notin Apart /\ OneRequest(p)
    BY <1>3, <2>3 DEF PacketType, Packet, SetMta, Downloads
  <2> HIDE DEF p
  <2> QED
    BY <2>1, <2>4, OneRequestSafe
<1>4. CASE AnyService
  <2>1. pc = "idle" /\ script # <<>> /\ Head(script).op \notin Long
    BY <1>4 DEF Calling, AnyService, TransferOps
  <2>2. PICK name \in DOMAIN Service \ Special : OneRequest(Packet(name))
    BY <1>4 DEF AnyService
  <2>3. name \notin Apart
    BY DEF Special, Downloads
  <2>4. PacketType(Packet(name)) /\ Packet(name).service \notin Apart
    BY <1>1, <2>3
  <2> HIDE DEF Apart, Long
  <2> QED
    BY <2>1, <2>2, <2>4, OneRequestSafe DEF Apart, Long
<1> QED
  BY <1>2, <1>3, <1>4

-----------------------------------------------------------------------------
(* The steps outside: an answer arrives, the slave is reset or exchanged.  *)
LEMMA ArrivesSafe ==
  ASSUME TypeInv, Safe, Arrives
  PROVE  Safe'
<1>1. Waiting' = Waiting
  BY ArrivesWaiting DEF TypeInv
<1>2. UNCHANGED <<transport, script, pc, call, todo, got, expected, names, status, seed, keyLeft,
                  props, slave, refusals, resets, exchanged, last, known>>
  BY DEF Arrives, transferVars, unlockVars, faults
<1>3. Quiet' /\ Match' /\ OrdersAgree' /\ Finished'
  BY <1>1, <1>2 DEF Safe, Quiet, Match, Met, OrdersAgree, Finished
<1>4. TransferLeft'
  <2>1. PushLeft => PushLeft'
    BY <1>1, <1>2 DEF PushLeft, Chain, Start, Alive, Half
  <2>2. FetchLeft => FetchLeft'
    BY <1>1, <1>2 DEF FetchLeft, Chain, Start, Held
  <2>3. VerifyLeft => VerifyLeft'
    BY <1>1, <1>2 DEF VerifyLeft, SumFirst, SumNext, ReadFirst, ReadNext, Held
  <2> QED
    BY <1>2, <2>1, <2>2, <2>3 DEF Safe, TransferLeft
<1>5. TransfersExact' /\ Admitted'
  BY <1>2 DEF Safe, TransfersExact, PushExact, FetchExact, VerifyExact, Returned, Admitted, Range_
<1>6. UnlockLeft' /\ UnlockWhole'
  <2>1. Names(call)' = Names(call) /\ Names(last.call)' = Names(last.call)
    BY <1>2 DEF Names, InOrder
  <2> QED
    BY <1>2, <2>1 DEF Safe, UnlockLeft, NamesDone, UnlockWhole, Returned
<1> QED
  BY <1>3, <1>4, <1>5, <1>6 DEF Safe

LEMMA RestartedSafe ==
  ASSUME TypeInv, Safe, Reset \/ Exchange
  PROVE  Safe'
<1>1. PICK v \in Devices : Restarted(v) /\ (v = slave.dev \/ pc = "idle")
  BY SlaveFacts DEF TypeInv, Reset, Exchange, Calling
<1>2. /\ slave' = Fresh(v) /\ wire' = <<>> /\ known' = FALSE /\ last' = NoCall
      /\ UNCHANGED <<pc, call, todo, got, expected, names, status, seed, keyLeft, props,
                     resQueue, exchanged>>
  BY <1>1 DEF Restarted, transferVars, unlockVars
<1>3. slave'.connected = FALSE /\ slave'.dev = v
  BY <1>2 DEF Fresh
<1>4. resQueue \in Seq(Answers) /\ wire \in Seq(Answers)
  BY DEF TypeInv, ChannelType
<1>5. /\ Waiting' = resQueue
      /\ Waiting = <<>> => Waiting' = <<>>
      /\ \A i \in 1 .. Len(resQueue) : i \in 1 .. Len(Waiting) /\ Waiting[i] = resQueue[i]
  <2>1. resQueue \o <<>> = resQueue
    BY <1>4
  <2>2. resQueue \o wire = <<>> => resQueue = <<>>
    BY <1>4
  <2>3. \A i \in 1 .. Len(resQueue) : i \in 1 .. Len(resQueue \o wire)
                                        /\ (resQueue \o wire)[i] = resQueue[i]
    BY <1>4
  <2> QED
    BY <1>2, <2>1, <2>2, <2>3 DEF Waiting
<1>6. Quiet'
  BY <1>2, <1>5 DEF Safe, Quiet
<1>7. Match'
  <2>1. Met' => pc = "transfer" /\ Waiting # <<>> /\ v = slave.dev
    BY <1>1, <1>2, <1>3, <1>5 DEF Met
  <2> QED
    BY <1>2, <1>3, <2>1 DEF Match, Met, Safe
<1>8. OrdersAgree' /\ Finished' /\ Admitted'
  BY <1>2 DEF Safe, OrdersAgree, Finished, Admitted, NoCall
<1>9. TransfersExact' /\ UnlockWhole'
  BY <1>2
     DEF TransfersExact, PushExact, FetchExact, VerifyExact, Returned, UnlockWhole, NoCall
<1>10. TransferLeft'
  <2>1. ~Alive'
    BY <1>3 DEF Alive
  <2>2. PushLeft => PushLeft'
    BY <1>2, <2>1 DEF PushLeft, Chain, Start
  <2>3. FetchLeft => FetchLeft'
    BY <1>2, <1>3 DEF FetchLeft, Chain, Start
  <2>4. VerifyLeft => VerifyLeft'
    BY <1>2, <1>3 DEF VerifyLeft, SumFirst, SumNext, ReadFirst, ReadNext
  <2> QED
    BY <1>2, <2>2, <2>3, <2>4 DEF Safe, TransferLeft
<1>11. UnlockLeft'
  <2>1. Names(call)' = Names(call)
    BY <1>2 DEF Names, InOrder
  <2> QED
    BY <1>2, <1>3, <2>1 DEF Safe, UnlockLeft, NamesDone
<1> QED
  BY <1>6, <1>7, <1>8, <1>9, <1>10, <1>11 DEF Safe

-----------------------------------------------------------------------------
(* The steps of cond_unlock().                                             *)
LEMMA SeedParted ==
  ASSUME NEW s
  PROVE  /\ SeedPart(s).answers # <<>> /\ Head(SeedPart(s).answers).size = s.seedLeft
         /\ SeedPart(s).slave = [s EXCEPT !.seedLeft = @ - LeastOf(@, slave.dev.maxCto - 2)]
<1> DEFINE a == [Answer EXCEPT !.size = s.seedLeft]
           u == [s EXCEPT !.seedLeft = @ - LeastOf(@, slave.dev.maxCto - 2)]
<1>1. a.size = s.seedLeft
  BY DEF Answer
<1>2. SeedPart(s).slave = u /\ SeedPart(s).answers = <<a>>
  BY DEF SeedPart
<1> HIDE DEF a, u
<1>3. SeedPart(s).slave = u /\ SeedPart(s).answers # <<>>
        /\ Head(SeedPart(s).answers).size = s.seedLeft
  BY <1>1, <1>2
<1> QED
  BY <1>3 DEF u

(* A seed that is not empty is for the name it was asked for.              *)
LEMMA SeedAnswered ==
  ASSUME SlaveType, NEW p, p.service = "getSeed", p.length = 0, NEW r \in Reactions(p),
         r.answers # <<>>, Head(r.answers).error = "none"
  PROVE  /\ Head(r.answers).size = 0 => p.name \notin slave.locked
         /\ Head(r.answers).size # 0 => r.slave.asked = {p.name} /\ r.slave.keyGot = 0
<1>1. slave.connected
  BY Deaf
<1>2. r.slave = Seed(p).slave /\ r.answers = Seed(p).answers
  <2>1. Executed(p) = Seed(p)
    BY <1>1 DEF Executed
  <2>2. Fails("ACCESS_DENIED").answers # <<>>
          /\ Head(Fails("ACCESS_DENIED").answers).error = "ACCESS_DENIED"
    BY FailsAnswer
  <2> QED
    BY <2>1, <2>2, ReactionFacts
<1>3. CASE p.name \notin slave.locked
  <2> DEFINE s == [slave EXCEPT !.asked = {}, !.seedLeft = 0]
  <2>1. s.seedLeft = 0
    BY DEF SlaveType, Slaves
  <2>2. Seed(p) = SeedPart(s)
    BY <1>3 DEF Seed
  <2> HIDE DEF s
  <2>3. Head(SeedPart(s).answers).size = s.seedLeft
    BY SeedParted
  <2> QED
    BY <1>2, <1>3, <2>1, <2>2, <2>3
<1>4. CASE p.name \in slave.locked
  <2> DEFINE s == [slave EXCEPT !.asked = {p.name}, !.seedLeft = slave.dev.seed, !.keyGot = 0]
             u == [s EXCEPT !.seedLeft = @ - LeastOf(@, slave.dev.maxCto - 2)]
  <2>1. s.seedLeft = slave.dev.seed /\ u.asked = {p.name} /\ u.keyGot = 0
    BY DEF SlaveType, Slaves
  <2>2. Seed(p) = SeedPart(s)
    BY <1>4 DEF Seed
  <2>3. slave.dev.seed \in Nat \ {0}
    BY SlaveFacts, DeviceFacts
  <2>4. SeedPart(s).slave = u
    BY SeedParted
  <2> HIDE DEF s, u
  <2>5. Head(SeedPart(s).answers).size = s.seedLeft
    BY SeedParted
  <2> QED
    BY <1>2, <1>4, <2>1, <2>2, <2>3, <2>4, <2>5
<1> QED
  BY <1>3, <1>4

LEMMA SeedContinued ==
  ASSUME SlaveType, NEW p, p.service = "getSeed", p.length = 1, NEW r \in Reactions(p)
  PROVE  r.slave.asked = slave.asked /\ r.slave.keyGot = slave.keyGot
<1>1. \A e : Fails(e).slave.asked = slave.asked /\ Fails(e).slave.keyGot = slave.keyGot
  BY DEF Fails, SlaveType, Slaves
<1>2. SeedPart(slave).slave.asked = slave.asked /\ SeedPart(slave).slave.keyGot = slave.keyGot
  <2> DEFINE u == [slave EXCEPT !.seedLeft = @ - LeastOf(@, slave.dev.maxCto - 2)]
  <2>1. u.asked = slave.asked /\ u.keyGot = slave.keyGot
    BY DEF SlaveType, Slaves
  <2>2. SeedPart(slave).slave = u
    BY SeedParted
  <2> HIDE DEF u
  <2> QED
    BY <2>1, <2>2
<1>3. CASE slave.connected
  <2>1. Executed(p) = Seed(p)
    BY <1>3 DEF Executed
  <2>2. Seed(p) = Fails("SEQUENCE") \/ Seed(p) = SeedPart(slave)
    BY DEF Seed
  <2> QED
    BY <1>1, <1>2, <2>1, <2>2, ReactionFacts
<1>4. CASE ~slave.connected
  BY <1>4, Deaf
<1> QED
  BY <1>3, <1>4

(* UNLOCK takes its part of the key; the last part unlocks what the seed   *)
(* was asked for.                                                          *)
KeyTaken(p, r) ==
  /\ r.slave.locked = slave.locked /\ r.slave.asked = slave.asked
  /\ slave.keyGot + p.count < KeyLength /\ r.slave.keyGot = slave.keyGot + p.count
KeyComplete(p, r) ==
  ~(slave.keyGot + p.count < KeyLength) /\ r.slave.locked = slave.locked \ slave.asked
LEMMA Unlocked ==
  ASSUME SlaveType, NEW p, p.service = "unlock", NEW r \in Reactions(p)
  PROVE  /\ r.slave.connected => slave.connected
         /\ \/ r.slave.locked = slave.locked /\ (r.answers = <<>> \/ Head(r.answers).error # "none")
            \/ /\ KeyTaken(p, r) \/ KeyComplete(p, r)
               /\ slave.connected /\ r.answers # <<>> /\ Head(r.answers).locked = r.slave.locked
<1>1. CASE ~slave.connected
  BY <1>1, Deaf
<1>2. \A e : Keeps(Fails(e).slave) /\ Fails(e).answers # <<>> /\ Head(Fails(e).answers).error = e
  BY FailsKeeps, FailsAnswer
<1>3. CASE /\ slave.connected
           /\ r.slave = Fails("ACCESS_DENIED").slave /\ r.answers = Fails("ACCESS_DENIED").answers
  BY <1>2, <1>3 DEF Keeps
<1>4. CASE slave.connected /\ r.slave = Key(p).slave /\ r.answers = Key(p).answers
  <2> DEFINE total == slave.keyGot + p.count
             s == [slave EXCEPT !.keyGot = total]
             u == [slave EXCEPT !.locked = @ \ slave.asked, !.asked = {}, !.keyGot = 0]
             v == [Fails("ACCESS_LOCKED") EXCEPT !.slave.connected = FALSE]
  <2>1. /\ s.locked = slave.locked /\ s.asked = slave.asked /\ s.keyGot = total
        /\ u.locked = slave.locked \ slave.asked
    BY DEF SlaveType, Slaves
  <2>2. v.slave.connected = FALSE /\ v.slave.locked = slave.locked
          /\ v.answers = Fails("ACCESS_LOCKED").answers
    BY DEF Fails, SlaveType, Slaves
  <2>3. \/ Key(p) = Fails("SEQUENCE")
        \/ Key(p) = Does(s) /\ total < KeyLength
        \/ Key(p) = Does(u) /\ ~(total < KeyLength)
        \/ Key(p) = v
    BY DEF Key
  <2> HIDE DEF s, u, v
  <2>4. CASE Key(p) = Fails("SEQUENCE") \/ Key(p) = v
    BY <1>2, <1>4, <2>2, <2>4 DEF Keeps
  <2>5. CASE Key(p) = Does(s) /\ total < KeyLength
    BY <1>4, <2>1, <2>5, DoesFacts DEF KeyTaken
  <2>6. CASE Key(p) = Does(u) /\ ~(total < KeyLength)
    BY <1>4, <2>1, <2>6, DoesFacts DEF KeyComplete
  <2> QED
    BY <2>3, <2>4, <2>5, <2>6
<1>5. slave.connected => Executed(p) = Key(p)
  BY DEF Executed
<1> QED
  BY <1>1, <1>3, <1>4, <1>5, ReactionFacts

(* What every request of cond_unlock() leaves as it should be.             *)
LEMMA Requested ==
  ASSUME TypeInv, Safe, Waiting = <<>>, NEW p, PacketType(p), p.service # "connect",
         p.service \notin Downloads \cup {"upload"}, NEW r \in Reactions(p), Ask(p, r, 1)
  PROVE  /\ Waiting' = <<>> /\ OrdersAgree' /\ slave' = r.slave /\ slave'.dev = slave.dev
         /\ Answered(r) = r.answers /\ Answered(r) \in Seq(Answers)
         /\ Error(r) \in {"none"} \cup Exceptions
         /\ Error(r) = "none" => r.answers # <<>> /\ Reply(r) = Head(r.answers)
                                   /\ Reply(r).error = "none" /\ Reply(r) \in Answers
                                   /\ slave.connected
         /\ Error(r) # "none" => r.answers = <<>> \/ Head(r.answers).error # "none"
<1>1. Answered(r) = r.answers /\ Waiting' = <<>> /\ ReactionTyped(r)
  BY AskedAlone
<1>2. slave' = r.slave /\ slave'.dev = slave.dev
  BY <1>1 DEF Ask, ReactionTyped
<1>3. r.answers = <<>> \/ slave.connected
  BY Deaf DEF TypeInv
<1>4. OrdersAgree'
  BY <1>1, <1>3, AskOrders DEF Met, Safe
<1>5. /\ Error(r) \in {"none"} \cup Exceptions
      /\ Error(r) = "none" => r.answers # <<>> /\ Reply(r) = Head(r.answers)
                                /\ Reply(r).error = "none" /\ Reply(r) \in Answers
      /\ Error(r) # "none" => r.answers = <<>> \/ Head(r.answers).error # "none"
  BY <1>1, ErrorTyped DEF ReactionTyped, Error, Reply
<1> QED
  BY <1>1, <1>2, <1>3, <1>4, <1>5 DEF ReactionTyped

LEMMA MatchKept ==
  ASSUME Match, Waiting' = <<>>, slave'.dev = slave.dev, slave'.connected => slave.connected,
         props'.order = props.order, props'.bytes = props.bytes, props'.maxCto = props.maxCto
  PROVE  Match'
  BY DEF Match, Met

LEMMA StillUnlocking ==
  ASSUME pc' \in Unlocking, Waiting' = <<>>, last'.how # "returned"
  PROVE  Quiet' /\ Finished' /\ TransferLeft' /\ TransfersExact' /\ UnlockWhole'
<1>1. pc' # "transfer"
  BY DEF Unlocking
<1> QED
  BY <1>1 DEF Quiet, Finished, TransferLeft, TransfersExact, PushExact, FetchExact, VerifyExact,
              Returned, UnlockWhole

LEMMA NamesSame ==
  ASSUME call' = call, props'.supports = props.supports
  PROVE  Names(call)' = Names(call)
  BY DEF Names, InOrder

LEMMA NamesStay ==
  ASSUME NamesDone, names' = names, Names(call)' = Names(call), known' => known,
         slave'.locked \subseteq slave.locked
  PROVE  NamesDone'
<1>1. PICK k \in 0 .. Len(Names(call)) :
        /\ names = SubSeq(Names(call), k + 1, Len(Names(call)))
        /\ known => \A i \in 1 .. k : Names(call)[i] \notin slave.locked
  BY DEF NamesDone
<1>2. /\ names' = SubSeq(Names(call), k + 1, Len(Names(call)))
      /\ known' => \A i \in 1 .. k : Names(call)[i] \notin slave'.locked
  BY <1>1
<1> QED
  BY <1>2 DEF NamesDone

LEMMA NameDone ==
  ASSUME NamesDone, names # <<>>, names' = Tail(names), Names(call)' = Names(call),
         Names(call) \in Seq(ResourceNames), known' => known,
         slave'.locked \subseteq slave.locked, known' => Head(names) \notin slave'.locked
  PROVE  NamesDone'
<1> DEFINE all == Names(call)
<1>1. PICK k \in 0 .. Len(Names(call)) :
        /\ names = SubSeq(Names(call), k + 1, Len(Names(call)))
        /\ known => \A i \in 1 .. k : Names(call)[i] \notin slave.locked
  BY DEF NamesDone
<1>2. all \in Seq(ResourceNames)
  OBVIOUS
<1>3. names = SubSeq(all, k + 1, Len(all)) /\ k \in 0 .. Len(all)
  BY <1>1
<1> HIDE DEF all
<1>4. SubSeq(all, k + 1, Len(all)) # <<>>
  BY <1>3
<1>5. /\ k + 1 <= Len(all) /\ Head(SubSeq(all, k + 1, Len(all))) = all[k + 1]
      /\ Tail(SubSeq(all, k + 1, Len(all))) = SubSeq(all, (k + 1) + 1, Len(all))
  BY <1>2, <1>3, <1>4, TailOfRemainder
<1>6. Len(all) \in Nat
  BY <1>2
<1>7. Head(names) = all[k + 1]
  BY <1>3, <1>5
<1>8. Tail(names) = SubSeq(all, (k + 1) + 1, Len(all))
  BY <1>3, <1>5
<1>9. /\ k + 1 \in 0 .. Len(all)
      /\ known' => \A i \in 1 .. k + 1 : all[i] \notin slave'.locked
  <2>1. k + 1 \in 0 .. Len(all)
    BY <1>3, <1>5, <1>6
  <2>2. ASSUME known', NEW i \in 1 .. k + 1 PROVE all[i] \notin slave'.locked
    <3>1. i = k + 1 \/ i \in 1 .. k
      BY <1>3
    <3>2. i \in 1 .. k => all[i] \notin slave.locked
      BY <1>1, <2>2 DEF all
    <3> QED
      BY <1>7, <2>2, <3>1, <3>2
  <2> QED
    BY <2>1, <2>2
<1>10. /\ names' = SubSeq(all, (k + 1) + 1, Len(all)) /\ all' = all
  BY <1>8 DEF all
<1>11. \E j \in 0 .. Len(all) :
         /\ names' = SubSeq(all, j + 1, Len(all))
         /\ known' => \A i \in 1 .. j : all[i] \notin slave'.locked
  BY <1>9, <1>10
<1> QED
  BY <1>11 DEF NamesDone, all

LEMMA GoesBySafe ==
  ASSUME TypeInv, Safe, NEW c \in Calls, c.op = "cond_unlock", NEW protected, NEW nowKnown,
         GoesBy(c, protected, nowKnown), Waiting' = <<>>, slave'.locked = slave.locked,
         nowKnown => slave.locked \subseteq protected, props'.supports = props.supports
  PROVE  /\ Quiet' /\ Finished' /\ TransferLeft' /\ TransfersExact' /\ UnlockLeft' /\ UnlockWhole'
         /\ known' = known \/ known' = nowKnown
<1>1. CASE Raise(c, "RuntimeError") /\ UNCHANGED <<status, known>>
  <2>1. pc' \in {"idle"} \cup Exceptions /\ last'.how # "returned"
    BY <1>1 DEF Raise, Exceptions
  <2>2. known' = known
    BY <1>1
  <2> QED
    BY <2>1, <2>2, NothingRuns
<1>2. CASE /\ Begin /\ pc' = "names" /\ call' = c
           /\ status' = protected /\ names' = Names(c)
           /\ known' = nowKnown
           /\ last' = NoCall /\ UNCHANGED todo
  <2>1. pc' \in Unlocking /\ last'.how # "returned" /\ pc' \notin {"seed", "key"}
    BY <1>2 DEF Unlocking, NoCall
  <2>2. /\ Quiet' /\ Finished' /\ TransferLeft' /\ TransfersExact' /\ UnlockWhole'
    BY <2>1, StillUnlocking
  <2>3. Names(call)' = Names(c)
    BY <1>2 DEF Names, InOrder
  <2>4. Names(c) \in Seq(ResourceNames)
    BY NamesTyped
  <2> DEFINE all == Names(c)
  <2>5. all \in Seq(ResourceNames)
    BY <2>4
  <2> HIDE DEF all
  <2>6. SubSeq(all, 0 + 1, Len(all)) = all /\ 0 \in 0 .. Len(all)
    <3>1. Len(all) \in Nat
      BY <2>5
    <3> DEFINE t == SubSeq(all, 1, Len(all))
    <3>2. t \in Seq(ResourceNames) /\ Len(t) = Len(all) /\ \A i \in 1 .. Len(all) : t[i] = all[i]
      BY <2>5, <3>1, FirstOnes
    <3> HIDE DEF t
    <3>3. t = all
      BY <2>5, <3>2, SeqEqual
    <3> QED
      BY <3>1, <3>3 DEF t
  <2>7. \E k \in 0 .. Len(all) :
          /\ all = SubSeq(all, k + 1, Len(all))
          /\ nowKnown => \A i \in 1 .. k : all[i] \notin slave.locked
    <3>1. all = SubSeq(all, 0 + 1, Len(all))
            /\ (nowKnown => \A i \in 1 .. 0 : all[i] \notin slave.locked)
      BY <2>6
    <3> QED
      BY <2>6, <3>1
  <2>8. NamesDone'
    BY <1>2, <2>3, <2>7 DEF NamesDone, all
  <2>9. UnlockLeft'
    BY <1>2, <2>1, <2>8 DEF UnlockLeft
  <2> QED
    BY <1>2, <2>2, <2>9
<1> QED
  BY <1>1, <1>2 DEF GoesBy

LEMMA ProtectionSame ==
  ASSUME PropsTyped, NEW a
  PROVE  LET v == Protection(a)
         IN  /\ v.order = props.order /\ v.bytes = props.bytes /\ v.maxCto = props.maxCto
             /\ v.supports = props.supports /\ v.protection = {a.locked}
  BY DEF Protection, PropsTyped, TypedProps, PropsType

LEMMA UnlockBeginSafe ==
  ASSUME TypeInv, Safe, UnlockBegin
  PROVE  Safe'
<1> DEFINE c == Head(script)
           p == Packet("getStatus")
<1>1. pc = "idle" /\ script # <<>> /\ c.op = "cond_unlock"
  BY DEF UnlockBegin, Calling
<1>2. c \in Calls
  BY <1>1, TailTyped DEF TypeInv, ScriptType
<1>3. Waiting = <<>>
  BY <1>1 DEF Safe, Quiet
<1>4. p.service = "getStatus" /\ PacketType(p)
  BY DEF Packet, PacketType
<1>5. SlaveType /\ PropsTyped
  BY DEF TypeInv
<1>6. CASE props.protection # {}
  <2>1. GoesBy(c, UNION props.protection, known) /\ UNCHANGED <<props, resQueue, wire, slave,
                                                                 exchanged>>
    BY <1>6 DEF UnlockBegin, channel
  <2>2. PICK s \in SUBSET Resources : props.protection = {s}
    BY <1>5, <1>6 DEF PropsTyped, TypedProps
  <2>3. known => slave.locked \subseteq UNION props.protection
    BY <2>2 DEF Safe, Admitted
  <2>4. Waiting' = <<>> /\ slave'.locked = slave.locked /\ props'.supports = props.supports
    BY <1>3, <2>1 DEF Waiting
  <2> HIDE DEF c
  <2>5. /\ Quiet' /\ Finished' /\ TransferLeft' /\ TransfersExact' /\ UnlockLeft' /\ UnlockWhole'
        /\ known' = known \/ known' = known
    BY <1>1, <1>2, <2>1, <2>3, <2>4, GoesBySafe
  <2>6. Match' /\ OrdersAgree'
    BY <2>1, <2>4, MatchKept DEF Safe, OrdersAgree
  <2>7. Admitted'
    BY <2>1, <2>5 DEF Safe, Admitted
  <2> QED
    BY <2>5, <2>6, <2>7 DEF Safe
<1>7. CASE props.protection = {}
  <2>1. PICK r \in Reactions(p) :
          /\ Ask(p, r, 1)
          /\ IF Error(r) # "none" THEN GoesBy(c, {}, FALSE) /\ UNCHANGED props
             ELSE GoesBy(c, Reply(r).locked, TRUE) /\ props' = Protection(Reply(r))
    BY <1>7 DEF UnlockBegin
  <2> HIDE DEF c, p
  <2>2. p.service \notin Downloads \cup {"upload", "connect"}
    BY <1>4 DEF Downloads
  <2>3. /\ Waiting' = <<>> /\ OrdersAgree' /\ slave' = r.slave /\ slave'.dev = slave.dev
        /\ Error(r) = "none" => r.answers # <<>> /\ Reply(r) = Head(r.answers)
    BY <1>3, <1>4, <2>1, <2>2, Requested
  <2>4. slave'.connected = slave.connected /\ slave'.locked = slave.locked
    BY <1>4, <1>5, <2>1, <2>3, Steady DEF Keeps
  <2>5. CASE Error(r) # "none"
    <3>1. GoesBy(c, {}, FALSE) /\ props' = props
      BY <2>1, <2>5
    <3>2. /\ Quiet' /\ Finished' /\ TransferLeft' /\ TransfersExact' /\ UnlockLeft' /\ UnlockWhole'
          /\ known' = known \/ known' = FALSE
      BY <1>1, <1>2, <2>3, <2>4, <3>1, GoesBySafe
    <3>3. Match'
      BY <2>3, <2>4, <3>1, MatchKept DEF Safe
    <3>4. Admitted'
      BY <1>7, <3>1 DEF Admitted
    <3> QED
      BY <2>3, <3>2, <3>3, <3>4 DEF Safe
  <2>6. CASE Error(r) = "none"
    <3>1. GoesBy(c, Reply(r).locked, TRUE) /\ props' = Protection(Reply(r))
      BY <2>1, <2>6
    <3>2. Reply(r).locked = slave.locked
      BY <1>4, <1>5, <2>3, <2>6, StatusAnswered
    <3>3. /\ props'.order = props.order /\ props'.bytes = props.bytes
          /\ props'.maxCto = props.maxCto
          /\ props'.supports = props.supports /\ props'.protection = {slave.locked}
      BY <1>5, <3>1, <3>2, ProtectionSame
    <3>4. /\ Quiet' /\ Finished' /\ TransferLeft' /\ TransfersExact' /\ UnlockLeft' /\ UnlockWhole'
      BY <1>1, <1>2, <2>3, <2>4, <3>1, <3>2, <3>3, GoesBySafe
    <3>5. Match'
      BY <2>3, <2>4, <3>3, MatchKept DEF Safe
    <3>6. Admitted'
      BY <2>4, <3>3 DEF Admitted
    <3> QED
      BY <2>3, <3>4, <3>5, <3>6 DEF Safe
  <2> QED
    BY <2>5, <2>6
<1> QED
  BY <1>6, <1>7

LEMMA UnlockSkipSafe ==
  ASSUME TypeInv, Safe, UnlockSkip
  PROVE  Safe'
<1>1. /\ pc = "names" /\ UNCHANGED <<status, seed, keyLeft, props, resQueue, wire, slave,
                                     exchanged, known>>
      /\ pc \in Unlocking
  BY DEF UnlockSkip, channel, Unlocking
<1>2. Waiting' = <<>>
  BY <1>1 DEF Safe, Quiet, Waiting
<1>3. Match' /\ OrdersAgree' /\ Admitted'
  BY <1>1, <1>2, MatchKept DEF Safe, OrdersAgree, Admitted
<1>4. call.op = "cond_unlock" /\ NamesDone /\ (known => slave.locked \subseteq status)
  BY <1>1 DEF Safe, UnlockLeft
<1>5. call \in Calls /\ names \in Seq(ResourceNames) /\ Names(call) \in Seq(ResourceNames)
  BY <1>1, NamesTyped DEF TypeInv, CallType, UnlockType
<1>6. CASE names = <<>> /\ Return(call) /\ UNCHANGED <<script, todo, names>>
  <2>1. pc' = "idle" /\ last' = [how |-> "returned", call |-> call] /\ last'.call = call
    BY <1>6 DEF Return
  <2>2. Quiet' /\ Finished' /\ TransferLeft' /\ UnlockLeft'
    BY <1>2, <2>1 DEF Quiet, Finished, TransferLeft, UnlockLeft, Unlocking
  <2>3. TransfersExact'
    BY <1>4, <2>1 DEF TransfersExact, PushExact, FetchExact, VerifyExact, Returned
  <2>4. UnlockWhole'
    <3> DEFINE all == Names(call)
    <3>1. PICK k \in 0 .. Len(all) :
            /\ names = SubSeq(all, k + 1, Len(all))
            /\ known => \A i \in 1 .. k : all[i] \notin slave.locked
      BY <1>4 DEF NamesDone
    <3>2. all \in Seq(ResourceNames) /\ k \in Nat /\ k <= Len(all)
      BY <1>5, <3>1
    <3>3. Names(last.call)' = all
      BY <1>1, <2>1 DEF Names, InOrder
    <3> HIDE DEF all
    <3>4. k = Len(all)
      <4> DEFINE left == SubSeq(all, k + 1, Len(all))
      <4>1. Len(left) = IF k <= Len(all) THEN Len(all) - k ELSE 0
        BY <3>2, Remainder
      <4>2. left = <<>>
        BY <1>6, <3>1
      <4>3. Len(all) \in Nat
        BY <3>2
      <4> HIDE DEF left
      <4> QED
        BY <3>2, <4>1, <4>2, <4>3
    <3>5. known => slave.locked \cap {all[i] : i \in 1 .. Len(all)} = {}
      BY <3>1, <3>4
    <3> QED
      BY <1>1, <3>3, <3>5 DEF UnlockWhole
  <2> QED
    BY <1>3, <2>2, <2>3, <2>4 DEF Safe
<1>7. CASE Raise(call, "ValueError")
  <2>1. pc' \in {"idle"} \cup Exceptions /\ last'.how # "returned"
    BY <1>7 DEF Raise, Exceptions
  <2>2. /\ Quiet' /\ Finished' /\ TransferLeft' /\ TransfersExact' /\ UnlockLeft' /\ UnlockWhole'
    BY <1>2, <2>1, NothingRuns
  <2> QED
    BY <1>3, <2>2 DEF Safe
<1>8. CASE /\ names # <<>> /\ Head(names) \notin status
           /\ names' = Tail(names)
           /\ UNCHANGED <<script, pc, call, last, todo>>
  <2>1. pc' \in Unlocking /\ last'.how # "returned"
    BY <1>1, <1>8 DEF Safe, Finished, Unlocking
  <2>2. /\ Quiet' /\ Finished' /\ TransferLeft' /\ TransfersExact' /\ UnlockWhole'
    BY <1>2, <2>1, StillUnlocking
  <2>3. Names(call)' = Names(call)
    BY <1>1, <1>8, NamesSame
  <2>4. NamesDone'
    BY <1>1, <1>4, <1>5, <1>8, <2>3, NameDone
  <2>5. UnlockLeft'
    BY <1>1, <1>4, <1>8, <2>4 DEF UnlockLeft
  <2> QED
    BY <1>3, <2>2, <2>5 DEF Safe
<1> QED
  BY <1>6, <1>7, <1>8 DEF UnlockSkip

(* What a step of cond_unlock() has to show, apart from what its request   *)
(* leaves as it should be.                                                 *)
LEMMA RequestRaised ==
  ASSUME TypeInv, Safe, Waiting' = <<>>, NEW c, NEW e \in Exceptions, Raise(c, e)
  PROVE  /\ Quiet' /\ Finished' /\ TransferLeft' /\ TransfersExact' /\ UnlockLeft' /\ UnlockWhole'
<1>1. pc' \in {"idle"} \cup Exceptions /\ last'.how # "returned"
  BY DEF Raise
<1> QED
  BY <1>1, NothingRuns

LEMMA SeedGoes ==
  ASSUME TypeInv, Safe, pc \in Unlocking, names # <<>>, Waiting' = <<>>, NEW s, Goes(s),
         UNCHANGED <<status, known>>, call' = call => Names(call)' = Names(call),
         slave'.locked = slave.locked, slave'.connected => slave.connected,
         slave'.connected => Head(names) \in slave'.asked /\ slave'.keyGot = 0
  PROVE  /\ Quiet' /\ Finished' /\ TransferLeft' /\ TransfersExact' /\ UnlockLeft' /\ UnlockWhole'
<1>1. CASE Raise(call, "SeedNKeyError")
  BY <1>1, RequestRaised DEF Exceptions
<1>2. CASE /\ pc' = "seed" \/ (pc' = "key" /\ keyLeft' = KeyLength)
           /\ UNCHANGED <<script, call, last, todo, names>>
  <2>1. pc' \in Unlocking /\ pc # "idle" /\ pc' # "names"
    BY <1>2 DEF Unlocking
  <2>2. last'.how # "returned"
    BY <1>2, <2>1 DEF Safe, Finished
  <2>3. /\ Quiet' /\ Finished' /\ TransferLeft' /\ TransfersExact' /\ UnlockWhole'
    BY <2>1, <2>2, StillUnlocking
  <2>4. call.op = "cond_unlock" /\ NamesDone /\ (known => slave.locked \subseteq status)
    BY DEF Safe, UnlockLeft
  <2>5. NamesDone'
    BY <1>2, <2>4, NamesStay
  <2>6. pc' = "key" => keyLeft' > 0 /\ KeyLength - keyLeft' = 0
    BY <1>2, SessionBounds
  <2>7. UnlockLeft'
    BY <1>2, <2>1, <2>4, <2>5, <2>6 DEF UnlockLeft
  <2> QED
    BY <2>3, <2>7
<1> QED
  BY <1>1, <1>2 DEF Goes

LEMMA UnlockFirstSeedSafe ==
  ASSUME TypeInv, Safe, UnlockFirstSeed
  PROVE  Safe'
<1> DEFINE p == [Packet("getSeed") EXCEPT !.name = Head(names)]
<1>1. PICK r \in Reactions(p) :
        /\ Ask(p, r, 1)
        /\ IF SeedError(r) # "none" THEN Raise(call, SeedError(r)) /\ UNCHANGED <<seed, keyLeft>>
           ELSE IF Reply(r).size = 0
             THEN names' = Tail(names) /\ UNCHANGED <<script, pc, call, last, todo, seed, keyLeft>>
           ELSE Goes([bytes |-> PartOf(Reply(r)),
                      remaining |-> IF Reply(r).size > MaxPayload
                                      THEN Reply(r).size - PartOf(Reply(r)) ELSE 0])
  BY DEF UnlockFirstSeed
<1>2. pc = "names" /\ names # <<>> /\ UNCHANGED <<status, props, known>> /\ pc \in Unlocking
  BY DEF UnlockFirstSeed, Unlocking
<1>3. p.service = "getSeed" /\ p.length = 0 /\ p.name = Head(names) /\ PacketType(p)
  BY DEF Packet, PacketType
<1> HIDE DEF p
<1>4. Waiting = <<>> /\ SlaveType
  BY <1>2 DEF Safe, Quiet, TypeInv
<1>5. p.service \notin Downloads \cup {"upload", "connect"}
  BY <1>3 DEF Downloads
<1>6. /\ Waiting' = <<>> /\ OrdersAgree' /\ slave' = r.slave /\ slave'.dev = slave.dev
      /\ Answered(r) \in Seq(Answers)
      /\ Error(r) = "none" => r.answers # <<>> /\ Reply(r) = Head(r.answers)
                                /\ Reply(r).error = "none"
  BY <1>1, <1>3, <1>4, <1>5, Requested
<1>7. slave'.connected = slave.connected /\ slave'.locked = slave.locked
  BY <1>1, <1>3, <1>4, <1>6, Steady DEF Keeps
<1>8. Match' /\ Admitted'
  BY <1>2, <1>6, <1>7, MatchKept DEF Safe, Admitted
<1>9. SeedError(r) \in {"none"} \cup Exceptions /\ (SeedError(r) = "none" => Error(r) = "none")
  BY <1>6, SeedErrorTyped
<1>10. CASE SeedError(r) # "none"
  <2>1. Raise(call, SeedError(r)) /\ SeedError(r) \in Exceptions
    BY <1>1, <1>9, <1>10
  <2>2. /\ Quiet' /\ Finished' /\ TransferLeft' /\ TransfersExact' /\ UnlockLeft' /\ UnlockWhole'
    BY <1>6, <2>1, RequestRaised
  <2> QED
    BY <1>6, <1>8, <2>2 DEF Safe
<1>11. SeedError(r) = "none" =>
         /\ Reply(r).size = 0 => Head(names) \notin slave.locked
         /\ Reply(r).size # 0 => slave'.asked = {Head(names)} /\ slave'.keyGot = 0
  BY <1>1, <1>3, <1>4, <1>6, <1>9, SeedAnswered
<1>12. CASE SeedError(r) = "none" /\ Reply(r).size = 0
  <2>1. names' = Tail(names) /\ UNCHANGED <<script, pc, call, last, todo, seed, keyLeft>>
    BY <1>1, <1>12
  <2>2. pc' \in Unlocking /\ last'.how # "returned"
    BY <1>2, <2>1 DEF Safe, Finished
  <2>3. /\ Quiet' /\ Finished' /\ TransferLeft' /\ TransfersExact' /\ UnlockWhole'
    BY <1>6, <2>2, StillUnlocking
  <2>4. call.op = "cond_unlock" /\ NamesDone /\ (known => slave.locked \subseteq status)
    BY <1>2 DEF Safe, UnlockLeft
  <2>5. call \in Calls /\ Names(call)' = Names(call)
    BY <1>2, <2>1, NamesSame DEF TypeInv, CallType
  <2>6. Names(call) \in Seq(ResourceNames)
    BY <2>5, NamesTyped
  <2>7. NamesDone'
    BY <1>2, <1>7, <1>11, <1>12, <2>1, <2>4, <2>5, <2>6, NameDone
  <2>8. UnlockLeft'
    BY <1>2, <1>7, <2>1, <2>4, <2>7 DEF UnlockLeft
  <2> QED
    BY <1>6, <1>8, <2>3, <2>8 DEF Safe
<1>13. CASE SeedError(r) = "none" /\ Reply(r).size # 0
  <2> DEFINE s == [bytes |-> PartOf(Reply(r)),
                   remaining |-> IF Reply(r).size > MaxPayload
                                   THEN Reply(r).size - PartOf(Reply(r)) ELSE 0]
  <2>1. Goes(s)
    BY <1>1, <1>13
  <2>2. slave'.connected => Head(names) \in slave'.asked /\ slave'.keyGot = 0
    BY <1>11, <1>13
  <2>3. call' = call => Names(call)' = Names(call)
    BY <1>2, NamesSame
  <2> HIDE DEF s
  <2>4. /\ Quiet' /\ Finished' /\ TransferLeft' /\ TransfersExact' /\ UnlockLeft' /\ UnlockWhole'
    BY <1>2, <1>6, <1>7, <2>1, <2>2, <2>3, SeedGoes
  <2> QED
    BY <1>6, <1>8, <2>4 DEF Safe
<1> QED
  BY <1>10, <1>12, <1>13

LEMMA UnlockNextSeedSafe ==
  ASSUME TypeInv, Safe, UnlockNextSeed
  PROVE  Safe'
<1> DEFINE p == [Packet("getSeed") EXCEPT !.name = Head(names), !.length = 1]
<1>1. PICK r \in Reactions(p) :
        /\ Ask(p, r, 1)
        /\ IF SeedError(r) # "none" THEN Raise(call, SeedError(r)) /\ UNCHANGED <<seed, keyLeft>>
           ELSE Goes(SeedReceived(Reply(r)))
  BY DEF UnlockNextSeed
<1>2. pc = "seed" /\ UNCHANGED <<status, props, known>> /\ pc \in Unlocking
  BY DEF UnlockNextSeed, Unlocking
<1>3. p.service = "getSeed" /\ p.length = 1 /\ PacketType(p)
  BY DEF Packet, PacketType
<1> HIDE DEF p
<1>4. Waiting = <<>> /\ SlaveType /\ names # <<>>
  BY <1>2 DEF Safe, Quiet, TypeInv, UnlockType
<1>5. p.service \notin Downloads \cup {"upload", "connect"}
  BY <1>3 DEF Downloads
<1>6. /\ Waiting' = <<>> /\ OrdersAgree' /\ slave' = r.slave /\ slave'.dev = slave.dev
      /\ Answered(r) \in Seq(Answers)
  BY <1>1, <1>3, <1>4, <1>5, Requested
<1>7. slave'.connected = slave.connected /\ slave'.locked = slave.locked
  BY <1>1, <1>3, <1>4, <1>6, Steady DEF Keeps
<1>8. Match' /\ Admitted'
  BY <1>2, <1>6, <1>7, MatchKept DEF Safe, Admitted
<1>9. SeedError(r) \in {"none"} \cup Exceptions
  BY <1>6, SeedErrorTyped
<1>10. CASE SeedError(r) # "none"
  <2>1. Raise(call, SeedError(r)) /\ SeedError(r) \in Exceptions
    BY <1>1, <1>9, <1>10
  <2>2. /\ Quiet' /\ Finished' /\ TransferLeft' /\ TransfersExact' /\ UnlockLeft' /\ UnlockWhole'
    BY <1>6, <2>1, RequestRaised
  <2> QED
    BY <1>6, <1>8, <2>2 DEF Safe
<1>11. CASE SeedError(r) = "none"
  <2>1. Goes(SeedReceived(Reply(r)))
    BY <1>1, <1>11
  <2>2. slave'.asked = slave.asked /\ slave'.keyGot = slave.keyGot
    BY <1>1, <1>3, <1>4, <1>6, SeedContinued
  <2>3. slave.connected => Head(names) \in slave.asked /\ slave.keyGot = 0
    BY <1>2 DEF Safe, UnlockLeft
  <2>4. call' = call => Names(call)' = Names(call)
    BY <1>2, NamesSame
  <2>5. slave'.connected => Head(names) \in slave'.asked /\ slave'.keyGot = 0
    BY <1>7, <2>2, <2>3
  <2> DEFINE s == SeedReceived(Reply(r))
  <2>6. Goes(s)
    BY <2>1
  <2> HIDE DEF s
  <2>7. /\ Quiet' /\ Finished' /\ TransferLeft' /\ TransfersExact' /\ UnlockLeft' /\ UnlockWhole'
    BY <1>2, <1>4, <1>6, <1>7, <2>4, <2>5, <2>6, SeedGoes
  <2> QED
    BY <1>6, <1>8, <2>7 DEF Safe
<1> QED
  BY <1>10, <1>11

LEMMA UnlockKeySafe ==
  ASSUME TypeInv, Safe, UnlockKey
  PROVE  Safe'
<1> DEFINE p == [Packet("unlock") EXCEPT !.length = keyLeft, !.count = KeyPart(keyLeft),
                                         !.from = seed.bytes]
<1>1. PICK r \in Reactions(p) :
        /\ Ask(p, r, 1)
        /\ IF Error(r) # "none"
             THEN Raise(call, Error(r)) /\ UNCHANGED <<keyLeft, props>>
             ELSE /\ props' = Protection(Reply(r))
                  /\ keyLeft' = KeyRest(keyLeft)
                  /\ IF keyLeft' > 0 THEN UNCHANGED <<pc, names>>
                                     ELSE pc' = "names" /\ names' = Tail(names)
                  /\ UNCHANGED <<script, call, last, todo>>
  BY DEF UnlockKey
<1>2. pc = "key" /\ UNCHANGED <<status, seed, known>> /\ pc \in Unlocking
  BY DEF UnlockKey, Unlocking
<1>3. /\ keyLeft \in 0 .. KeyLength /\ seed.bytes \in Nat /\ KeyLength \in Nat
      /\ names # <<>> /\ names \in Seq(ResourceNames) /\ PropsTyped /\ SlaveType
  BY <1>2, SessionBounds DEF TypeInv, UnlockType
<1>4. props.maxCto \in Nat /\ props.maxCto >= 4
  <2>1. props.maxCto \in Ctos /\ props.maxCto # Unknown
    BY <1>2 DEF TypeInv, PropsTyped, TypedProps, PropsType, ConnectsFirst, Unlocking, Exceptions
  <2> QED
    BY <2>1, SessionBounds DEF Ctos
<1>5. KeyPart(keyLeft) \in Nat /\ KeyRest(keyLeft) = keyLeft - KeyPart(keyLeft)
        /\ KeyRest(keyLeft) \in Nat
  BY <1>3, <1>4 DEF KeyPart, KeyRest, LeastOf, MaxPayload
<1>6. p.service = "unlock" /\ p.count = KeyPart(keyLeft) /\ PacketType(p)
  BY <1>3, <1>5 DEF Packet, PacketType
<1> HIDE DEF p
<1>7. Waiting = <<>>
  BY <1>2 DEF Safe, Quiet
<1>8. p.service \notin Downloads \cup {"upload", "connect"}
  BY <1>6 DEF Downloads
<1>9. /\ Waiting' = <<>> /\ OrdersAgree' /\ slave' = r.slave /\ slave'.dev = slave.dev
      /\ Error(r) \in {"none"} \cup Exceptions
      /\ Error(r) = "none" => r.answers # <<>> /\ Reply(r) = Head(r.answers)
                                /\ Reply(r).error = "none"
      /\ Error(r) # "none" => r.answers = <<>> \/ Head(r.answers).error # "none"
  BY <1>1, <1>6, <1>7, <1>8, Requested
<1>10. /\ r.slave.connected => slave.connected
       /\ \/ r.slave.locked = slave.locked /\ (r.answers = <<>> \/ Head(r.answers).error # "none")
          \/ /\ KeyTaken(p, r) \/ KeyComplete(p, r)
             /\ slave.connected /\ r.answers # <<>> /\ Head(r.answers).locked = r.slave.locked
  BY <1>3, <1>6, Unlocked
<1>11. CASE Error(r) # "none"
  <2>1. Raise(call, Error(r)) /\ Error(r) \in Exceptions /\ props' = props
    BY <1>1, <1>9, <1>11
  <2>2. /\ Quiet' /\ Finished' /\ TransferLeft' /\ TransfersExact' /\ UnlockLeft' /\ UnlockWhole'
    BY <1>9, <2>1, RequestRaised
  <2>3. Match'
    BY <1>9, <1>10, <2>1, MatchKept DEF Safe
  <2>4. slave'.locked \subseteq slave.locked
    BY <1>9, <1>10 DEF KeyTaken, KeyComplete
  <2>5. Admitted'
    BY <1>2, <2>1, <2>4 DEF Safe, Admitted
  <2> QED
    BY <1>9, <2>2, <2>3, <2>5 DEF Safe
<1>12. CASE Error(r) = "none"
  <2>1. /\ props' = Protection(Reply(r)) /\ keyLeft' = KeyRest(keyLeft)
        /\ IF keyLeft' > 0 THEN UNCHANGED <<pc, names>>
                           ELSE pc' = "names" /\ names' = Tail(names)
        /\ UNCHANGED <<script, call, last, todo>>
    BY <1>1, <1>12
  <2>2. /\ KeyTaken(p, r) \/ KeyComplete(p, r)
        /\ slave.connected /\ Reply(r).locked = r.slave.locked
    BY <1>9, <1>10, <1>12
  <2>3. /\ props'.order = props.order /\ props'.bytes = props.bytes
        /\ props'.maxCto = props.maxCto
        /\ props'.supports = props.supports /\ props'.protection = {slave'.locked}
    BY <1>3, <1>9, <2>1, <2>2, ProtectionSame
  <2>4. Match' /\ Admitted'
    BY <1>9, <1>10, <2>3, MatchKept DEF Safe, Admitted
  <2>5. call.op = "cond_unlock" /\ NamesDone /\ (known => slave.locked \subseteq status)
          /\ Head(names) \in slave.asked /\ slave.keyGot = KeyLength - keyLeft
    BY <1>2, <2>2 DEF Safe, UnlockLeft
  <2>6. slave'.locked \subseteq slave.locked
    BY <1>9, <2>2 DEF KeyTaken, KeyComplete
  <2>7. call \in Calls /\ Names(call)' = Names(call)
    BY <1>2, <2>1, <2>3, NamesSame DEF TypeInv, CallType
  <2>8. Names(call) \in Seq(ResourceNames)
    BY <2>7, NamesTyped
  <2>9. slave.keyGot + p.count = KeyLength - keyLeft'
    BY <1>3, <1>5, <1>6, <2>1, <2>5
  <2>10. pc' \in Unlocking /\ last'.how # "returned"
    BY <1>2, <2>1 DEF Safe, Finished, Unlocking
  <2>11. /\ Quiet' /\ Finished' /\ TransferLeft' /\ TransfersExact' /\ UnlockWhole'
    BY <1>9, <2>10, StillUnlocking
  <2>12. CASE keyLeft' > 0
    <3>1. NamesDone'
      BY <1>2, <2>1, <2>5, <2>6, <2>7, <2>12, NamesStay
    <3>2. KeyTaken(p, r)
      BY <1>3, <1>5, <2>1, <2>2, <2>9, <2>12 DEF KeyComplete
    <3>3. Head(names) \in slave'.asked /\ slave'.keyGot = KeyLength - keyLeft'
      BY <1>9, <2>5, <2>9, <3>2 DEF KeyTaken
    <3>4. UnlockLeft'
      BY <1>2, <2>1, <2>5, <2>6, <2>12, <3>1, <3>3 DEF UnlockLeft
    <3> QED
      BY <1>9, <2>4, <2>11, <3>4 DEF Safe
  <2>13. CASE ~(keyLeft' > 0)
    <3>1. KeyComplete(p, r)
      <4>1. ~(slave.keyGot + p.count < KeyLength)
        BY <1>3, <1>5, <2>1, <2>9, <2>13
      <4> QED
        BY <2>2, <4>1 DEF KeyTaken
    <3>2. Head(names) \notin slave'.locked
      BY <1>9, <2>5, <3>1 DEF KeyComplete
    <3>3. pc' = "names" /\ names' = Tail(names)
      BY <2>1, <2>13
    <3>4. NamesDone'
      BY <1>2, <1>3, <2>1, <2>5, <2>6, <2>7, <2>8, <3>2, <3>3, NameDone
    <3>5. UnlockLeft'
      BY <1>2, <2>1, <2>5, <2>6, <3>3, <3>4 DEF UnlockLeft
    <3> QED
      BY <1>9, <2>4, <2>11, <3>5 DEF Safe
  <2> QED
    BY <2>12, <2>13
<1> QED
  BY <1>11, <1>12

-----------------------------------------------------------------------------
(* Chains: what is left of one, one after another, and the chains of equal *)
(* chunks with a last one that a transfer is made of.                      *)
LEMMA ChainTail ==
  ASSUME NEW K, K \subseteq Chunks, NEW s, NEW n, Chain(K, s, n), s # <<>>
  PROVE  /\ Head(s) \in K /\ Chain(K, Tail(s), n)
         /\ Start(Tail(s), n) = Head(s).from + Head(s).count
         /\ Tail(s) = <<>> => Head(s).wait
<1> DEFINE t == Tail(s)
<1>1. /\ s \in Seq(K) /\ Len(s) \in Nat /\ Len(s) >= 1
      /\ \A i \in 1 .. Len(s) :
           s[i].from + s[i].count = IF i = Len(s) THEN n ELSE s[i + 1].from
      /\ s[Len(s)].wait
  BY DEF Chain
<1>2. /\ Head(s) \in K /\ t \in Seq(K) /\ Len(t) = Len(s) - 1
      /\ \A i \in 1 .. Len(t) : t[i] = s[i + 1]
  BY <1>1, HeadTailProperties
<1>3. Head(s) = s[1]
  BY <1>1
<1> HIDE DEF t
<1>4. Len(t) \in Nat /\ (t = <<>> => Len(t) = 0) /\ (t # <<>> => Len(t) >= 1 /\ Head(t) = t[1])
  BY <1>1, <1>2
<1>5. ASSUME NEW i \in 1 .. Len(t)
      PROVE  t[i].from + t[i].count = IF i = Len(t) THEN n ELSE t[i + 1].from
  <2>1. i + 1 \in 1 .. Len(s) /\ (i + 1 = Len(s)) = (i = Len(t))
          /\ (i # Len(t) => i + 1 \in 1 .. Len(t))
    BY <1>1, <1>2, <1>4
  <2>2. s[i + 1].from + s[i + 1].count = IF i + 1 = Len(s) THEN n ELSE s[(i + 1) + 1].from
    BY <1>1, <2>1
  <2> QED
    BY <1>2, <2>1, <2>2
<1>6. t # <<>> => t[Len(t)].wait
  BY <1>1, <1>2, <1>4
<1>7. Chain(K, t, n)
  BY <1>2, <1>5, <1>6 DEF Chain
<1>8. Start(t, n) = s[1].from + s[1].count
  <2>1. s[1].from + s[1].count = IF 1 = Len(s) THEN n ELSE s[1 + 1].from
    <3>1. \A i \in 1 .. Len(s) :
            s[i].from + s[i].count = IF i = Len(s) THEN n ELSE s[i + 1].from
      BY DEF Chain
    <3>2. 1 \in 1 .. Len(s)
      BY <1>1
    <3> QED
      BY <3>1, <3>2
  <2>2. CASE t = <<>>
    BY <1>1, <1>2, <1>4, <2>1, <2>2 DEF Start
  <2>3. CASE t # <<>>
    BY <1>1, <1>2, <1>4, <2>1, <2>3 DEF Start
  <2> QED
    BY <2>2, <2>3
<1>9. t = <<>> => s[1].wait
  <2>1. t = <<>> => Len(s) = 1
    BY <1>1, <1>2, <1>4
  <2>2. s[Len(s)].wait
    BY <1>1
  <2> QED
    BY <2>1, <2>2
<1> QED
  BY <1>2, <1>3, <1>7, <1>8, <1>9 DEF t

LEMMA EmptyChain ==
  ASSUME NEW K, NEW n
  PROVE  Chain(K, <<>>, n) /\ Start(<<>>, n) = n
<1>1. <<>> \in Seq(K) /\ Len(<<>>) = 0
  OBVIOUS
<1> QED
  BY <1>1 DEF Chain, Start

LEMMA ChainConcat ==
  ASSUME NEW K, NEW s, NEW t, NEW m, NEW n, Chain(K, s, m), Chain(K, t, n), Start(t, n) = m
  PROVE  Chain(K, s \o t, n) /\ Start(s \o t, n) = Start(s, m)
<1> DEFINE u == s \o t
<1>1. /\ s \in Seq(K) /\ Len(s) \in Nat /\ t \in Seq(K) /\ Len(t) \in Nat
      /\ s # <<>> => s[Len(s)].wait /\ Len(s) >= 1
      /\ t # <<>> => t[Len(t)].wait /\ Len(t) >= 1
      /\ s = <<>> => Len(s) = 0
      /\ t = <<>> => Len(t) = 0
  BY DEF Chain
<1>2. \A i \in 1 .. Len(s) : s[i].from + s[i].count = IF i = Len(s) THEN m ELSE s[i + 1].from
  BY DEF Chain
<1>3. \A i \in 1 .. Len(t) : t[i].from + t[i].count = IF i = Len(t) THEN n ELSE t[i + 1].from
  BY DEF Chain
<1>4. /\ u \in Seq(K) /\ Len(u) = Len(s) + Len(t)
      /\ \A i \in 1 .. Len(u) : u[i] = IF i <= Len(s) THEN s[i] ELSE t[i - Len(s)]
  BY <1>1
<1>5. s = <<>> => u = t
  BY <1>1
<1>6. t = <<>> => u = s
  BY <1>1
<1> HIDE DEF u
<1>7. CASE s = <<>>
  BY <1>5, <1>7 DEF Start, u
<1>8. CASE t = <<>>
  <2>1. m = n
    BY <1>8 DEF Start
  <2> QED
    BY <1>6, <1>8, <2>1 DEF u
<1>9. CASE s # <<>> /\ t # <<>>
  <2>1. m = t[1].from
    BY <1>1, <1>9 DEF Start
  <2>2. ASSUME NEW i \in 1 .. Len(u)
        PROVE  u[i].from + u[i].count = IF i = Len(u) THEN n ELSE u[i + 1].from
    <3>1. CASE i < Len(s)
      <4>1. u[i] = s[i] /\ u[i + 1] = s[i + 1] /\ i # Len(u) /\ i # Len(s) /\ i \in 1 .. Len(s)
        BY <1>1, <1>4, <3>1
      <4> QED
        BY <1>2, <4>1
    <3>2. CASE i = Len(s)
      <4>1. u[i] = s[i] /\ i \in 1 .. Len(s) /\ i # Len(u) /\ u[i + 1] = t[1]
        BY <1>1, <1>4, <1>9, <3>2
      <4> QED
        BY <1>2, <2>1, <3>2, <4>1
    <3>3. CASE i > Len(s)
      <4>1. /\ i - Len(s) \in 1 .. Len(t) /\ u[i] = t[i - Len(s)]
            /\ (i = Len(u)) = (i - Len(s) = Len(t))
            /\ i # Len(u) => u[i + 1] = t[(i - Len(s)) + 1]
        BY <1>1, <1>4, <3>3
      <4> QED
        BY <1>3, <4>1
    <3> QED
      BY <1>1, <1>4, <3>1, <3>2, <3>3
  <2>3. u[Len(u)].wait /\ u # <<>> /\ Head(u) = s[1] /\ Head(s) = s[1]
    BY <1>1, <1>4, <1>9
  <2>4. Chain(K, u, n)
    BY <1>4, <2>2, <2>3 DEF Chain
  <2>5. Start(u, n) = Start(s, m)
    BY <1>9, <2>3 DEF Start
  <2> QED
    BY <2>4, <2>5 DEF u
<1> QED
  BY <1>7, <1>8, <1>9

(* Chunks of one size, and one for the rest.                               *)
Even(whole, base, size, full) ==
  \A i \in 1 .. full : whole[i].from = base + (i - 1) * size /\ whole[i].count = size
Adds(n, base, full, size, rest) == n = base + full * size + rest
Ends(K, remainder, rest, n, waits) ==
  \/ remainder = <<>> /\ rest = 0 /\ waits
  \/ \E a \in K : remainder = <<a>> /\ a.from = n - rest /\ a.count = rest /\ a.wait
LEMMA ChainOfEven ==
  ASSUME NEW K, NEW base \in Nat, NEW size \in Nat \ {0}, NEW full \in Nat, NEW rest \in Nat,
         NEW n, Adds(n, base, full, size, rest),
         NEW whole \in Seq(K), Len(whole) = full, Even(whole, base, size, full),
         NEW remainder, Ends(K, remainder, rest, n, full > 0 => whole[full].wait)
  PROVE  Chain(K, whole \o remainder, n) /\ Start(whole \o remainder, n) = base
<1> DEFINE most == full * size
<1>1. most \in Nat /\ n = base + most + rest
  BY Multiples DEF Adds
<1>2. \A i \in 1 .. full : whole[i].from + whole[i].count
                             = IF i = full THEN base + most ELSE whole[i + 1].from
  <2>1. ASSUME NEW i \in 1 .. full PROVE (i - 1) * size + size = i * size /\ i * size \in Nat
    <3> DEFINE j == i - 1
    <3>1. j \in Nat /\ i = j + 1
      OBVIOUS
    <3> HIDE DEF j
    <3>2. j * size + size = (j + 1) * size /\ (j + 1) * size \in Nat
      BY <3>1
    <3> QED
      BY <3>1, <3>2 DEF j
  <2>2. ASSUME NEW i \in 1 .. full
        PROVE  whole[i].from + whole[i].count
                 = IF i = full THEN base + most ELSE whole[i + 1].from
    <3> DEFINE here == (i - 1) * size
               there == i * size
    <3>1. here + size = there /\ there \in Nat /\ whole[i].from = base + here
            /\ whole[i].count = size
      BY <2>1 DEF Even
    <3>2. i # full => whole[i + 1].from = base + ((i + 1) - 1) * size
      <4>1. i # full => i + 1 \in 1 .. full
        OBVIOUS
      <4> QED
        BY <4>1 DEF Even
    <3>3. (i + 1) - 1 = i
      OBVIOUS
    <3>4. i # full => whole[i + 1].from = base + there
      BY <3>2, <3>3
    <3>5. i = full => there = most
      OBVIOUS
    <3>6. here \in Nat
      <4>1. i - 1 \in Nat
        OBVIOUS
      <4> QED
        BY <4>1, Multiples
    <3> HIDE DEF here, there, most
    <3> QED
      BY <1>1, <3>1, <3>4, <3>5, <3>6
  <2> QED
    BY <2>2
<1>3. full > 0 => whole[1].from = base /\ Head(whole) = whole[1] /\ whole # <<>>
  <2>1. full > 0 => whole[1].from = base + (1 - 1) * size
    BY DEF Even
  <2> QED
    BY <2>1
<1>4. full = 0 => whole = <<>> /\ most = 0
  OBVIOUS
<1> HIDE DEF most
<1>5. CASE remainder = <<>> /\ rest = 0 /\ (full > 0 => whole[full].wait)
  <2>1. whole \o remainder = whole /\ n = base + most
    BY <1>1, <1>5
  <2>2. Chain(K, whole, n)
    <3>1. whole # <<>> => full > 0 /\ Len(whole) = full
      OBVIOUS
    <3> QED
      BY <1>2, <1>5, <2>1, <3>1 DEF Chain
  <2>3. Start(whole, n) = base
    BY <1>1, <1>3, <1>4, <2>1 DEF Start
  <2> QED
    BY <2>1, <2>2, <2>3
<1>6. ASSUME NEW a \in K, remainder = <<a>>, a.from = n - rest, a.count = rest, a.wait
      PROVE  Chain(K, whole \o remainder, n) /\ Start(whole \o remainder, n) = base
  <2> DEFINE u == whole \o <<a>>
  <2>1. a.from = base + most /\ a.from + a.count = n
    BY <1>1, <1>6
  <2>2. /\ u \in Seq(K) /\ Len(u) = full + 1 /\ u # <<>>
        /\ \A i \in 1 .. full + 1 : u[i] = IF i <= full THEN whole[i] ELSE a
    OBVIOUS
  <2>3. Head(u) = u[1]
    OBVIOUS
  <2> HIDE DEF u
  <2>4. ASSUME NEW i \in 1 .. Len(u)
        PROVE  u[i].from + u[i].count = IF i = Len(u) THEN n ELSE u[i + 1].from
    <3>1. CASE i = full + 1
      BY <2>1, <2>2, <3>1
    <3>2. CASE i = full
      <4>1. u[i] = whole[i] /\ u[i + 1] = a /\ i # Len(u) /\ i \in 1 .. full
        BY <2>2, <3>2
      <4> QED
        BY <1>2, <2>1, <3>2, <4>1
    <3>3. CASE i < full
      <4>1. u[i] = whole[i] /\ u[i + 1] = whole[i + 1] /\ i # Len(u) /\ i \in 1 .. full /\ i # full
        BY <2>2, <3>3
      <4> QED
        BY <1>2, <4>1
    <3> QED
      BY <2>2, <3>1, <3>2, <3>3
  <2>5. u[Len(u)].wait
    BY <1>6, <2>2
  <2>6. Chain(K, u, n)
    BY <2>2, <2>4, <2>5 DEF Chain
  <2>7. Start(u, n) = base
    <3>1. u[1].from = base
      BY <1>1, <1>3, <1>4, <2>1, <2>2
    <3> QED
      BY <2>2, <2>3, <3>1 DEF Start
  <2> QED
    BY <1>6, <2>6, <2>7 DEF u
<1> QED
  BY <1>5, <1>6 DEF Ends

LEMMA ChunkFields ==
  ASSUME NEW service, NEW length, NEW from, NEW count, NEW wait
  PROVE  LET a == Chunk(service, length, from, count, wait)
         IN  /\ a.service = service /\ a.length = length /\ a.from = from /\ a.count = count
             /\ a.wait = wait
  BY DEF Chunk, Packet

LEMMA WriteIs ==
  ASSUME NEW service \in Downloads, NEW length \in Nat, NEW from \in Nat,
         NEW count \in 0 .. ByteMax, NEW wait \in BOOLEAN, count <= length,
         wait \/ count < length
  PROVE  Chunk(service, length, from, count, wait) \in Writes
<1> DEFINE a == Chunk(service, length, from, count, wait)
<1>1. a \in Chunks
  BY ChunkTyped
<1>2. a.service = service /\ a.length = length /\ a.count = count /\ a.wait = wait
  BY ChunkFields
<1> HIDE DEF a
<1>3. a \in Writes
  BY <1>1, <1>2 DEF Writes
<1> QED
  BY <1>3 DEF a

LEMMA WriteLast ==
  ASSUME NEW service \in Downloads, NEW from \in Nat, NEW count \in 0 .. ByteMax
  PROVE  LET a == Chunk(service, count, from, count, TRUE)
         IN  a \in Writes /\ a.from = from /\ a.count = count /\ a.wait
<1> DEFINE a == Chunk(service, count, from, count, TRUE)
<1>1. a \in Chunks
  BY WholeTyped
<1>2. a.service = service /\ a.from = from /\ a.count = count /\ a.wait
  BY DEF Chunk, Packet
<1> HIDE DEF a
<1>3. a \in Writes
  BY <1>1, <1>2 DEF Writes
<1> QED
  BY <1>2, <1>3 DEF a

LEMMA ReadIs ==
  ASSUME NEW from \in Nat, NEW count \in 1 .. ByteMax
  PROVE  Chunk("upload", count, from, count, TRUE) \in Reads
<1> DEFINE a == Chunk("upload", count, from, count, TRUE)
<1>1. count \in 0 .. ByteMax /\ "upload" \in Downloads \cup {"buildChecksum", "upload"}
        /\ count \in Nat /\ count >= 1
  BY SessionBounds
<1>2. a \in Chunks
  BY <1>1, WholeTyped
<1>3. a.service = "upload" /\ a.length = count /\ a.count = count /\ a.wait
  BY DEF Chunk, Packet
<1> HIDE DEF a
<1>4. a \in Reads
  BY <1>1, <1>2, <1>3 DEF Reads
<1> QED
  BY <1>4 DEF a

(* Without block mode, and if every packet is waited for, there is at most *)
(* one.                                                                    *)
LEMMA NormalChain ==
  ASSUME NEW first \in Downloads, NEW n \in Nat, NEW payload \in 1 .. ByteMax,
         \A i \in 1 .. Len(Normal(first, n, payload)) : Normal(first, n, payload)[i].wait
  PROVE  Chain(Writes, Normal(first, n, payload), n) /\ Start(Normal(first, n, payload), n) = 0
<1>1. payload \in Nat \ {0} /\ payload <= ByteMax /\ ByteMax \in Nat
  BY SessionBounds
<1> DEFINE full == n \div payload
           rest == n % payload
           end == Chunk(first, rest, n - rest, rest, TRUE)
           part(i) == Chunk(first, payload, (i - 1) * payload, payload, FALSE)
           whole == [i \in 1 .. full |-> part(i)]
           remainder == IF rest > 0 THEN <<end>> ELSE <<>>
           all == Normal(first, n, payload)
<1>2. all = whole \o remainder
  BY DEF Normal
<1>3. Divided(n, payload, full, rest)
  BY <1>1, Division
<1>4. \A i \in 1 .. Len(all) : all[i].wait
  OBVIOUS
<1> HIDE DEF full, rest, all
<1>5. full \in Nat /\ rest \in Nat /\ rest < payload /\ n = full * payload + rest
        /\ full * payload \in Nat
  BY <1>3 DEF Divided
<1>6. end \in Writes /\ end.from = n - rest /\ end.count = rest /\ end.wait
  <2> DEFINE most == full * payload
  <2>1. most \in Nat /\ n = most + rest
    BY <1>5
  <2> HIDE DEF most
  <2>2. rest \in 0 .. ByteMax /\ n - rest \in Nat
    BY <1>1, <1>5, <2>1
  <2> QED
    BY <2>2, WriteLast
<1> HIDE DEF end
<1>7. remainder \in Seq(Writes) /\ (rest = 0 => remainder = <<>>)
        /\ (rest # 0 => remainder = <<end>>)
  BY <1>5, <1>6
<1>8. Len(whole) = full /\ whole \in Seq(Chunks) /\ (full # 0 => whole[1] = part(1))
  <2>1. ASSUME NEW i \in 1 .. full PROVE part(i) \in Chunks
    <3> DEFINE here == (i - 1) * payload
    <3>1. here \in Nat
      BY <1>3 DEF Divided
    <3> HIDE DEF here
    <3>2. Chunk(first, payload, here, payload, FALSE) \in Chunks
      <4>1. payload \in 0 .. ByteMax
        BY <1>1
      <4> QED
        BY <3>1, <4>1, WholeTyped
    <3> QED
      BY <3>2 DEF here
  <2> HIDE DEF part
  <2> QED
    BY <1>5, <2>1
<1>9. ~part(1).wait
  BY DEF Chunk, Packet
<1> HIDE DEF whole, remainder, part
<1>10. full = 0
  <2>1. remainder \in Seq(Chunks)
    BY <1>7 DEF Writes
  <2>2. full # 0 => (whole \o remainder)[1] = whole[1] /\ 1 \in 1 .. Len(whole \o remainder)
    BY <1>5, <1>8, <2>1
  <2> QED
    BY <1>2, <1>4, <1>8, <1>9, <2>2
<1>11. whole = <<>> /\ n = rest
  BY <1>5, <1>8, <1>10
<1>12. whole \in Seq(Writes) /\ Even(whole, 0, payload, full) /\ Len(whole) = full
  BY <1>10, <1>11 DEF Even
<1>13. Ends(Writes, remainder, rest, n, full > 0 => whole[full].wait)
  BY <1>6, <1>7, <1>10 DEF Ends
<1>14. Adds(n, 0, full, payload, rest)
  BY <1>1, <1>5, <1>10, <1>11 DEF Adds
<1>15. Chain(Writes, whole \o remainder, n) /\ Start(whole \o remainder, n) = 0
  BY <1>1, <1>5, <1>12, <1>13, <1>14, ChainOfEven
<1> QED
  BY <1>2, <1>15 DEF all

LEMMA BlockChain ==
  ASSUME PropsTyped, props.maxCto # Unknown, NEW first \in Downloads, NEW next \in Downloads,
         NEW from \in Nat, NEW n \in Nat, NEW e, e = from + n
  PROVE  Chain(Writes, Block(first, next, from, n), e) /\ Start(Block(first, next, from, n), e) = from
<1> DEFINE size == props.maxCto - 2
<1>1. size \in Nat \ {0} /\ size <= ByteMax
  BY SessionBounds DEF PropsTyped, TypedProps, PropsType, Ctos
<1> HIDE DEF size
<1> DEFINE full == n \div size
           rest == n % size
           part(i) == Chunk(IF i = 1 THEN first ELSE next, Remaining(n, i, size),
                            from + (i - 1) * size, size, i * size = n)
           whole == [i \in 1 .. full |-> part(i)]
           kind == IF full <= 1 THEN first ELSE next
           end == Chunk(kind, rest, from + n - rest, rest, TRUE)
           remainder == IF rest = 0 THEN <<>> ELSE <<end>>
<1>2. Block(first, next, from, n) = whole \o remainder
  BY DEF Block, size
<1>3. Divided(n, size, full, rest)
  BY <1>1, Division
<1> HIDE DEF full, rest
<1>4. ASSUME NEW i \in 1 .. full
      PROVE  /\ part(i) \in Writes /\ part(i).from = from + (i - 1) * size
             /\ part(i).count = size /\ part(i).wait = (i * size = n)
  <2> DEFINE here == (i - 1) * size
             there == i * size
  <2>1. here \in Nat /\ there \in Nat /\ there <= n /\ here + size = there
    BY <1>3 DEF Divided
  <2> HIDE DEF here, there
  <2>2. n - here \in Nat /\ size <= n - here /\ from + here \in Nat /\ size \in 0 .. ByteMax
          /\ (there = n \/ size < n - here)
    BY <2>1, <1>1, SessionBounds
  <2> DEFINE service == IF i = 1 THEN first ELSE next
             wait == there = n
             k == n - here
             place == from + here
  <2>3. service \in Downloads /\ wait \in BOOLEAN /\ k \in Nat /\ place \in Nat /\ size <= k
          /\ (wait \/ size < k)
    BY <2>2
  <2>4. part(i) = Chunk(service, k, place, size, wait)
    BY DEF Remaining, here, there
  <2> HIDE DEF service, wait, k, place, part
  <2>5. Chunk(service, k, place, size, wait) \in Writes
    BY <2>2, <2>3, WriteIs
  <2>6. part(i).from = place /\ part(i).count = size /\ part(i).wait = wait
    BY <2>4, ChunkFields
  <2> QED
    BY <2>4, <2>5, <2>6 DEF wait, place, here, there
<1> DEFINE most == full * size
<1>5. most \in Nat /\ n = most + rest /\ rest \in Nat /\ full \in Nat /\ rest < size
        /\ (from + n) = from + full * size + rest
  BY <1>3 DEF Divided
<1>6. end \in Writes /\ end.from = from + n - rest /\ end.count = rest /\ end.wait
  <2>1. kind \in Downloads
    OBVIOUS
  <2>2. rest \in 0 .. ByteMax /\ from + n - rest \in Nat
    BY <1>1, <1>5, SessionBounds
  <2> DEFINE place == from + n - rest
  <2> HIDE DEF kind, place
  <2>3. Chunk(kind, rest, place, rest, TRUE) \in Writes
          /\ Chunk(kind, rest, place, rest, TRUE).from = place
          /\ Chunk(kind, rest, place, rest, TRUE).count = rest
          /\ Chunk(kind, rest, place, rest, TRUE).wait
    <3>1. place \in Nat
      BY <2>2 DEF place
    <3> QED
      BY <2>1, <2>2, <3>1, WriteLast
  <2> QED
    BY <2>3 DEF place
<1> HIDE DEF part, end
<1>7. whole \in Seq(Writes) /\ Len(whole) = full /\ Even(whole, from, size, full)
  <2>1. whole \in [1 .. full -> Writes]
    BY <1>4
  <2>2. Even(whole, from, size, full)
    BY <1>4 DEF Even
  <2> QED
    BY <1>5, <2>1, <2>2
<1>8. rest = 0 /\ full > 0 => whole[full].wait
  <2>1. rest = 0 => full * size = n
    BY <1>5
  <2>2. full > 0 => full \in 1 .. full
    BY <1>5
  <2> QED
    BY <1>4, <2>1, <2>2
<1>9. Adds(e, from, full, size, rest) /\ end.from = e - rest
  BY <1>5, <1>6 DEF Adds
<1>10. Ends(Writes, remainder, rest, e, full > 0 => whole[full].wait)
  BY <1>5, <1>6, <1>8, <1>9 DEF Ends
<1> HIDE DEF whole, remainder, most
<1>11. Chain(Writes, whole \o remainder, e) /\ Start(whole \o remainder, e) = from
  BY <1>1, <1>5, <1>7, <1>9, <1>10, ChainOfEven
<1> QED
  BY <1>2, <1>11

(* With block mode, every block begins where the one before it ends.       *)
LEMMA BlocksChain ==
  ASSUME PropsTyped, props.maxCto # Unknown, NEW first \in Downloads, NEW next \in Downloads,
         NEW n \in Nat, NEW limit \in Nat \ {0}
  PROVE  Chain(Writes, Blocks(first, next, n, limit), n) /\ Start(Blocks(first, next, n, limit), n) = 0
<1> DEFINE count == (n + limit - 1) \div limit
           blocks == [i \in 1 .. count |-> Block(first, next, (i - 1) * limit,
                                                 LeastOf(limit, n - (i - 1) * limit))]
           end(k) == LeastOf(k * limit, n)
           part(k) == FlattenSeq(Pieces(blocks, k))
           T == {k \in 0 .. count : Chain(Writes, part(k), end(k)) /\ Start(part(k), end(k)) = 0}
<1>1. /\ n + limit - 1 \in Nat /\ count \in Nat
      /\ \A i \in 1 .. count : /\ i * limit \in Nat /\ i * limit <= n + limit - 1
                             /\ (i - 1) * limit \in Nat
                             /\ (i - 1) * limit + limit = i * limit
      /\ end(count) = n
  <2>1. n + limit - 1 \in Nat
    OBVIOUS
  <2> DEFINE rest == (n + limit - 1) % limit
             most == count * limit
  <2>2. Divided(n + limit - 1, limit, count, rest)
    BY <2>1, Division
  <2> HIDE DEF count, rest
  <2>3. most \in Nat /\ n + limit - 1 = most + rest /\ rest \in Nat /\ rest < limit
    BY <2>2 DEF Divided
  <2> HIDE DEF most
  <2>4. LeastOf(most, n) = n
    BY <2>3 DEF LeastOf
  <2> QED
    BY <2>1, <2>2, <2>4 DEF Divided, most
<1> HIDE DEF count
<1>2. ASSUME NEW i \in 1 .. count
      PROVE  /\ Chain(Writes, blocks[i], end(i)) /\ Start(blocks[i], end(i)) = (i - 1) * limit
             /\ end(i - 1) = (i - 1) * limit
  <2> DEFINE here == (i - 1) * limit
             there == i * limit
  <2>1. here \in Nat /\ there \in Nat /\ here + limit = there /\ there <= n + limit - 1
    BY <1>1
  <2> HIDE DEF here, there
  <2> DEFINE k == LeastOf(limit, n - here)
  <2>2. k \in Nat /\ here + k = LeastOf(there, n) /\ LeastOf(here, n) = here
    BY <2>1 DEF LeastOf
  <2> HIDE DEF k
  <2> DEFINE e == here + k
  <2>6. e = here + k
    OBVIOUS
  <2> HIDE DEF e
  <2>3. Chain(Writes, Block(first, next, here, k), e) /\ Start(Block(first, next, here, k), e) = here
    <3>1. here \in Nat /\ k \in Nat /\ e = here + k
      BY <2>1, <2>2, <2>6
    <3>2. Chain(Writes, Block(first, next, here, k), e)
      BY <3>1, BlockChain
    <3>3. Start(Block(first, next, here, k), e) = here
      BY <3>1, BlockChain
    <3> QED
      BY <3>2, <3>3
  <2>4. blocks[i] = Block(first, next, here, k)
    BY DEF here, k
  <2> HIDE DEF blocks
  <2>5. end(i) = e /\ end(i - 1) = here
    BY <2>2, <2>6 DEF here, there
  <2> HIDE DEF end
  <2> QED
    BY <2>3, <2>4, <2>5 DEF here
<1>3. Blocks(first, next, n, limit) = FlattenSeq(blocks) /\ Pieces(blocks, count) = blocks
  BY DEF Blocks, Pieces, count
<1> HIDE DEF blocks
<1>4. 0 \in T
  <2>1. part(0) = <<>>
    BY FlattenNone
  <2>2. end(0) = 0
    BY DEF LeastOf
  <2> HIDE DEF part, end
  <2>3. Chain(Writes, part(0), end(0)) /\ Start(part(0), end(0)) = 0
    BY <2>1, <2>2, EmptyChain
  <2> QED
    BY <1>1, <2>3
<1>5. ASSUME NEW k \in 0 .. count - 1, k \in T PROVE k + 1 \in T
  <2>1. k + 1 \in 1 .. count /\ (k + 1) - 1 = k /\ k \in Nat /\ k + 1 \in 0 .. count
    BY <1>1
  <2>2. /\ Chain(Writes, blocks[k + 1], end(k + 1)) /\ Start(blocks[k + 1], end(k + 1)) = k * limit
        /\ end(k) = k * limit
    BY <1>2, <2>1
  <2>3. Chain(Writes, part(k), end(k)) /\ Start(part(k), end(k)) = 0
    BY <1>5
  <2>4. CASE k = 0
    <3>1. part(k + 1) = blocks[k + 1]
      <4>1. part(1) = blocks[1]
        BY FlattenOne
      <4> QED
        BY <2>4, <4>1
    <3>2. k * limit = 0
      BY <2>4
    <3> HIDE DEF part, end
    <3> QED
      BY <2>1, <2>2, <3>1, <3>2
  <2>5. CASE k # 0
    <3>1. part(k + 1) = part(k) \o blocks[k + 1]
      BY <2>1, <2>5, FlattenOneMore
    <3> DEFINE so_far == part(k)
               m == end(k)
               e == end(k + 1)
               more == blocks[k + 1]
    <3>2. Chain(Writes, so_far, m) /\ Start(so_far, m) = 0 /\ Chain(Writes, more, e)
            /\ Start(more, e) = m
      BY <2>2, <2>3
    <3> HIDE DEF so_far, m, e, more
    <3>3. Chain(Writes, so_far \o more, e) /\ Start(so_far \o more, e) = 0
      BY <3>2, ChainConcat
    <3>4. Chain(Writes, part(k + 1), end(k + 1)) /\ Start(part(k + 1), end(k + 1)) = 0
      BY <3>1, <3>3 DEF so_far, e, more
    <3> QED
      BY <2>1, <3>4
  <2> QED
    BY <2>4, <2>5
<1> HIDE DEF T
<1>6. count \in T
  BY <1>1, <1>4, <1>5, SetInduction
<1>7. Chain(Writes, part(count), end(count)) /\ Start(part(count), end(count)) = 0
  BY <1>6 DEF T
<1> HIDE DEF end
<1>8. Chain(Writes, part(count), n) /\ Start(part(count), n) = 0
  BY <1>1, <1>7
<1> QED
  BY <1>3, <1>8

LEMMA FetchedChain ==
  ASSUME PropsTyped, props.maxCto # Unknown, NEW n \in Nat, NEW limit \in Nat
  PROVE  Chain(Reads, Fetched(n, limit), n) /\ Start(Fetched(n, limit), n) = 0
<1> DEFINE most == IF props.slaveBlock THEN ByteMax ELSE props.maxCto - 1
           size == IF limit = 0 THEN most ELSE LeastOf(limit, most)
<1>1. size \in Nat \ {0} /\ size <= ByteMax
  <2>1. most \in Nat \ {0} /\ most <= ByteMax
    BY SessionBounds DEF PropsTyped, TypedProps, PropsType, Ctos
  <2> HIDE DEF most
  <2> QED
    BY <2>1, SessionBounds DEF LeastOf
<1> DEFINE full == n \div size
           rest == n % size
           part(from, k) == Chunk("upload", k, from, k, TRUE)
           end == part(n - rest, rest)
           whole == [i \in 1 .. full |-> part((i - 1) * size, size)]
           remainder == IF rest = 0 THEN <<>> ELSE <<end>>
<1>2. Fetched(n, limit) = whole \o remainder
  BY DEF Fetched
<1> HIDE DEF size
<1>3. Divided(n, size, full, rest)
  BY <1>1, Division
<1> HIDE DEF full, rest
<1>4. ASSUME NEW from \in Nat, NEW k \in 1 .. ByteMax
      PROVE  /\ part(from, k) \in Reads /\ part(from, k).from = from /\ part(from, k).count = k
             /\ part(from, k).wait
  <2>1. part(from, k) \in Reads
    BY ReadIs
  <2> QED
    BY <2>1 DEF Chunk, Packet
<1>5. full * size \in Nat /\ n = full * size + rest /\ rest \in Nat /\ full \in Nat /\ rest < size
  BY <1>3 DEF Divided
<1>6. rest # 0 => end \in Reads /\ end.from = n - rest /\ end.count = rest /\ end.wait
  <2> DEFINE all == full * size
             place == n - rest
  <2>1. all \in Nat /\ n = all + rest
    BY <1>5
  <2> HIDE DEF all, part
  <2>2. rest # 0 => rest \in 1 .. ByteMax
    BY <1>1, <1>5, SessionBounds
  <2>3. place \in Nat
    BY <1>5, <2>1
  <2> HIDE DEF place
  <2>4. rest # 0 => /\ part(place, rest) \in Reads /\ part(place, rest).from = place
                    /\ part(place, rest).count = rest /\ part(place, rest).wait
    BY <1>4, <2>2, <2>3
  <2> QED
    BY <2>4 DEF place
<1>7. ASSUME NEW i \in 1 .. full
      PROVE  /\ whole[i] \in Reads /\ whole[i].from = 0 + (i - 1) * size /\ whole[i].count = size
             /\ whole[i].wait
  <2> DEFINE here == (i - 1) * size
  <2>1. here \in Nat
    BY <1>3 DEF Divided
  <2>2. whole[i] = part(here, size)
    OBVIOUS
  <2> HIDE DEF here, part, whole
  <2>3. size \in 1 .. ByteMax
    BY <1>1, SessionBounds
  <2>4. /\ part(here, size) \in Reads /\ part(here, size).from = here
        /\ part(here, size).count = size /\ part(here, size).wait
    BY <1>4, <2>1, <2>3
  <2>5. here = 0 + here
    BY <2>1
  <2> QED
    BY <2>2, <2>4, <2>5 DEF here
<1> HIDE DEF end
<1>8. whole \in Seq(Reads) /\ Len(whole) = full /\ Even(whole, 0, size, full)
  <2>1. whole \in [1 .. full -> Reads]
    <3>1. DOMAIN whole = 1 .. full /\ whole = [i \in 1 .. full |-> whole[i]]
      OBVIOUS
    <3> HIDE DEF whole
    <3> QED
      BY <1>7, <3>1
  <2> HIDE DEF whole
  <2>2. Even(whole, 0, size, full)
    BY <1>7 DEF Even
  <2>3. whole \in Seq(Reads) /\ Len(whole) = full
    BY <1>5, <2>1
  <2> QED
    BY <2>2, <2>3
<1> HIDE DEF whole
<1>9. Ends(Reads, remainder, rest, n, full > 0 => whole[full].wait)
  <2>1. full > 0 => full \in 1 .. full
    BY <1>5
  <2> QED
    BY <1>6, <1>7, <2>1 DEF Ends
<1>10. Adds(n, 0, full, size, rest)
  BY <1>5 DEF Adds
<1> HIDE DEF remainder
<1>11. Chain(Reads, whole \o remainder, n) /\ Start(whole \o remainder, n) = 0
  BY <1>1, <1>5, <1>8, <1>9, <1>10, ChainOfEven
<1> QED
  BY <1>2, <1>11

LEMMA PushedChain ==
  ASSUME PropsTyped, props.maxCto # Unknown, NEW first \in Downloads, NEW next \in Downloads,
         NEW c \in Calls, NEW block \in BOOLEAN, NEW maxCto \in 4 .. ByteMax,
         NEW maxBs \in Nat \ {0}, NEW all, all = Pushed(first, next, c, block, maxCto, maxBs),
         block \/ \A i \in 1 .. Len(all) : all[i].wait
  PROVE  /\ all # <<>> /\ Head(all) = Address(c.at)
         /\ Chain(Writes, Tail(all), c.n) /\ Start(Tail(all), c.n) = 0
<1> DEFINE limit == LeastOf(maxBs * (maxCto - 2), ByteMax)
           packets == IF block THEN Blocks(first, next, c.n, limit)
                               ELSE Normal(first, c.n, maxCto - 2)
           address == Address(c.at)
<1>1. c.at \in Nat /\ c.n \in Nat
  BY DEF Calls
<1>2. maxCto - 2 \in 1 .. ByteMax
  BY SessionBounds
<1>3. limit \in Nat \ {0}
  <2> DEFINE payload == maxCto - 2
             most == maxBs * payload
  <2>1. payload \in Nat \ {0}
    BY <1>2
  <2> HIDE DEF payload
  <2>2. most \in Nat \ {0}
    BY <2>1
  <2> HIDE DEF most
  <2>3. LeastOf(most, ByteMax) \in Nat \ {0}
    BY <2>2, SessionBounds DEF LeastOf
  <2> QED
    BY <2>3 DEF most, payload
<1>4. all = <<address>> \o packets
  BY DEF Pushed
<1> HIDE DEF limit
<1>5. packets \in Seq(Chunks) /\ address \in Chunks
  BY <1>1, <1>2, <1>3, BlocksTyped, NormalTyped, AddressTyped
<1> HIDE DEF packets, address
<1>6. /\ all \in Seq(Chunks) /\ all # <<>> /\ Head(all) = address
      /\ Len(all) = Len(packets) + 1 /\ Len(packets) \in Nat
      /\ \A i \in 1 .. Len(packets) : all[i + 1] = packets[i]
  BY <1>4, <1>5
<1>7. Tail(all) = packets
  <2>1. /\ Tail(all) \in Seq(Chunks) /\ Len(Tail(all)) = Len(all) - 1
        /\ \A i \in 1 .. Len(Tail(all)) : Tail(all)[i] = all[i + 1]
    BY <1>6, HeadTailProperties
  <2>2. Len(Tail(all)) = Len(packets) /\ \A i \in 1 .. Len(packets) : Tail(all)[i] = packets[i]
    BY <1>6, <2>1
  <2> QED
    BY <1>5, <2>1, <2>2, SeqEqual
<1>8. Chain(Writes, packets, c.n) /\ Start(packets, c.n) = 0
  <2>1. CASE block
    <3>1. packets = Blocks(first, next, c.n, limit)
      BY <2>1 DEF packets
    <3>2. Chain(Writes, Blocks(first, next, c.n, limit), c.n)
      BY <1>1, <1>3, BlocksChain
    <3>3. Start(Blocks(first, next, c.n, limit), c.n) = 0
      BY <1>1, <1>3, BlocksChain
    <3> QED
      BY <3>1, <3>2, <3>3
  <2>2. CASE ~block
    <3>1. packets = Normal(first, c.n, maxCto - 2)
      BY <2>2 DEF packets
    <3>2. \A i \in 1 .. Len(packets) : packets[i].wait
      <4>1. ASSUME NEW i \in 1 .. Len(packets) PROVE packets[i].wait
        <5>1. i + 1 \in 1 .. Len(all) /\ all[i + 1] = packets[i]
          BY <1>6
        <5>2. \A j \in 1 .. Len(all) : all[j].wait
          BY <2>2
        <5> QED
          BY <5>1, <5>2
      <4> QED
        BY <4>1
    <3> DEFINE payload == maxCto - 2
    <3>3. packets = Normal(first, c.n, payload) /\ payload \in 1 .. ByteMax
      BY <1>2, <3>1
    <3> HIDE DEF payload
    <3>4. \A i \in 1 .. Len(Normal(first, c.n, payload)) : Normal(first, c.n, payload)[i].wait
      BY <3>2, <3>3
    <3>5. Chain(Writes, Normal(first, c.n, payload), c.n)
      BY <1>1, <3>3, <3>4, NormalChain
    <3>6. Start(Normal(first, c.n, payload), c.n) = 0
      BY <1>1, <3>3, <3>4, NormalChain
    <3> QED
      BY <3>3, <3>5, <3>6
  <2> QED
    BY <2>1, <2>2
<1> QED
  BY <1>6, <1>7, <1>8 DEF address

LEMMA PushBegins ==
  ASSUME PropsTyped, props.maxCto # Unknown, NEW c \in Calls, c.op \in {"push", "flash_program"},
         Refuses(c) = "none", NEW all, all = TransferOf(c),
         InBlocks(c) \/ \A i \in 1 .. Len(all) : all[i].wait
  PROVE  /\ all # <<>> /\ Head(all) = Address(c.at)
         /\ Chain(Writes, Tail(all), c.n) /\ Start(Tail(all), c.n) = 0
<1>1. /\ props.masterBlock \in BOOLEAN /\ props.pgmBlock \in BOOLEAN
      /\ props.maxCto \in 4 .. ByteMax
      /\ props.maxBs # Unknown => props.maxBs \in Nat \ {0}
      /\ props.pgmMaxBs # Unknown => props.pgmMaxBs \in Nat \ {0}
                                       /\ props.pgmMaxCto \in 4 .. ByteMax
  BY DEF PropsTyped, TypedProps, PropsType, Limits, Ctos
<1>2. /\ "download" \in Downloads /\ "downloadNext" \in Downloads
      /\ "program" \in Downloads /\ "programNext" \in Downloads
  BY DEF Downloads
<1>3. CASE c.op = "push"
  <2>1. props.maxBs \in Nat \ {0}
    BY <1>1, <1>3 DEF Refuses
  <2>2. all = Pushed("download", "downloadNext", c, props.masterBlock, props.maxCto, props.maxBs)
    BY <1>3 DEF TransferOf
  <2>3. props.masterBlock \/ \A i \in 1 .. Len(all) : all[i].wait
    BY <1>3 DEF InBlocks
  <2> QED
    BY <1>1, <1>2, <2>1, <2>2, <2>3, PushedChain
<1>4. CASE c.op = "flash_program"
  <2>1. props.pgmMaxBs \in Nat \ {0} /\ props.pgmMaxCto \in 4 .. ByteMax
    BY <1>1, <1>4 DEF Refuses
  <2>2. all = Pushed("program", "programNext", c, props.pgmBlock, props.pgmMaxCto, props.pgmMaxBs)
    BY <1>4 DEF TransferOf
  <2>3. props.pgmBlock \/ \A i \in 1 .. Len(all) : all[i].wait
    BY <1>4 DEF InBlocks
  <2> QED
    BY <1>1, <1>2, <2>1, <2>2, <2>3, PushedChain
<1> QED
  BY <1>3, <1>4

(* One, two or three elements before the others.                          *)
OneMore(all, i, s) == all = <<i>> \o s
TwoMore(all, i, j, s) == all = <<i, j>> \o s
ThreeMore(all, i, j, k, s) == all = <<i, j, k>> \o s
LEMMA ThreeBefore ==
  ASSUME NEW Items, NEW i \in Items, NEW j \in Items, NEW k \in Items, NEW s \in Seq(Items),
         NEW all, ThreeMore(all, i, j, k, s)
  PROVE  Without(all, 3) = s /\ all # <<>> /\ TwoMore(Tail(all), j, k, s) /\ Head(all) = i
<1> DEFINE two == <<j, k>> \o s
<1>1. /\ all \in Seq(Items) /\ Len(all) = 3 + Len(s) /\ Len(s) \in Nat /\ all # <<>>
      /\ all[1] = i /\ all[2] = j /\ all[3] = k
      /\ \A n \in 1 .. Len(s) : all[3 + n] = s[n]
  BY DEF ThreeMore
<1>2. /\ two \in Seq(Items) /\ Len(two) = 2 + Len(s) /\ two[1] = j /\ two[2] = k
      /\ \A n \in 1 .. Len(s) : two[2 + n] = s[n]
  OBVIOUS
<1> HIDE DEF two
<1>3. Without(all, 3) = s
  <2> DEFINE t == SubSeq(all, 3 + 1, Len(all))
  <2>1. /\ t \in Seq(Items) /\ Len(t) = (IF 3 <= Len(all) THEN Len(all) - 3 ELSE 0)
        /\ \A n \in 1 .. Len(t) : t[n] = all[3 + n]
    <3>1. 3 \in Nat
      OBVIOUS
    <3> QED
      BY <1>1, <3>1, Remainder
  <2>2. Without(all, 3) = t
    BY DEF Without
  <2> HIDE DEF t
  <2>3. Len(t) = Len(s) /\ \A n \in 1 .. Len(s) : t[n] = s[n]
    BY <1>1, <2>1
  <2> QED
    BY <2>1, <2>2, <2>3, SeqEqual
<1>4. Tail(all) = two
  <2>1. /\ Tail(all) \in Seq(Items) /\ Len(Tail(all)) = Len(all) - 1
        /\ \A n \in 1 .. Len(Tail(all)) : Tail(all)[n] = all[n + 1]
    BY <1>1, HeadTailProperties
  <2>2. Len(Tail(all)) = Len(two)
    BY <1>1, <1>2, <2>1
  <2>3. ASSUME NEW n \in 1 .. Len(two) PROVE Tail(all)[n] = two[n]
    <3>1. Tail(all)[n] = all[n + 1] /\ (n = 1 \/ n = 2 \/ n - 2 \in 1 .. Len(s))
      BY <1>1, <1>2, <2>1, <2>2
    <3>2. CASE n = 1
      BY <1>1, <1>2, <3>1, <3>2
    <3>3. CASE n = 2
      BY <1>1, <1>2, <3>1, <3>3
    <3>4. CASE n - 2 \in 1 .. Len(s)
      <4>1. all[3 + (n - 2)] = s[n - 2] /\ two[2 + (n - 2)] = s[n - 2]
        BY <1>1, <1>2, <3>4
      <4>2. 3 + (n - 2) = n + 1 /\ 2 + (n - 2) = n
        BY <1>2
      <4> QED
        BY <3>1, <4>1, <4>2
    <3> QED
      BY <3>1, <3>2, <3>3, <3>4
  <2> QED
    BY <1>2, <2>1, <2>2, <2>3, SeqEqual
<1>5. Head(all) = i
  BY <1>1
<1> QED
  BY <1>1, <1>3, <1>4, <1>5 DEF two, TwoMore

LEMMA TwoBefore ==
  ASSUME NEW Items, NEW j \in Items, NEW k \in Items, NEW s \in Seq(Items),
         NEW all, TwoMore(all, j, k, s)
  PROVE  Without(all, 2) = s /\ all # <<>> /\ OneMore(Tail(all), k, s) /\ Head(all) = j
<1> DEFINE one == <<k>> \o s
<1>1. /\ one \in Seq(Items) /\ Len(one) = 1 + Len(s) /\ Len(s) \in Nat /\ one # <<>>
      /\ one[1] = k
      /\ \A n \in 1 .. Len(s) : one[1 + n] = s[n]
  OBVIOUS
<1> HIDE DEF one
<1>2. /\ all \in Seq(Items) /\ Len(all) = 2 + Len(s) /\ all[1] = j /\ all[2] = k /\ all # <<>>
      /\ \A n \in 1 .. Len(s) : all[2 + n] = s[n]
  BY DEF TwoMore
<1>3. Without(all, 2) = s
  <2> DEFINE t == SubSeq(all, 2 + 1, Len(all))
  <2>1. /\ t \in Seq(Items) /\ Len(t) = (IF 2 <= Len(all) THEN Len(all) - 2 ELSE 0)
        /\ \A n \in 1 .. Len(t) : t[n] = all[2 + n]
    <3>1. 2 \in Nat
      OBVIOUS
    <3> QED
      BY <1>2, <3>1, Remainder
  <2>2. Without(all, 2) = t
    BY DEF Without
  <2> HIDE DEF t
  <2>3. Len(t) = Len(s) /\ \A n \in 1 .. Len(s) : t[n] = s[n]
    BY <1>1, <1>2, <2>1
  <2> QED
    BY <2>1, <2>2, <2>3, SeqEqual
<1>4. Tail(all) = one
  <2>1. /\ Tail(all) \in Seq(Items) /\ Len(Tail(all)) = Len(all) - 1
        /\ \A n \in 1 .. Len(Tail(all)) : Tail(all)[n] = all[n + 1]
    BY <1>2, HeadTailProperties
  <2>2. Len(Tail(all)) = Len(one)
    BY <1>1, <1>2, <2>1
  <2>3. ASSUME NEW n \in 1 .. Len(one) PROVE Tail(all)[n] = one[n]
    <3>1. Tail(all)[n] = all[n + 1] /\ (n = 1 \/ n - 1 \in 1 .. Len(s))
      BY <1>1, <1>2, <2>1, <2>2
    <3>2. CASE n = 1
      BY <1>1, <1>2, <3>1, <3>2
    <3>3. CASE n - 1 \in 1 .. Len(s)
      <4>1. one[1 + (n - 1)] = s[n - 1] /\ all[2 + (n - 1)] = s[n - 1]
        BY <1>1, <1>2, <3>3
      <4>2. 2 + (n - 1) = n + 1 /\ 1 + (n - 1) = n
        BY <1>2
      <4> QED
        BY <3>1, <4>1, <4>2
    <3> QED
      BY <3>1, <3>2, <3>3
  <2> QED
    BY <1>1, <2>1, <2>2, <2>3, SeqEqual
<1> QED
  BY <1>2, <1>3, <1>4 DEF one, OneMore

LEMMA OneBefore ==
  ASSUME NEW Items, NEW k \in Items, NEW s \in Seq(Items), NEW all, OneMore(all, k, s)
  PROVE  Tail(all) = s /\ Head(all) = k /\ all # <<>>
<1>1. /\ all \in Seq(Items) /\ Len(all) = 1 + Len(s) /\ Len(s) \in Nat /\ all # <<>>
      /\ all[1] = k
      /\ \A n \in 1 .. Len(s) : all[1 + n] = s[n]
  BY DEF OneMore
<1>2. Tail(all) = s
  <2>1. /\ Tail(all) \in Seq(Items) /\ Len(Tail(all)) = Len(all) - 1
        /\ \A n \in 1 .. Len(Tail(all)) : Tail(all)[n] = all[n + 1]
    BY <1>1, HeadTailProperties
  <2>2. Len(Tail(all)) = Len(s) /\ \A n \in 1 .. Len(s) : Tail(all)[n] = s[n]
    BY <1>1, <2>1
  <2> QED
    BY <1>1, <2>1, <2>2, SeqEqual
<1>3. Head(all) = k
  BY <1>1
<1> QED
  BY <1>1, <1>2, <1>3

-----------------------------------------------------------------------------
(* A transfer begins: nothing has been sent, and what will be is a chain.  *)
LEMMA RememberedIs ==
  ASSUME NEW c
  PROVE  /\ Remembered(c).op = c.op /\ Remembered(c).at = c.at /\ Remembered(c).n = c.n
         /\ Remembered(c).before = slave.memory /\ Remembered(c).mta = slave.mta
  BY DEF Remembered

LEMMA TransferBeginSafe ==
  ASSUME TypeInv, Safe, ~ChunkedPushes, TransferBegin
  PROVE  Safe'
<1> DEFINE c == Head(script)
<1>1. /\ pc = "idle" /\ script # <<>> /\ c.op \in TransferOps
      /\ UNCHANGED <<transport, status, seed, keyLeft, props, channel, slave, faults, exchanged,
                     known>>
  BY DEF TransferBegin, TransferOps
<1>2. c \in Calls
  BY <1>1, TailTyped DEF TypeInv, ScriptType
<1>3. props.maxCto # Unknown /\ PropsTyped
  BY <1>1 DEF TypeInv, ConnectsFirst, TransferOps, Exceptions
<1>4. IF Refuses(c) # "none" THEN Raise(c, Refuses(c)) /\ UNCHANGED <<got, expected>>
      ELSE /\ Begin
           /\ todo' = TransferOf(c) /\ got' = <<>> /\ expected' = <<>>
           /\ InBlocks(c) \/ \A i \in 1 .. Len(todo') : todo'[i].wait
           /\ IF todo' = <<>> THEN Return(Remembered(c))
              ELSE pc' = "transfer" /\ call' = Remembered(c) /\ last' = NoCall
           /\ UNCHANGED names
  BY DEF TransferBegin
<1>5. Waiting' = <<>> /\ Waiting = <<>>
  BY <1>1 DEF Safe, Quiet, Waiting, channel
<1>6. Match' /\ OrdersAgree' /\ Admitted'
  <2>1. Met' => slave.connected
    BY <1>1, <1>5 DEF Met
  <2>2. Match'
    BY <1>1, <2>1 DEF Match, Met, Safe
  <2> QED
    BY <1>1, <2>2 DEF OrdersAgree, Admitted, Safe
<1>7. c.at \in Nat /\ c.n \in Nat /\ c.limit \in Nat
  BY <1>2 DEF Calls
<1> HIDE DEF c
<1>8. CASE Refuses(c) # "none"
  <2>1. Refuses(c) \in Exceptions /\ Raise(c, Refuses(c))
    BY <1>4, <1>8 DEF Refuses, Exceptions
  <2>2. /\ Quiet' /\ Finished' /\ TransferLeft' /\ TransfersExact' /\ UnlockLeft' /\ UnlockWhole'
    BY <1>5, <2>1, RequestRaised
  <2> QED
    BY <1>6, <2>2 DEF Safe
<1>9. CASE Refuses(c) = "none" /\ todo' # <<>>
  <2>1. /\ pc' = "transfer" /\ call' = Remembered(c) /\ last' = NoCall
        /\ todo' = TransferOf(c) /\ got' = <<>> /\ expected' = <<>>
        /\ InBlocks(c) \/ \A i \in 1 .. Len(todo') : todo'[i].wait
    BY <1>4, <1>9
  <2>2. /\ call'.op = c.op /\ call'.at = c.at /\ call'.n = c.n
        /\ call'.before = slave.memory /\ call'.mta = slave.mta
    BY <2>1, RememberedIs
  <2>3. last'.how # "returned"
    BY <2>1 DEF NoCall
  <2>4. Finished' /\ TransfersExact' /\ UnlockWhole'
    BY <2>3 DEF Finished, TransfersExact, PushExact, FetchExact, VerifyExact, UnlockWhole, Returned
  <2>5. Quiet' /\ UnlockLeft'
    BY <1>5, <2>1 DEF Quiet, UnlockLeft, Unlocking
  <2>6. c.op \in {"push", "flash_program"} => PushLeft'
    <3>1. SUFFICES ASSUME c.op \in {"push", "flash_program"} PROVE PushLeft'
      OBVIOUS
    <3>2. /\ Head(todo') = Address(c.at)
          /\ Chain(Writes, Tail(todo'), c.n) /\ Start(Tail(todo'), c.n) = 0
      BY <1>2, <1>3, <1>9, <2>1, <3>1, PushBegins
    <3>3. slave'.memory = call'.before
      BY <1>1, <2>2
    <3> QED
      BY <2>2, <3>2, <3>3 DEF PushLeft
  <2>7. c.op = "fetch" => FetchLeft'
    <3>1. SUFFICES ASSUME c.op = "fetch" PROVE FetchLeft'
      OBVIOUS
    <3>2. todo' = Fetched(c.n, c.limit)
      BY <2>1, <3>1 DEF TransferOf
    <3>3. Chain(Reads, todo', c.n) /\ Start(todo', c.n) = 0
      BY <1>3, <1>7, <3>2, FetchedChain
    <3>4. slave'.mta = call'.mta + 0
      BY <1>1, <2>2, SlaveFacts DEF TypeInv
    <3>5. got' = [i \in 1 .. 0 |-> slave'.memory[call'.mta + i - 1]]
      BY <2>1
    <3> QED
      BY <2>2, <3>3, <3>4, <3>5 DEF FetchLeft, Held, HeldIn
  <2>8. c.op = "verify" => VerifyLeft'
    <3>1. SUFFICES ASSUME c.op = "verify" PROVE VerifyLeft'
      OBVIOUS
    <3> DEFINE s == Fetched(c.n, 0)
               sum == Chunk("buildChecksum", c.n, 0, 0, TRUE)
               address == Address(c.at)
    <3>2. todo' = <<address, sum, address>> \o s
      BY <2>1, <3>1 DEF TransferOf, Verified
    <3>3. Chain(Reads, s, c.n) /\ Start(s, c.n) = 0
      BY <1>3, <1>7, FetchedChain
    <3>4. s \in Seq(Chunks) /\ address \in Chunks /\ sum \in Chunks
      <4>1. s \in Seq(Reads)
        BY <3>3 DEF Chain
      <4>2. Reads \subseteq Chunks
        BY DEF Reads
      <4>3. sum \in Chunks
        <5>1. 0 \in 0 .. ByteMax /\ "buildChecksum" \notin Downloads
          BY SessionBounds DEF Downloads
        <5> QED
          BY <1>7, <5>1 DEF Chunk, Packet, Chunks
      <4>4. address \in Chunks
        BY <1>7, AddressTyped
      <4> HIDE DEF s, sum, address
      <4> QED
        BY <4>1, <4>2, <4>3, <4>4
    <3>5. sum = Sum(call)' /\ address = Address(call.at)'
      BY <2>2 DEF Sum
    <3> HIDE DEF s, sum, address
    <3>6. Without(todo', 3) = s
      <4>1. ThreeMore(todo', address, sum, address, s)
        BY <3>2 DEF ThreeMore
      <4> DEFINE all == todo'
      <4>2. ThreeMore(all, address, sum, address, s)
        BY <4>1
      <4> HIDE DEF all
      <4>3. Without(all, 3) = s
        BY <3>4, <4>2, ThreeBefore
      <4> QED
        BY <4>3 DEF all
    <3>7. todo' = <<Address(call.at)', Sum(call)', Address(call.at)'>> \o s
      BY <3>2, <3>5
    <3>8. got' = <<>> /\ call'.n = c.n
      BY <2>1, <2>2
    <3> QED
      BY <3>3, <3>6, <3>7, <3>8 DEF VerifyLeft, SumFirst
  <2>9. TransferLeft'
    BY <2>2, <2>6, <2>7, <2>8 DEF TransferLeft
  <2> QED
    BY <1>6, <2>4, <2>5, <2>9 DEF Safe
<1>10. CASE Refuses(c) = "none" /\ todo' = <<>>
  <2>1. Return(Remembered(c)) /\ todo' = TransferOf(c) /\ got' = <<>>
          /\ (InBlocks(c) \/ \A i \in 1 .. Len(todo') : todo'[i].wait)
    BY <1>4, <1>10
  <2>2. pc' = "idle" /\ last'.how = "returned" /\ last'.call = Remembered(c)
    BY <2>1 DEF Return
  <2>3. c.op = "fetch"
    <3>1. c.op \notin {"push", "flash_program"}
      BY <1>2, <1>3, <1>10, <2>1, PushBegins
    <3>2. c.op # "verify"
      <4>1. c.op = "verify" => TransferOf(c) = <<Address(c.at), Sum(c), Address(c.at)>> \o Fetched(c.n, 0)
        BY DEF TransferOf, Verified, Sum
      <4>2. Fetched(c.n, 0) \in Seq(Reads)
        BY <1>3, <1>7, FetchedChain DEF Chain
      <4>3. \A s \in Seq(Reads) : <<Address(c.at), Sum(c), Address(c.at)>> \o s # <<>>
        OBVIOUS
      <4> QED
        BY <1>10, <2>1, <4>1, <4>2, <4>3
    <3> QED
      BY <1>1, <3>1, <3>2 DEF TransferOps
  <2>4. c.n = 0
    <3>1. Fetched(c.n, c.limit) = <<>>
      BY <1>10, <2>1, <2>3 DEF TransferOf
    <3>2. Chain(Reads, Fetched(c.n, c.limit), c.n) /\ Start(Fetched(c.n, c.limit), c.n) = 0
      BY <1>3, <1>7, FetchedChain
    <3> QED
      BY <1>7, <3>1, <3>2 DEF Start
  <2>5. last'.call.op = "fetch" /\ last'.call.n = 0
    BY <2>2, <2>3, <2>4, RememberedIs
  <2>6. FetchExact'
    <3>1. [i \in 1 .. 0 |-> slave.memory[last.call.mta + i - 1]]' = <<>>
      OBVIOUS
    <3> QED
      BY <2>1, <2>5, <3>1 DEF FetchExact
  <2>7. TransfersExact' /\ UnlockWhole'
    BY <2>5, <2>6 DEF TransfersExact, PushExact, VerifyExact, UnlockWhole, Returned
  <2>8. Quiet' /\ Finished' /\ TransferLeft' /\ UnlockLeft'
    BY <1>5, <2>2 DEF Quiet, Finished, TransferLeft, UnlockLeft, Unlocking
  <2> QED
    BY <1>6, <2>7, <2>8 DEF Safe
<1> QED
  BY <1>8, <1>9, <1>10

-----------------------------------------------------------------------------
(* External: what a packet of a transfer has done when it is answered.     *)
Positive(r) == r.answers # <<>> /\ Head(r.answers).error = "none"

LEMMA PositiveFacts ==
  ASSUME SlaveType, NEW p, p.service # "connect", NEW r \in Reactions(p), Positive(r)
  PROVE  /\ slave.connected
         /\ r.slave = Executed(p).slave /\ r.answers = Executed(p).answers
         /\ \A e \in ErrorCodes \ {"none"} : r.answers # Fails(e).answers
<1>1. slave.connected
  BY Deaf DEF Positive
<1>2. \A e \in ErrorCodes \ {"none"} : r.answers # Fails(e).answers
  BY FailsAnswer DEF Positive
<1>3. "ACCESS_DENIED" \in ErrorCodes \ {"none"}
  BY DEF ErrorCodes
<1> QED
  BY <1>1, <1>2, <1>3, ReactionFacts

LEMMA AddressSet ==
  ASSUME SlaveType, NEW p, p.service = "setMta", p.from \in Nat,
         NEW r \in Reactions(p), Positive(r)
  PROVE  r.slave.mta = p.from /\ r.slave.memory = slave.memory
<1>1. slave.connected /\ r.slave = Executed(p).slave
  BY PositiveFacts
<1>2. Executed(p) = Does([slave EXCEPT !.mta = p.from])
  BY <1>1 DEF Executed
<1>3. r.slave = [slave EXCEPT !.mta = p.from]
  BY <1>1, <1>2, DoesFacts
<1> QED
  BY <1>3, SlaveKeeps

LEMMA ChecksumMade ==
  ASSUME SlaveType, NEW p, p.service = "buildChecksum", p.length \in Nat,
         NEW r \in Reactions(p), Positive(r)
  PROVE  /\ slave.connected /\ r.slave.memory = slave.memory
         /\ Head(r.answers).data = Elements(slave.mta, p.length)
<1>1. /\ slave.connected /\ r.slave = Executed(p).slave /\ r.answers = Executed(p).answers
      /\ r.answers # Fails("OUT_OF_RANGE").answers
  BY PositiveFacts DEF ErrorCodes
<1> DEFINE n == slave.mta + p.length
           sums == Elements(slave.mta, p.length)
           a == [Answer EXCEPT !.data = sums]
           done == [slave |-> [slave EXCEPT !.mta = n], answers |-> <<a>>]
<1>2. Executed(p) = IF n > Cardinality(Memory) THEN Fails("OUT_OF_RANGE") ELSE done
  BY <1>1 DEF Executed
<1> HIDE DEF sums
<1>3. a.data = sums
  BY DEF Answer
<1>4. n \in Nat
  BY SlaveFacts
<1> HIDE DEF n, a
<1>5. done.slave = [slave EXCEPT !.mta = n] /\ done.answers = <<a>>
  OBVIOUS
<1> HIDE DEF done
<1>6. r.slave = [slave EXCEPT !.mta = n] /\ r.answers = <<a>>
  BY <1>1, <1>2, <1>5
<1>7. r.slave.memory = slave.memory
  BY <1>4, <1>6, SlaveKeeps
<1> QED
  BY <1>1, <1>3, <1>6, <1>7 DEF sums

LEMMA WriteFacts ==
  ASSUME SlaveType, NEW p \in Chunks, p.service \in Downloads, slave.connected,
         NEW r \in Reactions(p)
  PROVE  /\ r.answers = <<>> \/ Positive(r) => r.slave = Written(p)
         /\ p.count < p.length => ~Positive(r)
<1>1. p.service \in {"download", "program", "downloadNext", "programNext"}
  BY DEF Downloads
<1>2. \A e \in ErrorCodes \ {"none"} : Fails(e).answers # <<>> /\ Head(Fails(e).answers).error # "none"
  BY FailsAnswer
<1>3. /\ Does(Written(p)).slave = Written(p) /\ Silent(Written(p)).slave = Written(p)
      /\ Silent(Written(p)).answers = <<>>
  BY DoesFacts DEF Silent
<1>4. {"SEQUENCE", "OUT_OF_RANGE", "ACCESS_DENIED"} \subseteq ErrorCodes \ {"none"}
  BY DEF ErrorCodes
<1>5. \/ \E e \in ErrorCodes \ {"none"} : Executed(p) = Fails(e)
      \/ Executed(p) = Does(Written(p)) /\ p.length = p.count
      \/ Executed(p) = Silent(Written(p))
  <2>1. CASE p.service \in {"download", "program"}
    <3>1. Executed(p) = First(p)
      BY <2>1 DEF Executed
    <3> QED
      BY <1>4, <3>1 DEF First
  <2>2. CASE p.service \in {"downloadNext", "programNext"}
    <3>1. Executed(p) = Next_(p)
      BY <2>2 DEF Executed
    <3> QED
      BY <1>4, <3>1 DEF Next_
  <2> QED
    BY <1>1, <2>1, <2>2
<1>6. CASE r.slave = Executed(p).slave /\ r.answers = Executed(p).answers
  <2>1. ASSUME NEW e \in ErrorCodes \ {"none"}, Executed(p) = Fails(e)
        PROVE  r.answers # <<>> /\ ~Positive(r)
    BY <1>2, <1>6, <2>1 DEF Positive
  <2>2. p.length \in Nat /\ p.count \in Nat
    BY ChunkIsPacket DEF PacketType
  <2> QED
    BY <1>3, <1>5, <1>6, <2>1, <2>2 DEF Positive
<1>7. CASE r.answers = Fails("ACCESS_DENIED").answers
  BY <1>2, <1>4, <1>7 DEF Positive
<1> QED
  BY <1>6, <1>7, ReactionFacts

LEMMA WrittenHalf ==
  ASSUME SlaveType, NEW p \in Chunks, NEW c \in Remembering, NEW k \in Nat, p.from = k,
         slave.mta = c.at + k, slave.memory = Half(c, k)
  PROVE  /\ Written(p).mta = c.at + (k + p.count)
         /\ Written(p).memory = Half(c, k + p.count)
<1>1. p.count \in Nat /\ p.length \in Nat /\ c.at \in Nat
  BY ChunkIsPacket DEF PacketType, Remembering
<1> DEFINE m == [a \in Memory |-> IF a - slave.mta \in 0 .. p.count - 1
                                    THEN Value(p.from + a - slave.mta) ELSE slave.memory[a]]
<1>2. m = Half(c, k + p.count)
  <2>1. ASSUME NEW a \in Memory PROVE m[a] = Half(c, k + p.count)[a]
    <3>1. a \in Nat
      BY SessionBounds
    <3>2. slave.memory[a] = IF a \in c.at .. c.at + k - 1 THEN Value(a - c.at) ELSE c.before[a]
      BY DEF Half
    <3>3. Half(c, k + p.count)[a]
            = IF a \in c.at .. c.at + (k + p.count) - 1 THEN Value(a - c.at) ELSE c.before[a]
      BY DEF Half
    <3>4. p.from + a - slave.mta = a - c.at
      BY <1>1, <3>1
    <3>5. m[a] = IF a - slave.mta \in 0 .. p.count - 1 THEN Value(a - c.at) ELSE slave.memory[a]
      BY <3>4
    <3> HIDE DEF m
    <3>6. (a \in c.at .. c.at + (k + p.count) - 1)
            <=> (a - slave.mta \in 0 .. p.count - 1 \/ a \in c.at .. c.at + k - 1)
      BY <1>1, <3>1
    <3>7. CASE a - slave.mta \in 0 .. p.count - 1
      BY <3>3, <3>5, <3>6, <3>7
    <3>8. CASE ~(a - slave.mta \in 0 .. p.count - 1)
      BY <3>2, <3>3, <3>5, <3>6, <3>8
    <3> QED
      BY <3>7, <3>8
  <2>2. m = [a \in Memory |-> Half(c, k + p.count)[a]]
    BY <2>1
  <2>3. Half(c, k + p.count) = [a \in Memory |-> Half(c, k + p.count)[a]]
    BY DEF Half
  <2> QED
    BY <2>2, <2>3
<1>3. Written(p).memory = m /\ Written(p).mta = slave.mta + p.count
  BY DEF Written, SlaveType, Slaves
<1>4. slave.mta + p.count = c.at + (k + p.count)
  BY <1>1
<1> QED
  BY <1>2, <1>3, <1>4

-----------------------------------------------------------------------------
(* What is cut into parts and put together again is the same.              *)
LEMMA Joined ==
  ASSUME NEW Items, NEW s \in Seq(Items), NEW m \in Nat, NEW n \in Nat, m <= n, n <= Len(s)
  PROVE  SubSeq(s, 1, m) \o SubSeq(s, m + 1, n) = SubSeq(s, 1, n)
<1> DEFINE one == SubSeq(s, 1, m)
           two == SubSeq(s, m + 1, n)
           all == SubSeq(s, 1, n)
<1>1. Len(s) \in Nat /\ m <= Len(s)
  OBVIOUS
<1>2. one \in Seq(Items) /\ Len(one) = m /\ \A i \in 1 .. m : one[i] = s[i]
  BY <1>1, FirstOnes
<1>3. all \in Seq(Items) /\ Len(all) = n /\ \A i \in 1 .. n : all[i] = s[i]
  BY <1>1, FirstOnes
<1>4. two \in Seq(Items) /\ Len(two) = n - m /\ \A i \in 1 .. n - m : two[i] = s[m + i]
  <2>1. \A i \in m + 1 .. n : s[i] \in Items
    BY <1>1, ElementOfSeq
  <2>2. m + 1 \in Int /\ n \in Int
    OBVIOUS
  <2> DEFINE k == m + 1
             t == SubSeq(s, k, n)
  <2>3. k \in Int /\ \A i \in k .. n : s[i] \in Items
    BY <2>1, <2>2
  <2>4. /\ n - k + 1 = n - m /\ \A i \in Int : k + i - 1 = m + i
        /\ k <= n => n - k + 1 = n - m
        /\ ~(k <= n) => n - m = 0
    OBVIOUS
  <2>5. two = t
    OBVIOUS
  <2> HIDE DEF k
  <2>6. t \in Seq(Items)
    BY <2>2, <2>3, SubSeqProperties
  <2>7. Len(t) = IF k <= n THEN n - k + 1 ELSE 0
    BY <2>2, <2>3, SubSeqProperties
  <2>8. \A i \in 1 .. n - k + 1 : t[i] = s[k + i - 1]
    BY <2>2, <2>3, SubSeqProperties
  <2> HIDE DEF t
  <2> HIDE DEF two
  <2>9. Len(t) = n - m
    <3>1. k \in Int /\ n \in Int
      BY <2>3
    <3> QED
      BY <2>4, <2>7, <3>1
  <2>10. ASSUME NEW i \in 1 .. n - m PROVE t[i] = s[m + i]
    <3>1. t[i] = s[k + i - 1]
      BY <2>4, <2>8
    <3>2. k + i - 1 = m + i
      BY <2>4
    <3> QED
      BY <3>1, <3>2
  <2> QED
    BY <2>5, <2>6, <2>9, <2>10
<1> HIDE DEF one, two, all
<1>5. /\ one \o two \in Seq(Items) /\ Len(one \o two) = n
      /\ \A i \in 1 .. n : (one \o two)[i] = IF i <= m THEN one[i] ELSE two[i - m]
  <2>1. /\ one \o two \in Seq(Items) /\ Len(one \o two) = Len(one) + Len(two)
        /\ \A i \in 1 .. Len(one) + Len(two) :
             (one \o two)[i] = IF i <= Len(one) THEN one[i] ELSE two[i - Len(one)]
    BY <1>2, <1>4, ConcatProperties
  <2>2. Len(one) + Len(two) = n
    BY <1>2, <1>4
  <2> QED
    BY <1>2, <2>1, <2>2
<1>6. ASSUME NEW i \in 1 .. n PROVE (one \o two)[i] = all[i]
  <2>1. CASE i <= m
    BY <1>2, <1>3, <1>5, <2>1
  <2>2. CASE ~(i <= m)
    <3>1. i - m \in 1 .. n - m /\ m + (i - m) = i
      BY <2>2
    <3> QED
      BY <1>3, <1>4, <1>5, <2>2, <3>1
  <2> QED
    BY <2>1, <2>2
<1>7. one \o two = all
  BY <1>3, <1>5, <1>6, SeqEqual
<1> QED
  BY <1>7 DEF one, two, all

Cut(s, size, i) == SubSeq(s, (i - 1) * size + 1, LeastOf(i * size, Len(s)))
FirstCuts(s, size, n) == SubSeq(s, 1, LeastOf(n * size, Len(s)))

LEMMA CutsJoined ==
  ASSUME NEW Items, NEW s \in Seq(Items), NEW size \in Nat \ {0}, NEW count \in Nat,
         (count - 1) * size < Len(s), NEW cuts,
         \A i \in 1 .. count : cuts[i] = Cut(s, size, i), NEW n \in 1 .. count
  PROVE  FlattenSeq(Pieces(cuts, n)) = FirstCuts(s, size, n)
<1> DEFINE part(k) == FlattenSeq(Pieces(cuts, k))
           T == {k \in 0 .. count : k # 0 => part(k) = FirstCuts(s, size, k)}
<1>1. 0 \in T
  OBVIOUS
<1>2. ASSUME NEW k \in 0 .. n - 1, k \in T PROVE k + 1 \in T
  <2>1. k + 1 \in 1 .. count /\ k \in Nat /\ (k + 1) - 1 = k /\ k <= count - 1 /\ count - 1 \in Nat
    OBVIOUS
  <2> DEFINE here == k * size
             there == (k + 1) * size
             last_ == (count - 1) * size
  <2>2. here \in Nat /\ there \in Nat /\ there = here + size /\ here <= last_ /\ last_ \in Nat
    <3>1. here <= last_ /\ here \in Nat /\ last_ \in Nat
      BY <2>1, Multiples
    <3>2. there \in Nat /\ there = here + size
      BY <2>1
    <3> QED
      BY <3>1, <3>2
  <2>3. last_ < Len(s)
    OBVIOUS
  <2>4. cuts[k + 1] = SubSeq(s, here + 1, LeastOf(there, Len(s)))
    BY <2>1 DEF Cut
  <2>5. FirstCuts(s, size, k) = SubSeq(s, 1, LeastOf(here, Len(s)))
          /\ FirstCuts(s, size, k + 1) = SubSeq(s, 1, LeastOf(there, Len(s)))
    BY DEF FirstCuts
  <2>6. k = 0 => here = 0
    OBVIOUS
  <2> HIDE DEF here, there, last_
  <2> DEFINE e == LeastOf(there, Len(s))
  <2>7. e \in Nat /\ here <= e /\ e <= Len(s) /\ LeastOf(here, Len(s)) = here
    BY <2>2, <2>3 DEF LeastOf
  <2> HIDE DEF e
  <2>8. CASE k = 0
    <3>1. part(k + 1) = cuts[k + 1]
      <4>1. part(1) = cuts[1]
        BY FlattenOne
      <4> QED
        BY <2>8, <4>1
    <3>2. cuts[k + 1] = SubSeq(s, 1, LeastOf(there, Len(s)))
      <4> DEFINE first == here + 1
      <4>1. first = 1
        BY <2>6, <2>8
      <4>2. cuts[k + 1] = SubSeq(s, first, LeastOf(there, Len(s)))
        BY <2>4
      <4> HIDE DEF first
      <4> QED
        BY <4>1, <4>2
    <3>3. part(k + 1) = FirstCuts(s, size, k + 1)
      BY <2>5, <3>1, <3>2
    <3> QED
      BY <2>1, <3>3
  <2>9. CASE k # 0
    <3>1. part(k + 1) = part(k) \o cuts[k + 1]
      BY <2>1, <2>9, FlattenOneMore
    <3>2. part(k) = SubSeq(s, 1, here)
      BY <1>2, <2>5, <2>7, <2>9
    <3>3. cuts[k + 1] = SubSeq(s, here + 1, e)
      BY <2>4 DEF e
    <3>4. SubSeq(s, 1, here) \o SubSeq(s, here + 1, e) = SubSeq(s, 1, e)
      BY <2>2, <2>7, Joined
    <3>5. part(k + 1) = FirstCuts(s, size, k + 1)
      <4> HIDE DEF part
      <4>1. part(k + 1) = SubSeq(s, 1, here) \o SubSeq(s, here + 1, e)
        BY <3>1, <3>2, <3>3
      <4> QED
        BY <2>5, <3>4, <4>1 DEF e
    <3> QED
      BY <2>1, <3>5
  <2> QED
    BY <2>8, <2>9
<1>3. n \in Nat /\ n \in 0 .. count
  OBVIOUS
<1> HIDE DEF T
<1>4. n \in T
  BY <1>1, <1>2, <1>3, SetInduction
<1> QED
  BY <1>3, <1>4 DEF T

-----------------------------------------------------------------------------
(* An upload that is answered brings what the slave holds, in as many      *)
(* answers as it takes, and every one of them is taken.                    *)
SentData(p) == Bytes(Elements(slave.mta, p.count), slave.dev.bytes)
Payload == slave.dev.maxCto - 1

LEMMA BytesTyped ==
  ASSUME NEW elements \in Seq(Int), NEW size \in {1, 2, 4}
  PROVE  /\ Bytes(elements, size) \in Seq(Int)
         /\ Len(Bytes(elements, size)) = Len(elements) * size
         /\ size = 1 => Bytes(elements, size) = elements
<1> DEFINE sent == Bytes(elements, size)
<1>0. Len(elements) \in Nat /\ Len(elements) * size \in Nat
  OBVIOUS
<1>1. \A i \in 1 .. Len(elements) * size : (i - 1) \div size + 1 \in 1 .. Len(elements)
  <2>1. CASE size = 1
    BY <2>1, <1>0
  <2>2. CASE size = 2
    BY <2>2, <1>0
  <2>3. CASE size = 4
    BY <2>3, <1>0
  <2> QED
    BY <2>1, <2>2, <2>3
<1>2. \A i \in 1 .. Len(elements) * size : elements[(i - 1) \div size + 1] \in Int
  BY <1>1, ElementOfSeq
<1>3. sent \in [1 .. Len(elements) * size -> Int]
  BY <1>2 DEF Bytes
<1>4. \A i \in 1 .. Len(elements) * size : sent[i] = elements[(i - 1) \div size + 1]
  BY DEF Bytes
<1> HIDE DEF sent
<1>5. sent \in Seq(Int) /\ Len(sent) = Len(elements) * size
  BY <1>0, <1>3
<1>6. ASSUME size = 1 PROVE sent = elements
  <2>1. Len(sent) = Len(elements)
    BY <1>0, <1>5, <1>6
  <2>2. ASSUME NEW i \in 1 .. Len(elements) PROVE sent[i] = elements[i]
    <3>1. i \in 1 .. Len(elements) * size /\ (i - 1) \div size + 1 = i
      BY <1>0, <1>6
    <3> QED
      BY <1>4, <3>1
  <2> QED
    BY <1>5, <2>1, <2>2, SeqEqual
<1> QED
  BY <1>5, <1>6 DEF sent

LEMMA ReadFields ==
  ASSUME NEW p \in Reads
  PROVE  /\ p \in Chunks /\ p.service = "upload" /\ p.wait /\ p.length = p.count
         /\ p.count \in Nat \ {0} /\ p.from \in Nat
  BY SessionBounds DEF Reads, Chunks

LEMMA UploadIs ==
  ASSUME SlaveType, NEW p \in Reads, NEW r \in Reactions(p), Positive(r)
  PROVE  /\ r.slave.mta = slave.mta + p.count /\ r.slave.memory = slave.memory
         /\ SentData(p) \in Seq(Int) /\ Len(SentData(p)) = p.count * slave.dev.bytes
         /\ Elements(slave.mta, p.count) \in Seq(Int) /\ Len(Elements(slave.mta, p.count)) = p.count
         /\ Len(r.answers) \in Nat \ {0}
         /\ (Len(r.answers) - 1) * Payload < Len(SentData(p))
         /\ Len(SentData(p)) <= Len(r.answers) * Payload
         /\ \A i \in 1 .. Len(r.answers) : r.answers[i].data = Cut(SentData(p), Payload, i)
<1> DEFINE sent == SentData(p)
           n == slave.mta + p.count
           parts == (Len(sent) + Payload - 1) \div Payload
           a(i) == [Answer EXCEPT !.data = Cut(sent, Payload, i)]
           answers == [i \in 1 .. parts |-> a(i)]
           done == [slave |-> [slave EXCEPT !.mta = n], answers |-> answers]
<1>1. /\ p.length = p.count /\ p.count \in Nat \ {0} /\ p.service = "upload"
  BY ReadFields
<1>2. /\ slave.connected /\ r.slave = Executed(p).slave /\ r.answers = Executed(p).answers
      /\ r.answers # Fails("OUT_OF_RANGE").answers
  BY <1>1, PositiveFacts DEF ErrorCodes
<1>3. Executed(p) = Uploaded(p)
  BY <1>1, <1>2 DEF Executed
<1>4. Uploaded(p) = IF (parts > 1 /\ ~slave.dev.slaveBlock) \/ n > Cardinality(Memory)
                      THEN Fails("OUT_OF_RANGE") ELSE done
  BY <1>1 DEF Uploaded, SentData, Payload, Cut
<1>5. r.slave = done.slave /\ r.answers = done.answers /\ ~(n > Cardinality(Memory))
  BY <1>2, <1>3, <1>4
<1>6. n \in Nat /\ n <= Cardinality(Memory) /\ slave.dev.bytes \in {1, 2, 4}
        /\ Payload \in Nat \ {0}
  <2>1. slave.mta \in Nat /\ slave.dev \in Devices
    BY SlaveFacts
  <2>2. slave.dev.bytes \in {1, 2, 4} /\ Payload \in Nat \ {0}
    BY <2>1, DeviceFacts DEF Payload
  <2>3. Cardinality(Memory) \in Nat
    BY SessionBounds
  <2>4. n \in Nat
    BY <1>1, <2>1
  <2>5. ~(n > Cardinality(Memory))
    BY <1>5
  <2> HIDE DEF n
  <2> QED
    BY <2>2, <2>3, <2>4, <2>5
<1>7. /\ Elements(slave.mta, p.count) \in Seq(Int)
      /\ Len(Elements(slave.mta, p.count)) = p.count
  BY <1>1, <1>6, ElementsTyped
<1>8. sent \in Seq(Int) /\ Len(sent) = p.count * slave.dev.bytes
  <2> DEFINE elements == Elements(slave.mta, p.count)
             size == slave.dev.bytes
  <2>1. elements \in Seq(Int) /\ size \in {1, 2, 4} /\ Len(elements) = p.count
    BY <1>6, <1>7
  <2>2. sent = Bytes(elements, size)
    BY DEF SentData
  <2> HIDE DEF sent, elements, size
  <2>3. Bytes(elements, size) \in Seq(Int)
    BY <2>1, BytesTyped
  <2>4. Len(Bytes(elements, size)) = Len(elements) * size
    BY <2>1, BytesTyped
  <2>5. sent \in Seq(Int) /\ Len(sent) = p.count * size
    BY <2>1, <2>2, <2>3, <2>4
  <2> QED
    BY <2>5 DEF size
<1>9. r.slave.mta = slave.mta + p.count /\ r.slave.memory = slave.memory
  <2>1. done.slave = [slave EXCEPT !.mta = n]
    OBVIOUS
  <2> HIDE DEF done
  <2>2. r.slave = [slave EXCEPT !.mta = n]
    BY <1>5, <2>1
  <2> HIDE DEF n
  <2>3. r.slave.mta = n /\ r.slave.memory = slave.memory
    BY <1>6, <2>2, SlaveKeeps
  <2> QED
    BY <2>3 DEF n
<1>10. r.answers = answers
  <2>1. done.answers = answers
    OBVIOUS
  <2> HIDE DEF done, answers
  <2> QED
    BY <1>5, <2>1
<1> HIDE DEF sent
<1>11. Len(sent) \in Nat \ {0}
  BY <1>1, <1>6, <1>8
<1>12. /\ parts \in Nat \ {0} /\ (parts - 1) * Payload < Len(sent) /\ Len(sent) <= parts * Payload
  <2> DEFINE m == Len(sent) + Payload - 1
             rest == m % Payload
             most == parts * Payload
             less == (parts - 1) * Payload
  <2>1. m \in Nat /\ parts = m \div Payload
    BY <1>6, <1>11
  <2>2. Divided(m, Payload, m \div Payload, m % Payload)
    BY <1>6, <2>1, Division
  <2>3. Divided(m, Payload, parts, rest)
    BY <2>2
  <2>4. parts \in Nat /\ m = most + rest /\ most \in Nat /\ rest \in Nat /\ rest < Payload
    BY <2>3 DEF Divided
  <2>5. less = most - Payload
    BY <1>6, <2>4
  <2>6. parts = 0 => most = 0
    BY <1>6
  <2> HIDE DEF parts, rest, most, less
  <2>7. parts # 0 /\ less < Len(sent) /\ Len(sent) <= most
    BY <1>6, <1>11, <2>4, <2>5, <2>6 
  <2> QED
    BY <2>4, <2>7 DEF most, less
<1>13. /\ Len(answers) = parts
       /\ \A i \in 1 .. parts : answers[i].data = Cut(sent, Payload, i)
  <2>1. \A i \in 1 .. parts : a(i).data = Cut(sent, Payload, i)
    BY DEF Answer
  <2> HIDE DEF parts, a
  <2> QED
    BY <1>12, <2>1
<1> HIDE DEF parts, answers, done
<1> QED
  BY <1>7, <1>8, <1>9, <1>10, <1>12, <1>13 DEF sent

LEMMA ReceivedIs ==
  ASSUME SlaveType, NEW p \in Reads, NEW r \in Reactions(p), Positive(r), Answered(r) = r.answers,
         NEW n \in 1 .. Len(r.answers)
  PROVE  Received(r, n) = FirstCuts(SentData(p), Payload, n)
<1> DEFINE sent == SentData(p)
           count == Len(r.answers)
           cuts == [i \in 1 .. count |-> r.answers[i].data]
<1>1. /\ sent \in Seq(Int) /\ count \in Nat \ {0} /\ (count - 1) * Payload < Len(sent)
      /\ \A i \in 1 .. count : r.answers[i].data = Cut(sent, Payload, i)
  BY UploadIs
<1>2. Payload \in Nat \ {0}
  BY SlaveFacts, DeviceFacts DEF Payload
<1>3. Received(r, n) = FlattenSeq(Pieces(cuts, n))
  <2>1. \A i \in 1 .. n : i \in 1 .. count
    BY <1>1
  <2>2. Pieces(cuts, n) = [i \in 1 .. n |-> r.answers[i].data]
    BY <2>1 DEF Pieces
  <2> QED
    BY <2>2 DEF Received
<1>4. \A i \in 1 .. count : cuts[i] = Cut(sent, Payload, i)
  BY <1>1
<1>5. n \in 1 .. count
  OBVIOUS
<1>6. FlattenSeq(Pieces(cuts, n)) = FirstCuts(sent, Payload, n)
  <2> DEFINE size == Payload
  <2>1. sent \in Seq(Int) /\ size \in Nat \ {0} /\ count \in Nat /\ (count - 1) * size < Len(sent)
    BY <1>1, <1>2
  <2>2. \A i \in 1 .. count : cuts[i] = Cut(sent, size, i)
    BY <1>4
  <2> HIDE DEF sent, count, cuts, size
  <2>3. FlattenSeq(Pieces(cuts, n)) = FirstCuts(sent, size, n)
    BY <1>5, <2>1, <2>2, CutsJoined, ZenonT(60)
  <2> QED
    BY <2>3 DEF size
<1> HIDE DEF sent, count, cuts
<1> QED
  BY <1>3, <1>6 DEF sent

LEMMA UploadTaken ==
  ASSUME SlaveType, NEW p \in Reads, NEW r \in Reactions(p), Positive(r), Answered(r) = r.answers,
         props.bytes = slave.dev.bytes, props.maxCto = slave.dev.maxCto
  PROVE  Taken(p, r) = Len(r.answers) /\ Received(r, Taken(p, r)) = SentData(p)
<1> DEFINE sent == SentData(p)
           count == Len(r.answers)
<1>1. /\ sent \in Seq(Int) /\ count \in Nat \ {0} /\ Len(sent) = Size(p)
      /\ (count - 1) * Payload < Len(sent) /\ Len(sent) <= count * Payload
  BY UploadIs DEF Size
<1>2. Payload \in Nat \ {0} /\ props.maxCto - 1 = Payload
  BY SlaveFacts, DeviceFacts DEF Payload
<1>3. ASSUME NEW n \in 1 .. count PROVE Received(r, n) = FirstCuts(sent, Payload, n)
  BY ReceivedIs
<1>4. p.service = "upload"
  BY ReadFields
<1>5. Error(r) = "none"
  BY DEF Error, Positive
<1> HIDE DEF sent, count
<1>6. Len(sent) \in Nat
  BY <1>1
<1>7. Received(r, count) = sent
  <2> DEFINE most == count * Payload
  <2>1. most \in Nat /\ Len(sent) <= most
    BY <1>1, <1>2
  <2>2. FirstCuts(sent, Payload, count) = SubSeq(sent, 1, LeastOf(most, Len(sent)))
    BY DEF FirstCuts
  <2> HIDE DEF most
  <2>3. LeastOf(most, Len(sent)) = Len(sent)
    BY <1>6, <2>1 DEF LeastOf
  <2>4. SubSeq(sent, 1, Len(sent)) = sent
    <3> DEFINE all == SubSeq(sent, 1, Len(sent))
    <3>1. all \in Seq(Int) /\ Len(all) = Len(sent) /\ \A i \in 1 .. Len(sent) : all[i] = sent[i]
      BY <1>1, <1>6, FirstOnes
    <3> HIDE DEF all
    <3>2. all = sent
      BY <1>1, <3>1, SeqEqual
    <3> QED
      BY <3>2 DEF all
  <2>5. count \in 1 .. count
    BY <1>1
  <2>6. Received(r, count) = FirstCuts(sent, Payload, count)
    BY <1>3, <2>5
  <2> QED
    BY <2>2, <2>3, <2>4, <2>6
<1>8. ASSUME NEW n \in 1 .. count, Enough(p, r, n) PROVE n = count
  <2> DEFINE here == n * Payload
             last_ == (count - 1) * Payload
  <2>1. SUFFICES ASSUME n # count PROVE FALSE
    OBVIOUS
  <2>2. n <= count - 1 /\ n \in Nat /\ count - 1 \in Nat
    BY <1>1, <2>1
  <2>3. here <= last_ /\ here \in Nat /\ last_ \in Nat
    BY <1>2, <2>2, Multiples
  <2>4. last_ < Len(sent)
    BY <1>1
  <2>5. Received(r, n) = SubSeq(sent, 1, LeastOf(here, Len(sent)))
    BY <1>3 DEF FirstCuts
  <2> HIDE DEF here, last_
  <2>6. LeastOf(here, Len(sent)) = here /\ here <= Len(sent)
    BY <1>6, <2>3, <2>4 DEF LeastOf
  <2>7. Len(SubSeq(sent, 1, here)) = here
    BY <1>1, <2>3, <2>6, FirstOnes
  <2>8. Len(Received(r, n)) = here
    BY <2>5, <2>6, <2>7
  <2>9. Len(Answered(r)) = count
    BY DEF count
  <2>10. n = count \/ here >= Len(sent)
    BY <1>1, <1>8, <2>8, <2>9 DEF Enough
  <2> QED
    BY <1>6, <2>1, <2>3, <2>4, <2>10
<1>9. CASE InBlock(p)
  <2> DEFINE E(i) == Enough(p, r, i) /\ \A k \in 1 .. i - 1 : ~Enough(p, r, k)
  <2>1. Taken(p, r) = CHOOSE i \in 1 .. count : E(i)
    BY <1>5, <1>9 DEF Taken, count
  <2>2. E(count)
    <3>1. Enough(p, r, count)
      BY DEF Enough, count
    <3>2. ASSUME NEW k \in 1 .. count - 1 PROVE ~Enough(p, r, k)
      BY <1>1, <1>8
    <3> QED
      BY <3>1, <3>2
  <2>3. \A i \in 1 .. count : E(i) => i = count
    BY <1>8
  <2>4. count \in 1 .. count
    BY <1>1
  <2> HIDE DEF E
  <2>5. Taken(p, r) = count
    BY <2>1, <2>2, <2>3, <2>4
  <2> QED
    BY <1>7, <2>5 DEF count, sent
<1>10. CASE ~InBlock(p)
  <2>1. Taken(p, r) = 1
    BY <1>10 DEF Taken
  <2>2. ~(Len(sent) > Payload)
    BY <1>1, <1>2, <1>4, <1>10 DEF InBlock
  <2>3. count = 1
    <3> DEFINE last_ == (count - 1) * Payload
    <3>1. count - 1 >= 1 => last_ >= Payload
      <4>1. SUFFICES ASSUME count - 1 >= 1 PROVE last_ >= Payload
        OBVIOUS
      <4>2. 1 \in Nat /\ count - 1 \in Nat /\ 1 <= count - 1
        BY <1>1, <4>1
      <4>3. 1 * Payload <= (count - 1) * Payload /\ (count - 1) * Payload \in Nat
        BY <1>2, <4>2, Multiples
      <4>4. 1 * Payload = Payload
        BY <1>2
      <4> QED
        BY <1>2, <4>3, <4>4
    <3>2. last_ < Len(sent) /\ last_ \in Int
      BY <1>1, <1>2
    <3> HIDE DEF last_
    <3>3. ~(count - 1 >= 1)
      BY <1>2, <1>6, <2>2, <3>1, <3>2
    <3> QED
      BY <1>1, <3>3
  <2> QED
    BY <1>7, <2>1, <2>3 DEF count, sent
<1> QED
  BY <1>9, <1>10

LEMMA UploadDone ==
  ASSUME TypeInv, Match, Waiting = <<>>, NEW p \in Reads, NEW r \in Reactions(p),
         Ask(p, r, Taken(p, r)), Outcome(p, r) = "none"
  PROVE  /\ slave.connected /\ Waiting' = <<>>
         /\ slave'.mta = slave.mta + p.count /\ slave'.memory = slave.memory
         /\ props.bytes = 1 =>
              FirstOf(Received(r, Taken(p, r)), p.count) = Held(slave.mta, p.count)
<1>0. FaultsType
  BY DEF TypeInv
<1>1. /\ p \in Chunks /\ p.service = "upload" /\ p.count \in Nat \ {0} /\ PacketType(p)
      /\ SlaveType
  BY ReadFields, ChunkIsPacket DEF TypeInv
<1>2. ReactionTyped(r)
  BY <1>0, <1>1, ChunkIsPacket, ReactionsTyped
<1>3. Answered(r) = r.answers /\ r.answers \in Seq(Answers)
  BY <1>2, AnsweredIs DEF TypeInv, ReactionTyped
<1>4. Error(r) = "none"
  BY DEF Outcome
<1>5. Positive(r)
  BY <1>3, <1>4 DEF Error, Positive
<1>6. slave.connected
  BY <1>1, <1>5, PositiveFacts
<1>7. props.bytes = slave.dev.bytes /\ props.maxCto = slave.dev.maxCto
  BY <1>6 DEF Match, Met
<1>8. Taken(p, r) = Len(r.answers) /\ Received(r, Taken(p, r)) = SentData(p)
  BY <1>1, <1>3, <1>5, <1>7, UploadTaken
<1>9. Waiting' = <<>>
  <2>1. Taken(p, r) \in Nat
    BY <1>3, TakenTyped
  <2>2. Waiting' = Without(Answered(r), Taken(p, r))
    BY <1>1, <2>1, ChunkIsPacket, AskTyped DEF TypeInv
  <2>3. Without(r.answers, Len(r.answers)) = <<>>
    <3>1. SubSeq(r.answers, Len(r.answers) + 1, Len(r.answers)) = <<>>
      <4> DEFINE m == Len(r.answers)
      <4>1. m + 1 \in Int /\ m \in Int /\ m < m + 1
        BY <1>3
      <4> QED
        BY <4>1, SubSeqEmpty
    <3> QED
      BY <3>1 DEF Without
  <2> QED
    BY <1>3, <1>8, <2>2, <2>3
<1>10. slave'.mta = slave.mta + p.count /\ slave'.memory = slave.memory
  <2>1. slave' = r.slave
    BY DEF Ask
  <2> QED
    BY <1>1, <1>5, <2>1, UploadIs
<1>11. ASSUME props.bytes = 1
       PROVE  FirstOf(Received(r, Taken(p, r)), p.count) = Held(slave.mta, p.count)
  <2> DEFINE elements == Elements(slave.mta, p.count)
             sent == SentData(p)
             count == p.count
  <2>1. elements \in Seq(Int) /\ Len(elements) = count
    BY <1>1, <1>5, UploadIs
  <2>2. sent = Bytes(elements, 1)
    BY <1>7, <1>11 DEF SentData
  <2>3. elements = Held(slave.mta, count)
    BY DEF Elements, Held, HeldIn
  <2>4. count \in Nat
    BY <1>1
  <2> HIDE DEF elements, sent, count
  <2>5. sent = elements
    <3>1. 1 \in {1, 2, 4}
      OBVIOUS
    <3>2. Bytes(elements, 1) = elements
      BY <2>1, <3>1, BytesTyped
    <3> QED
      BY <2>2, <3>2
  <2>6. FirstOf(elements, count) = elements
    <3> DEFINE all == SubSeq(elements, 1, count)
    <3>1. all \in Seq(Int) /\ Len(all) = count /\ \A i \in 1 .. count : all[i] = elements[i]
      <4>1. count <= Len(elements)
        BY <2>1, <2>4
      <4> QED
        BY <2>1, <2>4, <4>1, FirstOnes
    <3>2. FirstOf(elements, count) = all
      <4>1. LeastOf(count, Len(elements)) = count
        BY <2>1, <2>4 DEF LeastOf
      <4> QED
        BY <4>1 DEF FirstOf
    <3> HIDE DEF all
    <3>3. all = elements
      BY <2>1, <3>1, SeqEqual
    <3> QED
      BY <3>2, <3>3
  <2> QED
    BY <1>8, <2>3, <2>5, <2>6 DEF sent, count
<1> QED
  BY <1>6, <1>9, <1>10, <1>11

-----------------------------------------------------------------------------
(* What a packet that was executed leaves of the transfer.                 *)
LEMMA HeldMore ==
  ASSUME NEW m, NEW a \in Nat, NEW k \in Nat, NEW n \in Nat
  PROVE  HeldIn(m, a, k) \o HeldIn(m, a + k, n) = HeldIn(m, a, k + n)
<1> DEFINE Items == {m[i] : i \in Int}
           one == HeldIn(m, a, k)
           two == HeldIn(m, a + k, n)
           all == HeldIn(m, a, k + n)
<1>1. one \in Seq(Items) /\ Len(one) = k /\ \A i \in 1 .. k : one[i] = m[a + i - 1]
  <2>1. \A i \in 1 .. k : m[a + i - 1] \in Items
    OBVIOUS
  <2> HIDE DEF Items
  <2> QED
    BY <2>1 DEF HeldIn
<1>2. two \in Seq(Items) /\ Len(two) = n /\ \A i \in 1 .. n : two[i] = m[a + k + i - 1]
  <2>1. \A i \in 1 .. n : m[a + k + i - 1] \in Items
    OBVIOUS
  <2> HIDE DEF Items
  <2> QED
    BY <2>1 DEF HeldIn
<1>3. all \in Seq(Items) /\ Len(all) = k + n /\ \A i \in 1 .. k + n : all[i] = m[a + i - 1]
  <2>1. \A i \in 1 .. k + n : m[a + i - 1] \in Items
    OBVIOUS
  <2> HIDE DEF Items
  <2> QED
    BY <2>1 DEF HeldIn
<1> HIDE DEF Items, one, two, all
<1>4. /\ one \o two \in Seq(Items) /\ Len(one \o two) = k + n
      /\ \A i \in 1 .. k + n : (one \o two)[i] = IF i <= k THEN one[i] ELSE two[i - k]
  <2>1. /\ one \o two \in Seq(Items) /\ Len(one \o two) = Len(one) + Len(two)
        /\ \A i \in 1 .. Len(one) + Len(two) :
             (one \o two)[i] = IF i <= Len(one) THEN one[i] ELSE two[i - Len(one)]
    BY <1>1, <1>2, ConcatProperties
  <2>2. Len(one) = k /\ Len(two) = n
    BY <1>1, <1>2
  <2> QED
    BY <2>1, <2>2
<1>5. ASSUME NEW i \in 1 .. k + n PROVE (one \o two)[i] = all[i]
  <2>1. CASE i <= k
    <3>1. i \in 1 .. k
      BY <2>1
    <3>2. (one \o two)[i] = one[i]
      BY <1>4, <2>1
    <3> QED
      BY <1>1, <1>3, <3>1, <3>2
  <2>2. CASE ~(i <= k)
    <3>1. i - k \in 1 .. n /\ a + k + (i - k) - 1 = a + i - 1
      BY <2>2
    <3> QED
      BY <1>2, <1>3, <1>4, <2>2, <3>1
  <2> QED
    BY <2>1, <2>2
<1>6. one \o two = all
  BY <1>3, <1>4, <1>5, SeqEqual
<1> QED
  BY <1>6 DEF one, two, all

LEMMA HalfNone ==
  ASSUME NEW c \in Remembering
  PROVE  Half(c, 0) = c.before
<1>1. c.before \in [Memory -> Int] /\ c.at \in Nat
  BY DEF Remembering
<1>2. \A a \in Memory : a \notin c.at .. c.at + 0 - 1
  BY <1>1
<1>3. Half(c, 0) = [a \in Memory |-> c.before[a]]
  BY <1>2 DEF Half
<1> QED
  BY <1>1, <1>3

LEMMA AddressFields ==
  ASSUME NEW a
  PROVE  /\ Address(a).service = "setMta" /\ Address(a).from = a /\ Address(a).wait
  BY DEF Address, Packet

LEMMA PushStep ==
  ASSUME TypeInv, pc = "transfer", PushLeft, NEW p, p = Head(todo), Alive' => Alive,
         Alive' /\ p.service = "setMta" => slave'.mta = p.from /\ slave'.memory = slave.memory,
         Alive' /\ p.service \in Downloads => slave' = Written(p)
  PROVE  LET k == Start(Tail(todo), call.n)
         IN  /\ Chain(Writes, Tail(todo), call.n)
             /\ Alive' => slave'.mta = call.at + k /\ slave'.memory = Half(call, k)
             /\ p.service \in Downloads \cup {"setMta"}
             /\ ~p.wait => p \in Writes /\ p.count < p.length /\ Tail(todo) # <<>>
<1> DEFINE t == Tail(todo)
           k == Start(t, call.n)
<1>1. call \in Remembering /\ todo # <<>> /\ SlaveType
  BY DEF TypeInv, CallType, TodoType
<1>2. call.at \in Nat /\ call.n \in Nat
  BY <1>1 DEF Remembering
<1>3. CASE /\ Head(todo) = Address(call.at) /\ Chain(Writes, t, call.n)
           /\ Start(t, call.n) = 0
           /\ Alive => slave.memory = call.before
  <2>1. p.service = "setMta" /\ p.from = call.at /\ p.wait
    BY <1>3, AddressFields
  <2>2. Alive' => slave'.mta = call.at /\ slave'.memory = call.before
    BY <1>3, <2>1
  <2>3. k = 0 /\ call.at + 0 = call.at
    BY <1>2, <1>3
  <2> HIDE DEF k, t
  <2>4. Alive' => slave'.mta = call.at + k /\ slave'.memory = Half(call, k)
    BY <1>1, <2>2, <2>3, HalfNone
  <2> QED
    BY <1>3, <2>1, <2>4 DEF k, t
<1>4. CASE /\ Chain(Writes, todo, call.n)
           /\ Alive => /\ slave.mta = call.at + Start(todo, call.n)
                       /\ slave.memory = Half(call, Start(todo, call.n))
  <2>1. /\ p \in Writes /\ Chain(Writes, t, call.n) /\ k = p.from + p.count
        /\ t = <<>> => p.wait
    <3>1. Writes \subseteq Chunks /\ Chain(Writes, todo, call.n)
      BY <1>4 DEF Writes
    <3> QED
      BY <1>1, <3>1, ChainTail
  <2>2. /\ p \in Chunks /\ p.service \in Downloads /\ p.from \in Nat /\ p.count \in Nat
        /\ p.wait \/ p.count < p.length
    BY <2>1, ChunkIsPacket DEF Writes, PacketType
  <2>3. Start(todo, call.n) = p.from
    BY <1>1 DEF Start
  <2> HIDE DEF k, t
  <2>4. Alive' => slave'.mta = call.at + k /\ slave'.memory = Half(call, k)
    <3>1. SUFFICES ASSUME Alive' PROVE slave'.mta = call.at + k /\ slave'.memory = Half(call, k)
      OBVIOUS
    <3>2. slave.mta = call.at + p.from /\ slave.memory = Half(call, p.from) /\ slave' = Written(p)
      BY <1>4, <2>2, <2>3, <3>1
    <3>3. Written(p).mta = call.at + (p.from + p.count)
            /\ Written(p).memory = Half(call, p.from + p.count)
      BY <1>1, <2>2, <3>2, WrittenHalf
    <3> QED
      BY <2>1, <3>2, <3>3
  <2> QED
    BY <2>1, <2>2, <2>4 DEF k, t
<1> QED
  BY <1>3, <1>4 DEF PushLeft

LEMMA ReadStep ==
  ASSUME TypeInv, todo # <<>>, NEW n \in Nat, NEW a \in Nat, Chain(Reads, todo, n),
         props.bytes = 1 => slave.mta = a + Start(todo, n) /\ got = Held(a, Start(todo, n)),
         NEW p, p = Head(todo), slave'.mta = slave.mta + p.count, slave'.memory = slave.memory,
         props.bytes = 1 => got' = got \o Held(slave.mta, p.count)
  PROVE  LET k == Start(Tail(todo), n)
         IN  /\ Chain(Reads, Tail(todo), n)
             /\ props.bytes = 1 => slave'.mta = a + k /\ got' = HeldIn(slave'.memory, a, k)
             /\ p \in Reads
<1> DEFINE t == Tail(todo)
           k == Start(t, n)
<1>1. p \in Reads /\ Chain(Reads, t, n) /\ k = p.from + p.count
  <2>1. Reads \subseteq Chunks
    BY DEF Reads
  <2> QED
    BY <2>1, ChainTail
<1>2. Start(todo, n) = p.from /\ p.from \in Nat /\ p.count \in Nat
  BY <1>1, ReadFields DEF Start
<1> HIDE DEF k, t
<1>3. ASSUME props.bytes = 1 PROVE slave'.mta = a + k /\ got' = HeldIn(slave'.memory, a, k)
  <2>1. slave.mta = a + p.from /\ got = HeldIn(slave.memory, a, p.from)
    BY <1>2, <1>3 DEF Held
  <2>2. got' = got \o HeldIn(slave.memory, a + p.from, p.count)
    BY <1>3, <2>1 DEF Held
  <2>3. HeldIn(slave.memory, a, p.from) \o HeldIn(slave.memory, a + p.from, p.count)
          = HeldIn(slave.memory, a, p.from + p.count)
    <3> DEFINE m == slave.memory
               from == p.from
               count == p.count
    <3>1. from \in Nat /\ count \in Nat
      BY <1>2
    <3> HIDE DEF m, from, count
    <3>2. HeldIn(m, a, from) \o HeldIn(m, a + from, count) = HeldIn(m, a, from + count)
      BY <3>1, HeldMore, ZenonT(60)
    <3> QED
      BY <3>2 DEF m, from, count
  <2>4. (a + p.from) + p.count = a + (p.from + p.count)
    BY <1>2
  <2> QED
    BY <1>1, <2>1, <2>2, <2>3, <2>4
<1> QED
  BY <1>1, <1>3 DEF k, t

(* What the packets of a verify() are, in the four stages of the call.     *)
LEMMA SumFields ==
  ASSUME NEW c
  PROVE  Sum(c).service = "buildChecksum" /\ Sum(c).length = c.n /\ Sum(c).wait
  BY DEF Sum, Chunk, Packet

LEMMA SumTyped ==
  ASSUME NEW c \in Remembering
  PROVE  Sum(c) \in Chunks /\ Address(c.at) \in Chunks
<1>1. 0 \in 0 .. ByteMax /\ "buildChecksum" \notin Downloads /\ c.n \in Nat /\ c.at \in Nat
  BY SessionBounds DEF Downloads, Remembering
<1> QED
  BY <1>1, AddressTyped DEF Sum, Chunk, Packet, Chunks

LEMMA ReadsAreChunks ==
  ASSUME NEW n, NEW s, Chain(Reads, s, n)
  PROVE  s \in Seq(Chunks)
<1>1. s \in Seq(Reads) /\ Reads \subseteq Chunks
  BY DEF Chain, Reads
<1> QED
  BY <1>1

LEMMA SumFirstIs ==
  ASSUME TypeInv, pc = "transfer", SumFirst
  PROVE  /\ Head(todo) = Address(call.at) /\ Tail(todo) # <<>> /\ got = <<>>
         /\ \E s : /\ TwoMore(Tail(todo), Sum(call), Address(call.at), s)
                   /\ Without(Tail(todo), 2) = s
                   /\ Chain(Reads, s, call.n) /\ Start(s, call.n) = 0
<1> DEFINE s == Without(todo, 3)
           sum == Sum(call)
           address == Address(call.at)
           all == todo
<1>1. /\ ThreeMore(all, address, sum, address, s) /\ got = <<>>
      /\ Chain(Reads, s, call.n) /\ Start(s, call.n) = 0
  BY DEF SumFirst, ThreeMore
<1>2. s \in Seq(Chunks)
  BY <1>1, ReadsAreChunks
<1>3. sum \in Chunks /\ address \in Chunks
  BY SumTyped DEF TypeInv, CallType
<1> HIDE DEF s, sum, address
<1>4. TwoMore(Tail(all), sum, address, s)
  BY <1>1, <1>2, <1>3, ThreeBefore
<1>5. Head(all) = address
  BY <1>1, <1>2, <1>3, ThreeBefore
<1> DEFINE t == Tail(all)
<1>6. Without(t, 2) = s
  <2>1. TwoMore(t, sum, address, s)
    BY <1>4
  <2> HIDE DEF t
  <2> QED
    BY <1>2, <1>3, <2>1, TwoBefore
<1>7. t # <<>>
  <2>1. TwoMore(t, sum, address, s)
    BY <1>4
  <2> HIDE DEF t
  <2> QED
    BY <1>2, <1>3, <2>1, TwoBefore
<1> QED
  BY <1>1, <1>4, <1>5, <1>6, <1>7 DEF sum, address, s

LEMMA SumNextIs ==
  ASSUME TypeInv, pc = "transfer", SumNext
  PROVE  /\ Head(todo) = Sum(call) /\ Tail(todo) # <<>> /\ got = <<>>
         /\ Head(Tail(todo)) = Address(call.at)
         /\ Chain(Reads, Tail(Tail(todo)), call.n) /\ Start(Tail(Tail(todo)), call.n) = 0
<1> DEFINE s == Without(todo, 2)
           sum == Sum(call)
           address == Address(call.at)
           all == todo
           t == Tail(all)
<1>1. /\ TwoMore(all, sum, address, s) /\ got = <<>>
      /\ Chain(Reads, s, call.n) /\ Start(s, call.n) = 0
  BY DEF SumNext, TwoMore
<1>2. s \in Seq(Chunks)
  BY <1>1, ReadsAreChunks
<1>3. sum \in Chunks /\ address \in Chunks
  BY SumTyped DEF TypeInv, CallType
<1> HIDE DEF s, sum, address, all
<1>4. OneMore(t, address, s)
  BY <1>1, <1>2, <1>3, TwoBefore
<1>5. Head(all) = sum
  BY <1>1, <1>2, <1>3, TwoBefore
<1> HIDE DEF t
<1>6. Tail(t) = s
  BY <1>2, <1>3, <1>4, OneBefore
<1>7. Head(t) = address
  BY <1>2, <1>3, <1>4, OneBefore
<1>8. t # <<>>
  BY <1>2, <1>3, <1>4, OneBefore
<1> QED
  BY <1>1, <1>5, <1>6, <1>7, <1>8 DEF sum, address, t, all

LEMMA PacketIs ==
  ASSUME TypeInv, pc = "transfer", TransferLeft
  PROVE  /\ call.op \in TransferOps
         /\ call.op = "fetch" => Head(todo) \in Reads
         /\ call.op = "verify" => Head(todo) \in {Address(call.at), Sum(call)} \cup Reads
<1>1. call \in Remembering /\ todo # <<>>
  BY DEF TypeInv, CallType, TodoType
<1>2. \A n : Chain(Reads, todo, n) => Head(todo) \in Reads
  <2>1. ASSUME NEW n, Chain(Reads, todo, n) PROVE Head(todo) \in Reads
    BY <1>1, <2>1, TailTyped DEF Chain
  <2> QED
    BY <2>1
<1>3. call.op = "fetch" => Head(todo) \in Reads
  BY <1>2 DEF TransferLeft, FetchLeft
<1>4. call.op = "verify" => SumFirst \/ SumNext \/ ReadFirst \/ ReadNext
  BY DEF TransferLeft, VerifyLeft
<1>5. call.op = "verify" => Head(todo) \in {Address(call.at), Sum(call)} \cup Reads
  BY <1>2, <1>4, SumFirstIs, SumNextIs DEF ReadFirst, ReadNext
<1> QED
  BY <1>1, <1>3, <1>5 DEF Remembering

(* What is done when a packet has been answered.                           *)
Effect(p) ==
  /\ Alive /\ Alive'
  /\ p.service = "setMta" => slave'.mta = p.from /\ slave'.memory = slave.memory
  /\ p.service \in Downloads => slave' = Written(p)
  /\ p.service = "buildChecksum" =>
       slave'.memory = slave.memory /\ expected' = Elements(slave.mta, p.length)
  /\ p.service # "buildChecksum" => expected' = expected
  /\ p.service # "upload" => got' = got
  /\ p \in Reads =>
       /\ slave'.mta = slave.mta + p.count /\ slave'.memory = slave.memory
       /\ props.bytes = 1 => got' = got \o Held(slave.mta, p.count)

LEMMA ReadsGoOn ==
  ASSUME TypeInv, pc = "transfer", NEW t, NEW k, k = Start(t, call.n), Chain(Reads, t, call.n),
         expected' = HeldIn(slave'.memory, call.at, call.n),
         props.bytes = 1 =>
           slave'.mta = call.at + k /\ got' = HeldIn(slave'.memory, call.at, k)
  PROVE  /\ todo' = t /\ call' = call /\ props' = props => VerifyLeft'
         /\ t = <<>> /\ props.bytes = 1 => got' = expected' /\ Len(got') = call.n
<1>1. ASSUME todo' = t, call' = call, props' = props PROVE ReadNext'
  BY <1>1 DEF ReadNext, Held
<1>2. ASSUME t = <<>>, props.bytes = 1 PROVE got' = expected' /\ Len(got') = call.n
  <2>1. call.n \in Nat
    BY DEF TypeInv, CallType, Remembering
  <2>2. got' = HeldIn(slave'.memory, call.at, call.n)
    BY <1>2 DEF Start
  <2>3. Len(got') = call.n
    BY <2>1, <2>2 DEF HeldIn
  <2> QED
    BY <2>2, <2>3
<1> QED
  BY <1>1, <1>2 DEF VerifyLeft

LEMMA VerifyStep ==
  ASSUME TypeInv, pc = "transfer", VerifyLeft, NEW p, p = Head(todo), Effect(p), NEW t, t = Tail(todo)
  PROVE  /\ t # <<>> /\ todo' = t /\ call' = call /\ props' = props => VerifyLeft'
         /\ t = <<>> /\ props.bytes = 1 => got' = expected' /\ Len(got') = call.n
<1>1. call \in Remembering /\ todo # <<>> /\ SlaveType
  BY DEF TypeInv, CallType, TodoType
<1>2. call.at \in Nat /\ call.n \in Nat /\ slave.connected
  BY <1>1 DEF Remembering, Effect, Alive
<1>3. Address(call.at).service = "setMta" /\ Address(call.at).from = call.at
        /\ Sum(call).service = "buildChecksum" /\ Sum(call).length = call.n
  BY AddressFields, SumFields
<1>4. CASE SumFirst
  <2>1. /\ p = Address(call.at) /\ t # <<>> /\ got = <<>>
        /\ \E s : /\ TwoMore(t, Sum(call), Address(call.at), s)
                  /\ Without(t, 2) = s
                  /\ Chain(Reads, s, call.n) /\ Start(s, call.n) = 0
    BY <1>4, SumFirstIs
  <2>2. slave'.mta = call.at /\ got' = <<>>
    BY <1>3, <2>1 DEF Effect
  <2>3. ASSUME todo' = t, call' = call PROVE SumNext'
    BY <2>1, <2>2, <2>3 DEF SumNext, TwoMore
  <2> QED
    BY <2>1, <2>3 DEF VerifyLeft
<1>5. CASE SumNext
  <2>1. /\ p = Sum(call) /\ t # <<>> /\ got = <<>>
        /\ Head(t) = Address(call.at)
        /\ Chain(Reads, Tail(t), call.n) /\ Start(Tail(t), call.n) = 0
    BY <1>5, SumNextIs
  <2>2. /\ slave'.memory = slave.memory /\ expected' = Elements(slave.mta, call.n) /\ got' = <<>>
    BY <1>3, <2>1 DEF Effect
  <2>3. slave.mta = call.at
    BY <1>2, <1>5 DEF SumNext
  <2>4. expected' = HeldIn(slave'.memory, call.at, call.n)
    BY <2>2, <2>3 DEF Elements, HeldIn
  <2>5. ASSUME todo' = t, call' = call PROVE ReadFirst'
    BY <2>1, <2>2, <2>4, <2>5 DEF ReadFirst, Held
  <2> QED
    BY <2>1, <2>5 DEF VerifyLeft
<1>6. CASE ReadFirst
  <2>1. /\ p = Address(call.at) /\ Chain(Reads, t, call.n) /\ Start(t, call.n) = 0 /\ got = <<>>
        /\ expected = Held(call.at, call.n)
    BY <1>2, <1>6 DEF ReadFirst
  <2>2. /\ slave'.mta = call.at + 0 /\ slave'.memory = slave.memory /\ expected' = expected
        /\ got' = <<>>
    BY <1>2, <1>3, <2>1 DEF Effect
  <2>3. expected' = HeldIn(slave'.memory, call.at, call.n)
    BY <2>1, <2>2 DEF Held
  <2>4. got' = HeldIn(slave'.memory, call.at, 0)
    BY <2>2 DEF HeldIn
  <2> QED
    BY <2>1, <2>2, <2>3, <2>4, ReadsGoOn
<1>7. CASE ReadNext
  <2>1. /\ Chain(Reads, todo, call.n) /\ expected = Held(call.at, call.n)
        /\ props.bytes = 1 => /\ slave.mta = call.at + Start(todo, call.n)
                              /\ got = Held(call.at, Start(todo, call.n))
    BY <1>2, <1>7 DEF ReadNext
  <2>2. p \in Reads
    <3>1. Reads \subseteq Chunks
      BY DEF Reads
    <3> QED
      BY <1>1, <2>1, <3>1, ChainTail
  <2>3. /\ slave'.mta = slave.mta + p.count /\ slave'.memory = slave.memory
        /\ props.bytes = 1 => got' = got \o Held(slave.mta, p.count)
        /\ expected' = expected
    BY <2>2, ReadFields DEF Effect
  <2> DEFINE k == Start(t, call.n)
  <2>4. /\ Chain(Reads, t, call.n)
        /\ props.bytes = 1 => slave'.mta = call.at + k /\ got' = HeldIn(slave'.memory, call.at, k)
    BY <1>1, <1>2, <2>1, <2>3, ReadStep
  <2>5. expected' = HeldIn(slave'.memory, call.at, call.n)
    BY <2>1, <2>3 DEF Held
  <2>6. k = Start(t, call.n)
    OBVIOUS
  <2> HIDE DEF k
  <2> QED
    BY <2>4, <2>5, <2>6, ReadsGoOn
<1> QED
  BY <1>4, <1>5, <1>6, <1>7 DEF VerifyLeft

(* A fetch() has read the elements before the packet that is next.         *)
LEMMA FetchStep ==
  ASSUME TypeInv, pc = "transfer", FetchLeft, NEW p, p = Head(todo), Effect(p), NEW t, t = Tail(todo)
  PROVE  /\ todo' = t /\ call' = call /\ props' = props => FetchLeft'
         /\ t = <<>> /\ props.bytes = 1 => got' = HeldIn(slave'.memory, call.mta, call.n)
<1>1. call \in Remembering /\ todo # <<>> /\ SlaveType
  BY DEF TypeInv, CallType, TodoType
<1>2. call.mta \in Nat /\ call.n \in Nat /\ slave.connected
  BY <1>1 DEF Remembering, Effect, Alive
<1>3. /\ Chain(Reads, todo, call.n)
      /\ props.bytes = 1 => /\ slave.mta = call.mta + Start(todo, call.n)
                            /\ got = Held(call.mta, Start(todo, call.n))
  BY <1>2 DEF FetchLeft
<1>4. p \in Reads
  <2>1. Reads \subseteq Chunks
    BY DEF Reads
  <2> QED
    BY <1>1, <1>3, <2>1, ChainTail
<1>5. /\ slave'.mta = slave.mta + p.count /\ slave'.memory = slave.memory
      /\ props.bytes = 1 => got' = got \o Held(slave.mta, p.count)
  BY <1>4 DEF Effect
<1> DEFINE k == Start(t, call.n)
<1>6. /\ Chain(Reads, t, call.n)
      /\ props.bytes = 1 => slave'.mta = call.mta + k /\ got' = HeldIn(slave'.memory, call.mta, k)
  BY <1>1, <1>2, <1>3, <1>5, ReadStep
<1>7. t = <<>> => k = call.n
  BY DEF Start
<1>8. ASSUME todo' = t, call' = call, props' = props PROVE FetchLeft'
  BY <1>6, <1>8 DEF FetchLeft, Held
<1> HIDE DEF k
<1> QED
  BY <1>6, <1>7, <1>8

-----------------------------------------------------------------------------
(* A packet of a transfer is neither one of connect(), disconnect() nor    *)
(* unlock(), so the slave stays connected, and locked, as it was.          *)
LEMMA TransferPacket ==
  ASSUME TypeInv, pc = "transfer", NEW p, p = Head(todo)
  PROVE  /\ p \in Chunks /\ PacketType(p) /\ (p.service \in Downloads => p.count <= p.length)
         /\ \A r \in Reactions(p) :
              /\ ReactionTyped(r) /\ r.slave.connected = slave.connected
              /\ r.slave.locked = slave.locked
<1>1. p \in Chunks
  BY TailTyped DEF TypeInv, TodoType
<1>2. PacketType(p) /\ (p.service \in Downloads => p.count <= p.length)
  BY <1>1, ChunkIsPacket
<1>3. p.service \notin {"connect", "disconnect", "unlock"}
  BY <1>1 DEF Chunks, Downloads
<1>4. ASSUME NEW r \in Reactions(p)
      PROVE  ReactionTyped(r) /\ r.slave.connected = slave.connected /\ r.slave.locked = slave.locked
  <2>1. ReactionTyped(r)
    BY <1>2, ReactionsTyped DEF TypeInv
  <2>2. Keeps(r.slave)
    BY <1>3, Steady DEF TypeInv
  <2> QED
    BY <2>1, <2>2 DEF Keeps
<1> QED
  BY <1>1, <1>2, <1>4

(* An answer that waits is an error: without one, nothing has waited.      *)
LEMMA NothingWaits ==
  ASSUME TypeInv, Quiet, pc = "transfer", NEW r, r.answers \in Seq(Answers), Error(r) = "none"
  PROVE  Waiting = <<>> /\ Answered(r) = r.answers /\ Positive(r)
<1>1. Waiting \in Seq(Answers)
  BY DEF Waiting, TypeInv, ChannelType
<1>2. Answered(r) = Waiting \o r.answers
  BY DEF Answered, Waiting
<1>3. Answered(r) # <<>> /\ Head(Answered(r)).error = "none"
  BY DEF Error
<1>4. Waiting = <<>>
  <2>1. SUFFICES ASSUME Waiting # <<>> PROVE FALSE
    OBVIOUS
  <2> DEFINE s == Waiting
  <2>2. s \in Seq(Answers) /\ s # <<>> /\ \A i \in 1 .. Len(s) : s[i].error # "none"
    BY <1>1, <2>1 DEF Quiet
  <2>3. Answered(r) = s \o r.answers
    BY <1>2
  <2> HIDE DEF s
  <2>4. Head(s \o r.answers) = s[1] /\ 1 \in 1 .. Len(s)
    BY <2>2
  <2> QED
    BY <1>3, <2>2, <2>3, <2>4
<1>5. Answered(r) = r.answers
  BY <1>4, AnsweredIs DEF TypeInv
<1> QED
  BY <1>3, <1>4, <1>5 DEF Positive

LEMMA RequestEffect ==
  ASSUME TypeInv, Safe, pc = "transfer", NEW p, p = Head(todo), NEW r \in Reactions(p),
         Ask(p, r, Taken(p, r)), Outcome(p, r) = "none",
         got' = IF p.service # "upload" THEN got
                ELSE got \o FirstOf(Received(r, Taken(p, r)), p.count),
         expected' = IF p.service = "buildChecksum" THEN Reply(r).data ELSE expected,
         p.service = "upload" => p \in Reads
  PROVE  Effect(p)
<1>1. /\ p \in Chunks /\ PacketType(p) /\ (p.service \in Downloads => p.count <= p.length)
      /\ ReactionTyped(r) /\ r.slave.connected = slave.connected
  BY TransferPacket
<1>2. SlaveType /\ Quiet /\ Match
  BY DEF TypeInv, Safe
<1>3. Error(r) = "none"
  BY DEF Outcome
<1>4. Waiting = <<>> /\ Answered(r) = r.answers /\ Positive(r)
  BY <1>1, <1>2, <1>3, NothingWaits DEF ReactionTyped
<1>5. p.service # "connect"
  BY <1>1 DEF Chunks, Downloads
<1>6. slave.connected /\ slave' = r.slave
  BY <1>2, <1>4, <1>5, PositiveFacts DEF Ask
<1>7. Waiting' = <<>>
  <2>1. CASE p.service = "upload"
    BY <1>2, <1>4, <2>1, UploadDone
  <2>2. CASE p.service # "upload"
    <3>1. Taken(p, r) = 1
      BY <2>2 DEF Taken, InBlock
    <3> QED
      BY <1>1, <1>4, <2>2, <3>1, AskedAlone
  <2> QED
    BY <2>1, <2>2
<1>8. Alive /\ Alive'
  BY <1>1, <1>4, <1>6, <1>7 DEF Alive
<1>9. p.service = "setMta" => slave'.mta = p.from /\ slave'.memory = slave.memory
  BY <1>1, <1>2, <1>4, <1>6, AddressSet DEF PacketType
<1>10. p.service \in Downloads => slave' = Written(p)
  BY <1>1, <1>2, <1>4, <1>6, WriteFacts
<1>11. p.service = "buildChecksum" =>
         slave'.memory = slave.memory /\ expected' = Elements(slave.mta, p.length)
  <2>1. SUFFICES ASSUME p.service = "buildChecksum"
                 PROVE  slave'.memory = slave.memory /\ expected' = Elements(slave.mta, p.length)
    OBVIOUS
  <2>2. r.slave.memory = slave.memory /\ Head(r.answers).data = Elements(slave.mta, p.length)
    BY <1>1, <1>2, <1>4, <2>1, ChecksumMade DEF PacketType
  <2>3. expected' = Head(r.answers).data
    BY <1>4, <2>1 DEF Reply
  <2> QED
    BY <1>6, <2>2, <2>3
<1>12. p \in Reads =>
         /\ slave'.mta = slave.mta + p.count /\ slave'.memory = slave.memory
         /\ props.bytes = 1 => got' = got \o Held(slave.mta, p.count)
  <2>1. SUFFICES ASSUME p \in Reads
                 PROVE  /\ slave'.mta = slave.mta + p.count /\ slave'.memory = slave.memory
                        /\ props.bytes = 1 => got' = got \o Held(slave.mta, p.count)
    OBVIOUS
  <2>2. p.service = "upload"
    BY <2>1, ReadFields
  <2>3. slave'.mta = slave.mta + p.count /\ slave'.memory = slave.memory
    BY <1>2, <1>4, <2>1, UploadDone
  <2>4. props.bytes = 1 => FirstOf(Received(r, Taken(p, r)), p.count) = Held(slave.mta, p.count)
    BY <1>2, <1>4, <2>1, UploadDone
  <2> QED
    BY <2>2, <2>3, <2>4
<1> QED
  BY <1>8, <1>9, <1>10, <1>11, <1>12 DEF Effect

LEMMA RequestPacketSafe ==
  ASSUME TypeInv, Safe, RequestPacket
  PROVE  Safe'
<1> DEFINE p == Head(todo)
           t == Tail(todo)
<1>1. pc = "transfer" /\ UNCHANGED <<transport, status, seed, keyLeft, props, resets, known>>
  BY DEF RequestPacket
<1>2. PICK r \in Reactions(p) :
        /\ Ask(p, r, Taken(p, r))
        /\ IF Outcome(p, r) # "none"
             THEN Raise(call, Outcome(p, r)) /\ UNCHANGED <<got, expected>>
             ELSE /\ got' = IF p.service # "upload" THEN got
                            ELSE got \o FirstOf(Received(r, Taken(p, r)), p.count)
                  /\ expected' = IF p.service = "buildChecksum" THEN Reply(r).data ELSE expected
                  /\ Sent
  BY DEF RequestPacket
<1>3. /\ p \in Chunks /\ PacketType(p) /\ (p.service \in Downloads => p.count <= p.length)
      /\ ReactionTyped(r) /\ r.slave.connected = slave.connected /\ r.slave.locked = slave.locked
  BY <1>1, TransferPacket
<1>4. todo # <<>> /\ SlaveType /\ call \in Remembering /\ p = Head(todo) /\ t = Tail(todo)
  BY <1>1 DEF TypeInv, TodoType, CallType
<1> HIDE DEF p, t
<1>5. /\ slave' = r.slave /\ slave'.dev = slave.dev /\ slave'.connected = slave.connected
      /\ slave'.locked = slave.locked
  BY <1>2, <1>3 DEF Ask, ReactionTyped
<1>6. Answered(r) \in Seq(Answers)
  BY <1>3 DEF Answered, ReactionTyped, TypeInv, ChannelType
<1>7. p.service # "connect"
  BY <1>3 DEF Chunks, Downloads
<1>8. OrdersAgree'
  <2>1. Answered(r) = <<>> \/ Met
    <3>1. SUFFICES ASSUME Answered(r) # <<>>, ~slave.connected, Waiting = <<>> PROVE FALSE
      BY <1>1 DEF Met
    <3>2. r.answers = <<>>
      BY <1>4, <1>7, <3>1, Deaf
    <3>3. Answered(r) = r.answers
      BY <1>3, <3>1, AnsweredIs DEF TypeInv, ReactionTyped
    <3> QED
      BY <3>1, <3>2, <3>3
  <2> QED
    BY <1>2, <2>1, AskOrders DEF Safe
<1>9. Admitted'
  BY <1>1, <1>5 DEF Admitted, Safe
<1>10. CASE Outcome(p, r) # "none"
  <2>1. Outcome(p, r) \in Exceptions /\ Raise(call, Outcome(p, r))
    BY <1>2, <1>6, <1>10, ErrorTyped DEF Outcome, Exceptions
  <2>2. pc' \in Exceptions /\ last'.how # "returned"
    BY <2>1 DEF Raise
  <2>3. pc' # "idle" /\ pc' # "transfer"
    BY <2>2 DEF Exceptions
  <2>4. /\ Quiet' /\ Finished' /\ TransferLeft' /\ TransfersExact' /\ UnlockLeft' /\ UnlockWhole'
    BY <2>2, <2>3, NothingRuns
  <2>5. Match'
    BY <1>1, <1>5, <2>3 DEF Match, Met, Safe
  <2> QED
    BY <1>8, <1>9, <2>4, <2>5 DEF Safe
<1>11. CASE Outcome(p, r) = "none"
  <2>1. /\ got' = IF p.service # "upload" THEN got
                  ELSE got \o FirstOf(Received(r, Taken(p, r)), p.count)
        /\ expected' = IF p.service = "buildChecksum" THEN Reply(r).data ELSE expected
        /\ Ask(p, r, Taken(p, r)) /\ Sent
    BY <1>2, <1>11
  <2>2. /\ TransferLeft /\ Match /\ Finished /\ call.op \in TransferOps
        /\ call.op \in {"push", "flash_program"} => PushLeft
        /\ call.op = "fetch" => FetchLeft /\ p \in Reads
        /\ call.op = "verify" => VerifyLeft /\ p \in {Address(call.at), Sum(call)} \cup Reads
    BY <1>1, <1>4, PacketIs DEF Safe, TransferLeft
  <2>3. p.service = "upload" => p \in Reads
    <3>1. call.op \in {"push", "flash_program"} => p.service # "upload"
      <4>1. SUFFICES ASSUME call.op \in {"push", "flash_program"} PROVE p.service # "upload"
        OBVIOUS
      <4>2. p = Address(call.at) \/ Chain(Writes, todo, call.n)
        BY <1>4, <2>2, <4>1 DEF PushLeft
      <4>3. Chain(Writes, todo, call.n) => p \in Writes
        BY <1>4, TailTyped DEF Chain
      <4> QED
        BY <4>2, <4>3, AddressFields DEF Writes, Downloads
    <3>2. Address(call.at).service # "upload" /\ Sum(call).service # "upload"
      BY AddressFields, SumFields
    <3> QED
      BY <2>2, <3>1, <3>2 DEF TransferOps
  <2>4. Effect(p)
    BY <1>1, <1>4, <1>11, <2>1, <2>3, RequestEffect
  <2>5. Waiting' = <<>> /\ slave.connected /\ Waiting = <<>>
    BY <2>4 DEF Effect, Alive
  <2>6. Match'
    BY <1>1, <1>5, <2>2, <2>5 DEF Match, Met
  <2>7. Quiet'
    BY <2>5 DEF Quiet
  <2>8. todo' = t /\ IF t = <<>> THEN Return(call) ELSE UNCHANGED <<pc, call, last>>
    BY <1>4, <2>1 DEF Sent
  <2>9. call.op \in {"push", "flash_program"} =>
          LET k == Start(t, call.n)
          IN  Chain(Writes, t, call.n) /\ slave'.mta = call.at + k /\ slave'.memory = Half(call, k)
    BY <1>1, <1>4, <2>2, <2>4, PushStep DEF Effect
  <2>10. CASE t # <<>>
    <3>1. pc' = "transfer" /\ call' = call /\ last' = last /\ todo' = t /\ props' = props
      BY <1>1, <2>8, <2>10
    <3>2. last'.how # "returned"
      BY <1>1, <2>2, <3>1 DEF Finished
    <3>3. Finished' /\ TransfersExact' /\ UnlockWhole'
      BY <3>2 DEF Finished, TransfersExact, PushExact, FetchExact, VerifyExact, UnlockWhole, Returned
    <3>4. UnlockLeft'
      BY <3>1 DEF UnlockLeft, Unlocking
    <3>5. call.op \in {"push", "flash_program"} => PushLeft'
      BY <2>9, <3>1 DEF PushLeft
    <3>6. call.op = "fetch" => FetchLeft'
      BY <1>1, <1>4, <2>2, <2>4, <3>1, FetchStep
    <3>7. call.op = "verify" => VerifyLeft'
      BY <1>1, <1>4, <2>2, <2>4, <2>10, <3>1, VerifyStep
    <3>8. TransferLeft'
      BY <3>1, <3>5, <3>6, <3>7 DEF TransferLeft
    <3> QED
      BY <1>8, <1>9, <2>6, <2>7, <3>3, <3>4, <3>8 DEF Safe
  <2>11. CASE t = <<>>
    <3>1. pc' = "idle" /\ last'.how = "returned" /\ last'.call = call /\ props' = props
      BY <1>1, <2>8, <2>11 DEF Return
    <3>2. Finished' /\ TransferLeft' /\ UnlockLeft'
      BY <3>1 DEF Finished, TransferLeft, UnlockLeft, Unlocking
    <3>3. UnlockWhole'
      BY <2>2, <3>1 DEF UnlockWhole, Returned, TransferOps
    <3>4. call.op \in {"push", "flash_program"} => slave'.memory = Half(call, call.n)
      BY <2>9, <2>11 DEF Start
    <3>5. PushExact'
      <4>1. SUFFICES ASSUME call.op \in {"push", "flash_program"}
                     PROVE  \A a \in Memory :
                              slave'.memory[a] = IF a \in Range_(call) THEN Value(a - call.at)
                                                 ELSE call.before[a]
        BY <3>1 DEF PushExact, Returned, Range_
      <4> QED
        BY <3>4, <4>1 DEF Half, Range_
    <3>6. FetchExact'
      <4>1. call.op = "fetch" /\ props.bytes = 1 => got' = HeldIn(slave'.memory, call.mta, call.n)
        BY <1>1, <1>4, <2>2, <2>4, <2>11, FetchStep
      <4> QED
        BY <3>1, <4>1 DEF FetchExact, Returned, HeldIn
    <3>7. VerifyExact'
      <4>1. call.op = "verify" /\ props.bytes = 1 => got' = expected' /\ Len(got') = call.n
        BY <1>1, <1>4, <2>2, <2>4, <2>11, VerifyStep
      <4> QED
        BY <3>1, <4>1 DEF VerifyExact, Returned
    <3> QED
      BY <1>8, <1>9, <2>6, <2>7, <3>2, <3>3, <3>5, <3>6, <3>7 DEF Safe, TransfersExact
  <2> QED
    BY <2>10, <2>11
<1> QED
  BY <1>10, <1>11

LEMMA BlockRequestSafe ==
  ASSUME TypeInv, Safe, BlockRequest
  PROVE  Safe'
<1> DEFINE p == Head(todo)
           t == Tail(todo)
<1>1. /\ pc = "transfer" /\ ~p.wait
      /\ UNCHANGED <<transport, got, expected, status, seed, keyLeft, props, resets, exchanged,
                     known>>
      /\ resQueue' = IF resQueue = <<>> THEN <<>> ELSE Tail(resQueue)
  BY DEF BlockRequest
<1>2. IF resQueue # <<>> /\ Head(resQueue).error # "none"
        THEN Raise(call, "XcpResponseError") /\ UNCHANGED <<wire, slave, refusals>>
        ELSE /\ \E r \in Reactions(p) :
                  /\ slave' = r.slave /\ refusals' = refusals + r.refused
                  /\ wire' = wire \o r.answers
             /\ Sent
  BY DEF BlockRequest
<1>3. /\ p \in Chunks /\ PacketType(p)
      /\ \A r \in Reactions(p) :
           /\ ReactionTyped(r) /\ r.slave.connected = slave.connected
           /\ r.slave.locked = slave.locked
  BY <1>1, TransferPacket
<1>4. todo # <<>> /\ SlaveType /\ call \in Remembering /\ p = Head(todo) /\ t = Tail(todo)
        /\ resQueue \in Seq(Answers) /\ wire \in Seq(Answers)
  BY <1>1 DEF TypeInv, TodoType, CallType, ChannelType
<1> HIDE DEF p, t
<1>5. call.op \in {"push", "flash_program"} /\ PushLeft
  <2>1. Address(call.at).wait /\ Sum(call).wait
    BY AddressFields, SumFields
  <2>2. p \notin Reads \cup {Address(call.at), Sum(call)}
    BY <1>1, <2>1, ReadFields
  <2>3. call.op \in TransferOps /\ call.op # "fetch" /\ call.op # "verify"
    BY <1>1, <1>4, <2>2, PacketIs DEF Safe
  <2> QED
    BY <1>1, <2>3 DEF TransferOps, Safe, TransferLeft
<1>6. CASE resQueue # <<>> /\ Head(resQueue).error # "none"
  <2>1. Raise(call, "XcpResponseError") /\ slave' = slave
    BY <1>2, <1>6
  <2>2. pc' = "XcpResponseError" /\ last'.how # "returned"
    BY <2>1 DEF Raise
  <2>3. pc' \in {"idle"} \cup Exceptions /\ pc' # "idle" /\ pc' # "transfer"
    BY <2>2 DEF Exceptions
  <2>4. /\ Quiet' /\ Finished' /\ TransferLeft' /\ TransfersExact' /\ UnlockLeft' /\ UnlockWhole'
    BY <2>2, <2>3, NothingRuns
  <2>5. Match'
    BY <1>1, <2>1, <2>3 DEF Match, Met, Safe
  <2>6. OrdersAgree' /\ Admitted'
    BY <1>1, <2>1 DEF OrdersAgree, Admitted, Safe
  <2> QED
    BY <2>4, <2>5, <2>6 DEF Safe
<1>7. CASE ~(resQueue # <<>> /\ Head(resQueue).error # "none")
  <2>1. resQueue = <<>>
    <3>1. SUFFICES ASSUME resQueue # <<>> PROVE FALSE
      OBVIOUS
    <3>2. Head(resQueue) = Waiting[1] /\ 1 \in 1 .. Len(Waiting)
      BY <1>4, <3>1 DEF Waiting
    <3>3. Waiting[1].error # "none"
      BY <1>1, <3>2 DEF Safe, Quiet
    <3> QED
      BY <1>7, <3>1, <3>2, <3>3
  <2>2. PICK r \in Reactions(p) : slave' = r.slave /\ wire' = wire \o r.answers
    BY <1>2, <1>7
  <2>3. Sent
    BY <1>2, <1>7
  <2>4. /\ slave'.dev = slave.dev /\ slave'.connected = slave.connected
        /\ slave'.locked = slave.locked /\ r.answers \in Seq(Answers)
    BY <1>3, <2>2 DEF ReactionTyped
  <2>5. Waiting = wire /\ Waiting' = wire \o r.answers
    <3>1. resQueue' = <<>> /\ wire \o r.answers \in Seq(Answers)
      BY <1>1, <1>4, <2>1, <2>4
    <3>2. Waiting' = <<>> \o (wire \o r.answers)
      BY <2>2, <3>1 DEF Waiting
    <3>3. Waiting = <<>> \o wire
      BY <2>1 DEF Waiting
    <3>4. \A s \in Seq(Answers) : <<>> \o s = s
      OBVIOUS
    <3> QED
      BY <1>4, <3>1, <3>2, <3>3, <3>4
  <2>6. (Alive' => Alive) /\ (Waiting' = <<>> => r.answers = <<>>)
    <3>1. wire \o r.answers = <<>> => wire = <<>> /\ r.answers = <<>>
      BY <1>4, <2>4
    <3> QED
      BY <2>4, <2>5, <3>1 DEF Alive
  <2>7. Alive' /\ p.service \in Downloads => slave' = Written(p)
    <3>1. SUFFICES ASSUME Alive', p.service \in Downloads PROVE slave' = Written(p)
      OBVIOUS
    <3>2. slave.connected /\ r.answers = <<>>
      BY <2>6, <3>1 DEF Alive
    <3> QED
      BY <1>3, <1>4, <2>2, <3>1, <3>2, WriteFacts
  <2>8. p \in Writes /\ p.count < p.length /\ t # <<>> /\ p.service \in Downloads
    <3>1. Alive' /\ p.service = "setMta" => slave'.mta = p.from /\ slave'.memory = slave.memory
      <4>1. p.service = "setMta" => p.wait
        <5>1. p = Address(call.at) \/ p \in Writes
          <6>1. Chain(Writes, todo, call.n) => p \in Writes
            BY <1>4, TailTyped DEF Chain
          <6> QED
            BY <1>4, <1>5, <6>1 DEF PushLeft
        <5> QED
          BY <5>1, AddressFields DEF Writes, Downloads
      <4> QED
        BY <1>1, <4>1
    <3>2. ~p.wait => p \in Writes /\ p.count < p.length /\ t # <<>>
      BY <1>1, <1>4, <1>5, <2>6, <2>7, <3>1, PushStep
    <3> QED
      BY <1>1, <3>2 DEF Writes
  <2>9. LET k == Start(t, call.n)
        IN  /\ Chain(Writes, t, call.n)
            /\ Alive' => slave'.mta = call.at + k /\ slave'.memory = Half(call, k)
    <3>1. p.service # "setMta"
      BY <2>8 DEF Downloads
    <3> QED
      BY <1>1, <1>4, <1>5, <2>6, <2>7, <3>1, PushStep
  <2>10. pc' = "transfer" /\ call' = call /\ last' = last /\ todo' = t
    BY <1>1, <1>4, <2>3, <2>8 DEF Sent
  <2>11. Quiet'
    <3>1. r.answers = <<>> \/ ~Positive(r)
      BY <1>3, <1>4, <2>8, Deaf, WriteFacts DEF Downloads
    <3>2. OneOrNone(r.answers)
      BY <2>8, SingleAnswer DEF Downloads
    <3>3. \A i \in 1 .. Len(r.answers) : r.answers[i].error # "none"
      <4>1. CASE r.answers = <<>>
        BY <4>1
      <4>2. CASE r.answers # <<>>
        <5>1. PICK a : r.answers = <<a>>
          BY <3>2, <4>2 DEF OneOrNone
        <5>2. a.error # "none"
          BY <3>1, <4>2, <5>1 DEF Positive
        <5> QED
          BY <5>1, <5>2
      <4> QED
        BY <4>1, <4>2
    <3>4. \A i \in 1 .. Len(wire) : wire[i].error # "none"
      BY <1>1, <2>5 DEF Safe, Quiet
    <3>5. \A i \in 1 .. Len(Waiting') : Waiting'[i].error # "none"
      <4> DEFINE s == wire \o r.answers
      <4>1. /\ Len(s) = Len(wire) + Len(r.answers)
            /\ \A i \in 1 .. Len(s) : s[i] = IF i <= Len(wire) THEN wire[i] ELSE r.answers[i - Len(wire)]
        BY <1>4, <2>4, ConcatProperties
      <4>2. Len(wire) \in Nat /\ Len(r.answers) \in Nat
        BY <1>4, <2>4
      <4> HIDE DEF s
      <4>3. ASSUME NEW i \in 1 .. Len(s) PROVE s[i].error # "none"
        <5>1. CASE i <= Len(wire)
          <6>1. i \in 1 .. Len(wire) /\ s[i] = wire[i]
            BY <4>1, <4>2, <5>1
          <6> QED
            BY <3>4, <6>1
        <5>2. CASE ~(i <= Len(wire))
          <6>1. i - Len(wire) \in 1 .. Len(r.answers) /\ s[i] = r.answers[i - Len(wire)]
            BY <4>1, <4>2, <5>2
          <6> QED
            BY <3>3, <6>1
        <5> QED
          BY <5>1, <5>2
      <4>4. Waiting' = s
        BY <2>5 DEF s
      <4> QED
        BY <4>3, <4>4
    <3> QED
      BY <1>5, <2>10, <3>5 DEF Quiet, Unlocking
  <2>12. Match'
    <3>1. Met' => Met
      <4>1. SUFFICES ASSUME Waiting' # <<>>, ~slave.connected PROVE Waiting # <<>>
        BY <1>1, <2>4 DEF Met
      <4>2. r.answers = <<>>
        BY <1>4, <2>8, <4>1, Deaf DEF Downloads
      <4>3. wire \o <<>> = wire
        BY <1>4
      <4> QED
        BY <2>5, <4>1, <4>2, <4>3
    <3> QED
      BY <1>1, <2>4, <3>1 DEF Match, Safe
  <2>13. OrdersAgree' /\ Admitted'
    BY <1>1, <2>4 DEF OrdersAgree, Admitted, Safe
  <2>14. last'.how # "returned"
    BY <1>1, <2>10 DEF Safe, Finished
  <2>15. Finished' /\ TransfersExact' /\ UnlockWhole'
    BY <2>14 DEF Finished, TransfersExact, PushExact, FetchExact, VerifyExact, UnlockWhole, Returned
  <2>16. UnlockLeft'
    BY <2>10 DEF UnlockLeft, Unlocking
  <2>17. TransferLeft'
    <3>1. PushLeft'
      BY <2>9, <2>10 DEF PushLeft
    <3> QED
      BY <1>5, <2>10, <3>1 DEF TransferLeft
  <2> QED
    BY <2>11, <2>12, <2>13, <2>15, <2>16, <2>17 DEF Safe
<1> QED
  BY <1>6, <1>7

-----------------------------------------------------------------------------
LEMMA InitSafe ==
  ASSUME Init
  PROVE  Safe
<1>1. pc = "idle" /\ last.how # "returned" /\ ~known /\ exchanged = NoExchange
  BY DEF Init, NoCall
<1>2. ~slave.connected
  BY DEF Init, Fresh
<1>3. Waiting = <<>>
  <2>1. <<>> \o <<>> = <<>>
    OBVIOUS
  <2> QED
    BY <2>1 DEF Init, Waiting
<1> QED
  BY <1>1, <1>2, <1>3
     DEF Safe, Quiet, Match, Met, OrdersAgree, Finished, TransferLeft, TransfersExact, PushExact,
         FetchExact, VerifyExact, Returned, Admitted, UnlockLeft, UnlockWhole, Unlocking

LEMMA StutterSafe ==
  ASSUME Safe, UNCHANGED vars
  PROVE  Safe'
<1>1. UNCHANGED <<pc, call, todo, got, expected, names, status, seed, keyLeft, props, resQueue,
                  wire, slave, exchanged, last, known>>
  BY DEF vars, transferVars, unlockVars, channel
<1>2. Waiting' = Waiting
  BY <1>1 DEF Waiting
<1>3. Quiet' /\ Match' /\ OrdersAgree' /\ Finished' /\ Admitted'
  BY <1>1, <1>2 DEF Safe, Quiet, Match, Met, OrdersAgree, Finished, Admitted
<1>4. TransferLeft'
  BY <1>1, <1>2
     DEF Safe, TransferLeft, PushLeft, FetchLeft, VerifyLeft, SumFirst, SumNext, ReadFirst, ReadNext,
         Alive, Held
<1>5. TransfersExact'
  BY <1>1 DEF Safe, TransfersExact, PushExact, FetchExact, VerifyExact, Returned
<1>6. UnlockLeft' /\ UnlockWhole'
  BY <1>1 DEF Safe, UnlockLeft, UnlockWhole, NamesDone, Names, Returned
<1> QED
  BY <1>3, <1>4, <1>5, <1>6 DEF Safe

LEMMA NextSafe ==
  ASSUME ~ChunkedPushes, TypeInv, Safe, [Next]_vars
  PROVE  Safe'
<1>1. CASE Connect \/ GetCommModeInfo \/ GetStatus \/ ProgramStart \/ Disconnect \/ SetMta
             \/ AnyService
  BY <1>1, OneRequestsSafe
<1> QED
  BY <1>1, StutterSafe, TransferBeginSafe, RequestPacketSafe, BlockRequestSafe, ArrivesSafe,
     UnlockBeginSafe, UnlockSkipSafe, UnlockFirstSeedSafe, UnlockNextSeedSafe, UnlockKeySafe,
     RestartedSafe DEF Next

-----------------------------------------------------------------------------
(* The inductive invariant, for programs that push more than a packet only *)
(* in block mode: without it a refusal of a chunk is noticed too late.     *)
THEOREM SessionSafe ==
  ASSUME ~ChunkedPushes
  PROVE  Spec => []SessionInv
<1>1. Init => SessionInv
  BY InitTyped, InitSafe DEF SessionInv
<1>2. SessionInv /\ [Next]_vars => SessionInv'
  BY NextTyped, NextSafe DEF SessionInv
<1> QED
  BY <1>1, <1>2, PTL DEF Spec

(* Session.TransfersExact: a push that has returned has written what it    *)
(* was given and nothing else, fetch() has read what the slave holds, and  *)
(* verify() has compared the whole range.                                  *)
THEOREM TransfersAreExact ==
  ASSUME ~ChunkedPushes
  PROVE  Spec => []TransfersExact
<1>1. SessionInv => TransfersExact
  BY DEF SessionInv, Safe
<1> QED
  BY <1>1, SessionSafe, PTL

(* Session.UnlockWhole: when cond_unlock() has returned, and went by what  *)
(* this slave had said, every resource it was asked for is unlocked.       *)
THEOREM UnlocksAreWhole ==
  ASSUME ~ChunkedPushes
  PROVE  Spec => []UnlockWhole
<1>1. SessionInv => UnlockWhole
  BY DEF SessionInv, Safe
<1> QED
  BY <1>1, SessionSafe, PTL

(* A layout, once the order of the session is put in, is understood.       *)
LEMMA SpokenUnderstood ==
  ASSUME NEW orders \in SUBSET {"none", "session"}, NEW order, NEW spoken,
         "session" \in orders => order = spoken,
         NEW layout \in Seq([size : Nat, order : orders]), NEW i \in 1 .. Len(Spoken(layout, order))
  PROVE  Spoken(layout, order)[i].order \in {"none", spoken}
<1>1. Len(layout) \in Nat /\ Len(Spoken(layout, order)) = Len(layout)
  BY DEF Spoken
<1>2. i \in 1 .. Len(layout)
  BY <1>1
<1>3. layout[i] \in [size : Nat, order : orders]
  <2> DEFINE F == [size : Nat, order : orders]
  <2>1. layout \in Seq(F)
    OBVIOUS
  <2> HIDE DEF F
  <2>2. layout[i] \in F
    BY <2>1, <1>2
  <2> QED
    BY <2>2 DEF F
<1>4. layout[i].order \in orders
  BY <1>3
<1>5. CASE layout[i].order = "session"
  <2>1. Spoken(layout, order)[i] = [layout[i] EXCEPT !.order = order]
    BY <1>2, <1>5 DEF Spoken
  <2>2. [layout[i] EXCEPT !.order = order].order = order
    BY <1>3
  <2> QED
    BY <2>1, <2>2, <1>4, <1>5
<1>6. CASE layout[i].order # "session"
  <2>1. Spoken(layout, order)[i] = layout[i]
    BY <1>2, <1>6 DEF Spoken
  <2> QED
    BY <2>1, <1>4, <1>6
<1> QED
  BY <1>5, <1>6

LEMMA LayoutsUnderstood ==
  ASSUME NEW orders \in SUBSET {"none", "session"}, NEW order, NEW spoken,
         "session" \in orders => order = spoken,
         NEW layouts, layouts \subseteq Seq([size : Nat, order : orders])
  PROVE  Understood({Spoken(l, order) : l \in layouts}, spoken)
<1> SUFFICES ASSUME NEW l \in layouts, NEW i \in 1 .. Len(Spoken(l, order))
             PROVE  Spoken(l, order)[i].order = "none" \/ Spoken(l, order)[i].order = spoken
  BY DEF Understood
<1>1. l \in Seq([size : Nat, order : orders])
  OBVIOUS
<1>2. Spoken(l, order)[i].order \in {"none", spoken}
  BY <1>1, SpokenUnderstood
<1> QED
  BY <1>2

LEMMA OrdersUnderstood ==
  ASSUME LayoutsFit, OrdersAgree
  PROVE  FieldsUnderstood
<1> DEFINE service == exchanged.service
           row == Service[service]
<1> SUFFICES ASSUME service \in DOMAIN Service \ Divergent
             PROVE  /\ Understood({Spoken(l, exchanged.packed) : l \in row.sent}, exchanged.spoken)
                    /\ Understood({Spoken(l, exchanged.parsed) : l \in row.got}, exchanged.spoken)
                    /\ \A l \in row.sent : Aligned(l, IF service \in DOMAIN Debug THEN 3 ELSE 1)
                    /\ \A l \in row.got : Aligned(l, IF service = "upload" THEN 0 ELSE 1)
  BY DEF FieldsUnderstood
<1>1. exchanged # NoExchange
  BY DEF NoExchange, LayoutsFit
<1>2. /\ exchanged.parsed = exchanged.spoken
      /\ service = "connect" \/ exchanged.packed = exchanged.spoken
  BY <1>1 DEF OrdersAgree
<1>3. /\ row.sent \subseteq
            Seq([size : Nat, order : IF service = "connect" THEN {"none"} ELSE {"none", "session"}])
      /\ row.got \subseteq Seq([size : Nat, order : {"none", "session"}])
      /\ \A l \in row.sent : Aligned(l, IF service \in DOMAIN Debug THEN 3 ELSE 1)
      /\ \A l \in row.got : Aligned(l, IF service = "upload" THEN 0 ELSE 1)
  BY DEF LayoutsFit
<1> HIDE DEF service, row
<1>4. Understood({Spoken(l, exchanged.packed) : l \in row.sent}, exchanged.spoken)
  <2> DEFINE orders == IF service = "connect" THEN {"none"} ELSE {"none", "session"}
  <2>1. orders \in SUBSET {"none", "session"}
    OBVIOUS
  <2>2. "session" \in orders => exchanged.packed = exchanged.spoken
    BY <1>2
  <2>3. row.sent \subseteq Seq([size : Nat, order : orders])
    BY <1>3
  <2> HIDE DEF orders
  <2> QED
    BY <2>1, <2>2, <2>3, LayoutsUnderstood, ZenonT(60)
<1>5. Understood({Spoken(l, exchanged.parsed) : l \in row.got}, exchanged.spoken)
  BY <1>2, <1>3, LayoutsUnderstood
<1> QED
  BY <1>3, <1>4, <1>5

(* Session.FieldsUnderstood: every field is packed and parsed in the byte  *)
(* order of the slave that is connected now, given the table of layouts.   *)
THEOREM FieldsAreUnderstood ==
  ASSUME ~ChunkedPushes, LayoutsFit
  PROVE  Spec => []FieldsUnderstood
<1>1. SessionInv => OrdersAgree
  BY DEF SessionInv, Safe
<1>2. OrdersAgree => FieldsUnderstood
  BY OrdersUnderstood
<1> QED
  BY <1>1, <1>2, SessionSafe, PTL
=============================================================================
