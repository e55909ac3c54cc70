----------------------------- MODULE DaqProofs -----------------------------
(***************************************************************************)
(* Proofs about Daq, for every configuration.                              *)
(***************************************************************************)
EXTENDS Daq, SequenceTheorems, FiniteSetTheorems, TLAPS

(***************************************************************************)
(* Facts about numbers and sequences.  The induction theorems of the       *)
(* library have an operator as a parameter; here they are stated for sets, *)
(* from the order of the finite subsets of a set, which is well founded.   *)
(* With them the function that FlattenSeq chooses is shown to exist, and   *)
(* to be what its recursive definition says.                               *)
(***************************************************************************)

(* A set of numbers that is not empty has a least one.                     *)
LEMMA Least ==
  ASSUME NEW T, T \subseteq Nat, T # {}
  PROVE  \E x \in T : \A y \in T : x <= y
<1> DEFINE U == {0 .. x - 1 : x \in T}
<1>1. U \subseteq FiniteSubsetsOf(Nat) /\ U # {}
  <2>1. \A x \in T : IsFiniteSet(0 .. x - 1) /\ 0 .. x - 1 \subseteq Nat
    BY FS_Interval
  <2>2. QED BY <2>1 DEF FiniteSubsetsOf
<1> HIDE DEF U
<1>2. PICK u \in U : \A v \in U : <<v, u>> \notin StrictSubsetOrdering(Nat)
  BY <1>1, FS_StrictSubsetOrderingWellFounded, WFMin
<1>3. PICK x \in T : u = 0 .. x - 1
  BY DEF U
<1>4. ASSUME NEW y \in T, y < x PROVE FALSE
  <2>1. 0 .. y - 1 \subseteq 0 .. x - 1 /\ 0 .. y - 1 # 0 .. x - 1
    <3>1. y \in 0 .. x - 1 /\ y \notin 0 .. y - 1 BY <1>4
    <3>2. QED BY <3>1
  <2>2. <<0 .. y - 1, u>> \in StrictSubsetOrdering(Nat)
    BY <2>1, <1>3, SMTT(40) DEF StrictSubsetOrdering
  <2>3. QED BY <2>2, <1>2 DEF U
<1>5. QED BY <1>4

(* Induction: a set with 0 and with the successor of each of its members.  *)
LEMMA SetInduction ==
  ASSUME NEW T, NEW n \in Nat, 0 \in T, \A i \in 0 .. n - 1 : i \in T => i + 1 \in T
  PROVE  n \in T
<1> DEFINE B == {i \in 0 .. n : i \notin T}
<1>1. SUFFICES ASSUME B # {} PROVE FALSE
  OBVIOUS
<1>2. B \subseteq Nat OBVIOUS
<1>2a. \A i : i \in B <=> i \in 0 .. n /\ i \notin T OBVIOUS
<1> HIDE DEF B
<1>3. PICK m \in B : \A y \in B : m <= y
  BY <1>1, <1>2, Least
<1>4. m \in 0 .. n /\ m \notin T
  BY <1>3, <1>2a
<1>5. m # 0 /\ m - 1 \in 0 .. n - 1 /\ m - 1 \in 0 .. n /\ (m - 1) + 1 = m /\ ~(m <= m - 1)
  BY <1>4
<1>6. m - 1 \in T
  BY <1>5, <1>3, <1>2a
<1>7. QED BY <1>6, <1>5, <1>4

-----------------------------------------------------------------------------
(* FlattenSeq: f[i] is the first i sequences, one after another.           *)
Flattening(f, seqs, n) ==
  f = [i \in 1 .. n |-> IF i = 1 THEN seqs[i] ELSE f[i - 1] \o seqs[i]]

LEMMA FlatteningExists ==
  ASSUME NEW seqs, NEW n \in Nat
  PROVE  \E f : Flattening(f, seqs, n)
<1> DEFINE T == {m \in Nat : \E f : Flattening(f, seqs, m)}
<1>1. 0 \in T
  <2>1. Flattening([i \in 1 .. 0 |-> seqs[i]], seqs, 0) BY DEF Flattening
  <2>2. QED BY <2>1
<1>2. ASSUME NEW m \in 0 .. n - 1, m \in T PROVE m + 1 \in T
  <2>1. PICK f : Flattening(f, seqs, m) BY <1>2
  <2> DEFINE g == [i \in 1 .. m + 1 |-> IF i <= m THEN f[i]
                                      ELSE IF i = 1 THEN seqs[i] ELSE f[m] \o seqs[i]]
  <2>2. \A i \in 1 .. m + 1 : g[i] = IF i = 1 THEN seqs[i] ELSE g[i - 1] \o seqs[i]
    <3>1. \A i \in 1 .. m : f[i] = IF i = 1 THEN seqs[i] ELSE f[i - 1] \o seqs[i]
      BY <2>1 DEF Flattening
    <3>2. \A i \in 1 .. m : i # 1 => i - 1 \in 1 .. m /\ i - 1 <= m /\ i - 1 \in 1 .. m + 1 OBVIOUS
    <3>3. TAKE i \in 1 .. m + 1
    <3>4. CASE i \in 1 .. m BY <3>1, <3>2, <3>4
    <3>5. CASE i = m + 1 
      <4>1. CASE m = 0 BY <4>1, <3>5
      <4>2. CASE m # 0
         <5>1. m \in 1 .. m + 1 /\ m <= m /\ i - 1 = m /\ i # 1 /\ ~(i <= m) BY <4>2, <3>5
         <5>2. QED BY <5>1
      <4>3. QED BY <4>1, <4>2
    <3>6. QED BY <3>4, <3>5
  <2>3. g = [i \in 1 .. m + 1 |-> IF i = 1 THEN seqs[i] ELSE g[i - 1] \o seqs[i]]
    BY <2>2
  <2> HIDE DEF g
  <2>4. Flattening(g, seqs, m + 1) BY <2>3 DEF Flattening
  <2>5. QED BY <2>4
<1> HIDE DEF T
<1>3. n \in T BY <1>1, <1>2, SetInduction
<1>4. QED BY <1>3 DEF T

Pieces(seqs, n) == [i \in 1 .. n |-> seqs[i]]

LEMMA FlattenedBy ==
  ASSUME NEW seqs, NEW n \in Nat \ {0}
  PROVE  \E f : Flattening(f, seqs, n) /\ FlattenSeq(Pieces(seqs, n)) = f[n]
<1> DEFINE p == Pieces(seqs, n)
           g == CHOOSE f : f = [i \in 1 .. n |-> IF i = 1 THEN p[i] ELSE f[i - 1] \o p[i]]
<1>1. Len(p) = n /\ n # 0
  BY DEF Pieces
<1>2. FlattenSeq(p) = g[n]
  BY <1>1 DEF FlattenSeq
<1>3. Flattening(g, p, n)
  <2>1. \E f : f = [i \in 1 .. n |-> IF i = 1 THEN p[i] ELSE f[i - 1] \o p[i]]
    BY FlatteningExists DEF Flattening
  <2>2. QED BY <2>1 DEF Flattening
<1>4. Flattening(g, seqs, n)
  <2>1. \A i \in 1 .. n : p[i] = seqs[i] BY DEF Pieces
  <2> HIDE DEF p, g
  <2>2. QED BY <2>1, <1>3 DEF Flattening
<1> HIDE DEF p, g
<1>5. QED BY <1>2, <1>4 DEF p

LEMMA FlatteningAgrees ==
  ASSUME NEW seqs, NEW m \in Nat, NEW n \in Nat, m <= n, NEW f, NEW g,
         Flattening(f, seqs, m), Flattening(g, seqs, n), NEW k \in 1 .. m
  PROVE  f[k] = g[k]
<1> DEFINE T == {i \in Nat : i \in 1 .. m => f[i] = g[i]}
<1>1. 0 \in T OBVIOUS
<1>2. ASSUME NEW i \in 0 .. m - 1, i \in T PROVE i + 1 \in T
  <2>1. i + 1 \in 1 .. m /\ i + 1 \in 1 .. n /\ (i + 1) - 1 = i OBVIOUS
  <2>2. f[i + 1] = IF i + 1 = 1 THEN seqs[i + 1] ELSE f[i] \o seqs[i + 1]
    BY <2>1 DEF Flattening
  <2>3. g[i + 1] = IF i + 1 = 1 THEN seqs[i + 1] ELSE g[i] \o seqs[i + 1]
    BY <2>1 DEF Flattening
  <2>4. i = 0 \/ f[i] = g[i] BY <1>2
  <2>5. f[i + 1] = g[i + 1] BY <2>2, <2>3, <2>4
  <2>6. QED BY <2>5
<1>3. \A i \in 0 .. k - 1 : i \in 0 .. m - 1 OBVIOUS
<1>4. k \in Nat OBVIOUS
<1> HIDE DEF T
<1>5. k \in T BY <1>1, <1>2, <1>3, <1>4, SetInduction
<1>6. QED BY <1>5 DEF T

LEMMA FlattenOneMore ==
  ASSUME NEW seqs, NEW n \in Nat \ {0}
  PROVE  FlattenSeq(Pieces(seqs, n + 1)) = FlattenSeq(Pieces(seqs, n)) \o seqs[n + 1]
<1>1. PICK f : Flattening(f, seqs, n) /\ FlattenSeq(Pieces(seqs, n)) = f[n]
  BY FlattenedBy
<1>2. PICK g : Flattening(g, seqs, n + 1) /\ FlattenSeq(Pieces(seqs, n + 1)) = g[n + 1]
  <2>1. n + 1 \in Nat \ {0} OBVIOUS
  <2>2. QED BY <2>1, FlattenedBy
<1>3. g[n + 1] = g[n] \o seqs[n + 1]
  <2>1. n + 1 \in 1 .. n + 1 /\ n + 1 # 1 /\ (n + 1) - 1 = n OBVIOUS
  <2>2. QED BY <2>1, <1>2 DEF Flattening
<1>4. f[n] = g[n]
  <2>1. n \in 1 .. n /\ n <= n + 1 /\ n \in Nat /\ n + 1 \in Nat OBVIOUS
  <2>2. QED BY <2>1, <1>1, <1>2, FlatteningAgrees
<1>5. QED BY <1>1, <1>2, <1>3, <1>4

LEMMA FlattenOne ==
  ASSUME NEW seqs
  PROVE  FlattenSeq(Pieces(seqs, 1)) = seqs[1]
<1>1. PICK f : Flattening(f, seqs, 1) /\ FlattenSeq(Pieces(seqs, 1)) = f[1]
  BY FlattenedBy
<1>2. QED BY <1>1 DEF Flattening

LEMMA FlattenNone ==
  ASSUME NEW seqs
  PROVE  FlattenSeq(Pieces(seqs, 0)) = <<>>
<1>1. Pieces(seqs, 0) = <<>> BY DEF Pieces
<1>2. QED BY <1>1 DEF FlattenSeq

(* What is put together from sequences over a set is one.                  *)
LEMMA FlattenTyped ==
  ASSUME NEW seqs, NEW n \in Nat, NEW Items, \A i \in 1 .. n : seqs[i] \in Seq(Items)
  PROVE  FlattenSeq(Pieces(seqs, n)) \in Seq(Items)
<1> DEFINE T == {m \in Nat : m <= n => FlattenSeq(Pieces(seqs, m)) \in Seq(Items)}
<1>1. 0 \in T
  <2>1. <<>> \in Seq(Items) BY EmptySeq
  <2>2. FlattenSeq(Pieces(seqs, 0)) \in Seq(Items) BY <2>1, FlattenNone
  <2>3. QED BY <2>2
<1>2. ASSUME NEW m \in 0 .. n - 1, m \in T PROVE m + 1 \in T
  <2>1. m + 1 <= n /\ m <= n /\ m + 1 \in 1 .. n /\ m \in Nat OBVIOUS
  <2>2. FlattenSeq(Pieces(seqs, m)) \in Seq(Items) BY <2>1, <1>2
  <2>3. seqs[m + 1] \in Seq(Items) BY <2>1
  <2>4. CASE m = 0
    <3>1. FlattenSeq(Pieces(seqs, m + 1)) = seqs[m + 1] BY <2>4, FlattenOne
    <3>2. QED BY <2>3, <3>1
  <2>5. CASE m # 0
    <3>1. FlattenSeq(Pieces(seqs, m + 1)) = FlattenSeq(Pieces(seqs, m)) \o seqs[m + 1]
      BY <2>1, <2>5, FlattenOneMore
    <3>2. FlattenSeq(Pieces(seqs, m)) \o seqs[m + 1] \in Seq(Items)
      BY <2>2, <2>3, ConcatProperties
    <3>3. FlattenSeq(Pieces(seqs, m + 1)) \in Seq(Items) BY ONLY <3>1, <3>2
    <3>4. QED BY <3>3, <2>1
  <2>6. QED BY <2>4, <2>5
<1> HIDE DEF T
<1>3. n \in T BY <1>1, <1>2, SetInduction
<1>4. QED BY <1>3 DEF T

(* Where the members of each sequence are in what is put together.         *)
LEMMA FlattenNext ==
  ASSUME NEW seqs, NEW n \in Nat, NEW Items, \A i \in 1 .. n : seqs[i] \in Seq(Items),
         NEW m \in 0 .. n - 1
  PROVE  /\ FlattenSeq(Pieces(seqs, m + 1)) = FlattenSeq(Pieces(seqs, m)) \o seqs[m + 1]
         /\ Len(FlattenSeq(Pieces(seqs, m + 1)))
              = Len(FlattenSeq(Pieces(seqs, m))) + Len(seqs[m + 1])
<1>1. m \in Nat /\ m + 1 \in 1 .. n /\ \A i \in 1 .. m : i \in 1 .. n
  OBVIOUS
<1>2. seqs[m + 1] \in Seq(Items)
  BY <1>1
<1>3. FlattenSeq(Pieces(seqs, m)) \in Seq(Items)
  BY <1>1, FlattenTyped
<1>4. FlattenSeq(Pieces(seqs, m + 1)) = FlattenSeq(Pieces(seqs, m)) \o seqs[m + 1]
  <2>1. CASE m = 0
    <3>1. FlattenSeq(Pieces(seqs, m + 1)) = seqs[m + 1] /\ FlattenSeq(Pieces(seqs, m)) = <<>>
      BY <2>1, FlattenOne, FlattenNone
    <3> QED BY <3>1, <1>2, ConcatEmptySeq
  <2>2. CASE m # 0
    BY <2>2, <1>1, FlattenOneMore
  <2> QED BY <2>1, <2>2
<1>5. Len(FlattenSeq(Pieces(seqs, m)) \o seqs[m + 1])
        = Len(FlattenSeq(Pieces(seqs, m))) + Len(seqs[m + 1])
  BY <1>2, <1>3, ConcatProperties
<1> QED BY <1>4, <1>5

LEMMA FlattenPlace ==
  ASSUME NEW seqs, NEW n \in Nat, NEW Items, \A i \in 1 .. n : seqs[i] \in Seq(Items),
         NEW i \in 1 .. n, NEW k \in 1 .. Len(seqs[i])
  PROVE  /\ Len(FlattenSeq(Pieces(seqs, i - 1))) + k \in 1 .. Len(FlattenSeq(Pieces(seqs, n)))
         /\ FlattenSeq(Pieces(seqs, n))[Len(FlattenSeq(Pieces(seqs, i - 1))) + k] = seqs[i][k]
<1> DEFINE F(m) == FlattenSeq(Pieces(seqs, m))
           x == Len(F(i - 1)) + k
           T == {m \in Nat : i + m <= n => x \in 1 .. Len(F(i + m)) /\ F(i + m)[x] = seqs[i][k]}
<1>1. \A m \in 0 .. n : F(m) \in Seq(Items) /\ Len(F(m)) \in Nat
  <2>1. ASSUME NEW m \in 0 .. n PROVE F(m) \in Seq(Items) /\ Len(F(m)) \in Nat
    <3>1. m \in Nat /\ \A j \in 1 .. m : j \in 1 .. n
      OBVIOUS
    <3>2. F(m) \in Seq(Items)
      BY <3>1, FlattenTyped
    <3> QED BY <3>2, LenProperties
  <2> QED BY <2>1
<1>2. \A m \in 0 .. n - 1 : F(m + 1) = F(m) \o seqs[m + 1]
  BY FlattenNext
<1> HIDE DEF F
<1>3. \A s, t \in Seq(Items) :
        /\ Len(s \o t) = Len(s) + Len(t)
        /\ \A j \in 1 .. Len(s) + Len(t) : (s \o t)[j] = IF j <= Len(s) THEN s[j] ELSE t[j - Len(s)]
  BY ConcatProperties
<1>4. 0 \in T
  <2>1. i - 1 \in 0 .. n - 1 /\ (i - 1) + 1 = i /\ i + 0 = i
    OBVIOUS
  <2>2. F(i) = F(i - 1) \o seqs[i]
    BY <2>1, <1>2
  <2>3. F(i - 1) \in Seq(Items) /\ Len(F(i - 1)) \in Nat /\ seqs[i] \in Seq(Items)
        /\ Len(seqs[i]) \in Nat
    BY <2>1, <1>1, LenProperties
  <2>4. Len(F(i)) = Len(F(i - 1)) + Len(seqs[i]) /\ x \in 1 .. Len(F(i)) /\ x - Len(F(i - 1)) = k
        /\ ~(x <= Len(F(i - 1)))
    BY <2>2, <2>3, <1>3
  <2>5. F(i)[x] = seqs[i][k]
    BY <2>2, <2>3, <2>4, <1>3
  <2> QED BY <2>1, <2>4, <2>5
<1>5. ASSUME NEW m \in 0 .. (n - i) - 1, m \in T PROVE m + 1 \in T
  <2>1. i + m \in 0 .. n - 1 /\ i + m <= n /\ i + (m + 1) = (i + m) + 1 /\ (i + m) + 1 \in 1 .. n
        /\ i + m \in 0 .. n /\ m + 1 \in Nat /\ m \in Nat
    OBVIOUS
  <2>2. F((i + m) + 1) = F(i + m) \o seqs[(i + m) + 1]
    BY <2>1, <1>2
  <2>3. F(i + m) \in Seq(Items) /\ Len(F(i + m)) \in Nat /\ seqs[(i + m) + 1] \in Seq(Items)
        /\ Len(seqs[(i + m) + 1]) \in Nat
    BY <2>1, <1>1, LenProperties
  <2>4. x \in 1 .. Len(F(i + m)) /\ F(i + m)[x] = seqs[i][k]
    BY <1>5, <2>1
  <2> DEFINE u == F(i + m)
             v == seqs[(i + m) + 1]
             w == F((i + m) + 1)
  <2>5. x \in 1 .. Len(w) /\ w[x] = u[x]
    <3>1. w = u \o v /\ u \in Seq(Items) /\ v \in Seq(Items) /\ Len(u) \in Nat /\ Len(v) \in Nat
          /\ x \in 1 .. Len(u)
      BY <2>2, <2>3, <2>4
    <3> HIDE DEF u, v, w, x
    <3>2. Len(w) = Len(u) + Len(v) /\ x \in 1 .. Len(u) + Len(v) /\ x <= Len(u)
      BY <3>1, <1>3
    <3>3. w[x] = u[x]
      BY <3>1, <3>2, <1>3
    <3> QED BY <3>2, <3>3
  <2>6. x \in 1 .. Len(F(i + (m + 1))) /\ F(i + (m + 1))[x] = seqs[i][k]
    <3>1. F(i + (m + 1)) = w
      BY <2>1
    <3> HIDE DEF u, w
    <3> QED BY <3>1, <2>4, <2>5 DEF u
  <2> QED BY <2>1, <2>6
<1>6. n - i \in Nat /\ i + (n - i) = n
  OBVIOUS
<1>7. n - i \in T
  <2> HIDE DEF T
  <2> QED BY <1>4, <1>5, <1>6, SetInduction
<1>8. x \in 1 .. Len(F(n)) /\ F(n)[x] = seqs[i][k]
  BY <1>6, <1>7
<1> QED BY <1>8 DEF F

ComesFrom(seqs, n, x) ==
  \E i \in 1 .. n : \E k \in 1 .. Len(seqs[i]) :
    /\ x = Len(FlattenSeq(Pieces(seqs, i - 1))) + k
    /\ FlattenSeq(Pieces(seqs, n))[x] = seqs[i][k]

LEMMA FlattenSplit ==
  ASSUME NEW seqs, NEW n \in Nat, NEW Items, \A i \in 1 .. n : seqs[i] \in Seq(Items),
         NEW x \in 1 .. Len(FlattenSeq(Pieces(seqs, n)))
  PROVE  ComesFrom(seqs, n, x)
<1> DEFINE F(m) == FlattenSeq(Pieces(seqs, m))
           T == {m \in Nat : m <= n => \A y \in 1 .. Len(F(m)) :
                               \E i \in 1 .. n : \E k \in 1 .. Len(seqs[i]) : y = Len(F(i - 1)) + k}
<1>1. \A m \in 0 .. n : Len(F(m)) \in Nat
  <2>1. ASSUME NEW m \in 0 .. n PROVE Len(F(m)) \in Nat
    <3>1. m \in Nat /\ \A j \in 1 .. m : j \in 1 .. n
      OBVIOUS
    <3>2. F(m) \in Seq(Items)
      BY <3>1, FlattenTyped
    <3> QED BY <3>2, LenProperties
  <2> QED BY <2>1
<1>2. \A m \in 0 .. n - 1 : Len(F(m + 1)) = Len(F(m)) + Len(seqs[m + 1])
  BY FlattenNext
<1>3. Len(F(0)) = 0
  BY FlattenNone
<1> HIDE DEF F
<1>4. 0 \in T
  BY <1>3
<1>5. ASSUME NEW m \in 0 .. n - 1, m \in T PROVE m + 1 \in T
  <2>1. m + 1 \in Nat /\ m \in Nat /\ m + 1 \in 1 .. n /\ m \in 0 .. n /\ (m + 1) - 1 = m
    OBVIOUS
  <2>2. SUFFICES ASSUME NEW y \in 1 .. Len(F(m + 1))
                 PROVE  \E i \in 1 .. n : \E k \in 1 .. Len(seqs[i]) : y = Len(F(i - 1)) + k
    BY <2>1
  <2>3. Len(F(m)) \in Nat /\ Len(seqs[m + 1]) \in Nat
        /\ Len(F(m + 1)) = Len(F(m)) + Len(seqs[m + 1])
    BY <2>1, <1>1, <1>2, LenProperties
  <2>4. CASE y <= Len(F(m))
    <3>1. y \in 1 .. Len(F(m)) /\ m <= n
      BY <2>3, <2>4
    <3> QED BY <3>1, <1>5
  <2>5. CASE y > Len(F(m))
    <3>1. y - Len(F(m)) \in 1 .. Len(seqs[m + 1]) /\ y = Len(F(m)) + (y - Len(F(m)))
      BY <2>3, <2>5
    <3>2. y = Len(F((m + 1) - 1)) + (y - Len(F(m)))
      BY <3>1, <2>1
    <3> QED BY <3>1, <3>2, <2>1
  <2> QED BY <2>3, <2>4, <2>5
<1>6. n \in T
  <2> HIDE DEF T
  <2> QED BY <1>4, <1>5, SetInduction
<1>7. PICK i \in 1 .. n : \E k \in 1 .. Len(seqs[i]) : x = Len(F(i - 1)) + k
  <2> DEFINE Found(m) == \A y \in 1 .. Len(F(m)) :
                           \E i \in 1 .. n : \E k \in 1 .. Len(seqs[i]) : y = Len(F(i - 1)) + k
  <2>0. n <= n /\ n \in {m \in Nat : m <= n => Found(m)}
    BY <1>6
  <2>1. Found(n)
    <3> HIDE DEF Found
    <3> QED BY <2>0
  <2>2. x \in 1 .. Len(F(n))
    BY DEF F
  <2> QED BY <2>1, <2>2
<1>8. PICK k \in 1 .. Len(seqs[i]) : x = Len(F(i - 1)) + k
  BY <1>7
<1>9. F(n)[x] = seqs[i][k]
  BY <1>8, FlattenPlace DEF F
<1> QED BY <1>8, <1>9 DEF F, ComesFrom

LEMMA FlattenGrows ==
  ASSUME NEW seqs, NEW n \in Nat, NEW Items, \A i \in 1 .. n : seqs[i] \in Seq(Items),
         NEW m \in 0 .. n
  PROVE  /\ Len(FlattenSeq(Pieces(seqs, m))) \in Nat
         /\ Len(FlattenSeq(Pieces(seqs, n))) \in Nat
         /\ Len(FlattenSeq(Pieces(seqs, m))) <= Len(FlattenSeq(Pieces(seqs, n)))
<1> DEFINE F(j) == FlattenSeq(Pieces(seqs, j))
           T == {j \in Nat : m + j <= n => Len(F(m)) <= Len(F(m + j))}
<1>1. \A j \in 0 .. n : Len(F(j)) \in Nat
  <2>1. ASSUME NEW j \in 0 .. n PROVE Len(F(j)) \in Nat
    <3>1. j \in Nat /\ \A l \in 1 .. j : l \in 1 .. n
      OBVIOUS
    <3>2. F(j) \in Seq(Items)
      BY <3>1, FlattenTyped
    <3> QED BY <3>2, LenProperties
  <2> QED BY <2>1
<1>2. \A j \in 0 .. n - 1 : Len(F(j + 1)) = Len(F(j)) + Len(seqs[j + 1])
  BY FlattenNext
<1> HIDE DEF F
<1>3. 0 \in T
  <2>1. m + 0 = m /\ Len(F(m)) \in Nat
    BY <1>1
  <2> QED BY <2>1
<1>4. ASSUME NEW j \in 0 .. (n - m) - 1, j \in T PROVE j + 1 \in T
  <2>1. m + j \in 0 .. n - 1 /\ m + j \in 0 .. n /\ m + j <= n /\ m + (j + 1) = (m + j) + 1
        /\ (m + j) + 1 \in 1 .. n /\ j + 1 \in Nat
    OBVIOUS
  <2>2. Len(F((m + j) + 1)) = Len(F(m + j)) + Len(seqs[(m + j) + 1])
    BY <2>1, <1>2
  <2>3. Len(F(m + j)) \in Nat /\ Len(seqs[(m + j) + 1]) \in Nat /\ Len(F(m)) \in Nat
    BY <2>1, <1>1, LenProperties
  <2>4. Len(F(m)) <= Len(F(m + j))
    BY <1>4, <2>1
  <2>5. Len(F(m)) <= Len(F(m + (j + 1)))
    <3>1. F(m + (j + 1)) = F((m + j) + 1)
      BY <2>1
    <3> DEFINE a == Len(F(m))
               b == Len(F(m + j))
               c == Len(seqs[(m + j) + 1])
               u == Len(F((m + j) + 1))
    <3>2. a \in Nat /\ b \in Nat /\ c \in Nat /\ u = b + c /\ a <= b
      BY <2>2, <2>3, <2>4
    <3>3. a <= u
      <4> HIDE DEF a, b, c, u
      <4> QED BY <3>2
    <3> QED BY <3>1, <3>3
  <2> QED BY <2>1, <2>5
<1>5. n - m \in Nat /\ m + (n - m) = n
  OBVIOUS
<1>6. n - m \in T
  <2> HIDE DEF T
  <2> QED BY <1>3, <1>4, <1>5, SetInduction
<1>7. Len(F(m)) \in Nat /\ Len(F(n)) \in Nat /\ Len(F(m)) <= Len(F(n))
  BY <1>1, <1>5, <1>6
<1> QED BY <1>7 DEF F

-----------------------------------------------------------------------------
(* What is left of a sequence without its first n members.                 *)
LEMMA Remainder ==
  ASSUME NEW Items, NEW s \in Seq(Items), NEW n \in Nat
  PROVE  /\ SubSeq(s, n + 1, Len(s)) \in Seq(Items)
         /\ Len(SubSeq(s, n + 1, Len(s))) = IF n <= Len(s) THEN Len(s) - n ELSE 0
         /\ \A i \in 1 .. Len(SubSeq(s, n + 1, Len(s))) : SubSeq(s, n + 1, Len(s))[i] = s[n + i]
<1>1. Len(s) \in Nat /\ \A i \in n + 1 .. Len(s) : s[i] \in Items
  BY LenProperties, ElementOfSeq
<1>2. /\ SubSeq(s, n + 1, Len(s)) \in Seq(Items)
      /\ Len(SubSeq(s, n + 1, Len(s))) = IF n + 1 <= Len(s) THEN Len(s) - (n + 1) + 1 ELSE 0
      /\ \A i \in 1 .. Len(s) - (n + 1) + 1 : SubSeq(s, n + 1, Len(s))[i] = s[(n + 1) + i - 1]
  BY <1>1, SubSeqProperties
<1>3. \A i \in Int : (n + 1) + i - 1 = n + i OBVIOUS
<1>4. QED BY <1>1, <1>2, <1>3

(* Taking one more.                                                        *)
LEMMA TailOfRemainder ==
  ASSUME NEW Items, NEW s \in Seq(Items), NEW n \in 0 .. Len(s), SubSeq(s, n + 1, Len(s)) # <<>>
  PROVE  /\ n + 1 <= Len(s) /\ Head(SubSeq(s, n + 1, Len(s))) = s[n + 1]
         /\ Tail(SubSeq(s, n + 1, Len(s))) = SubSeq(s, (n + 1) + 1, Len(s))
<1> DEFINE u == SubSeq(s, n + 1, Len(s))
           v == SubSeq(s, (n + 1) + 1, Len(s))
<1>1. n \in Nat /\ n <= Len(s) /\ n + 1 \in Nat /\ Len(s) \in Nat
  OBVIOUS
<1>2. /\ u \in Seq(Items) /\ Len(u) = Len(s) - n
      /\ \A i \in 1 .. Len(u) : u[i] = s[n + i]
  BY <1>1, Remainder
<1>3. u # <<>>
  OBVIOUS
<1> HIDE DEF u
<1>4. Len(u) >= 1 /\ n + 1 <= Len(s) /\ Head(u) = s[n + 1]
  BY <1>1, <1>2, <1>3
<1>5. /\ v \in Seq(Items) /\ Len(v) = Len(s) - (n + 1)
      /\ \A i \in 1 .. Len(v) : v[i] = s[(n + 1) + i]
  <2>1. /\ v \in Seq(Items) /\ Len(v) = IF n + 1 <= Len(s) THEN Len(s) - (n + 1) ELSE 0
        /\ \A i \in 1 .. Len(v) : v[i] = s[(n + 1) + i]
    BY <1>1, Remainder
  <2> HIDE DEF v
  <2> QED
    BY <1>4, <2>1
<1> HIDE DEF v
<1>6. /\ Tail(u) \in Seq(Items) /\ Len(Tail(u)) = Len(u) - 1
      /\ \A i \in 1 .. Len(u) - 1 : Tail(u)[i] = u[i + 1]
  BY <1>2, <1>3, HeadTailProperties
<1>7. Len(Tail(u)) = Len(v) /\ \A i \in 1 .. Len(v) : Tail(u)[i] = v[i]
  BY <1>1, <1>2, <1>4, <1>5, <1>6
<1>8. Tail(u) = v
  BY <1>5, <1>6, <1>7, SeqEqual
<1> QED
  BY <1>4, <1>8 DEF u, v

LEMMA Associative ==
  ASSUME NEW Items, NEW s \in Seq(Items), NEW t \in Seq(Items), NEW u \in Seq(Items)
  PROVE  (s \o t) \o u = s \o (t \o u)
  BY ConcatAssociative

LEMMA Single ==
  ASSUME NEW Items, NEW x \in Items
  PROVE  <<x>> \in Seq(Items) /\ Len(<<x>>) = 1 /\ <<x>>[1] = x
  OBVIOUS

LEMMA FirstOnes ==
  ASSUME NEW Items, NEW s \in Seq(Items), NEW n \in Nat, n <= Len(s)
  PROVE  /\ SubSeq(s, 1, n) \in Seq(Items) /\ Len(SubSeq(s, 1, n)) = n
         /\ \A i \in 1 .. n : SubSeq(s, 1, n)[i] = s[i]
<1>1. \A i \in 1 .. n : s[i] \in Items
  BY LenProperties, ElementOfSeq
<1>2. /\ SubSeq(s, 1, n) \in Seq(Items)
      /\ Len(SubSeq(s, 1, n)) = IF 1 <= n THEN n - 1 + 1 ELSE 0
      /\ \A i \in 1 .. n - 1 + 1 : SubSeq(s, 1, n)[i] = s[1 + i - 1]
  BY <1>1, SubSeqProperties
<1>3. n - 1 + 1 = n /\ \A i \in Int : 1 + i - 1 = i OBVIOUS
<1>4. QED BY <1>2, <1>3

-----------------------------------------------------------------------------
(* A function by recursion on a number, with values in a set X: its steps  *)
(* are given by a function of the number and the value before.             *)
Iterates(f, X, start, G, m) ==
  /\ f \in [0 .. m -> X] /\ f[0] = start
  /\ \A k \in 1 .. m : f[k] = G[<<k, f[k - 1]>>]

LEMMA IterationExists ==
  ASSUME NEW X, NEW start \in X, NEW n \in Nat, NEW G,
         \A k \in 1 .. n, x \in X : G[<<k, x>>] \in X
  PROVE  \E f : Iterates(f, X, start, G, n)
<1> DEFINE T == {m \in Nat : m <= n => \E f : Iterates(f, X, start, G, m)}
<1>1. 0 \in T
  <2>1. Iterates([k \in 0 .. 0 |-> start], X, start, G, 0)
    BY DEF Iterates
  <2> QED BY <2>1
<1>2. ASSUME NEW m \in 0 .. n - 1, m \in T PROVE m + 1 \in T
  <2>1. PICK f : Iterates(f, X, start, G, m)
    BY <1>2
  <2> DEFINE g == [k \in 0 .. m + 1 |-> IF k = m + 1 THEN G[<<m + 1, f[m]>>] ELSE f[k]]
  <2>2. f[m] \in X /\ m + 1 \in 1 .. n
    BY <2>1 DEF Iterates
  <2>3. G[<<m + 1, f[m]>>] \in X
    BY <2>2
  <2>4. g \in [0 .. m + 1 -> X] /\ g[0] = start
    <3>1. \A k \in 0 .. m : f[k] \in X
      BY <2>1 DEF Iterates
    <3>2. \A k \in 0 .. m + 1 : k = m + 1 \/ k \in 0 .. m
      OBVIOUS
    <3>3. \A k \in 0 .. m + 1 : g[k] \in X
      BY <3>1, <3>2, <2>3
    <3>4. g[0] = start
      BY <2>1 DEF Iterates
    <3>5. g \in [0 .. m + 1 -> X]
      BY <3>3
    <3> QED BY <3>4, <3>5
  <2>5. ASSUME NEW k \in 1 .. m + 1 PROVE g[k] = G[<<k, g[k - 1]>>]
    <3>1. k - 1 \in 0 .. m /\ g[k - 1] = f[k - 1]
      OBVIOUS
    <3>2. CASE k = m + 1
      <4>1. k - 1 = m /\ g[k] = G[<<m + 1, f[m]>>]
        BY <3>2
      <4> QED BY <3>1, <3>2, <4>1
    <3>3. CASE k # m + 1
      BY <3>1, <3>3, <2>1 DEF Iterates
    <3> QED BY <3>2, <3>3
  <2>6. Iterates(g, X, start, G, m + 1)
    <3> HIDE DEF g
    <3> QED BY <2>4, <2>5 DEF Iterates
  <2> QED BY <2>6
<1>3. n \in T
  <2> HIDE DEF T
  <2> QED BY <1>1, <1>2, SetInduction
<1> QED BY <1>3

-----------------------------------------------------------------------------
(* An order R of the members of S: two different ones are in one order.    *)
Orders(R, S) ==
  /\ \A a, b \in S : a # b => <<a, b>> \in R \/ <<b, a>> \in R
  /\ \A a, b, c \in S : <<a, b>> \in R /\ <<b, c>> \in R => <<a, c>> \in R

LEMMA Greatest ==
  ASSUME NEW S, IsFiniteSet(S), S # {}, NEW R, Orders(R, S)
  PROVE  \E m \in S : \A x \in S \ {m} : <<x, m>> \in R
<1> DEFINE T == {n \in Nat : \A U \in SUBSET S : IsFiniteSet(U) /\ Cardinality(U) = n + 1 =>
                                \E m \in U : \A x \in U \ {m} : <<x, m>> \in R}
<1>1. 0 \in T
  <2>1. SUFFICES ASSUME NEW U \in SUBSET S, IsFiniteSet(U), Cardinality(U) = 1
                 PROVE  \E m \in U : \A x \in U \ {m} : <<x, m>> \in R
    OBVIOUS
  <2>2. PICK m : U = {m}
    BY <2>1, FS_Singleton
  <2> QED BY <2>2
<1>2. ASSUME NEW n \in Nat, n \in T PROVE n + 1 \in T
  <2>1. SUFFICES ASSUME NEW U \in SUBSET S, IsFiniteSet(U), Cardinality(U) = (n + 1) + 1
                 PROVE  \E m \in U : \A x \in U \ {m} : <<x, m>> \in R
    OBVIOUS
  <2>2. PICK y : y \in U
    BY <2>1, FS_EmptySet
  <2>3. IsFiniteSet(U \ {y}) /\ Cardinality(U \ {y}) = n + 1
    BY <2>1, <2>2, FS_RemoveElement
  <2>4. PICK m \in U \ {y} : \A x \in (U \ {y}) \ {m} : <<x, m>> \in R
    BY <2>3, <1>2
  <2>5. CASE <<y, m>> \in R
    <3>1. \A x \in U \ {m} : <<x, m>> \in R
      BY <2>4, <2>5
    <3> QED BY <3>1
  <2>6. CASE <<m, y>> \in R
    <3>1. \A x \in U \ {y} : <<x, y>> \in R
      BY <2>2, <2>4, <2>6 DEF Orders
    <3> QED BY <3>1, <2>2
  <2> QED BY <2>2, <2>4, <2>5, <2>6 DEF Orders
<1>3. Cardinality(S) \in Nat /\ Cardinality(S) # 0
  BY FS_CardinalityType, FS_EmptySet
<1>4. \A i \in 0 .. (Cardinality(S) - 1) - 1 : i \in T => i + 1 \in T
  <2> HIDE DEF T
  <2> QED BY <1>2
<1>5. Cardinality(S) - 1 \in T
  <2> HIDE DEF T
  <2> QED BY <1>1, <1>4, <1>3, SetInduction
<1> QED BY <1>5, <1>3

LEMMA OrderExists ==
  ASSUME NEW S, IsFiniteSet(S), NEW R, Orders(R, S)
  PROVE  \E s \in SetToSeqs(S) : \A i, j \in DOMAIN s : i < j => <<s[i], s[j]>> \in R
<1> DEFINE Sorts(s, U, n) == /\ s \in [1 .. n -> U]
                             /\ \A i, j \in 1 .. n : i # j => s[i] # s[j]
                             /\ \A i, j \in 1 .. n : i < j => <<s[i], s[j]>> \in R
           T == {n \in Nat : \A U \in SUBSET S : IsFiniteSet(U) /\ Cardinality(U) = n =>
                               \E s : Sorts(s, U, n)}
<1>1. 0 \in T
  <2>1. SUFFICES ASSUME NEW U \in SUBSET S PROVE \E s : Sorts(s, U, 0)
    OBVIOUS
  <2>2. Sorts([i \in 1 .. 0 |-> 0], U, 0)
    OBVIOUS
  <2> QED BY <2>2
<1>2. ASSUME NEW n \in Nat, n \in T PROVE n + 1 \in T
  <2>1. SUFFICES ASSUME NEW U \in SUBSET S, IsFiniteSet(U), Cardinality(U) = n + 1
                 PROVE  \E s : Sorts(s, U, n + 1)
    OBVIOUS
  <2>2. U # {} /\ Orders(R, U)
    BY <2>1, FS_EmptySet DEF Orders
  <2>3. PICK m \in U : \A x \in U \ {m} : <<x, m>> \in R
    BY <2>1, <2>2, Greatest
  <2>4. IsFiniteSet(U \ {m}) /\ Cardinality(U \ {m}) = n
    <3>1. IsFiniteSet(U \ {m}) /\ Cardinality(U \ {m}) = Cardinality(U) - 1
      BY <2>1, FS_RemoveElement
    <3>2. Cardinality(U) - 1 = n
      BY <2>1
    <3> QED BY <3>1, <3>2
  <2>5. PICK s : Sorts(s, U \ {m}, n)
    <3>1. U \ {m} \in SUBSET S
      BY <2>1
    <3>2. \A V \in SUBSET S : IsFiniteSet(V) /\ Cardinality(V) = n => \E s : Sorts(s, V, n)
      <4> HIDE DEF Sorts
      <4> QED BY <1>2
    <3> HIDE DEF Sorts
    <3> QED BY <2>4, <3>1, <3>2
  <2> DEFINE t == [i \in 1 .. n + 1 |-> IF i = n + 1 THEN m ELSE s[i]]
  <2>6. Sorts(t, U, n + 1)
    <3>1. \A i \in 1 .. n : s[i] \in U \ {m}
      BY <2>5
    <3>2. t \in [1 .. n + 1 -> U]
      <4>1. \A i \in 1 .. n + 1 : i = n + 1 \/ i \in 1 .. n
        BY <1>2
      <4>2. \A i \in 1 .. n + 1 : t[i] \in U
        BY <3>1, <4>1
      <4> QED BY <4>2
    <3>3. \A i, j \in 1 .. n + 1 : i < j => t[i] # t[j] /\ <<t[i], t[j]>> \in R
      BY <3>1, <2>3, <2>5
    <3>4. \A i, j \in 1 .. n + 1 : i # j => i < j \/ j < i
      OBVIOUS
    <3> QED BY <3>2, <3>3, <3>4
  <2> QED BY <2>6
<1>3. Cardinality(S) \in Nat
  BY FS_CardinalityType
<1>4. \A i \in 0 .. Cardinality(S) - 1 : i \in T => i + 1 \in T
  <2> HIDE DEF T
  <2> QED BY <1>2
<1>5. Cardinality(S) \in T
  <2> HIDE DEF T
  <2> QED BY <1>1, <1>4, <1>3, SetInduction
<1>6. PICK s : Sorts(s, S, Cardinality(S))
  BY <1>5
<1>7. s \in SetToSeqs(S)
  BY <1>6 DEF SetToSeqs
<1>8. DOMAIN s = 1 .. Cardinality(S)
  BY <1>6
<1> QED BY <1>6, <1>7, <1>8

(***************************************************************************)
(* How the measurements are packed                                         *)
(***************************************************************************)
Sectioned ==
  [name : {""}, ext : Nat, address : Nat, length : Nat \ {0},
   components : {s \in Seq(Objects) : s # <<>>}]
Entries == Objects \cup Sectioned
Bins == [size : Int, residual : Int, entries : Seq(Entries)]

(* What Ordered() chooses has every member of the set once, in the order.  *)
LEMMA SectionsAre ==
  ASSUME NEW chunks \in Seq(Objects)
  PROVE  /\ IsFiniteSet({chunks[i] : i \in Kept(chunks)})
         /\ {chunks[i] : i \in Kept(chunks)} \subseteq Objects
         /\ Sections(chunks) \in SetToSeqs({chunks[i] : i \in Kept(chunks)})
<1> DEFINE S == {chunks[i] : i \in Kept(chunks)}
           R == {p \in S \X S : Before(p[1], p[2])}
<1>1. Len(chunks) \in Nat /\ DOMAIN chunks = 1 .. Len(chunks)
      /\ \A i \in DOMAIN chunks : chunks[i] \in Objects
  BY LenProperties, ElementOfSeq
<1>2. IsFiniteSet(S) /\ S \subseteq Objects
  <2>1. IsFiniteSet(1 .. Len(chunks)) /\ Kept(chunks) \subseteq 1 .. Len(chunks)
    BY <1>1, FS_Interval DEF Kept
  <2>2. IsFiniteSet(Kept(chunks))
    BY <2>1, FS_Subset
  <2>3. IsFiniteSet(S)
    <3> DEFINE f == [i \in Kept(chunks) |-> chunks[i]]
    <3>1. f \in Surjection(Kept(chunks), S)
      BY DEF Surjection
    <3> HIDE DEF f, S
    <3> QED BY <2>2, <3>1, FS_Surjection
  <2> QED BY <2>1, <2>3, <1>1
<1>3. Orders(R, S)
  <2>1. ASSUME NEW a \in S, NEW b \in S, a # b PROVE <<a, b>> \in R \/ <<b, a>> \in R
    <3>1. PICK i \in Kept(chunks) : a = chunks[i]
      OBVIOUS
    <3>2. PICK j \in Kept(chunks) : b = chunks[j]
      OBVIOUS
    <3>3. i \in Nat /\ j \in Nat /\ i # j /\ i \in DOMAIN chunks /\ j \in DOMAIN chunks
      BY <3>1, <3>2, <2>1, <1>1 DEF Kept
    <3>4. a.ext \in Nat /\ b.ext \in Nat /\ a.address \in Nat /\ b.address \in Nat
          /\ a.length \in Nat /\ b.length \in Nat
      BY <1>2 DEF Objects
    <3>5. ASSUME a.ext = b.ext, a.address = b.address PROVE FALSE
      <4>1. b.length < a.length \/ (b.length = a.length /\ i < j)
        BY <3>1, <3>2, <3>3, <3>5 DEF Kept
      <4>2. a.length < b.length \/ (a.length = b.length /\ j < i)
        BY <3>1, <3>2, <3>3, <3>5 DEF Kept
      <4> QED BY <3>3, <3>4, <4>1, <4>2
    <3>6. Before(a, b) \/ Before(b, a)
      BY <3>4, <3>5 DEF Before
    <3> QED BY <3>6
  <2>2. ASSUME NEW a \in S, NEW b \in S, NEW c \in S, <<a, b>> \in R, <<b, c>> \in R
        PROVE  <<a, c>> \in R
    <3>1. Before(a, b) /\ Before(b, c)
      BY <2>2
    <3>2. a.ext \in Nat /\ b.ext \in Nat /\ a.address \in Nat /\ b.address \in Nat
          /\ c.ext \in Nat /\ c.address \in Nat
      BY <1>2 DEF Objects
    <3>3. Before(a, c)
      BY <3>1, <3>2 DEF Before
    <3> QED BY <3>3
  <2> QED BY <2>1, <2>2 DEF Orders
<1>4. \E s \in SetToSeqs(S) : \A i, j \in DOMAIN s : i < j => <<s[i], s[j]>> \in R
  <2> HIDE DEF S, R
  <2> QED BY <1>2, <1>3, OrderExists
<1>5. \E s \in SetToSeqs(S) : \A i, j \in DOMAIN s : i < j => Before(s[i], s[j])
  BY <1>4
<1>6. Sections(chunks) \in SetToSeqs(S)
  BY <1>5 DEF Sections, Ordered
<1> QED BY <1>2, <1>6

LEMMA SectionsTyped ==
  ASSUME NEW chunks \in Seq(Objects)
  PROVE  Sections(chunks) \in Seq(Objects)
<1> DEFINE S == {chunks[i] : i \in Kept(chunks)}
<1>2. IsFiniteSet(S) /\ S \subseteq Objects /\ Sections(chunks) \in SetToSeqs(S)
  BY SectionsAre
<1>7. Sections(chunks) \in [1 .. Cardinality(S) -> S]
  <2> HIDE DEF S
  <2> QED BY <1>2 DEF SetToSeqs
<1>8. Sections(chunks) \in [1 .. Cardinality(S) -> Objects] /\ Cardinality(S) \in Nat
  BY <1>2, <1>7, FS_CardinalityType
<1> DEFINE m == Cardinality(S)
<1> HIDE DEF m
<1>9. m \in Nat /\ Sections(chunks) \in [1 .. m -> Objects]
  BY <1>8 DEF m
<1> QED
  BY <1>9

LEMMA NewSectionTyped ==
  ASSUME NEW o \in Objects
  PROVE  NewSection(o) \in Sectioned
<1>1. <<o>> \in Seq(Objects) /\ <<o>> # <<>>
  <2>1. <<o>> \in Seq(Objects)
    BY Single
  <2>2. <<o>> # <<>>
    OBVIOUS
  <2> QED BY <2>1, <2>2
<1> DEFINE c == <<o>>
           m == McObject("", o.ext, o.address, o.length)
<1>2. o.ext \in Nat /\ o.address \in Nat /\ o.length \in Nat \ {0}
  BY DEF Objects
<1>3. NewSection(o) = [m EXCEPT !.components = c]
  BY DEF NewSection
<1>4. c \in {u \in Seq(Objects) : u # <<>>}
  BY <1>1
<1> HIDE DEF c
<1> QED BY <1>2, <1>3, <1>4 DEF McObject, Sectioned

LEMMA ExtendedTyped ==
  ASSUME NEW s \in Sectioned, NEW o \in Objects, EndOf(s) - 1 <= o.address
  PROVE  Extended(s, o) \in Sectioned
<1>1. Append(s.components, o) \in Seq(Objects) /\ Append(s.components, o) # <<>>
  <2>1. s.components \in Seq(Objects)
    BY DEF Sectioned
  <2> HIDE DEF Objects
  <2> QED BY <2>1, AppendProperties
<1>2. s.ext \in Nat /\ s.address \in Nat /\ s.length \in Nat \ {0}
  BY DEF Sectioned
<1>3. o.ext \in Nat /\ o.address \in Nat /\ o.length \in Nat \ {0}
  BY DEF Objects
<1>4. EndOf(o) - s.address \in Nat \ {0}
  <2> DEFINE sa == s.address
             sl == s.length
             oa == o.address
             ol == o.length
  <2>1. sa \in Nat /\ sl \in Nat \ {0} /\ oa \in Nat /\ ol \in Nat \ {0} /\ (sa + sl) - 1 <= oa
    BY <1>2, <1>3 DEF EndOf
  <2>2. EndOf(o) - s.address = (oa + ol) - sa
    BY DEF EndOf
  <2> HIDE DEF sa, sl, oa, ol
  <2> QED BY <2>1, <2>2
<1> DEFINE c == Append(s.components, o)
           l == EndOf(o) - s.address
<1>5. Extended(s, o) = [s EXCEPT !.length = l, !.components = c]
  BY DEF Extended
<1>6. l \in Nat \ {0} /\ c \in {u \in Seq(Objects) : u # <<>>}
  BY <1>1, <1>4
<1> HIDE DEF l, c
<1> QED BY <1>5, <1>6 DEF Sectioned

LEMMA NextBlockTyped ==
  ASSUME NEW s \in Seq(Sectioned), NEW o \in Objects, NEW bound
  PROVE  NextBlock(s, o, bound) \in Seq(Sectioned)
<1> DEFINE z == s[Len(s)]
           neighbours == s # <<>> /\ o.ext = z.ext /\ o.address <= EndOf(z)
<1>1. NextBlock(s, o, bound) =
        IF neighbours /\ EndOf(z) - 1 > o.address THEN s
        ELSE IF neighbours /\ (bound = 0 \/ EndOf(o) - z.address <= bound)
        THEN [s EXCEPT ![Len(s)] = Extended(z, o)]
        ELSE Append(s, NewSection(o))
  BY DEF NextBlock, Last
<1>2. Append(s, NewSection(o)) \in Seq(Sectioned)
  BY NewSectionTyped, AppendProperties
<1>3. ASSUME s # <<>> PROVE z \in Sectioned /\ Len(s) \in 1 .. Len(s)
  <2>1. Len(s) \in Nat /\ Len(s) # 0
    BY <1>3, EmptySeq, LenProperties
  <2> QED BY <2>1, ElementOfSeq
<1>4. ASSUME s # <<>>, ~(EndOf(z) - 1 > o.address)
      PROVE  [s EXCEPT ![Len(s)] = Extended(z, o)] \in Seq(Sectioned)
  <2>1. EndOf(z) \in Nat /\ o.address \in Nat
    <3>1. z \in Sectioned
      BY <1>3, <1>4
    <3> HIDE DEF z
    <3>2. z.address \in Nat /\ z.length \in Nat
      BY <3>1 DEF Sectioned
    <3>3. o.address \in Nat
      BY DEF Objects
    <3> QED BY <3>2, <3>3 DEF EndOf
  <2>2. Extended(z, o) \in Sectioned
    BY <2>1, <1>3, <1>4, ExtendedTyped
  <2> HIDE DEF z, Sectioned
  <2> QED BY <2>2, <1>3, <1>4, ExceptSeq
<1> HIDE DEF z
<1> QED BY <1>1, <1>2, <1>4

(* make_continuous_blocks(): the sections of the first k measurements.     *)
BlocksOf(f, objects, bound) ==
  f = [k \in 0 .. Len(objects) |->
         IF k = 0 THEN <<>> ELSE NextBlock(f[k - 1], objects[k], bound)]

LEMMA BlocksExist ==
  ASSUME NEW objects \in Seq(Objects), NEW bound
  PROVE  \E f \in [0 .. Len(objects) -> Seq(Sectioned)] : BlocksOf(f, objects, bound)
<1> DEFINE n == Len(objects)
           X == Seq(Sectioned)
           nothing == <<>>
           G == [p \in (1 .. n) \X X |-> NextBlock(p[2], objects[p[1]], bound)]
<1>1. n \in Nat /\ <<>> \in X
  BY LenProperties
<1>2. \A k \in 1 .. n, s \in X : G[<<k, s>>] = NextBlock(s, objects[k], bound)
  OBVIOUS
<1>3. \A k \in 1 .. n, s \in X : G[<<k, s>>] \in X
  BY <1>2, NextBlockTyped, ElementOfSeq
<1> HIDE DEF X, G
<1>4. PICK f : Iterates(f, X, nothing, G, n)
  <2> HIDE DEF n, nothing
  <2>1. n \in Nat /\ nothing \in X /\ \A k \in 1 .. n, x \in X : G[<<k, x>>] \in X
    BY <1>1, <1>3 DEF nothing
  <2> QED BY <2>1, IterationExists
<1>5. /\ f \in [0 .. n -> X] /\ f[0] = <<>>
      /\ \A k \in 1 .. n : f[k] = G[<<k, f[k - 1]>>] /\ f[k - 1] \in X
  BY <1>1, <1>4 DEF Iterates
<1>6. \A k \in 1 .. n : f[k] = NextBlock(f[k - 1], objects[k], bound)
  BY <1>5, <1>2
<1>7. f = [k \in 0 .. n |-> IF k = 0 THEN <<>> ELSE NextBlock(f[k - 1], objects[k], bound)]
  <2> HIDE DEF n
  <2> QED BY <1>1, <1>5, <1>6
<1> QED BY <1>5, <1>7 DEF BlocksOf, X

LEMMA BlocksBy ==
  ASSUME NEW chunks \in Seq(Objects), NEW bound
  PROVE  \E f : /\ BlocksOf(f, Sections(chunks), bound)
                /\ MakeContinuousBlocks(chunks, bound) = f[Len(Sections(chunks))]
<1> DEFINE objects == Sections(chunks)
           g == CHOOSE f : f = [k \in 0 .. Len(objects) |->
                  IF k = 0 THEN <<>> ELSE NextBlock(f[k - 1], objects[k], bound)]
<1>1. objects \in Seq(Objects)
  BY SectionsTyped
<1>2. MakeContinuousBlocks(chunks, bound) = g[Len(objects)]
  BY DEF MakeContinuousBlocks
<1> HIDE DEF objects
<1>3. BlocksOf(g, objects, bound)
  <2>1. \E f : BlocksOf(f, objects, bound)
    BY <1>1, BlocksExist
  <2> QED BY <2>1 DEF BlocksOf
<1> HIDE DEF g
<1> QED BY <1>2, <1>3 DEF objects

LEMMA BlocksTyped ==
  ASSUME NEW chunks \in Seq(Objects), NEW bound
  PROVE  MakeContinuousBlocks(chunks, bound) \in Seq(Sectioned)
<1> DEFINE objects == Sections(chunks)
           n == Len(objects)
<1>1. objects \in Seq(Objects) /\ n \in Nat
  BY SectionsTyped, LenProperties
<1>2. PICK f : /\ BlocksOf(f, objects, bound)
               /\ MakeContinuousBlocks(chunks, bound) = f[n]
  BY BlocksBy
<1> HIDE DEF objects
<1> DEFINE T == {k \in Nat : k <= n => f[k] \in Seq(Sectioned)}
<1>3. 0 \in T
  BY <1>1, <1>2 DEF BlocksOf
<1>4. ASSUME NEW k \in 0 .. n - 1, k \in T PROVE k + 1 \in T
  <2>1. k + 1 \in 1 .. n /\ (k + 1) - 1 = k /\ f[k] \in Seq(Sectioned)
    BY <1>1, <1>4
  <2>2. f[k + 1] = NextBlock(f[k], objects[k + 1], bound)
    BY <2>1, <1>2 DEF BlocksOf
  <2>3. f[k + 1] \in Seq(Sectioned)
    BY <2>1, <2>2, <1>1, ElementOfSeq, NextBlockTyped
  <2> QED BY <2>3
<1>5. n \in T
  <2> HIDE DEF T, n
  <2> QED BY <1>1, <1>3, <1>4, SetInduction
<1> QED BY <1>1, <1>2, <1>5

(* The items in the order of first_fit_decreasing(): each of them once, no *)
(* one before a longer one.                                                *)
LEMMA SortedItems ==
  ASSUME NEW items \in Seq(Sectioned)
  PROVE  \E p \in [1 .. Len(items) -> 1 .. Len(items)] :
           /\ \A i, j \in 1 .. Len(items) : i # j => p[i] # p[j]
           /\ \A i, j \in 1 .. Len(items) : i < j => items[p[i]].length >= items[p[j]].length
           /\ ByDecreasingLength(items) = [k \in 1 .. Len(items) |-> items[p[k]]]
<1> DEFINE n == Len(items)
           D == 1 .. n
           Longer(i, j) == \/ items[i].length > items[j].length
                           \/ (items[i].length = items[j].length /\ i < j)
           R == {q \in D \X D : Longer(q[1], q[2])}
           p == CHOOSE s \in SetToSeqs(D) : \A i, j \in DOMAIN s : i < j => Longer(s[i], s[j])
<1>1. n \in Nat /\ DOMAIN items = D /\ \A i \in D : items[i].length \in Nat
  <2>1. n \in Nat /\ DOMAIN items = D
    BY LenProperties
  <2>2. \A i \in D : items[i] \in Sectioned
    BY ElementOfSeq
  <2> QED BY <2>1, <2>2 DEF Sectioned
<1>2. IsFiniteSet(D) /\ Cardinality(D) = n
  BY <1>1, FS_Interval
<1>3. Orders(R, D)
  <2>1. \A a, b \in D : a # b => Longer(a, b) \/ Longer(b, a)
    BY <1>1
  <2>2. \A a, b, c \in D : Longer(a, b) /\ Longer(b, c) => Longer(a, c)
    BY <1>1
  <2> HIDE DEF Longer
  <2> QED BY <2>1, <2>2 DEF Orders
<1>4. \E s \in SetToSeqs(D) : \A i, j \in DOMAIN s : i < j => <<s[i], s[j]>> \in R
  <2> HIDE DEF D, R
  <2> QED BY <1>2, <1>3, OrderExists
<1>5. \E s \in SetToSeqs(D) : \A i, j \in DOMAIN s : i < j => Longer(s[i], s[j])
  <2> HIDE DEF Longer, D
  <2> QED BY <1>4
<1>6. p \in SetToSeqs(D) /\ \A i, j \in DOMAIN p : i < j => Longer(p[i], p[j])
  <2> HIDE DEF Longer, D
  <2> QED BY <1>5
<1>7. ByDecreasingLength(items) = [k \in DOMAIN items |-> items[p[k]]]
  BY <1>1 DEF ByDecreasingLength, Ordered
<1> HIDE DEF p, Longer
<1>8. p \in [D -> D] /\ \A i, j \in D : i # j => p[i] # p[j]
  BY <1>2, <1>6 DEF SetToSeqs
<1>9. \A i, j \in D : i < j => items[p[i]].length >= items[p[j]].length
  <2>1. ASSUME NEW i \in D, NEW j \in D, i < j PROVE items[p[i]].length >= items[p[j]].length
    <3>1. p[i] \in D /\ p[j] \in D /\ Longer(p[i], p[j])
      BY <1>6, <1>8, <2>1
    <3> QED BY <3>1, <1>1 DEF Longer
  <2> QED BY <2>1
<1> HIDE DEF D
<1>10. ByDecreasingLength(items) = [k \in D |-> items[p[k]]]
  BY <1>1, <1>7
<1> QED BY <1>8, <1>9, <1>10 DEF D

LEMMA SortedTyped ==
  ASSUME NEW items \in Seq(Sectioned)
  PROVE  ByDecreasingLength(items) \in Seq(Sectioned)
<1>1. PICK p \in [1 .. Len(items) -> 1 .. Len(items)] :
         ByDecreasingLength(items) = [k \in 1 .. Len(items) |-> items[p[k]]]
  BY SortedItems
<1>2. \A k \in 1 .. Len(items) : items[p[k]] \in Sectioned
  BY ElementOfSeq
<1>3. Len(items) \in Nat
  BY LenProperties
<1> HIDE DEF Sectioned
<1> QED BY <1>1, <1>2, <1>3

BinSeqs == {s \in Seq(Bins) : Len(s) >= 1}

LEMMA PutIntoTyped ==
  ASSUME NEW s \in BinSeqs, NEW b \in 1 .. Len(s), NEW item \in Sectioned
  PROVE  PutInto(s, b, item) \in BinSeqs
<1> DEFINE old == s[b]
           new == [old EXCEPT !.entries = Append(@, item), !.residual = @ - item.length]
<1>1. old \in Bins
  BY ElementOfSeq DEF BinSeqs
<1>2. Append(old.entries, item) \in Seq(Entries)
  <2>1. old.entries \in Seq(Entries) /\ item \in Entries
    BY <1>1 DEF Bins, Entries
  <2> QED BY <2>1, AppendProperties
<1>3. old.residual - item.length \in Int
  <2>1. old.residual \in Int
    BY <1>1 DEF Bins
  <2>2. item.length \in Nat \ {0}
    BY DEF Sectioned
  <2> QED BY <2>1, <2>2
<1>4. new \in Bins
  <2> DEFINE e == Append(old.entries, item)
             r == old.residual - item.length
  <2>1. new = [old EXCEPT !.entries = e, !.residual = r]
    OBVIOUS
  <2>2. e \in Seq(Entries) /\ r \in Int
    BY <1>2, <1>3
  <2> HIDE DEF old, e, r
  <2> QED BY <1>1, <2>1, <2>2 DEF Bins
<1>5. PutInto(s, b, item) = [s EXCEPT ![b] = new]
  BY DEF PutInto
<1> HIDE DEF new
<1> QED BY <1>4, <1>5, ExceptSeq DEF BinSeqs

LEMMA EmptyBin ==
  ASSUME NEW size \in Int
  PROVE  Bin(size, <<>>) \in Bins
<1> DEFINE nothing == <<>>
<1>1. nothing \in Seq(Entries)
  OBVIOUS
<1> HIDE DEF nothing
<1>2. Bin(size, nothing) \in Bins
  BY <1>1 DEF Bin, Bins
<1> QED BY <1>2 DEF nothing

LEMMA NextFitTyped ==
  ASSUME NEW s \in BinSeqs, NEW item \in Sectioned, NEW size \in Int
  PROVE  NextFit(s, item, size) \in BinSeqs
<1>1. CASE Roomy(s, item) # {}
  <2> DEFINE b == CHOOSE b \in Roomy(s, item) : \A c \in Roomy(s, item) : b <= c
  <2>1. Roomy(s, item) \subseteq 1 .. Len(s) /\ 1 .. Len(s) \subseteq Nat
    BY LenProperties DEF Roomy, BinSeqs
  <2>2. \E x \in Roomy(s, item) : \A c \in Roomy(s, item) : x <= c
    BY <1>1, <2>1, Least
  <2>3. b \in 1 .. Len(s)
    BY <2>1, <2>2
  <2>4. NextFit(s, item, size) = PutInto(s, b, item)
    BY <1>1 DEF NextFit
  <2> HIDE DEF b
  <2> QED BY <2>3, <2>4, PutIntoTyped
<1>2. CASE Roomy(s, item) = {}
  <2> DEFINE t == Append(s, Bin(size, <<>>))
  <2>1. t \in BinSeqs /\ Len(t) = Len(s) + 1 /\ Len(s) \in Nat
    BY EmptyBin, AppendProperties, LenProperties DEF BinSeqs
  <2>2. NextFit(s, item, size) = PutInto(t, Len(s) + 1, item)
    BY <1>2 DEF NextFit
  <2> HIDE DEF t
  <2> QED BY <2>1, <2>2, PutIntoTyped
<1> QED BY <1>1, <1>2

(* first_fit_decreasing(): the bins of the first k items.                  *)
BinsOf(f, items, size, initial) ==
  f = [k \in 0 .. Len(items) |->
         IF k = 0 THEN <<Bin(initial, <<>>)>> ELSE NextFit(f[k - 1], items[k], size)]

LEMMA BinsExist ==
  ASSUME NEW items \in Seq(Sectioned), NEW size \in Int, NEW initial \in Int
  PROVE  \E f : BinsOf(f, items, size, initial)
<1> DEFINE n == Len(items)
           start == <<Bin(initial, <<>>)>>
           G == [p \in (1 .. n) \X BinSeqs |-> NextFit(p[2], items[p[1]], size)]
<1>1. n \in Nat /\ start \in BinSeqs
  <2>1. start \in Seq(Bins) /\ Len(start) = 1
    BY EmptyBin, Single
  <2> QED BY <2>1, LenProperties DEF BinSeqs
<1>2. \A k \in 1 .. n, s \in BinSeqs : G[<<k, s>>] = NextFit(s, items[k], size)
  OBVIOUS
<1>3. \A k \in 1 .. n, s \in BinSeqs : G[<<k, s>>] \in BinSeqs
  BY <1>2, NextFitTyped, ElementOfSeq
<1> HIDE DEF G
<1>4. PICK f : Iterates(f, BinSeqs, start, G, n)
  <2> HIDE DEF n, start
  <2> QED BY <1>1, <1>3, IterationExists
<1>5. /\ f \in [0 .. n -> BinSeqs] /\ f[0] = start
      /\ \A k \in 1 .. n : f[k] = G[<<k, f[k - 1]>>] /\ f[k - 1] \in BinSeqs
  <2> HIDE DEF start
  <2> HIDE DEF n
  <2>1. f[0] = start /\ f \in [0 .. n -> BinSeqs]
    BY <1>4 DEF Iterates
  <2>2. \A k \in 1 .. n : f[k] = G[<<k, f[k - 1]>>]
    BY <1>4 DEF Iterates
  <2>3. \A k \in 1 .. n : k - 1 \in 0 .. n
    BY <1>1
  <2> QED BY <2>1, <2>2, <2>3
<1>6. \A k \in 1 .. n : f[k] = NextFit(f[k - 1], items[k], size)
  BY <1>5, <1>2
<1>7. f = [k \in 0 .. n |-> IF k = 0 THEN start ELSE NextFit(f[k - 1], items[k], size)]
  <2> HIDE DEF n, start
  <2> QED BY <1>1, <1>5, <1>6
<1> QED BY <1>7 DEF BinsOf

LEMMA BinsBy ==
  ASSUME NEW items \in Seq(Sectioned), NEW size \in Int, NEW initial \in Int
  PROVE  \E f : /\ BinsOf(f, ByDecreasingLength(items), size, initial)
                /\ FirstFitDecreasing(items, size, initial) = f[Len(ByDecreasingLength(items))]
<1> DEFINE sorted == ByDecreasingLength(items)
           g == CHOOSE f : f = [k \in 0 .. Len(sorted) |->
                  IF k = 0 THEN <<Bin(initial, <<>>)>> ELSE NextFit(f[k - 1], sorted[k], size)]
<1>1. sorted \in Seq(Sectioned)
  BY SortedTyped
<1>2. FirstFitDecreasing(items, size, initial) = g[Len(sorted)]
  BY DEF FirstFitDecreasing
<1> HIDE DEF sorted
<1>3. BinsOf(g, sorted, size, initial)
  <2>1. \E f : BinsOf(f, sorted, size, initial)
    BY <1>1, BinsExist
  <2> QED BY <2>1 DEF BinsOf
<1> HIDE DEF g
<1> QED BY <1>2, <1>3 DEF sorted

LEMMA BinsTyped ==
  ASSUME NEW items \in Seq(Sectioned), NEW size \in Int, NEW initial \in Int
  PROVE  FirstFitDecreasing(items, size, initial) \in BinSeqs
<1> DEFINE sorted == ByDecreasingLength(items)
           n == Len(sorted)
<1>1. sorted \in Seq(Sectioned) /\ n \in Nat
  BY SortedTyped, LenProperties
<1>2. PICK f : /\ BinsOf(f, sorted, size, initial)
               /\ FirstFitDecreasing(items, size, initial) = f[n]
  BY BinsBy
<1> HIDE DEF sorted
<1> DEFINE T == {k \in Nat : k <= n => f[k] \in BinSeqs}
<1>3. 0 \in T
  <2>1. f[0] = <<Bin(initial, <<>>)>>
    BY <1>1, <1>2 DEF BinsOf
  <2>2. <<Bin(initial, <<>>)>> \in Seq(Bins) /\ Len(<<Bin(initial, <<>>)>>) = 1
    BY EmptyBin, Single
  <2>3. f[0] \in BinSeqs
    BY <2>1, <2>2 DEF BinSeqs
  <2> QED BY <2>3
<1>4. ASSUME NEW k \in 0 .. n - 1, k \in T PROVE k + 1 \in T
  <2>1. k + 1 \in 1 .. n /\ (k + 1) - 1 = k /\ f[k] \in BinSeqs
    BY <1>1, <1>4
  <2>2. f[k + 1] = NextFit(f[k], sorted[k + 1], size)
    BY <2>1, <1>2 DEF BinsOf
  <2>3. f[k + 1] \in BinSeqs
    BY <2>1, <2>2, <1>1, ElementOfSeq, NextFitTyped
  <2> QED BY <2>3
<1>5. n \in T
  <2> HIDE DEF T, n
  <2> QED BY <1>1, <1>3, <1>4, SetInduction
<1> QED BY <1>1, <1>2, <1>5

-----------------------------------------------------------------------------
(***************************************************************************)
(* The plan                                                                *)
(***************************************************************************)
Configured ==
  [props : DeviceProps, lists : Seq(DaqLists), pidOff : BOOLEAN, stimSupport : BOOLEAN,
   knownEvents : SUBSET Nat, events : Nat, faults : Nat, rounds : Nat]

(* What the configuration says of the device is typed.                     *)
LEMMA PropsTyped ==
  ASSUME config \in Configurations
  PROVE  /\ Props.static \in BOOLEAN /\ Props.tsFixed \in BOOLEAN
         /\ Props.idSize \in 1 .. 4 /\ Props.minDaq \in Nat /\ Props.maxDto \in Nat
         /\ Props.maxEntry \in Nat /\ Props.tsSize \in {0, 1, 2, 4}
         /\ Props.scale \in Nat \ {0}
         /\ Props.interleaved \in BOOLEAN
<1>1. config \in Configured
  BY ConfigurationsAssumption DEF Configured
<1>2. Props \in DeviceProps
  BY <1>1 DEF Configured, Props
<1> HIDE DEF Props
<1> QED BY <1>2 DEF DeviceProps

LEMMA ConfigTyped ==
  ASSUME config \in Configurations
  PROVE  /\ config.lists \in Seq(DaqLists) /\ Len(config.lists) \in Nat
         /\ ListIndices = 1 .. Len(config.lists)
         /\ config.events \in Nat /\ config.faults \in Nat /\ config.rounds \in Nat
         /\ config.knownEvents \subseteq Nat /\ config.stimSupport \in BOOLEAN
<1>1. config \in Configured
  BY ConfigurationsAssumption DEF Configured
<1>2. /\ config.lists \in Seq(DaqLists) /\ config.events \in Nat /\ config.faults \in Nat
      /\ config.rounds \in Nat /\ config.knownEvents \subseteq Nat
      /\ config.stimSupport \in BOOLEAN
  BY <1>1 DEF Configured
<1> QED BY <1>2, LenProperties DEF ListIndices

LEMMA ListTyped ==
  ASSUME config \in Configurations, NEW i \in ListIndices
  PROVE  /\ config.lists[i] \in DaqLists
         /\ config.lists[i].predefined \in BOOLEAN /\ config.lists[i].ts \in BOOLEAN
         /\ config.lists[i].event \in Nat /\ config.lists[i].stim \in BOOLEAN
         /\ config.lists[i].measurements \in Seq(Objects)
         /\ config.lists[i].odts \in Seq(Seq(Objects))
         /\ config.lists[i].predefined => config.lists[i].odts # <<>>
<1>1. config.lists[i] \in DaqLists
  BY ConfigTyped, ElementOfSeq
<1>2. config.lists[i].predefined => config.lists[i].odts # <<>>
  BY ConfigurationsAssumption DEF ListIndices
<1> DEFINE l == config.lists[i]
<1>3. l \in DaqLists
  BY <1>1
<1> HIDE DEF l
<1>4. /\ l.predefined \in BOOLEAN /\ l.ts \in BOOLEAN /\ l.event \in Nat /\ l.stim \in BOOLEAN
      /\ l.measurements \in Seq(Objects) /\ l.odts \in Seq(Seq(Objects))
  BY <1>3 DEF DaqLists
<1> QED BY <1>1, <1>2, <1>4 DEF l

(* The octets of objects, one after another.                               *)
Octets(objects) == FlattenSeq(Pieces([k \in DOMAIN objects |-> OctetsOf(objects[k])], Len(objects)))

LEMMA SumIsOctets ==
  ASSUME NEW Items, NEW objects \in Seq(Items)
  PROVE  SumOfLengths(objects) = Len(Octets(objects))
<1> DEFINE f == [k \in DOMAIN objects |-> OctetsOf(objects[k])]
<1>1. f = Pieces(f, Len(objects))
  BY LenProperties DEF Pieces
<1>2. SumOfLengths(objects) = Len(FlattenSeq(f))
  BY DEF SumOfLengths
<1> HIDE DEF f
<1>3. SumOfLengths(objects) = Len(FlattenSeq(Pieces(f, Len(objects))))
  BY <1>1, <1>2
<1> QED BY <1>3 DEF f, Octets

LEMMA SumTyped ==
  ASSUME NEW Items, NEW objects \in Seq(Items),
         \A x \in Items : x.ext \in Nat /\ x.address \in Nat /\ x.length \in Nat
  PROVE  SumOfLengths(objects) \in Nat
<1> DEFINE f == [k \in DOMAIN objects |-> OctetsOf(objects[k])]
<1>1. ASSUME NEW k \in 1 .. Len(objects) PROVE f[k] \in Seq(Nat \X Nat)
  <2> DEFINE x == objects[k]
             m == x.length
  <2>1. x.ext \in Nat /\ x.address \in Nat /\ m \in Nat
    BY ElementOfSeq
  <2>2. f[k] = OctetsOf(x)
    BY LenProperties
  <2>3. OctetsOf(x) = [j \in 1 .. m |-> <<x.ext, x.address + j - 1>>]
    BY DEF OctetsOf
  <2>4. \A j \in 1 .. m : <<x.ext, x.address + j - 1>> \in Nat \X Nat
    BY <2>1
  <2> DEFINE g == [j \in 1 .. m |-> <<x.ext, x.address + j - 1>>]
             I == Nat \X Nat
  <2>5. g \in [1 .. m -> I]
    BY <2>4
  <2> HIDE DEF g, I, m
  <2>6. g \in Seq(I)
    BY <2>1, <2>5
  <2> QED BY <2>2, <2>3, <2>6 DEF g, I, m
<1> HIDE DEF f
<1>2. FlattenSeq(Pieces(f, Len(objects))) \in Seq(Nat \X Nat)
  BY <1>1, LenProperties, FlattenTyped
<1>3. SumOfLengths(objects) = Len(FlattenSeq(Pieces(f, Len(objects))))
  BY SumIsOctets DEF f, Octets
<1> QED BY <1>2, <1>3, LenProperties

LEMMA LimitsTyped ==
  ASSUME config \in Configurations, NEW i \in ListIndices
  PROVE  /\ Container \in Int /\ MaxEntry \in Int
         /\ ContainerFirst(config.lists[i]) \in Int
         /\ Timestamped(config.lists[i]) \in BOOLEAN /\ SwitchPidOff \in BOOLEAN
<1>1. Container \in Int
  BY PropsTyped DEF Container, SequenceOctets
<1>2. MaxEntry \in Int
  BY PropsTyped DEF MaxEntry, SequenceOctets, Smaller
<1>3. ContainerFirst(config.lists[i]) \in Int
  BY <1>1, PropsTyped DEF ContainerFirst
<1>4. Timestamped(config.lists[i]) \in BOOLEAN
  BY DEF Timestamped
<1>5. SwitchPidOff \in BOOLEAN
  BY DEF SwitchPidOff
<1> QED BY <1>1, <1>2, <1>3, <1>4, <1>5

LEMMA PredefinedTyped ==
  ASSUME NEW odts \in Seq(Seq(Objects)), odts # <<>>
  PROVE  PredefinedBins(odts) \in BinSeqs
<1>1. Len(odts) \in Nat \ {0} /\ DOMAIN odts = 1 .. Len(odts)
  BY LenProperties, EmptySeq
<1>2. ASSUME NEW j \in 1 .. Len(odts) PROVE Bin(SumOfLengths(odts[j]), odts[j]) \in Bins
  <2>1. odts[j] \in Seq(Objects)
    BY ElementOfSeq
  <2>2. \A x \in Objects : x.ext \in Nat /\ x.address \in Nat /\ x.length \in Nat
    BY DEF Objects
  <2> DEFINE s == SumOfLengths(odts[j])
             e == odts[j]
  <2>3. s \in Int
    BY <2>1, <2>2, SumTyped
  <2>4. e \in Seq(Entries)
    BY <2>1 DEF Entries
  <2> HIDE DEF s, e
  <2>5. Bin(s, e) \in Bins
    BY <2>3, <2>4 DEF Bin, Bins
  <2> QED BY <2>5 DEF s, e
<1> DEFINE f == PredefinedBins(odts)
<1>3. f = [j \in 1 .. Len(odts) |-> Bin(SumOfLengths(odts[j]), odts[j])]
  BY <1>1 DEF PredefinedBins
<1>4. f \in [1 .. Len(odts) -> Bins]
  <2> HIDE DEF Bins, f
  <2> QED BY <1>2, <1>3
<1>5. f \in Seq(Bins) /\ Len(f) = Len(odts)
  <2> DEFINE n == Len(odts)
  <2>1. n \in Nat /\ f \in [1 .. n -> Bins]
    BY <1>4, <1>1
  <2> HIDE DEF f, n
  <2>2. f \in Seq(Bins) /\ Len(f) = n
    BY <2>1
  <2> QED BY <2>2 DEF n
<1> QED BY <1>1, <1>5 DEF BinSeqs

(* A plan has, for every list, one ODT at least.                           *)
LEMMA PlanTyped ==
  ASSUME config \in Configurations
  PROVE  NewPlan \in [ListIndices -> BinSeqs]
<1>1. ASSUME NEW i \in ListIndices PROVE MeasurementsOpt(config.lists[i]) \in BinSeqs
  <2> DEFINE l == config.lists[i]
  <2>1. CASE l.predefined
    BY <2>1, <1>1, ListTyped, PredefinedTyped DEF MeasurementsOpt
  <2>2. CASE ~l.predefined
    <3>1. l.measurements \in Seq(Objects)
      BY <1>1, ListTyped
    <3>2. Blocks(l) \in Seq(Sectioned)
      BY <3>1, BlocksTyped DEF Blocks
    <3>3. Container \in Int /\ ContainerFirst(l) \in Int
      BY <1>1, LimitsTyped
    <3>4. FirstFitDecreasing(Blocks(l), Container, ContainerFirst(l)) \in BinSeqs
      BY <3>2, <3>3, BinsTyped
    <3> QED BY <2>2, <3>4 DEF MeasurementsOpt
  <2> QED BY <2>1, <2>2
<1> QED BY <1>1 DEF NewPlan

(* The measurements of an ODT, and of all ODTs of a list.                  *)
LEMMA ComponentsTyped ==
  ASSUME NEW o \in Entries
  PROVE  Components(o) \in Seq(Objects) /\ Components(o) # <<>>
<1>1. CASE o \in Objects
  <2>1. o.components = <<>>
    BY <1>1 DEF Objects
  <2>2. <<o>> \in Seq(Objects) /\ Len(<<o>>) = 1
    BY <1>1, Single
  <2> QED BY <2>1, <2>2 DEF Components
<1>2. CASE o \in Sectioned
  <2>1. o.components \in {s \in Seq(Objects) : s # <<>>}
    BY <1>2 DEF Sectioned
  <2> QED BY <2>1 DEF Components
<1> QED BY <1>1, <1>2 DEF Entries

LEMMA FlattenOdtTyped ==
  ASSUME NEW bin \in Bins
  PROVE  FlattenOdt(bin) \in Seq(Objects)
<1> DEFINE e == bin.entries
           f == [k \in DOMAIN e |-> Components(e[k])]
<1>1. e \in Seq(Entries)
  BY DEF Bins
<1>2. Len(e) \in Nat /\ DOMAIN e = 1 .. Len(e) /\ \A k \in DOMAIN e : e[k] \in Entries
  BY <1>1, LenProperties, ElementOfSeq
<1>3. FlattenOdt(bin) = FlattenSeq(f)
  BY DEF FlattenOdt
<1> HIDE DEF e
<1>4. \A k \in 1 .. Len(e) : f[k] \in Seq(Objects)
  BY <1>2, ComponentsTyped
<1>5. f = Pieces(f, Len(e))
  BY <1>2 DEF Pieces
<1> HIDE DEF f
<1>6. FlattenSeq(Pieces(f, Len(e))) \in Seq(Objects)
  BY <1>2, <1>4, FlattenTyped
<1> QED BY <1>3, <1>5, <1>6

Flat(bins) == FlattenSeq(Pieces(FlattenOdts(bins), Len(bins)))

LEMMA OdtsTyped ==
  ASSUME NEW bins \in BinSeqs
  PROVE  /\ Len(bins) \in Nat \ {0} /\ Len(FlattenOdts(bins)) = Len(bins)
         /\ FlattenOdts(bins) = [j \in 1 .. Len(bins) |-> FlattenOdt(bins[j])]
         /\ DOMAIN FlattenOdts(bins) = 1 .. Len(bins)
         /\ \A j \in 1 .. Len(bins) : FlattenOdts(bins)[j] \in Seq(Objects)
         /\ FlattenSeq(FlattenOdts(bins)) = Flat(bins)
         /\ Flat(bins) \in Seq(Objects) /\ Len(Headers(bins)) = Len(Flat(bins))
<1>1. Len(bins) \in Nat \ {0} /\ DOMAIN bins = 1 .. Len(bins)
      /\ \A j \in 1 .. Len(bins) : bins[j] \in Bins
  BY LenProperties, ElementOfSeq DEF BinSeqs
<1>2. FlattenOdts(bins) = [j \in 1 .. Len(bins) |-> FlattenOdt(bins[j])]
  BY <1>1 DEF FlattenOdts
<1>3. \A j \in 1 .. Len(bins) : FlattenOdts(bins)[j] \in Seq(Objects)
  BY <1>1, <1>2, FlattenOdtTyped
<1>4. FlattenOdts(bins) = Pieces(FlattenOdts(bins), Len(bins))
  BY <1>2 DEF Pieces
<1>5. FlattenSeq(FlattenOdts(bins)) = Flat(bins)
  BY <1>4 DEF Flat
<1>6. Flat(bins) \in Seq(Objects)
  BY <1>1, <1>3, FlattenTyped DEF Flat
<1>7. Len(Headers(bins)) = Len(Flat(bins))
  <2> DEFINE all == Flat(bins)
  <2>1. Headers(bins) = [k \in DOMAIN all |-> all[k].name]
    BY <1>5 DEF Headers
  <2>2. DOMAIN all = 1 .. Len(all) /\ Len(all) \in Nat
    BY <1>6, LenProperties
  <2> HIDE DEF all
  <2>3. Len(Headers(bins)) = Len(all)
    BY <2>1, <2>2
  <2> QED BY <2>3 DEF all
<1>8. Len(FlattenOdts(bins)) = Len(bins) /\ DOMAIN FlattenOdts(bins) = 1 .. Len(bins)
  BY <1>1, <1>2
<1> QED BY <1>1, <1>2, <1>3, <1>5, <1>6, <1>7, <1>8

-----------------------------------------------------------------------------
(***************************************************************************)
(* The commands of setup()                                                 *)
(***************************************************************************)

Ext == [ext : Nat, address : Nat, length : Nat]
Frees == [cmd : {"FREE_DAQ"}]
AllocDaqs == [cmd : {"ALLOC_DAQ"}, count : Nat]
AllocOdts == [cmd : {"ALLOC_ODT"}, list : Nat, count : Nat]
AllocEntries == [cmd : {"ALLOC_ODT_ENTRY"}, list : Nat, odt : Nat, count : Nat]
SetPtrs == [cmd : {"SET_DAQ_PTR"}, list : Nat, odt : Nat, entry : {1}]
Writes == [cmd : {"WRITE_DAQ"}, entry : Ext]
Modes ==
  [cmd : {"SET_DAQ_LIST_MODE"}, list : Nat, mode : SUBSET {"timestamp", "stim", "pid_off"},
   event : Nat]
Starts == [cmd : {"START_STOP_DAQ_LIST"}, list : Nat]
Allocations == Frees \cup AllocDaqs \cup AllocOdts \cup AllocEntries \cup SetPtrs \cup Writes
Selections == Modes \cup Starts
Commands == Allocations \cup Selections

LEMMA NumberTyped ==
  ASSUME config \in Configurations, NEW i \in ListIndices
  PROVE  Number(i) \in Nat /\ i \in Nat \ {0}
<1>1. i \in Nat \ {0}
  BY ConfigTyped
<1> QED BY <1>1, PropsTyped DEF Number

(* The two commands for every list.                                        *)
LEMMA SelectTyped ==
  ASSUME config \in Configurations
  PROVE  /\ SelectLists \in Seq(Selections) /\ Len(SelectLists) = 2 * Len(config.lists)
         /\ \A i \in ListIndices : /\ SelectLists[2 * i - 1] = SetDaqListMode(i)
                                   /\ SelectLists[2 * i] = StartStopDaqList(i)
<1> DEFINE n == Len(config.lists)
           f == [i \in ListIndices |-> <<SetDaqListMode(i), StartStopDaqList(i)>>]
           F(m) == FlattenSeq(Pieces(f, m))
           T == {m \in Nat : m <= n => Len(F(m)) = 2 * m}
<1>1. n \in Nat /\ ListIndices = 1 .. n
  BY ConfigTyped
<1>2. SelectLists = F(n)
  <2>1. f = Pieces(f, n)
    BY <1>1 DEF Pieces
  <2> QED BY <2>1 DEF SelectLists, ForEach
<1>3. ASSUME NEW i \in 1 .. n
      PROVE  /\ f[i] \in Seq(Selections) /\ Len(f[i]) = 2
             /\ f[i][1] = SetDaqListMode(i) /\ f[i][2] = StartStopDaqList(i)
  <2> DEFINE u == SetDaqListMode(i)
             v == StartStopDaqList(i)
  <2>0. i \in ListIndices
    BY <1>1
  <2>1. ListMode(config.lists[i]) \in SUBSET {"timestamp", "stim", "pid_off"}
    BY DEF ListMode
  <2>2. u \in Selections
    BY <2>0, <2>1, NumberTyped, ListTyped DEF SetDaqListMode, Modes, Selections
  <2>3. v \in Selections
    BY <2>0, NumberTyped DEF StartStopDaqList, Starts, Selections
  <2>4. f[i] = <<u, v>>
    BY <2>0
  <2> HIDE DEF u, v, f
  <2>5. <<u, v>> \in Seq(Selections) /\ Len(<<u, v>>) = 2
    BY <2>2, <2>3
  <2> QED BY <2>4, <2>5 DEF u, v
<1> HIDE DEF f
<1>4. F(n) \in Seq(Selections)
  BY <1>1, <1>3, FlattenTyped
<1>5. \A m \in 0 .. n - 1 : Len(F(m + 1)) = Len(F(m)) + Len(f[m + 1])
  BY <1>1, <1>3, FlattenNext
<1>6. Len(F(0)) = 0
  BY FlattenNone
<1> HIDE DEF F
<1>7. \A m \in 0 .. n : m \in T
  <2>1. 0 \in T
    BY <1>6
  <2>2. ASSUME NEW m \in 0 .. n - 1, m \in T PROVE m + 1 \in T
    <3>1. m + 1 \in 1 .. n /\ m \in Nat /\ m <= n
      BY <1>1
    <3>2. Len(F(m + 1)) = 2 * m + 2
      BY <3>1, <2>2, <1>5, <1>3
    <3> QED BY <3>1, <3>2
  <2> HIDE DEF T
  <2>3. ASSUME NEW m \in 0 .. n PROVE m \in T
    <3>1. m \in Nat /\ \A i \in 0 .. m - 1 : i \in 0 .. n - 1
      BY <1>1
    <3> QED BY <2>1, <2>2, <3>1, SetInduction
  <2> QED BY <2>3
<1>8. ASSUME NEW i \in 1 .. n
      PROVE  F(n)[2 * i - 1] = SetDaqListMode(i) /\ F(n)[2 * i] = StartStopDaqList(i)
  <2>1. i - 1 \in 0 .. n /\ i - 1 \in Nat /\ i - 1 <= n
    BY <1>1
  <2>2. Len(F(i - 1)) = 2 * (i - 1)
    BY <2>1, <1>7
  <2>3. 1 \in 1 .. Len(f[i]) /\ 2 \in 1 .. Len(f[i])
    BY <1>3
  <2>4. F(n)[Len(F(i - 1)) + 1] = f[i][1] /\ F(n)[Len(F(i - 1)) + 2] = f[i][2]
    <3>1. \A k \in 1 .. Len(f[i]) : F(n)[Len(F(i - 1)) + k] = f[i][k]
      <4>1. n \in Nat /\ \A j \in 1 .. n : f[j] \in Seq(Selections)
        BY <1>1, <1>3
      <4> HIDE DEF n
      <4> QED BY <4>1, FlattenPlace DEF F
    <3> HIDE DEF n
    <3> QED BY <3>1, <2>3
  <2>5. Len(F(i - 1)) + 1 = 2 * i - 1 /\ Len(F(i - 1)) + 2 = 2 * i
    BY <2>2
  <2> QED BY <2>4, <2>5, <1>3
<1>9. Len(F(n)) = 2 * n
  BY <1>1, <1>7
<1> QED BY <1>1, <1>2, <1>4, <1>8, <1>9

LEMMA PlanList ==
  ASSUME config \in Configurations, NEW i \in ListIndices
  PROVE  /\ NewPlan[i] \in Seq(Bins) /\ Len(NewPlan[i]) \in Nat \ {0}
         /\ DOMAIN NewPlan[i] = 1 .. Len(NewPlan[i])
         /\ NewPlan[i] \in BinSeqs
         /\ \A j \in 1 .. Len(NewPlan[i]) :
              /\ NewPlan[i][j] \in Bins /\ NewPlan[i][j].entries \in Seq(Entries)
              /\ Len(NewPlan[i][j].entries) \in Nat
              /\ DOMAIN NewPlan[i][j].entries = 1 .. Len(NewPlan[i][j].entries)
<1>1. NewPlan[i] \in BinSeqs
  BY PlanTyped
<1>2. NewPlan[i] \in Seq(Bins) /\ Len(NewPlan[i]) \in Nat \ {0}
      /\ DOMAIN NewPlan[i] = 1 .. Len(NewPlan[i])
  BY <1>1, LenProperties DEF BinSeqs
<1>3. ASSUME NEW j \in 1 .. Len(NewPlan[i])
      PROVE  /\ NewPlan[i][j] \in Bins /\ NewPlan[i][j].entries \in Seq(Entries)
             /\ Len(NewPlan[i][j].entries) \in Nat
             /\ DOMAIN NewPlan[i][j].entries = 1 .. Len(NewPlan[i][j].entries)
  <2> DEFINE b == NewPlan[i][j]
  <2>1. b \in Bins
    BY <1>2, ElementOfSeq
  <2> HIDE DEF b
  <2>2. b.entries \in Seq(Entries)
    BY <2>1 DEF Bins
  <2> QED BY <2>1, <2>2, LenProperties DEF b
<1> QED BY <1>1, <1>2, <1>3

LEMMA EntryTyped ==
  ASSUME NEW o \in Entries
  PROVE  /\ o.ext \in Nat /\ o.address \in Nat /\ o.length \in Nat \ {0}
         /\ [ext |-> o.ext, address |-> o.address, length |-> o.length] \in Ext
<1>1. o \in Objects => o.ext \in Nat /\ o.address \in Nat /\ o.length \in Nat \ {0}
  BY DEF Objects
<1>2. o \in Sectioned => o.ext \in Nat /\ o.address \in Nat /\ o.length \in Nat \ {0}
  BY DEF Sectioned
<1>3. o.ext \in Nat /\ o.address \in Nat /\ o.length \in Nat \ {0}
  BY <1>1, <1>2 DEF Entries
<1> QED BY <1>3 DEF Ext

LEMMA WriteOdtTyped ==
  ASSUME config \in Configurations, NEW i \in ListIndices, NEW j \in 1 .. Len(NewPlan[i])
  PROVE  /\ WriteOdt(NewPlan, i, j) \in Seq(SetPtrs \cup Writes)
         /\ Len(WriteOdt(NewPlan, i, j)) = IF NewPlan[i][j].entries = <<>> THEN 0
                                           ELSE 1 + Len(NewPlan[i][j].entries)
         /\ NewPlan[i][j].entries # <<>> => WriteOdt(NewPlan, i, j)[1] = SetDaqPtr(i, j)
         /\ \A e \in 1 .. Len(NewPlan[i][j].entries) :
              WriteOdt(NewPlan, i, j)[1 + e] = WriteDaq(NewPlan[i][j].entries[e])
<1> DEFINE es == NewPlan[i][j].entries
           X == SetPtrs \cup Writes
           head == <<SetDaqPtr(i, j)>>
           tail == [e \in DOMAIN es |-> WriteDaq(es[e])]
<1>1. es \in Seq(Entries) /\ Len(es) \in Nat /\ DOMAIN es = 1 .. Len(es)
  BY PlanList
<1>2. WriteOdt(NewPlan, i, j) = IF es = <<>> THEN <<>> ELSE head \o tail
  BY DEF WriteOdt
<1>3. head \in Seq(X) /\ Len(head) = 1 /\ head[1] = SetDaqPtr(i, j)
  <2>1. j \in Nat
    BY PlanList
  <2>2. SetDaqPtr(i, j) \in X
    BY <2>1, NumberTyped DEF SetDaqPtr, SetPtrs
  <2> QED BY <2>2, Single
<1> HIDE DEF es
<1>4. \A e \in 1 .. Len(es) : WriteDaq(es[e]) \in X
  <2>1. ASSUME NEW e \in 1 .. Len(es) PROVE WriteDaq(es[e]) \in X
    <3>1. es[e] \in Entries
      BY <1>1, ElementOfSeq
    <3> DEFINE x == [ext |-> es[e].ext, address |-> es[e].address, length |-> es[e].length]
    <3>2. x \in Ext
      BY <3>1, EntryTyped
    <3>3. WriteDaq(es[e]) = [cmd |-> "WRITE_DAQ", entry |-> x]
      BY DEF WriteDaq
    <3> HIDE DEF x
    <3> QED BY <3>2, <3>3 DEF Writes
  <2> QED BY <2>1
<1>5. tail \in Seq(X) /\ Len(tail) = Len(es) /\ \A e \in 1 .. Len(es) : tail[e] = WriteDaq(es[e])
  <2> HIDE DEF X
  <2>1. tail = [e \in 1 .. Len(es) |-> WriteDaq(es[e])]
    BY <1>1
  <2> QED BY <2>1, <1>4, <1>1
<1> HIDE DEF head, tail, X
<1>6. /\ head \o tail \in Seq(X) /\ Len(head \o tail) = 1 + Len(es)
      /\ (head \o tail)[1] = SetDaqPtr(i, j)
      /\ \A e \in 1 .. Len(es) : (head \o tail)[1 + e] = WriteDaq(es[e])
  <2>1. /\ head \o tail \in Seq(X) /\ Len(head \o tail) = Len(head) + Len(tail)
        /\ \A k \in 1 .. Len(head) + Len(tail) :
             (head \o tail)[k] = IF k <= Len(head) THEN head[k] ELSE tail[k - Len(head)]
    <3>1. head \in Seq(X) /\ tail \in Seq(X)
      BY <1>3, <1>5
    <3> QED BY <3>1, ConcatProperties
  <2>2. (head \o tail)[1] = SetDaqPtr(i, j)
    BY <2>1, <1>1, <1>3, <1>5
  <2>3. ASSUME NEW e \in 1 .. Len(es) PROVE (head \o tail)[1 + e] = WriteDaq(es[e])
    <3>1. 1 + e \in 1 .. Len(head) + Len(tail) /\ ~(1 + e <= Len(head)) /\ (1 + e) - Len(head) = e
      BY <1>1, <1>3, <1>5
    <3> QED BY <3>1, <2>1, <1>5
  <2> QED BY <2>1, <2>2, <2>3, <1>3, <1>5
<1>7. es = <<>> => Len(es) = 0
  OBVIOUS
<1>8. <<>> \in Seq(X)
  OBVIOUS
<1>9. CASE es = <<>>
  BY <1>2, <1>7, <1>8, <1>9 DEF es, X
<1>10. CASE es # <<>>
  BY <1>2, <1>6, <1>10 DEF es, X
<1> QED BY <1>9, <1>10

(* The commands for one list, of each kind.                                *)
OdtCommands == [i \in ListIndices |-> IF i \in Dynamic THEN <<AllocOdt(NewPlan, i)>> ELSE <<>>]
EntryCommands ==
  [i \in ListIndices |-> IF i \in Dynamic
                         THEN [j \in DOMAIN NewPlan[i] |-> AllocOdtEntry(NewPlan, i, j)] ELSE <<>>]
WriteCommands ==
  [i \in ListIndices |-> IF i \in Dynamic
                         THEN ForEach(DOMAIN NewPlan[i], LAMBDA j : WriteOdt(NewPlan, i, j))
                         ELSE <<>>]

LEMMA OdtCommandsTyped ==
  ASSUME config \in Configurations, NEW i \in ListIndices
  PROVE  /\ OdtCommands[i] \in Seq(AllocOdts)
         /\ Len(OdtCommands[i]) = IF i \in Dynamic THEN 1 ELSE 0
         /\ i \in Dynamic => OdtCommands[i][1] = AllocOdt(NewPlan, i)
<1>1. AllocOdt(NewPlan, i) \in AllocOdts
  BY NumberTyped, PlanList DEF AllocOdt, AllocOdts
<1>2. OdtCommands[i] = IF i \in Dynamic THEN <<AllocOdt(NewPlan, i)>> ELSE <<>>
  BY DEF OdtCommands
<1>3. <<AllocOdt(NewPlan, i)>> \in Seq(AllocOdts) /\ Len(<<AllocOdt(NewPlan, i)>>) = 1
      /\ <<AllocOdt(NewPlan, i)>>[1] = AllocOdt(NewPlan, i)
  BY <1>1, Single
<1> QED BY <1>2, <1>3

LEMMA EntryCommandsTyped ==
  ASSUME config \in Configurations, NEW i \in ListIndices
  PROVE  /\ EntryCommands[i] \in Seq(AllocEntries)
         /\ Len(EntryCommands[i]) = IF i \in Dynamic THEN Len(NewPlan[i]) ELSE 0
         /\ i \in Dynamic =>
              \A j \in 1 .. Len(NewPlan[i]) : EntryCommands[i][j] = AllocOdtEntry(NewPlan, i, j)
<1> DEFINE f == [j \in DOMAIN NewPlan[i] |-> AllocOdtEntry(NewPlan, i, j)]
           n == Len(NewPlan[i])
<1>1. EntryCommands[i] = IF i \in Dynamic THEN f ELSE <<>>
  BY DEF EntryCommands
<1>2. n \in Nat /\ f = [j \in 1 .. n |-> AllocOdtEntry(NewPlan, i, j)]
  BY PlanList
<1>3. \A j \in 1 .. n : AllocOdtEntry(NewPlan, i, j) \in AllocEntries
  BY PlanList, NumberTyped DEF AllocOdtEntry, AllocEntries
<1> HIDE DEF f, n
<1>4. f \in Seq(AllocEntries) /\ Len(f) = n /\ \A j \in 1 .. n : f[j] = AllocOdtEntry(NewPlan, i, j)
  BY <1>2, <1>3
<1>5. <<>> \in Seq(AllocEntries) /\ Len(<<>>) = 0
  OBVIOUS
<1>6. CASE i \in Dynamic
  BY <1>1, <1>4, <1>6 DEF n
<1>7. CASE i \notin Dynamic
  BY <1>1, <1>5, <1>7
<1> QED BY <1>6, <1>7

OdtWrites(i) == [j \in 1 .. Len(NewPlan[i]) |-> WriteOdt(NewPlan, i, j)]

LEMMA WriteCommandsTyped ==
  ASSUME config \in Configurations, NEW i \in ListIndices
  PROVE  /\ WriteCommands[i] \in Seq(SetPtrs \cup Writes)
         /\ WriteCommands[i] = IF i \in Dynamic
                               THEN FlattenSeq(Pieces(OdtWrites(i), Len(NewPlan[i]))) ELSE <<>>
<1> DEFINE n == Len(NewPlan[i])
           f == OdtWrites(i)
           X == SetPtrs \cup Writes
<1>1. n \in Nat /\ DOMAIN NewPlan[i] = 1 .. n
  BY PlanList
<1>2. f = Pieces(f, n) /\ f = [j \in DOMAIN NewPlan[i] |-> WriteOdt(NewPlan, i, j)]
  BY <1>1 DEF OdtWrites, Pieces
<1>3. WriteCommands[i] = IF i \in Dynamic THEN FlattenSeq(f) ELSE <<>>
  BY <1>2 DEF WriteCommands, ForEach
<1>4. \A j \in 1 .. n : f[j] \in Seq(X)
  BY <1>1, WriteOdtTyped DEF OdtWrites
<1> HIDE DEF f, n, X
<1>5. FlattenSeq(Pieces(f, n)) \in Seq(X) /\ <<>> \in Seq(X)
  BY <1>1, <1>4, FlattenTyped
<1> QED BY <1>2, <1>3, <1>5 DEF f, n, X

(* The commands in five stages.                                            *)
Cmds == SetupCommands(NewPlan)
Opening == <<FreeDaq, AllocDaq(Len(config.lists))>>
Stages ==
  [s \in 1 .. 5 |->
     IF s = 5 THEN SelectLists
     ELSE IF Props.static THEN <<>>
     ELSE IF s = 1 THEN Opening
     ELSE IF s = 2 THEN AllocateOdts(NewPlan)
     ELSE IF s = 3 THEN AllocateEntries(NewPlan)
     ELSE WriteEntries(NewPlan)]
StageItems ==
  [s \in 1 .. 5 |-> IF s = 1 THEN Frees \cup AllocDaqs
                    ELSE IF s = 2 THEN AllocOdts
                    ELSE IF s = 3 THEN AllocEntries
                    ELSE IF s = 4 THEN SetPtrs \cup Writes
                    ELSE Selections]
FirstOf(s) == Len(FlattenSeq(Pieces(Stages, s - 1)))

LEMMA StagesTyped ==
  ASSUME config \in Configurations
  PROVE  /\ AllocateOdts(NewPlan) = FlattenSeq(Pieces(OdtCommands, Len(config.lists)))
         /\ AllocateEntries(NewPlan) = FlattenSeq(Pieces(EntryCommands, Len(config.lists)))
         /\ WriteEntries(NewPlan) = FlattenSeq(Pieces(WriteCommands, Len(config.lists)))
         /\ \A s \in 1 .. 5 : Stages[s] \in Seq(StageItems[s]) /\ Stages[s] \in Seq(Commands)
<1> DEFINE n == Len(config.lists)
<1>1. n \in Nat /\ ListIndices = 1 .. n
  BY ConfigTyped
<1>2. AllocateOdts(NewPlan) = FlattenSeq(Pieces(OdtCommands, n))
  BY <1>1 DEF AllocateOdts, ForEach, OdtCommands, Pieces
<1>3. AllocateEntries(NewPlan) = FlattenSeq(Pieces(EntryCommands, n))
  BY <1>1 DEF AllocateEntries, ForEach, EntryCommands, Pieces
<1>4. WriteEntries(NewPlan) = FlattenSeq(Pieces(WriteCommands, n))
  BY <1>1 DEF WriteEntries, ForEach, WriteCommands, Pieces
<1>5. AllocateOdts(NewPlan) \in Seq(AllocOdts)
  BY <1>1, <1>2, OdtCommandsTyped, FlattenTyped
<1>6. AllocateEntries(NewPlan) \in Seq(AllocEntries)
  BY <1>1, <1>3, EntryCommandsTyped, FlattenTyped
<1>7. WriteEntries(NewPlan) \in Seq(SetPtrs \cup Writes)
  BY <1>1, <1>4, WriteCommandsTyped, FlattenTyped
<1>8. SelectLists \in Seq(Selections)
  BY SelectTyped
<1>9. Opening \in Seq(Frees \cup AllocDaqs)
  <2> DEFINE u == FreeDaq
             v == AllocDaq(n)
             X == Frees \cup AllocDaqs
  <2>1. u \in X /\ v \in X
    BY <1>1 DEF FreeDaq, AllocDaq, Frees, AllocDaqs
  <2>2. Opening = <<u, v>>
    BY DEF Opening
  <2> HIDE DEF u, v, X
  <2>3. <<u, v>> \in Seq(X)
    BY <2>1
  <2> QED BY <2>2, <2>3 DEF X
<1>10. ASSUME NEW s \in 1 .. 5 PROVE Stages[s] \in Seq(StageItems[s])
  <2>1. <<>> \in Seq(StageItems[s])
    OBVIOUS
  <2>2. CASE s = 1
    BY <2>1, <2>2, <1>9 DEF Stages, StageItems
  <2>3. CASE s = 2
    BY <2>1, <2>3, <1>5 DEF Stages, StageItems
  <2>4. CASE s = 3
    BY <2>1, <2>4, <1>6 DEF Stages, StageItems
  <2>5. CASE s = 4
    BY <2>1, <2>5, <1>7 DEF Stages, StageItems
  <2>6. CASE s = 5
    BY <2>6, <1>8 DEF Stages, StageItems
  <2> QED BY <2>2, <2>3, <2>4, <2>5, <2>6
<1>11. ASSUME NEW s \in 1 .. 5 PROVE Stages[s] \in Seq(Commands)
  <2>1. StageItems[s] \subseteq Commands
    BY DEF StageItems, Commands, Allocations
  <2> DEFINE X == StageItems[s]
             t == Stages[s]
  <2>2. t \in Seq(X) /\ X \subseteq Commands
    BY <1>10, <2>1
  <2> HIDE DEF X, t
  <2>3. t \in Seq(Commands)
    BY <2>2
  <2> QED BY <2>3 DEF t
<1> QED BY <1>2, <1>3, <1>4, <1>10, <1>11

LEMMA CmdsTyped ==
  ASSUME config \in Configurations
  PROVE  /\ Cmds = FlattenSeq(Pieces(Stages, 5)) /\ Cmds \in Seq(Commands) /\ Len(Cmds) \in Nat
         /\ FirstOf(1) = 0 /\ Len(Cmds) = FirstOf(5) + 2 * Len(config.lists)
         /\ \A s \in 1 .. 5 : FirstOf(s) \in Nat
         /\ \A s \in 1 .. 4 : FirstOf(s + 1) = FirstOf(s) + Len(Stages[s])
<1> DEFINE n == 5
<1>0. n \in Nat /\ n = 5
  OBVIOUS
<1> HIDE DEF n
<1>1. \A s \in 1 .. n : Stages[s] \in Seq(Commands)
  BY <1>0, StagesTyped
<1>2a. \A s \in 0 .. n - 1 :
         /\ FlattenSeq(Pieces(Stages, s + 1)) = FlattenSeq(Pieces(Stages, s)) \o Stages[s + 1]
         /\ Len(FlattenSeq(Pieces(Stages, s + 1)))
              = Len(FlattenSeq(Pieces(Stages, s))) + Len(Stages[s + 1])
  BY <1>0, <1>1, FlattenNext
<1>2. \A s \in 0 .. 4 :
         /\ FlattenSeq(Pieces(Stages, s + 1)) = FlattenSeq(Pieces(Stages, s)) \o Stages[s + 1]
         /\ Len(FlattenSeq(Pieces(Stages, s + 1)))
              = Len(FlattenSeq(Pieces(Stages, s))) + Len(Stages[s + 1])
  <2>1. n - 1 = 4
    BY <1>0
  <2> QED BY <2>1, <1>2a
<1>3. FlattenSeq(Pieces(Stages, 0)) = <<>>
  BY FlattenNone
<1>4. FlattenSeq(Pieces(Stages, 1)) = Stages[1]
  BY FlattenOne
<1>5. FlattenSeq(Pieces(Stages, 5))
        = (((Stages[1] \o Stages[2]) \o Stages[3]) \o Stages[4]) \o Stages[5]
  <2>1. FlattenSeq(Pieces(Stages, 2)) = Stages[1] \o Stages[2]
    <3>1. 1 \in 0 .. 4 /\ 1 + 1 = 2
      OBVIOUS
    <3> QED BY <1>2, <1>4, <3>1
  <2>2. FlattenSeq(Pieces(Stages, 3)) = (Stages[1] \o Stages[2]) \o Stages[3]
    <3>1. 2 \in 0 .. 4 /\ 2 + 1 = 3
      OBVIOUS
    <3> QED BY <1>2, <2>1, <3>1
  <2>3. FlattenSeq(Pieces(Stages, 4)) = ((Stages[1] \o Stages[2]) \o Stages[3]) \o Stages[4]
    <3>1. 3 \in 0 .. 4 /\ 3 + 1 = 4
      OBVIOUS
    <3> QED BY <1>2, <2>2, <3>1
  <2>4. 4 \in 0 .. 4 /\ 4 + 1 = 5
    OBVIOUS
  <2> QED BY <1>2, <2>3, <2>4
<1>6. Cmds = FlattenSeq(Pieces(Stages, 5))
  <2>1. CASE Props.static
    <3>1. Stages[1] = <<>> /\ Stages[2] = <<>> /\ Stages[3] = <<>> /\ Stages[4] = <<>>
          /\ Stages[5] = SelectLists
      BY <2>1 DEF Stages
    <3>2. Cmds = <<>> \o SelectLists
      BY <2>1 DEF Cmds, SetupCommands, Allocation
    <3>3. <<>> \o <<>> = <<>>
      BY ConcatEmptySeq, EmptySeq
    <3> QED BY <3>1, <3>2, <3>3, <1>5
  <2>2. CASE ~Props.static
    <3>1. Stages[1] = Opening /\ Stages[2] = AllocateOdts(NewPlan)
          /\ Stages[3] = AllocateEntries(NewPlan) /\ Stages[4] = WriteEntries(NewPlan)
          /\ Stages[5] = SelectLists
      BY <2>2 DEF Stages
    <3>2. Cmds = (((Opening \o AllocateOdts(NewPlan)) \o AllocateEntries(NewPlan))
                    \o WriteEntries(NewPlan)) \o SelectLists
      BY <2>2 DEF Cmds, SetupCommands, Allocation, Opening
    <3> QED BY <3>1, <3>2, <1>5
  <2> QED BY <2>1, <2>2
<1>7. Cmds \in Seq(Commands)
  <2>1. n \in Nat
    BY <1>0
  <2>2. FlattenSeq(Pieces(Stages, n)) \in Seq(Commands)
    BY <1>1, <2>1, FlattenTyped
  <2> QED BY <1>0, <1>6, <2>2
<1>8. \A s \in 0 .. 5 : FlattenSeq(Pieces(Stages, s)) \in Seq(Commands)
  <2>1. ASSUME NEW s \in 0 .. 5 PROVE FlattenSeq(Pieces(Stages, s)) \in Seq(Commands)
    <3>1. s \in Nat /\ \A i \in 1 .. s : i \in 1 .. n
      BY <1>0
    <3>2. \A i \in 1 .. s : Stages[i] \in Seq(Commands)
      BY <3>1, <1>1
    <3> QED BY <3>1, <3>2, FlattenTyped
  <2> QED BY <2>1
<1>9. \A s \in 1 .. 5 : FirstOf(s) \in Nat
  BY <1>8, LenProperties DEF FirstOf
<1>10. \A s \in 1 .. 5 :
         Len(FlattenSeq(Pieces(Stages, s))) = FirstOf(s) + Len(Stages[s])
  <2>1. ASSUME NEW s \in 1 .. 5
        PROVE  Len(FlattenSeq(Pieces(Stages, s))) = FirstOf(s) + Len(Stages[s])
    <3>1. s - 1 \in 0 .. 4 /\ (s - 1) + 1 = s
      OBVIOUS
    <3> QED BY <3>1, <1>2 DEF FirstOf
  <2> QED BY <2>1
<1>11. \A s \in 1 .. 4 : FirstOf(s + 1) = FirstOf(s) + Len(Stages[s])
  <2>1. \A s \in 1 .. 4 : (s + 1) - 1 = s /\ s \in 1 .. 5
    OBVIOUS
  <2> QED BY <2>1, <1>10 DEF FirstOf
<1>12. Len(Cmds) = FirstOf(5) + 2 * Len(config.lists)
  <2>1. Stages[5] = SelectLists /\ 5 \in 1 .. 5
    BY DEF Stages
  <2>2. Len(FlattenSeq(Pieces(Stages, 5))) = FirstOf(5) + Len(Stages[5])
    BY <2>1, <1>10
  <2>3. Len(SelectLists) = 2 * Len(config.lists)
    BY SelectTyped
  <2> QED BY <1>6, <2>1, <2>2, <2>3
<1>13. FirstOf(1) = 0
  BY <1>3 DEF FirstOf
<1>14. Len(Cmds) \in Nat
  BY <1>7, LenProperties
<1> QED BY <1>6, <1>7, <1>9, <1>11, <1>12, <1>13, <1>14

(* Which command is where, and where it can be found.                      *)
LEMMA CmdAt ==
  ASSUME config \in Configurations, NEW s \in 1 .. 5, NEW k \in 1 .. Len(Stages[s])
  PROVE  FirstOf(s) + k \in 1 .. Len(Cmds) /\ Cmds[FirstOf(s) + k] = Stages[s][k]
<1> DEFINE n == 5
<1>0. n \in Nat /\ n = 5 /\ s \in 1 .. n /\ \A t \in 1 .. n : Stages[t] \in Seq(Commands)
  BY StagesTyped
<1>1. Cmds = FlattenSeq(Pieces(Stages, n))
  BY CmdsTyped
<1> HIDE DEF n
<1>2. /\ FirstOf(s) + k \in 1 .. Len(FlattenSeq(Pieces(Stages, n)))
      /\ FlattenSeq(Pieces(Stages, n))[FirstOf(s) + k] = Stages[s][k]
  BY <1>0, FlattenPlace DEF FirstOf
<1> QED BY <1>1, <1>2

LEMMA CmdFrom ==
  ASSUME config \in Configurations, NEW x \in 1 .. Len(Cmds)
  PROVE  \E s \in 1 .. 5 : \E k \in 1 .. Len(Stages[s]) :
           /\ x = FirstOf(s) + k /\ Cmds[x] = Stages[s][k]
           /\ Cmds[x] \in StageItems[s]
<1> DEFINE n == 5
<1>0. n \in Nat /\ 1 .. n = 1 .. 5
  OBVIOUS
<1>0a. \A t \in 1 .. n : Stages[t] \in Seq(Commands)
  BY StagesTyped
<1>1. Cmds = FlattenSeq(Pieces(Stages, n))
  BY CmdsTyped
<1> HIDE DEF n
<1>2. x \in 1 .. Len(FlattenSeq(Pieces(Stages, n)))
  BY <1>1
<1>3. PICK s \in 1 .. n : \E k \in 1 .. Len(Stages[s]) :
           /\ x = FirstOf(s) + k /\ FlattenSeq(Pieces(Stages, n))[x] = Stages[s][k]
  <2>1. \E s \in 1 .. n : \E k \in 1 .. Len(Stages[s]) :
          /\ x = Len(FlattenSeq(Pieces(Stages, s - 1))) + k
          /\ FlattenSeq(Pieces(Stages, n))[x] = Stages[s][k]
    <3> DEFINE f == Stages
               X == Commands
    <3>1. n \in Nat
      BY <1>0
    <3>2. x \in 1 .. Len(FlattenSeq(Pieces(f, n)))
      BY <1>2
    <3>2a. \A t \in 1 .. n : f[t] \in Seq(X)
      BY <1>0a
    <3> HIDE DEF f, X
    <3>3. ComesFrom(f, n, x)
      BY <3>1, <3>2, <3>2a, FlattenSplit
    <3> QED BY <3>3 DEF f, ComesFrom
  <2> QED BY <2>1 DEF FirstOf
<1>4. PICK k \in 1 .. Len(Stages[s]) : x = FirstOf(s) + k /\ Cmds[x] = Stages[s][k]
  BY <1>1, <1>3
<1>5. s \in 1 .. 5
  BY <1>0
<1>6. Stages[s] \in Seq(StageItems[s])
  BY <1>5, StagesTyped
<1>7. Stages[s][k] \in StageItems[s]
  <2> DEFINE X == StageItems[s]
             q == Stages[s]
  <2>1. q \in Seq(X) /\ k \in 1 .. Len(q)
    BY <1>6
  <2> HIDE DEF X, q
  <2>2. q[k] \in X
    BY <2>1, ElementOfSeq
  <2> QED BY <2>2 DEF X, q
<1> QED BY <1>4, <1>5, <1>7

-----------------------------------------------------------------------------
(***************************************************************************)
(* What holds of the processor and of the unfolder                         *)
(***************************************************************************)
IsSequence(s) == Len(s) \in Nat /\ s = [k \in 1 .. Len(s) |-> s[k]]

Done == Len(Cmds) - Len(todo)   \* the commands that were answered

(* While the commands are sent, todo is what is left of them, and there is *)
(* a PID for every list that was started.                                  *)
Commanding ==
  phase = "commanding" =>
    /\ plan = NewPlan
    /\ Done \in 0 .. Len(Cmds) /\ todo = SubSeq(Cmds, Done + 1, Len(Cmds))
    /\ Done <= FirstOf(5) => Len(firstPids) = 0
    /\ Done > FirstOf(5) => /\ 2 * Len(firstPids) <= Done - FirstOf(5)
                            /\ Done - FirstOf(5) <= 2 * Len(firstPids) + 1

(* A decoder that collects has a value for every measurement of the ODTs   *)
(* before the next one, and for no other.                                  *)
Decoder(o, s, n, c, t, b, g) ==
  [odts |-> o, state |-> s, next |-> n, current |-> c, timestamp |-> t, buffer |-> b,
   began |-> g]
IsDecoder(d) ==
  d = Decoder(d.odts, d.state, d.next, d.current, d.timestamp, d.buffer, d.began)
Decoding(d, bins) ==
  /\ IsDecoder(d)
  /\ d.odts = FlattenOdts(bins)
  /\ d.state \in {"idle", "collecting", "terminated"}
  /\ d.next \in 0 .. Len(bins) - 1
  /\ IsSequence(d.buffer) /\ Len(d.buffer) = Len(Flat(bins))
  /\ d.current \in 0 .. Len(d.buffer)
  /\ d.state = "collecting" =>
       d.next > 0 /\ d.current = Len(FlattenSeq(Pieces(d.odts, d.next)))

Decoders ==
  \/ decoders = <<>>
  \/ /\ plan = NewPlan
     /\ decoders = [i \in ListIndices |-> decoders[i]]
     /\ \A i \in ListIndices : Decoding(decoders[i], NewPlan[i])

(* There is a tracker for every list and every setup() that has come to    *)
(* its end.                                                                *)
Trackers ==
  /\ IsSequence(trackers)
  /\ \E r \in 0 .. rounds : /\ Len(trackers) = r * Len(config.lists)
                            /\ phase = "commanding" => r < rounds

DaqInv ==
  /\ config \in Configurations
  /\ phase \in Phases /\ cause \in Causes
  /\ IsSequence(firstPids) /\ Len(firstPids) <= Len(config.lists)
  /\ Commanding
  /\ Decoders
  /\ Trackers
  /\ clock \in Nat /\ events \in 0 .. config.events
  /\ faults \in 0 .. config.faults /\ rounds \in 0 .. config.rounds

(* Sequences of whatever.                                                  *)
LEMMA SequenceOf ==
  ASSUME NEW s, NEW X, IsSequence(s), \A k \in 1 .. Len(s) : s[k] \in X
  PROVE  s \in Seq(X) /\ Len(s) \in Nat /\ DOMAIN s = 1 .. Len(s)
<1> DEFINE n == Len(s)
<1>1. n \in Nat /\ s = [k \in 1 .. n |-> s[k]] /\ \A k \in 1 .. n : s[k] \in X
  BY DEF IsSequence
<1> HIDE DEF n
<1>2. [k \in 1 .. n |-> s[k]] \in Seq(X)
  BY <1>1
<1>3. s \in Seq(X)
  BY <1>1, <1>2
<1>4. DOMAIN s = 1 .. n
  BY <1>1
<1> QED BY <1>1, <1>3, <1>4 DEF n

LEMMA SequenceIs ==
  ASSUME NEW X, NEW s \in Seq(X)
  PROVE  IsSequence(s)
BY LenProperties DEF IsSequence

LEMMA SequenceAppended ==
  ASSUME NEW s, NEW x, IsSequence(s)
  PROVE  IsSequence(Append(s, x)) /\ Len(Append(s, x)) = Len(s) + 1
<1> DEFINE X == {s[k] : k \in 1 .. Len(s)} \cup {x}
<1>0. x \in X /\ \A k \in 1 .. Len(s) : s[k] \in X
  OBVIOUS
<1>1. s \in Seq(X) /\ x \in X
  <2> HIDE DEF X
  <2> QED BY <1>0, SequenceOf
<1> HIDE DEF X
<1>2. Append(s, x) \in Seq(X) /\ Len(Append(s, x)) = Len(s) + 1
  BY <1>1
<1> QED BY <1>2, SequenceIs

LEMMA SequenceJoined ==
  ASSUME NEW s, NEW t, IsSequence(s), IsSequence(t)
  PROVE  IsSequence(s \o t) /\ Len(s \o t) = Len(s) + Len(t)
<1> DEFINE X == {s[k] : k \in 1 .. Len(s)} \cup {t[k] : k \in 1 .. Len(t)}
<1>0. /\ \A k \in 1 .. Len(s) : s[k] \in X
      /\ \A k \in 1 .. Len(t) : t[k] \in X
  OBVIOUS
<1>1. s \in Seq(X) /\ t \in Seq(X)
  <2> HIDE DEF X
  <2> QED BY <1>0, SequenceOf
<1> HIDE DEF X
<1>2. s \o t \in Seq(X) /\ Len(s \o t) = Len(s) + Len(t)
  BY <1>1
<1> QED BY <1>2, SequenceIs

LEMMA SequenceUpdated ==
  ASSUME NEW s, NEW i, NEW x, IsSequence(s)
  PROVE  IsSequence([s EXCEPT ![i] = x]) /\ Len([s EXCEPT ![i] = x]) = Len(s)
<1> DEFINE X == {s[k] : k \in 1 .. Len(s)} \cup {x}
           n == Len(s)
<1>1a. x \in X /\ \A k \in 1 .. n : s[k] \in X
  OBVIOUS
<1>1. s \in Seq(X) /\ x \in X /\ n \in Nat /\ DOMAIN s = 1 .. n
  <2> HIDE DEF X
  <2> QED BY <1>1a, SequenceOf
<1> HIDE DEF X, n
<1>2. [s EXCEPT ![i] = x] = [k \in 1 .. n |-> IF k = i THEN x ELSE s[k]]
  BY <1>1
<1> DEFINE u == [k \in 1 .. n |-> IF k = i THEN x ELSE s[k]]
<1>3. u \in Seq(X) /\ Len(u) = n
  BY <1>1, <1>1a
<1> QED BY <1>2, <1>3, SequenceIs DEF n

LEMMA Constancy ==
  ASSUME config' = config
  PROVE  /\ ListIndices' = ListIndices /\ Props' = Props
         /\ NewPlan' = NewPlan /\ Cmds' = Cmds /\ FirstOf(5)' = FirstOf(5)
<1>1. ListIndices' = ListIndices /\ Props' = Props
  BY DEF ListIndices, Props
<1>2. Container' = Container /\ MaxEntry' = MaxEntry
  BY <1>1 DEF Container, MaxEntry, SequenceOctets, SwitchPidOff
<1>3. \A l : ContainerFirst(l)' = ContainerFirst(l)
  BY <1>1, <1>2 DEF ContainerFirst, Timestamped
<1>4. NewPlan' = NewPlan
  BY <1>1, <1>2, <1>3 DEF NewPlan, MeasurementsOpt, Blocks
<1>5. Dynamic' = Dynamic
  BY <1>1 DEF Dynamic
<1>6. \A i : Number(i)' = Number(i)
  BY <1>1 DEF Number
<1>7. SelectLists' = SelectLists
  BY <1>1, <1>6 DEF SelectLists, ForEach, SetDaqListMode, StartStopDaqList, ListMode,
                    Timestamped, SwitchPidOff
<1>8. AllocateOdts(NewPlan)' = AllocateOdts(NewPlan)
  BY <1>1, <1>4, <1>5, <1>6 DEF AllocateOdts, ForEach, AllocOdt
<1>9. AllocateEntries(NewPlan)' = AllocateEntries(NewPlan)
  BY <1>1, <1>4, <1>5, <1>6 DEF AllocateEntries, ForEach, AllocOdtEntry
<1>10. WriteEntries(NewPlan)' = WriteEntries(NewPlan)
  BY <1>1, <1>4, <1>5, <1>6 DEF WriteEntries, ForEach, WriteOdt, SetDaqPtr
<1>11. Cmds' = Cmds
  BY <1>1, <1>7, <1>8, <1>9, <1>10 DEF Cmds, SetupCommands, Allocation, FreeDaq, AllocDaq
<1>12. Stages' = Stages
  BY <1>1, <1>7, <1>8, <1>9, <1>10 DEF Stages, Opening, FreeDaq, AllocDaq
<1>13. FirstOf(5)' = FirstOf(5)
  BY <1>12 DEF FirstOf
<1> QED BY <1>1, <1>4, <1>11, <1>13

(* Every second of the last commands starts a list, and no other does.     *)
LEMMA StartsAt ==
  ASSUME config \in Configurations, NEW x \in 1 .. Len(Cmds)
  PROVE  /\ x <= FirstOf(5) => Cmds[x] \in Allocations
         /\ x > FirstOf(5) =>
              \E i \in ListIndices :
                \/ x = FirstOf(5) + (2 * i - 1) /\ Cmds[x] = SetDaqListMode(i)
                \/ x = FirstOf(5) + 2 * i /\ Cmds[x] = StartStopDaqList(i)
<1>1. /\ \A s \in 1 .. 5 : FirstOf(s) \in Nat
      /\ \A s \in 1 .. 4 : FirstOf(s + 1) = FirstOf(s) + Len(Stages[s])
      /\ Len(Cmds) = FirstOf(5) + 2 * Len(config.lists)
  BY CmdsTyped
<1>2. \A s \in 1 .. 5 : Len(Stages[s]) \in Nat
  BY StagesTyped, LenProperties
<1>3. FirstOf(2) = FirstOf(1) + Len(Stages[1]) /\ FirstOf(3) = FirstOf(2) + Len(Stages[2])
      /\ FirstOf(4) = FirstOf(3) + Len(Stages[3]) /\ FirstOf(5) = FirstOf(4) + Len(Stages[4])
  <2>1. 1 + 1 = 2 /\ 2 + 1 = 3 /\ 3 + 1 = 4 /\ 4 + 1 = 5
    OBVIOUS
  <2>2. 1 \in 1 .. 4 /\ 2 \in 1 .. 4 /\ 3 \in 1 .. 4 /\ 4 \in 1 .. 4
    OBVIOUS
  <2>3. FirstOf(1 + 1) = FirstOf(1) + Len(Stages[1])
    BY <1>1, <2>2
  <2>4. FirstOf(2 + 1) = FirstOf(2) + Len(Stages[2])
    BY <1>1, <2>2
  <2>5. FirstOf(3 + 1) = FirstOf(3) + Len(Stages[3])
    BY <1>1, <2>2
  <2>6. FirstOf(4 + 1) = FirstOf(4) + Len(Stages[4])
    BY <1>1, <2>2
  <2> QED BY <2>1, <2>3, <2>4, <2>5, <2>6
<1>3a. FirstOf(1) \in Nat /\ FirstOf(2) \in Nat /\ FirstOf(3) \in Nat /\ FirstOf(4) \in Nat
       /\ FirstOf(5) \in Nat /\ Len(Stages[1]) \in Nat /\ Len(Stages[2]) \in Nat
       /\ Len(Stages[3]) \in Nat /\ Len(Stages[4]) \in Nat
  <2>1. 1 \in 1 .. 5 /\ 2 \in 1 .. 5 /\ 3 \in 1 .. 5 /\ 4 \in 1 .. 5 /\ 5 \in 1 .. 5
    OBVIOUS
  <2> QED BY <1>1, <1>2, <2>1
<1>4. /\ FirstOf(1) + Len(Stages[1]) <= FirstOf(5)
      /\ FirstOf(2) + Len(Stages[2]) <= FirstOf(5)
      /\ FirstOf(3) + Len(Stages[3]) <= FirstOf(5)
      /\ FirstOf(4) + Len(Stages[4]) <= FirstOf(5)
  <2> DEFINE f1 == FirstOf(1)
             f2 == FirstOf(2)
             f3 == FirstOf(3)
             f4 == FirstOf(4)
             f5 == FirstOf(5)
             l1 == Len(Stages[1])
             l2 == Len(Stages[2])
             l3 == Len(Stages[3])
             l4 == Len(Stages[4])
  <2>1. f1 \in Nat /\ f2 \in Nat /\ f3 \in Nat /\ f4 \in Nat /\ f5 \in Nat
        /\ l1 \in Nat /\ l2 \in Nat /\ l3 \in Nat /\ l4 \in Nat
    BY <1>3a
  <2>2. f2 = f1 + l1 /\ f3 = f2 + l2 /\ f4 = f3 + l3 /\ f5 = f4 + l4
    BY <1>3
  <2> HIDE DEF f1, f2, f3, f4, f5, l1, l2, l3, l4
  <2>3. f1 + l1 <= f5 /\ f2 + l2 <= f5 /\ f3 + l3 <= f5 /\ f4 + l4 <= f5
    BY <2>1, <2>2
  <2> QED BY <2>3 DEF f1, f2, f3, f4, f5, l1, l2, l3, l4
<1>5. PICK s \in 1 .. 5 : \E k \in 1 .. Len(Stages[s]) :
        x = FirstOf(s) + k /\ Cmds[x] = Stages[s][k] /\ Cmds[x] \in StageItems[s]
  BY CmdFrom
<1>6. PICK k \in 1 .. Len(Stages[s]) :
        x = FirstOf(s) + k /\ Cmds[x] = Stages[s][k] /\ Cmds[x] \in StageItems[s]
  BY <1>5
<1>7. k \in Nat \ {0} /\ k <= Len(Stages[s]) /\ x \in Nat
  BY <1>2, <1>6, CmdsTyped
<1>7a. FirstOf(s) \in Nat /\ Len(Stages[s]) \in Nat
  BY <1>1, <1>2
<1>8. CASE s # 5
  <2>0. FirstOf(s) + Len(Stages[s]) <= FirstOf(5)
    <3>1. s = 1 \/ s = 2 \/ s = 3 \/ s = 4
      BY <1>8
    <3> QED BY <1>4, <3>1
  <2>1. x <= FirstOf(5) /\ ~(x > FirstOf(5))
    <3>1. x = FirstOf(s) + k
      BY <1>6
    <3> DEFINE f == FirstOf(s)
               l == Len(Stages[s])
               g == FirstOf(5)
    <3>2. f \in Nat /\ l \in Nat /\ g \in Nat /\ f + l <= g /\ x = f + k /\ k <= l /\ k \in Nat
      BY <1>3a, <1>7, <1>7a, <2>0, <3>1
    <3> HIDE DEF f, l, g
    <3>3. x <= g /\ ~(x > g)
      BY <3>2
    <3> QED BY <3>3 DEF g
  <2>2. StageItems[s] \subseteq Allocations
    BY <1>8 DEF StageItems, Allocations
  <2>3. Cmds[x] \in Allocations
    BY <1>6, <2>2
  <2> QED BY <2>1, <2>3
<1>9. CASE s = 5
  <2>1. Stages[5] = SelectLists
    BY DEF Stages
  <2>2. Len(SelectLists) = 2 * Len(config.lists)
        /\ \A i \in ListIndices : /\ SelectLists[2 * i - 1] = SetDaqListMode(i)
                                  /\ SelectLists[2 * i] = StartStopDaqList(i)
    BY SelectTyped
  <2>3. x > FirstOf(5) /\ x = FirstOf(5) + k /\ Cmds[x] = SelectLists[k]
        /\ k <= 2 * Len(config.lists)
    BY <1>1, <1>6, <1>7, <1>9, <2>1, <2>2
  <2>4. PICK i \in 1 .. Len(config.lists) : k = 2 * i - 1 \/ k = 2 * i
    <3>1. \E i \in Nat : i >= 1 /\ (k = 2 * i - 1 \/ k = 2 * i)
      <4>1. CASE k % 2 = 0
        <5>1. k = 2 * (k \div 2) /\ k \div 2 \in Nat /\ k \div 2 >= 1
          BY <1>7, <4>1
        <5> QED BY <5>1
      <4>2. CASE k % 2 = 1
        <5>1. k = 2 * (k \div 2 + 1) - 1 /\ k \div 2 + 1 \in Nat /\ k \div 2 + 1 >= 1
          BY <1>7, <4>2
        <5> QED BY <5>1
      <4> QED BY <1>7, <4>1, <4>2
    <3>2. PICK i \in Nat : i >= 1 /\ (k = 2 * i - 1 \/ k = 2 * i)
      BY <3>1
    <3>3. Len(config.lists) \in Nat
      BY ConfigTyped
    <3>4. i <= Len(config.lists)
      BY <3>2, <3>3, <2>3
    <3> QED BY <3>2, <3>3, <3>4
  <2>5. i \in ListIndices
    BY <2>4, ConfigTyped
  <2>6. ~(x <= FirstOf(5))
    BY <1>3a, <1>7, <2>3
  <2>7. CASE k = 2 * i - 1
    <3>1. Cmds[x] = SetDaqListMode(i) /\ x = FirstOf(5) + (2 * i - 1)
      BY <2>2, <2>3, <2>5, <2>7
    <3> QED BY <2>5, <2>6, <3>1
  <2>8. CASE k = 2 * i
    <3>1. Cmds[x] = StartStopDaqList(i) /\ x = FirstOf(5) + 2 * i
      BY <2>2, <2>3, <2>5, <2>8
    <3> QED BY <2>5, <2>6, <3>1
  <2> QED BY <2>4, <2>7, <2>8
<1> QED BY <1>8, <1>9

(* The next command and what is left behind it.                            *)
LEMMA NextCommand ==
  ASSUME config \in Configurations, Commanding, phase = "commanding", todo # <<>>
  PROVE  /\ Done \in 0 .. Len(Cmds) - 1 /\ Head(todo) = Cmds[Done + 1]
         /\ Tail(todo) = SubSeq(Cmds, (Done + 1) + 1, Len(Cmds))
         /\ Len(Cmds) - Len(Tail(todo)) = Done + 1
         /\ Len(Cmds) \in Nat /\ Cmds \in Seq(Commands)
<1> DEFINE k == Done
           s == Cmds
<1>1. s \in Seq(Commands) /\ Len(s) \in Nat
  BY CmdsTyped
<1>2. k \in 0 .. Len(s) /\ todo = SubSeq(s, k + 1, Len(s))
  BY DEF Commanding
<1> HIDE DEF k, s
<1>3. k + 1 <= Len(s) /\ Head(todo) = s[k + 1]
      /\ Tail(todo) = SubSeq(s, (k + 1) + 1, Len(s))
  BY <1>1, <1>2, TailOfRemainder
<1>4. Len(SubSeq(s, (k + 1) + 1, Len(s))) = Len(s) - (k + 1)
  <2>1. k + 1 \in Nat
    BY <1>2
  <2>2. Len(SubSeq(s, (k + 1) + 1, Len(s))) = IF k + 1 <= Len(s) THEN Len(s) - (k + 1) ELSE 0
    BY <1>1, <2>1, Remainder
  <2> QED BY <1>3, <2>2
<1>5. Len(s) - Len(Tail(todo)) = k + 1 /\ k \in 0 .. Len(s) - 1
  BY <1>1, <1>2, <1>3, <1>4
<1> QED BY <1>1, <1>3, <1>5 DEF k, s

-----------------------------------------------------------------------------
LEMMA Updated ==
  ASSUME NEW o, NEW s, NEW n, NEW c, NEW t, NEW b, NEW g, NEW x
  PROVE  /\ [Decoder(o, s, n, c, t, b, g) EXCEPT !.state = x] = Decoder(o, x, n, c, t, b, g)
         /\ [Decoder(o, s, n, c, t, b, g) EXCEPT !.current = x] = Decoder(o, s, n, x, t, b, g)
         /\ [Decoder(o, s, n, c, t, b, g) EXCEPT !.began = x] = Decoder(o, s, n, c, t, b, x)
<1>1. [Decoder(o, s, n, c, t, b, g) EXCEPT !.state = x] = Decoder(o, x, n, c, t, b, g)
  BY DEF Decoder
<1>2. [Decoder(o, s, n, c, t, b, g) EXCEPT !.current = x] = Decoder(o, s, n, x, t, b, g)
  BY DEF Decoder
<1>3. [Decoder(o, s, n, c, t, b, g) EXCEPT !.began = x] = Decoder(o, s, n, c, t, b, x)
  BY DEF Decoder
<1> QED BY <1>1, <1>2, <1>3

(* What check_state and parse_Odt make of a decoder.                       *)
LEMMA Checked ==
  ASSUME NEW o, NEW s, NEW n, NEW c, NEW t, NEW b, NEW g, NEW odt
  PROVE  LET d == Decoder(o, s, n, c, t, b, g)
         IN CheckState(d, odt)
              = IF odt = 0 /\ Len(o) = 1 THEN Decoder(o, "finished", 0, c, t, b, g)
                ELSE IF odt = 0 THEN Decoder(o, "collecting", 1, c, t, b, g)
                ELSE IF s # "collecting" THEN d
                ELSE IF odt # n THEN Decoder(o, "idle", 0, c, t, b, g)
                ELSE IF odt + 1 = Len(o) THEN Decoder(o, "finished", 0, c, t, b, g)
                ELSE Decoder(o, s, n + 1, c, t, b, g)
<1> DEFINE d == Decoder(o, s, n, c, t, b, g)
<1>1. d.odts = o /\ d.state = s /\ d.next = n
  BY DEF Decoder
<1>2. /\ [d EXCEPT !.state = "finished", !.next = 0] = Decoder(o, "finished", 0, c, t, b, g)
      /\ [d EXCEPT !.state = "collecting", !.next = 1] = Decoder(o, "collecting", 1, c, t, b, g)
      /\ [d EXCEPT !.state = "idle", !.next = 0] = Decoder(o, "idle", 0, c, t, b, g)
      /\ [d EXCEPT !.next = @ + 1] = Decoder(o, s, n + 1, c, t, b, g)
  <2>1. [d EXCEPT !.state = "finished", !.next = 0] = Decoder(o, "finished", 0, c, t, b, g)
    <3>1. [d EXCEPT !.state = "finished"] = Decoder(o, "finished", n, c, t, b, g)
      BY DEF Decoder
    <3>2. [Decoder(o, "finished", n, c, t, b, g) EXCEPT !.next = 0]
            = Decoder(o, "finished", 0, c, t, b, g)
      BY DEF Decoder
    <3> HIDE DEF d
    <3> QED BY <3>1, <3>2
  <2>2. [d EXCEPT !.state = "collecting", !.next = 1] = Decoder(o, "collecting", 1, c, t, b, g)
    <3>1. [d EXCEPT !.state = "collecting"] = Decoder(o, "collecting", n, c, t, b, g)
      BY DEF Decoder
    <3>2. [Decoder(o, "collecting", n, c, t, b, g) EXCEPT !.next = 1]
            = Decoder(o, "collecting", 1, c, t, b, g)
      BY DEF Decoder
    <3> HIDE DEF d
    <3> QED BY <3>1, <3>2
  <2>3. [d EXCEPT !.state = "idle", !.next = 0] = Decoder(o, "idle", 0, c, t, b, g)
    <3>1. [d EXCEPT !.state = "idle"] = Decoder(o, "idle", n, c, t, b, g)
      BY DEF Decoder
    <3>2. [Decoder(o, "idle", n, c, t, b, g) EXCEPT !.next = 0]
            = Decoder(o, "idle", 0, c, t, b, g)
      BY DEF Decoder
    <3> HIDE DEF d
    <3> QED BY <3>1, <3>2
  <2>4. [d EXCEPT !.next = @ + 1] = Decoder(o, s, n + 1, c, t, b, g)
    BY DEF Decoder
  <2> QED BY <2>1, <2>2, <2>3, <2>4
<1> HIDE DEF d
<1>3. CheckState(d, odt)
        = IF odt = 0 /\ Len(o) = 1 THEN Decoder(o, "finished", 0, c, t, b, g)
          ELSE IF odt = 0 THEN Decoder(o, "collecting", 1, c, t, b, g)
          ELSE IF s # "collecting" THEN d
          ELSE IF odt # n THEN Decoder(o, "idle", 0, c, t, b, g)
          ELSE IF odt + 1 = Len(o) THEN Decoder(o, "finished", 0, c, t, b, g)
          ELSE Decoder(o, s, n + 1, c, t, b, g)
  BY <1>1, <1>2 DEF CheckState
<1> QED BY <1>3 DEF d

Stamp(list, odt, payload, t) ==
  IF odt # 0 THEN t
  ELSE IF odt = 0 /\ Timestamped(list) THEN Nanoseconds(payload[1][2]) ELSE 0

LEMMA Parsed ==
  ASSUME NEW o, NEW s, NEW n, NEW c, NEW t, NEW b, NEW g, NEW odt, NEW list, NEW payload,
         IsSequence(b)
  PROVE  LET p == ParseOdt(Decoder(o, s, n, c, t, b, g), list, odt, payload)
         IN \/ p = Decoder(o, "terminated", n, c, t, b, g)
            \/ \E v : /\ p = Decoder(o, s, n, c + Len(o[odt + 1]),
                                     Stamp(list, odt, payload, t), v, g)
                      /\ IsSequence(v) /\ Len(v) = Len(b)
<1> DEFINE d == Decoder(o, s, n, c, t, b, g)
           stamped == odt = 0 /\ Timestamped(list)
           first == IF stamped THEN Props.tsSize ELSE 0
           params == o[odt + 1]
           offset(k) == first + SumOfLengths(SubSeq(params, 1, k - 1))
           value(k) == SubSeq(payload, offset(k) + 1, offset(k) + params[k].length)
           v == [k \in DOMAIN b |-> IF k - c \in DOMAIN params THEN value(k - c) ELSE b[k]]
           u == Stamp(list, odt, payload, t)
<1>1. d.odts = o /\ d.state = s /\ d.next = n /\ d.current = c /\ d.timestamp = t
      /\ d.buffer = b /\ d.began = g
  BY DEF Decoder
<1>2. [d EXCEPT !.state = "terminated"] = Decoder(o, "terminated", n, c, t, b, g)
  BY DEF Decoder
<1>3. [d EXCEPT !.timestamp = u, !.current = c + Len(params), !.buffer = v]
        = Decoder(o, s, n, c + Len(params), u, v, g)
  <2> DEFINE m == c + Len(params)
  <2> HIDE DEF u, v, m
  <2>1. [d EXCEPT !.timestamp = u, !.current = m, !.buffer = v] = Decoder(o, s, n, m, u, v, g)
    <3>1. [d EXCEPT !.timestamp = u] = Decoder(o, s, n, c, u, b, g)
      BY DEF Decoder
    <3>2. [Decoder(o, s, n, c, u, b, g) EXCEPT !.current = m] = Decoder(o, s, n, m, u, b, g)
      BY DEF Decoder
    <3>3. [Decoder(o, s, n, m, u, b, g) EXCEPT !.buffer = v] = Decoder(o, s, n, m, u, v, g)
      BY DEF Decoder
    <3> HIDE DEF d
    <3> QED BY <3>1, <3>2, <3>3
  <2> QED BY <2>1 DEF m
<1> HIDE DEF d
<1>4. ParseOdt(d, list, odt, payload)
        = IF params # <<>> /\ first + SumOfLengths(params) > Len(payload)
          THEN [d EXCEPT !.state = "terminated"]
          ELSE [d EXCEPT !.timestamp = u, !.current = c + Len(params), !.buffer = v]
  BY <1>1 DEF ParseOdt, Stamp
<1>5. IsSequence(v) /\ Len(v) = Len(b)
  <2> DEFINE m == Len(b)
             e(k) == IF k - c \in DOMAIN params THEN value(k - c) ELSE b[k]
             X == {e(k) : k \in 1 .. m}
             w == [k \in 1 .. m |-> e(k)]
  <2>1. m \in Nat /\ DOMAIN b = 1 .. m
    BY DEF IsSequence
  <2>2. v = w /\ \A k \in 1 .. m : e(k) \in X
    BY <2>1
  <2> HIDE DEF m, e, X
  <2>3. w \in Seq(X) /\ Len(w) = m
    BY <2>1, <2>2
  <2> HIDE DEF v, w
  <2> QED BY <2>2, <2>3, SequenceIs DEF m
<1> HIDE DEF v, u
<1>6. \/ ParseOdt(d, list, odt, payload) = Decoder(o, "terminated", n, c, t, b, g)
      \/ ParseOdt(d, list, odt, payload) = Decoder(o, s, n, c + Len(params), u, v, g)
  BY <1>2, <1>3, <1>4
<1> QED BY <1>5, <1>6 DEF d, u

Fields(o, s, n, c, t, b, g) ==
  LET d == Decoder(o, s, n, c, t, b, g)
  IN /\ d.odts = o /\ d.state = s /\ d.next = n /\ d.current = c /\ d.timestamp = t
     /\ d.buffer = b /\ d.began = g /\ IsDecoder(d)

LEMMA FieldsHold ==
  ASSUME NEW o, NEW s, NEW n, NEW c, NEW t, NEW b, NEW g
  PROVE  Fields(o, s, n, c, t, b, g)
BY DEF Fields, Decoder, IsDecoder

(* feed() takes an ODT that begins or continues a sample, ...              *)
Taken(f, o, s, n, c, t, b, g, list, odt, payload) ==
  \E v : /\ IsSequence(v) /\ Len(v) = Len(b)
         /\ \/ /\ odt = 0 /\ Len(o) = 1
               /\ f = Decoder(o, "finished", 0, 0 + Len(o[odt + 1]),
                              Stamp(list, odt, payload, t), v, g)
            \/ /\ odt = 0 /\ Len(o) # 1
               /\ f = Decoder(o, "collecting", 1, 0 + Len(o[odt + 1]),
                              Stamp(list, odt, payload, t), v, g)
            \/ /\ odt # 0 /\ s = "collecting" /\ odt = n /\ odt + 1 = Len(o)
               /\ f = Decoder(o, "finished", 0, c + Len(o[odt + 1]),
                              Stamp(list, odt, payload, t), v, g)
            \/ /\ odt # 0 /\ s = "collecting" /\ odt = n /\ odt + 1 # Len(o)
               /\ f = Decoder(o, "collecting", n + 1, c + Len(o[odt + 1]),
                              Stamp(list, odt, payload, t), v, g)

(* ... drops any other, ...                                                *)
Dropped(f, o, s, n, c, t, b, g, odt) ==
  \/ s = "terminated" /\ f = Decoder(o, s, n, c, t, b, g)
  \/ odt # 0 /\ s # "collecting" /\ f = Decoder(o, s, n, c, t, b, g)
  \/ odt # 0 /\ s = "collecting" /\ odt # n /\ f = Decoder(o, "idle", 0, c, t, b, g)

(* ... or the program ends.                                                *)
Crashed(f, o, s, n, c, t, b, g, odt) ==
  \/ odt = 0 /\ \E m \in {0, 1} : /\ m = 1 => Len(o) # 1
                                  /\ f = Decoder(o, "terminated", m, 0, t, b, g)
  \/ /\ odt # 0 /\ s = "collecting" /\ odt = n
     /\ \/ f = Decoder(o, "terminated", 0, c, t, b, g)
        \/ odt + 1 # Len(o) /\ f = Decoder(o, "terminated", n + 1, c, t, b, g)

LEMMA FedIs ==
  ASSUME NEW o, NEW s, NEW n, NEW c, NEW t, NEW b, NEW g, NEW list, NEW odt, NEW payload,
         IsSequence(b), s \in {"idle", "collecting", "terminated"}
  PROVE  LET f == Fed(Decoder(o, s, n, c, t, b, g), list, odt, payload)
         IN \/ Taken(f, o, s, n, c, t, b, g, list, odt, payload)
            \/ Dropped(f, o, s, n, c, t, b, g, odt)
            \/ Crashed(f, o, s, n, c, t, b, g, odt)
<1> DEFINE d == Decoder(o, s, n, c, t, b, g)
           checked == CheckState(d, odt)
           rewound == IF odt = 0 THEN [checked EXCEPT !.current = 0] ELSE checked
           f == Fed(d, list, odt, payload)
           u == Stamp(list, odt, payload, t)
           parsed(e) == ParseOdt(e, list, odt, payload)
<1>1. d.state = s
  BY FieldsHold DEF Fields
<1>2. f = IF s = "terminated" THEN d
          ELSE IF rewound.state \in {"collecting", "finished"} THEN parsed(rewound) ELSE rewound
  <2> HIDE DEF d
  <2> QED BY <1>1 DEF Fed
<1>3. CASE s = "terminated"
  BY <1>2, <1>3 DEF Dropped
<1>4. ASSUME NEW s1, NEW n1, NEW c1, rewound = Decoder(o, s1, n1, c1, t, b, g),
             s1 \in {"collecting", "finished"}, s # "terminated"
      PROVE  \/ f = Decoder(o, "terminated", n1, c1, t, b, g)
             \/ \E v : /\ f = Decoder(o, s1, n1, c1 + Len(o[odt + 1]), u, v, g)
                       /\ IsSequence(v) /\ Len(v) = Len(b)
  <2>1. rewound.state = s1
    <3> DEFINE e == Decoder(o, s1, n1, c1, t, b, g)
    <3>1. e.state = s1 /\ rewound = e
      BY <1>4, FieldsHold DEF Fields
    <3> HIDE DEF e, rewound
    <3> QED BY <3>1
  <2>2. f = parsed(Decoder(o, s1, n1, c1, t, b, g))
    <3> HIDE DEF rewound, d, f, parsed
    <3> QED BY <1>2, <1>4, <2>1
  <2>3. \/ parsed(Decoder(o, s1, n1, c1, t, b, g)) = Decoder(o, "terminated", n1, c1, t, b, g)
        \/ \E v : /\ parsed(Decoder(o, s1, n1, c1, t, b, g))
                       = Decoder(o, s1, n1, c1 + Len(o[odt + 1]), u, v, g)
                  /\ IsSequence(v) /\ Len(v) = Len(b)
    BY Parsed
  <2> HIDE DEF f, parsed, u, d, rewound
  <2> QED BY <2>2, <2>3
<1>5. checked = IF odt = 0 /\ Len(o) = 1 THEN Decoder(o, "finished", 0, c, t, b, g)
                ELSE IF odt = 0 THEN Decoder(o, "collecting", 1, c, t, b, g)
                ELSE IF s # "collecting" THEN d
                ELSE IF odt # n THEN Decoder(o, "idle", 0, c, t, b, g)
                ELSE IF odt + 1 = Len(o) THEN Decoder(o, "finished", 0, c, t, b, g)
                ELSE Decoder(o, s, n + 1, c, t, b, g)
  BY Checked
<1>6. CASE odt = 0 /\ Len(o) = 1 /\ s # "terminated"
  <2>1. [Decoder(o, "finished", 0, c, t, b, g) EXCEPT !.current = 0]
          = Decoder(o, "finished", 0, 0, t, b, g)
    BY DEF Decoder
  <2>2. checked = Decoder(o, "finished", 0, c, t, b, g)
    <3> HIDE DEF checked
    <3> QED BY <1>5, <1>6
  <2>3. rewound = Decoder(o, "finished", 0, 0, t, b, g)
    <3> HIDE DEF checked
    <3> QED BY <1>6, <2>1, <2>2
  <2>4. \/ f = Decoder(o, "terminated", 0, 0, t, b, g)
        \/ \E v : /\ f = Decoder(o, "finished", 0, 0 + Len(o[odt + 1]), u, v, g)
                  /\ IsSequence(v) /\ Len(v) = Len(b)
    <3> HIDE DEF rewound, f, u
    <3> QED BY <1>4, <1>6, <2>3
  <2>5. \/ Taken(f, o, s, n, c, t, b, g, list, odt, payload)
        \/ Crashed(f, o, s, n, c, t, b, g, odt)
    <3> HIDE DEF f
    <3> QED BY <1>6, <2>4 DEF Taken, Crashed
  <2> QED BY <2>5
<1>7. CASE odt = 0 /\ Len(o) # 1 /\ s # "terminated"
  <2>1. [Decoder(o, "collecting", 1, c, t, b, g) EXCEPT !.current = 0]
          = Decoder(o, "collecting", 1, 0, t, b, g)
    BY DEF Decoder
  <2>2. checked = Decoder(o, "collecting", 1, c, t, b, g)
    <3> HIDE DEF checked
    <3> QED BY <1>5, <1>7
  <2>3. rewound = Decoder(o, "collecting", 1, 0, t, b, g)
    <3> HIDE DEF checked
    <3> QED BY <1>7, <2>1, <2>2
  <2>4. \/ f = Decoder(o, "terminated", 1, 0, t, b, g)
        \/ \E v : /\ f = Decoder(o, "collecting", 1, 0 + Len(o[odt + 1]), u, v, g)
                  /\ IsSequence(v) /\ Len(v) = Len(b)
    <3> HIDE DEF rewound, f, u
    <3> QED BY <1>4, <1>7, <2>3
  <2>5. \/ Taken(f, o, s, n, c, t, b, g, list, odt, payload)
        \/ Crashed(f, o, s, n, c, t, b, g, odt)
    <3> HIDE DEF f
    <3> QED BY <1>7, <2>4 DEF Taken, Crashed
  <2> QED BY <2>5
<1>8. CASE odt # 0 /\ s # "collecting" /\ s # "terminated"
  <2>1. rewound = d
    <3> HIDE DEF checked, d
    <3> QED BY <1>5, <1>8
  <2>2. f = d
    <3> HIDE DEF rewound, d, f
    <3> QED BY <1>1, <1>2, <1>8, <2>1
  <2> QED BY <1>8, <2>2 DEF Dropped
<1>9. CASE odt # 0 /\ s = "collecting" /\ odt # n
  <2>1. rewound = Decoder(o, "idle", 0, c, t, b, g)
    <3> HIDE DEF checked, d
    <3> QED BY <1>5, <1>9
  <2>2. Decoder(o, "idle", 0, c, t, b, g).state = "idle"
    BY DEF Decoder
  <2>3. f = Decoder(o, "idle", 0, c, t, b, g)
    <3> HIDE DEF rewound, d, f
    <3> QED BY <1>2, <1>9, <2>1, <2>2
  <2> QED BY <1>9, <2>3 DEF Dropped
<1>10. CASE odt # 0 /\ s = "collecting" /\ odt = n /\ odt + 1 = Len(o)
  <2>1. rewound = Decoder(o, "finished", 0, c, t, b, g)
    <3> HIDE DEF checked, d
    <3> QED BY <1>5, <1>10
  <2>2. \/ f = Decoder(o, "terminated", 0, c, t, b, g)
        \/ \E v : /\ f = Decoder(o, "finished", 0, c + Len(o[odt + 1]), u, v, g)
                  /\ IsSequence(v) /\ Len(v) = Len(b)
    <3> HIDE DEF rewound, f, u
    <3> QED BY <1>4, <1>10, <2>1
  <2>5. \/ Taken(f, o, s, n, c, t, b, g, list, odt, payload)
        \/ Crashed(f, o, s, n, c, t, b, g, odt)
    <3> HIDE DEF f
    <3> QED BY <1>10, <2>2 DEF Taken, Crashed
  <2> QED BY <2>5
<1>11. CASE odt # 0 /\ s = "collecting" /\ odt = n /\ odt + 1 # Len(o)
  <2>1. rewound = Decoder(o, "collecting", n + 1, c, t, b, g)
    <3> HIDE DEF checked, d
    <3> QED BY <1>5, <1>11
  <2>2. \/ f = Decoder(o, "terminated", n + 1, c, t, b, g)
        \/ \E v : /\ f = Decoder(o, "collecting", n + 1, c + Len(o[odt + 1]), u, v, g)
                  /\ IsSequence(v) /\ Len(v) = Len(b)
    <3> HIDE DEF rewound, f, u
    <3> QED BY <1>4, <1>11, <2>1
  <2>5. \/ Taken(f, o, s, n, c, t, b, g, list, odt, payload)
        \/ Crashed(f, o, s, n, c, t, b, g, odt)
    <3> HIDE DEF f
    <3> QED BY <1>11, <2>2 DEF Taken, Crashed
  <2> QED BY <2>5
<1> QED BY <1>3, <1>6, <1>7, <1>8, <1>9, <1>10, <1>11

(* Where the measurements of the ODTs end.                                 *)
Ends(bins, m) == Len(FlattenSeq(Pieces(FlattenOdts(bins), m)))

LEMMA EndsGrow ==
  ASSUME NEW bins \in BinSeqs
  PROVE  /\ Len(bins) \in Nat \ {0} /\ Ends(bins, Len(bins)) = Len(Flat(bins))
         /\ Ends(bins, 1) = Len(FlattenOdts(bins)[1])
         /\ \A m \in 0 .. Len(bins) : Ends(bins, m) \in 0 .. Len(Flat(bins))
         /\ \A m \in 0 .. Len(bins) - 1 :
              Ends(bins, m + 1) = Ends(bins, m) + Len(FlattenOdts(bins)[m + 1])
<1> DEFINE o == FlattenOdts(bins)
           n == Len(bins)
<1>1. n \in Nat \ {0} /\ n \in Nat /\ \A j \in 1 .. n : o[j] \in Seq(Objects)
  BY OdtsTyped
<1>2. Ends(bins, n) = Len(Flat(bins))
  BY DEF Ends, Flat
<1>3. FlattenSeq(Pieces(o, 1)) = o[1]
  BY FlattenOne
<1>4. Ends(bins, 1) = Len(o[1])
  BY <1>3 DEF Ends
<1> HIDE DEF o, n
<1>5. ASSUME NEW m \in 0 .. n PROVE Ends(bins, m) \in 0 .. Len(Flat(bins))
  <2>1. /\ Len(FlattenSeq(Pieces(o, m))) \in Nat
        /\ Len(FlattenSeq(Pieces(o, n))) \in Nat
        /\ Len(FlattenSeq(Pieces(o, m))) <= Len(FlattenSeq(Pieces(o, n)))
    BY <1>1, FlattenGrows
  <2>2. Ends(bins, m) \in Nat /\ Ends(bins, n) \in Nat /\ Ends(bins, m) <= Ends(bins, n)
    BY <2>1 DEF Ends, o
  <2> QED BY <1>2, <2>2
<1>6. ASSUME NEW m \in 0 .. n - 1
      PROVE  Ends(bins, m + 1) = Ends(bins, m) + Len(o[m + 1])
  <2>1. Len(FlattenSeq(Pieces(o, m + 1))) = Len(FlattenSeq(Pieces(o, m))) + Len(o[m + 1])
    BY <1>1, FlattenNext
  <2> QED BY <2>1 DEF Ends, o
<1> QED BY <1>1, <1>2, <1>4, <1>5, <1>6 DEF o, n

(* What a decoder has to be, in its parts.                                 *)
LEMMA DecodingOf ==
  ASSUME NEW bins \in BinSeqs, NEW o, NEW s, NEW n, NEW c, NEW t, NEW b, NEW g,
         o = FlattenOdts(bins), s \in {"idle", "collecting", "terminated"},
         n \in 0 .. Len(bins) - 1, IsSequence(b), Len(b) = Len(Flat(bins)), c \in 0 .. Len(b),
         s = "collecting" => n > 0 /\ c = Ends(bins, n)
  PROVE  Decoding(Decoder(o, s, n, c, t, b, g), bins)
<1> DEFINE d == Decoder(o, s, n, c, t, b, g)
<1>1. d.odts = o /\ d.state = s /\ d.next = n /\ d.current = c /\ d.timestamp = t
      /\ d.buffer = b /\ d.began = g /\ IsDecoder(d)
  BY FieldsHold DEF Fields
<1> HIDE DEF d
<1>2. Decoding(d, bins)
  BY <1>1 DEF Decoding, Ends
<1> QED BY <1>2 DEF d

Idle(f) == IF f.state = "finished" THEN [f EXCEPT !.state = "idle"] ELSE f

(* feed() keeps the counters of a decoder within its buffer.               *)
LEMMA FedKeeps ==
  ASSUME NEW bins \in BinSeqs, NEW d, Decoding(d, bins), NEW list, NEW odt, NEW payload
  PROVE  Decoding(Idle(Fed(d, list, odt, payload)), bins)
<1> DEFINE o == d.odts
           s == d.state
           n == d.next
           c == d.current
           t == d.timestamp
           b == d.buffer
           g == d.began
           f == Fed(d, list, odt, payload)
           u == Stamp(list, odt, payload, t)
           N == Len(bins)
<1>1. /\ d = Decoder(o, s, n, c, t, b, g)
      /\ o = FlattenOdts(bins) /\ s \in {"idle", "collecting", "terminated"}
      /\ n \in 0 .. N - 1 /\ IsSequence(b) /\ Len(b) = Len(Flat(bins)) /\ c \in 0 .. Len(b)
      /\ s = "collecting" => n > 0 /\ c = Ends(bins, n)
  BY DEF Decoding, IsDecoder, Ends
<1>2. /\ Len(o) = N /\ N \in Nat \ {0} /\ Ends(bins, N) = Len(b)
      /\ Ends(bins, 1) = Len(o[1])
      /\ \A m \in 0 .. N : Ends(bins, m) \in 0 .. Len(b)
      /\ \A m \in 0 .. N - 1 : Ends(bins, m + 1) = Ends(bins, m) + Len(o[m + 1])
  BY <1>1, OdtsTyped, EndsGrow
<1> HIDE DEF o, s, n, c, t, b, g, u, N
<1>3. \/ Taken(f, o, s, n, c, t, b, g, list, odt, payload)
      \/ Dropped(f, o, s, n, c, t, b, g, odt)
      \/ Crashed(f, o, s, n, c, t, b, g, odt)
  BY <1>1, FedIs
<1>3a. SUFFICES Decoding(Idle(f), bins)
  OBVIOUS
<1> HIDE DEF f
<1>4. ASSUME NEW s1, NEW n1, NEW c1, NEW t1, NEW b1, f = Decoder(o, s1, n1, c1, t1, b1, g),
             s1 \in {"idle", "collecting", "terminated", "finished"}, n1 \in 0 .. N - 1,
             IsSequence(b1), Len(b1) = Len(b), c1 \in 0 .. Len(b),
             s1 = "collecting" => n1 > 0 /\ c1 = Ends(bins, n1)
      PROVE  Decoding(Idle(f), bins)
  <2>1. f.state = s1
    BY <1>4, FieldsHold DEF Fields
  <2>2. CASE s1 = "finished"
    <3>1. [Decoder(o, s1, n1, c1, t1, b1, g) EXCEPT !.state = "idle"]
            = Decoder(o, "idle", n1, c1, t1, b1, g)
      BY Updated
    <3>2. Idle(f) = Decoder(o, "idle", n1, c1, t1, b1, g)
      BY <1>4, <2>1, <2>2, <3>1 DEF Idle
    <3>3. Decoding(Decoder(o, "idle", n1, c1, t1, b1, g), bins)
      BY <1>1, <1>4, DecodingOf DEF N
    <3> QED BY <3>2, <3>3
  <2>3. CASE s1 # "finished"
    <3>1. Idle(f) = Decoder(o, s1, n1, c1, t1, b1, g)
      BY <1>4, <2>1, <2>3 DEF Idle
    <3>2. Decoding(Decoder(o, s1, n1, c1, t1, b1, g), bins)
      BY <1>1, <1>4, <2>3, DecodingOf DEF N
    <3> QED BY <3>1, <3>2
  <2> QED BY <2>2, <2>3
<1>5. CASE Taken(f, o, s, n, c, t, b, g, list, odt, payload)
  <2>1. PICK v :
          /\ IsSequence(v) /\ Len(v) = Len(b)
          /\ \/ /\ odt = 0 /\ N = 1
                /\ f = Decoder(o, "finished", 0, 0 + Len(o[odt + 1]), u, v, g)
             \/ /\ odt = 0 /\ N # 1
                /\ f = Decoder(o, "collecting", 1, 0 + Len(o[odt + 1]), u, v, g)
             \/ /\ odt # 0 /\ s = "collecting" /\ odt = n /\ odt + 1 = N
                /\ f = Decoder(o, "finished", 0, c + Len(o[odt + 1]), u, v, g)
             \/ /\ odt # 0 /\ s = "collecting" /\ odt = n /\ odt + 1 # N
                /\ f = Decoder(o, "collecting", n + 1, c + Len(o[odt + 1]), u, v, g)
    BY <1>2, <1>5 DEF Taken, u
  <2>2. CASE odt = 0
    <3>1. 0 + Len(o[odt + 1]) = Ends(bins, 1)
          /\ Ends(bins, 1) \in 0 .. Len(b)
      <4>1. 1 \in 0 .. N /\ odt + 1 = 1
        BY <1>2, <2>2
      <4>2. Ends(bins, 1) = Len(o[odt + 1]) /\ Ends(bins, 1) \in 0 .. Len(b)
        BY <1>2, <4>1
      <4>3. \A x \in 0 .. Len(b) : 0 + x = x
        OBVIOUS
      <4> QED BY <4>2, <4>3
    <3> DEFINE x == 0 + Len(o[odt + 1])
    <3>2. x = Ends(bins, 1) /\ x \in 0 .. Len(b)
      BY <3>1
    <3> HIDE DEF x
    <3>3. CASE N = 1
      <4>1. f = Decoder(o, "finished", 0, x, u, v, g)
        BY <2>1, <2>2, <3>3 DEF x
      <4>2. 0 \in 0 .. N - 1
        BY <1>2
      <4> QED BY <1>4, <2>1, <3>2, <4>1, <4>2
    <3>4. CASE N # 1
      <4>1. f = Decoder(o, "collecting", 1, x, u, v, g)
        BY <2>1, <2>2, <3>4 DEF x
      <4>2. 1 \in 0 .. N - 1 /\ 1 > 0
        BY <1>2, <3>4
      <4> QED BY <1>4, <2>1, <3>2, <4>1, <4>2
    <3> QED BY <3>3, <3>4
  <2>3. CASE odt # 0
    <3> DEFINE x == c + Len(o[odt + 1])
    <3>1. s = "collecting" /\ odt = n /\ c = Ends(bins, n) /\ n > 0
      BY <1>1, <2>1, <2>3
    <3>2. x = Ends(bins, n + 1) /\ x \in 0 .. Len(b)
      <4>1. n + 1 \in 0 .. N
        BY <1>1, <1>2
      <4> QED BY <1>1, <1>2, <3>1, <4>1
    <3> HIDE DEF x
    <3>3. CASE odt + 1 = N
      <4>1. f = Decoder(o, "finished", 0, x, u, v, g)
        BY <2>1, <2>3, <3>3 DEF x
      <4>2. 0 \in 0 .. N - 1
        BY <1>2
      <4> QED BY <1>4, <2>1, <3>2, <4>1, <4>2
    <3>4. CASE odt + 1 # N
      <4>1. f = Decoder(o, "collecting", n + 1, x, u, v, g)
        BY <2>1, <2>3, <3>4 DEF x
      <4>2. n + 1 \in 0 .. N - 1 /\ n + 1 > 0
        BY <1>1, <1>2, <3>1, <3>4
      <4> QED BY <1>4, <2>1, <3>2, <4>1, <4>2
    <3> QED BY <3>3, <3>4
  <2> QED BY <2>2, <2>3
<1>6. CASE Dropped(f, o, s, n, c, t, b, g, odt)
  <2>1. CASE f = Decoder(o, s, n, c, t, b, g)
    BY <1>1, <1>4, <2>1
  <2>2. CASE f = Decoder(o, "idle", 0, c, t, b, g)
    <3>1. 0 \in 0 .. N - 1
      BY <1>2
    <3> QED BY <1>1, <1>4, <2>2, <3>1
  <2> QED BY <1>6, <2>1, <2>2 DEF Dropped
<1>7. CASE Crashed(f, o, s, n, c, t, b, g, odt)
  <2>1. CASE odt = 0
    <3>1. PICK m \in {0, 1} : (m = 1 => N # 1) /\ f = Decoder(o, "terminated", m, 0, t, b, g)
      BY <1>2, <1>7, <2>1 DEF Crashed
    <3>2. m \in 0 .. N - 1 /\ 0 \in 0 .. Len(b)
      <4>1. Len(b) \in Nat
        BY <1>1 DEF IsSequence
      <4> QED BY <1>2, <3>1, <4>1
    <3> QED BY <1>1, <1>4, <3>1, <3>2
  <2>2. CASE odt # 0
    <3>1. CASE f = Decoder(o, "terminated", 0, c, t, b, g)
      <4>1. 0 \in 0 .. N - 1
        BY <1>2
      <4> QED BY <1>1, <1>4, <3>1, <4>1
    <3>2. CASE odt + 1 # N /\ odt = n /\ f = Decoder(o, "terminated", n + 1, c, t, b, g)
      <4>1. n + 1 \in 0 .. N - 1
        BY <1>1, <1>2, <3>2
      <4> QED BY <1>1, <1>4, <3>2, <4>1
    <3> QED BY <1>2, <1>7, <2>2, <3>1, <3>2 DEF Crashed
  <2> QED BY <2>1, <2>2
<1> QED BY <1>3, <1>5, <1>6, <1>7

LEMMA BegunKeeps ==
  ASSUME NEW bins \in BinSeqs, NEW d, Decoding(d, bins), NEW x
  PROVE  Decoding([d EXCEPT !.began = x], bins)
<1> DEFINE o == d.odts
           s == d.state
           n == d.next
           c == d.current
           t == d.timestamp
           b == d.buffer
           g == d.began
<1>1. /\ d = Decoder(o, s, n, c, t, b, g)
      /\ o = FlattenOdts(bins) /\ s \in {"idle", "collecting", "terminated"}
      /\ n \in 0 .. Len(bins) - 1 /\ IsSequence(b) /\ Len(b) = Len(Flat(bins))
      /\ c \in 0 .. Len(b)
      /\ s = "collecting" => n > 0 /\ c = Ends(bins, n)
  BY DEF Decoding, IsDecoder, Ends
<1> HIDE DEF o, s, n, c, t, b, g
<1>2. [d EXCEPT !.began = x] = Decoder(o, s, n, c, t, b, x)
  <2>1. [Decoder(o, s, n, c, t, b, g) EXCEPT !.began = x] = Decoder(o, s, n, c, t, b, x)
    BY DEF Decoder
  <2> QED BY <1>1, <2>1
<1>3. Decoding(Decoder(o, s, n, c, t, b, x), bins)
  <2>1. o = FlattenOdts(bins) /\ s \in {"idle", "collecting", "terminated"}
    BY <1>1
  <2>2. n \in 0 .. Len(bins) - 1 /\ IsSequence(b) /\ Len(b) = Len(Flat(bins))
        /\ c \in 0 .. Len(b)
    BY <1>1
  <2>3. s = "collecting" => n > 0 /\ c = Ends(bins, n)
    BY <1>1
  <2> QED BY <2>1, <2>2, <2>3, DecodingOf
<1> QED BY <1>2, <1>3

-----------------------------------------------------------------------------
(***************************************************************************)
(* Every step keeps the invariant                                          *)
(***************************************************************************)
LEMMA EmptySequence == IsSequence(<<>>) /\ Len(<<>>) = 0
<1>1. <<>> \in Seq({}) /\ Len(<<>>) = 0
  OBVIOUS
<1> QED BY <1>1, SequenceIs

LEMMA DecodersKept ==
  ASSUME Decoders, config' = config, plan' = plan \/ plan' = NewPlan, decoders' = decoders
  PROVE  Decoders'
<1>1. ListIndices' = ListIndices /\ NewPlan' = NewPlan
  BY Constancy
<1>2. CASE decoders = <<>>
  BY <1>2 DEF Decoders
<1>3. CASE decoders # <<>>
  <2>1. /\ plan = NewPlan /\ decoders = [i \in ListIndices |-> decoders[i]]
        /\ \A i \in ListIndices : Decoding(decoders[i], NewPlan[i])
    BY <1>3 DEF Decoders
  <2>2. plan' = NewPlan' /\ decoders' = [i \in ListIndices' |-> decoders'[i]]
    BY <1>1, <2>1
  <2>3. \A i \in ListIndices' : Decoding(decoders[i], NewPlan[i])'
    BY <1>1, <2>1 DEF Decoding, IsDecoder, IsSequence, Flat
  <2> QED BY <2>2, <2>3 DEF Decoders
<1> QED BY <1>2, <1>3

LEMMA TrackersKept ==
  ASSUME DaqInv, config' = config, trackers' = trackers,
         \/ rounds' = rounds /\ (phase' = "commanding" => phase = "commanding")
         \/ rounds' = rounds + 1
  PROVE  Trackers'
<1>1. rounds \in Nat /\ IsSequence(trackers)
  BY ConfigTyped DEF DaqInv, Trackers
<1>2. PICK r \in 0 .. rounds :
        Len(trackers) = r * Len(config.lists) /\ (phase = "commanding" => r < rounds)
  BY DEF DaqInv, Trackers
<1>3. r \in 0 .. rounds' /\ (phase' = "commanding" => r < rounds')
  BY <1>1, <1>2
<1>4. Len(trackers') = r * Len(config'.lists) /\ IsSequence(trackers)'
  BY <1>1, <1>2 DEF IsSequence
<1> QED BY <1>3, <1>4 DEF Trackers

LEMMA FeedKeeps ==
  ASSUME DaqInv, NEW dto, Feed(dto), config' = config, plan' = plan, phase' = phase,
         rounds' = rounds
  PROVE  Decoders' /\ Trackers'
<1> DEFINE id == GetId(dto.id)
           i == id[1] + 1
           begun == IF id[2] = 0 THEN [decoders[i] EXCEPT !.began = dto.time] ELSE decoders[i]
           fed == Fed(begun, config.lists[i], id[2], dto.payload)
           tracker == Normalized(trackers[i], fed.timestamp)
<1>1. config \in Configurations /\ Decoders /\ Trackers
  BY DEF DaqInv
<1>2. \/ decoders' = decoders /\ trackers' = trackers
      \/ /\ i \in ListIndices /\ decoders' = [decoders EXCEPT ![i] = Idle(fed)]
         /\ \/ trackers' = trackers
            \/ \E t : trackers' = [trackers EXCEPT ![i] = t]
  <2>1. CASE i \notin ListIndices
    BY <2>1 DEF Feed, unfolder
  <2>2. CASE i \in ListIndices /\ fed.state # "finished"
    <3>1. decoders' = [decoders EXCEPT ![i] = fed] /\ UNCHANGED <<trackers, last>>
      BY <2>2 DEF Feed
    <3> HIDE DEF fed, i
    <3> QED BY <2>2, <3>1 DEF Idle
  <2>3. CASE i \in ListIndices /\ fed.state = "finished"
    <3>1. /\ decoders' = [decoders EXCEPT ![i] = [fed EXCEPT !.state = "idle"]]
          /\ trackers' = [trackers EXCEPT ![i] = tracker]
      BY <2>3 DEF Feed
    <3> HIDE DEF fed, i, tracker
    <3> QED BY <2>3, <3>1 DEF Idle
  <2> QED BY <2>1, <2>2, <2>3
<1>3. CASE decoders' = decoders /\ trackers' = trackers
  BY <1>1, <1>3, DecodersKept, TrackersKept
<1>4. CASE /\ i \in ListIndices /\ decoders' = [decoders EXCEPT ![i] = Idle(fed)]
           /\ \/ trackers' = trackers
              \/ \E t : trackers' = [trackers EXCEPT ![i] = t]
  <2>0. ListIndices' = ListIndices /\ NewPlan' = NewPlan
    BY Constancy
  <2>1. Decoders'
    <3>1. CASE decoders = <<>>
      <4> DEFINE x == Idle(fed)
                 e == [<<>> EXCEPT ![i] = x]
      <4> HIDE DEF x, i
      <4>1. IsSequence(e) /\ Len(e) = 0
        BY EmptySequence, SequenceUpdated
      <4> HIDE DEF e
      <4>2. e = <<>>
        <5>1. e \in Seq({})
          <6>1. \A k \in 1 .. Len(e) : e[k] \in {}
            BY <4>1
          <6> QED BY <4>1, <6>1, SequenceOf
        <5> QED BY <4>1, <5>1, EmptySeq
      <4>3. decoders' = <<>>
        BY <1>4, <3>1, <4>2 DEF e, x
      <4> QED BY <4>3 DEF Decoders
    <3>2. CASE decoders # <<>>
      <4>1. /\ plan = NewPlan /\ decoders = [k \in ListIndices |-> decoders[k]]
            /\ \A k \in ListIndices : Decoding(decoders[k], NewPlan[k])
        BY <1>1, <3>2 DEF Decoders
      <4>2. NewPlan[i] \in BinSeqs /\ Decoding(decoders[i], NewPlan[i])
        BY <1>1, <1>4, <4>1, PlanList
      <4>3. Decoding(begun, NewPlan[i])
        <5> DEFINE x == dto.time
                   d == decoders[i]
                   bins == NewPlan[i]
                   z == id[2]
        <5>1. bins \in BinSeqs /\ Decoding(d, bins)
          BY <4>2
        <5>2. begun = IF z = 0 THEN [d EXCEPT !.began = x] ELSE d
          OBVIOUS
        <5> HIDE DEF x, d, bins, begun, z
        <5>3. Decoding([d EXCEPT !.began = x], bins)
          BY <5>1, BegunKeeps
        <5>4. Decoding(begun, bins)
          BY <5>1, <5>2, <5>3
        <5> QED BY <5>4 DEF bins
      <4>4. Decoding(Idle(fed), NewPlan[i])
        <5> DEFINE l == config.lists[i]
                   p == dto.payload
                   bins == NewPlan[i]
                   z == id[2]
        <5>1. bins \in BinSeqs /\ Decoding(begun, bins)
          BY <4>2, <4>3
        <5>2. fed = Fed(begun, l, z, p)
          OBVIOUS
        <5> HIDE DEF l, p, bins, z, begun, fed
        <5>3. Decoding(Idle(Fed(begun, l, z, p)), bins)
          BY <5>1, FedKeeps
        <5> QED BY <5>2, <5>3 DEF bins
      <4> DEFINE x == Idle(fed)
      <4>5. decoders' = [decoders EXCEPT ![i] = x] /\ Decoding(x, NewPlan[i]) /\ i \in ListIndices
        BY <1>4, <4>4
      <4> HIDE DEF x, i
      <4>6. decoders' = [k \in ListIndices |-> IF k = i THEN x ELSE decoders[k]]
        BY <4>1, <4>5
      <4>7. /\ decoders' = [k \in ListIndices |-> decoders'[k]]
            /\ \A k \in ListIndices : Decoding(decoders'[k], NewPlan[k])
        BY <4>1, <4>5, <4>6
      <4>8. plan' = NewPlan' /\ decoders' = [k \in ListIndices' |-> decoders'[k]]
        BY <2>0, <4>1, <4>7
      <4>9. \A k \in ListIndices' : Decoding(decoders[k], NewPlan[k])'
        BY <2>0, <4>7 DEF Decoding, IsDecoder, IsSequence, Flat
      <4> QED BY <4>8, <4>9 DEF Decoders
    <3> QED BY <3>1, <3>2
  <2>2. Trackers'
    <3>1. CASE trackers' = trackers
      BY <3>1, TrackersKept
    <3>2. ASSUME NEW t, trackers' = [trackers EXCEPT ![i] = t] PROVE Trackers'
      <4>1. IsSequence(trackers)
        BY <1>1 DEF Trackers
      <4> HIDE DEF i
      <4>2. IsSequence(trackers') /\ Len(trackers') = Len(trackers)
        BY <3>2, <4>1, SequenceUpdated
      <4>3. PICK r \in 0 .. rounds :
              Len(trackers) = r * Len(config.lists) /\ (phase = "commanding" => r < rounds)
        BY <1>1 DEF Trackers
      <4>4. IsSequence(trackers)'
        BY <4>2 DEF IsSequence
      <4>5. r \in 0 .. rounds' /\ Len(trackers') = r * Len(config'.lists)
            /\ (phase' = "commanding" => r < rounds')
        BY <4>2, <4>3
      <4> QED BY <4>4, <4>5 DEF Trackers
    <3> QED BY <1>4, <3>1, <3>2
  <2> QED BY <2>1, <2>2
<1> QED BY <1>2, <1>3, <1>4

LEMMA InitHolds == Init => DaqInv
<1> SUFFICES ASSUME Init PROVE DaqInv
  OBVIOUS
<1>1. config \in Configurations /\ phase = "idle" /\ cause = "none" /\ firstPids = <<>>
      /\ decoders = <<>> /\ trackers = <<>> /\ clock = 0 /\ events = 0 /\ faults = 0
      /\ rounds = 0
  BY DEF Init
<1>2. Len(config.lists) \in Nat /\ config.events \in Nat /\ config.faults \in Nat
      /\ config.rounds \in Nat
  BY <1>1, ConfigTyped
<1>3. IsSequence(firstPids) /\ Len(firstPids) <= Len(config.lists)
  BY <1>1, <1>2, EmptySequence
<1>4. Commanding
  BY <1>1 DEF Commanding
<1>5. Decoders
  BY <1>1 DEF Decoders
<1>6. Trackers
  <2>1. IsSequence(trackers) /\ Len(trackers) = 0 * Len(config.lists)
    BY <1>1, <1>2, EmptySequence
  <2>2. 0 \in 0 .. rounds /\ phase # "commanding"
    BY <1>1
  <2> QED BY <2>1, <2>2 DEF Trackers
<1>7. phase \in Phases /\ cause \in Causes
  BY <1>1 DEF Phases, Causes
<1>8. clock \in Nat /\ events \in 0 .. config.events /\ faults \in 0 .. config.faults
      /\ rounds \in 0 .. config.rounds
  BY <1>1, <1>2
<1> QED BY <1>1, <1>3, <1>4, <1>5, <1>6, <1>7, <1>8 DEF DaqInv

LEMMA SetupHolds ==
  ASSUME DaqInv, Setup
  PROVE  DaqInv'
<1>1. /\ config' = config /\ decoders' = decoders /\ trackers' = trackers /\ clock' = clock
      /\ events' = events /\ faults' = faults /\ rounds' = rounds + 1
      /\ rounds < config.rounds /\ config \in Configurations
  BY DEF Setup, unfolder, outside, DaqInv
<1>2. rounds' \in 0 .. config'.rounds /\ clock' \in Nat /\ events' \in 0 .. config'.events
      /\ faults' \in 0 .. config'.faults /\ config' \in Configurations
  BY <1>1, ConfigTyped DEF DaqInv
<1>3. Trackers'
  BY <1>1, TrackersKept
<1>4. CASE Obstacle # "none"
  <2>1. phase' = "raised" /\ cause' = Obstacle /\ plan' = plan /\ firstPids' = firstPids
    BY <1>4 DEF Setup, Raise
  <2>2. phase' \in Phases /\ cause' \in Causes
    BY <2>1 DEF Obstacle, Phases, Causes
  <2>3. Decoders'
    BY <1>1, <2>1, DecodersKept DEF DaqInv
  <2>4. Commanding'
    BY <2>1 DEF Commanding
  <2>5. IsSequence(firstPids)' /\ Len(firstPids') <= Len(config'.lists)
    BY <1>1, <2>1 DEF DaqInv, IsSequence
  <2> QED BY <1>2, <1>3, <2>2, <2>3, <2>4, <2>5 DEF DaqInv
<1>5. CASE Obstacle = "none"
  <2>1. phase' = "commanding" /\ cause' = "none" /\ plan' = NewPlan /\ firstPids' = <<>>
        /\ todo' = Cmds
    BY <1>5 DEF Setup, Cmds
  <2>2. phase' \in Phases /\ cause' \in Causes
    BY <2>1 DEF Phases, Causes
  <2>3. Decoders'
    BY <1>1, <2>1, DecodersKept DEF DaqInv
  <2>4. NewPlan' = NewPlan /\ Cmds' = Cmds /\ FirstOf(5)' = FirstOf(5)
    BY <1>1, Constancy
  <2>5. Cmds \in Seq(Commands) /\ Len(Cmds) \in Nat /\ FirstOf(5) \in Nat
    BY <1>1, CmdsTyped
  <2>6. Cmds = SubSeq(Cmds, 0 + 1, Len(Cmds))
    BY <2>5
  <2>7. Done' = 0
    BY <2>1, <2>4, <2>5 DEF Done
  <2>8. Len(firstPids') = 0 /\ IsSequence(firstPids)'
    BY <2>1, EmptySequence DEF IsSequence
  <2>9. Commanding'
    BY <2>1, <2>4, <2>5, <2>6, <2>7, <2>8 DEF Commanding
  <2>10. Len(firstPids') <= Len(config'.lists)
    BY <1>1, <2>8, ConfigTyped
  <2> QED BY <1>2, <1>3, <2>2, <2>3, <2>8, <2>9, <2>10 DEF DaqInv
<1> QED BY <1>4, <1>5

LEMMA CommandHolds ==
  ASSUME DaqInv, Command
  PROVE  DaqInv'
<1>1. PICK c \in Upcoming :
        /\ todo' = Tail(todo)
        /\ firstPids' = IF c.cmd # "START_STOP_DAQ_LIST" THEN firstPids
                        ELSE Append(firstPids, FirstPid(device, c.list))
        /\ UNCHANGED <<config, phase, cause, plan, unfolder, clock, events, line, faults, rounds,
                       lost>>
  BY DEF Command
<1>2. phase = "commanding" /\ todo # <<>> /\ c = Head(todo)
  BY <1>1 DEF Upcoming
<1>3. /\ config' = config /\ phase' = phase /\ cause' = cause /\ plan' = plan
      /\ decoders' = decoders /\ trackers' = trackers /\ clock' = clock
      /\ events' = events /\ faults' = faults /\ rounds' = rounds
  BY <1>1 DEF unfolder
<1>4. config \in Configurations /\ Commanding /\ Decoders /\ IsSequence(firstPids)
      /\ Len(firstPids) \in Nat
  BY DEF DaqInv, IsSequence
<1>5. /\ Done \in 0 .. Len(Cmds) - 1 /\ c = Cmds[Done + 1]
      /\ Tail(todo) = SubSeq(Cmds, (Done + 1) + 1, Len(Cmds))
      /\ Len(Cmds) - Len(Tail(todo)) = Done + 1
      /\ Len(Cmds) \in Nat
  BY <1>2, <1>4, NextCommand
<1>6. NewPlan' = NewPlan /\ Cmds' = Cmds /\ FirstOf(5)' = FirstOf(5)
  BY <1>3, Constancy
<1>7. Done' = Done + 1
  BY <1>1, <1>5, <1>6 DEF Done
<1>8. FirstOf(5) \in Nat /\ Len(Cmds) = FirstOf(5) + 2 * Len(config.lists)
      /\ Len(config.lists) \in Nat
  BY <1>4, CmdsTyped, ConfigTyped
<1> DEFINE k == Done
           F == FirstOf(5)
           m == Len(firstPids)
           starts == c.cmd = "START_STOP_DAQ_LIST"
<1>9. /\ k + 1 <= F => ~starts
      /\ k + 1 > F => \E i \in Nat \ {0} :
                         \/ k + 1 = F + (2 * i - 1) /\ ~starts
                         \/ k + 1 = F + 2 * i /\ starts
  <2>1. k + 1 \in 1 .. Len(Cmds)
    BY <1>5
  <2>2. ListIndices \subseteq Nat \ {0}
    BY <1>4, ConfigTyped
  <2>3. CASE k + 1 <= F
    <3>1. c \in Allocations
      BY <1>4, <1>5, <2>1, <2>3, StartsAt
    <3>2. c.cmd # "START_STOP_DAQ_LIST"
      BY <3>1 DEF Allocations, Frees, AllocDaqs, AllocOdts, AllocEntries, SetPtrs, Writes
    <3> QED BY <1>5, <1>8, <2>3, <3>2
  <2>4. CASE k + 1 > F
    <3>1. PICK i \in ListIndices :
            \/ k + 1 = F + (2 * i - 1) /\ c = SetDaqListMode(i)
            \/ k + 1 = F + 2 * i /\ c = StartStopDaqList(i)
      BY <1>4, <1>5, <2>1, <2>4, StartsAt
    <3>2. SetDaqListMode(i).cmd # "START_STOP_DAQ_LIST"
          /\ StartStopDaqList(i).cmd = "START_STOP_DAQ_LIST"
      BY DEF SetDaqListMode, StartStopDaqList
    <3>3. \/ k + 1 = F + (2 * i - 1) /\ ~starts
          \/ k + 1 = F + 2 * i /\ starts
      BY <3>1, <3>2
    <3>4. i \in Nat \ {0} /\ ~(k + 1 <= F)
      BY <1>5, <1>8, <2>2, <2>4
    <3> HIDE DEF k, F, starts
    <3> QED BY <3>3, <3>4
  <2>5. k + 1 <= F \/ k + 1 > F
    BY <1>5, <1>8
  <2> QED BY <1>5, <1>8, <2>3, <2>4, <2>5
<1>10. /\ k <= F => m = 0
       /\ k > F => 2 * m <= k - F /\ k - F <= 2 * m + 1
  BY <1>2, <1>4 DEF Commanding
<1>11. /\ IsSequence(firstPids') /\ Len(firstPids') = IF starts THEN m + 1 ELSE m
  <2>1. CASE starts
    BY <1>1, <1>4, <2>1, SequenceAppended
  <2>2. CASE ~starts
    BY <1>1, <1>4, <2>2
  <2> QED BY <2>1, <2>2
<1>12. /\ k + 1 <= F => Len(firstPids') = 0
       /\ k + 1 > F => /\ 2 * Len(firstPids') <= (k + 1) - F
                       /\ (k + 1) - F <= 2 * Len(firstPids') + 1
  <2>1. k \in Nat /\ F \in Nat /\ m \in Nat /\ Len(firstPids') = IF starts THEN m + 1 ELSE m
    BY <1>4, <1>5, <1>8, <1>11
  <2> HIDE DEF k, F, m, starts
  <2>2. CASE k + 1 <= F
    BY <1>9, <1>10, <2>1, <2>2
  <2>3. CASE k + 1 > F
    <3>1. PICK i \in Nat \ {0} : \/ k + 1 = F + (2 * i - 1) /\ ~starts
                                 \/ k + 1 = F + 2 * i /\ starts
      BY <1>9, <2>3
    <3>2. CASE k <= F
      BY <1>10, <2>1, <2>3, <3>1, <3>2
    <3>3. CASE k > F
      BY <1>10, <2>1, <2>3, <3>1, <3>3
    <3> QED BY <2>1, <3>2, <3>3
  <2> QED BY <2>1, <2>2, <2>3
<1>13. Commanding'
  <2>1. plan' = NewPlan' /\ Done' \in 0 .. Len(Cmds')
    BY <1>2, <1>3, <1>4, <1>5, <1>6, <1>7 DEF Commanding
  <2>2. todo' = SubSeq(Cmds', Done' + 1, Len(Cmds'))
    BY <1>1, <1>5, <1>6, <1>7
  <2>3. /\ Done' <= FirstOf(5)' => Len(firstPids') = 0
        /\ Done' > FirstOf(5)' => /\ 2 * Len(firstPids') <= Done' - FirstOf(5)'
                                  /\ Done' - FirstOf(5)' <= 2 * Len(firstPids') + 1
    BY <1>6, <1>7, <1>12
  <2> QED BY <2>1, <2>2, <2>3 DEF Commanding
<1>14. Len(firstPids') <= Len(config'.lists)
  <2> DEFINE all == Len(Cmds)
  <2>0. k \in 0 .. all - 1 /\ all \in Nat /\ F \in Nat /\ m \in Nat
        /\ Len(firstPids') = IF starts THEN m + 1 ELSE m
    BY <1>4, <1>5, <1>8, <1>11
  <2> HIDE DEF k, F, m, starts, all
  <2>1. k \in Nat /\ F \in Nat /\ m \in Nat /\ Len(firstPids') \in Nat /\ k + 1 <= all
    BY <2>0
  <2> USE DEF all
  <2>2. CASE k + 1 <= F
    BY <1>3, <1>8, <1>12, <2>1, <2>2
  <2>3. CASE k + 1 > F
    BY <1>3, <1>8, <1>12, <2>1, <2>3 DEF F
  <2> QED BY <2>1, <2>2, <2>3
<1>15. Decoders'
  BY <1>3, <1>4, DecodersKept
<1>16. Trackers'
  BY <1>3, TrackersKept
<1>17. phase' \in Phases /\ cause' \in Causes /\ config' \in Configurations /\ clock' \in Nat
       /\ events' \in 0 .. config'.events /\ faults' \in 0 .. config'.faults
       /\ rounds' \in 0 .. config'.rounds
  BY <1>3 DEF DaqInv, Phases, Causes
<1>18. IsSequence(firstPids)'
  BY <1>11 DEF IsSequence
<1> QED BY <1>13, <1>14, <1>15, <1>16, <1>17, <1>18 DEF DaqInv

(* A step that leaves the processor and the unfolder, or ends the setup(). *)
LEMMA OthersHold ==
  ASSUME DaqInv, config' = config, plan' = plan, todo' = todo, firstPids' = firstPids,
         decoders' = decoders, trackers' = trackers, rounds' = rounds,
         phase' = phase \/ (phase' \in Phases /\ phase' # "commanding"), cause' \in Causes,
         clock' \in Nat, events' \in 0 .. config.events, faults' \in 0 .. config.faults
  PROVE  DaqInv'
<1>1. config' \in Configurations /\ phase' \in Phases /\ cause' \in Causes /\ clock' \in Nat
      /\ events' \in 0 .. config'.events /\ faults' \in 0 .. config'.faults
      /\ rounds' \in 0 .. config'.rounds
  BY DEF DaqInv
<1>2. IsSequence(firstPids)' /\ Len(firstPids') <= Len(config'.lists)
  BY DEF DaqInv, IsSequence
<1>3. Decoders' /\ Trackers'
  BY DecodersKept, TrackersKept DEF DaqInv
<1>4. Commanding'
  <2>1. CASE phase' # "commanding"
    BY <2>1 DEF Commanding
  <2>2. CASE phase' = "commanding"
    <3>1. NewPlan' = NewPlan /\ Cmds' = Cmds /\ FirstOf(5)' = FirstOf(5)
      BY Constancy
    <3>2. phase = "commanding" /\ Commanding /\ Done' = Done
      BY <2>2, <3>1 DEF DaqInv, Done
    <3> QED BY <3>1, <3>2 DEF Commanding
  <2> QED BY <2>1, <2>2
<1> QED BY <1>1, <1>2, <1>3, <1>4 DEF DaqInv

LEMMA SetParametersHolds ==
  ASSUME DaqInv, SetParameters
  PROVE  DaqInv'
<1> DEFINE n == Len(config.lists)
<1>1. /\ phase = "commanding" /\ phase' = "ready" /\ config' = config /\ cause' = cause
      /\ plan' = plan /\ todo' = todo /\ firstPids' = firstPids /\ clock' = clock
      /\ events' = events /\ faults' = faults /\ rounds' = rounds
      /\ decoders' = [i \in ListIndices |-> NewDecoder(plan[i])]
      /\ trackers' = trackers \o Copies(n, NewTracker)
  BY DEF SetParameters, outside
<1>2. config \in Configurations /\ Commanding /\ plan = NewPlan /\ Trackers
      /\ n \in Nat
  BY <1>1, ConfigTyped DEF DaqInv, Commanding
<1>3. NewPlan' = NewPlan /\ ListIndices' = ListIndices
  BY <1>1, Constancy
<1>4. ASSUME NEW i \in ListIndices PROVE Decoding(NewDecoder(NewPlan[i]), NewPlan[i])
  <2> DEFINE bins == NewPlan[i]
             m == Len(Flat(bins))
             b == Copies(m, <<>>)
             o == FlattenOdts(bins)
  <2>1. bins \in BinSeqs /\ Len(bins) \in Nat \ {0} /\ m \in Nat /\ Len(Headers(bins)) = m
    <3>1. bins \in BinSeqs
      BY <1>2, PlanList
    <3>2. Flat(bins) \in Seq(Objects)
      BY <3>1, OdtsTyped
    <3> QED BY <3>1, <3>2, OdtsTyped, LenProperties
  <2>2. NewDecoder(bins) = Decoder(o, "idle", 0, 0, 0, b, 0)
    BY <2>1 DEF NewDecoder, Decoder
  <2>3. IsSequence(b) /\ Len(b) = m
    <3>1. b = [k \in 1 .. m |-> <<>>]
      BY DEF Copies
    <3> HIDE DEF m
    <3>2. m \in Nat
      BY <2>1
    <3>3. [k \in 1 .. m |-> <<>>] \in Seq({<<>>}) /\ Len([k \in 1 .. m |-> <<>>]) = m
      BY <3>2
    <3> HIDE DEF b
    <3> QED BY <3>1, <3>3, SequenceIs
  <2>4. 0 \in 0 .. Len(bins) - 1 /\ 0 \in 0 .. Len(b)
    BY <2>1, <2>3
  <2>5. Decoding(Decoder(o, "idle", 0, 0, 0, b, 0), bins)
    <3>1. Len(b) = Len(Flat(bins)) /\ o = FlattenOdts(bins)
      BY <2>3
    <3>2. "idle" \in {"idle", "collecting", "terminated"} /\ "idle" # "collecting"
      OBVIOUS
    <3> HIDE DEF bins, b, o, m
    <3> QED BY <2>1, <2>3, <2>4, <3>1, <3>2, DecodingOf
  <2> QED BY <2>2, <2>5
<1>5. Decoders'
  <2>1. decoders' = [i \in ListIndices' |-> decoders'[i]] /\ plan' = NewPlan'
    BY <1>1, <1>2, <1>3
  <2>2. \A i \in ListIndices' : Decoding(decoders[i], NewPlan[i])'
    <3>1. \A i \in ListIndices : Decoding(decoders'[i], NewPlan[i])
      BY <1>1, <1>2, <1>4
    <3> QED BY <1>3, <3>1 DEF Decoding, IsDecoder, IsSequence, Flat
  <2> QED BY <2>1, <2>2 DEF Decoders
<1>6. Trackers'
  <2> DEFINE c == Copies(n, NewTracker)
  <2>1. IsSequence(c) /\ Len(c) = n
    <3> DEFINE x == NewTracker
    <3>1. c = [k \in 1 .. n |-> x]
      BY DEF Copies
    <3> HIDE DEF x, n, c
    <3>2. [k \in 1 .. n |-> x] \in Seq({x}) /\ Len([k \in 1 .. n |-> x]) = n
      BY <1>2
    <3> QED BY <3>1, <3>2, SequenceIs
  <2>2. IsSequence(trackers)
    BY <1>2 DEF Trackers
  <2>3. PICK r \in 0 .. rounds : Len(trackers) = r * n /\ r < rounds
    BY <1>1, <1>2 DEF Trackers
  <2>4. rounds \in Nat
    BY <1>2, ConfigTyped DEF DaqInv
  <2> HIDE DEF c, n
  <2>5. IsSequence(trackers') /\ Len(trackers') = Len(trackers) + n
    BY <1>1, <2>1, <2>2, SequenceJoined DEF c
  <2>6. r \in Nat /\ r + 1 \in 0 .. rounds /\ r * n + n = (r + 1) * n
    BY <1>2, <2>3, <2>4
  <2>7. Len(trackers') = (r + 1) * n
    BY <2>3, <2>5, <2>6
  <2>8. IsSequence(trackers)'
    BY <2>5 DEF IsSequence
  <2>9. Len(trackers') = (r + 1) * Len(config'.lists) /\ r + 1 \in 0 .. rounds'
        /\ phase' # "commanding"
    BY <1>1, <2>6, <2>7 DEF n
  <2> QED BY <2>8, <2>9 DEF Trackers
<1>7. Commanding'
  BY <1>1 DEF Commanding
<1>8. config' \in Configurations /\ phase' \in Phases /\ cause' \in Causes /\ clock' \in Nat
      /\ events' \in 0 .. config'.events /\ faults' \in 0 .. config'.faults
      /\ rounds' \in 0 .. config'.rounds
  BY <1>1 DEF DaqInv, Phases
<1>9. IsSequence(firstPids)' /\ Len(firstPids') <= Len(config'.lists)
  BY <1>1 DEF DaqInv, IsSequence
<1> QED BY <1>5, <1>6, <1>7, <1>8, <1>9 DEF DaqInv

LEMMA NextHolds ==
  ASSUME DaqInv, [Next]_vars
  PROVE  DaqInv'
<1>0. config \in Configurations /\ config.events \in Nat /\ config.faults \in Nat
      /\ phase \in Phases /\ cause \in Causes /\ clock \in Nat /\ events \in 0 .. config.events
      /\ faults \in 0 .. config.faults
  BY ConfigTyped DEF DaqInv
<1>1. CASE Setup
  BY <1>1, SetupHolds
<1>2. CASE Command
  BY <1>2, CommandHolds
<1>3. CASE Refused
  <2>1. phase' = "raised" /\ cause' = "refused"
        /\ UNCHANGED <<config, plan, todo, firstPids, unfolder, outside, faults, rounds, lost>>
    BY <1>3 DEF Refused, Raise
  <2> QED BY <1>0, <2>1, OthersHold DEF unfolder, outside, Phases, Causes
<1>4. CASE Unanswered
  <2>1. phase' = "raised" /\ cause' = "unanswered" /\ faults < config.faults
        /\ faults' = faults + 1
        /\ UNCHANGED <<config, plan, todo, firstPids, unfolder, clock, events, line, rounds, lost>>
    BY <1>4 DEF Unanswered, Raise
  <2>2. faults' \in 0 .. config.faults
    BY <1>0, <2>1
  <2> QED BY <1>0, <2>1, <2>2, OthersHold DEF unfolder, Phases, Causes
<1>5. CASE MirrorFails
  <2>1. /\ \/ phase' = "raised" /\ cause' = "thrown"
           \/ phase' = "ended" /\ cause' = "crashed"
        /\ UNCHANGED <<config, plan, todo, firstPids, unfolder, clock, events, line, faults, rounds,
                       lost>>
    BY <1>5 DEF MirrorFails, Raise
  <2> QED BY <1>0, <2>1, OthersHold DEF unfolder, Phases, Causes
<1>6. CASE SetParameters
  BY <1>6, SetParametersHolds
<1>7. CASE Start \/ Stop
  <2>1. /\ phase' \in {"running", "stopped"}
        /\ UNCHANGED <<config, cause, plan, todo, firstPids, mirror, unfolder, clock, events, line,
                       faults, rounds, lost>>
    BY <1>7 DEF Start, Stop
  <2> QED BY <1>0, <2>1, OthersHold DEF unfolder, Phases
<1>8. CASE Sample
  <2>1. PICK ticks \in Advances :
          /\ events < config.events /\ events' = events + 1 /\ clock' = clock + ticks
          /\ UNCHANGED <<processor, unfolder, device, faults, rounds, lost>>
    BY <1>8 DEF Sample
  <2>2. clock' \in Nat /\ events' \in 0 .. config.events
    BY <1>0, <2>1, ConfigurationsAssumption
  <2> QED BY <1>0, <2>1, <2>2, OthersHold DEF processor, unfolder
<1>9. CASE Lose
  <2>1. /\ faults < config.faults /\ faults' = faults + 1
        /\ UNCHANGED <<processor, unfolder, device, clock, events, rounds>>
    BY <1>9 DEF Lose
  <2>2. faults' \in 0 .. config.faults
    BY <1>0, <2>1
  <2> QED BY <1>0, <2>1, <2>2, OthersHold DEF processor, unfolder
<1>10. CASE Receive \/ Duplicate
  <2>1. /\ Feed(Head(line)) /\ clock' = clock /\ events' = events
        /\ UNCHANGED <<processor, rounds>>
        /\ faults' = faults \/ (faults < config.faults /\ faults' = faults + 1)
    BY <1>10 DEF Receive, Duplicate, outside
  <2>2. config' = config /\ phase' = phase /\ cause' = cause /\ plan' = plan /\ todo' = todo
        /\ firstPids' = firstPids /\ rounds' = rounds
    BY <2>1 DEF processor
  <2>3. Decoders' /\ Trackers'
    BY <2>1, <2>2, FeedKeeps
  <2>4. Commanding'
    <3>1. NewPlan' = NewPlan /\ Cmds' = Cmds /\ FirstOf(5)' = FirstOf(5)
      BY <2>2, Constancy
    <3>2. Commanding /\ Done' = Done
      BY <2>2, <3>1 DEF DaqInv, Done
    <3> QED BY <2>2, <3>1, <3>2 DEF Commanding
  <2>5. config' \in Configurations /\ phase' \in Phases /\ cause' \in Causes /\ clock' \in Nat
        /\ events' \in 0 .. config'.events /\ faults' \in 0 .. config'.faults
        /\ rounds' \in 0 .. config'.rounds
    BY <1>0, <2>1, <2>2 DEF DaqInv, Phases, Causes
  <2>6. IsSequence(firstPids)' /\ Len(firstPids') <= Len(config'.lists)
    BY <2>2 DEF DaqInv, IsSequence
  <2> QED BY <2>3, <2>4, <2>5, <2>6 DEF DaqInv
<1>11. CASE UNCHANGED vars
  BY <1>0, <1>11, OthersHold DEF vars, processor, unfolder, outside
<1> QED BY <1>1, <1>2, <1>3, <1>4, <1>5, <1>6, <1>7, <1>8, <1>9, <1>10, <1>11 DEF Next

(* The unfolder's buffers have a place for every measurement, and nothing  *)
(* is ever counted past their end.                                         *)
LEMMA InvariantTyped == DaqInv => TypeOK
<1> SUFFICES ASSUME DaqInv PROVE TypeOK
  OBVIOUS
<1>1. config \in Configurations /\ Decoders
  BY DEF DaqInv
<1>2. ListIndices = 1 .. Len(config.lists) /\ Len(config.lists) \in Nat
  BY <1>1, ConfigTyped
<1>3. /\ Len(decoders) \in {0, Len(config.lists)}
      /\ \A i \in DOMAIN decoders :
           /\ decoders[i].state \in {"idle", "collecting", "terminated"}
           /\ decoders[i].next < Len(plan[i])
           /\ decoders[i].current <= Len(decoders[i].buffer)
           /\ Len(decoders[i].buffer) = Len(Headers(plan[i]))
  <2>1. CASE decoders = <<>>
    BY <2>1
  <2>2. CASE decoders # <<>>
    <3>1. /\ plan = NewPlan /\ decoders = [i \in ListIndices |-> decoders[i]]
          /\ \A i \in ListIndices : Decoding(decoders[i], NewPlan[i])
      BY <1>1, <2>2 DEF Decoders
    <3>2. DOMAIN decoders = ListIndices
      BY <3>1
    <3>3. Len(decoders) = Len(config.lists)
      <4>1. DOMAIN decoders = 1 .. Len(config.lists)
        BY <1>2, <3>2
      <4> DEFINE n == Len(config.lists)
                 X == {decoders[k] : k \in 1 .. n}
      <4>2. decoders = [k \in 1 .. n |-> decoders[k]] /\ n \in Nat
            /\ \A k \in 1 .. n : decoders[k] \in X
        BY <1>2, <3>1
      <4> HIDE DEF n, X
      <4>3. [k \in 1 .. n |-> decoders[k]] \in Seq(X) /\ Len([k \in 1 .. n |-> decoders[k]]) = n
        BY <4>2
      <4> QED BY <4>2, <4>3 DEF n
    <3>4. ASSUME NEW i \in ListIndices
          PROVE  /\ decoders[i].state \in {"idle", "collecting", "terminated"}
                 /\ decoders[i].next < Len(plan[i])
                 /\ decoders[i].current <= Len(decoders[i].buffer)
                 /\ Len(decoders[i].buffer) = Len(Headers(plan[i]))
      <4> DEFINE d == decoders[i]
                 bins == NewPlan[i]
      <4>1. Decoding(d, bins) /\ Len(bins) \in Nat /\ Len(Headers(bins)) = Len(Flat(bins))
        BY <1>1, <3>1, PlanList, OdtsTyped
      <4> HIDE DEF d, bins
      <4>2. /\ d.state \in {"idle", "collecting", "terminated"} /\ d.next < Len(bins)
            /\ d.current <= Len(d.buffer) /\ Len(d.buffer) = Len(Headers(bins))
        BY <4>1 DEF Decoding, IsSequence
      <4> QED BY <3>1, <4>2 DEF d, bins
    <3> QED BY <3>2, <3>3, <3>4
  <2> QED BY <2>1, <2>2
<1>4. Len(trackers) \in {r * Len(config.lists) : r \in 0 .. config.rounds}
  <2>1. PICK r \in 0 .. rounds : Len(trackers) = r * Len(config.lists)
    BY DEF DaqInv, Trackers
  <2>2. r \in 0 .. config.rounds
    BY <1>1, ConfigTyped DEF DaqInv
  <2> QED BY <2>1, <2>2
<1> QED BY <1>3, <1>4 DEF DaqInv, TypeOK

(* TypeOK of Daq, for every configuration.                                 *)
THEOREM DaqTypeOK == Spec => []TypeOK
<1>1. Init => DaqInv
  BY InitHolds
<1>2. DaqInv /\ [Next]_vars => DaqInv'
  BY NextHolds
<1>3. DaqInv => TypeOK
  BY InvariantTyped
<1> QED BY <1>1, <1>2, <1>3, PTL DEF Spec

(***************************************************************************)
(* The device does what it was told                                        *)
(***************************************************************************)
DeviceLists ==
  [odts : Seq(Seq(Ext)), mode : SUBSET {"timestamp", "stim", "pid_off"}, event : Nat,
   state : {"off", "selected", "running"}]
IsDevice(d) ==
  /\ d = [lists |-> d.lists, allocating |-> d.allocating, ptr |-> d.ptr]
  /\ d.lists = [n \in DOMAIN d.lists |-> d.lists[n]]
  /\ \A n \in DOMAIN d.lists : d.lists[n] \in DeviceLists

(* The device's lists are those of the configuration.                      *)
Numbered(d) == DOMAIN d.lists = {Number(i) : i \in ListIndices}
OdtsOf(d, i) == Len(d.lists[Number(i)].odts)
ModeOf(d, i) == d.lists[Number(i)].mode

(* A command that is done has had its effect, ...                          *)
Effected(d, c) ==
  \A i \in ListIndices :
    /\ c = AllocOdt(NewPlan, i) => OdtsOf(d, i) = Len(NewPlan[i])
    /\ c = SetDaqListMode(i) => ModeOf(d, i) = ListMode(config.lists[i])
    /\ c = StartStopDaqList(i) => OdtsOf(d, i) = Len(NewPlan[i])

(* ... and the lists that setup() does not allocate are as they were.      *)
PidOf(i) == IF Props.idSize > 1 THEN 0 ELSE Len(FlattenSeq(Pieces(NewPlan, i - 1)))
SetUp(d, done, pids) ==
  /\ Props.static => Dynamic = {}
  /\ done >= 2 /\ ~Props.static =>
       Numbered(d) /\ \A i \in ListIndices : i \notin Dynamic => OdtsOf(d, i) = 0
  /\ \A k \in 1 .. done : Effected(d, Cmds[k])
  /\ \A i \in 1 .. Len(pids) : pids[i] = PidOf(i)
Setting == phase = "commanding" => SetUp(device, Done, firstPids)
FactoryShape(d) ==
  Props.static /\ Dynamic = {} =>
    Numbered(d) /\ \A i \in ListIndices : OdtsOf(d, i) = Len(NewPlan[i])
Running(d) == \E n \in DOMAIN d.lists : d.lists[n].state = "running"
Shaped(d) ==
  /\ Numbered(d)
  /\ \A i \in ListIndices : /\ OdtsOf(d, i) = Len(NewPlan[i])
                            /\ ModeOf(d, i) = ListMode(config.lists[i])
Measuring ==
  /\ phase \in {"ready", "running", "stopped"} =>
       /\ plan = NewPlan
       /\ Len(firstPids) = Len(config.lists)
       /\ \A i \in ListIndices : firstPids[i] = PidOf(i)
       /\ decoders = [i \in ListIndices |-> decoders[i]]
       /\ Len(trackers) >= Len(config.lists)
  /\ phase \in {"ready", "running"} => Shaped(device)
  /\ phase # "running" => ~Running(device)
  /\ line # <<>> => phase \in {"running", "stopped"}
DeviceInv == IsDevice(device) /\ Setting /\ FactoryShape(device) /\ Measuring

(***************************************************************************)
(* The times                                                               *)
(***************************************************************************)
Stamped(list, j) == j = 1 /\ Timestamped(list)
IsDto(dto, i, j) ==
  /\ dto.id[1] = IF Props.idSize = 1 THEN PidOf(i) + j - 1 ELSE j - 1
  /\ dto.time \in Nat
  /\ ~Props.interleaved =>
       /\ Props.idSize > 1 => dto.id[2] = Number(i)
       /\ Stamped(config.lists[i], j) => dto.payload[1][2] = dto.time % Wrap
OfPlan(dto) == \E i \in ListIndices : \E j \in 1 .. Len(NewPlan[i]) : IsDto(dto, i, j)
Lined(dtos, time) ==
  /\ IsSequence(dtos)
  /\ \A k \in 1 .. Len(dtos) :
       /\ OfPlan(dtos[k]) /\ dtos[k].time <= time
       /\ \A l \in k .. Len(dtos) : dtos[k].time <= dtos[l].time
Line == Lined(line, clock)

(* A time that no DTO on its way is older than.                            *)
Past(t) == t \in 0 .. clock /\ \A k \in 1 .. Len(line) : t <= line[k].time

Scale == Props.scale \div 1000
Timed(list) == Timestamped(list) /\ ~Fractional
TrackerIs(t, r, list) ==
  /\ t.started /\ r.first \in Nat /\ r.time \in Nat /\ r.first <= r.time
  /\ Timed(list) =>
       /\ t.previous = Scale * (r.time % Wrap)
       /\ t.base = Scale * (r.first % Wrap)
       /\ r.close => /\ t.overflows = (r.time \div Wrap) - (r.first \div Wrap)
                     /\ r.normal = Scale * (r.time - r.first)
Tracked ==
  /\ \A i \in ListIndices :
       IF last[i] = None THEN i \in DOMAIN trackers => trackers[i] = NewTracker
       ELSE i \in DOMAIN trackers /\ TrackerIs(trackers[i], last[i], config.lists[i])
  /\ \A i \in ListIndices : last[i] # None => Past(last[i].time)
  /\ last = [i \in ListIndices |-> last[i]]
Dated(d, r, list) ==
  /\ Past(d.began)
  /\ r # None => r.time <= d.began
  /\ Timed(list) => d.timestamp = Scale * (d.began % Wrap)
Begun(d, r, list) == d.state = "collecting" => Dated(d, r, list)
Times ==
  /\ Tracked
  /\ \A i \in DOMAIN decoders : Begun(decoders[i], last[i], config.lists[i])
TimeInv == DeviceInv /\ Line /\ (Misread \/ Times)

(* Different lists have different numbers.                                 *)
LEMMA Numbers ==
  ASSUME config \in Configurations, NEW i \in ListIndices, NEW k \in ListIndices
  PROVE  /\ Number(i) = Number(k) => i = k
         /\ i <= k => Number(i) <= Number(k)
         /\ Number(i) - Number(1) + 1 = i /\ Number(i) \in Nat /\ Number(1) \in Nat
         /\ i \in Nat /\ i >= 1
<1>1. i \in Nat \ {0} /\ k \in Nat \ {0}
  BY ConfigTyped
<1>2. Props.minDaq \in Nat
  BY PropsTyped
<1> QED BY <1>1, <1>2 DEF Number

(* Where the selection begins, and where a list of the device is given its *)
(* ODTs, its mode and its start.                                           *)
LEMMA Places ==
  ASSUME config \in Configurations
  PROVE  /\ FirstOf(5) \in Nat /\ Len(Cmds) = FirstOf(5) + 2 * Len(config.lists)
         /\ Props.static => FirstOf(5) = 0
         /\ ~Props.static => FirstOf(5) >= 2
         /\ ~Props.static => \A i \in Dynamic : \E x \in 1 .. FirstOf(5) :
                               Cmds[x] = AllocOdt(NewPlan, i)
         /\ \A i \in ListIndices :
              /\ FirstOf(5) + (2 * i - 1) \in 1 .. Len(Cmds)
              /\ FirstOf(5) + 2 * i \in 1 .. Len(Cmds)
              /\ Cmds[FirstOf(5) + (2 * i - 1)] = SetDaqListMode(i)
              /\ Cmds[FirstOf(5) + 2 * i] = StartStopDaqList(i)
<1>1. /\ \A s \in 1 .. 5 : FirstOf(s) \in Nat
      /\ \A s \in 1 .. 4 : FirstOf(s + 1) = FirstOf(s) + Len(Stages[s])
      /\ FirstOf(1) = 0 /\ Len(Cmds) = FirstOf(5) + 2 * Len(config.lists)
  BY CmdsTyped
<1>2. \A s \in 1 .. 5 : Len(Stages[s]) \in Nat
  BY StagesTyped, LenProperties
<1>3. /\ FirstOf(2) = Len(Stages[1]) /\ FirstOf(3) = FirstOf(2) + Len(Stages[2])
      /\ FirstOf(4) = FirstOf(3) + Len(Stages[3]) /\ FirstOf(5) = FirstOf(4) + Len(Stages[4])
      /\ FirstOf(2) \in Nat /\ FirstOf(3) \in Nat /\ FirstOf(4) \in Nat /\ FirstOf(5) \in Nat
  <2>1. 1 \in 1 .. 4 /\ 2 \in 1 .. 4 /\ 3 \in 1 .. 4 /\ 4 \in 1 .. 4
        /\ 1 + 1 = 2 /\ 2 + 1 = 3 /\ 3 + 1 = 4 /\ 4 + 1 = 5
    OBVIOUS
  <2>2. FirstOf(2) = FirstOf(1) + Len(Stages[1])
    BY <1>1, <2>1
  <2>3. FirstOf(3) = FirstOf(2) + Len(Stages[2])
    BY <1>1, <2>1
  <2>4. FirstOf(4) = FirstOf(3) + Len(Stages[3])
    BY <1>1, <2>1
  <2>5. FirstOf(5) = FirstOf(4) + Len(Stages[4])
    BY <1>1, <2>1
  <2>6. Len(Stages[1]) \in Nat
    BY <1>2
  <2> QED BY <1>1, <2>2, <2>3, <2>4, <2>5, <2>6
<1>4. /\ Len(Stages[1]) \in Nat /\ Len(Stages[2]) \in Nat /\ Len(Stages[3]) \in Nat
      /\ Len(Stages[4]) \in Nat
  BY <1>2
<1>5. Props.static => FirstOf(5) = 0
  <2>1. SUFFICES ASSUME Props.static PROVE FirstOf(5) = 0
    OBVIOUS
  <2>2. Stages[1] = <<>> /\ Stages[2] = <<>> /\ Stages[3] = <<>> /\ Stages[4] = <<>>
    BY <2>1 DEF Stages
  <2>3. Len(Stages[1]) = 0 /\ Len(Stages[2]) = 0 /\ Len(Stages[3]) = 0 /\ Len(Stages[4]) = 0
    BY <2>2
  <2>4. FirstOf(2) = 0
    BY <1>3, <2>3
  <2>5. FirstOf(3) = 0
    BY <1>3, <2>3, <2>4
  <2>6. FirstOf(4) = 0
    BY <1>3, <2>3, <2>5
  <2> QED BY <1>3, <2>3, <2>6
<1>6. ~Props.static => Len(Stages[1]) = 2 /\ FirstOf(5) >= 2
  <2>1. SUFFICES ASSUME ~Props.static PROVE Len(Stages[1]) = 2 /\ FirstOf(5) >= 2
    OBVIOUS
  <2>2. Stages[1] = Opening
    BY <2>1 DEF Stages
  <2>3. Len(Opening) = 2
    BY DEF Opening
  <2> DEFINE F2 == FirstOf(2)
             F3 == FirstOf(3)
             F4 == FirstOf(4)
             F5 == FirstOf(5)
             L1 == Len(Stages[1])
             L2 == Len(Stages[2])
             L3 == Len(Stages[3])
             L4 == Len(Stages[4])
  <2>4. L1 = 2
    BY <2>2, <2>3
  <2>5. /\ F2 = L1 /\ F3 = F2 + L2 /\ F4 = F3 + L3 /\ F5 = F4 + L4
        /\ L2 \in Nat /\ L3 \in Nat /\ L4 \in Nat
    BY <1>3, <1>4
  <2> HIDE DEF F2, F3, F4, F5, L1, L2, L3, L4
  <2>6. F5 >= 2
    BY <2>4, <2>5
  <2> QED BY <2>4, <2>6 DEF L1, F5
<1>7. ASSUME ~Props.static, NEW i \in Dynamic
      PROVE  \E x \in 1 .. FirstOf(5) : Cmds[x] = AllocOdt(NewPlan, i)
  <2> DEFINE n == Len(config.lists)
             f == OdtCommands
             X == AllocOdts
  <2>1. n \in Nat /\ i \in 1 .. n /\ ListIndices = 1 .. n
    BY ConfigTyped DEF Dynamic
  <2>2. \A m \in 1 .. n : f[m] \in Seq(X)
    BY <2>1, OdtCommandsTyped
  <2>3. Len(f[i]) = 1 /\ f[i][1] = AllocOdt(NewPlan, i)
    BY <2>1, OdtCommandsTyped
  <2>4. Stages[2] = FlattenSeq(Pieces(f, n))
    BY <1>7, StagesTyped DEF Stages
  <2> HIDE DEF n, f, X
  <2>5. 1 \in 1 .. Len(f[i])
    BY <2>3
  <2>6. /\ Len(FlattenSeq(Pieces(f, i - 1))) + 1 \in 1 .. Len(FlattenSeq(Pieces(f, n)))
        /\ FlattenSeq(Pieces(f, n))[Len(FlattenSeq(Pieces(f, i - 1))) + 1] = f[i][1]
    BY <2>1, <2>2, <2>5, FlattenPlace, SMTT(40)
  <2> DEFINE k == Len(FlattenSeq(Pieces(f, i - 1))) + 1
  <2>7. k \in 1 .. Len(Stages[2]) /\ Stages[2][k] = AllocOdt(NewPlan, i)
    BY <2>3, <2>4, <2>6
  <2> HIDE DEF k
  <2>8. 2 \in 1 .. 5
    OBVIOUS
  <2>9. FirstOf(2) + k \in 1 .. Len(Cmds) /\ Cmds[FirstOf(2) + k] = Stages[2][k]
    BY <2>7, <2>8, CmdAt
  <2>10. FirstOf(2) + k \in 1 .. FirstOf(5)
    <3> DEFINE F2 == FirstOf(2)
               F3 == FirstOf(3)
               F4 == FirstOf(4)
               F5 == FirstOf(5)
               L2 == Len(Stages[2])
               L3 == Len(Stages[3])
               L4 == Len(Stages[4])
    <3>1. /\ F3 = F2 + L2 /\ F4 = F3 + L3 /\ F5 = F4 + L4 /\ F2 \in Nat /\ L2 \in Nat
          /\ L3 \in Nat /\ L4 \in Nat
      BY <1>3, <1>4
    <3>2. k \in 1 .. L2
      BY <2>7
    <3> HIDE DEF F2, F3, F4, F5, L2, L3, L4
    <3>3. F2 + k \in 1 .. F5
      BY <3>1, <3>2
    <3> QED BY <3>3 DEF F2, F5
  <2> QED BY <2>7, <2>9, <2>10
<1>8. ASSUME NEW i \in ListIndices
      PROVE  /\ FirstOf(5) + (2 * i - 1) \in 1 .. Len(Cmds)
             /\ FirstOf(5) + 2 * i \in 1 .. Len(Cmds)
             /\ Cmds[FirstOf(5) + (2 * i - 1)] = SetDaqListMode(i)
             /\ Cmds[FirstOf(5) + 2 * i] = StartStopDaqList(i)
  <2>1. Stages[5] = SelectLists /\ Len(SelectLists) = 2 * Len(config.lists)
    BY SelectTyped DEF Stages
  <2>2. i \in 1 .. Len(config.lists) /\ Len(config.lists) \in Nat
    BY ConfigTyped
  <2>3. 2 * i - 1 \in 1 .. Len(Stages[5]) /\ 2 * i \in 1 .. Len(Stages[5]) /\ 5 \in 1 .. 5
    BY <2>1, <2>2
  <2>4. /\ FirstOf(5) + (2 * i - 1) \in 1 .. Len(Cmds)
        /\ Cmds[FirstOf(5) + (2 * i - 1)] = Stages[5][2 * i - 1]
    BY <2>3, CmdAt
  <2>5. /\ FirstOf(5) + 2 * i \in 1 .. Len(Cmds)
        /\ Cmds[FirstOf(5) + 2 * i] = Stages[5][2 * i]
    BY <2>3, CmdAt
  <2> QED BY <2>1, <2>4, <2>5, SelectTyped
<1> QED BY <1>1, <1>3, <1>5, <1>6, <1>7, <1>8

(* What a command can be, and when.                                        *)
LEMMA CommandIs ==
  ASSUME config \in Configurations, NEW x \in 1 .. Len(Cmds)
  PROVE  \/ ~Props.static /\ x = 1 /\ Cmds[x] = FreeDaq
         \/ ~Props.static /\ x = 2 /\ Cmds[x] = AllocDaq(Len(config.lists))
         \/ /\ ~Props.static /\ x > 2 /\ x <= FirstOf(5)
            /\ \/ \E i \in Dynamic : Cmds[x] = AllocOdt(NewPlan, i)
               \/ Cmds[x] \in AllocEntries \cup SetPtrs \cup Writes
         \/ /\ x > FirstOf(5) /\ (Props.static \/ x > 2)
            /\ \E i \in ListIndices :
                 \/ x = FirstOf(5) + (2 * i - 1) /\ Cmds[x] = SetDaqListMode(i)
                 \/ x = FirstOf(5) + 2 * i /\ Cmds[x] = StartStopDaqList(i)
<1>1. PICK s \in 1 .. 5 : \E k \in 1 .. Len(Stages[s]) :
         x = FirstOf(s) + k /\ Cmds[x] = Stages[s][k] /\ Cmds[x] \in StageItems[s]
  BY CmdFrom
<1>2. PICK k \in 1 .. Len(Stages[s]) :
         x = FirstOf(s) + k /\ Cmds[x] = Stages[s][k] /\ Cmds[x] \in StageItems[s]
  BY <1>1
<1>3. /\ \A t \in 1 .. 5 : FirstOf(t) \in Nat
      /\ \A t \in 1 .. 4 : FirstOf(t + 1) = FirstOf(t) + Len(Stages[t])
      /\ FirstOf(1) = 0
  BY CmdsTyped
<1>4. \A t \in 1 .. 5 : Len(Stages[t]) \in Nat
  BY StagesTyped, LenProperties
<1>5. /\ FirstOf(2) = Len(Stages[1]) /\ FirstOf(3) = FirstOf(2) + Len(Stages[2])
      /\ FirstOf(4) = FirstOf(3) + Len(Stages[3]) /\ FirstOf(5) = FirstOf(4) + Len(Stages[4])
      /\ FirstOf(2) \in Nat /\ FirstOf(3) \in Nat /\ FirstOf(4) \in Nat /\ FirstOf(5) \in Nat
  <2>1. 1 \in 1 .. 4 /\ 2 \in 1 .. 4 /\ 3 \in 1 .. 4 /\ 4 \in 1 .. 4
        /\ 1 + 1 = 2 /\ 2 + 1 = 3 /\ 3 + 1 = 4 /\ 4 + 1 = 5
    OBVIOUS
  <2>2. FirstOf(2) = FirstOf(1) + Len(Stages[1])
    BY <1>3, <2>1
  <2>3. FirstOf(3) = FirstOf(2) + Len(Stages[2])
    BY <1>3, <2>1
  <2>4. FirstOf(4) = FirstOf(3) + Len(Stages[3])
    BY <1>3, <2>1
  <2>5. FirstOf(5) = FirstOf(4) + Len(Stages[4])
    BY <1>3, <2>1
  <2>6. Len(Stages[1]) \in Nat
    BY <1>4
  <2> QED BY <1>3, <2>2, <2>3, <2>4, <2>5, <2>6
<1>6. /\ Len(Stages[1]) \in Nat /\ Len(Stages[2]) \in Nat /\ Len(Stages[3]) \in Nat
      /\ Len(Stages[4]) \in Nat
  BY <1>4
<1>7. s # 5 => ~Props.static
  <2>1. SUFFICES ASSUME s # 5, Props.static PROVE FALSE
    OBVIOUS
  <2>2. Stages[s] = <<>>
    BY <2>1 DEF Stages
  <2> QED BY <1>2, <2>2
<1>8. ~Props.static => Stages[1] = Opening /\ Len(Opening) = 2
  BY DEF Stages, Opening
<1> DEFINE F2 == FirstOf(2)
           F3 == FirstOf(3)
           F4 == FirstOf(4)
           F5 == FirstOf(5)
           L1 == Len(Stages[1])
           L2 == Len(Stages[2])
           L3 == Len(Stages[3])
           L4 == Len(Stages[4])
<1>14. /\ F2 = L1 /\ F3 = F2 + L2 /\ F4 = F3 + L3 /\ F5 = F4 + L4
       /\ L1 \in Nat /\ L2 \in Nat /\ L3 \in Nat /\ L4 \in Nat
  BY <1>5, <1>6
<1>15. /\ ~Props.static => L1 = 2
       /\ s = 1 => x = k /\ k \in 1 .. L1
       /\ s = 2 => x = F2 + k /\ k \in 1 .. L2
       /\ s = 3 => x = F3 + k /\ k \in 1 .. L3
       /\ s = 4 => x = F4 + k /\ k \in 1 .. L4
  <2>1. ~Props.static => L1 = 2
    BY <1>8
  <2>2. s = 1 => x = k /\ k \in 1 .. L1
    <3>1. SUFFICES ASSUME s = 1 PROVE x = k /\ k \in 1 .. L1
      OBVIOUS
    <3>2. k \in 1 .. L1 /\ x = 0 + k
      BY <1>2, <1>3, <3>1
    <3> HIDE DEF L1
    <3>3. 0 + k = k
      BY <1>14, <3>2
    <3> QED BY <3>2, <3>3
  <2> QED BY <1>2, <2>1, <2>2
<1>16. s = 5 => x > F5 /\ ~(x <= F5) /\ (Props.static \/ x > 2)
  <2>1. SUFFICES ASSUME s = 5 PROVE x > F5 /\ ~(x <= F5) /\ (Props.static \/ x > 2)
    OBVIOUS
  <2> DEFINE q == Len(Stages[5])
  <2>2. x = F5 + k /\ k \in 1 .. q
    BY <1>2, <2>1
  <2> HIDE DEF F2, F3, F4, F5, L1, L2, L3, L4, q
  <2>3. k \in Nat /\ k >= 1
    BY <2>2
  <2> QED BY <1>14, <1>15, <2>2, <2>3
<1>17. s \in {2, 3, 4} /\ ~Props.static => x > 2 /\ x <= F5
  <2> HIDE DEF F2, F3, F4, F5, L1, L2, L3, L4
  <2>1. CASE s = 2
    BY <1>14, <1>15, <2>1
  <2>2. CASE s = 3
    BY <1>14, <1>15, <2>2
  <2>3. CASE s = 4
    BY <1>14, <1>15, <2>3
  <2> QED BY <2>1, <2>2, <2>3
<1>9. CASE s = 1
  <2>1. k \in 1 .. 2 /\ x = k /\ Cmds[x] = Opening[k] /\ ~Props.static
    <3>1. ~Props.static
      BY <1>7, <1>9
    <3>2. ~Props.static /\ x = k /\ k \in 1 .. L1 /\ L1 = 2
      BY <1>9, <1>15, <3>1
    <3>3. Cmds[x] = Opening[k]
      BY <1>2, <1>8, <1>9, <3>2
    <3> QED BY <3>2, <3>3
  <2>2. Opening[1] = FreeDaq /\ Opening[2] = AllocDaq(Len(config.lists))
    BY DEF Opening
  <2> QED BY <2>1, <2>2
<1>10. CASE s = 2
  <2> DEFINE n == Len(config.lists)
             f == OdtCommands
             X == AllocOdts
  <2>1. n \in Nat /\ ListIndices = 1 .. n /\ ~Props.static
    BY <1>7, <1>10, ConfigTyped
  <2>2. \A m \in 1 .. n : f[m] \in Seq(X)
    BY <2>1, OdtCommandsTyped
  <2>3. Stages[2] = FlattenSeq(Pieces(f, n))
    BY <2>1, StagesTyped DEF Stages
  <2>4. k \in 1 .. Len(FlattenSeq(Pieces(f, n)))
    BY <1>2, <1>10, <2>3
  <2>5. ComesFrom(f, n, k)
    <3> HIDE DEF n, f, X
    <3> QED BY <2>1, <2>2, <2>4, FlattenSplit
  <2>6. PICK i \in 1 .. n : \E m \in 1 .. Len(f[i]) : FlattenSeq(Pieces(f, n))[k] = f[i][m]
    BY <2>5 DEF ComesFrom
  <2>7. PICK m \in 1 .. Len(f[i]) : FlattenSeq(Pieces(f, n))[k] = f[i][m]
    BY <2>6
  <2>8. i \in ListIndices
    BY <2>1
  <2>9. i \in Dynamic /\ m = 1 /\ f[i][m] = AllocOdt(NewPlan, i)
    <3>1. Len(f[i]) = IF i \in Dynamic THEN 1 ELSE 0
      BY <2>8, OdtCommandsTyped
    <3>2. i \in Dynamic
      BY <2>7, <3>1
    <3>3. m = 1
      BY <2>7, <3>1, <3>2
    <3> QED BY <2>8, <3>2, <3>3, OdtCommandsTyped
  <2>10. Cmds[x] = AllocOdt(NewPlan, i)
    BY <1>2, <1>10, <2>3, <2>7, <2>9
  <2>11. x > 2 /\ x <= FirstOf(5)
    BY <1>10, <1>17, <2>1
  <2> QED BY <2>1, <2>9, <2>10, <2>11
<1>11. CASE s = 3 \/ s = 4
  <2>1. ~Props.static
    BY <1>7, <1>11
  <2>2. Cmds[x] \in AllocEntries \cup SetPtrs \cup Writes
    <3>1. StageItems[3] = AllocEntries /\ StageItems[4] = SetPtrs \cup Writes
      BY DEF StageItems
    <3> QED BY <1>2, <1>11, <3>1
  <2>3. x > 2 /\ x <= FirstOf(5)
    BY <1>11, <1>17, <2>1
  <2> QED BY <2>1, <2>2, <2>3
<1>12. CASE s = 5
  <2>1. x > FirstOf(5) /\ ~(x <= FirstOf(5))
    BY <1>12, <1>16
  <2>2. Props.static \/ x > 2
    BY <1>12, <1>16
  <2> QED BY <2>1, <2>2, StartsAt
<1> QED BY <1>9, <1>10, <1>11, <1>12

(* What the commands make of a list of the device.                         *)
Dev(lists, allocating, ptr) == [lists |-> lists, allocating |-> allocating, ptr |-> ptr]
Replaced(lists, n, l) == [m \in DOMAIN lists |-> IF m = n THEN l ELSE lists[m]]

LEMMA DevFields ==
  ASSUME NEW s, NEW a, NEW p
  PROVE  /\ Dev(s, a, p).lists = s /\ Dev(s, a, p).allocating = a /\ Dev(s, a, p).ptr = p
  BY DEF Dev
LEMMA DevUpdated ==
  ASSUME NEW s, NEW a, NEW p, NEW x
  PROVE  /\ [Dev(s, a, p) EXCEPT !.lists = x] = Dev(x, a, p)
         /\ [Dev(s, a, p) EXCEPT !.allocating = x] = Dev(s, x, p)
         /\ [Dev(s, a, p) EXCEPT !.ptr = x] = Dev(s, a, x)
  BY DEF Dev
LEMMA ReplacedIs ==
  ASSUME NEW s, s = [m \in DOMAIN s |-> s[m]], NEW n, NEW x
  PROVE  [s EXCEPT ![n] = x] = Replaced(s, n, x)
  BY DEF Replaced

LEMMA DeviceOf ==
  ASSUME NEW s, NEW a, NEW p, s = [m \in DOMAIN s |-> s[m]],
         \A m \in DOMAIN s : s[m] \in DeviceLists
  PROVE  IsDevice(Dev(s, a, p))
<1> DEFINE d == Dev(s, a, p)
<1>1. d.lists = s /\ d.allocating = a /\ d.ptr = p
  BY DevFields
<1>2. d = [lists |-> s, allocating |-> a, ptr |-> p]
  BY DEF Dev
<1> HIDE DEF d
<1>3. IsDevice(d)
  BY <1>1, <1>2 DEF IsDevice
<1> QED BY <1>3 DEF d

LEMMA ReplacedDevice ==
  ASSUME NEW s, NEW a, NEW p, s = [m \in DOMAIN s |-> s[m]],
         \A m \in DOMAIN s : s[m] \in DeviceLists, NEW n, NEW l \in DeviceLists
  PROVE  /\ IsDevice(Dev(Replaced(s, n, l), a, p))
         /\ DOMAIN Replaced(s, n, l) = DOMAIN s
         /\ \A m \in DOMAIN s : Replaced(s, n, l)[m] = IF m = n THEN l ELSE s[m]
<1> DEFINE r == Replaced(s, n, l)
<1>1. /\ r = [m \in DOMAIN r |-> r[m]] /\ DOMAIN r = DOMAIN s
      /\ \A m \in DOMAIN s : r[m] = IF m = n THEN l ELSE s[m]
  BY DEF Replaced
<1>2. \A m \in DOMAIN r : r[m] \in DeviceLists
  BY <1>1
<1> HIDE DEF r
<1>3. IsDevice(Dev(r, a, p))
  BY <1>1, <1>2, DeviceOf
<1> QED BY <1>1, <1>3 DEF r

LEMMA ListUpdated ==
  ASSUME NEW l \in DeviceLists
  PROVE  /\ l.odts \in Seq(Seq(Ext)) /\ l.event \in Nat
         /\ l.mode \in SUBSET {"timestamp", "stim", "pid_off"}
         /\ l.state \in {"off", "selected", "running"}
         /\ \A x \in Seq(Seq(Ext)) :
              /\ [l EXCEPT !.odts = x] \in DeviceLists /\ [l EXCEPT !.odts = x].odts = x
              /\ [l EXCEPT !.odts = x].mode = l.mode /\ [l EXCEPT !.odts = x].state = l.state
         /\ \A x \in SUBSET {"timestamp", "stim", "pid_off"}, y \in Nat :
              /\ [l EXCEPT !.mode = x, !.event = y] \in DeviceLists
              /\ [l EXCEPT !.mode = x, !.event = y].odts = l.odts
              /\ [l EXCEPT !.mode = x, !.event = y].mode = x
              /\ [l EXCEPT !.mode = x, !.event = y].state = l.state
         /\ \A x \in {"off", "selected", "running"} :
              /\ [l EXCEPT !.state = x] \in DeviceLists /\ [l EXCEPT !.state = x].odts = l.odts
              /\ [l EXCEPT !.state = x].mode = l.mode /\ [l EXCEPT !.state = x].state = x
              /\ [l EXCEPT !.state = x].event = l.event
<1> DEFINE O == Seq(Seq(Ext))
           M == SUBSET {"timestamp", "stim", "pid_off"}
           S == {"off", "selected", "running"}
<1>1. DeviceLists = [odts : O, mode : M, event : Nat, state : S]
  BY DEF DeviceLists
<1> HIDE DEF O, M, S
<1>2. l.odts \in O /\ l.event \in Nat /\ l.mode \in M /\ l.state \in S
  BY <1>1
<1>3. \A x \in O :
              /\ [l EXCEPT !.odts = x] \in DeviceLists /\ [l EXCEPT !.odts = x].odts = x
              /\ [l EXCEPT !.odts = x].mode = l.mode /\ [l EXCEPT !.odts = x].state = l.state
  BY <1>1
<1>4. \A x \in M, y \in Nat :
              /\ [l EXCEPT !.mode = x, !.event = y] \in DeviceLists
              /\ [l EXCEPT !.mode = x, !.event = y].odts = l.odts
              /\ [l EXCEPT !.mode = x, !.event = y].mode = x
              /\ [l EXCEPT !.mode = x, !.event = y].state = l.state
  BY <1>1
<1>5. \A x \in S :
              /\ [l EXCEPT !.state = x] \in DeviceLists /\ [l EXCEPT !.state = x].odts = l.odts
              /\ [l EXCEPT !.state = x].mode = l.mode /\ [l EXCEPT !.state = x].state = x
              /\ [l EXCEPT !.state = x].event = l.event
  BY <1>1
<1> QED BY <1>2, <1>3, <1>4, <1>5 DEF O, M, S

LEMMA OdtsUpdated ==
  ASSUME NEW l \in DeviceLists, NEW x \in Seq(Seq(Ext))
  PROVE  /\ [l EXCEPT !.odts = x] \in DeviceLists /\ [l EXCEPT !.odts = x].odts = x
         /\ [l EXCEPT !.odts = x].mode = l.mode /\ [l EXCEPT !.odts = x].state = l.state
  BY ListUpdated
Moded(l, x, y) == [l EXCEPT !.mode = x, !.event = y]
LEMMA ModeUpdated ==
  ASSUME NEW l \in DeviceLists, NEW x \in SUBSET {"timestamp", "stim", "pid_off"},
         NEW y \in Nat
  PROVE  /\ Moded(l, x, y) \in DeviceLists
         /\ Moded(l, x, y).odts = l.odts
         /\ Moded(l, x, y).mode = x
         /\ Moded(l, x, y).state = l.state
<1>1. \A v \in SUBSET {"timestamp", "stim", "pid_off"}, z \in Nat :
              /\ [l EXCEPT !.mode = v, !.event = z] \in DeviceLists
              /\ [l EXCEPT !.mode = v, !.event = z].odts = l.odts
              /\ [l EXCEPT !.mode = v, !.event = z].mode = v
              /\ [l EXCEPT !.mode = v, !.event = z].state = l.state
  BY ListUpdated
<1> QED BY <1>1 DEF Moded

(* The fields of commands.                                                 *)
LEMMA CommandFields ==
  ASSUME NEW c \in Commands
  PROVE  /\ c.cmd \in {"FREE_DAQ", "ALLOC_DAQ", "ALLOC_ODT", "ALLOC_ODT_ENTRY", "SET_DAQ_PTR",
                       "WRITE_DAQ", "SET_DAQ_LIST_MODE", "START_STOP_DAQ_LIST"}
         /\ c.cmd = "ALLOC_DAQ" => c.count \in Nat
         /\ c.cmd = "ALLOC_ODT" => c.list \in Nat /\ c.count \in Nat
         /\ c.cmd = "ALLOC_ODT_ENTRY" => c.count \in Nat
         /\ c.cmd = "WRITE_DAQ" => c.entry \in Ext
         /\ c.cmd = "SET_DAQ_LIST_MODE" =>
              c.mode \in SUBSET {"timestamp", "stim", "pid_off"} /\ c.event \in Nat
<1>1. CASE c \in Frees
  BY <1>1 DEF Frees
<1>2. CASE c \in AllocDaqs
  BY <1>2 DEF AllocDaqs
<1>3. CASE c \in AllocOdts
  BY <1>3 DEF AllocOdts
<1>4. CASE c \in AllocEntries
  BY <1>4 DEF AllocEntries
<1>5. CASE c \in SetPtrs
  BY <1>5 DEF SetPtrs
<1>6. CASE c \in Writes
  BY <1>6 DEF Writes
<1>7. CASE c \in Modes
  BY <1>7 DEF Modes
<1>8. CASE c \in Starts
  BY <1>8 DEF Starts
<1> QED BY <1>1, <1>2, <1>3, <1>4, <1>5, <1>6, <1>7, <1>8 DEF Commands, Allocations, Selections

LEMMA CopiesTyped ==
  ASSUME NEW n \in Nat, NEW X, NEW x \in X
  PROVE  Copies(n, x) \in Seq(X) /\ Len(Copies(n, x)) = n
  BY DEF Copies

(* What a command but FREE_DAQ and ALLOC_DAQ changes of the lists.         *)
Touched(d, e, c) ==
  /\ IsDevice(e) /\ DOMAIN e.lists = DOMAIN d.lists
  /\ \A m \in DOMAIN d.lists :
       /\ Len(e.lists[m].odts) = IF c.cmd = "ALLOC_ODT" /\ m = c.list THEN c.count
                                 ELSE Len(d.lists[m].odts)
       /\ e.lists[m].mode = IF c.cmd = "SET_DAQ_LIST_MODE" /\ m = c.list THEN c.mode
                            ELSE d.lists[m].mode
       /\ e.lists[m].state = "running" => d.lists[m].state = "running"

(* A list that got other ODTs, ...                                         *)
LEMMA OdtsReplaced ==
  ASSUME NEW s, NEW a, NEW p, NEW b, NEW q, IsDevice(Dev(s, a, p)), NEW n \in DOMAIN s,
         NEW x \in Seq(Seq(Ext)), NEW c, c.cmd # "SET_DAQ_LIST_MODE",
         c.cmd # "ALLOC_ODT" => Len(x) = Len(s[n].odts),
         c.cmd = "ALLOC_ODT" => c.list = n /\ Len(x) = c.count
  PROVE  Touched(Dev(s, a, p), Dev(Replaced(s, n, [s[n] EXCEPT !.odts = x]), b, q), c)
<1> DEFINE d == Dev(s, a, p)
           l == [s[n] EXCEPT !.odts = x]
           r == Replaced(s, n, l)
           e == Dev(r, b, q)
<1>1. d.lists = s /\ e.lists = r
  BY DevFields
<1>2. s = [m \in DOMAIN s |-> s[m]] /\ \A m \in DOMAIN s : s[m] \in DeviceLists
  BY <1>1 DEF IsDevice
<1>3. l \in DeviceLists /\ l.odts = x /\ l.mode = s[n].mode /\ l.state = s[n].state
  <2> DEFINE k == s[n]
  <2>1. k \in DeviceLists
    BY <1>2
  <2> HIDE DEF k
  <2>2. LET u == [k EXCEPT !.odts = x]
        IN u \in DeviceLists /\ u.odts = x /\ u.mode = k.mode /\ u.state = k.state
    BY <2>1, OdtsUpdated
  <2> QED BY <2>2 DEF k
<1> HIDE DEF l
<1>4. /\ IsDevice(e) /\ DOMAIN r = DOMAIN s
      /\ \A m \in DOMAIN s : r[m] = IF m = n THEN l ELSE s[m]
  BY <1>2, <1>3, ReplacedDevice
<1> HIDE DEF d, r, e
<1>5. Touched(d, e, c)
  BY <1>1, <1>3, <1>4 DEF Touched
<1> QED BY <1>5 DEF d, e, r, l

(* ... another mode and event, or another state.                           *)
LEMMA OthersReplaced ==
  ASSUME NEW s, NEW a, NEW p, IsDevice(Dev(s, a, p)), NEW n \in DOMAIN s, NEW l \in DeviceLists,
         l.odts = s[n].odts, l.state = "running" => s[n].state = "running",
         NEW c, c.cmd # "ALLOC_ODT",
         c.cmd # "SET_DAQ_LIST_MODE" => l.mode = s[n].mode,
         c.cmd = "SET_DAQ_LIST_MODE" => c.list = n /\ l.mode = c.mode
  PROVE  Touched(Dev(s, a, p), Dev(Replaced(s, n, l), a, p), c)
<1> DEFINE d == Dev(s, a, p)
           r == Replaced(s, n, l)
           e == Dev(r, a, p)
<1>1. d.lists = s /\ e.lists = r
  BY DevFields
<1>2. s = [m \in DOMAIN s |-> s[m]] /\ \A m \in DOMAIN s : s[m] \in DeviceLists
  BY <1>1 DEF IsDevice
<1>3a. s = [m \in DOMAIN s |-> s[m]]
  BY <1>2
<1>3b. \A m \in DOMAIN s : s[m] \in DeviceLists
  BY <1>2
<1>4. /\ IsDevice(e) /\ DOMAIN r = DOMAIN s
      /\ \A m \in DOMAIN s : r[m] = IF m = n THEN l ELSE s[m]
  <2>1. IsDevice(e)
    BY <1>3a, <1>3b, ReplacedDevice
  <2>2. DOMAIN r = DOMAIN s /\ \A m \in DOMAIN s : r[m] = IF m = n THEN l ELSE s[m]
    BY DEF Replaced
  <2> QED BY <2>1, <2>2
<1> HIDE DEF d, r, e
<1>5. Touched(d, e, c)
  BY <1>1, <1>4 DEF Touched
<1> QED BY <1>5 DEF d, e, r

(* The ODTs with one entry, or all entries of one ODT, replaced.           *)
LEMMA EntryReplaced ==
  ASSUME NEW o \in Seq(Seq(Ext)), NEW j \in DOMAIN o
  PROVE  /\ \A x \in Seq(Ext) : /\ [o EXCEPT ![j] = x] \in Seq(Seq(Ext))
                                /\ Len([o EXCEPT ![j] = x]) = Len(o)
         /\ o[j] \in Seq(Ext)
         /\ \A e \in DOMAIN o[j], x \in Ext : [o[j] EXCEPT ![e] = x] \in Seq(Ext)
<1> DEFINE X == Seq(Ext)
<1>1. o \in Seq(X) /\ j \in DOMAIN o
  OBVIOUS
<1> HIDE DEF X
<1>2. \A x \in X : [o EXCEPT ![j] = x] \in Seq(X) /\ Len([o EXCEPT ![j] = x]) = Len(o)
  BY <1>1
<1>3. o[j] \in X
  BY <1>1
<1> USE DEF X
<1>4. \A e \in DOMAIN o[j], x \in Ext : [o[j] EXCEPT ![e] = x] \in Seq(Ext)
  BY <1>3
<1> QED BY <1>2, <1>3, <1>4

LEMMA ExecutedIs ==
  ASSUME NEW d, IsDevice(d), NEW c \in Commands, Accepts(d, c),
         c.cmd \notin {"FREE_DAQ", "ALLOC_DAQ"}
  PROVE  Touched(d, Executed(d, c), c)
<1> DEFINE s == d.lists
           a == d.allocating
           p == d.ptr
<1>1. d = Dev(s, a, p)
  BY DEF IsDevice, Dev
<1>2. s = [m \in DOMAIN s |-> s[m]] /\ \A m \in DOMAIN s : s[m] \in DeviceLists
  BY DEF IsDevice
<1>3. IsDevice(Dev(s, a, p))
  BY <1>1
<1>4. CASE c.cmd = "ALLOC_ODT"
  <2> DEFINE n == c.list
             x == Copies(c.count, <<>>)
             l == [s[n] EXCEPT !.odts = x]
  <2>1. n \in DOMAIN s /\ c.count \in Nat
    BY <1>4, CommandFields DEF Accepts, Exists
  <2>2. x \in Seq(Seq(Ext)) /\ Len(x) = c.count
    <3>1. <<>> \in Seq(Ext)
      OBVIOUS
    <3> QED BY <2>1, <3>1, CopiesTyped
  <2>3. Executed(d, c) = [d EXCEPT !.lists = [s EXCEPT ![n] = l]]
    BY <1>4 DEF Executed
  <2> HIDE DEF s, a, p, n, x
  <2>4. Executed(d, c) = Dev(Replaced(s, n, l), a, p)
    <3> HIDE DEF l
    <3> QED BY <1>1, <1>2, <2>3, DevUpdated, ReplacedIs
  <2>5. c.cmd # "SET_DAQ_LIST_MODE" /\ c.list = n
    BY <1>4 DEF n
  <2>6. Touched(Dev(s, a, p), Dev(Replaced(s, n, l), a, p), c)
    BY <1>3, <1>4, <2>1, <2>2, <2>5, OdtsReplaced
  <2> QED BY <1>1, <2>4, <2>6
<1>5. CASE c.cmd = "ALLOC_ODT_ENTRY"
  <2> DEFINE n == c.list
             o == s[n].odts
             y == Copies(c.count, NoEntry)
             x == [o EXCEPT ![c.odt] = y]
             l == [s[n] EXCEPT !.odts = x]
  <2>1. n \in DOMAIN s /\ c.count \in Nat /\ c.odt \in DOMAIN o
    BY <1>5, CommandFields DEF Accepts, OdtExists, Exists
  <2>2. y \in Seq(Ext)
    <3>1. NoEntry \in Ext
      BY DEF NoEntry, Ext
    <3> QED BY <2>1, <3>1, CopiesTyped
  <2>3. x \in Seq(Seq(Ext)) /\ Len(x) = Len(o)
    <3>1. o \in Seq(Seq(Ext))
      BY <1>2, <2>1, ListUpdated
    <3> HIDE DEF o, y
    <3> QED BY <2>1, <2>2, <3>1, EntryReplaced
  <2>4. Executed(d, c) = [[d EXCEPT !.allocating = "entries"] EXCEPT !.lists = [s EXCEPT ![n] = l]]
    <3>1. Executed(d, c) = [d EXCEPT !.allocating = "entries",
                   !.lists[c.list].odts[c.odt] = Copies(c.count, NoEntry)]
      BY <1>5 DEF Executed
    <3>2. [d EXCEPT !.allocating = "entries"].lists = s
      BY <1>1, DevUpdated, DevFields
    <3> QED BY <3>1, <3>2
  <2> HIDE DEF s, a, p, n, x, o
  <2>5. Executed(d, c) = Dev(Replaced(s, n, l), "entries", p)
    <3> DEFINE g == "entries"
               z == [s EXCEPT ![n] = l]
    <3> HIDE DEF l
    <3>1. z = Replaced(s, n, l)
      BY <1>2, ReplacedIs
    <3>2. Executed(d, c) = [[d EXCEPT !.allocating = g] EXCEPT !.lists = z]
      BY <2>4
    <3> HIDE DEF g, z
    <3>3. [d EXCEPT !.allocating = g] = Dev(s, g, p)
      BY <1>1, DevUpdated
    <3>4. Executed(d, c) = Dev(z, g, p)
      BY <3>2, <3>3 DEF Dev
    <3> QED BY <3>1, <3>4 DEF g
  <2>6. c.cmd # "SET_DAQ_LIST_MODE" /\ c.cmd # "ALLOC_ODT" /\ Len(x) = Len(s[n].odts)
    BY <1>5, <2>3 DEF o
  <2>7. Touched(Dev(s, a, p), Dev(Replaced(s, n, l), "entries", p), c)
    BY <1>3, <2>1, <2>3, <2>6, OdtsReplaced
  <2> QED BY <1>1, <2>5, <2>7
<1>6. CASE c.cmd = "SET_DAQ_PTR"
  <2> DEFINE q == <<c.list, c.odt, c.entry>>
  <2>1. Executed(d, c) = [d EXCEPT !.ptr = q]
    BY <1>6 DEF Executed
  <2> HIDE DEF q
  <2>2. Executed(d, c) = Dev(s, a, q)
    <3> HIDE DEF s, a, p
    <3> QED BY <1>1, <2>1, DevUpdated
  <2>3. IsDevice(Dev(s, a, q)) /\ Dev(s, a, q).lists = s
    <3> HIDE DEF s, a, p
    <3> QED BY <1>2, DeviceOf, DevFields
  <2> QED BY <1>6, <2>2, <2>3 DEF Touched
<1>7. CASE c.cmd = "WRITE_DAQ"
  <2> DEFINE n == p[1]
             j == p[2]
             k == p[3]
             o == s[n].odts
             y == [o[j] EXCEPT ![k] = c.entry]
             x == [o EXCEPT ![j] = y]
             l == [s[n] EXCEPT !.odts = x]
             q == [p EXCEPT ![3] = @ + 1]
  <2>1. n \in DOMAIN s /\ j \in DOMAIN o /\ k \in DOMAIN o[j] /\ c.entry \in Ext
    BY <1>7, CommandFields DEF Accepts, EntryExists, OdtExists, Exists
  <2>3. x \in Seq(Seq(Ext)) /\ Len(x) = Len(o)
    <3>1. o \in Seq(Seq(Ext))
      BY <1>2, <2>1, ListUpdated
    <3>2. y \in Seq(Ext)
      <4> HIDE DEF o, j, k
      <4> QED BY <2>1, <3>1, EntryReplaced
    <3> HIDE DEF o, y, j
    <3> QED BY <2>1, <3>1, <3>2, EntryReplaced
  <2>4. Executed(d, c) = [[d EXCEPT !.lists = [s EXCEPT ![n] = l]] EXCEPT !.ptr = q]
    <3>1. Executed(d, c) = [d EXCEPT !.lists[d.ptr[1]].odts[d.ptr[2]][d.ptr[3]] = c.entry,
                                     !.ptr[3] = @ + 1]
      BY <1>7 DEF Executed
    <3> DEFINE z == [s EXCEPT ![n] = l]
    <3>2. [d EXCEPT !.lists = z].ptr = p
      <4> HIDE DEF z
      <4> QED BY <1>1, DevUpdated, DevFields
    <3> QED BY <3>1, <3>2
  <2> HIDE DEF s, a, p, n, j, k, x, o, q
  <2>5. Executed(d, c) = Dev(Replaced(s, n, l), a, q)
    <3> DEFINE z == [s EXCEPT ![n] = l]
    <3> HIDE DEF l
    <3>1. z = Replaced(s, n, l)
      BY <1>2, ReplacedIs
    <3>2. Executed(d, c) = [[d EXCEPT !.lists = z] EXCEPT !.ptr = q]
      BY <2>4
    <3> HIDE DEF z
    <3>3. [d EXCEPT !.lists = z] = Dev(z, a, p)
      BY <1>1 DEF Dev
    <3>4. Executed(d, c) = Dev(z, a, q)
      BY <3>2, <3>3 DEF Dev
    <3> QED BY <3>1, <3>4
  <2>6. c.cmd # "SET_DAQ_LIST_MODE" /\ c.cmd # "ALLOC_ODT" /\ Len(x) = Len(s[n].odts)
    BY <1>7, <2>3 DEF o
  <2>7. Touched(Dev(s, a, p), Dev(Replaced(s, n, l), a, q), c)
    BY <1>3, <2>1, <2>3, <2>6, OdtsReplaced
  <2> QED BY <1>1, <2>5, <2>7
<1>8. CASE c.cmd = "SET_DAQ_LIST_MODE"
  <2> DEFINE n == c.list
             x == c.mode
             y == c.event
             l == [s[n] EXCEPT !.mode = x, !.event = y]
  <2>1. n \in DOMAIN s /\ x \in SUBSET {"timestamp", "stim", "pid_off"} /\ y \in Nat
    BY <1>8, CommandFields DEF Accepts, Exists
  <2>2. /\ l \in DeviceLists /\ l.odts = s[n].odts /\ l.mode = x /\ l.state = s[n].state
    <3> DEFINE k == s[n]
    <3>1. k \in DeviceLists
      BY <1>2, <2>1
    <3> HIDE DEF k, x, y
    <3>2. LET u == Moded(k, x, y)
          IN u \in DeviceLists /\ u.odts = k.odts /\ u.mode = x /\ u.state = k.state
      BY <2>1, <3>1, ModeUpdated
    <3> QED BY <3>2 DEF k, x, y, Moded
  <2>3. Executed(d, c) = [d EXCEPT !.lists = [s EXCEPT ![n] = l]]
    <3>1. Executed(d, c) = [d EXCEPT !.lists[c.list].mode = c.mode, !.lists[c.list].event = c.event]
      BY <1>8 DEF Executed
    <3> DEFINE u == [s[n] EXCEPT !.mode = x]
               z == [s EXCEPT ![n] = u]
    <3>2. Executed(d, c) = [[d EXCEPT !.lists = z] EXCEPT !.lists[n].event = y]
      BY <3>1
    <3>3. [d EXCEPT !.lists = z] = Dev(z, a, p)
      <4> HIDE DEF z
      <4> QED BY <1>1, DevUpdated
    <3>4. Executed(d, c)
            = [Dev(z, a, p) EXCEPT !.lists = [z EXCEPT ![n] = [z[n] EXCEPT !.event = y]]]
      <4>1. Dev(z, a, p).lists = z
        <5> HIDE DEF z
        <5> QED BY DevFields
      <4> HIDE DEF z
      <4> QED BY <3>2, <3>3, <4>1
    <3>5. z[n] = u /\ [u EXCEPT !.event = y] = l
      <4>1. z[n] = u
        <5> HIDE DEF u
        <5> QED BY <1>2, <2>1
      <4> QED BY <4>1
    <3>6. [z EXCEPT ![n] = l] = [s EXCEPT ![n] = l]
      <4> HIDE DEF u, l
      <4> QED BY <1>2
    <3> DEFINE w == [s EXCEPT ![n] = l]
    <3>7. Executed(d, c) = [Dev(z, a, p) EXCEPT !.lists = w]
      <4> HIDE DEF z, u, l
      <4> QED BY <3>4, <3>5, <3>6
    <3> HIDE DEF z, w, s, a, p
    <3>8. Executed(d, c) = Dev(w, a, p) /\ [d EXCEPT !.lists = w] = Dev(w, a, p)
      BY <1>1, <3>7, DevUpdated
    <3> QED BY <3>8 DEF w
  <2> HIDE DEF s, a, p, n, x, y, l
  <2>4. Executed(d, c) = Dev(Replaced(s, n, l), a, p)
    BY <1>1, <1>2, <2>3, DevUpdated, ReplacedIs
  <2>5. c.cmd # "ALLOC_ODT" /\ c.list = n /\ l.mode = c.mode
    BY <1>8, <2>2 DEF n, x
  <2>6. Touched(Dev(s, a, p), Dev(Replaced(s, n, l), a, p), c)
    BY <1>3, <1>8, <2>1, <2>2, <2>5, OthersReplaced
  <2> QED BY <1>1, <2>4, <2>6
<1>9. CASE c.cmd = "START_STOP_DAQ_LIST"
  <2> DEFINE n == c.list
             l == [s[n] EXCEPT !.state = "selected"]
  <2>1. n \in DOMAIN s
    BY <1>9 DEF Accepts, Exists
  <2>2. /\ l \in DeviceLists /\ l.odts = s[n].odts /\ l.mode = s[n].mode /\ l.state = "selected"
    BY <1>2, <2>1, ListUpdated
  <2>3. Executed(d, c) = [d EXCEPT !.lists = [s EXCEPT ![n] = l]]
    BY <1>9 DEF Executed
  <2>5. c.cmd # "ALLOC_ODT" /\ c.cmd # "SET_DAQ_LIST_MODE" /\ l.state # "running"
    BY <1>9, <2>2
  <2> HIDE DEF s, a, p, n, l
  <2>4. Executed(d, c) = Dev(Replaced(s, n, l), a, p)
    BY <1>1, <1>2, <2>3, DevUpdated, ReplacedIs
  <2>6. Touched(Dev(s, a, p), Dev(Replaced(s, n, l), a, p), c)
    BY <1>3, <2>1, <2>2, <2>5, OthersReplaced
  <2> QED BY <1>1, <2>4, <2>6
<1> QED BY <1>4, <1>5, <1>6, <1>7, <1>8, <1>9, CommandFields

LEMMA ListOfTyped ==
  ASSUME NEW o \in Seq(Seq(Ext))
  PROVE  ListOf(o) \in DeviceLists /\ ListOf(o).odts = o /\ ListOf(o).state = "off"
  BY DEF ListOf, DeviceLists

(* A new device has the lists of the factory, ...                          *)
FactoryOdts(i) ==
  [j \in DOMAIN config.lists[i].odts |->
     [e \in DOMAIN config.lists[i].odts[j] |->
        LET o == config.lists[i].odts[j][e]
        IN [ext |-> o.ext, address |-> o.address, length |-> o.length]]]
LEMMA FactoryOdtsTyped ==
  ASSUME config \in Configurations, NEW i \in ListIndices
  PROVE  FactoryOdts(i) \in Seq(Seq(Ext)) /\ Len(FactoryOdts(i)) = Len(config.lists[i].odts)
<1> DEFINE s == config.lists[i].odts
           m == Len(s)
           F(j) == [e \in DOMAIN s[j] |->
                      LET o == s[j][e]
                      IN [ext |-> o.ext, address |-> o.address, length |-> o.length]]
<1>1. s \in Seq(Seq(Objects))
  BY ListTyped
<1>2. m \in Nat /\ DOMAIN s = 1 .. m /\ \A j \in 1 .. m : s[j] \in Seq(Objects)
  <2> DEFINE X == Seq(Objects)
  <2>1. s \in Seq(X)
    BY <1>1
  <2> HIDE DEF s, X
  <2>2. Len(s) \in Nat /\ DOMAIN s = 1 .. Len(s) /\ \A j \in 1 .. Len(s) : s[j] \in X
    BY <2>1
  <2> QED BY <2>2 DEF X
<1>3. ASSUME NEW j \in 1 .. m PROVE F(j) \in Seq(Ext)
  <2> DEFINE t == s[j]
             k == Len(t)
             G(e) == [ext |-> t[e].ext, address |-> t[e].address, length |-> t[e].length]
  <2>1. t \in Seq(Objects)
    BY <1>2
  <2>2. k \in Nat /\ DOMAIN t = 1 .. k /\ \A e \in 1 .. k : t[e] \in Objects
    <3> HIDE DEF t
    <3> QED BY <2>1
  <2>3. \A e \in 1 .. k : G(e) \in Ext
    <3>1. \A o \in Objects : [ext |-> o.ext, address |-> o.address, length |-> o.length] \in Ext
      BY DEF Objects, Ext
    <3> HIDE DEF t, k
    <3> QED BY <2>2, <3>1
  <2>4. F(j) = [e \in 1 .. k |-> G(e)]
    BY <2>2
  <2> HIDE DEF k, G, F
  <2>5. [e \in 1 .. k |-> G(e)] \in Seq(Ext)
    BY <2>2, <2>3
  <2> QED BY <2>4, <2>5
<1>4. FactoryOdts(i) = [j \in 1 .. m |-> F(j)]
  BY <1>2 DEF FactoryOdts
<1> DEFINE X == Seq(Ext)
<1>5. \A j \in 1 .. m : F(j) \in X
  BY <1>3
<1> HIDE DEF m, F, X
<1>6. [j \in 1 .. m |-> F(j)] \in Seq(X) /\ Len([j \in 1 .. m |-> F(j)]) = m
  BY <1>2, <1>5
<1> QED BY <1>4, <1>6 DEF m, X

LEMMA NewDeviceIs ==
  ASSUME config \in Configurations, NEW a
  PROVE  LET d == [NewDevice(config) EXCEPT !.allocating = a]
         IN IsDevice(d) /\ ~Running(d) /\ FactoryShape(d)
<1> DEFINE s == FactoryLists(config)
           p == <<0, 0, 0>>
           d == Dev(s, a, p)
<1>1. [NewDevice(config) EXCEPT !.allocating = a] = d
  BY DEF NewDevice, Dev
<1>2. /\ s = [n \in DOMAIN s |-> s[n]]
      /\ \A n \in DOMAIN s : s[n] \in DeviceLists /\ s[n].state = "off"
      /\ FactoryShape(d)
  <2>1. CASE ~Props.static
    <3>1. s = <<>>
      BY <2>1 DEF FactoryLists, Props
    <3>2. FactoryShape(d)
      BY <2>1 DEF FactoryShape
    <3>3. DOMAIN s = {} /\ s = [n \in DOMAIN s |-> s[n]]
      BY <3>1
    <3> QED BY <3>2, <3>3
  <2>2. CASE Props.static
    <3> DEFINE D == {i - 1 : i \in ListIndices}
    <3>1. s = [n \in D |-> ListOf(FactoryOdts(n + 1))]
      BY <2>2 DEF FactoryLists, FactoryOdts, ListIndices, Props
    <3>2. \A i \in ListIndices : Number(i) = i - 1 /\ i \in Nat /\ (i - 1) + 1 = i
      BY <2>2, NumberTyped DEF Number
    <3>3. \A n \in D : n + 1 \in ListIndices
      BY <3>2
    <3>4. \A i \in ListIndices : /\ ListOf(FactoryOdts(i)) \in DeviceLists
                                 /\ ListOf(FactoryOdts(i)).odts = FactoryOdts(i)
                                 /\ ListOf(FactoryOdts(i)).state = "off"
      <4>1. ASSUME NEW i \in ListIndices
            PROVE  /\ ListOf(FactoryOdts(i)) \in DeviceLists
                   /\ ListOf(FactoryOdts(i)).odts = FactoryOdts(i)
                   /\ ListOf(FactoryOdts(i)).state = "off"
        <5> DEFINE o == FactoryOdts(i)
        <5>1. o \in Seq(Seq(Ext))
          BY FactoryOdtsTyped
        <5> HIDE DEF o
        <5>2. ListOf(o) \in DeviceLists /\ ListOf(o).odts = o /\ ListOf(o).state = "off"
          BY <5>1, ListOfTyped
        <5> QED BY <5>2 DEF o
      <4> QED BY <4>1
    <3>5. DOMAIN s = D /\ \A n \in D : s[n] = ListOf(FactoryOdts(n + 1))
      <4> HIDE DEF D, s
      <4> QED BY <3>1
    <3>6. FactoryShape(d)
      <4>1. SUFFICES ASSUME Dynamic = {}
                     PROVE  Numbered(d) /\ \A i \in ListIndices : OdtsOf(d, i) = Len(NewPlan[i])
        BY DEF FactoryShape
      <4>2. d.lists = s
        <5> HIDE DEF s, p
        <5> QED BY DevFields
      <4>3. D = {Number(i) : i \in ListIndices}
        BY <3>2
      <4>4. Numbered(d)
        BY <3>5, <4>2, <4>3 DEF Numbered
      <4>5. ASSUME NEW i \in ListIndices PROVE OdtsOf(d, i) = Len(NewPlan[i])
        <5>1. Number(i) \in D /\ s[Number(i)] = ListOf(FactoryOdts(i))
          BY <3>2, <3>5
        <5>2. OdtsOf(d, i) = Len(config.lists[i].odts)
          <6> HIDE DEF s, d
          <6> QED BY <3>4, <4>2, <5>1, FactoryOdtsTyped DEF OdtsOf
        <5>3. NewPlan[i] = PredefinedBins(config.lists[i].odts)
          BY <4>1, ListTyped DEF NewPlan, MeasurementsOpt, Dynamic
        <5>4. Len(PredefinedBins(config.lists[i].odts)) = Len(config.lists[i].odts)
          <6> DEFINE o == config.lists[i].odts
                     m == Len(o)
                     F(j) == [size |-> SumOfLengths(o[j]), residual |-> 0, entries |-> o[j]]
          <6>1. m \in Nat /\ DOMAIN o = 1 .. m
            <7>1. o \in Seq(Seq(Objects))
              BY ListTyped
            <7> DEFINE X == Seq(Objects)
            <7>2. o \in Seq(X)
              BY <7>1
            <7> HIDE DEF X, o
            <7> QED BY <7>2
          <6>2. PredefinedBins(o) = [j \in 1 .. m |-> PredefinedBins(o)[j]]
            BY <6>1 DEF PredefinedBins
          <6> DEFINE b == PredefinedBins(o)
          <6> HIDE DEF m, b
          <6>3. Len([j \in 1 .. m |-> b[j]]) = m
            BY <6>1
          <6> QED BY <6>2, <6>3 DEF m, b
        <5> QED BY <5>2, <5>3, <5>4
      <4> QED BY <4>4, <4>5
    <3>7. s = [n \in DOMAIN s |-> s[n]]
      BY <3>1
    <3>8. \A n \in DOMAIN s : s[n] \in DeviceLists /\ s[n].state = "off"
      <4> HIDE DEF s, D
      <4> QED BY <3>3, <3>4, <3>5
    <3> QED BY <3>6, <3>7, <3>8
  <2> QED BY <2>1, <2>2
<1>3. IsDevice(d) /\ d.lists = s
  <2> HIDE DEF s, p
  <2> QED BY <1>2, DeviceOf, DevFields
<1>4. ~Running(d)
  <2> HIDE DEF d, s
  <2> QED BY <1>2, <1>3 DEF Running
<1> QED BY <1>1, <1>2, <1>3, <1>4

(* ... and ALLOC_DAQ makes lists without ODTs.                             *)
LEMMA AllocatedIs ==
  ASSUME config \in Configurations, NEW d, IsDevice(d), ~Props.static
  PROVE  LET e == Executed(d, AllocDaq(Len(config.lists)))
         IN /\ IsDevice(e) /\ ~Running(e) /\ Numbered(e)
            /\ \A i \in ListIndices : OdtsOf(e, i) = 0
<1> DEFINE L == Len(config.lists)
           c == AllocDaq(L)
           l == ListOf(<<>>)
           s == [n \in Props.minDaq .. Props.minDaq + L - 1 |-> l]
           g == "odts"
           p == d.ptr
           e == Executed(d, c)
           f == Dev(s, g, p)
<1>1. d = Dev(d.lists, d.allocating, p)
  BY DEF IsDevice, Dev
<1>2. e = [d EXCEPT !.allocating = "odts",
                    !.lists = [n \in Props.minDaq .. Props.minDaq + L - 1 |-> ListOf(<<>>)]]
  BY DEF Executed, AllocDaq
<1>3. e = f
  <2>1. e = [[d EXCEPT !.allocating = g] EXCEPT !.lists = s]
    BY <1>2
  <2> DEFINE t == d.lists
             a == d.allocating
  <2>2. d = Dev(t, a, p)
    BY <1>1
  <2> HIDE DEF g, s, p, e, c, t, a
  <2>3. [d EXCEPT !.allocating = g] = Dev(t, g, p)
    BY <2>2 DEF Dev
  <2> QED BY <2>1, <2>3 DEF Dev
<1>4. l \in DeviceLists /\ l.state = "off" /\ Len(l.odts) = 0
  <2>1. <<>> \in Seq(Seq(Ext)) /\ Len(<<>>) = 0
    OBVIOUS
  <2> DEFINE o == <<>>
  <2>2. o \in Seq(Seq(Ext)) /\ Len(o) = 0
    BY <2>1
  <2> HIDE DEF o
  <2>3. ListOf(o) \in DeviceLists /\ ListOf(o).state = "off" /\ ListOf(o).odts = o
    BY <2>2, ListOfTyped
  <2> QED BY <2>2, <2>3 DEF o
<1> HIDE DEF l
<1>5. s = [n \in DOMAIN s |-> s[n]] /\ \A n \in DOMAIN s : s[n] = l
  OBVIOUS
<1>6. IsDevice(f) /\ f.lists = s
  <2>1. \A n \in DOMAIN s : s[n] \in DeviceLists
    BY <1>4, <1>5
  <2>2. s = [n \in DOMAIN s |-> s[n]]
    BY <1>5
  <2> HIDE DEF s, g, p
  <2> QED BY <2>1, <2>2, DeviceOf, DevFields
<1>7. DOMAIN s = {Number(i) : i \in ListIndices}
  <2>1. L \in Nat /\ ListIndices = 1 .. L /\ Props.minDaq \in Nat
    BY ConfigTyped, PropsTyped
  <2>2. DOMAIN s = Props.minDaq .. Props.minDaq + L - 1
    OBVIOUS
  <2>3. \A i \in ListIndices : Number(i) = Props.minDaq + i - 1
    BY DEF Number
  <2> DEFINE a == Props.minDaq
  <2> HIDE DEF L, a, s
  <2>4. DOMAIN s = a .. a + L - 1 /\ \A i \in 1 .. L : Number(i) = a + i - 1
    BY <2>1, <2>2, <2>3 DEF a
  <2>5. ASSUME NEW n \in a .. a + L - 1 PROVE \E i \in 1 .. L : Number(i) = n
    <3>1. a \in Nat
      BY <2>1 DEF a
    <3>2. n - a + 1 \in 1 .. L
      BY <2>1, <3>1
    <3>3. Number(n - a + 1) = a + (n - a + 1) - 1
      BY <2>4, <3>2
    <3> QED BY <2>1, <3>1, <3>2, <3>3
  <2>6. \A i \in 1 .. L : Number(i) \in a .. a + L - 1
    BY <2>1, <2>4 DEF a
  <2> QED BY <2>1, <2>4, <2>5, <2>6
<1> HIDE DEF s, f, e
<1>8. ~Running(f) /\ Numbered(f)
  BY <1>4, <1>5, <1>6, <1>7 DEF Running, Numbered
<1>9. \A i \in ListIndices : OdtsOf(f, i) = 0
  BY <1>4, <1>5, <1>6, <1>7 DEF OdtsOf
<1>10. IsDevice(e) /\ ~Running(e) /\ Numbered(e) /\ \A i \in ListIndices : OdtsOf(e, i) = 0
  BY <1>3, <1>6, <1>8, <1>9
<1> QED BY <1>10 DEF e, c

(* Sequences of pairwise the same length make sequences of the same.       *)
LEMMA FlattenLengths ==
  ASSUME NEW f, NEW g, NEW n \in Nat, NEW X, NEW Y, \A i \in 1 .. n : f[i] \in Seq(X),
         \A i \in 1 .. n : g[i] \in Seq(Y), \A i \in 1 .. n : Len(f[i]) = Len(g[i])
  PROVE  Len(FlattenSeq(Pieces(f, n))) = Len(FlattenSeq(Pieces(g, n)))
<1> DEFINE F(m) == Len(FlattenSeq(Pieces(f, m)))
           G(m) == Len(FlattenSeq(Pieces(g, m)))
           T == {m \in Nat : m <= n => F(m) = G(m)}
<1>1. 0 \in T
  BY FlattenNone
<1>2. ASSUME NEW m \in 0 .. n - 1, m \in T PROVE m + 1 \in T
  <2>1. m \in 0 .. n - 1 /\ F(m) = G(m) /\ m + 1 \in 1 .. n /\ m + 1 \in Nat
    BY <1>2
  <2>2. F(m + 1) = F(m) + Len(f[m + 1])
    BY FlattenNext
  <2>3. G(m + 1) = G(m) + Len(g[m + 1])
    BY FlattenNext
  <2>4. Len(f[m + 1]) = Len(g[m + 1])
    BY <2>1
  <2>5. F(m + 1) = G(m + 1)
    BY <2>1, <2>2, <2>3, <2>4
  <2> HIDE DEF F, G
  <2> QED BY <2>1, <2>5
<1>3. n \in T
  <2> HIDE DEF T
  <2> QED BY <1>1, <1>2, SetInduction
<1> QED BY <1>3

(* The PIDs of a list are behind those of every list before it.            *)
LEMMA PidsApart ==
  ASSUME config \in Configurations, Props.idSize = 1, NEW i \in ListIndices,
         NEW k \in ListIndices
  PROVE  /\ PidOf(i) \in Nat
         /\ i < k => PidOf(i) + Len(NewPlan[i]) <= PidOf(k)
<1>1. i \in Nat /\ i >= 1 /\ k \in Nat /\ k <= Len(config.lists) /\ Len(config.lists) \in Nat
      /\ ListIndices = 1 .. Len(config.lists) /\ i <= Len(config.lists)
  BY ConfigTyped
<1> DEFINE f == NewPlan
           N == Len(config.lists)
           X == Bins
<1>2. \A m \in 1 .. N : f[m] \in Seq(X)
  BY <1>1, PlanList
<1>3. ~(Props.idSize > 1)
  OBVIOUS
<1>4. /\ PidOf(i) = Len(FlattenSeq(Pieces(f, i - 1)))
      /\ PidOf(k) = Len(FlattenSeq(Pieces(f, k - 1)))
  BY <1>3 DEF PidOf
<1> HIDE DEF f, N, X
<1>5. i - 1 \in 0 .. N /\ i - 1 \in 0 .. N - 1 /\ (i - 1) + 1 = i /\ N \in Nat
  BY <1>1 DEF N
<1>6. Len(FlattenSeq(Pieces(f, i - 1))) \in Nat
  BY <1>2, <1>5, FlattenGrows
<1>7. ASSUME i < k PROVE Len(FlattenSeq(Pieces(f, i - 1))) + Len(f[i])
                           <= Len(FlattenSeq(Pieces(f, k - 1)))
  <2> DEFINE m == i - 1
             n == k - 1
  <2>1. m \in 0 .. N - 1 /\ m + 1 = i /\ n \in Nat /\ i \in 0 .. n
        /\ \A x \in 1 .. n : f[x] \in Seq(X)
    BY <1>1, <1>2, <1>5, <1>7 DEF N
  <2> HIDE DEF m, n
  <2>2. Len(FlattenSeq(Pieces(f, m + 1))) = Len(FlattenSeq(Pieces(f, m))) + Len(f[m + 1])
    BY <1>2, <1>5, <2>1, FlattenNext
  <2>3. Len(FlattenSeq(Pieces(f, i))) <= Len(FlattenSeq(Pieces(f, n)))
    BY <2>1, FlattenGrows
  <2>4. Len(FlattenSeq(Pieces(f, m))) + Len(f[i]) <= Len(FlattenSeq(Pieces(f, n)))
    BY <2>1, <2>2, <2>3
  <2> QED BY <2>4 DEF m, n
<1> QED BY <1>4, <1>6, <1>7 DEF f

(* The PID a device answers with.                                          *)
LEMMA FirstPidIs ==
  ASSUME config \in Configurations, NEW d, IsDevice(d), Numbered(d), NEW i \in ListIndices,
         \A k \in ListIndices : k < i => OdtsOf(d, k) = Len(NewPlan[k])
  PROVE  FirstPid(d, Number(i)) = PidOf(i)
<1>1. /\ i \in Nat /\ i >= 1 /\ i <= Len(config.lists) /\ Len(config.lists) \in Nat
      /\ ListIndices = 1 .. Len(config.lists)
  BY ConfigTyped
<1>2. Index(Number(i)) = i
  BY Numbers DEF Index
<1>3. CASE Props.idSize > 1
  BY <1>3 DEF FirstPid, PidOf
<1>4. CASE ~(Props.idSize > 1)
  <2> DEFINE m == i - 1
             g == [k \in 1 .. m |-> d.lists[Number(k)].odts]
             f == NewPlan
             X == Seq(Ext)
             Y == Bins
  <2>1. m \in Nat /\ \A k \in 1 .. m : k \in ListIndices /\ k < i
    BY <1>1
  <2>2. FirstPid(d, Number(i)) = Len(FlattenSeq(g))
    BY <1>2, <1>4 DEF FirstPid
  <2>3. PidOf(i) = Len(FlattenSeq(Pieces(f, m)))
    BY <1>4 DEF PidOf
  <2>4. \A k \in 1 .. m : g[k] \in Seq(X)
    <3>1. ASSUME NEW k \in 1 .. m PROVE g[k] \in Seq(X)
      <4>1. Number(k) \in DOMAIN d.lists
        BY <2>1 DEF Numbered
      <4>2. d.lists[Number(k)] \in DeviceLists
        BY <4>1 DEF IsDevice
      <4>3. d.lists[Number(k)].odts \in Seq(Seq(Ext))
        BY <4>2, ListUpdated
      <4>4. g[k] = d.lists[Number(k)].odts
        OBVIOUS
      <4> QED BY <4>3, <4>4
    <3> QED BY <3>1
  <2>5. \A k \in 1 .. m : f[k] \in Seq(Y)
    BY <2>1, PlanList
  <2>6. \A k \in 1 .. m : Len(g[k]) = Len(f[k])
    BY <2>1 DEF OdtsOf
  <2>7. g = Pieces(g, m)
    BY DEF Pieces
  <2> HIDE DEF m, g, f, X, Y
  <2>8. Len(FlattenSeq(Pieces(g, m))) = Len(FlattenSeq(Pieces(f, m)))
    BY <2>1, <2>4, <2>5, <2>6, FlattenLengths
  <2> QED BY <2>2, <2>3, <2>7, <2>8
<1> QED BY <1>3, <1>4

(* Getter::get_id finds the list and the ODT a DTO is of.                  *)
Known ==
  /\ config \in Configurations /\ plan = NewPlan
  /\ \A i \in ListIndices : firstPids[i] = PidOf(i)

LEMMA OdtToDaqIs ==
  ASSUME Known, Props.idSize = 1, NEW i \in ListIndices, NEW j \in 1 .. Len(NewPlan[i])
  PROVE  OdtToDaq(PidOf(i) + j - 1) = <<i - 1, j - 1>>
<1> DEFINE pid == PidOf(i) + j - 1
           owners == {k \in ListIndices : pid \in firstPids[k] .. firstPids[k] + Len(plan[k]) - 1}
<1>1. config \in Configurations /\ plan = NewPlan
      /\ \A k \in ListIndices : firstPids[k] = PidOf(k)
  BY DEF Known
<1>2. \A k \in ListIndices : PidOf(k) \in Nat /\ Len(NewPlan[k]) \in Nat
  BY <1>1, PidsApart, PlanList
<1>3. i \in owners
  BY <1>1, <1>2
<1>4. ASSUME NEW k \in owners PROVE k = i
  <2>1. k \in ListIndices /\ pid >= PidOf(k) /\ pid <= PidOf(k) + Len(NewPlan[k]) - 1
    BY <1>1, <1>2
  <2>2. i \in Nat /\ k \in Nat
    BY <1>1, <2>1, ConfigTyped
  <2>3. i < k => PidOf(i) + Len(NewPlan[i]) <= PidOf(k)
    BY <1>1, <2>1, PidsApart
  <2>4. k < i => PidOf(k) + Len(NewPlan[k]) <= PidOf(i)
    BY <1>1, <2>1, PidsApart
  <2>5. pid >= PidOf(i) /\ pid < PidOf(i) + Len(NewPlan[i]) /\ pid \in Nat
    BY <1>2
  <2> HIDE DEF pid
  <2>6. ~(i < k) /\ ~(k < i)
    BY <1>2, <2>1, <2>3, <2>4, <2>5
  <2> QED BY <2>2, <2>6
<1>5. owners = {i}
  <2> HIDE DEF owners
  <2> QED BY <1>3, <1>4
<1>6. (CHOOSE k \in owners : \A o \in owners : o <= k) = i
  <2>1. i <= i
    BY <1>1, ConfigTyped
  <2> HIDE DEF owners
  <2> QED BY <1>5, <2>1
<1>7. OdtToDaq(pid) = <<i - 1, pid - firstPids[i]>>
  <2>1. OdtToDaq(pid) = LET k == CHOOSE x \in owners : \A o \in owners : o <= x
                        IN IF owners = {} THEN <<0, 0>> ELSE <<k - 1, pid - firstPids[k]>>
    BY DEF OdtToDaq
  <2> HIDE DEF owners, pid
  <2> QED BY <1>3, <1>6, <2>1
<1>8. pid - firstPids[i] = j - 1
  BY <1>1, <1>2
<1> QED BY <1>7, <1>8

LEMMA GetIdIs ==
  ASSUME Known, ~Misread, NEW i \in ListIndices, NEW j \in 1 .. Len(NewPlan[i]),
         NEW dto, IsDto(dto, i, j)
  PROVE  GetId(dto.id) = <<i - 1, j - 1>>
<1>1. CASE Props.idSize = 1
  <2>1. dto.id[1] = PidOf(i) + j - 1
    BY <1>1 DEF IsDto
  <2> QED BY <1>1, <2>1, OdtToDaqIs DEF GetId
<1>2. CASE Props.idSize # 1
  <2>2. Props.idSize > 1 /\ Props.minDaq \in Nat
    BY <1>2, PropsTyped DEF Known
  <2>1. dto.id[1] = j - 1 /\ dto.id[2] = Number(i)
    BY <1>2, <2>2 DEF IsDto, Misread
  <2>3. Props.static \/ Props.minDaq = 0
    BY <2>2 DEF Misread, Misnumbered
  <2>4. Number(i) = i - 1
    <3>1. i \in Nat
      BY ConfigTyped DEF Known
    <3> QED BY <2>3, <3>1 DEF Number
  <2> QED BY <1>2, <2>1, <2>4 DEF GetId
<1> QED BY <1>1, <1>2

(* What depends on the configuration only, never changes.                  *)
LEMMA Unchanging ==
  ASSUME config' = config
  PROVE  /\ Dynamic' = Dynamic
         /\ \A i : Number(i)' = Number(i)
         /\ \A i : /\ AllocOdt(NewPlan, i)' = AllocOdt(NewPlan, i)
                   /\ SetDaqListMode(i)' = SetDaqListMode(i)
                   /\ StartStopDaqList(i)' = StartStopDaqList(i)
                   /\ PidOf(i)' = PidOf(i)
                   /\ ListMode(config.lists[i])' = ListMode(config.lists[i])
<1>1. ListIndices' = ListIndices /\ Props' = Props /\ NewPlan' = NewPlan
  BY Constancy
<1>2. Dynamic' = Dynamic
  BY <1>1 DEF Dynamic
<1>3. \A i : Number(i)' = Number(i)
  BY <1>1 DEF Number
<1>4. \A i : AllocOdt(NewPlan, i)' = AllocOdt(NewPlan, i)
  BY <1>1, <1>3 DEF AllocOdt
<1>5. \A i : ListMode(config.lists[i])' = ListMode(config.lists[i])
  BY <1>1 DEF ListMode, Timestamped, SwitchPidOff
<1>6. \A i : SetDaqListMode(i)' = SetDaqListMode(i)
  BY <1>1, <1>3, <1>5 DEF SetDaqListMode
<1>7. \A i : StartStopDaqList(i)' = StartStopDaqList(i)
  BY <1>3 DEF StartStopDaqList
<1>8. \A i : PidOf(i)' = PidOf(i)
  BY <1>1 DEF PidOf
<1> QED BY <1>2, <1>3, <1>4, <1>5, <1>6, <1>7, <1>8

LEMMA DevicePrimed ==
  ASSUME config' = config
  PROVE  /\ IsDevice(device') => IsDevice(device)'
         /\ FactoryShape(device') => FactoryShape(device)'
         /\ Shaped(device') => Shaped(device)'
         /\ ~Running(device') => ~Running(device)'
         /\ \A k : Done' = k /\ SetUp(device', k, firstPids') => SetUp(device, Done, firstPids)'
<1>1. /\ ListIndices' = ListIndices /\ Props' = Props /\ NewPlan' = NewPlan /\ Cmds' = Cmds
      /\ Dynamic' = Dynamic
  BY Constancy, Unchanging
<1>2. IsDevice(device') => IsDevice(device)'
  BY DEF IsDevice
<1>3. Numbered(device)' <=> Numbered(device')
  BY <1>1, Unchanging DEF Numbered
<1>4. \A i : OdtsOf(device, i)' = OdtsOf(device', i) /\ ModeOf(device, i)' = ModeOf(device', i)
  BY Unchanging DEF OdtsOf, ModeOf
<1>5. FactoryShape(device') => FactoryShape(device)'
  BY <1>1, <1>3, <1>4 DEF FactoryShape
<1>6. Shaped(device') => Shaped(device)'
  BY <1>1, <1>3, <1>4, Unchanging DEF Shaped
<1>7. ~Running(device') => ~Running(device)'
  BY DEF Running
<1>8. \A c : Effected(device', c) => Effected(device, c)'
  BY <1>1, <1>4, Unchanging DEF Effected
<1>9. ASSUME NEW k, Done' = k, SetUp(device', k, firstPids')
      PROVE  SetUp(device, Done, firstPids)'
  <2>1. (Props.static => Dynamic = {})'
    BY <1>1, <1>9 DEF SetUp
  <2>2. (Done >= 2 /\ ~Props.static =>
           Numbered(device) /\ \A i \in ListIndices : i \notin Dynamic => OdtsOf(device, i) = 0)'
    BY <1>1, <1>3, <1>4, <1>9 DEF SetUp
  <2>3. (\A m \in 1 .. Done : Effected(device, Cmds[m]))'
    BY <1>1, <1>8, <1>9 DEF SetUp
  <2>4. (\A i \in 1 .. Len(firstPids) : firstPids[i] = PidOf(i))'
    BY <1>9, Unchanging DEF SetUp
  <2> QED BY <2>1, <2>2, <2>3, <2>4 DEF SetUp
<1> QED BY <1>2, <1>5, <1>6, <1>7, <1>9

LEMMA CommandParts ==
  /\ FreeDaq.cmd = "FREE_DAQ" /\ \A n : AllocDaq(n).cmd = "ALLOC_DAQ"
  /\ \A i : /\ AllocOdt(NewPlan, i).cmd = "ALLOC_ODT" /\ AllocOdt(NewPlan, i).list = Number(i)
            /\ AllocOdt(NewPlan, i).count = Len(NewPlan[i])
            /\ SetDaqListMode(i).cmd = "SET_DAQ_LIST_MODE" /\ SetDaqListMode(i).list = Number(i)
            /\ SetDaqListMode(i).mode = ListMode(config.lists[i])
            /\ StartStopDaqList(i).cmd = "START_STOP_DAQ_LIST"
            /\ StartStopDaqList(i).list = Number(i)
  BY DEF FreeDaq, AllocDaq, AllocOdt, SetDaqListMode, StartStopDaqList

(* An executed command has its effect, and leaves those of the others.     *)
Ordinary(c) ==
  \/ c \in AllocEntries \cup SetPtrs \cup Writes
  \/ \E i \in ListIndices : c \in {AllocOdt(NewPlan, i), SetDaqListMode(i), StartStopDaqList(i)}

LEMMA OrdinaryCommand ==
  ASSUME NEW c, Ordinary(c)
  PROVE  /\ c.cmd \notin {"FREE_DAQ", "ALLOC_DAQ"}
         /\ c.cmd = "ALLOC_ODT" => \E i \in ListIndices : c = AllocOdt(NewPlan, i)
         /\ c.cmd = "SET_DAQ_LIST_MODE" => \E i \in ListIndices : c = SetDaqListMode(i)
         /\ c.cmd = "START_STOP_DAQ_LIST" => \E i \in ListIndices : c = StartStopDaqList(i)
<1>1. CASE c \in AllocEntries \cup SetPtrs \cup Writes
  <2>1. c.cmd \in {"ALLOC_ODT_ENTRY", "SET_DAQ_PTR", "WRITE_DAQ"}
    BY <1>1 DEF AllocEntries, SetPtrs, Writes
  <2> QED BY <2>1
<1>2. CASE \E i \in ListIndices :
             c \in {AllocOdt(NewPlan, i), SetDaqListMode(i), StartStopDaqList(i)}
  <2>1. PICK i \in ListIndices :
             c \in {AllocOdt(NewPlan, i), SetDaqListMode(i), StartStopDaqList(i)}
    BY <1>2
  <2>2. CASE c = AllocOdt(NewPlan, i)
    BY <2>2, CommandParts
  <2>3. CASE c = SetDaqListMode(i)
    BY <2>3, CommandParts
  <2>4. CASE c = StartStopDaqList(i)
    BY <2>4, CommandParts
  <2> QED BY <2>1, <2>2, <2>3, <2>4
<1> QED BY <1>1, <1>2 DEF Ordinary

LEMMA EffectsStay ==
  ASSUME config \in Configurations, NEW d, Numbered(d), NEW e, NEW c, Ordinary(c),
         Touched(d, e, c)
  PROVE  /\ Numbered(e)
         /\ \A i \in ListIndices :
              /\ OdtsOf(e, i) = IF c = AllocOdt(NewPlan, i) THEN Len(NewPlan[i]) ELSE OdtsOf(d, i)
              /\ ModeOf(e, i) = IF c = SetDaqListMode(i) THEN ListMode(config.lists[i])
                                ELSE ModeOf(d, i)
         /\ \A k : Effected(d, k) => Effected(e, k)
<1>1. Numbered(e)
  BY DEF Numbered, Touched
<1>2. ASSUME NEW i \in ListIndices
      PROVE  /\ OdtsOf(e, i) = IF c = AllocOdt(NewPlan, i) THEN Len(NewPlan[i]) ELSE OdtsOf(d, i)
             /\ ModeOf(e, i) = IF c = SetDaqListMode(i) THEN ListMode(config.lists[i])
                               ELSE ModeOf(d, i)
  <2> DEFINE n == Number(i)
  <2>1. n \in DOMAIN d.lists
    BY DEF Numbered
  <2>2. OdtsOf(e, i) = IF c.cmd = "ALLOC_ODT" /\ n = c.list THEN c.count ELSE OdtsOf(d, i)
    BY <2>1 DEF Touched, OdtsOf
  <2>3. ModeOf(e, i) = IF c.cmd = "SET_DAQ_LIST_MODE" /\ n = c.list THEN c.mode ELSE ModeOf(d, i)
    BY <2>1 DEF Touched, ModeOf
  <2>4. c.cmd = "ALLOC_ODT" /\ n = c.list <=> c = AllocOdt(NewPlan, i)
    <3>1. ASSUME c.cmd = "ALLOC_ODT", n = c.list PROVE c = AllocOdt(NewPlan, i)
      <4>1. PICK k \in ListIndices : c = AllocOdt(NewPlan, k)
        BY <3>1, OrdinaryCommand
      <4>2. Number(k) = Number(i)
        BY <3>1, <4>1, CommandParts
      <4> QED BY <4>1, <4>2, Numbers
    <3> QED BY <3>1, CommandParts
  <2>5. c.cmd = "SET_DAQ_LIST_MODE" /\ n = c.list <=> c = SetDaqListMode(i)
    <3>1. ASSUME c.cmd = "SET_DAQ_LIST_MODE", n = c.list PROVE c = SetDaqListMode(i)
      <4>1. PICK k \in ListIndices : c = SetDaqListMode(k)
        BY <3>1, OrdinaryCommand
      <4>2. Number(k) = Number(i)
        BY <3>1, <4>1, CommandParts
      <4> QED BY <4>1, <4>2, Numbers
    <3> QED BY <3>1, CommandParts
  <2>6. OdtsOf(e, i) = IF c = AllocOdt(NewPlan, i) THEN Len(NewPlan[i]) ELSE OdtsOf(d, i)
    <3>1. CASE c = AllocOdt(NewPlan, i)
      BY <2>2, <2>4, <3>1, CommandParts
    <3>2. CASE c # AllocOdt(NewPlan, i)
      BY <2>2, <2>4, <3>2
    <3> QED BY <3>1, <3>2
  <2>7. ModeOf(e, i) = IF c = SetDaqListMode(i) THEN ListMode(config.lists[i]) ELSE ModeOf(d, i)
    <3>1. CASE c = SetDaqListMode(i)
      BY <2>3, <2>5, <3>1, CommandParts
    <3>2. CASE c # SetDaqListMode(i)
      BY <2>3, <2>5, <3>2
    <3> QED BY <3>1, <3>2
  <2> QED BY <2>6, <2>7
<1>3. ASSUME NEW k, Effected(d, k) PROVE Effected(e, k)
  BY <1>2, <1>3 DEF Effected
<1> QED BY <1>1, <1>2, <1>3

(* The PIDs that were asked for: one for every list that was started.      *)
Counted(k, pids) ==
  /\ IsSequence(pids)
  /\ k <= FirstOf(5) => Len(pids) = 0
  /\ k > FirstOf(5) => 2 * Len(pids) <= k - FirstOf(5) /\ k - FirstOf(5) <= 2 * Len(pids) + 1
PidsAfter(d, c, pids) ==
  IF c.cmd # "START_STOP_DAQ_LIST" THEN pids ELSE Append(pids, FirstPid(d, c.list))

(* START_STOP_DAQ_LIST is accepted when the ODTs of the list are there.    *)
LEMMA StartedList ==
  ASSUME config \in Configurations, NEW d, IsDevice(d), Numbered(d), FactoryShape(d),
         NEW k \in 0 .. Len(Cmds) - 1, NEW pids, SetUp(d, k, pids), Props.static \/ k >= 2,
         NEW i \in ListIndices, k + 1 = FirstOf(5) + 2 * i,
         Accepts(d, StartStopDaqList(i))
  PROVE  /\ OdtsOf(d, i) = Len(NewPlan[i])
         /\ \A m \in ListIndices : m < i => OdtsOf(d, m) = Len(NewPlan[m])
<1> DEFINE F == FirstOf(5)
<1>0. /\ F \in Nat /\ Len(Cmds) \in Nat /\ i \in Nat /\ i >= 1 /\ k \in Nat
      /\ k + 1 = F + 2 * i /\ ListIndices \subseteq Nat \ {0}
  <2>1. F \in Nat /\ Len(Cmds) \in Nat
    BY Places, CmdsTyped
  <2>2. ListIndices \subseteq Nat \ {0}
    BY ConfigTyped
  <2> HIDE DEF F
  <2>3. i \in Nat /\ i >= 1 /\ k \in Nat
    BY <2>1, <2>2
  <2> QED BY <2>1, <2>2, <2>3 DEF F
<1>1. \A m \in 1 .. k : Effected(d, Cmds[m])
  BY DEF SetUp
<1>2. OdtsOf(d, i) = Len(NewPlan[i])
  <2>1. CASE Props.static
    <3>1. Dynamic = {}
      BY <2>1 DEF SetUp
    <3> QED BY <2>1, <3>1 DEF FactoryShape
  <2>2. CASE ~Props.static /\ i \in Dynamic
    <3>1. PICK x \in 1 .. FirstOf(5) : Cmds[x] = AllocOdt(NewPlan, i)
      BY <2>2, Places
    <3>2. x \in 1 .. k
      <4> HIDE DEF F
      <4>1. x \in 1 .. F
        BY DEF F
      <4> QED BY <1>0, <4>1
    <3>3. Effected(d, AllocOdt(NewPlan, i))
      BY <1>1, <3>1, <3>2
    <3> QED BY <3>3 DEF Effected
  <2>3. CASE ~Props.static /\ i \notin Dynamic
    <3>1. OdtsOf(d, i) = 0
      BY <2>3 DEF SetUp
    <3> DEFINE l == d.lists[Number(i)]
    <3>2. Sendable(l)
      BY CommandParts DEF Accepts
    <3>3. l \in DeviceLists
      BY DEF IsDevice, Numbered
    <3> HIDE DEF l
    <3>4. l.odts # <<>> /\ l.odts \in Seq(Seq(Ext))
      BY <3>2, <3>3, ListUpdated DEF Sendable
    <3>5. Len(l.odts) # 0
      <4> DEFINE o == l.odts
                 X == Seq(Ext)
      <4>1. o # <<>> /\ o \in Seq(X)
        BY <3>4
      <4> HIDE DEF o, X
      <4>2. Len(o) # 0
        BY <4>1, EmptySeq
      <4> QED BY <4>2 DEF o
    <3> QED BY <3>1, <3>5 DEF l, OdtsOf
  <2> QED BY <2>1, <2>2, <2>3
<1>3. ASSUME NEW m \in ListIndices, m < i PROVE OdtsOf(d, m) = Len(NewPlan[m])
  <2>1. Cmds[F + 2 * m] = StartStopDaqList(m)
    BY Places
  <2>2. F + 2 * m \in 1 .. k
    <3>1. m \in Nat /\ m >= 1
      BY <1>0
    <3> HIDE DEF F
    <3> QED BY <1>0, <1>3, <3>1
  <2>3. Effected(d, StartStopDaqList(m))
    BY <1>1, <2>1, <2>2
  <2> QED BY <2>3 DEF Effected
<1> QED BY <1>2, <1>3

Suited(d, k, pids) == IsDevice(d) /\ ~Running(d) /\ FactoryShape(d) /\ SetUp(d, k, pids)

LEMMA OrdinaryHolds ==
  ASSUME config \in Configurations, NEW d, NEW k \in 0 .. Len(Cmds) - 1, NEW pids,
         Suited(d, k, pids), Counted(k, pids), Props.static \/ k >= 2,
         NEW c, c = Cmds[k + 1], Ordinary(c), Accepts(d, c),
         c.cmd = "START_STOP_DAQ_LIST" =>
           \E i \in ListIndices : k + 1 = FirstOf(5) + 2 * i /\ c = StartStopDaqList(i)
  PROVE  Suited(Executed(d, c), k + 1, PidsAfter(d, c, pids))
<1> DEFINE e == Executed(d, c)
<1>0. /\ IsDevice(d) /\ ~Running(d) /\ FactoryShape(d) /\ SetUp(d, k, pids)
      /\ k \in Nat /\ k + 1 \in 1 .. Len(Cmds) /\ Len(Cmds) \in Nat
  <2> DEFINE L == Len(Cmds)
  <2>1. L \in Nat /\ k \in 0 .. L - 1
    BY CmdsTyped
  <2> HIDE DEF L
  <2>2. k \in Nat /\ k + 1 \in 1 .. L
    BY <2>1
  <2> QED BY <2>1, <2>2 DEF Suited, L
<1>1. c \in Commands /\ c.cmd \notin {"FREE_DAQ", "ALLOC_DAQ"}
  <2>1. Cmds \in Seq(Commands)
    BY CmdsTyped
  <2>2. Cmds[k + 1] \in Commands
    BY <1>0, <2>1, ElementOfSeq
  <2> QED BY <2>2, OrdinaryCommand
<1>2. Touched(d, e, c)
  BY <1>0, <1>1, ExecutedIs
<1>3. Numbered(d)
  <2>1. CASE Props.static
    BY <1>0, <2>1 DEF SetUp, FactoryShape
  <2>2. CASE ~Props.static
    BY <1>0, <2>2 DEF SetUp
  <2> QED BY <2>1, <2>2
<1> HIDE DEF e
<1>4. /\ Numbered(e)
      /\ \A i \in ListIndices :
           /\ OdtsOf(e, i) = IF c = AllocOdt(NewPlan, i) THEN Len(NewPlan[i]) ELSE OdtsOf(d, i)
           /\ ModeOf(e, i) = IF c = SetDaqListMode(i) THEN ListMode(config.lists[i])
                             ELSE ModeOf(d, i)
      /\ \A x : Effected(d, x) => Effected(e, x)
  BY <1>2, <1>3, EffectsStay
<1>5. IsDevice(e) /\ ~Running(e)
  BY <1>0, <1>2 DEF Touched, Running
<1>6. FactoryShape(e)
  BY <1>0, <1>4 DEF FactoryShape
<1>7. \A i \in ListIndices : c = StartStopDaqList(i) =>
        /\ k + 1 = FirstOf(5) + 2 * i /\ OdtsOf(d, i) = Len(NewPlan[i])
        /\ \A m \in ListIndices : m < i => OdtsOf(d, m) = Len(NewPlan[m])
  <2>1. SUFFICES ASSUME NEW i \in ListIndices, c = StartStopDaqList(i)
                 PROVE  /\ k + 1 = FirstOf(5) + 2 * i /\ OdtsOf(d, i) = Len(NewPlan[i])
                        /\ \A m \in ListIndices : m < i => OdtsOf(d, m) = Len(NewPlan[m])
    OBVIOUS
  <2>2. PICK j \in ListIndices : k + 1 = FirstOf(5) + 2 * j /\ c = StartStopDaqList(j)
    BY <2>1, CommandParts
  <2>3. Number(i) = Number(j)
    BY <2>1, <2>2, CommandParts
  <2>4. i = j
    BY <2>3, Numbers
  <2>5. k + 1 = FirstOf(5) + 2 * i /\ Accepts(d, StartStopDaqList(i))
    BY <2>2, <2>4
  <2> QED BY <1>0, <1>3, <2>5, StartedList
<1>8. Effected(e, c)
  <2>1. ASSUME NEW i \in ListIndices
        PROVE  /\ c = AllocOdt(NewPlan, i) => OdtsOf(e, i) = Len(NewPlan[i])
               /\ c = SetDaqListMode(i) => ModeOf(e, i) = ListMode(config.lists[i])
               /\ c = StartStopDaqList(i) => OdtsOf(e, i) = Len(NewPlan[i])
    BY <1>4, <1>7
  <2> QED BY <2>1 DEF Effected
<1>9. \A x \in 1 .. k + 1 : Effected(e, Cmds[x])
  <2>1. ASSUME NEW x \in 1 .. k + 1 PROVE Effected(e, Cmds[x])
    <3>1. CASE x = k + 1
      BY <1>8, <3>1
    <3>2. CASE x # k + 1
      <4>1. x \in 1 .. k
        BY <1>0, <3>2
      <4>2. Effected(d, Cmds[x])
        BY <1>0, <4>1 DEF SetUp
      <4> QED BY <1>4, <4>2
    <3> QED BY <3>1, <3>2
  <2> QED BY <2>1
<1>10. ~Props.static => \A i \in ListIndices : i \notin Dynamic => OdtsOf(e, i) = 0
  <2>1. SUFFICES ASSUME ~Props.static, NEW i \in ListIndices, i \notin Dynamic
                 PROVE  OdtsOf(e, i) = 0
    OBVIOUS
  <2>2. OdtsOf(d, i) = 0
    BY <1>0, <2>1 DEF SetUp
  <2>3. c # AllocOdt(NewPlan, i)
    <3>1. SUFFICES ASSUME c = AllocOdt(NewPlan, i) PROVE FALSE
      OBVIOUS
    <3>2. c.cmd = "ALLOC_ODT" /\ c.list = Number(i)
      BY <3>1, CommandParts
    <3>3. \E j \in Dynamic : c = AllocOdt(NewPlan, j)
      <4>1. \/ c = FreeDaq
            \/ c = AllocDaq(Len(config.lists))
            \/ \E j \in Dynamic : c = AllocOdt(NewPlan, j)
            \/ c \in AllocEntries \cup SetPtrs \cup Writes
            \/ \E j \in ListIndices : c = SetDaqListMode(j) \/ c = StartStopDaqList(j)
        BY <1>0, CommandIs
      <4>2. c \notin AllocEntries \cup SetPtrs \cup Writes
        BY <3>2 DEF AllocEntries, SetPtrs, Writes
      <4> QED BY <3>2, <4>1, <4>2, CommandParts
    <3>4. PICK j \in Dynamic : c = AllocOdt(NewPlan, j)
      BY <3>3
    <3>5. j \in ListIndices /\ Number(j) = Number(i)
      BY <3>2, <3>4, CommandParts DEF Dynamic
    <3>6. i = j
      BY <3>5, Numbers
    <3> QED BY <2>1, <3>4, <3>6
  <2> QED BY <1>4, <2>2, <2>3
<1>11. \A i \in 1 .. Len(PidsAfter(d, c, pids)) : PidsAfter(d, c, pids)[i] = PidOf(i)
  <2>1. \A i \in 1 .. Len(pids) : pids[i] = PidOf(i)
    BY <1>0 DEF SetUp
  <2>2. CASE c.cmd # "START_STOP_DAQ_LIST"
    BY <2>1, <2>2 DEF PidsAfter
  <2>3. CASE c.cmd = "START_STOP_DAQ_LIST"
    <3>1. PICK i \in ListIndices : c = StartStopDaqList(i)
      BY <2>3
    <3>2. /\ k + 1 = FirstOf(5) + 2 * i /\ OdtsOf(d, i) = Len(NewPlan[i])
          /\ \A m \in ListIndices : m < i => OdtsOf(d, m) = Len(NewPlan[m])
      BY <1>7, <3>1
    <3> DEFINE F == FirstOf(5)
               p == FirstPid(d, Number(i))
               L == Len(pids)
    <3>3. p = PidOf(i)
      BY <1>0, <1>3, <3>2, FirstPidIs
    <3>4. PidsAfter(d, c, pids) = Append(pids, p)
      BY <2>3, <3>1, CommandParts DEF PidsAfter
    <3>5. L = i - 1 /\ L \in Nat
      <4>1. /\ i \in Nat /\ i >= 1 /\ F \in Nat /\ L \in Nat /\ k + 1 = F + 2 * i
            /\ k > F => 2 * L <= k - F /\ k - F <= 2 * L + 1
        BY <3>2, ConfigTyped, Places DEF Counted, IsSequence
      <4> HIDE DEF F, L
      <4> QED BY <1>0, <4>1
    <3> HIDE DEF p
    <3>6. IsSequence(pids)
      BY DEF Counted
    <3>7. /\ Len(Append(pids, p)) = L + 1 /\ Append(pids, p)[L + 1] = p
          /\ \A m \in 1 .. L : Append(pids, p)[m] = pids[m]
      <4> DEFINE X == {pids[m] : m \in 1 .. L} \cup {p}
      <4>1. p \in X /\ \A m \in 1 .. L : pids[m] \in X
        OBVIOUS
      <4> HIDE DEF X
      <4>2. pids \in Seq(X)
        BY <3>6, <4>1, SequenceOf
      <4> QED BY <4>1, <4>2, AppendProperties
    <3>8. ASSUME NEW m \in 1 .. L + 1 PROVE Append(pids, p)[m] = PidOf(m)
      <4>1. CASE m = L + 1
        <5>1. L + 1 = i
          <6>1. i \in Nat
            BY ConfigTyped
          <6> QED BY <3>5, <6>1
        <5> QED BY <3>3, <3>7, <4>1, <5>1
      <4>2. CASE m # L + 1
        <5>1. m \in 1 .. L
          <6> HIDE DEF L
          <6> QED BY <3>5, <4>2
        <5> QED BY <2>1, <3>7, <5>1
      <4> QED BY <4>1, <4>2
    <3> QED BY <3>4, <3>7, <3>8
  <2> QED BY <2>2, <2>3
<1>12. SetUp(e, k + 1, PidsAfter(d, c, pids))
  BY <1>0, <1>4, <1>9, <1>10, <1>11 DEF SetUp
<1> QED BY <1>5, <1>6, <1>12 DEF Suited, e

(* The next command of setup(), if it is executed.                         *)
LEMMA NextExecuted ==
  ASSUME config \in Configurations, NEW d, NEW k \in 0 .. Len(Cmds) - 1, NEW pids,
         Suited(d, k, pids), Counted(k, pids), Accepts(d, Cmds[k + 1])
  PROVE  Suited(Executed(d, Cmds[k + 1]), k + 1, PidsAfter(d, Cmds[k + 1], pids))
<1> DEFINE c == Cmds[k + 1]
           e == Executed(d, c)
           F == FirstOf(5)
<1>0. /\ IsDevice(d) /\ FactoryShape(d) /\ SetUp(d, k, pids)
      /\ k \in Nat /\ k + 1 \in 1 .. Len(Cmds) /\ F \in Nat /\ Len(Cmds) \in Nat
      /\ Props.static => F = 0
      /\ ~Props.static => F >= 2
  <2> DEFINE L == Len(Cmds)
  <2>1. L \in Nat /\ k \in 0 .. L - 1 /\ F \in Nat
    BY CmdsTyped, Places
  <2>2. (Props.static => F = 0) /\ (~Props.static => F >= 2)
    BY Places
  <2> HIDE DEF L
  <2>3. k \in Nat /\ k + 1 \in 1 .. L
    BY <2>1
  <2> QED BY <2>1, <2>2, <2>3 DEF Suited, L
<1>1. \/ ~Props.static /\ k + 1 = 1 /\ c = FreeDaq
      \/ ~Props.static /\ k + 1 = 2 /\ c = AllocDaq(Len(config.lists))
      \/ /\ Props.static \/ k + 1 > 2
         /\ \/ \E i \in ListIndices : c = AllocOdt(NewPlan, i)
            \/ c \in AllocEntries \cup SetPtrs \cup Writes
            \/ \E i \in ListIndices : c = SetDaqListMode(i)
            \/ \E i \in ListIndices : k + 1 = FirstOf(5) + 2 * i /\ c = StartStopDaqList(i)
  <2> DEFINE x == k + 1
  <2>1. \/ ~Props.static /\ x = 1 /\ c = FreeDaq
        \/ ~Props.static /\ x = 2 /\ c = AllocDaq(Len(config.lists))
        \/ /\ ~Props.static /\ x > 2 /\ x <= FirstOf(5)
           /\ \/ \E i \in Dynamic : c = AllocOdt(NewPlan, i)
              \/ c \in AllocEntries \cup SetPtrs \cup Writes
        \/ /\ x > FirstOf(5) /\ (Props.static \/ x > 2)
           /\ \E i \in ListIndices :
                \/ x = FirstOf(5) + (2 * i - 1) /\ c = SetDaqListMode(i)
                \/ x = FirstOf(5) + 2 * i /\ c = StartStopDaqList(i)
    BY <1>0, CommandIs
  <2> HIDE DEF x, c
  <2>2. Dynamic \subseteq ListIndices
    BY DEF Dynamic
  <2>3. \/ ~Props.static /\ x = 1 /\ c = FreeDaq
        \/ ~Props.static /\ x = 2 /\ c = AllocDaq(Len(config.lists))
        \/ /\ Props.static \/ x > 2
           /\ \/ \E i \in ListIndices : c = AllocOdt(NewPlan, i)
              \/ c \in AllocEntries \cup SetPtrs \cup Writes
              \/ \E i \in ListIndices : c = SetDaqListMode(i)
              \/ \E i \in ListIndices : x = FirstOf(5) + 2 * i /\ c = StartStopDaqList(i)
    BY <2>1, <2>2
  <2> QED BY <2>3 DEF x
<1>2. CASE ~Props.static /\ (k = 0 \/ k = 1)
  <2>1. \A x \in 1 .. k + 1 : Cmds[x].cmd \in {"FREE_DAQ", "ALLOC_DAQ"}
    <3>1. SUFFICES ASSUME NEW x \in 1 .. k + 1
                   PROVE  Cmds[x].cmd \in {"FREE_DAQ", "ALLOC_DAQ"}
      OBVIOUS
    <3>2. x \in 1 .. Len(Cmds) /\ ~(x > 2) /\ ~(x > F)
      BY <1>0, <1>2
    <3>3. Cmds[x] = FreeDaq \/ Cmds[x] = AllocDaq(Len(config.lists))
      BY <3>2, CommandIs
    <3> QED BY <3>3, CommandParts
  <2>2. \A x \in 1 .. k + 1 : Effected(e, Cmds[x])
    <3>1. SUFFICES ASSUME NEW x \in 1 .. k + 1 PROVE Effected(e, Cmds[x])
      OBVIOUS
    <3> DEFINE u == Cmds[x]
    <3>2. u.cmd \in {"FREE_DAQ", "ALLOC_DAQ"}
      BY <2>1
    <3> HIDE DEF u, e
    <3>3. \A i : u # AllocOdt(NewPlan, i) /\ u # SetDaqListMode(i) /\ u # StartStopDaqList(i)
      BY <3>2, CommandParts
    <3>4. Effected(e, u)
      BY <3>3 DEF Effected
    <3> QED BY <3>4 DEF u
  <2>3. PidsAfter(d, c, pids) = pids /\ \A i \in 1 .. Len(pids) : pids[i] = PidOf(i)
    <3>1. c.cmd # "START_STOP_DAQ_LIST"
      <4>1. k + 1 \in 1 .. k + 1
        BY <1>0
      <4> QED BY <2>1, <4>1
    <3> QED BY <1>0, <3>1 DEF PidsAfter, SetUp
  <2>4. CASE c = FreeDaq /\ k = 0
    <3> DEFINE a == "lists"
               n == [NewDevice(config) EXCEPT !.allocating = a]
    <3>1. e = n
      BY <2>4, CommandParts DEF Executed
    <3> HIDE DEF a
    <3>2. IsDevice(n) /\ ~Running(n) /\ FactoryShape(n)
      BY NewDeviceIs
    <3> HIDE DEF n, e
    <3>3. IsDevice(e) /\ ~Running(e) /\ FactoryShape(e)
      BY <3>1, <3>2
    <3>4. SetUp(e, k + 1, pids)
      <4>1. ~(k + 1 >= 2)
        BY <2>4
      <4> QED BY <1>2, <2>2, <2>3, <4>1 DEF SetUp
    <3>5. Suited(e, k + 1, PidsAfter(d, c, pids))
      BY <2>3, <3>3, <3>4 DEF Suited
    <3> QED BY <3>5 DEF e
  <2>5. CASE c = AllocDaq(Len(config.lists)) /\ k = 1
    <3>1. e = Executed(d, AllocDaq(Len(config.lists)))
      BY <2>5
    <3>2. IsDevice(e) /\ ~Running(e) /\ Numbered(e) /\ \A i \in ListIndices : OdtsOf(e, i) = 0
      <4> DEFINE g == Executed(d, AllocDaq(Len(config.lists)))
      <4>1. IsDevice(g) /\ ~Running(g) /\ Numbered(g) /\ \A i \in ListIndices : OdtsOf(g, i) = 0
        BY <1>0, <1>2, AllocatedIs
      <4> HIDE DEF g, e
      <4>2. e = g
        BY <3>1 DEF g
      <4> QED BY <4>1, <4>2
    <3> HIDE DEF e
    <3>3. FactoryShape(e)
      BY <1>2 DEF FactoryShape
    <3>4. SetUp(e, k + 1, pids)
      BY <1>2, <2>2, <2>3, <3>2 DEF SetUp
    <3>5. Suited(e, k + 1, PidsAfter(d, c, pids))
      BY <2>3, <3>2, <3>3, <3>4 DEF Suited
    <3> QED BY <3>5 DEF e
  <2>6. \/ k + 1 = 1 /\ c = FreeDaq
        \/ k + 1 = 2 /\ c = AllocDaq(Len(config.lists))
    <3> HIDE DEF c
    <3>1. ~(Props.static \/ k + 1 > 2)
      BY <1>2
    <3> QED BY <1>1, <3>1
  <2> QED BY <1>0, <2>4, <2>5, <2>6
<1>3. CASE Props.static \/ (k # 0 /\ k # 1)
  <2>1. Props.static \/ k >= 2
    BY <1>0, <1>3
  <2>2. /\ \/ \E i \in ListIndices : c = AllocOdt(NewPlan, i)
           \/ c \in AllocEntries \cup SetPtrs \cup Writes
           \/ \E i \in ListIndices : c = SetDaqListMode(i)
           \/ \E i \in ListIndices : k + 1 = FirstOf(5) + 2 * i /\ c = StartStopDaqList(i)
    <3> HIDE DEF c
    <3>1. ~(~Props.static /\ k + 1 = 1) /\ ~(~Props.static /\ k + 1 = 2)
      BY <1>0, <1>3
    <3> QED BY <1>1, <3>1
  <2> HIDE DEF c
  <2>3. Ordinary(c)
    BY <2>2 DEF Ordinary
  <2>4. c.cmd = "START_STOP_DAQ_LIST" =>
          \E i \in ListIndices : k + 1 = FirstOf(5) + 2 * i /\ c = StartStopDaqList(i)
    <3>1. \A i : AllocOdt(NewPlan, i).cmd # "START_STOP_DAQ_LIST"
                 /\ SetDaqListMode(i).cmd # "START_STOP_DAQ_LIST"
      BY CommandParts
    <3>2. c \in AllocEntries \cup SetPtrs \cup Writes => c.cmd # "START_STOP_DAQ_LIST"
      BY DEF AllocEntries, SetPtrs, Writes
    <3> QED BY <2>2, <3>1, <3>2
  <2>5. c = Cmds[k + 1] /\ Accepts(d, c)
    BY DEF c
  <2>6. Suited(Executed(d, c), k + 1, PidsAfter(d, c, pids))
    BY <2>1, <2>3, <2>4, <2>5, OrdinaryHolds
  <2> QED BY <2>6 DEF c
<1> QED BY <1>2, <1>3

(***************************************************************************)
(* Every step keeps what holds of the device                               *)
(***************************************************************************)
LEMMA Attempted ==
  ASSUME DaqInv, DeviceInv, phase = "commanding", todo # <<>>
  PROVE  /\ Done \in 0 .. Len(Cmds) - 1 /\ Head(todo) = Cmds[Done + 1]
         /\ Len(Cmds) - Len(Tail(todo)) = Done + 1
         /\ Suited(device, Done, firstPids)
         /\ Accepts(device, Head(todo)) =>
              Suited(Executed(device, Head(todo)), Done + 1,
                     PidsAfter(device, Head(todo), firstPids))
<1>1. config \in Configurations /\ Commanding /\ IsSequence(firstPids)
  BY DEF DaqInv
<1>2. /\ Done \in 0 .. Len(Cmds) - 1 /\ Head(todo) = Cmds[Done + 1]
      /\ Len(Cmds) - Len(Tail(todo)) = Done + 1
  BY <1>1, NextCommand
<1>3. Suited(device, Done, firstPids)
  BY DEF DeviceInv, Setting, Measuring, Suited
<1>4. Counted(Done, firstPids)
  BY <1>1 DEF Commanding, Counted
<1>5. ASSUME Accepts(device, Head(todo))
      PROVE  Suited(Executed(device, Head(todo)), Done + 1,
                    PidsAfter(device, Head(todo), firstPids))
  <2> DEFINE k == Done
             pids == firstPids
  <2>1. /\ k \in 0 .. Len(Cmds) - 1 /\ Head(todo) = Cmds[k + 1]
        /\ Suited(device, k, pids) /\ Counted(k, pids) /\ Accepts(device, Cmds[k + 1])
    BY <1>2, <1>3, <1>4, <1>5
  <2> HIDE DEF k, pids
  <2>2. Suited(Executed(device, Cmds[k + 1]), k + 1, PidsAfter(device, Cmds[k + 1], pids))
    BY <1>1, <2>1, NextExecuted
  <2> QED BY <2>1, <2>2 DEF k, pids
<1> QED BY <1>2, <1>3, <1>5

(* The processor is neither ready nor running, nor are there DTOs.         *)
LEMMA NotMeasuring ==
  ASSUME config' = config, phase' \notin {"ready", "running", "stopped"}, line' = <<>>,
         IsDevice(device'), FactoryShape(device'), ~Running(device'),
         phase' = "commanding" => \E k : Done' = k /\ SetUp(device', k, firstPids')
  PROVE  DeviceInv'
<1>1. IsDevice(device)' /\ FactoryShape(device)' /\ ~Running(device)'
  BY DevicePrimed
<1>2. Setting'
  BY DevicePrimed DEF Setting
<1>3. Measuring'
  BY <1>1 DEF Measuring
<1> QED BY <1>1, <1>2, <1>3 DEF DeviceInv

LEMMA CommandingKeepsDevice ==
  ASSUME DaqInv, DeviceInv, Command \/ Refused \/ Unanswered \/ MirrorFails
  PROVE  DeviceInv'
<1> DEFINE c == Head(todo)
           after == Executed(device, c)
<1>1. phase = "commanding" /\ todo # <<>> /\ config' = config /\ line' = line
  BY DEF Command, Refused, Unanswered, MirrorFails, Upcoming, outside
<1>2. line' = <<>>
  BY <1>1 DEF DeviceInv, Measuring
<1>3. /\ Len(Cmds) - Len(Tail(todo)) = Done + 1
      /\ Suited(device, Done, firstPids)
      /\ Accepts(device, c) => Suited(after, Done + 1, PidsAfter(device, c, firstPids))
  BY <1>1, Attempted
<1>4. Upcoming = {c}
  BY <1>1 DEF Upcoming
<1> HIDE DEF c, after
<1>5. CASE Command
  <2>1. /\ Accepts(device, c) /\ device' = after /\ phase' = "commanding" /\ todo' = Tail(todo)
        /\ firstPids' = PidsAfter(device, c, firstPids)
    BY <1>1, <1>4, <1>5 DEF Command, PidsAfter, after
  <2>2. Done' = Done + 1
    <3>1. Cmds' = Cmds
      BY <1>1, Constancy
    <3>2. Done' = Len(Cmds) - Len(Tail(todo))
      BY <2>1, <3>1 DEF Done
    <3> QED BY <1>3, <3>2
  <2>3. /\ IsDevice(device') /\ FactoryShape(device') /\ ~Running(device')
        /\ SetUp(device', Done + 1, firstPids')
    BY <1>3, <2>1 DEF Suited
  <2>4. \E k : Done' = k /\ SetUp(device', k, firstPids')
    BY <2>2, <2>3
  <2> QED BY <1>1, <1>2, <2>1, <2>3, <2>4, NotMeasuring
<1>6. CASE Refused \/ Unanswered \/ MirrorFails
  <2>1. /\ phase' \in {"raised", "ended"}
        /\ device' = device \/ (Accepts(device, c) /\ device' = after)
    BY <1>4, <1>6 DEF Refused, Unanswered, MirrorFails, Raise, after, outside
  <2>2. IsDevice(device') /\ FactoryShape(device') /\ ~Running(device')
    BY <1>3, <2>1 DEF Suited
  <2> QED BY <1>1, <1>2, <2>1, <2>2, NotMeasuring
<1> QED BY <1>5, <1>6

LEMMA SetupKeepsDevice ==
  ASSUME DaqInv, DeviceInv, Setup
  PROVE  DeviceInv'
<1>1. /\ phase \in {"idle", "raised", "stopped"} /\ line' = <<>> /\ config' = config
      /\ device' = device
      /\ \/ phase' = "raised"
         \/ /\ phase' = "commanding" /\ Obstacle = "none" /\ firstPids' = <<>>
            /\ todo' = Cmds
  BY DEF Setup, Raise, outside, Cmds
<1>2. IsDevice(device') /\ FactoryShape(device') /\ ~Running(device')
  BY <1>1 DEF DeviceInv, Measuring
<1>3. ASSUME phase' = "commanding" PROVE Done' = 0 /\ SetUp(device', 0, firstPids')
  <2>1. Obstacle = "none" /\ firstPids' = <<>> /\ todo' = Cmds
    BY <1>1, <1>3
  <2>2. Done' = 0
    <3>1. Cmds' = Cmds
      BY <1>1, Constancy
    <3>2. Len(Cmds) \in Nat
      BY CmdsTyped DEF DaqInv
    <3>3. Done' = Len(Cmds) - Len(Cmds)
      BY <2>1, <3>1 DEF Done
    <3> QED BY <3>2, <3>3
  <2>3. Props.static => Dynamic = {}
    BY <2>1 DEF Obstacle
  <2>4. ~(0 >= 2) /\ 1 .. 0 = {} /\ 1 .. Len(firstPids') = {}
    BY <2>1, EmptySequence
  <2> QED BY <2>2, <2>3, <2>4 DEF SetUp
<1> QED BY <1>1, <1>2, <1>3, NotMeasuring

(* When all commands are done, the lists of the device are set up.         *)
LEMMA AllDone ==
  ASSUME DaqInv, DeviceInv, phase = "commanding", todo = <<>>
  PROVE  Shaped(device) /\ Len(firstPids) = Len(config.lists)
<1> DEFINE k == Done
           L == Len(config.lists)
           F == FirstOf(5)
           m == Len(firstPids)
<1>1. config \in Configurations /\ Commanding
  BY DEF DaqInv
<1>2. k = Len(Cmds)
  <2>1. Len(todo) = 0 /\ Len(Cmds) \in Nat
    BY <1>1, CmdsTyped, EmptySequence
  <2> QED BY <2>1 DEF Done
<1>3. /\ F \in Nat /\ L \in Nat /\ m \in Nat /\ k = F + 2 * L
      /\ k <= F => m = 0
      /\ k > F => 2 * m <= k - F /\ k - F <= 2 * m + 1
  BY <1>1, <1>2, Places, ConfigTyped DEF Commanding, DaqInv, IsSequence
<1>4. SetUp(device, k, firstPids)
  BY DEF DeviceInv, Setting
<1>5. m = L
  <2> HIDE DEF k, L, F, m
  <2>1. CASE L = 0
    BY <1>3, <2>1
  <2>2. CASE L # 0
    BY <1>3, <2>2
  <2> QED BY <2>1, <2>2
<1>6. Numbered(device)
  <2>1. CASE Props.static
    BY <1>4, <2>1 DEF SetUp, DeviceInv, FactoryShape
  <2>2. CASE ~Props.static
    <3>1. k >= 2
      <4>1. F >= 2
        BY <1>1, <2>2, Places
      <4> HIDE DEF k, L, F, m
      <4> QED BY <1>3, <4>1
    <3> QED BY <1>4, <2>2, <3>1 DEF SetUp
  <2> QED BY <2>1, <2>2
<1>7. ASSUME NEW i \in ListIndices
      PROVE  OdtsOf(device, i) = Len(NewPlan[i]) /\ ModeOf(device, i) = ListMode(config.lists[i])
  <2>1. /\ F + (2 * i - 1) \in 1 .. Len(Cmds) /\ F + 2 * i \in 1 .. Len(Cmds)
        /\ Cmds[F + (2 * i - 1)] = SetDaqListMode(i) /\ Cmds[F + 2 * i] = StartStopDaqList(i)
    BY <1>1, Places
  <2>2. Effected(device, SetDaqListMode(i)) /\ Effected(device, StartStopDaqList(i))
    BY <1>2, <1>4, <2>1 DEF SetUp
  <2> QED BY <2>2 DEF Effected
<1> QED BY <1>5, <1>6, <1>7 DEF Shaped

LEMMA DeviceAtFirst ==
  ASSUME Init
  PROVE  DeviceInv
<1>1. /\ config \in Configurations /\ phase = "idle" /\ device = NewDevice(config) /\ line = <<>>
  BY DEF Init
<1> DEFINE a == "start"
           d == [NewDevice(config) EXCEPT !.allocating = a]
<1>2. d = NewDevice(config)
  BY DEF NewDevice
<1> HIDE DEF a
<1>3. IsDevice(d) /\ ~Running(d) /\ FactoryShape(d)
  BY <1>1, NewDeviceIs
<1> HIDE DEF d
<1>4. IsDevice(device) /\ ~Running(device) /\ FactoryShape(device)
  BY <1>1, <1>2, <1>3
<1>5. Setting
  BY <1>1 DEF Setting
<1>6. Measuring
  BY <1>1, <1>4 DEF Measuring
<1> QED BY <1>4, <1>5, <1>6 DEF DeviceInv

LEMMA SetParametersKeepsDevice ==
  ASSUME DaqInv, DeviceInv, SetParameters
  PROVE  DeviceInv'
<1> DEFINE n == Len(config.lists)
<1>1. /\ phase = "commanding" /\ todo = <<>> /\ phase' = "ready" /\ config' = config
      /\ plan' = plan /\ firstPids' = firstPids /\ device' = device /\ line' = line
      /\ decoders' = [i \in ListIndices |-> NewDecoder(plan[i])]
      /\ trackers' = trackers \o Copies(n, NewTracker)
  BY DEF SetParameters, outside
<1>2. config \in Configurations /\ plan = NewPlan /\ IsSequence(trackers)
  BY <1>1 DEF DaqInv, Commanding, Trackers
<1>3. Shaped(device) /\ Len(firstPids) = n
  BY <1>1, AllDone
<1>4. NewPlan' = NewPlan /\ ListIndices' = ListIndices
  BY <1>1, Constancy
<1>5. IsDevice(device) /\ FactoryShape(device) /\ ~Running(device) /\ line = <<>>
  BY <1>1 DEF DeviceInv, Measuring
<1>6. IsDevice(device)' /\ FactoryShape(device)' /\ ~Running(device)' /\ Shaped(device)'
  BY <1>1, <1>3, <1>5, DevicePrimed
<1>7. \A i \in ListIndices' : firstPids'[i] = PidOf(i)'
  <2>1. \A i \in 1 .. Len(firstPids) : firstPids[i] = PidOf(i)
    BY <1>1 DEF DeviceInv, Setting, SetUp
  <2>2. \A i \in ListIndices : firstPids[i] = PidOf(i)
    BY <1>2, <1>3, <2>1, ConfigTyped
  <2> QED BY <1>1, <1>4, <2>2, Unchanging
<1>8. Len(trackers') >= Len(config'.lists)
  <2> DEFINE x == NewTracker
             c == Copies(n, x)
  <2>1. n \in Nat
    BY <1>2, ConfigTyped
  <2>2. IsSequence(c) /\ Len(c) = n
    <3> HIDE DEF x, n, c
    <3>1. Copies(n, x) \in Seq({x}) /\ Len(Copies(n, x)) = n
      BY <2>1, CopiesTyped
    <3> QED BY <3>1, SequenceIs DEF c
  <2> HIDE DEF c, n
  <2>3. Len(trackers') = Len(trackers) + n
    BY <1>1, <1>2, <2>2, SequenceJoined DEF c
  <2>4. Len(trackers) \in Nat
    BY <1>2 DEF IsSequence
  <2> QED BY <1>1, <2>1, <2>3, <2>4 DEF n
<1>9. Measuring'
  <2>1. decoders' = [i \in ListIndices' |-> decoders'[i]]
    BY <1>1, <1>4
  <2>2. plan' = NewPlan' /\ Len(firstPids') = Len(config'.lists)
    BY <1>1, <1>2, <1>3, <1>4
  <2>3. line' = <<>>
    BY <1>1, <1>5
  <2> QED BY <1>1, <1>6, <1>7, <1>8, <2>1, <2>2, <2>3 DEF Measuring
<1>10. Setting'
  BY <1>1 DEF Setting
<1> QED BY <1>6, <1>9, <1>10 DEF DeviceInv

LEMMA StateUpdated ==
  ASSUME NEW l \in DeviceLists, NEW x \in {"off", "selected", "running"}
  PROVE  /\ [l EXCEPT !.state = x] \in DeviceLists /\ [l EXCEPT !.state = x].odts = l.odts
         /\ [l EXCEPT !.state = x].mode = l.mode /\ [l EXCEPT !.state = x].state = x
<1>1. \A y \in {"off", "selected", "running"} :
        /\ [l EXCEPT !.state = y] \in DeviceLists /\ [l EXCEPT !.state = y].odts = l.odts
        /\ [l EXCEPT !.state = y].mode = l.mode /\ [l EXCEPT !.state = y].state = y
        /\ [l EXCEPT !.state = y].event = l.event
  BY ListUpdated
<1> QED BY <1>1

(* START_STOP_SYNCH changes the state of lists, and nothing else.          *)
LEMMA Synchronized ==
  ASSUME DeviceInv, NEW from, NEW to \in {"off", "running"}, StartStopSynch(from, to)
  PROVE  /\ IsDevice(device')
         /\ FactoryShape(device) => FactoryShape(device')
         /\ Shaped(device) => Shaped(device')
         /\ from = "running" /\ to = "off" => ~Running(device')
<1> DEFINE s == device.lists
           a == device.allocating
           p == device.ptr
           state(n) == IF s[n].state = from THEN to ELSE s[n].state
           u == [n \in DOMAIN s |-> [s[n] EXCEPT !.state = state(n)]]
<1>1. /\ device = [lists |-> s, allocating |-> a, ptr |-> p]
      /\ s = [n \in DOMAIN s |-> s[n]]
      /\ \A n \in DOMAIN s : s[n] \in DeviceLists
  BY DEF DeviceInv, IsDevice
<1>2. device' = Dev(u, a, p)
  <2>1. device' = [device EXCEPT !.lists = u]
    BY DEF StartStopSynch
  <2>2. device = Dev(s, a, p)
    BY <1>1 DEF Dev
  <2> HIDE DEF u, s, a, p
  <2>3. [Dev(s, a, p) EXCEPT !.lists = u] = Dev(u, a, p)
    BY DevUpdated
  <2> QED BY <2>1, <2>2, <2>3
<1>3. ASSUME NEW n \in DOMAIN s
      PROVE  /\ u[n] \in DeviceLists /\ u[n].odts = s[n].odts /\ u[n].mode = s[n].mode
             /\ u[n].state = state(n)
  <2> DEFINE l == s[n]
             x == state(n)
  <2>1. l \in DeviceLists
    BY <1>1
  <2>2. l.state \in {"off", "selected", "running"}
    <3> HIDE DEF l
    <3> QED BY <2>1, ListUpdated
  <2>3. x \in {"off", "selected", "running"}
    BY <2>2
  <2>4. u[n] = [l EXCEPT !.state = x]
    OBVIOUS
  <2> HIDE DEF l, x
  <2>5. /\ [l EXCEPT !.state = x] \in DeviceLists /\ [l EXCEPT !.state = x].odts = l.odts
        /\ [l EXCEPT !.state = x].mode = l.mode /\ [l EXCEPT !.state = x].state = x
    BY <2>1, <2>3, StateUpdated
  <2> HIDE DEF u
  <2> QED BY <2>4, <2>5 DEF l, x
<1>4. DOMAIN u = DOMAIN s /\ u = [n \in DOMAIN u |-> u[n]]
  OBVIOUS
<1> HIDE DEF u, state
<1>5. IsDevice(Dev(u, a, p)) /\ Dev(u, a, p).lists = u
  BY <1>3, <1>4, DeviceOf, DevFields
<1>6. device'.lists = u
  BY <1>2, <1>5
<1>7. /\ Numbered(device') <=> Numbered(device)
      /\ Numbered(device) => \A i \in ListIndices : OdtsOf(device', i) = OdtsOf(device, i)
                                                    /\ ModeOf(device', i) = ModeOf(device, i)
  BY <1>3, <1>4, <1>6 DEF Numbered, OdtsOf, ModeOf
<1>8. FactoryShape(device) => FactoryShape(device')
  BY <1>7 DEF FactoryShape
<1>9. Shaped(device) => Shaped(device')
  BY <1>7 DEF Shaped
<1>10. ASSUME from = "running", to = "off" PROVE ~Running(device')
  <2>1. \A n \in DOMAIN u : u[n].state # "running"
    BY <1>3, <1>4, <1>10 DEF state
  <2> QED BY <1>6, <2>1 DEF Running
<1> QED BY <1>2, <1>5, <1>8, <1>9, <1>10

LEMMA StartStopKeepsDevice ==
  ASSUME DaqInv, DeviceInv, Start \/ Stop
  PROVE  DeviceInv'
<1>1. /\ \/ phase = "ready" /\ phase' = "running" /\ StartStopSynch("selected", "running")
         \/ phase = "running" /\ phase' = "stopped" /\ StartStopSynch("running", "off")
      /\ config' = config /\ plan' = plan /\ firstPids' = firstPids /\ decoders' = decoders
      /\ trackers' = trackers /\ line' = line
  BY DEF Start, Stop, unfolder
<1>2. /\ IsDevice(device') /\ FactoryShape(device') /\ Shaped(device')
      /\ phase' = "stopped" => ~Running(device')
  BY <1>1, Synchronized DEF DeviceInv, Measuring
<1>3. /\ IsDevice(device)' /\ FactoryShape(device)' /\ Shaped(device)'
      /\ phase' = "stopped" => ~Running(device)'
  BY <1>1, <1>2, DevicePrimed
<1>4. NewPlan' = NewPlan /\ ListIndices' = ListIndices /\ \A i : PidOf(i)' = PidOf(i)
  BY <1>1, Constancy, Unchanging
<1>5. Measuring'
  BY <1>1, <1>3, <1>4 DEF Measuring, DeviceInv
<1>6. Setting'
  BY <1>1 DEF Setting
<1> QED BY <1>3, <1>5, <1>6 DEF DeviceInv

(* A step of the unfolder or of the DTOs.                                  *)
LEMMA DeviceStays ==
  ASSUME DeviceInv, config' = config, plan' = plan, todo' = todo, firstPids' = firstPids,
         phase' = phase, device' = device,
         decoders = [i \in ListIndices |-> decoders[i]] =>
           decoders' = [i \in ListIndices |-> decoders'[i]],
         Len(trackers') = Len(trackers),
         line' # <<>> => line # <<>> \/ phase \in {"running", "stopped"}
  PROVE  DeviceInv'
<1>1. /\ NewPlan' = NewPlan /\ ListIndices' = ListIndices /\ Cmds' = Cmds
      /\ \A i : PidOf(i)' = PidOf(i)
  BY Constancy, Unchanging
<1>2. IsDevice(device)' /\ FactoryShape(device)'
  BY DevicePrimed DEF DeviceInv
<1>3. Setting'
  <2>1. Done' = Done
    BY <1>1 DEF Done
  <2>2. SetUp(device', Done, firstPids') => SetUp(device, Done, firstPids)'
    BY <2>1, DevicePrimed
  <2> QED BY <2>2 DEF DeviceInv, Setting
<1>4. (Shaped(device) => Shaped(device)') /\ (~Running(device) => ~Running(device)')
  BY DevicePrimed
<1>5. Measuring'
  BY <1>1, <1>4 DEF DeviceInv, Measuring
<1> QED BY <1>2, <1>3, <1>5 DEF DeviceInv

(***************************************************************************)
(* The DTOs on their way                                                   *)
(***************************************************************************)
LEMMA TailIs ==
  ASSUME NEW s, IsSequence(s), s # <<>>
  PROVE  /\ Len(s) \in Nat \ {0} /\ Head(s) = s[1]
         /\ IsSequence(Tail(s)) /\ Len(Tail(s)) = Len(s) - 1
         /\ \A k \in 1 .. Len(Tail(s)) : Tail(s)[k] = s[k + 1]
<1> DEFINE X == {s[k] : k \in 1 .. Len(s)}
<1>1. \A k \in 1 .. Len(s) : s[k] \in X
  OBVIOUS
<1> HIDE DEF X
<1>2. s \in Seq(X)
  BY <1>1, SequenceOf
<1>3. /\ Head(s) = s[1] /\ Tail(s) \in Seq(X) /\ Len(Tail(s)) = Len(s) - 1
      /\ \A k \in 1 .. Len(Tail(s)) : Tail(s)[k] = s[k + 1]
  BY <1>2, HeadTailProperties
<1>4. Len(s) \in Nat \ {0}
  BY <1>2, EmptySeq, LenProperties
<1> QED BY <1>3, <1>4, SequenceIs

LEMMA JoinedIs ==
  ASSUME NEW s, NEW t, IsSequence(s), IsSequence(t)
  PROVE  /\ IsSequence(s \o t) /\ Len(s \o t) = Len(s) + Len(t)
         /\ Len(s) \in Nat /\ Len(t) \in Nat
         /\ \A k \in 1 .. Len(s) : (s \o t)[k] = s[k]
         /\ \A k \in 1 .. Len(t) : (s \o t)[Len(s) + k] = t[k]
<1> DEFINE X == {s[k] : k \in 1 .. Len(s)} \cup {t[k] : k \in 1 .. Len(t)}
<1>1. (\A k \in 1 .. Len(s) : s[k] \in X) /\ (\A k \in 1 .. Len(t) : t[k] \in X)
  OBVIOUS
<1> HIDE DEF X
<1>2. s \in Seq(X) /\ t \in Seq(X) /\ Len(s) \in Nat /\ Len(t) \in Nat
  BY <1>1, SequenceOf
<1>3. /\ Len(s \o t) = Len(s) + Len(t)
      /\ \A k \in 1 .. Len(s) + Len(t) :
           (s \o t)[k] = IF k <= Len(s) THEN s[k] ELSE t[k - Len(s)]
  BY <1>2, ConcatProperties
<1>4. IsSequence(s \o t)
  BY SequenceJoined
<1>5. ASSUME NEW k \in 1 .. Len(s) PROVE (s \o t)[k] = s[k]
  BY <1>2, <1>3
<1>6. ASSUME NEW k \in 1 .. Len(t) PROVE (s \o t)[Len(s) + k] = t[k]
  <2> DEFINE n == Len(s)
             m == Len(t)
  <2>1. n \in Nat /\ m \in Nat /\ k \in 1 .. m
    BY <1>2
  <2> HIDE DEF n, m
  <2>2. n + k \in 1 .. n + m /\ ~(n + k <= n) /\ (n + k) - n = k
    BY <2>1
  <2> QED BY <1>3, <2>2 DEF n, m
<1> QED BY <1>2, <1>3, <1>4, <1>5, <1>6

LEMMA LinedTail ==
  ASSUME NEW dtos, NEW time, Lined(dtos, time), dtos # <<>>
  PROVE  Lined(Tail(dtos), time)
<1> DEFINE n == Len(dtos)
           t == Tail(dtos)
<1>1. /\ n \in Nat \ {0} /\ IsSequence(t) /\ Len(t) = n - 1
      /\ \A k \in 1 .. Len(t) : t[k] = dtos[k + 1]
  BY TailIs DEF Lined
<1>2. \A k \in 1 .. n : /\ OfPlan(dtos[k]) /\ dtos[k].time <= time
                        /\ \A l \in k .. n : dtos[k].time <= dtos[l].time
  BY DEF Lined
<1> HIDE DEF n, t
<1>3. ASSUME NEW k \in 1 .. Len(t)
      PROVE  /\ OfPlan(t[k]) /\ t[k].time <= time
             /\ \A l \in k .. Len(t) : t[k].time <= t[l].time
  <2>1. k + 1 \in 1 .. n
    BY <1>1
  <2>2. \A l \in k .. Len(t) : l \in 1 .. Len(t) /\ l + 1 \in k + 1 .. n
    BY <1>1
  <2> QED BY <1>1, <1>2, <2>1, <2>2
<1> QED BY <1>1, <1>3 DEF Lined, t

LEMMA LinedJoined ==
  ASSUME NEW dtos, NEW time \in Int, Lined(dtos, time), NEW new, IsSequence(new),
         NEW later \in Int, time <= later,
         \A k \in 1 .. Len(new) : OfPlan(new[k]) /\ new[k].time = later
  PROVE  Lined(dtos \o new, later)
<1> DEFINE n == Len(dtos)
           m == Len(new)
           s == dtos \o new
<1>1. /\ n \in Nat /\ m \in Nat /\ IsSequence(s) /\ Len(s) = n + m
      /\ \A k \in 1 .. n : s[k] = dtos[k]
      /\ \A k \in 1 .. m : s[n + k] = new[k]
  BY JoinedIs DEF Lined
<1>2. \A k \in 1 .. n : /\ OfPlan(dtos[k]) /\ dtos[k].time <= time
                        /\ \A l \in k .. n : dtos[k].time <= dtos[l].time
  BY DEF Lined
<1>2a. \A k \in 1 .. n : dtos[k].time \in Nat
  BY <1>2 DEF OfPlan, IsDto
<1>3. \A k \in 1 .. m : OfPlan(new[k]) /\ new[k].time = later
  OBVIOUS
<1> HIDE DEF n, m, s
<1>4. \A k \in 1 .. n : /\ OfPlan(s[k]) /\ s[k].time <= later
                        /\ \A l \in k .. n : s[k].time <= s[l].time
  <2>1. SUFFICES ASSUME NEW k \in 1 .. n
                 PROVE  /\ OfPlan(s[k]) /\ s[k].time <= later
                        /\ \A l \in k .. n : s[k].time <= s[l].time
    OBVIOUS
  <2>2. \A l \in k .. n : l \in 1 .. n
    BY <1>1
  <2>3. OfPlan(s[k]) /\ s[k] = dtos[k] /\ dtos[k].time \in Nat /\ dtos[k].time <= time
    BY <1>1, <1>2, <1>2a
  <2>4. s[k].time <= later
    BY <2>3
  <2>5. \A l \in k .. n : s[k].time <= s[l].time
    BY <1>1, <1>2, <2>2, <2>3
  <2> QED BY <2>3, <2>4, <2>5
<1>5. \A k \in n + 1 .. n + m : OfPlan(s[k]) /\ s[k].time = later
  <2>1. SUFFICES ASSUME NEW k \in n + 1 .. n + m PROVE OfPlan(s[k]) /\ s[k].time = later
    OBVIOUS
  <2>2. k - n \in 1 .. m /\ k = n + (k - n)
    BY <1>1
  <2> QED BY <1>1, <1>3, <2>2
<1>6. ASSUME NEW k \in 1 .. Len(s)
      PROVE  /\ OfPlan(s[k]) /\ s[k].time <= later
             /\ \A l \in k .. Len(s) : s[k].time <= s[l].time
  <2>1. \A l \in k .. Len(s) : l \in k .. n \/ l \in n + 1 .. n + m
    BY <1>1
  <2>2. CASE k \in 1 .. n
    BY <1>4, <1>5, <2>1, <2>2
  <2>3. CASE k \in n + 1 .. n + m
    <3>1. \A l \in k .. Len(s) : l \in n + 1 .. n + m
      BY <1>1, <2>3
    <3> QED BY <1>5, <2>3, <3>1
  <2>4. k \in 1 .. n \/ k \in n + 1 .. n + m
    BY <1>1
  <2> QED BY <2>2, <2>3, <2>4
<1> QED BY <1>1, <1>6 DEF Lined, s

LEMMA LinePrimed ==
  ASSUME config' = config
  PROVE  /\ Lined(line', clock') => Line'
         /\ \A dto : OfPlan(dto)' <=> OfPlan(dto)
         /\ Misread' <=> Misread
         /\ \A list : Timestamped(list)' = Timestamped(list)
         /\ Wrap' = Wrap
<1>1. /\ NewPlan' = NewPlan /\ ListIndices' = ListIndices /\ Props' = Props
      /\ \A i : PidOf(i)' = PidOf(i)
      /\ \A i : Number(i)' = Number(i)
  BY Constancy, Unchanging
<1>2. /\ \A list : Timestamped(list)' = Timestamped(list)
      /\ Wrap' = Wrap /\ (Misread' <=> Misread)
  BY <1>1 DEF Timestamped, Wrap, Misread, Misnumbered
<1>3. \A dto, i, j : IsDto(dto, i, j)' <=> IsDto(dto, i, j)
  BY <1>1, <1>2 DEF IsDto, Stamped
<1>4. \A dto : OfPlan(dto)' <=> OfPlan(dto)
  BY <1>1, <1>3 DEF OfPlan
<1>5. Lined(line', clock') => Line'
  BY <1>4 DEF Line, Lined, IsSequence
<1> QED BY <1>2, <1>4, <1>5

(* What the device sends are DTOs of the plan.                             *)
StampedPayload(o, sample, time) ==
  TimestampOctets(time) \o ForEach(DOMAIN o, LAMBDA e : Read(o[e], sample))

LEMMA PayloadIs ==
  ASSUME config \in Configurations, NEW o \in Seq(Ext), NEW sample, NEW time,
         Props.tsSize > 0
  PROVE  StampedPayload(o, sample, time)[1][2] = time % Wrap
<1> DEFINE stamp == <<NoMemory, time % Wrap, 0>>
           size == Props.tsSize
           n == Len(o)
           f == [e \in DOMAIN o |-> Read(o[e], sample)]
           X == {stamp} \cup UNION {{f[e][k] : k \in 1 .. o[e].length} : e \in 1 .. n}
           a == TimestampOctets(time)
           b == ForEach(DOMAIN o, LAMBDA e : Read(o[e], sample))
<1>1. size \in Nat /\ size >= 1
  BY PropsTyped
<1>2. n \in Nat /\ DOMAIN o = 1 .. n /\ \A e \in 1 .. n : o[e] \in Ext
  BY LenProperties, ElementOfSeq
<1>3. stamp \in X /\ \A e \in 1 .. n : \A k \in 1 .. o[e].length : f[e][k] \in X
  OBVIOUS
<1>4. \A e \in 1 .. n : f[e] = [k \in 1 .. o[e].length |-> f[e][k]]
  BY <1>2 DEF Read
<1>5. \A e \in 1 .. n : o[e].length \in Nat
  BY <1>2 DEF Ext
<1>6. b = FlattenSeq(Pieces(f, n))
  <2>1. f = Pieces(f, n)
    BY <1>2 DEF Pieces
  <2>2. b = FlattenSeq(f)
    BY DEF ForEach
  <2> HIDE DEF f
  <2> QED BY <2>1, <2>2
<1>7. a = Copies(size, stamp)
  BY DEF TimestampOctets
<1>8. stamp[2] = time % Wrap
  OBVIOUS
<1> HIDE DEF stamp, size, n, f, X, a, b
<1>9. \A e \in 1 .. n : f[e] \in Seq(X)
  <2>1. SUFFICES ASSUME NEW e \in 1 .. n PROVE f[e] \in Seq(X)
    OBVIOUS
  <2> DEFINE g == f[e]
             m == o[e].length
  <2>2. m \in Nat /\ g = [k \in 1 .. m |-> g[k]] /\ \A k \in 1 .. m : g[k] \in X
    BY <1>3, <1>4, <1>5
  <2> HIDE DEF g, m
  <2>3. [k \in 1 .. m |-> g[k]] \in Seq(X)
    BY <2>2
  <2> QED BY <2>2, <2>3 DEF g
<1>10. b \in Seq(X)
  BY <1>2, <1>6, <1>9, FlattenTyped
<1>11. a \in Seq(X) /\ Len(a) = size
  BY <1>1, <1>3, <1>7, CopiesTyped
<1>12. a[1] = stamp
  BY <1>1, <1>7 DEF Copies
<1>13. (a \o b)[1] = stamp
  BY <1>1, <1>10, <1>11, <1>12, ConcatProperties
<1> QED BY <1>8, <1>13 DEF a, b, StampedPayload

LEMMA DtoIs ==
  ASSUME config \in Configurations, IsDevice(device), Shaped(device), NEW i \in ListIndices,
         NEW j \in 1 .. Len(NewPlan[i]), NEW sample, NEW time \in Nat
  PROVE  IsDto(Dto(Number(i), j, sample, time), i, j) /\ Dto(Number(i), j, sample, time).time = time
<1> DEFINE n == Number(i)
           l == device.lists[n]
           d == Dto(n, j, sample, time)
<1>1. /\ d.id = Identification(n, j, sample % 256) /\ d.time = time
      /\ ~Props.interleaved =>
           d.payload = (IF j = 1 /\ "timestamp" \in l.mode THEN TimestampOctets(time) ELSE <<>>)
                       \o ForEach(DOMAIN l.odts[j], LAMBDA e : Read(l.odts[j][e], sample))
  BY DEF Dto, Shifted
<1>2. FirstPid(device, n) = PidOf(i)
  BY FirstPidIs DEF Shaped
<1>3. /\ d.id[1] = IF Props.idSize = 1 THEN PidOf(i) + j - 1 ELSE j - 1
      /\ ~Props.interleaved /\ Props.idSize > 1 => d.id[2] = n
  <2>1. Props.idSize \in {1, 2, 3, 4} /\ Props.interleaved \in BOOLEAN
    BY PropsTyped
  <2> DEFINE id == Identification(n, j, sample % 256)
  <2>2. ASSUME Props.idSize = 1 PROVE id[1] = PidOf(i) + j - 1
    BY <1>2, <2>2 DEF Identification
  <2>3. ASSUME Props.idSize # 1, ~Props.interleaved PROVE id[1] = j - 1 /\ id[2] = n
    BY <2>1, <2>3 DEF Identification
  <2>4. ASSUME Props.idSize # 1, Props.interleaved PROVE id[1] = j - 1
    <3>1. id \in {<<j - 1, sample % 256>>, <<j - 1, (sample % 256) + 256 * (n % 256)>>,
                  <<j - 1, 256 * (n % 256)>>}
      BY <2>1, <2>4 DEF Identification
    <3> QED BY <3>1
  <2>5. d.id = id
    BY <1>1
  <2> HIDE DEF d, id
  <2> QED BY <2>1, <2>2, <2>3, <2>4, <2>5
<1>4. /\ l.odts \in Seq(Seq(Ext)) /\ l.mode = ListMode(config.lists[i])
      /\ Len(l.odts) = Len(NewPlan[i])
  <2>1. l \in DeviceLists
    BY DEF IsDevice, Shaped, Numbered
  <2>2. l.mode = ListMode(config.lists[i]) /\ Len(l.odts) = Len(NewPlan[i])
    BY DEF Shaped, ModeOf, OdtsOf
  <2> HIDE DEF l
  <2> QED BY <2>1, <2>2, ListUpdated
<1>5. l.odts[j] \in Seq(Ext)
  <2> DEFINE o == l.odts
             X == Seq(Ext)
  <2>1. o \in Seq(X) /\ j \in 1 .. Len(o)
    BY <1>4
  <2> HIDE DEF o, X
  <2>2. o[j] \in X
    BY <2>1, ElementOfSeq
  <2> QED BY <2>2 DEF o, X
<1> HIDE DEF d
<1>6. ASSUME Stamped(config.lists[i], j), ~Props.interleaved PROVE d.payload[1][2] = time % Wrap
  <2>1. j = 1 /\ "timestamp" \in l.mode /\ Props.tsSize > 0
    BY <1>4, <1>6 DEF Stamped, ListMode, Timestamped
  <2> DEFINE o == l.odts[j]
  <2>2. o \in Seq(Ext)
    BY <1>5
  <2>3. d.payload = StampedPayload(o, sample, time)
    BY <1>1, <1>6, <2>1 DEF StampedPayload
  <2> HIDE DEF o
  <2>4. StampedPayload(o, sample, time)[1][2] = time % Wrap
    BY <2>1, <2>2, PayloadIs
  <2> QED BY <2>3, <2>4
<1>7. IsDto(d, i, j)
  BY <1>1, <1>3, <1>6 DEF IsDto
<1> QED BY <1>1, <1>7 DEF d

LEMMA SampleKeepsLine ==
  ASSUME DaqInv, DeviceInv, Line, Sample
  PROVE  /\ Line' /\ phase = "running" /\ clock' >= clock /\ clock' \in Nat
         /\ IsSequence(line') /\ Len(line') >= Len(line)
         /\ \A k \in 1 .. Len(line') :
              (k \in 1 .. Len(line) /\ line'[k] = line[k]) \/ line'[k].time = clock'
<1>1. PICK e \in {device.lists[n].event : n \in DOMAIN device.lists}, ticks \in Advances :
        /\ Sampled(e) # {} /\ clock' = clock + ticks
        /\ line' = line \o ForEach(ListIndices,
                                   LAMBDA i : IF Number(i) \in Sampled(e)
                                              THEN DtosOf(Number(i), events', clock') ELSE <<>>)
        /\ config' = config
  BY DEF Sample, processor
<1>2. config \in Configurations /\ clock \in Nat /\ clock' \in Nat /\ clock' >= clock
  <2>1. config \in Configurations /\ clock \in Nat
    BY DEF DaqInv
  <2>2. ticks \in Nat
    BY ConfigurationsAssumption
  <2>3. clock' = clock + ticks
    BY <1>1
  <2> QED BY <2>1, <2>2, <2>3
<1>3. Running(device)
  BY <1>1 DEF Sampled, Running
<1>4. phase = "running" /\ IsDevice(device) /\ Shaped(device)
  BY <1>3 DEF DeviceInv, Measuring
<1> DEFINE u == clock'
           s == events'
           f == [i \in ListIndices |-> IF Number(i) \in Sampled(e) THEN DtosOf(Number(i), s, u)
                                       ELSE <<>>]
           n == Len(config.lists)
           X == {dto \in UNION {{Dto(Number(i), j, s, u) : j \in 1 .. Len(NewPlan[i])} :
                                i \in ListIndices} : OfPlan(dto) /\ dto.time = u}
           new == FlattenSeq(Pieces(f, n))
<1>5. ListIndices = 1 .. n /\ n \in Nat
  BY <1>2, ConfigTyped
<1>6. ASSUME NEW i \in ListIndices, NEW j \in 1 .. Len(NewPlan[i])
      PROVE  Dto(Number(i), j, s, u) \in X
  <2>1. IsDto(Dto(Number(i), j, s, u), i, j) /\ Dto(Number(i), j, s, u).time = u
    <3>1. u \in Nat
      BY <1>2
    <3> HIDE DEF u, s
    <3> QED BY <1>2, <1>4, <3>1, DtoIs
  <2>2. OfPlan(Dto(Number(i), j, s, u))
    BY <2>1 DEF OfPlan
  <2> HIDE DEF u, s
  <2> QED BY <2>1, <2>2
<1>7. line' = line \o new
  <2>1. f = Pieces(f, n)
    BY <1>5 DEF Pieces
  <2>2. line' = line \o FlattenSeq(f)
    BY <1>1 DEF ForEach
  <2> HIDE DEF f
  <2> QED BY <2>1, <2>2
<1>8. \A i \in 1 .. n : f[i] \in Seq(X)
  <2>1. SUFFICES ASSUME NEW i \in 1 .. n PROVE f[i] \in Seq(X)
    OBVIOUS
  <2>2. i \in ListIndices
    BY <1>5
  <2> DEFINE m == Len(NewPlan[i])
             l == device.lists[Number(i)]
             g == DtosOf(Number(i), s, u)
  <2>3. m \in Nat /\ DOMAIN l.odts = 1 .. m
    <3>1. l \in DeviceLists /\ Len(l.odts) = m
      BY <1>4, <2>2 DEF IsDevice, Shaped, Numbered, OdtsOf
    <3>2. m \in Nat
      BY <1>2, <2>2, PlanList
    <3> HIDE DEF l, m
    <3>3. l.odts \in Seq(Seq(Ext))
      BY <3>1, ListUpdated
    <3> QED BY <3>1, <3>2, <3>3, LenProperties
  <2>4. g = [j \in 1 .. m |-> Dto(Number(i), j, s, u)]
    BY <2>3 DEF DtosOf
  <2>5. \A j \in 1 .. m : Dto(Number(i), j, s, u) \in X
    BY <1>6, <2>2
  <2>6. f[i] = g \/ f[i] = <<>>
    BY <2>2
  <2> HIDE DEF f, g, m, X, s, u
  <2>7. g \in Seq(X)
    BY <2>3, <2>4, <2>5
  <2> QED BY <2>6, <2>7, EmptySeq
<1> HIDE DEF f, n
<1>9. new \in Seq(X)
  <2> HIDE DEF X
  <2> QED BY <1>5, <1>8, FlattenTyped
<1> HIDE DEF new
<1>10. IsSequence(new) /\ \A k \in 1 .. Len(new) : new[k] \in X
  <2> HIDE DEF X
  <2> QED BY <1>9, SequenceIs, ElementOfSeq
<1>11. \A k \in 1 .. Len(new) : OfPlan(new[k]) /\ new[k].time = u
  BY <1>10
<1>12. Lined(line, clock)
  BY DEF Line
<1>13. Lined(line \o new, u)
  <2> HIDE DEF X, s
  <2>1. u \in Int /\ clock \in Int /\ clock <= u
    BY <1>2
  <2> HIDE DEF u
  <2> QED BY <1>10, <1>11, <1>12, <2>1, LinedJoined
<1>14. config' = config
  BY <1>1
<1>15. Line'
  BY <1>7, <1>13, <1>14, LinePrimed
<1>16. /\ IsSequence(line') /\ Len(line') >= Len(line)
       /\ \A k \in 1 .. Len(line') :
            (k \in 1 .. Len(line) /\ line'[k] = line[k]) \/ line'[k].time = u
  <2> DEFINE l == Len(line)
             m == Len(new)
             all == line \o new
  <2>1. /\ IsSequence(all) /\ Len(all) = l + m /\ l \in Nat /\ m \in Nat
        /\ \A k \in 1 .. l : all[k] = line[k]
        /\ \A k \in 1 .. m : all[l + k] = new[k]
    BY <1>10, <1>12, JoinedIs DEF Lined
  <2>2. \A k \in 1 .. m : new[k].time = u
    BY <1>11
  <2> HIDE DEF l, m, all, u
  <2>3. \A k \in 1 .. l + m : (k \in 1 .. l /\ all[k] = line[k]) \/ all[k].time = u
    <3>1. SUFFICES ASSUME NEW k \in 1 .. l + m, ~(k \in 1 .. l) PROVE all[k].time = u
      BY <2>1
    <3>2. k - l \in 1 .. m /\ k = l + (k - l)
      BY <2>1, <3>1
    <3> QED BY <2>1, <2>2, <3>2
  <2>4. line' = all
    BY <1>7 DEF all
  <2>5. l + m >= l
    BY <2>1
  <2> QED BY <2>1, <2>3, <2>4, <2>5 DEF l
<1> QED BY <1>2, <1>4, <1>15, <1>16

(***************************************************************************)
(* Arithmetic of the trackers                                              *)
(***************************************************************************)
LEMMA Divided ==
  ASSUME NEW W \in Nat \ {0}, NEW x \in Nat
  PROVE  x = W * (x \div W) + (x % W) /\ x % W \in 0 .. W - 1 /\ x \div W \in Nat
  OBVIOUS

LEMMA Overflowed ==
  ASSUME NEW W \in {256, 65536, 4294967296}, NEW y \in Nat, NEW x \in Nat, y <= x
  PROVE  /\ x = W * (x \div W) + (x % W) /\ x % W \in Nat /\ x % W < W /\ x \div W \in Nat
         /\ y % W \in Nat
         /\ x - y < W => (x \div W) - (y \div W) = IF y % W > x % W THEN 1 ELSE 0
<1> DEFINE q == x \div W
           b == x % W
           p == y \div W
           a == y % W
<1>1. x = W * q + b /\ b \in 0 .. W - 1 /\ q \in Nat
  BY Divided
<1>2. y = W * p + a /\ a \in 0 .. W - 1 /\ p \in Nat
  BY Divided
<1> HIDE DEF q, b, p, a
<1>3. ASSUME x - y < W PROVE q - p = IF a > b THEN 1 ELSE 0
  <2> DEFINE m == q - p
  <2>1. m \in Int /\ W * m = (x - y) + (a - b)
    BY <1>1, <1>2
  <2>2. /\ m <= 0 => W * m <= 0
        /\ m >= 2 => W * m >= 2 * W
        /\ m >= 1 => W * m >= W
        /\ m <= -1 => W * m <= -W
    <3> HIDE DEF m
    <3> QED BY <2>1
  <2>3. x - y \in 0 .. W - 1
    BY <1>3
  <2> HIDE DEF m
  <2>4. m = IF a > b THEN 1 ELSE 0
    <3> DEFINE v == W * m
    <3> HIDE DEF v
    <3>1. /\ v = (x - y) + (a - b) /\ m \in Int
          /\ m <= 0 => v <= 0
          /\ m >= 2 => v >= 2 * W
          /\ m >= 1 => v >= W
          /\ m <= -1 => v <= -W
      BY <2>1, <2>2 DEF v
    <3>2. CASE a > b
      BY <1>1, <1>2, <2>3, <3>1, <3>2
    <3>3. CASE ~(a > b)
      BY <1>1, <1>2, <2>3, <3>1, <3>3
    <3> QED BY <3>2, <3>3
  <2> QED BY <2>4 DEF m
<1>4. b \in Nat /\ b < W /\ a \in Nat
  BY <1>1, <1>2
<1> QED BY <1>1, <1>3, <1>4 DEF q, b, p, a

LEMMA ScaledOrder ==
  ASSUME NEW s \in Nat \ {0}, NEW a \in Nat, NEW b \in Nat
  PROVE  /\ s * a > s * b <=> a > b
         /\ s * a \in Nat
<1>1. a > b => s * a > s * b
  OBVIOUS
<1>2. a <= b => s * a <= s * b
  OBVIOUS
<1> QED BY <1>1, <1>2

LEMMA ScaledDifference ==
  ASSUME NEW W \in {256, 65536, 4294967296}, NEW s \in Nat \ {0}, NEW x \in Nat, NEW f \in Nat
  PROVE  s * (x % W) - s * (f % W) + W * s * ((x \div W) - (f \div W)) = s * (x - f)
<1> DEFINE q == x \div W
           b == x % W
           k == f \div W
           c == f % W
<1>1. q \in Nat /\ b \in Nat /\ x = W * q + b
  BY Overflowed
<1>2. k \in Nat /\ c \in Nat /\ f = W * k + c
  BY Overflowed
<1> HIDE DEF q, b, k, c
<1>3. s * b - s * c + W * s * (q - k) = s * ((W * q + b) - (W * k + c))
  BY <1>1, <1>2
<1>4. s * b - s * c + W * s * (q - k) = s * (x - f)
  BY <1>1, <1>2, <1>3
<1> QED BY <1>4 DEF q, b, k, c

(* What the tracker of a list and its latest result become.                *)
LEMMA ResultIs ==
  ASSUME NEW d, NEW t, NEW r, NEW sample
  PROVE  LET q == Result(d, t, r, sample)
         IN /\ q # None /\ q.time = d.began /\ q.normal = NormalTime(t, d.timestamp)
            /\ q.first = IF r = None THEN d.began ELSE r.first
            /\ q.close <=> r = None \/ (r.close /\ d.began - r.time < Wrap)
<1> DEFINE q == Result(d, t, r, sample)
<1>1. /\ q.time = d.began /\ q.normal = NormalTime(t, d.timestamp)
      /\ q.first = IF r = None THEN d.began ELSE r.first
  BY DEF Result
<1>2. q.close = (r = None \/ (r.close /\ d.began - r.time < Wrap))
  BY DEF Result
<1>3. q # None
  <2>1. DOMAIN q = {"values", "normal", "sample", "time", "first", "close"}
    BY DEF Result
  <2>2. DOMAIN None = {"normal"}
    BY DEF None
  <2> HIDE DEF q
  <2> QED BY <2>1, <2>2
<1> QED BY <1>1, <1>2, <1>3

LEMMA WholeScale ==
  ASSUME config \in Configurations, ~Fractional
  PROVE  /\ Scale \in Nat \ {0}
         /\ \A ticks \in Int : Nanoseconds(ticks) = Scale * ticks
<1> DEFINE x == Props.scale
           s == x \div 1000
<1>1. x \in Nat \ {0} /\ x % 1000 = 0
  BY PropsTyped DEF Fractional
<1> HIDE DEF x
<1>2. s \in Nat \ {0} /\ x = 1000 * s
  BY <1>1
<1> HIDE DEF s
<1>3. ASSUME NEW ticks \in Int PROVE (x * ticks) \div 1000 = s * ticks
  <2> DEFINE y == s * ticks
  <2>1. y \in Int /\ x * ticks = 1000 * y
    BY <1>2
  <2> HIDE DEF y
  <2>2. (1000 * y) \div 1000 = y
    BY <2>1
  <2> QED BY <2>1, <2>2 DEF y
<1> QED BY <1>2, <1>3 DEF x, s, Scale, Nanoseconds

LEMMA WrapIs ==
  ASSUME config \in Configurations, NEW list, Timed(list)
  PROVE  Wrap \in {256, 65536, 4294967296} /\ Scale \in Nat \ {0}
<1>1. Props.tsSize \in {1, 2, 4}
  BY PropsTyped DEF Timed, Timestamped
<1>2. Wrap \in {256, 65536, 4294967296}
  BY <1>1 DEF Wrap
<1>3. Scale \in Nat \ {0}
  BY WholeScale DEF Timed
<1> QED BY <1>2, <1>3

LEMMA Tracking ==
  ASSUME config \in Configurations, NEW list, NEW t, NEW r, NEW d, NEW sample,
         r = None => t = NewTracker,
         r # None => TrackerIs(t, r, list) /\ r.time <= d.began,
         d.began \in Nat,
         Timed(list) => d.timestamp = Scale * (d.began % Wrap)
  PROVE  LET u == Normalized(t, d.timestamp)
         IN TrackerIs(u, Result(d, u, r, sample), list)
<1> DEFINE ts == d.timestamp
           x == d.began
           u == Normalized(t, ts)
           q == Result(d, u, r, sample)
<1>1. /\ q.time = x /\ q.normal = NormalTime(u, ts)
      /\ q.first = IF r = None THEN x ELSE r.first
      /\ q.close <=> r = None \/ (r.close /\ x - r.time < Wrap)
  <2> HIDE DEF u
  <2> QED BY ResultIs
<1>2. /\ u.previous = ts /\ u.started = TRUE
      /\ u.overflows = IF t.previous > ts THEN t.overflows + 1 ELSE t.overflows
      /\ u.base = IF t.started THEN t.base ELSE ts
  <2> HIDE DEF ts
  <2> QED BY DEF Normalized
<1>3. Timed(list) => q.normal = ts - u.base + Wrap * Scale * u.overflows
  <2>1. q.normal = ts - u.base + Nanoseconds(Wrap) * u.overflows
    BY <1>1 DEF NormalTime
  <2>2. ASSUME Timed(list) PROVE Nanoseconds(Wrap) = Wrap * Scale
    <3>1. Wrap \in Int /\ Scale \in Int
      BY <2>2, WrapIs
    <3>2. Nanoseconds(Wrap) = Scale * Wrap
      BY <2>2, <3>1, WholeScale DEF Timed
    <3> QED BY <3>1, <3>2
  <2> HIDE DEF ts, u, q
  <2> QED BY <2>1, <2>2
<1>4. x \in Nat /\ (Timed(list) => ts = Scale * (x % Wrap))
  OBVIOUS
<1> HIDE DEF ts, x, u, q
<1>5. ASSUME r = None PROVE TrackerIs(u, q, list)
  <2>1. t.previous = 0 /\ t.overflows = 0 /\ t.started = FALSE
    BY <1>5 DEF NewTracker
  <2>2. u.started /\ q.first = x /\ q.time = x /\ u.base = ts /\ u.previous = ts /\ x <= x
    BY <1>1, <1>2, <1>4, <1>5, <2>1
  <2>3. ASSUME Timed(list)
        PROVE  /\ u.overflows = (q.time \div Wrap) - (q.first \div Wrap)
               /\ q.normal = Scale * (q.time - q.first)
    <3> DEFINE W == Wrap
               s == Scale
    <3>1. W \in {256, 65536, 4294967296} /\ s \in Nat \ {0} /\ ts = s * (x % W)
      BY <1>4, <2>3, WrapIs
    <3> HIDE DEF W, s
    <3>2. x % W \in Nat /\ x \div W \in Nat
      BY <1>4, <3>1, Divided
    <3>3. ts \in Nat
      BY <3>1, <3>2
    <3>4. u.overflows = 0
      BY <1>2, <2>1, <3>3
    <3>5. (x \div W) - (x \div W) = 0
      BY <3>2
    <3>6. ts - ts + W * s * 0 = 0 /\ s * (x - x) = 0
      BY <1>4, <3>1, <3>3
    <3> QED BY <1>3, <2>2, <2>3, <3>4, <3>5, <3>6 DEF W, s
  <2> QED BY <1>4, <2>2, <2>3 DEF TrackerIs
<1>6. ASSUME r # None PROVE TrackerIs(u, q, list)
  <2>1. /\ t.started /\ r.first \in Nat /\ r.time \in Nat /\ r.first <= r.time /\ r.time <= x
        /\ Timed(list) =>
             /\ t.previous = Scale * (r.time % Wrap)
             /\ t.base = Scale * (r.first % Wrap)
             /\ r.close => t.overflows = (r.time \div Wrap) - (r.first \div Wrap)
    BY <1>6 DEF TrackerIs, x
  <2>2. /\ u.started /\ q.first = r.first /\ q.time = x /\ u.base = t.base /\ u.previous = ts
        /\ r.first <= x
    BY <1>1, <1>2, <1>4, <1>6, <2>1
  <2>3. ASSUME Timed(list), q.close
        PROVE  /\ u.overflows = (x \div Wrap) - (r.first \div Wrap)
               /\ q.normal = Scale * (x - r.first)
    <3> DEFINE W == Wrap
               s == Scale
               y == r.time
               f == r.first
    <3>1. W \in {256, 65536, 4294967296} /\ s \in Nat \ {0} /\ ts = s * (x % W)
      BY <1>4, <2>3, WrapIs
    <3>2. /\ t.previous = s * (y % W) /\ t.base = s * (f % W)
          /\ t.overflows = (y \div W) - (f \div W) /\ x - y < W
      BY <1>1, <1>6, <2>1, <2>3
    <3>3. y \in Nat /\ f \in Nat /\ y <= x
      BY <2>1
    <3> HIDE DEF W, s, y, f
    <3>4. /\ x % W \in Nat /\ y % W \in Nat
          /\ (x \div W) - (y \div W) = IF y % W > x % W THEN 1 ELSE 0
      <4>1. W \in {256, 65536, 4294967296} /\ x \in Nat /\ y \in Nat /\ y <= x /\ x - y < W
        BY <1>4, <3>1, <3>2, <3>3
      <4> HIDE DEF W
      <4> QED BY ONLY <4>1, Overflowed
    <3>5. t.previous > ts <=> y % W > x % W
      BY <3>1, <3>2, <3>4, ScaledOrder
    <3>6. x \div W \in Nat /\ y \div W \in Nat /\ f \div W \in Nat
      BY <1>4, <3>1, <3>3, Divided
    <3>7. u.overflows = (x \div W) - (f \div W)
      BY <1>2, <3>2, <3>4, <3>5, <3>6
    <3>8. s * (x % W) - s * (f % W) + W * s * ((x \div W) - (f \div W)) = s * (x - f)
      BY <1>4, <3>1, <3>3, ScaledDifference
    <3>9. q.normal = ts - t.base + W * s * u.overflows
      BY <1>3, <2>2, <2>3 DEF W, s
    <3>10. q.normal = s * (x - f)
      BY <3>1, <3>2, <3>7, <3>8, <3>9
    <3> QED BY <3>7, <3>10 DEF W, s, f
  <2>4. Timed(list) => /\ u.previous = Scale * (x % Wrap)
                       /\ u.base = Scale * (r.first % Wrap)
    BY <1>4, <2>1, <2>2
  <2>5. TrackerIs(u, q, list)
    BY <1>4, <2>1, <2>2, <2>3, <2>4 DEF TrackerIs
  <2> QED BY <2>5
<1>7. TrackerIs(u, q, list)
  BY <1>5, <1>6
<1> QED BY <1>7 DEF u, q, ts

(* A decoder keeps the time of the ODT it has begun with.                  *)
Beginning(d, odt, time) == IF odt = 0 THEN [d EXCEPT !.began = time] ELSE d

LEMMA FedDated ==
  ASSUME config \in Configurations, NEW d, NEW bins, Decoding(d, bins), NEW odt, NEW time,
         NEW payload, NEW list, NEW r, Begun(d, r, list),
         odt = 0 => /\ Past(time) /\ (r # None => r.time <= time)
                    /\ Timed(list) => payload[1][2] = time % Wrap
  PROVE  LET f == Fed(Beginning(d, odt, time), list, odt, payload)
         IN /\ f.state \in {"collecting", "finished"} => Dated(f, r, list)
            /\ f.state = "finished" => [f EXCEPT !.state = "idle"].state = "idle"
<1> DEFINE o == d.odts
           s == d.state
           n == d.next
           c == d.current
           t == d.timestamp
           b == d.buffer
           g == IF odt = 0 THEN time ELSE d.began
           u == Stamp(list, odt, payload, t)
           f == Fed(Beginning(d, odt, time), list, odt, payload)
<1>1. /\ d = Decoder(o, s, n, c, t, b, d.began)
      /\ s \in {"idle", "collecting", "terminated"} /\ IsSequence(b)
  BY DEF Decoding, IsDecoder
<1>2. Beginning(d, odt, time) = Decoder(o, s, n, c, t, b, g)
  <2> DEFINE h == d.began
  <2>1. d = Decoder(o, s, n, c, t, b, h)
    BY <1>1
  <2>2. g = IF odt = 0 THEN time ELSE h
    OBVIOUS
  <2> HIDE DEF o, s, n, c, t, b, g, h
  <2>3. [Decoder(o, s, n, c, t, b, h) EXCEPT !.began = time] = Decoder(o, s, n, c, t, b, time)
    BY DEF Decoder
  <2>4. [d EXCEPT !.began = time] = Decoder(o, s, n, c, t, b, time)
    BY <2>1, <2>3
  <2> QED BY <2>1, <2>2, <2>4 DEF Beginning
<1>3. /\ s = "collecting" =>
           /\ Past(d.began) /\ (r # None => r.time <= d.began)
           /\ Timed(list) => t = Scale * (d.began % Wrap)
      /\ odt = 0 => g = time /\ (Timed(list) => u = Scale * (time % Wrap))
      /\ odt # 0 => g = d.began /\ u = t
  <2>1. ASSUME odt = 0, Timed(list) PROVE u = Scale * (time % Wrap)
    <3>1. time \in Int /\ payload[1][2] = time % Wrap
      BY <2>1 DEF Past
    <3>2. Wrap \in {256, 65536, 4294967296}
      BY <2>1, WrapIs
    <3>3. time % Wrap \in Int
      BY <3>1, <3>2
    <3>4. u = Nanoseconds(payload[1][2])
      BY <2>1 DEF Stamp, Timed
    <3>5. Nanoseconds(time % Wrap) = Scale * (time % Wrap)
      BY <2>1, <3>3, WholeScale DEF Timed
    <3> QED BY <3>1, <3>4, <3>5
  <2> QED BY <2>1 DEF Begun, Dated, Stamp
<1>4. ASSUME odt = 0 \/ s = "collecting"
      PROVE  /\ Past(g) /\ (r # None => r.time <= g)
             /\ Timed(list) => u = Scale * (g % Wrap)
  <2>1. CASE odt = 0
    BY <1>3, <2>1
  <2>2. CASE odt # 0
    BY <1>3, <1>4, <2>2
  <2> QED BY <2>1, <2>2
<1> HIDE DEF o, s, n, c, t, b, g, u
<1>5. \/ Taken(f, o, s, n, c, t, b, g, list, odt, payload)
      \/ Dropped(f, o, s, n, c, t, b, g, odt)
      \/ Crashed(f, o, s, n, c, t, b, g, odt)
  BY <1>1, <1>2, FedIs
<1> HIDE DEF f
<1>6. ASSUME Taken(f, o, s, n, c, t, b, g, list, odt, payload)
      PROVE  Dated(f, r, list) /\ [f EXCEPT !.state = "idle"].state = "idle"
  <2>1. PICK q, m, k, v : f = Decoder(o, q, m, k, u, v, g) /\ (odt = 0 \/ s = "collecting")
    BY <1>6 DEF Taken, u
  <2>2. f.timestamp = u /\ f.began = g
    BY <2>1, FieldsHold DEF Fields
  <2>3. [f EXCEPT !.state = "idle"].state = "idle"
    BY <2>1 DEF Decoder
  <2> QED BY <1>4, <2>1, <2>2, <2>3 DEF Dated
<1>7. ASSUME Dropped(f, o, s, n, c, t, b, g, odt) \/ Crashed(f, o, s, n, c, t, b, g, odt)
      PROVE  f.state \notin {"collecting", "finished"}
  <2>1. PICK q, m, k, v : f = Decoder(o, q, m, k, t, v, g) /\ q \in {"idle", "terminated"}
    <3>1. CASE Dropped(f, o, s, n, c, t, b, g, odt)
      BY <1>1, <3>1 DEF Dropped
    <3>2. CASE Crashed(f, o, s, n, c, t, b, g, odt)
      BY <3>2 DEF Crashed
    <3> QED BY <1>7, <3>1, <3>2
  <2>2. f.state = q
    BY <2>1, FieldsHold DEF Fields
  <2> QED BY <2>1, <2>2
<1>8. /\ f.state \in {"collecting", "finished"} => Dated(f, r, list)
      /\ f.state = "finished" => [f EXCEPT !.state = "idle"].state = "idle"
  BY <1>5, <1>6, <1>7
<1> QED BY <1>8 DEF f

(* The time of a result stays older than the DTOs on their way.            *)
LEMMA PastStays ==
  ASSUME clock \in Nat, clock' \in Nat, clock <= clock',
         \A k \in 1 .. Len(line') :
           (\E m \in 1 .. Len(line) : line'[k] = line[m]) \/ line'[k].time = clock'
  PROVE  \A t : Past(t) => Past(t)'
<1>1. SUFFICES ASSUME NEW t, Past(t) PROVE Past(t)'
  OBVIOUS
<1>2. t \in Nat /\ t <= clock /\ \A k \in 1 .. Len(line) : t <= line[k].time
  BY <1>1 DEF Past
<1>3. t \in 0 .. clock'
  BY <1>2
<1>4. ASSUME NEW k \in 1 .. Len(line') PROVE t <= line'[k].time
  <2>1. CASE \E m \in 1 .. Len(line) : line'[k] = line[m]
    BY <1>2, <2>1
  <2>2. CASE line'[k].time = clock'
    BY <1>2, <2>2
  <2> QED BY <2>1, <2>2
<1> QED BY <1>3, <1>4 DEF Past

(* The times are right again after a step, if what is new is right.        *)
LEMMA TimesPrimed ==
  ASSUME config' = config, \A t : Past(t) => Past(t)',
         \A k \in ListIndices :
           IF last'[k] = None THEN k \in DOMAIN trackers' => trackers'[k] = NewTracker
           ELSE /\ k \in DOMAIN trackers' /\ TrackerIs(trackers'[k], last'[k], config.lists[k])
                /\ Past(last'[k].time),
         last' = [k \in ListIndices |-> last'[k]],
         \A k \in DOMAIN decoders' : Begun(decoders'[k], last'[k], config.lists[k])
  PROVE  Times'
<1>1. /\ ListIndices' = ListIndices /\ Props' = Props /\ Wrap' = Wrap /\ Scale' = Scale
      /\ \A list : Timed(list)' = Timed(list)
  BY Constancy, LinePrimed DEF Scale, Timed, Fractional
<1>2. ASSUME NEW k \in ListIndices
      PROVE  (IF last[k] = None THEN k \in DOMAIN trackers => trackers[k] = NewTracker
              ELSE k \in DOMAIN trackers /\ TrackerIs(trackers[k], last[k], config.lists[k]))'
  <2>1. CASE last'[k] = None
    BY <2>1
  <2>2. CASE last'[k] # None
    <3>1. k \in DOMAIN trackers' /\ TrackerIs(trackers'[k], last'[k], config.lists[k])
      BY <2>2
    <3>2. TrackerIs(trackers[k], last[k], config.lists[k])'
      BY <1>1, <3>1 DEF TrackerIs
    <3> QED BY <2>2, <3>1, <3>2
  <2> QED BY <2>1, <2>2
<1>3. ASSUME NEW k \in ListIndices PROVE (last[k] # None => Past(last[k].time))'
  <2>1. SUFFICES ASSUME last'[k] # None PROVE Past(last[k].time)'
    OBVIOUS
  <2> DEFINE x == last'[k].time
  <2>2. Past(x)
    BY <2>1
  <2>3. \A t : Past(t) => t \in 0 .. clock' /\ \A m \in 1 .. Len(line') : t <= line'[m].time
    BY DEF Past
  <2>4. x \in 0 .. clock' /\ \A m \in 1 .. Len(line') : x <= line'[m].time
    <3> HIDE DEF x
    <3> QED BY <2>2, <2>3
  <2> QED BY <2>4 DEF Past
<1>4. ASSUME NEW k \in DOMAIN decoders' PROVE Begun(decoders[k], last[k], config.lists[k])'
  <2>1. SUFFICES ASSUME decoders'[k].state = "collecting"
                 PROVE  Dated(decoders[k], last[k], config.lists[k])'
    BY DEF Begun
  <2>2. Dated(decoders'[k], last'[k], config.lists[k])
    BY <2>1 DEF Begun
  <2> DEFINE x == decoders'[k].began
  <2>3. Past(x)
    BY <2>2 DEF Dated
  <2>4. \A t : Past(t) => t \in 0 .. clock' /\ \A m \in 1 .. Len(line') : t <= line'[m].time
    BY DEF Past
  <2>5. x \in 0 .. clock' /\ \A m \in 1 .. Len(line') : x <= line'[m].time
    <3> HIDE DEF x
    <3> QED BY <2>3, <2>4
  <2>6. Past(decoders[k].began)'
    BY <2>5 DEF Past
  <2> QED BY <1>1, <2>2, <2>6 DEF Dated
<1>5. Tracked'
  BY <1>1, <1>2, <1>3 DEF Tracked
<1> QED BY <1>4, <1>5 DEF Times

(* What feed() does to the list the DTO is of.                             *)
FedBy(dto, i, odt) ==
  Fed(Beginning(decoders[i], odt, dto.time), config.lists[i], odt, dto.payload)
Fetched(dto, i, odt) ==
  LET f == FedBy(dto, i, odt)
      t == Normalized(trackers[i], f.timestamp)
  IN \/ /\ f.state # "finished" /\ decoders' = [decoders EXCEPT ![i] = f]
        /\ trackers' = trackers /\ last' = last
     \/ /\ f.state = "finished" /\ decoders' = [decoders EXCEPT ![i] = [f EXCEPT !.state = "idle"]]
        /\ trackers' = [trackers EXCEPT ![i] = t]
        /\ last' = [last EXCEPT ![i] = Result(f, t, last[i], dto.sample)]

LEMMA FeedFetches ==
  ASSUME Known, ~Misread, NEW i \in ListIndices, NEW j \in 1 .. Len(NewPlan[i]), NEW dto,
         IsDto(dto, i, j), Feed(dto)
  PROVE  Fetched(dto, i, j - 1)
<1> DEFINE odt == j - 1
           x == i - 1
<1>1. GetId(dto.id) = <<x, odt>> /\ x + 1 = i
  <2>1. i \in Nat
    BY ConfigTyped DEF Known
  <2> QED BY <2>1, GetIdIs
<1> HIDE DEF odt, x
<1>2. GetId(dto.id)[1] + 1 = i /\ GetId(dto.id)[2] = odt
  BY <1>1
<1>3. Fetched(dto, i, odt)
  BY <1>2 DEF Feed, Fetched, FedBy, Beginning
<1> QED BY <1>3 DEF odt

LEMMA FetchedTimes ==
  ASSUME config \in Configurations, config' = config, NEW i \in ListIndices, NEW dto, NEW odt,
         decoders = [k \in ListIndices |-> decoders[k]], Decoding(decoders[i], NewPlan[i]),
         IsSequence(trackers), Len(trackers) >= Len(config.lists),
         Times, \A t : Past(t) => Past(t)',
         Past(dto.time), last[i] # None => last[i].time <= dto.time,
         odt = 0 /\ Timestamped(config.lists[i]) => dto.payload[1][2] = dto.time % Wrap,
         Fetched(dto, i, odt)
  PROVE  Times'
<1> DEFINE f == FedBy(dto, i, odt)
           r == last[i]
           l == config.lists[i]
           t == trackers[i]
           u == Normalized(t, f.timestamp)
           q == Result(f, u, r, dto.sample)
           Right(k, x, y) ==
             IF y = None THEN k \in DOMAIN trackers => x = NewTracker
             ELSE k \in DOMAIN trackers /\ TrackerIs(x, y, config.lists[k]) /\ Past(y.time)
<1>1. /\ \A k \in ListIndices : Right(k, trackers[k], last[k])
      /\ last = [k \in ListIndices |-> last[k]]
      /\ \A k \in ListIndices : Begun(decoders[k], last[k], config.lists[k])
  <2>1. DOMAIN decoders = ListIndices
    OBVIOUS
  <2> QED BY <2>1 DEF Times, Tracked
<1>2. /\ f.state \in {"collecting", "finished"} => Dated(f, r, l)
      /\ f.state = "finished" => [f EXCEPT !.state = "idle"].state = "idle"
  <2> DEFINE d == decoders[i]
             bins == NewPlan[i]
             time == dto.time
             p == dto.payload
  <2>1. /\ Decoding(d, bins) /\ Begun(d, r, l) /\ f = Fed(Beginning(d, odt, time), l, odt, p)
        /\ odt = 0 => /\ Past(time) /\ (r # None => r.time <= time)
                      /\ Timed(l) => p[1][2] = time % Wrap
    BY <1>1 DEF FedBy, Timed
  <2> HIDE DEF d, bins, time, p, l, r, f
  <2>2. LET z == Fed(Beginning(d, odt, time), l, odt, p)
        IN /\ z.state \in {"collecting", "finished"} => Dated(z, r, l)
           /\ z.state = "finished" => [z EXCEPT !.state = "idle"].state = "idle"
    BY <2>1, FedDated
  <2> QED BY <2>1, <2>2
<1>3. i \in DOMAIN trackers
  <2> DEFINE n == Len(trackers)
             m == Len(config.lists)
  <2>1. n \in Nat /\ trackers = [k \in 1 .. n |-> trackers[k]] /\ n >= m
    BY DEF IsSequence
  <2>2. i \in 1 .. m /\ m \in Nat
    BY ConfigTyped
  <2> HIDE DEF n, m
  <2>3. DOMAIN trackers = 1 .. n
    BY <2>1
  <2> QED BY <2>1, <2>2, <2>3
<1>4. CASE f.state # "finished"
  <2>1. decoders' = [decoders EXCEPT ![i] = f] /\ trackers' = trackers /\ last' = last
    BY <1>4 DEF Fetched
  <2> HIDE DEF f, Right
  <2>2. ASSUME NEW k \in DOMAIN decoders'
        PROVE  Begun(decoders'[k], last'[k], config.lists[k])
    <3>1. CASE k = i
      <4>1. decoders'[k] = f
        BY <2>1, <3>1
      <4> QED BY <1>2, <2>1, <3>1, <4>1 DEF Begun
    <3>2. CASE k # i
      <4>1. decoders'[k] = decoders[k] /\ k \in ListIndices
        BY <2>1, <3>2
      <4> QED BY <1>1, <2>1, <4>1
    <3> QED BY <3>1, <3>2
  <2>3. \A k \in ListIndices : Right(k, trackers[k], last[k])
    BY <1>1
  <2>4. \A k \in ListIndices :
          IF last'[k] = None THEN k \in DOMAIN trackers' => trackers'[k] = NewTracker
          ELSE /\ k \in DOMAIN trackers' /\ TrackerIs(trackers'[k], last'[k], config.lists[k])
               /\ Past(last'[k].time)
    BY <2>1, <2>3 DEF Right
  <2>5. last' = [k \in ListIndices |-> last'[k]]
    BY <1>1, <2>1
  <2> QED BY <2>2, <2>4, <2>5, TimesPrimed
<1>5. CASE f.state = "finished"
  <2> DEFINE g == [f EXCEPT !.state = "idle"]
  <2>1. /\ decoders' = [decoders EXCEPT ![i] = g] /\ g.state = "idle"
        /\ trackers' = [trackers EXCEPT ![i] = u] /\ last' = [last EXCEPT ![i] = q]
    BY <1>2, <1>5 DEF Fetched
  <2>2. Dated(f, r, l)
    BY <1>2, <1>5
  <2>3. q # None /\ q.time = f.began
    <3> HIDE DEF f, r, u
    <3> QED BY ResultIs
  <2>4. TrackerIs(u, q, l)
    <3>1. /\ r = None => t = NewTracker
          /\ r # None => TrackerIs(t, r, l) /\ r.time <= f.began
          /\ f.began \in Nat
          /\ Timed(l) => f.timestamp = Scale * (f.began % Wrap)
      <4>1. Right(i, t, r)
        BY <1>1
      <4> HIDE DEF f, t, r, l
      <4> QED BY <1>3, <2>2, <4>1 DEF Dated, Past, l
    <3> DEFINE s == dto.sample
    <3>2. u = Normalized(t, f.timestamp) /\ q = Result(f, u, r, s)
      OBVIOUS
    <3> HIDE DEF f, t, r, l, u, q, s
    <3>3. LET v == Normalized(t, f.timestamp)
          IN TrackerIs(v, Result(f, v, r, s), l)
      BY <3>1, Tracking
    <3> QED BY <3>2, <3>3
  <2> HIDE DEF g, f, t, r, u, q, l, Right
  <2>5. ASSUME NEW k \in DOMAIN decoders'
        PROVE  Begun(decoders'[k], last'[k], config.lists[k])
    <3>1. CASE k = i
      <4>1. decoders'[k] = g
        BY <2>1, <3>1
      <4> QED BY <2>1, <4>1 DEF Begun
    <3>2. CASE k # i
      <4>1. decoders'[k] = decoders[k] /\ k \in ListIndices /\ last'[k] = last[k]
        BY <1>1, <2>1, <3>2
      <4> QED BY <1>1, <4>1
    <3> QED BY <3>1, <3>2
  <2>6. ASSUME NEW k \in ListIndices
        PROVE  IF last'[k] = None THEN k \in DOMAIN trackers' => trackers'[k] = NewTracker
               ELSE /\ k \in DOMAIN trackers' /\ TrackerIs(trackers'[k], last'[k], config.lists[k])
                    /\ Past(last'[k].time)
    <3>1. CASE k = i
      <4>1. last'[k] = q /\ trackers'[k] = u /\ k \in DOMAIN trackers'
        BY <1>1, <1>3, <2>1, <3>1
      <4>2. TrackerIs(u, q, config.lists[k]) /\ Past(q.time)
        BY <2>2, <2>3, <2>4, <3>1 DEF Dated, l
      <4> QED BY <2>3, <4>1, <4>2
    <3>2. CASE k # i
      <4>1. last'[k] = last[k] /\ DOMAIN trackers' = DOMAIN trackers
            /\ (k \in DOMAIN trackers => trackers'[k] = trackers[k])
        BY <1>1, <2>1, <3>2
      <4>2. Right(k, trackers[k], last[k])
        BY <1>1
      <4> QED BY <4>1, <4>2 DEF Right
    <3> QED BY <3>1, <3>2
  <2>7. last' = [k \in ListIndices |-> last'[k]]
    BY <1>1, <2>1
  <2> QED BY <2>5, <2>6, <2>7, TimesPrimed
<1> QED BY <1>4, <1>5

(* feed() neither adds nor removes a decoder or a tracker.                 *)
LEMMA FeedShape ==
  ASSUME NEW dto, Feed(dto), IsSequence(trackers)
  PROVE  /\ Len(trackers') = Len(trackers)
         /\ decoders = [k \in ListIndices |-> decoders[k]] =>
              decoders' = [k \in ListIndices |-> decoders'[k]]
<1> DEFINE id == GetId(dto.id)
           i == id[1] + 1
           begun == IF id[2] = 0 THEN [decoders[i] EXCEPT !.began = dto.time] ELSE decoders[i]
           fed == Fed(begun, config.lists[i], id[2], dto.payload)
           tracker == Normalized(trackers[i], fed.timestamp)
           idle == [fed EXCEPT !.state = "idle"]
<1>1. /\ decoders' = decoders \/ \E x : decoders' = [decoders EXCEPT ![i] = x]
      /\ trackers' = trackers \/ \E x : trackers' = [trackers EXCEPT ![i] = x]
  <2>1. \/ decoders' = decoders /\ trackers' = trackers
        \/ decoders' = [decoders EXCEPT ![i] = fed] /\ trackers' = trackers
        \/ decoders' = [decoders EXCEPT ![i] = idle] /\ trackers' = [trackers EXCEPT ![i] = tracker]
    BY DEF Feed, unfolder
  <2> HIDE DEF i, fed, idle, tracker
  <2> QED BY <2>1
<1> HIDE DEF i
<1>2. Len(trackers') = Len(trackers)
  <2>1. ASSUME NEW x PROVE Len([trackers EXCEPT ![i] = x]) = Len(trackers)
    BY SequenceUpdated
  <2> QED BY <1>1, <2>1
<1>3. ASSUME decoders = [k \in ListIndices |-> decoders[k]]
      PROVE  decoders' = [k \in ListIndices |-> decoders'[k]]
  <2>1. ASSUME NEW x
        PROVE  LET e == [decoders EXCEPT ![i] = x]
               IN e = [k \in ListIndices |-> e[k]]
    BY <1>3
  <2> QED BY <1>1, <1>3, <2>1
<1> QED BY <1>2, <1>3

(* The line with or without its oldest DTO: no time that was past is now   *)
(* in the future.                                                          *)
LEMMA LineShortened ==
  ASSUME DaqInv, Line, config' = config, clock' = clock,
         line' = line \/ (line # <<>> /\ line' = Tail(line))
  PROVE  Line' /\ \A t : Past(t) => Past(t)'
<1>1. Lined(line, clock) /\ IsSequence(line) /\ clock \in Nat
  BY DEF Line, Lined, DaqInv
<1>2. Line'
  <2>1. Lined(line', clock')
    BY <1>1, LinedTail
  <2> QED BY <2>1, LinePrimed
<1>3. \A k \in 1 .. Len(line') : \E m \in 1 .. Len(line) : line'[k] = line[m]
  <2>1. CASE line' = line
    BY <2>1
  <2>2. CASE line # <<>> /\ line' = Tail(line)
    <3>1. /\ Len(line) \in Nat \ {0} /\ Len(line') = Len(line) - 1
          /\ \A k \in 1 .. Len(line') : line'[k] = line[k + 1]
      BY <1>1, <2>2, TailIs
    <3> DEFINE n == Len(line)
               m == Len(line')
    <3> HIDE DEF n, m
    <3>2. \A k \in 1 .. m : k + 1 \in 1 .. n
      BY <3>1 DEF n, m
    <3> QED BY <3>1, <3>2 DEF n, m
  <2> QED BY <2>1, <2>2
<1>4. clock <= clock'
  BY <1>1
<1> QED BY <1>1, <1>2, <1>3, <1>4, PastStays

(* A DTO that is received, once or twice.                                  *)
LEMMA ReceivingKeepsTimes ==
  ASSUME DaqInv, TimeInv, Receive \/ Duplicate
  PROVE  TimeInv'
<1> DEFINE dto == Head(line)
<1>1. /\ line # <<>> /\ Feed(dto) /\ (line' = line \/ line' = Tail(line))
      /\ config' = config /\ plan' = plan /\ todo' = todo /\ firstPids' = firstPids
      /\ phase' = phase /\ device' = device /\ clock' = clock
  BY DEF Receive, Duplicate, processor, outside
<1>2. DeviceInv /\ Line /\ (Misread \/ Times)
  BY DEF TimeInv
<1>3. Line' /\ \A t : Past(t) => Past(t)'
  BY <1>1, <1>2, LineShortened
<1>4. /\ config \in Configurations /\ IsSequence(trackers) /\ Decoders
      /\ plan = NewPlan /\ \A k \in ListIndices : firstPids[k] = PidOf(k)
      /\ decoders = [k \in ListIndices |-> decoders[k]]
      /\ Len(trackers) >= Len(config.lists) /\ phase \in {"running", "stopped"}
  BY <1>1, <1>2 DEF DaqInv, Trackers, DeviceInv, Measuring
<1>5. DeviceInv'
  <2>1. /\ Len(trackers') = Len(trackers)
        /\ decoders = [k \in ListIndices |-> decoders[k]] =>
             decoders' = [k \in ListIndices |-> decoders'[k]]
    <3> HIDE DEF dto
    <3> QED BY <1>1, <1>4, FeedShape
  <2> QED BY <1>1, <1>2, <2>1, DeviceStays
<1>6. ASSUME ~Misread PROVE Times'
  <2>1. dto = line[1] /\ Len(line) \in Nat \ {0} /\ Lined(line, clock)
    BY <1>1, <1>2, TailIs DEF Line, Lined
  <2>2. /\ OfPlan(dto) /\ dto.time <= clock
        /\ \A k \in 1 .. Len(line) : dto.time <= line[k].time
    <3>1. 1 \in 1 .. Len(line)
      BY <2>1
    <3> HIDE DEF dto
    <3>2. /\ OfPlan(line[1]) /\ line[1].time <= clock
          /\ \A k \in 1 .. Len(line) : line[1].time <= line[k].time
      BY <2>1, <3>1 DEF Lined
    <3> QED BY <2>1, <3>2
  <2>3. PICK i \in ListIndices : \E j \in 1 .. Len(NewPlan[i]) : IsDto(dto, i, j)
    BY <2>2 DEF OfPlan
  <2>4. PICK j \in 1 .. Len(NewPlan[i]) : IsDto(dto, i, j)
    BY <2>3
  <2> HIDE DEF dto
  <2>5. Fetched(dto, i, j - 1)
    BY <1>1, <1>4, <1>6, <2>4, FeedFetches DEF Known
  <2>6. Times /\ Decoding(decoders[i], NewPlan[i])
    <3>1. decoders # <<>>
      BY <1>4
    <3> QED BY <1>2, <1>4, <1>6, <3>1 DEF Decoders
  <2>7. Past(dto.time)
    <3>1. dto.time \in Nat /\ clock \in Nat
      BY <2>4 DEF IsDto, DaqInv
    <3>2. dto.time \in 0 .. clock
      BY <2>2, <3>1
    <3> QED BY <2>2, <3>2 DEF Past
  <2>8. last[i] # None => last[i].time <= dto.time
    <3>1. SUFFICES ASSUME last[i] # None PROVE last[i].time <= dto.time
      OBVIOUS
    <3>2. Past(last[i].time)
      BY <2>6, <3>1 DEF Times, Tracked
    <3>3. 1 \in 1 .. Len(line)
      BY <2>1
    <3> QED BY <2>1, <3>2, <3>3 DEF Past
  <2> DEFINE odt == j - 1
  <2>9. odt = 0 /\ Timestamped(config.lists[i]) => dto.payload[1][2] = dto.time % Wrap
    <3>1. SUFFICES ASSUME odt = 0, Timestamped(config.lists[i])
                   PROVE  dto.payload[1][2] = dto.time % Wrap
      OBVIOUS
    <3>2. j = 1
      <4>1. j \in Int
        OBVIOUS
      <4> QED BY <3>1, <4>1
    <3>3. Stamped(config.lists[i], j)
      BY <3>1, <3>2 DEF Stamped
    <3> QED BY <1>6, <2>4, <3>3 DEF IsDto, Misread
  <2>10. Fetched(dto, i, odt)
    BY <2>5
  <2> HIDE DEF odt
  <2> QED BY <1>1, <1>3, <1>4, <2>6, <2>7, <2>8, <2>9, <2>10, FetchedTimes
<1>7. Misread' <=> Misread
  BY <1>1, LinePrimed
<1> QED BY <1>3, <1>5, <1>6, <1>7 DEF TimeInv

(* A step that leaves the unfolder.                                        *)
LEMMA UnfolderStays ==
  ASSUME TimeInv, config' = config, UNCHANGED unfolder, DeviceInv', Line',
         \A t : Past(t) => Past(t)'
  PROVE  TimeInv'
<1>1. decoders' = decoders /\ trackers' = trackers /\ last' = last
  BY DEF unfolder
<1>2. ASSUME Times PROVE Times'
  <2>1. /\ \A k \in ListIndices :
             IF last[k] = None THEN k \in DOMAIN trackers => trackers[k] = NewTracker
             ELSE /\ k \in DOMAIN trackers /\ TrackerIs(trackers[k], last[k], config.lists[k])
                  /\ Past(last[k].time)
        /\ last = [k \in ListIndices |-> last[k]]
        /\ \A k \in DOMAIN decoders : Begun(decoders[k], last[k], config.lists[k])
    BY <1>2 DEF Times, Tracked
  <2> QED BY <1>1, <2>1, TimesPrimed
<1>3. Misread' <=> Misread
  BY LinePrimed
<1> QED BY <1>2, <1>3 DEF TimeInv

LEMMA QuietKeepsTimes ==
  ASSUME DaqInv, TimeInv,
         \/ Setup \/ Command \/ Refused \/ Unanswered \/ MirrorFails \/ Start \/ Stop \/ Lose
         \/ UNCHANGED vars
  PROVE  TimeInv'
<1>1. DeviceInv /\ Line
  BY DEF TimeInv
<1>2. /\ config' = config /\ clock' = clock /\ UNCHANGED unfolder
      /\ line' = line \/ (line # <<>> /\ line' = Tail(line))
  BY DEF Setup, Command, Refused, Unanswered, MirrorFails, Start, Stop, Lose, vars, outside,
         processor
<1>3. Line' /\ \A t : Past(t) => Past(t)'
  BY <1>1, <1>2, LineShortened
<1>4. DeviceInv'
  <2>1. CASE Setup
    BY <1>1, <2>1, SetupKeepsDevice
  <2>2. CASE Command \/ Refused \/ Unanswered \/ MirrorFails
    BY <1>1, <2>2, CommandingKeepsDevice
  <2>3. CASE Start \/ Stop
    BY <1>1, <2>3, StartStopKeepsDevice
  <2>4. CASE Lose \/ UNCHANGED vars
    <3>1. /\ plan' = plan /\ todo' = todo /\ firstPids' = firstPids /\ phase' = phase
          /\ device' = device /\ decoders' = decoders /\ trackers' = trackers
      BY <1>2, <2>4 DEF Lose, vars, processor, unfolder, outside
    <3>2. Len(trackers') = Len(trackers) /\ (line' # <<>> => line # <<>>)
      BY <1>2, <3>1
    <3> QED BY <1>1, <1>2, <3>1, <3>2, DeviceStays
  <2> QED BY <2>1, <2>2, <2>3, <2>4
<1> QED BY <1>2, <1>3, <1>4, UnfolderStays

LEMMA SampleKeepsTimes ==
  ASSUME DaqInv, TimeInv, Sample
  PROVE  TimeInv'
<1>1. DeviceInv /\ Line /\ clock \in Nat
  BY DEF TimeInv, DaqInv
<1>2. UNCHANGED <<processor, unfolder, device>>
  BY DEF Sample
<1>3. /\ Line' /\ phase = "running" /\ clock' >= clock /\ clock' \in Nat
      /\ \A k \in 1 .. Len(line') :
           (k \in 1 .. Len(line) /\ line'[k] = line[k]) \/ line'[k].time = clock'
  BY <1>1, SampleKeepsLine
<1>4. config' = config
  BY <1>2 DEF processor
<1>5. \A t : Past(t) => Past(t)'
  <2>1. clock <= clock'
    BY <1>1, <1>3
  <2> QED BY <1>1, <1>3, <2>1, PastStays
<1>6. DeviceInv'
  <2>1. /\ plan' = plan /\ todo' = todo /\ firstPids' = firstPids /\ phase' = phase
        /\ device' = device /\ decoders' = decoders /\ trackers' = trackers
    BY <1>2 DEF processor, unfolder
  <2>2. Len(trackers') = Len(trackers) /\ phase \in {"running", "stopped"}
    BY <1>3, <2>1
  <2> QED BY <1>1, <1>4, <2>1, <2>2, DeviceStays
<1> QED BY <1>2, <1>3, <1>4, <1>5, <1>6, UnfolderStays

LEMMA SetParametersKeepsTimes ==
  ASSUME DaqInv, TimeInv, SetParameters
  PROVE  TimeInv'
<1> DEFINE n == Len(config.lists)
           c == Copies(n, NewTracker)
<1>1. /\ config' = config /\ clock' = clock /\ line' = line /\ last' = last
      /\ decoders' = [i \in ListIndices |-> NewDecoder(plan[i])]
      /\ trackers' = trackers \o c
  BY DEF SetParameters, outside
<1>2. DeviceInv /\ Line /\ config \in Configurations /\ IsSequence(trackers)
  BY DEF TimeInv, DaqInv, Trackers
<1>3. Line' /\ \A t : Past(t) => Past(t)'
  BY <1>1, <1>2, LineShortened
<1>4. DeviceInv'
  BY <1>2, SetParametersKeepsDevice
<1>5. ASSUME Times PROVE Times'
  <2>1. IsSequence(c) /\ Len(c) = n /\ \A k \in 1 .. n : c[k] = NewTracker
    <3> DEFINE x == NewTracker
    <3>1. n \in Nat
      BY <1>2, ConfigTyped
    <3> HIDE DEF x, n
    <3>2. Copies(n, x) \in Seq({x}) /\ Len(Copies(n, x)) = n
      BY <3>1, CopiesTyped
    <3>3. \A k \in 1 .. n : Copies(n, x)[k] = x
      BY <3>1 DEF Copies
    <3> QED BY <3>2, <3>3, SequenceIs DEF x
  <2> HIDE DEF c, n
  <2> DEFINE m == Len(trackers)
  <2>2. /\ IsSequence(trackers') /\ Len(trackers') = m + n /\ m \in Nat /\ n \in Nat
        /\ \A k \in 1 .. m : trackers'[k] = trackers[k]
        /\ \A k \in 1 .. n : trackers'[m + k] = c[k]
    <3> DEFINE s == trackers
               u == trackers'
    <3>1. IsSequence(s) /\ IsSequence(c) /\ u = s \o c /\ Len(c) = n /\ m = Len(s)
      BY <1>1, <1>2, <2>1
    <3> HIDE DEF s, u, m
    <3>2. IsSequence(s) /\ IsSequence(c)
      BY <3>1
    <3>3. /\ IsSequence(s \o c) /\ Len(s \o c) = Len(s) + Len(c)
          /\ Len(s) \in Nat /\ Len(c) \in Nat
          /\ \A k \in 1 .. Len(s) : (s \o c)[k] = s[k]
          /\ \A k \in 1 .. Len(c) : (s \o c)[Len(s) + k] = c[k]
      BY <3>2, JoinedIs
    <3>4. /\ IsSequence(u) /\ Len(u) = Len(s) + Len(c) /\ Len(s) \in Nat /\ Len(c) \in Nat
          /\ \A k \in 1 .. Len(s) : u[k] = s[k]
          /\ \A k \in 1 .. Len(c) : u[Len(s) + k] = c[k]
      BY <3>1, <3>3
    <3>5. /\ IsSequence(u) /\ Len(u) = m + n /\ m \in Nat /\ n \in Nat
          /\ \A k \in 1 .. m : u[k] = s[k]
          /\ \A k \in 1 .. n : u[m + k] = c[k]
      BY <3>1, <3>4
    <3> QED BY <3>5 DEF s, u
  <2>3. DOMAIN trackers = 1 .. m /\ DOMAIN trackers' = 1 .. m + n
    <3>1. trackers = [k \in 1 .. m |-> trackers[k]]
      BY <1>2 DEF IsSequence
    <3> DEFINE s == trackers'
               q == m + n
    <3>2. s = [k \in 1 .. q |-> s[k]]
      BY <2>2 DEF IsSequence
    <3> HIDE DEF m, q, s
    <3>3. DOMAIN trackers = 1 .. m /\ DOMAIN s = 1 .. q
      BY <3>1, <3>2
    <3> QED BY <3>3 DEF s, q
  <2> HIDE DEF m
  <2>4. ASSUME NEW k \in DOMAIN trackers', k \notin DOMAIN trackers
        PROVE  trackers'[k] = NewTracker
    <3>1. k - m \in 1 .. n /\ k = m + (k - m)
      BY <2>2, <2>3, <2>4
    <3> QED BY <2>1, <2>2, <3>1
  <2>5. /\ \A k \in ListIndices :
             IF last[k] = None THEN k \in DOMAIN trackers => trackers[k] = NewTracker
             ELSE /\ k \in DOMAIN trackers /\ TrackerIs(trackers[k], last[k], config.lists[k])
                  /\ Past(last[k].time)
        /\ last = [k \in ListIndices |-> last[k]]
    BY <1>5 DEF Times, Tracked
  <2>6. DOMAIN trackers \subseteq DOMAIN trackers'
        /\ \A k \in DOMAIN trackers : trackers'[k] = trackers[k]
    BY <2>2, <2>3
  <2>7. ASSUME NEW k \in ListIndices
        PROVE  IF last'[k] = None THEN k \in DOMAIN trackers' => trackers'[k] = NewTracker
               ELSE /\ k \in DOMAIN trackers' /\ TrackerIs(trackers'[k], last'[k], config.lists[k])
                    /\ Past(last'[k].time)
    <3>1. CASE last[k] = None
      BY <1>1, <2>4, <2>5, <2>6, <3>1
    <3>2. CASE last[k] # None
      BY <1>1, <2>5, <2>6, <3>2
    <3> QED BY <3>1, <3>2
  <2>8. ASSUME NEW k \in DOMAIN decoders'
        PROVE  Begun(decoders'[k], last'[k], config.lists[k])
    <3>1. decoders'[k].state = "idle"
      BY <1>1 DEF NewDecoder
    <3> QED BY <3>1 DEF Begun
  <2>9. last' = [k \in ListIndices |-> last'[k]]
    BY <1>1, <2>5
  <2> QED BY <1>1, <1>3, <2>7, <2>8, <2>9, TimesPrimed
<1>6. Misread' <=> Misread
  BY <1>1, LinePrimed
<1> QED BY <1>3, <1>4, <1>5, <1>6 DEF TimeInv

LEMMA TimesAtFirst == Init => TimeInv
<1> SUFFICES ASSUME Init PROVE TimeInv
  OBVIOUS
<1>1. /\ config \in Configurations /\ line = <<>> /\ trackers = <<>> /\ decoders = <<>>
      /\ last = [i \in ListIndices |-> None]
  BY DEF Init
<1>2. Line
  <2>1. IsSequence(line) /\ 1 .. Len(line) = {}
    BY <1>1, EmptySequence
  <2> QED BY <2>1 DEF Line, Lined
<1>3. Times
  <2>1. DOMAIN trackers = {} /\ DOMAIN decoders = {}
    BY <1>1
  <2>2. \A i \in ListIndices : last[i] = None
    BY <1>1
  <2>3. last = [i \in ListIndices |-> last[i]]
    BY <1>1
  <2> QED BY <2>1, <2>2, <2>3 DEF Times, Tracked
<1> QED BY <1>2, <1>3, DeviceAtFirst DEF TimeInv

LEMMA TimesKept ==
  ASSUME DaqInv, TimeInv, [Next]_vars
  PROVE  TimeInv'
<1>1. CASE \/ Setup \/ Command \/ Refused \/ Unanswered \/ MirrorFails \/ Start \/ Stop \/ Lose
           \/ UNCHANGED vars
  BY <1>1, QuietKeepsTimes
<1>2. CASE SetParameters
  BY <1>2, SetParametersKeepsTimes
<1>3. CASE Sample
  BY <1>3, SampleKeepsTimes
<1>4. CASE Receive \/ Duplicate
  BY <1>4, ReceivingKeepsTimes
<1> QED BY <1>1, <1>2, <1>3, <1>4 DEF Next

LEMMA TimesAreExact == DaqInv /\ TimeInv => TimesExact
<1> SUFFICES ASSUME DaqInv, TimeInv, NEW i \in DOMAIN decoders, ~Misread, last[i] # None,
                    Timestamped(config.lists[i]), last[i].close,
                    ~Fractional
             PROVE  last[i].normal = Nanoseconds(last[i].time - last[i].first)
  BY DEF TimesExact
<1>1. i \in ListIndices
  <2>1. Decoders /\ decoders # <<>>
    BY DEF DaqInv
  <2> QED BY <2>1 DEF Decoders
<1>2. TrackerIs(trackers[i], last[i], config.lists[i])
  BY <1>1 DEF TimeInv, Times, Tracked
<1> DEFINE x == last[i].time
           f == last[i].first
<1>3. x \in Nat /\ f \in Nat /\ last[i].normal = Scale * (x - f)
  BY <1>2 DEF TrackerIs, Timed
<1>4. Nanoseconds(x - f) = Scale * (x - f)
  <2>1. config \in Configurations
    BY DEF DaqInv
  <2> HIDE DEF x, f
  <2>2. x - f \in Int
    BY <1>3
  <2> QED BY <2>1, <2>2, WholeScale
<1> QED BY <1>3, <1>4

(* TimesExact of Daq, for every configuration: however often the device's  *)
(* timestamp has overflowed, whatever DTOs were lost or came twice and     *)
(* however often setup() was called, the time that normalize() returns for *)
(* a result is the time since the first one, as long as less than an       *)
(* overflow lies between two results.                                      *)
THEOREM DaqTimesExact == Spec => []TimesExact
<1>1. Init => DaqInv /\ TimeInv
  BY InitHolds, TimesAtFirst
<1>2. DaqInv /\ TimeInv /\ [Next]_vars => (DaqInv /\ TimeInv)'
  BY NextHolds, TimesKept
<1>3. DaqInv /\ TimeInv => TimesExact
  BY TimesAreExact
<1> QED BY <1>1, <1>2, <1>3, PTL DEF Spec
=============================================================================
