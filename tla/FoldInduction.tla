---------------------------- MODULE FoldInduction ----------------------------
(***************************************************************************)
(* Induction along a sequence.  FoldLeft of the community modules folds an *)
(* operator over a sequence; here the operator, and what its result is to  *)
(* have, are constants of the module.  A module that has such an operator  *)
(* INSTANCEs this one for it and so gets FoldKeeps for that operator, with *)
(* no induction theorem that takes an operator as its parameter.           *)
(***************************************************************************)
EXTENDS Integers, Sequences, SequencesExt, WellFoundedInduction, TLAPS

CONSTANTS Op(_, _),    \* the operator that is folded
          Keeps(_, _)  \* what the fold of a sequence is to have

\* The fold of a sequence.
Fold(base, seq) == FoldLeft(Op, base, seq)

\* The function that FoldLeft evaluates: the fold of the part of the sequence
\* at each set of positions.
Iterates(base, seq, n, f) ==
  f = [s \in SUBSET (1 .. n) |->
         IF s = {} THEN base ELSE Op(f[s \ {Max(s)}], seq[Max(s)])]

\* Induction over the naturals, for a set.
LEMMA NaturalSets ==
  ASSUME NEW T \in SUBSET Nat, 0 \in T, \A n \in T : n + 1 \in T
  PROVE  T = Nat
<1> DEFINE R == {ss \in Nat \X Nat : ss[1] < ss[2]}
<1> SUFFICES ASSUME Nat \ T # {} PROVE FALSE
  OBVIOUS
<1>1. IsWellFoundedOn(R, Nat)
  BY NatLessThanWellFounded DEF OpToRel
<1>2. PICK x \in Nat \ T : \A y \in Nat \ T : <<y, x>> \notin R
  <2> HIDE DEF R
  <2> QED
    BY <1>1, WFMin
<1>3. x # 0 /\ x - 1 \in Nat /\ <<x - 1, x>> \in R
  BY <1>2
<1>4. x - 1 \in T
  BY <1>2, <1>3
<1>5. (x - 1) + 1 \in T
  BY <1>4
<1> QED
  BY <1>2, <1>5

\* The last of a set of positions.
LEMMA LastPosition ==
  ASSUME NEW n \in Nat, NEW s \in SUBSET (1 .. n), s # {}
  PROVE  Max(s) \in s /\ \A y \in s : Max(s) >= y
<1> DEFINE T == {k \in Nat : \A u \in SUBSET (1 .. k) :
                               u # {} => \E x \in u : \A y \in u : x >= y}
<1>1. 0 \in T
  <2>1. 1 .. 0 = {}
    OBVIOUS
  <2> QED
    BY <2>1
<1>2. ASSUME NEW k \in T PROVE k + 1 \in T
  <2> SUFFICES ASSUME NEW u \in SUBSET (1 .. k + 1), u # {}
               PROVE  \E x \in u : \A y \in u : x >= y
    OBVIOUS
  <2>1. CASE k + 1 \in u
    BY <2>1
  <2>2. CASE k + 1 \notin u
    <3>1. u \in SUBSET (1 .. k)
      BY <2>2
    <3> QED
      BY <3>1
  <2> QED
    BY <2>1, <2>2
<1>3. n \in T
  <2> HIDE DEF T
  <2>1. T \in SUBSET Nat
    BY DEF T
  <2> QED
    BY <1>1, <1>2, <2>1, NaturalSets
<1>4. \E x \in s : \A y \in s : x >= y
  BY <1>3
<1> QED
  BY <1>4 DEF Max

\* Without its last position, a set of positions is one of a shorter sequence.
LEMMA WithoutLast ==
  ASSUME NEW k \in Nat, NEW s \in SUBSET (1 .. k + 1), s # {}
  PROVE  Max(s) \in s /\ s \ {Max(s)} \in SUBSET (1 .. k)
<1>1. Max(s) \in s /\ \A y \in s : Max(s) >= y
  BY LastPosition, k + 1 \in Nat
<1>2. ASSUME NEW y \in s, y # Max(s) PROVE y \in 1 .. k
  <2>1. y \in 1 .. k + 1 /\ Max(s) \in 1 .. k + 1 /\ Max(s) >= y
    BY <1>1
  <2> HIDE <1>1
  <2> QED
    BY <2>1, <1>2
<1> QED
  BY <1>1, <1>2

\* The first of a set of positions.
LEMMA FirstPosition ==
  ASSUME NEW s \in SUBSET Nat, s # {}
  PROVE  \E x \in s : \A y \in s : x =< y
<1> DEFINE R == {ss \in Nat \X Nat : ss[1] < ss[2]}
<1>1. IsWellFoundedOn(R, Nat)
  BY NatLessThanWellFounded DEF OpToRel
<1>2. PICK x \in s : \A y \in s : <<y, x>> \notin R
  <2> HIDE DEF R
  <2> QED
    BY <1>1, WFMin
<1>3. ASSUME NEW y \in s PROVE x =< y
  <2>1. ~(<<y, x>>[1] < <<y, x>>[2])
    BY <1>2
  <2> QED
    BY <2>1
<1> QED
  BY <1>3

\* There is such a function,
LEMMA IteratesExists ==
  ASSUME NEW base, NEW seq, NEW n \in Nat
  PROVE  \E f : Iterates(base, seq, n, f)
<1> DEFINE T == {k \in Nat : \E f : Iterates(base, seq, k, f)}
<1>1. 0 \in T
  <2>1. Iterates(base, seq, 0, [s \in SUBSET (1 .. 0) |-> base])
    BY DEF Iterates
  <2> QED
    BY <2>1
<1>2. ASSUME NEW k \in T PROVE k + 1 \in T
  <2>1. PICK f : Iterates(base, seq, k, f)
    OBVIOUS
  <2> DEFINE val(s) == IF s = {} THEN base ELSE Op(f[s \ {Max(s)}], seq[Max(s)])
             g == [s \in SUBSET (1 .. k + 1) |-> val(s)]
  <2>2. ASSUME NEW s \in SUBSET (1 .. k + 1), s # {}
        PROVE  g[s] = Op(g[s \ {Max(s)}], seq[Max(s)])
    <3> DEFINE r == s \ {Max(s)}
    <3>2. k \in Nat /\ r \in SUBSET (1 .. k)
      BY <2>2, WithoutLast
    <3>3. r \in SUBSET (1 .. k + 1)
      BY <3>2
    <3>4. f[r] = val(r)
      BY <3>2, <2>1 DEF Iterates
    <3>5. g[r] = f[r]
      BY <3>3, <3>4
    <3>6. g[s] = Op(f[r], seq[Max(s)])
      BY <2>2
    <3> QED
      BY <3>5, <3>6
  <2>3. Iterates(base, seq, k + 1, g)
    <3>1. g = [s \in SUBSET (1 .. k + 1) |->
                 IF s = {} THEN base ELSE Op(g[s \ {Max(s)}], seq[Max(s)])]
      <4>1. ASSUME NEW s \in SUBSET (1 .. k + 1)
            PROVE  g[s] = IF s = {} THEN base ELSE Op(g[s \ {Max(s)}], seq[Max(s)])
        BY <2>2
      <4> QED
        BY <4>1
    <3> QED
      BY <3>1 DEF Iterates
  <2> QED
    BY <2>3
<1> HIDE DEF T
<1>3. T \in SUBSET Nat
  BY DEF T
<1>4. n \in T
  BY <1>1, <1>2, <1>3, NaturalSets
<1> QED
  BY <1>4 DEF T

\* and only one, whatever the sequence holds behind the positions in use.
LEMMA IteratesUnique ==
  ASSUME NEW base, NEW n \in Nat, NEW m \in Nat, n <= m, NEW p, NEW q,
         \A i \in 1 .. n : p[i] = q[i],
         NEW f, NEW g, Iterates(base, p, n, f), Iterates(base, q, m, g)
  PROVE  f[1 .. n] = g[1 .. n]
<1> DEFINE T == {k \in Nat : k <= n => \A s \in SUBSET (1 .. k) : f[s] = g[s]}
<1>0. /\ \A s \in SUBSET (1 .. n) :
           f[s] = IF s = {} THEN base ELSE Op(f[s \ {Max(s)}], p[Max(s)])
      /\ \A s \in SUBSET (1 .. m) :
           g[s] = IF s = {} THEN base ELSE Op(g[s \ {Max(s)}], q[Max(s)])
  <2>1. f = [s \in SUBSET (1 .. n) |->
               IF s = {} THEN base ELSE Op(f[s \ {Max(s)}], p[Max(s)])]
    BY DEF Iterates
  <2>2. g = [s \in SUBSET (1 .. m) |->
               IF s = {} THEN base ELSE Op(g[s \ {Max(s)}], q[Max(s)])]
    BY DEF Iterates
  <2>3. ASSUME NEW s \in SUBSET (1 .. n)
        PROVE  f[s] = IF s = {} THEN base ELSE Op(f[s \ {Max(s)}], p[Max(s)])
    BY <2>1, Zenon
  <2>4. ASSUME NEW s \in SUBSET (1 .. m)
        PROVE  g[s] = IF s = {} THEN base ELSE Op(g[s \ {Max(s)}], q[Max(s)])
    BY <2>2, Zenon
  <2> QED
    BY <2>3, <2>4
<1>1. 0 \in T
  <2>1. ASSUME NEW s \in SUBSET (1 .. 0) PROVE s = {} /\ s \in SUBSET (1 .. n) /\ s \in SUBSET (1 .. m)
    OBVIOUS
  <2> QED
    BY <2>1, <1>0
<1>2. ASSUME NEW k \in T PROVE k + 1 \in T
  <2> SUFFICES ASSUME k + 1 <= n, NEW s \in SUBSET (1 .. k + 1), s # {}
               PROVE  f[s] = g[s]
    BY <1>0, <1>1
  <2> DEFINE r == s \ {Max(s)}
  <2>1. Max(s) \in s /\ r \in SUBSET (1 .. k)
    BY WithoutLast
  <2>2. s \in SUBSET (1 .. n) /\ s \in SUBSET (1 .. m)
    BY <2>1
  <2>3. f[r] = g[r]
    BY <2>1
  <2>4. p[Max(s)] = q[Max(s)]
    BY <2>1, <2>2
  <2>5. f[s] = Op(f[r], p[Max(s)]) /\ g[s] = Op(g[r], q[Max(s)])
    BY <2>2, <1>0
  <2> HIDE DEF r
  <2> QED
    BY <2>3, <2>4, <2>5
<1> HIDE DEF T
<1>3. T \in SUBSET Nat
  BY DEF T
<1>4. n \in T
  BY <1>1, <1>2, <1>3, NaturalSets
<1> QED
  BY <1>4 DEF T

\* The fold of a sequence is the value of that function at all positions.
LEMMA FoldIterates ==
  ASSUME NEW base, NEW n \in Nat, NEW seq, DOMAIN seq = 1 .. n
  PROVE  \E f : Iterates(base, seq, n, f) /\ Fold(base, seq) = f[1 .. n]
<1> DEFINE F == CHOOSE f : Iterates(base, seq, n, f)
<1>1. Iterates(base, seq, n, F)
  BY IteratesExists
<1>2. Fold(base, seq) = F[1 .. n]
  BY DEF Fold, FoldLeft, MapThenFoldSet, Iterates
<1> HIDE DEF F
<1> QED
  BY <1>1, <1>2

\* The fold of the empty sequence is the base,
LEMMA FoldEmpty == ASSUME NEW base PROVE Fold(base, <<>>) = base
<1>1. DOMAIN <<>> = 1 .. 0
  OBVIOUS
<1>2. PICK f : Iterates(base, <<>>, 0, f) /\ Fold(base, <<>>) = f[1 .. 0]
  BY <1>1, FoldIterates
<1>3. 1 .. 0 = {} /\ {} \in SUBSET (1 .. 0)
  OBVIOUS
<1> QED
  BY <1>2, <1>3 DEF Iterates

\* and one more element is folded in last.
LEMMA FoldAppend ==
  ASSUME NEW base, NEW S, NEW seq \in Seq(S), NEW x \in S
  PROVE  Fold(base, Append(seq, x)) = Op(Fold(base, seq), x)
<1> DEFINE n == Len(seq)
           q == Append(seq, x)
<1>1. /\ n \in Nat /\ DOMAIN seq = 1 .. n /\ DOMAIN q = 1 .. n + 1
      /\ q[n + 1] = x /\ \A i \in 1 .. n : seq[i] = q[i]
  OBVIOUS
<1> HIDE DEF n, q
<1>2. PICK f : Iterates(base, seq, n, f) /\ Fold(base, seq) = f[1 .. n]
  BY <1>1, FoldIterates
<1>3. PICK g : Iterates(base, q, n + 1, g) /\ Fold(base, q) = g[1 .. n + 1]
  BY <1>1, FoldIterates
<1>4. f[1 .. n] = g[1 .. n]
  BY <1>1, <1>2, <1>3, IteratesUnique
<1>5. Max(1 .. n + 1) = n + 1
  <2> DEFINE s == 1 .. n + 1
  <2>1. n + 1 \in s /\ s \in SUBSET (1 .. n + 1)
    BY <1>1
  <2>2. Max(s) \in s /\ \A y \in s : Max(s) >= y
    <3> HIDE DEF s
    <3>1. n + 1 \in Nat /\ s # {}
      BY <1>1, <2>1
    <3> QED
      BY <3>1, <2>1, LastPosition
  <2> QED
    BY <2>2, <1>1
<1>6. (1 .. n + 1) \ {n + 1} = 1 .. n /\ 1 .. n + 1 # {}
  BY SMTT(20), <1>1
<1>7. g[1 .. n + 1] = Op(g[(1 .. n + 1) \ {Max(1 .. n + 1)}], q[Max(1 .. n + 1)])
  BY <1>3, <1>6 DEF Iterates
<1> QED
  BY <1>1, <1>2, <1>3, <1>4, <1>5, <1>6, <1>7 DEF q

\* Induction along the sequence: what the base has for the empty sequence, and
\* an element more preserves, the fold of every sequence has.
LEMMA FoldKeeps ==
  ASSUME NEW base, NEW S, Keeps(<<>>, base),
         \A a : \A seq \in Seq(S), x \in S :
           Keeps(seq, a) => Keeps(Append(seq, x), Op(a, x))
  PROVE  \A seq \in Seq(S) : Keeps(seq, Fold(base, seq))
<1> DEFINE T == {n \in Nat : \A seq \in Seq(S) :
                                Len(seq) = n => Keeps(seq, Fold(base, seq))}
<1>1. 0 \in T
  <2>1. \A seq \in Seq(S) : Len(seq) = 0 => seq = <<>>
    OBVIOUS
  <2> QED
    BY <2>1, FoldEmpty
<1>2. ASSUME NEW n \in T PROVE n + 1 \in T
  <2> SUFFICES ASSUME NEW seq \in Seq(S), Len(seq) = n + 1
               PROVE  Keeps(seq, Fold(base, seq))
    OBVIOUS
  <2> DEFINE front == [i \in 1 .. n |-> seq[i]]
             x     == seq[n + 1]
  <2>1. front \in Seq(S) /\ Len(front) = n /\ x \in S /\ seq = Append(front, x)
    OBVIOUS
  <2> HIDE DEF front, x
  <2>2. Keeps(front, Fold(base, front))
    BY <2>1
  <2>3. Keeps(Append(front, x), Op(Fold(base, front), x))
    BY <2>1, <2>2
  <2> QED
    BY <2>1, <2>3, FoldAppend
<1> HIDE DEF T
<1>3. T = Nat
  <2>1. T \in SUBSET Nat
    BY DEF T
  <2> QED
    BY <1>1, <1>2, <2>1, NaturalSets
<1> QED
  BY <1>3 DEF T
=============================================================================
