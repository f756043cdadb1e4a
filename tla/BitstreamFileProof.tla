------------------------- MODULE BitstreamFileProof -------------------------
(***************************************************************************)
(* What is written to the file is read out of it, for payloads of any      *)
(* length.  The bytes that the writer puts in are those that the reader    *)
(* takes out (induction along the payload), so that there is no start code *)
(* inside a unit, and the reader stops at the units' borders.              *)
(***************************************************************************)
EXTENDS BitstreamFile, TLAPS

Byte == 0 .. 255

\* The reader along the bytes of a unit.
Whatever(seq, a) == TRUE
Reading == INSTANCE FoldInduction WITH Op <- RbspNext, Keeps <- Whatever
ReadBytes(s) == FoldLeft(RbspNext, [out |-> <<>>, zeros |-> 0, after |-> FALSE, ok |-> TRUE], s)

-----------------------------------------------------------------------------
(* The bytes of a unit.                                                    *)

\* Within the unit, no start code and no third byte but where it is put in.
NoCode(s) ==
  \A k \in 3 .. Len(s) :
    s[k - 2] = 0 /\ s[k - 1] = 0 => s[k] >= 3 /\ (s[k] = 3 /\ k < Len(s) => s[k + 1] <= 3)

\* The number of zeros at the end.
Trail(s, z) ==
  LET n == Len(s)
  IN /\ z = 0 => s[n] # 0
     /\ z = 1 => s[n] = 0 /\ s[n - 1] # 0
     /\ z = 2 => s[n] = 0 /\ s[n - 1] = 0

\* The bytes s of a unit so far are read as out, and z zeros are at their end.
ReadAs(s, out, z) ==
  /\ s \in Seq(Byte) /\ Len(s) >= 2 /\ z \in 0 .. 2
  /\ ReadBytes(s) = [out |-> out, zeros |-> z, after |-> FALSE, ok |-> TRUE]
  /\ NoCode(s) /\ Trail(s, z)
  /\ ~(Len(s) >= 3 /\ s[Len(s) - 2] = 0 /\ s[Len(s) - 1] = 0 /\ s[Len(s)] = 3)

\* What the writer has put out for seq is read as seq, behind any header.
PreventKeeps(seq, a) ==
  /\ a.out \in Seq(Byte) /\ a.zeros \in 0 .. 2
  /\ seq # <<>> => (a.zeros > 0 <=> seq[Len(seq)] = 0)
  /\ \A type \in 0 .. 63 : ReadAs(<<2 * type, 1>> \o a.out, <<2 * type, 1>> \o seq, a.zeros)

Preventing == INSTANCE FoldInduction WITH Op <- PreventNext, Keeps <- PreventKeeps

\* The reader of one byte more.
LEMMA ReadOne ==
  ASSUME NEW s \in Seq(Byte), NEW v \in Byte
  PROVE  ReadBytes(Append(s, v)) = RbspNext(ReadBytes(s), v)
<1> DEFINE R0 == [out |-> <<>>, zeros |-> 0, after |-> FALSE, ok |-> TRUE]
<1>1. \A t : ReadBytes(t) = Reading!Fold(R0, t)
  BY DEF ReadBytes, Reading!Fold, FoldLeft, Reading!FoldLeft, MapThenFoldSet,
         Reading!MapThenFoldSet, Max, Reading!Max
<1> HIDE DEF R0
<1> QED
  BY <1>1, Reading!FoldAppend

\* It takes the byte after one that was put in,
LEMMA NextAfter ==
  ASSUME NEW out, NEW v \in Byte, v <= 3
  PROVE  RbspNext([out |-> out, zeros |-> 0, after |-> TRUE, ok |-> TRUE], v)
           = [out |-> Append(out, v), zeros |-> IF v = 0 THEN 1 ELSE 0, after |-> FALSE, ok |-> TRUE]
<1>1. (TRUE /\ v <= 3) = TRUE
  OBVIOUS
<1> QED
  BY <1>1 DEF RbspNext

\* and a byte that is no third of a start code,
LEMMA NextPlain ==
  ASSUME NEW out, NEW z \in Nat, NEW v \in Byte, z >= 2 => v > 3
  PROVE  RbspNext([out |-> out, zeros |-> z, after |-> FALSE, ok |-> TRUE], v)
           = [out |-> Append(out, v), zeros |-> IF v = 0 THEN z + 1 ELSE 0, after |-> FALSE, ok |-> TRUE]
<1>1. (TRUE /\ ~(z >= 2 /\ v < 3)) = TRUE /\ ~(z = 2 /\ v = 3)
  BY DEF Byte
<1> QED
  BY <1>1 DEF RbspNext

\* and drops the one that was put in.
LEMMA NextPutIn ==
  ASSUME NEW out
  PROVE  RbspNext([out |-> out, zeros |-> 2, after |-> FALSE, ok |-> TRUE], 3)
           = [out |-> out, zeros |-> 0, after |-> TRUE, ok |-> TRUE]
  BY DEF RbspNext

\* Sequences one after the other.
LEMMA Behind ==
  ASSUME NEW p \in Seq(Byte), NEW q \in Seq(Byte), NEW x \in Byte
  PROVE  Append(p \o q, x) = p \o Append(q, x)
<1> DEFINE a == Append(p \o q, x)
           b == p \o Append(q, x)
<1>1. /\ a \in Seq(Byte) /\ b \in Seq(Byte) /\ Len(a) = Len(p) + Len(q) + 1 /\ Len(b) = Len(a)
  OBVIOUS
<1>2. ASSUME NEW i \in 1 .. Len(a) PROVE a[i] = b[i]
  <2>1. CASE i <= Len(p)
    BY <2>1, <1>1
  <2>2. CASE i > Len(p) /\ i <= Len(p) + Len(q)
    <3>1. a[i] = q[i - Len(p)] /\ i - Len(p) \in 1 .. Len(q)
      BY <2>2, <1>1
    <3>2. b[i] = Append(q, x)[i - Len(p)]
      BY <2>2, <1>1
    <3> QED
      BY <3>1, <3>2
  <2>3. CASE i = Len(p) + Len(q) + 1
    BY <2>3, <1>1
  <2> QED
    BY <2>1, <2>2, <2>3, <1>1
<1>3. DOMAIN a = 1 .. Len(a) /\ DOMAIN b = 1 .. Len(a)
  <2> HIDE DEF a, b
  <2> QED
    BY <1>1
<1>4. a = b
  <2> HIDE DEF a, b
  <2> QED
    BY <1>1, <1>2, <1>3
<1> QED
  BY <1>4

LEMMA Joined ==
  ASSUME NEW p \in Seq(Byte), NEW q \in Seq(Byte)
  PROVE  /\ p \o q \in Seq(Byte) /\ Len(p \o q) = Len(p) + Len(q)
         /\ \A k \in 1 .. Len(p) : (p \o q)[k] = p[k]
         /\ \A k \in 1 .. Len(q) : (p \o q)[Len(p) + k] = q[k]
  OBVIOUS

LEMMA Associative ==
  ASSUME NEW p \in Seq(Byte), NEW q \in Seq(Byte), NEW r \in Seq(Byte)
  PROVE  (p \o q) \o r = p \o (q \o r)
  OBVIOUS

\* One byte more in the unit.
LEMMA NoCodeAppend ==
  ASSUME NEW s \in Seq(Byte), NEW v \in Byte, Len(s) >= 2, NoCode(s),
         s[Len(s) - 1] = 0 /\ s[Len(s)] = 0 => v >= 3,
         Len(s) >= 3 /\ s[Len(s) - 2] = 0 /\ s[Len(s) - 1] = 0 /\ s[Len(s)] = 3 => v <= 3
  PROVE  NoCode(Append(s, v))
<1> DEFINE t == Append(s, v)
           n == Len(s)
<1>1. t \in Seq(Byte) /\ Len(t) = n + 1 /\ t[n + 1] = v /\ \A i \in 1 .. n : t[i] = s[i]
  OBVIOUS
<1> SUFFICES ASSUME NEW k \in 3 .. n + 1, t[k - 2] = 0, t[k - 1] = 0
             PROVE  t[k] >= 3 /\ (t[k] = 3 /\ k < n + 1 => t[k + 1] <= 3)
  BY <1>1 DEF NoCode
<1> HIDE DEF t
<1>0. n \in Nat
  OBVIOUS
<1>2. CASE k = n + 1
  <2>1. t[k - 2] = s[n - 1] /\ t[k - 1] = s[n] /\ t[k] = v
    BY <1>1, <1>2, <1>0
  <2> QED
    BY <2>1, <1>2, <1>0
<1>3. CASE k # n + 1
  <2>1. k \in 3 .. n /\ t[k - 2] = s[k - 2] /\ t[k - 1] = s[k - 1] /\ t[k] = s[k]
    BY <1>1, <1>3, <1>0, SMTT(30)
  <2>2. s[k] >= 3 /\ (s[k] = 3 /\ k < n => s[k + 1] <= 3)
    BY <2>1 DEF NoCode
  <2>3. CASE k = n
    <3>1. t[k + 1] = v
      BY <2>3, <1>1
    <3> QED
      BY <2>1, <2>2, <2>3, <3>1
  <2>4. CASE k # n
    <3>1. t[k + 1] = s[k + 1] /\ k < n
      BY <2>1, <2>4, <1>1, <1>0, SMTT(30)
    <3> QED
      BY <2>1, <2>2, <3>1
  <2> QED
    BY <2>3, <2>4
<1> QED
  BY <1>2, <1>3

\* One byte of the payload more.
LEMMA ReadAsNext ==
  ASSUME NEW s, NEW out, NEW z, ReadAs(s, out, z), NEW v \in Byte
  PROVE  LET owed == z = 2 /\ v <= 3
         IN ReadAs(s \o (IF owed THEN <<3, v>> ELSE <<v>>), Append(out, v),
                   IF v = 0 THEN (IF owed THEN 0 ELSE z) + 1 ELSE 0)
<1> DEFINE n  == Len(s)
           z2 == IF v = 0 THEN (IF z = 2 /\ v <= 3 THEN 0 ELSE z) + 1 ELSE 0
<1>1. /\ s \in Seq(Byte) /\ n >= 2 /\ n \in Nat /\ z \in 0 .. 2 /\ NoCode(s) /\ Trail(s, z)
      /\ ReadBytes(s) = [out |-> out, zeros |-> z, after |-> FALSE, ok |-> TRUE]
      /\ ~(n >= 3 /\ s[n - 2] = 0 /\ s[n - 1] = 0 /\ s[n] = 3)
      /\ s[n] \in Byte /\ s[n - 1] \in Byte
  BY DEF ReadAs
<1>2. CASE z = 2 /\ v <= 3
  <2> DEFINE t == Append(s, 3)
             u == Append(t, v)
  <2>0. 3 \in Byte
    BY DEF Byte
  <2>1. s \o <<3, v>> = u
    BY <1>1
  <2>2. /\ t \in Seq(Byte) /\ Len(t) = n + 1 /\ t[n + 1] = 3 /\ t[n] = s[n] /\ t[n - 1] = s[n - 1]
        /\ u \in Seq(Byte) /\ Len(u) = n + 2 /\ u[n + 2] = v /\ u[n + 1] = 3 /\ u[n] = s[n]
    BY <1>1 DEF Byte
  <2>3. s[n] = 0 /\ s[n - 1] = 0
    BY <1>1, <1>2 DEF Trail
  <2>4. NoCode(t)
    <3>1. 3 >= 3
      OBVIOUS
    <3> QED
      BY <1>1, <2>0, <3>1, NoCodeAppend, ZenonT(30)
  <2>5. NoCode(u)
    <3> HIDE DEF t
    <3> QED
      BY <1>1, <1>2, <2>2, <2>3, <2>4, NoCodeAppend
  <2>6. ReadBytes(t) = [out |-> out, zeros |-> 0, after |-> TRUE, ok |-> TRUE]
    <3>1. ReadBytes(t) = RbspNext(ReadBytes(s), 3)
      BY <1>1, <2>0, ReadOne
    <3>2. RbspNext([out |-> out, zeros |-> z, after |-> FALSE, ok |-> TRUE], 3)
            = [out |-> out, zeros |-> 0, after |-> TRUE, ok |-> TRUE]
      BY <1>2, NextPutIn
    <3> QED
      BY <1>1, <3>1, <3>2
  <2>7. ReadBytes(u) = [out |-> Append(out, v), zeros |-> z2, after |-> FALSE, ok |-> TRUE]
    <3>1. ReadBytes(u) = RbspNext(ReadBytes(t), v)
      BY <2>2, ReadOne
    <3>2. RbspNext([out |-> out, zeros |-> 0, after |-> TRUE, ok |-> TRUE], v)
            = [out |-> Append(out, v), zeros |-> z2, after |-> FALSE, ok |-> TRUE]
      <4>1. z2 = IF v = 0 THEN 1 ELSE 0
        BY <1>2
      <4> HIDE DEF z2
      <4> QED
        BY <1>2, <4>1, NextAfter
    <3> QED
      BY <2>6, <3>1, <3>2
  <2>8. z2 \in 0 .. 2 /\ Trail(u, z2)
    <3> HIDE DEF u
    <3> QED
      BY <1>2, <2>2 DEF Trail, Byte
  <2>9. ~(Len(u) >= 3 /\ u[Len(u) - 2] = 0 /\ u[Len(u) - 1] = 0 /\ u[Len(u)] = 3)
    <3> HIDE DEF u
    <3> QED
      BY <2>2, <1>1
  <2>10. ReadAs(u, Append(out, v), z2)
    <3> HIDE DEF u, z2
    <3> QED
      BY <1>1, <2>2, <2>5, <2>7, <2>8, <2>9 DEF ReadAs
  <2> QED
    BY <1>2, <2>1, <2>10
<1>3. CASE ~(z = 2 /\ v <= 3)
  <2> DEFINE u == Append(s, v)
  <2>1. s \o <<v>> = u
    BY <1>1
  <2>2. u \in Seq(Byte) /\ Len(u) = n + 1 /\ u[n + 1] = v /\ u[n] = s[n] /\ u[n - 1] = s[n - 1]
    BY <1>1
  <2>3. s[n - 1] = 0 /\ s[n] = 0 => v > 3
    BY <1>1, <1>3 DEF Trail, Byte
  <2>4. NoCode(u)
    <3>1. (s[n - 1] = 0 /\ s[n] = 0 => v >= 3) /\ ~(n >= 3 /\ s[n - 2] = 0 /\ s[n - 1] = 0 /\ s[n] = 3)
      BY <1>1, <2>3 DEF Byte
    <3> QED
      BY <1>1, <3>1, NoCodeAppend
  <2>5. ReadBytes(u) = [out |-> Append(out, v), zeros |-> z2, after |-> FALSE, ok |-> TRUE]
    <3>1. ReadBytes(u) = RbspNext(ReadBytes(s), v)
      BY <1>1, ReadOne
    <3>2. RbspNext([out |-> out, zeros |-> z, after |-> FALSE, ok |-> TRUE], v)
            = [out |-> Append(out, v), zeros |-> z2, after |-> FALSE, ok |-> TRUE]
      <4>1. (z >= 2 => v > 3) /\ z \in Nat /\ z2 = IF v = 0 THEN z + 1 ELSE 0
        BY <1>1, <1>3 DEF Byte
      <4> HIDE DEF z2
      <4> QED
        BY <4>1, NextPlain
    <3> QED
      BY <1>1, <3>1, <3>2
  <2>6. z2 \in 0 .. 2 /\ Trail(u, z2)
    <3> HIDE DEF u
    <3> QED
      BY <1>1, <1>3, <2>2 DEF Trail, Byte
  <2>7. ~(Len(u) >= 3 /\ u[Len(u) - 2] = 0 /\ u[Len(u) - 1] = 0 /\ u[Len(u)] = 3)
    <3> HIDE DEF u
    <3> QED
      BY <1>1, <2>2, <2>3 DEF Byte
  <2>8. ReadAs(u, Append(out, v), z2)
    <3> HIDE DEF u, z2
    <3> QED
      BY <1>1, <2>2, <2>4, <2>5, <2>6, <2>7 DEF ReadAs
  <2> QED
    BY <1>3, <2>1, <2>8
<1> QED
  BY <1>2, <1>3

\* A whole payload: no byte is owed at its end.
LEMMA PreventedOK ==
  ASSUME NEW rbsp, Payload(rbsp), NEW type \in 0 .. 63
  PROVE  /\ Prevented(rbsp) \in Seq(Byte)
         /\ ReadAs(<<2 * type, 1>> \o Prevented(rbsp), <<2 * type, 1>> \o rbsp, 0)
<1> DEFINE a0 == [out |-> <<>>, zeros |-> 0]
           all == Preventing!Fold(a0, rbsp)
<1>1. rbsp \in Seq(Byte) /\ rbsp # <<>> /\ rbsp[Len(rbsp)] # 0
  BY DEF Payload, Byte, Last
<1>2. PreventKeeps(<<>>, a0)
  <2> SUFFICES ASSUME NEW t \in 0 .. 63
               PROVE  ReadAs(<<2 * t, 1>> \o <<>>, <<2 * t, 1>> \o <<>>, 0)
    BY DEF PreventKeeps
  <2> DEFINE h == <<2 * t, 1>>
  <2>1. h \in Seq(Byte) /\ Len(h) = 2 /\ h[1] = 2 * t /\ h[2] = 1 /\ h \o <<>> = h
    BY DEF Byte
  <2>2. ReadBytes(h) = [out |-> h, zeros |-> 0, after |-> FALSE, ok |-> TRUE]
    <3> DEFINE z == IF 2 * t = 0 THEN 1 ELSE 0
    <3>1. <<2 * t>> = Append(<<>>, 2 * t) /\ h = Append(<<2 * t>>, 1) /\ <<>> \in Seq(Byte)
          /\ <<2 * t>> \in Seq(Byte) /\ 2 * t \in Byte /\ 1 \in Byte
      BY DEF Byte
    <3>2. ReadBytes(<<>>) = [out |-> <<>>, zeros |-> 0, after |-> FALSE, ok |-> TRUE]
      BY Reading!FoldEmpty DEF ReadBytes, Reading!Fold, FoldLeft, Reading!FoldLeft, MapThenFoldSet,
         Reading!MapThenFoldSet, Max, Reading!Max
    <3>3. ReadBytes(<<2 * t>>) = RbspNext(ReadBytes(<<>>), 2 * t)
      BY <3>1, ReadOne
    <3>4. RbspNext([out |-> <<>>, zeros |-> 0, after |-> FALSE, ok |-> TRUE], 2 * t)
            = [out |-> <<2 * t>>, zeros |-> z, after |-> FALSE, ok |-> TRUE]
      <4>1. RbspNext([out |-> <<>>, zeros |-> 0, after |-> FALSE, ok |-> TRUE], 2 * t)
              = [out |-> Append(<<>>, 2 * t), zeros |-> IF 2 * t = 0 THEN 0 + 1 ELSE 0, after |-> FALSE, ok |-> TRUE]
        <5>1. 0 \in Nat /\ ~(0 >= 2)
          OBVIOUS
        <5> QED
          BY <3>1, <5>1, NextPlain, Zenon
      <4> QED
        BY <3>1, <4>1
    <3>5. ReadBytes(h) = RbspNext(ReadBytes(<<2 * t>>), 1)
      BY <3>1, ReadOne
    <3>6. RbspNext([out |-> <<2 * t>>, zeros |-> z, after |-> FALSE, ok |-> TRUE], 1)
            = [out |-> h, zeros |-> 0, after |-> FALSE, ok |-> TRUE]
      <4>1. z \in Nat /\ ~(z >= 2)
        OBVIOUS
      <4> HIDE DEF z, h
      <4>2. RbspNext([out |-> <<2 * t>>, zeros |-> z, after |-> FALSE, ok |-> TRUE], 1)
              = [out |-> Append(<<2 * t>>, 1), zeros |-> IF 1 = 0 THEN z + 1 ELSE 0, after |-> FALSE, ok |-> TRUE]
        BY <4>1, <3>1, NextPlain
      <4> QED
        BY <3>1, <4>2
    <3> QED
      BY <3>2, <3>3, <3>4, <3>5, <3>6
  <2>3. NoCode(h) /\ Trail(h, 0) /\ ~(Len(h) >= 3)
    BY <2>1 DEF NoCode, Trail
  <2>4. ReadAs(h, h, 0)
    <3> HIDE DEF h
    <3> QED
      BY <2>1, <2>2, <2>3 DEF ReadAs
  <2> QED
    BY <2>1, <2>4
<1>3. ASSUME NEW seq \in Seq(Byte), NEW v \in Byte, NEW a, PreventKeeps(seq, a)
      PROVE  PreventKeeps(Append(seq, v), PreventNext(a, v))
  <2> DEFINE owed == a.zeros = 2 /\ v <= 3
             add == IF owed THEN <<3, v>> ELSE <<v>>
             z == IF v = 0 THEN (IF owed THEN 0 ELSE a.zeros) + 1 ELSE 0
             b == PreventNext(a, v)
  <2>1. b.out = a.out \o add /\ b.zeros = z
    BY DEF PreventNext, emulation_prevention_three_byte
  <2>2. /\ a.out \in Seq(Byte) /\ a.zeros \in 0 .. 2
        /\ \A t \in 0 .. 63 : ReadAs(<<2 * t, 1>> \o a.out, <<2 * t, 1>> \o seq, a.zeros)
    BY <1>3 DEF PreventKeeps
  <2>3. add \in Seq(Byte) /\ a.out \o add \in Seq(Byte)
    <3>1. 3 \in Byte /\ <<3, v>> \in Seq(Byte) /\ <<v>> \in Seq(Byte)
      BY DEF Byte
    <3>2. add \in Seq(Byte)
      BY <3>1
    <3> HIDE DEF add
    <3> QED
      BY <2>2, <3>2
  <2>4. z \in 0 .. 2 /\ (z > 0 <=> v = 0)
    <3>1. CASE owed
      BY <3>1 DEF Byte
    <3>2. CASE ~owed /\ v = 0
      <4>1. v <= 3 /\ ~owed
        BY <3>2
      <4>2. a.zeros # 2
        BY <4>1
      <4>3. z = a.zeros + 1
        BY <3>2
      <4>4. a.zeros \in 0 .. 1
        <5>1. \A y : y \in 0 .. 2 /\ y # 2 => y \in 0 .. 1
          OBVIOUS
        <5> QED
          BY <2>2, <4>2, <5>1, Zenon
      <4> HIDE DEF z
      <4> QED
        BY <3>2, <4>3, <4>4
    <3>3. CASE v # 0
      BY <3>3
    <3> QED
      BY <3>1, <3>2, <3>3
  <2>5. Append(seq, v)[Len(Append(seq, v))] = v
    OBVIOUS
  <2>6. ASSUME NEW t \in 0 .. 63
        PROVE  ReadAs(<<2 * t, 1>> \o (a.out \o add), <<2 * t, 1>> \o Append(seq, v), z)
    <3> DEFINE h == <<2 * t, 1>>
    <3>1. ReadAs(h \o a.out, h \o seq, a.zeros)
      BY <2>2
    <3>2. ReadAs((h \o a.out) \o add, Append(h \o seq, v), z)
      <4> HIDE DEF h
      <4> QED
        BY <3>1, ReadAsNext
    <3>3. h \in Seq(Byte)
      BY DEF Byte
    <3>4. (h \o a.out) \o add = h \o (a.out \o add) /\ Append(h \o seq, v) = h \o Append(seq, v)
      <4> HIDE DEF h, add
      <4>1. (h \o a.out) \o add = h \o (a.out \o add)
        BY <2>2, <2>3, <3>3, Associative
      <4>2. Append(h \o seq, v) = h \o Append(seq, v)
        BY <3>3, Behind
      <4> QED
        BY <4>1, <4>2
    <3> QED
      BY <3>2, <3>4
  <2>7. PreventKeeps(Append(seq, v), b)
    <3> HIDE DEF b, add, z, owed
    <3> QED
      BY <2>1, <2>3, <2>4, <2>5, <2>6 DEF PreventKeeps
  <2> QED
    BY <2>7
<1>4. PreventKeeps(rbsp, all)
  <2> HIDE DEF a0
  <2>1. \A seq \in Seq(Byte) : PreventKeeps(seq, Preventing!Fold(a0, seq))
    BY <1>2, <1>3, Preventing!FoldKeeps
  <2> QED
    BY <1>1, <2>1
<1>5. FoldLeft(PreventNext, a0, rbsp) = all
  BY DEF Preventing!Fold, FoldLeft, Preventing!FoldLeft, MapThenFoldSet,
         Preventing!MapThenFoldSet, Max, Preventing!Max
<1> HIDE DEF all
<1>6. all.zeros = 0 /\ all.out \in Seq(Byte)
  <2>1. all.zeros \in 0 .. 2 /\ all.out \in Seq(Byte) /\ (all.zeros > 0 <=> rbsp[Len(rbsp)] = 0)
    BY <1>1, <1>4 DEF PreventKeeps
  <2> QED
    BY <1>1, <2>1
<1>7. Prevented(rbsp) = all.out
  <2>1. Prevented(rbsp) = all.out \o (IF all.zeros > 0 THEN <<3>> ELSE <<>>)
    BY <1>5 DEF Prevented, emulation_prevention_three_byte
  <2>2. Prevented(rbsp) = all.out \o <<>>
    BY <2>1, <1>6
  <2> QED
    BY <2>2, <1>6
<1> QED
  BY <1>4, <1>6, <1>7 DEF PreventKeeps

-----------------------------------------------------------------------------
(* The words of zeros behind it.                                           *)

\* The words s of two zeros and a third byte are read as zeros.
Padded(s, out, w) ==
  /\ s \in Seq(Byte) /\ Len(s) >= 2 /\ s[Len(s)] # 0 /\ NoCode(s)
  /\ ReadBytes(s) = [out |-> out \o [i \in 1 .. 2 * w |-> 0], zeros |-> 0, after |-> w > 0, ok |-> TRUE]

LEMMA PaddedNext ==
  ASSUME NEW s, NEW out \in Seq(Byte), NEW w \in Nat, Padded(s, out, w)
  PROVE  Padded(Append(Append(Append(s, 0), 0), 3), out, w + 1)
<1> DEFINE n == Len(s)
           a == Append(s, 0)
           b == Append(a, 0)
           c == Append(b, 3)
           o == out \o [i \in 1 .. 2 * w |-> 0]
           p == Append(Append(o, 0), 0)
<1>1. s \in Seq(Byte) /\ n \in Nat /\ n >= 2 /\ s[n] # 0 /\ NoCode(s)
      /\ ReadBytes(s) = [out |-> o, zeros |-> 0, after |-> w > 0, ok |-> TRUE] /\ s[n] \in Byte
  BY DEF Padded
<1>0. 0 \in Byte /\ 3 \in Byte
  BY DEF Byte
<1>2. a \in Seq(Byte) /\ Len(a) = n + 1 /\ a[n + 1] = 0 /\ a[n] = s[n]
  BY <1>0, <1>1
<1>3. b \in Seq(Byte) /\ Len(b) = n + 2 /\ b[n + 2] = 0 /\ b[n + 1] = 0 /\ b[n] = s[n]
  <2> HIDE DEF a
  <2> QED
    BY <1>0, <1>1, <1>2
<1>4. c \in Seq(Byte) /\ Len(c) = n + 3 /\ c[n + 3] = 3
  <2> HIDE DEF b
  <2> QED
    BY <1>0, <1>1, <1>3
<1>5. NoCode(a)
  BY <1>0, <1>1, NoCodeAppend
<1>6. NoCode(b)
  <2> HIDE DEF a
  <2>1. ~(a[Len(a) - 1] = 0 /\ a[Len(a)] = 0) /\ a[Len(a)] # 3
    BY <1>1, <1>2
  <2>2. Len(a) >= 2
    BY <1>1, <1>2
  <2> QED
    BY <1>0, <1>2, <1>5, <2>1, <2>2, NoCodeAppend, Zenon
<1>7. NoCode(c)
  <2> HIDE DEF b
  <2>1. b[Len(b)] # 3 /\ 3 >= 3
    BY <1>1, <1>3
  <2>2. Len(b) >= 2
    BY <1>1, <1>3
  <2> QED
    BY <1>0, <1>3, <1>6, <2>1, <2>2, NoCodeAppend, Zenon
<1>8. o \in Seq(Byte) /\ Len(o) = Len(out) + 2 * w /\ Append(o, 0) \in Seq(Byte)
  <2>1. [i \in 1 .. 2 * w |-> 0] \in Seq(Byte) /\ Len([i \in 1 .. 2 * w |-> 0]) = 2 * w
    BY DEF Byte
  <2> QED
    BY <2>1, <1>0
<1>9. ReadBytes(a) = [out |-> Append(o, 0), zeros |-> 1, after |-> FALSE, ok |-> TRUE]
  <2>1. ReadBytes(a) = RbspNext(ReadBytes(s), 0)
    BY <1>0, <1>1, ReadOne
  <2> HIDE DEF o
  <2>2. CASE w > 0
    <3>1. (w > 0) = TRUE
      BY <2>2
    <3>2. RbspNext([out |-> o, zeros |-> 0, after |-> TRUE, ok |-> TRUE], 0)
            = [out |-> Append(o, 0), zeros |-> 1, after |-> FALSE, ok |-> TRUE]
      BY <1>0, NextAfter
    <3> QED
      BY <1>1, <2>1, <3>1, <3>2
  <2>3. CASE ~(w > 0)
    <3>1. (w > 0) = FALSE
      BY <2>3
    <3>2. RbspNext([out |-> o, zeros |-> 0, after |-> FALSE, ok |-> TRUE], 0)
            = [out |-> Append(o, 0), zeros |-> 1, after |-> FALSE, ok |-> TRUE]
      BY <1>0, NextPlain
    <3> QED
      BY <1>1, <2>1, <3>1, <3>2
  <2> QED
    BY <2>2, <2>3
<1>10. ReadBytes(b) = [out |-> p, zeros |-> 2, after |-> FALSE, ok |-> TRUE]
  <2>1. ReadBytes(b) = RbspNext(ReadBytes(a), 0)
    BY <1>0, <1>2, ReadOne
  <2> HIDE DEF o
  <2>2. RbspNext([out |-> Append(o, 0), zeros |-> 1, after |-> FALSE, ok |-> TRUE], 0)
            = [out |-> p, zeros |-> 2, after |-> FALSE, ok |-> TRUE]
    <3>1. RbspNext([out |-> Append(o, 0), zeros |-> 1, after |-> FALSE, ok |-> TRUE], 0)
            = [out |-> Append(Append(o, 0), 0), zeros |-> IF 0 = 0 THEN 1 + 1 ELSE 0, after |-> FALSE, ok |-> TRUE]
      <4>1. 1 \in Nat /\ ~(1 >= 2)
        OBVIOUS
      <4> QED
        BY <1>0, <4>1, NextPlain, Zenon
    <3> QED
      BY <3>1 DEF p
  <2> QED
    BY <1>9, <2>1, <2>2
<1>11. ReadBytes(c) = [out |-> p, zeros |-> 0, after |-> TRUE, ok |-> TRUE]
  <2>1. ReadBytes(c) = RbspNext(ReadBytes(b), 3)
    BY <1>0, <1>3, ReadOne
  <2> HIDE DEF o, p
  <2>2. RbspNext([out |-> p, zeros |-> 2, after |-> FALSE, ok |-> TRUE], 3)
            = [out |-> p, zeros |-> 0, after |-> TRUE, ok |-> TRUE]
    BY NextPutIn
  <2> QED
    BY <1>10, <2>1, <2>2
<1>12. p = out \o [i \in 1 .. 2 * (w + 1) |-> 0]
  <2> DEFINE zs == [i \in 1 .. 2 * w |-> 0]
             zt == [i \in 1 .. 2 * (w + 1) |-> 0]
  <2>1. zs \in Seq(Byte) /\ zt \in Seq(Byte) /\ zt = Append(Append(zs, 0), 0)
    <3>1. zs \in Seq(Byte) /\ Len(zs) = 2 * w /\ zt \in Seq(Byte) /\ Len(zt) = 2 * w + 2
      BY DEF Byte
    <3>2. Append(Append(zs, 0), 0) \in Seq(Byte) /\ Len(Append(Append(zs, 0), 0)) = 2 * w + 2
      BY <3>1, <1>0
    <3>3. ASSUME NEW i \in 1 .. 2 * w + 2 PROVE zt[i] = Append(Append(zs, 0), 0)[i]
      BY <3>1
    <3> QED
      <4> HIDE DEF zs, zt
      <4> QED
        BY <3>1, <3>2, <3>3
  <2> HIDE DEF zs, zt
  <2>0. zs \in Seq(Byte) /\ Append(zs, 0) \in Seq(Byte)
    BY <2>1, <1>0
  <2>2. Append(Append(out \o zs, 0), 0) = out \o Append(Append(zs, 0), 0)
    <3>1. Append(out \o zs, 0) = out \o Append(zs, 0)
      BY <2>0, <1>0, Behind
    <3>2. Append(out \o Append(zs, 0), 0) = out \o Append(Append(zs, 0), 0)
      BY <2>0, <1>0, Behind
    <3> QED
      BY <3>1, <3>2
  <2> QED
    BY <2>1, <2>2 DEF zs, zt
<1>13. (w + 1 > 0) = TRUE
  OBVIOUS
<1>14. Padded(c, out, w + 1)
  <2> DEFINE r == out \o [i \in 1 .. 2 * (w + 1) |-> 0]
  <2>1. ReadBytes(c) = [out |-> r, zeros |-> 0, after |-> w + 1 > 0, ok |-> TRUE]
    <3> HIDE DEF c, p, r
    <3>1. ReadBytes(c) = [out |-> r, zeros |-> 0, after |-> TRUE, ok |-> TRUE]
      BY <1>11, <1>12 DEF r
    <3> QED
      BY <1>13, <3>1
  <2>2. Len(c) >= 2 /\ c[Len(c)] # 0
    <3> HIDE DEF c
    <3> QED
      BY <1>1, <1>4
  <2> HIDE DEF c, p
  <2> QED
    BY <1>4, <1>7, <2>1, <2>2 DEF Padded
<1> QED
  BY <1>14

LEMMA PaddingOK ==
  ASSUME NEW s, NEW out \in Seq(Byte), ReadAs(s, out, 0), NEW words \in Nat
  PROVE  Padded(s \o cabac_zero_word_padding(words), out, words)
<1> DEFINE T == {w \in Nat : Padded(s \o cabac_zero_word_padding(w), out, w)}
<1>1. s \in Seq(Byte) /\ Len(s) >= 2 /\ s[Len(s)] # 0 /\ NoCode(s)
      /\ ReadBytes(s) = [out |-> out, zeros |-> 0, after |-> FALSE, ok |-> TRUE]
  BY DEF ReadAs, Trail
<1>2. 0 \in T
  <2>1. cabac_zero_word_padding(0) = <<>>
    BY DEF cabac_zero_word_padding
  <2>2. s \o <<>> = s /\ out \o [i \in 1 .. 2 * 0 |-> 0] = out /\ (0 > 0) = FALSE
    BY <1>1
  <2>3. Padded(s, out, 0)
    BY <1>1, <2>2 DEF Padded
  <2> QED
    BY <2>1, <2>2, <2>3
<1>3. ASSUME NEW w \in T PROVE w + 1 \in T
  <2> DEFINE a == cabac_zero_word_padding(w)
             b == cabac_zero_word_padding(w + 1)
             c == Append(Append(Append(a, 0), 0), 3)
  <2>1. a \in Seq(Byte) /\ b \in Seq(Byte) /\ Len(a) = 3 * w /\ Len(b) = 3 * w + 3
    BY DEF cabac_zero_word_padding, Byte
  <2>2. c \in Seq(Byte) /\ Len(c) = 3 * w + 3 /\ c[3 * w + 1] = 0 /\ c[3 * w + 2] = 0 /\ c[3 * w + 3] = 3
        /\ \A i \in 1 .. 3 * w : c[i] = a[i]
    <3> HIDE DEF a
    <3> QED
      BY <2>1 DEF Byte
  <2>3. b = c
    <3>1. ASSUME NEW i \in 1 .. 3 * w + 3 PROVE b[i] = c[i]
      <4>1. b[i] = IF i % 3 = 0 THEN 3 ELSE 0
        BY DEF cabac_zero_word_padding
      <4>2. CASE i <= 3 * w
        <5>1. a[i] = IF i % 3 = 0 THEN 3 ELSE 0
          BY <4>2 DEF cabac_zero_word_padding
        <5> QED
          BY <2>2, <4>1, <4>2, <5>1
      <4>3. CASE i > 3 * w
        <5>1. (3 * w + 1) % 3 # 0 /\ (3 * w + 2) % 3 # 0 /\ (3 * w + 3) % 3 = 0
          OBVIOUS
        <5>2. i = 3 * w + 1 \/ i = 3 * w + 2 \/ i = 3 * w + 3
          BY <4>3
        <5> HIDE DEF b, c
        <5> QED
          BY <2>2, <4>1, <5>1, <5>2
      <4>4. i <= 3 * w \/ i > 3 * w
        OBVIOUS
      <4> QED
        BY <4>2, <4>3, <4>4
    <3>2. DOMAIN b = 1 .. 3 * w + 3 /\ DOMAIN c = 1 .. 3 * w + 3
      <4> HIDE DEF b, c
      <4> QED
        BY <2>1, <2>2
    <3> HIDE DEF b, c
    <3> QED
      BY <2>1, <2>2, <3>1, <3>2
  <2>4. s \o c = Append(Append(Append(s \o a, 0), 0), 3)
    <3> HIDE DEF a
    <3>0. 0 \in Byte /\ 3 \in Byte /\ Append(a, 0) \in Seq(Byte) /\ Append(Append(a, 0), 0) \in Seq(Byte)
      BY <2>1 DEF Byte
    <3>1. Append(s \o a, 0) = s \o Append(a, 0)
      BY <1>1, <2>1, <3>0, Behind
    <3>2. Append(s \o Append(a, 0), 0) = s \o Append(Append(a, 0), 0)
      BY <1>1, <3>0, Behind
    <3>3. Append(s \o Append(Append(a, 0), 0), 3) = s \o c
      BY <1>1, <3>0, Behind
    <3> QED
      BY <3>1, <3>2, <3>3
  <2>5. Padded(s \o a, out, w)
    OBVIOUS
  <2>6. Padded(s \o c, out, w + 1)
    <3> HIDE DEF a, c
    <3> QED
      BY <2>4, <2>5, PaddedNext
  <2>7. Padded(s \o b, out, w + 1)
    BY <2>3, <2>6
  <2> QED
    BY <2>7
<1> HIDE DEF T
<1>4. T = Nat
  <2>1. T \in SUBSET Nat
    BY DEF T
  <2> QED
    BY <1>2, <1>3, <2>1, Reading!NaturalSets
<1> QED
  BY <1>4 DEF T

-----------------------------------------------------------------------------
(* A unit in the file.                                                     *)

Unit(u) ==
  /\ u.type \in 0 .. 63 /\ Payload(u.rbsp)
  /\ u.words \in Nat /\ (u.words > 0 => IsVcl(u.type))

\* The zero words are taken off again.
LEMMA ZerosOff ==
  ASSUME NEW s \in Seq(Byte), s # <<>>, s[Len(s)] # 0, NEW w \in Nat
  PROVE  WithoutZeroWords(s \o [i \in 1 .. 2 * w |-> 0]) = s
<1> DEFINE zs == [i \in 1 .. 2 * w |-> 0]
           t == s \o zs
           n == Len(s)
           used == {i \in DOMAIN t : t[i] # 0}
           last == CHOOSE i \in used : \A j \in used : j <= i
<1>0. zs \in Seq(Byte) /\ Len(zs) = 2 * w /\ \A i \in 1 .. 2 * w : zs[i] = 0
  BY DEF Byte
<1>1. /\ t \in Seq(Byte) /\ Len(t) = n + 2 * w /\ n \in Nat /\ n >= 1
      /\ \A i \in 1 .. n : t[i] = s[i]
      /\ \A i \in n + 1 .. n + 2 * w : t[i] = 0
  <2> HIDE DEF zs
  <2>1. t \in Seq(Byte) /\ Len(t) = n + 2 * w /\ n \in Nat /\ n >= 1
        /\ \A i \in 1 .. n : t[i] = s[i]
    BY <1>0
  <2>2. ASSUME NEW i \in n + 1 .. n + 2 * w PROVE t[i] = 0
    <3>1. t[i] = zs[i - n] /\ i - n \in 1 .. 2 * w
      BY <1>0, <2>1
    <3> QED
      BY <1>0, <3>1
  <2> QED
    BY <2>1, <2>2
<1> HIDE DEF t
<1>2. n \in used /\ \A j \in used : j <= n
  BY <1>1
<1>3. last = n
  <2>1. last \in used /\ \A j \in used : j <= last
    BY <1>2
  <2> HIDE DEF last
  <2>2. last \in 1 .. n + 2 * w
    BY <1>1, <2>1
  <2>3. n <= last /\ last <= n
    BY <1>2, <2>1
  <2> QED
    BY <1>1, <2>2, <2>3
<1>4. WithoutZeroWords(t) = SubSeq(t, 1, n)
  <2>1. used # {}
    BY <1>2
  <2> HIDE DEF last
  <2> QED
    BY <1>3, <2>1 DEF WithoutZeroWords, last
<1>5. SubSeq(t, 1, n) = s
  BY <1>1
<1> QED
  BY <1>4, <1>5 DEF t

\* A unit has no start code inside, and is read as it was written.
LEMMA UnitOK ==
  ASSUME NEW u, Unit(u)
  PROVE  /\ NalUnitData(u) \in Seq(Byte) /\ Len(NalUnitData(u)) >= 2
         /\ NalUnitData(u)[Len(NalUnitData(u))] # 0
         /\ NoCode(NalUnitData(u))
         /\ ReadNal(NalUnitData(u)) = [type |-> u.type, rbsp |-> u.rbsp, ok |-> TRUE]
<1> DEFINE h == <<2 * u.type, 1>>
           s == h \o Prevented(u.rbsp)
           o == h \o u.rbsp
           w == u.words
           data == s \o cabac_zero_word_padding(w)
           zs == [i \in 1 .. 2 * w |-> 0]
<1>1. u.type \in 0 .. 63 /\ Payload(u.rbsp) /\ w \in Nat /\ (w > 0 => IsVcl(u.type))
  BY DEF Unit
<1>2. h \in Seq(Byte) /\ u.rbsp \in Seq(Byte) /\ u.rbsp # <<>> /\ u.rbsp[Len(u.rbsp)] # 0
  <2>1. 2 * u.type \in Byte /\ 1 \in Byte
    BY <1>1 DEF Byte
  <2>2. u.rbsp \in Seq(Byte) /\ u.rbsp # <<>> /\ u.rbsp[Len(u.rbsp)] # 0
    BY <1>1 DEF Payload, Byte, Last
  <2> QED
    BY <2>1, <2>2
<1>3. Prevented(u.rbsp) \in Seq(Byte) /\ ReadAs(s, o, 0)
  BY <1>1, PreventedOK
<1>4. o \in Seq(Byte) /\ Len(o) = Len(u.rbsp) + 2 /\ o # <<>> /\ o[Len(o)] # 0 /\ o[1] = 2 * u.type
      /\ SubSeq(o, 3, Len(o)) = u.rbsp
  BY <1>2
<1>5. NalUnitData(u) = data
  BY DEF NalUnitData, writeNalUnitHeader
<1>6. Padded(data, o, w)
  <2> HIDE DEF s, o, w
  <2> QED
    BY <1>1, <1>3, <1>4, PaddingOK
<1>7. data \in Seq(Byte) /\ Len(data) >= 2 /\ data[Len(data)] # 0 /\ NoCode(data)
      /\ ReadBytes(data) = [out |-> o \o zs, zeros |-> 0, after |-> w > 0, ok |-> TRUE]
  BY <1>6 DEF Padded
<1>8. data[1] = 2 * u.type
  <2>1. s \in Seq(Byte) /\ Len(s) >= 2 /\ s[1] = 2 * u.type
    BY <1>2, <1>3 DEF ReadAs
  <2>2. cabac_zero_word_padding(w) \in Seq(Byte)
    <3> HIDE DEF w
    <3>1. 3 * w \in Nat /\ 0 \in Byte /\ 3 \in Byte
      BY <1>1 DEF Byte
    <3> QED
      BY <3>1 DEF cabac_zero_word_padding
  <2> HIDE DEF s
  <2> QED
    BY <2>1, <2>2
<1>9. data[1] \div 2 = u.type
  <2> HIDE DEF data
  <2>1. \A t \in 0 .. 63 : (2 * t) \div 2 = t
    OBVIOUS
  <2> QED
    BY <1>1, <1>8, <2>1, Zenon
<1>10. convertPayloadToRBSP(data) = [out |-> o \o zs, ok |-> TRUE]
  <2> HIDE DEF data, o, zs
  <2>1. convertPayloadToRBSP(data) = [out |-> ReadBytes(data).out, ok |-> ReadBytes(data).ok /\ ReadBytes(data).zeros = 0]
    BY DEF convertPayloadToRBSP, ReadBytes
  <2>2. ReadBytes(data).out = o \o zs /\ (ReadBytes(data).ok /\ ReadBytes(data).zeros = 0) = TRUE
    BY <1>7
  <2> QED
    BY <2>1, <2>2
<1>11. (IF IsVcl(u.type) THEN WithoutZeroWords(o \o zs) ELSE o \o zs) = o
  <2>1. CASE IsVcl(u.type)
    <3> HIDE DEF o, w
    <3>1. WithoutZeroWords(o \o zs) = o
      BY <1>1, <1>4, ZerosOff
    <3> QED
      BY <2>1, <3>1
  <2>2. CASE ~IsVcl(u.type)
    <3>1. w = 0
      BY <1>1, <2>2
    <3>2. zs = <<>>
      BY <3>1
    <3> HIDE DEF o, zs
    <3> QED
      BY <1>4, <2>2, <3>2
  <2> QED
    BY <2>1, <2>2
<1>12. ReadNal(data) = [type |-> u.type, rbsp |-> u.rbsp, ok |-> TRUE]
  <2> DEFINE c == convertPayloadToRBSP(data)
             bytes == IF IsVcl(data[1] \div 2) THEN WithoutZeroWords(c.out) ELSE c.out
  <2> HIDE DEF data, o, zs
  <2>1. c.out = o \o zs /\ c.ok = TRUE
    BY <1>10
  <2>2. ReadNal(data) = [type |-> data[1] \div 2, rbsp |-> SubSeq(bytes, 3, Len(bytes)), ok |-> c.ok]
    BY DEF ReadNal
  <2>3. bytes = o
    <3> HIDE DEF c
    <3> QED
      BY <1>9, <1>11, <2>1
  <2> HIDE DEF bytes, c
  <2> QED
    BY <1>4, <1>9, <2>1, <2>2, <2>3
<1> HIDE DEF data
<1> QED
  BY <1>5, <1>7, <1>12

-----------------------------------------------------------------------------
(* The units in the file.                                                  *)

\* The bytes from a to b of the file are the unit u and its start code.
UnitAt(f, a, b, u, first) ==
  LET c == StartCode(u, first)
      data == NalUnitData(u)
  IN /\ a \in Nat /\ b = a + Len(c) + Len(data) /\ b <= Len(f)
     /\ \A k \in 1 .. Len(c) : f[a + k] = c[k]
     /\ \A k \in 1 .. Len(data) : f[a + Len(c) + k] = data[k]

\* One unit begins where the one before it ends.
Layout(units, f, starts) ==
  /\ starts \in [1 .. Len(units) + 1 -> Nat] /\ starts[1] = 0 /\ starts[Len(units) + 1] = Len(f)
  /\ \A j \in 1 .. Len(units) : UnitAt(f, starts[j], starts[j + 1], units[j], j = 1)

AreUnits(units) == \E S : units \in Seq(S) /\ \A u \in S : Unit(u)

FilingKeeps(units, f) ==
  AreUnits(units) =>
    f \in Seq(Byte) /\ (f = <<>> <=> units = <<>>) /\ \E starts : Layout(units, f, starts)

Filing == INSTANCE FoldInduction WITH Op <- WriteUnit, Keeps <- FilingKeeps

LEMMA StartCodeOK ==
  ASSUME NEW u, NEW first \in BOOLEAN
  PROVE  LET c == StartCode(u, first)
         IN /\ c \in Seq(Byte) /\ Len(c) \in {3, 4} /\ (first => Len(c) = 4)
            /\ Len(c) = 3 => c[1] = 0 /\ c[2] = 0 /\ c[3] = 1
            /\ Len(c) = 4 => c[1] = 0 /\ c[2] = 0 /\ c[3] = 0 /\ c[4] = 1
<1>1. 0 \in Byte /\ 1 \in Byte
  BY DEF Byte
<1>2. CASE first \/ u.type \in {NAL_UNIT_SPS, NAL_UNIT_PPS}
  <2>1. StartCode(u, first) = <<0, 0, 0, 1>>
    BY <1>2 DEF StartCode
  <2> QED
    BY <1>1, <2>1
<1>3. CASE ~(first \/ u.type \in {NAL_UNIT_SPS, NAL_UNIT_PPS})
  <2>1. StartCode(u, first) = <<0, 0, 1>>
    BY <1>3 DEF StartCode
  <2> QED
    BY <1>1, <1>3, <2>1
<1> QED
  BY <1>2, <1>3

\* One unit more.
LEMMA FileOneMore ==
  ASSUME NEW S, \A u \in S : Unit(u), NEW units \in Seq(S), NEW x \in S,
         NEW f \in Seq(Byte), (f = <<>> <=> units = <<>>), NEW starts, Layout(units, f, starts)
  PROVE  /\ WriteUnit(f, x) \in Seq(Byte) /\ WriteUnit(f, x) # <<>>
         /\ \E t : Layout(Append(units, x), WriteUnit(f, x), t)
<1> DEFINE c == StartCode(x, f = <<>>)
           data == NalUnitData(x)
           g == WriteUnit(f, x)
           n == Len(units)
           m == Len(f)
           t == [k \in 1 .. n + 2 |-> IF k = n + 2 THEN Len(g) ELSE starts[k]]
           more == Append(units, x)
<1>1. c \in Seq(Byte) /\ Len(c) \in {3, 4} /\ data \in Seq(Byte) /\ Len(data) >= 2 /\ Len(data) \in Nat
  <2>1. (f = <<>>) \in BOOLEAN
    OBVIOUS
  <2>2. c \in Seq(Byte) /\ Len(c) \in {3, 4}
    BY <2>1, StartCodeOK
  <2>3. data \in Seq(Byte) /\ Len(data) >= 2
    BY UnitOK
  <2> HIDE DEF c, data
  <2> QED
    BY <2>2, <2>3
<1>2. g = (f \o c) \o data
  BY DEF WriteUnit
<1> HIDE DEF c, data, g
<1>3. /\ g \in Seq(Byte) /\ Len(g) = m + Len(c) + Len(data) /\ m \in Nat
      /\ \A k \in 1 .. m : g[k] = f[k]
      /\ \A k \in 1 .. Len(c) : g[m + k] = c[k]
      /\ \A k \in 1 .. Len(data) : g[m + Len(c) + k] = data[k]
  <2> DEFINE fc == f \o c
  <2>1. /\ fc \in Seq(Byte) /\ Len(fc) = m + Len(c) /\ m \in Nat
        /\ \A k \in 1 .. m : fc[k] = f[k]
        /\ \A k \in 1 .. Len(c) : fc[m + k] = c[k]
    BY <1>1
  <2> HIDE DEF fc
  <2>2. g = fc \o data
    BY <1>2 DEF fc
  <2>3. /\ g \in Seq(Byte) /\ Len(g) = Len(fc) + Len(data)
        /\ \A k \in 1 .. Len(fc) : g[k] = fc[k]
        /\ \A k \in 1 .. Len(data) : g[Len(fc) + k] = data[k]
    <3>1. fc \in Seq(Byte) /\ data \in Seq(Byte)
      BY <1>1, <2>1
    <3>2. /\ fc \o data \in Seq(Byte) /\ Len(fc \o data) = Len(fc) + Len(data)
          /\ \A k \in 1 .. Len(fc) : (fc \o data)[k] = fc[k]
          /\ \A k \in 1 .. Len(data) : (fc \o data)[Len(fc) + k] = data[k]
      BY <3>1, Joined, ZenonT(30)
    <3> QED
      BY <2>2, <3>2, ZenonT(30)
  <2>4. ASSUME NEW k \in 1 .. m PROVE g[k] = f[k]
    <3>1. k \in 1 .. Len(fc)
      BY <1>1, <2>1
    <3> QED
      BY <2>1, <2>3, <3>1
  <2>5. ASSUME NEW k \in 1 .. Len(c) PROVE g[m + k] = c[k]
    <3>1. m + k \in 1 .. Len(fc)
      BY <1>1, <2>1
    <3>2. g[m + k] = fc[m + k]
      BY <2>3, <3>1
    <3>3. fc[m + k] = c[k]
      BY <2>1
    <3> QED
      BY <3>2, <3>3
  <2>6. ASSUME NEW k \in 1 .. Len(data) PROVE g[m + Len(c) + k] = data[k]
    <3>1. g[Len(fc) + k] = data[k]
      BY <2>3
    <3> QED
      BY <2>1, <3>1
  <2>7. g \in Seq(Byte) /\ Len(g) = m + Len(c) + Len(data) /\ m \in Nat
    BY <2>1, <2>3
  <2> QED
    BY <2>4, <2>5, <2>6, <2>7
<1>4. n \in Nat /\ Len(more) = n + 1 /\ more[n + 1] = x /\ \A j \in 1 .. n : more[j] = units[j]
  OBVIOUS
<1>5. starts \in [1 .. n + 1 -> Nat] /\ starts[1] = 0 /\ starts[n + 1] = m
      /\ \A j \in 1 .. n : UnitAt(f, starts[j], starts[j + 1], units[j], j = 1)
  BY DEF Layout
<1>6. t \in [1 .. (n + 1) + 1 -> Nat] /\ t[1] = 0 /\ t[n + 2] = Len(g) /\ \A k \in 1 .. n + 1 : t[k] = starts[k]
  BY <1>1, <1>3, <1>4, <1>5
<1> HIDE DEF t, more, n
<1>7. ASSUME NEW j \in 1 .. n + 1 PROVE UnitAt(g, t[j], t[j + 1], more[j], j = 1)
  <2>1. CASE j \in 1 .. n
    <3>1. UnitAt(f, t[j], t[j + 1], more[j], j = 1)
      <4>1. j \in 1 .. n + 1 /\ j + 1 \in 1 .. n + 1
        BY <2>1, <1>4
      <4>2. t[j] = starts[j] /\ t[j + 1] = starts[j + 1]
        BY <4>1, <1>6
      <4> QED
        BY <2>1, <4>2, <1>4, <1>5
    <3> DEFINE c2 == StartCode(more[j], j = 1)
               d2 == NalUnitData(more[j])
    <3>2. Len(c2) \in {3, 4} /\ d2 \in Seq(Byte)
      <4>1. Unit(more[j])
        BY <1>4, <2>1 DEF n
      <4>2. (j = 1) \in BOOLEAN
        OBVIOUS
      <4> QED
        BY <4>1, <4>2, StartCodeOK, UnitOK
    <3>3. /\ t[j] \in Nat /\ t[j + 1] = t[j] + Len(c2) + Len(d2) /\ t[j + 1] <= m
          /\ \A k \in 1 .. Len(c2) : f[t[j] + k] = c2[k]
          /\ \A k \in 1 .. Len(d2) : f[t[j] + Len(c2) + k] = d2[k]
      BY <3>1 DEF UnitAt
    <3> HIDE DEF c2, d2
    <3>4. Len(d2) \in Nat
      BY <3>2
    <3>5. ASSUME NEW k \in 1 .. Len(c2) PROVE g[t[j] + k] = c2[k]
      <4>1. t[j] + k \in 1 .. m
        BY <1>3, <3>2, <3>3, <3>4
      <4> QED
        BY <1>3, <3>3, <4>1
    <3>6. ASSUME NEW k \in 1 .. Len(d2) PROVE g[t[j] + Len(c2) + k] = d2[k]
      <4>1. t[j] + Len(c2) + k \in 1 .. m
        <5>1. Len(c2) \in Nat
          BY <3>2
        <5>2. t[j] \in Nat /\ t[j + 1] \in Nat
          BY <3>3, <3>4, <5>1
        <5>3. t[j + 1] = t[j] + Len(c2) + Len(d2) /\ t[j + 1] <= m /\ m \in Nat
          BY <1>3, <3>3
        <5>4. k \in Nat /\ 1 <= k /\ k <= Len(d2)
          BY <3>4
        <5> QED
          BY <3>4, <5>1, <5>2, <5>3, <5>4, SMTT(30)
      <4> QED
        BY <1>3, <3>3, <4>1
    <3>7. t[j + 1] <= Len(g)
      BY <1>1, <1>3, <3>2, <3>3, <3>4
    <3> QED
      BY <3>3, <3>5, <3>6, <3>7 DEF UnitAt, c2, d2
  <2>2. CASE j = n + 1
    <3>1. (j = 1) = (f = <<>>)
      <4>1. units = <<>> <=> n = 0
        BY DEF n
      <4> QED
        BY <4>1, <2>2, <1>4
    <3>2. StartCode(more[j], j = 1) = c
      BY <2>2, <1>4, <3>1 DEF c
    <3>3. NalUnitData(more[j]) = data
      BY <2>2, <1>4 DEF data
    <3>4. t[j] = m /\ t[j + 1] = Len(g)
      <4>1. n + 1 \in 1 .. n + 1 /\ (n + 1) + 1 = n + 2
        BY <1>4
      <4> QED
        BY <4>1, <1>5, <1>6, <2>2
    <3>5. Len(g) = m + Len(c) + Len(data) /\ Len(g) <= Len(g)
      BY <1>3
    <3> QED
      BY <1>3, <3>2, <3>3, <3>4, <3>5 DEF UnitAt
  <2> QED
    BY <2>1, <2>2, <1>4
<1>8. Layout(more, g, t)
  <2>1. (n + 1) + 1 = n + 2
    BY <1>4
  <2> QED
    BY <1>4, <1>6, <1>7, <2>1 DEF Layout
<1>9. g # <<>>
  <2>1. Len(g) > 0
    BY <1>1, <1>3
  <2> QED
    BY <2>1
<1> QED
  BY <1>3, <1>8, <1>9 DEF g, more

LEMMA FileOK ==
  ASSUME NEW S, \A u \in S : Unit(u), NEW units \in Seq(S)
  PROVE  /\ writeAnnexB(units) \in Seq(Byte)
         /\ \E starts : Layout(units, writeAnnexB(units), starts)
<1>1. FilingKeeps(<<>>, <<>>)
  <2> DEFINE t == [k \in 1 .. 1 |-> 0]
  <2>1. Layout(<<>>, <<>>, t)
    <3>1. t \in [1 .. 1 -> Nat] /\ t[1] = 0 /\ Len(<<>>) = 0 /\ 1 .. 0 = {}
      OBVIOUS
    <3> QED
      BY <3>1 DEF Layout
  <2> QED
    BY <2>1 DEF FilingKeeps
<1>2. ASSUME NEW f, NEW seq \in Seq(S), NEW x \in S, FilingKeeps(seq, f)
      PROVE  FilingKeeps(Append(seq, x), WriteUnit(f, x))
  <2>1. f \in Seq(Byte) /\ (f = <<>> <=> seq = <<>>) /\ \E starts : Layout(seq, f, starts)
    BY <1>2 DEF FilingKeeps, AreUnits
  <2>2. PICK starts : Layout(seq, f, starts)
    BY <2>1
  <2>3. Append(seq, x) # <<>>
    OBVIOUS
  <2>4. /\ WriteUnit(f, x) \in Seq(Byte) /\ WriteUnit(f, x) # <<>>
        /\ \E t : Layout(Append(seq, x), WriteUnit(f, x), t)
    BY <2>1, <2>2, FileOneMore
  <2> QED
    BY <2>3, <2>4 DEF FilingKeeps
<1>3. FilingKeeps(units, Filing!Fold(<<>>, units))
  <2>1. \A seq \in Seq(S) : FilingKeeps(seq, Filing!Fold(<<>>, seq))
    BY <1>1, <1>2, Filing!FoldKeeps
  <2> QED
    BY <2>1
<1>4. writeAnnexB(units) = Filing!Fold(<<>>, units)
  BY DEF writeAnnexB, Filing!Fold, FoldLeft, Filing!FoldLeft, MapThenFoldSet,
         Filing!MapThenFoldSet, Max, Filing!Max
<1> QED
  BY <1>3, <1>4 DEF FilingKeeps, AreUnits

-----------------------------------------------------------------------------
(* Reading a unit.                                                         *)

LEMMA HasThree ==
  ASSUME NEW f \in Seq(Byte), NEW i \in Nat, NEW v \in 0 .. 2
  PROVE  Has(f, i, <<0, 0, v>>) <=> i + 3 <= Len(f) /\ f[i + 1] = 0 /\ f[i + 2] = 0 /\ f[i + 3] = v
<1> DEFINE c == <<0, 0, v>>
<1>1. Len(c) = 3 /\ c[1] = 0 /\ c[2] = 0 /\ c[3] = v
  OBVIOUS
<1> HIDE DEF c
<1>2. Has(f, i, c) <=> i + 3 <= Len(f) /\ \A k \in 1 .. 3 : f[i + k] = c[k]
  BY <1>1 DEF Has
<1>3. 1 .. 3 = {1, 2, 3}
  OBVIOUS
<1>4. Has(f, i, c) <=> i + 3 <= Len(f) /\ \A k \in {1, 2, 3} : f[i + k] = c[k]
  BY <1>2, <1>3
<1> QED
  BY <1>1, <1>4 DEF c

LEMMA HasFour ==
  ASSUME NEW f \in Seq(Byte), NEW i \in Nat
  PROVE  Has(f, i, <<0, 0, 0, 1>>)
           <=> i + 4 <= Len(f) /\ f[i + 1] = 0 /\ f[i + 2] = 0 /\ f[i + 3] = 0 /\ f[i + 4] = 1
<1> DEFINE c == <<0, 0, 0, 1>>
<1>1. Len(c) = 4 /\ c[1] = 0 /\ c[2] = 0 /\ c[3] = 0 /\ c[4] = 1
  OBVIOUS
<1> HIDE DEF c
<1>2. Has(f, i, c) <=> i + 4 <= Len(f) /\ \A k \in 1 .. 4 : f[i + k] = c[k]
  BY <1>1 DEF Has
<1>3. 1 .. 4 = {1, 2, 3, 4}
  OBVIOUS
<1>4. Has(f, i, c) <=> i + 4 <= Len(f) /\ \A k \in {1, 2, 3, 4} : f[i + k] = c[k]
  BY <1>2, <1>3
<1> QED
  BY <1>1, <1>4 DEF c

\* The first position of a kind.
LEMMA FirstHere ==
  ASSUME NEW i \in Nat, NEW none \in Nat, NEW T, NEW k \in i .. none, k \in T, \A m \in i .. k - 1 : m \notin T
  PROVE  /\ \E x \in i .. none : x \in T
         /\ (CHOOSE x \in i .. none : x \in T /\ \A m \in i .. x - 1 : ~(m \in T)) = k
<1> DEFINE P(x) == x \in i .. none /\ x \in T /\ \A m \in i .. x - 1 : ~(m \in T)
<1>1. P(k)
  OBVIOUS
<1>2. ASSUME NEW x, P(x) PROVE x = k
  <2>1. x \in Nat /\ k \in Nat /\ i <= x /\ i <= k
    BY <1>2
  <2>2. ~(x < k)
    BY <1>2, <2>1
  <2>3. ~(k < x)
    BY <1>2, <2>1
  <2> QED
    BY <2>1, <2>2, <2>3
<1>3. (CHOOSE x \in i .. none : x \in T /\ \A m \in i .. x - 1 : ~(m \in T)) = k
  <2>1. (CHOOSE x : P(x)) = k
    <3> HIDE DEF P
    <3> QED
      BY <1>1, <1>2
  <2> QED
    BY <2>1
<1> QED
  BY <1>3

\* The unit u is read from i: from its start a, or from one byte after it when
\* its start code is the long one,
StartsAt(a, u, first, i) == i = a \/ (i = a + 1 /\ Len(StartCode(u, first)) = 4)
\* up to the next one, at b.
ReadUpTo(f, i, u, b) ==
  byteStreamNALUnit(f, i) =
    [unit |-> NalUnitData(u), next |-> b, told |-> b + (IF Has(f, b, <<0, 0, 1>>) THEN 3 ELSE 4), ok |-> TRUE]

LEMMA UnitRead ==
  ASSUME NEW f \in Seq(Byte), NEW a, NEW b, NEW u, Unit(u), NEW first \in BOOLEAN, UnitAt(f, a, b, u, first),
         NEW i, StartsAt(a, u, first, i), b < Len(f) => AtStartCode(f, b)
  PROVE  ReadUpTo(f, i, u, b)
<1> DEFINE c == StartCode(u, first)
           data == NalUnitData(u)
           len == Len(f)
           code(k) == AtStartCode(f, k)
           end(k) == AtEnd(f, k)
           zeros(x, y) == \A k \in x + 1 .. y : f[k] = 0
           start == From(i, code, len)
           body == start + (IF Has(f, start, <<0, 0, 1>>) THEN 3 ELSE 4)
           stop == From(body, end, len)
           next == From(stop, code, len)
           here == a + Len(c)
<1>1. /\ Len(c) \in {3, 4}
      /\ Len(c) = 3 => c[1] = 0 /\ c[2] = 0 /\ c[3] = 1
      /\ Len(c) = 4 => c[1] = 0 /\ c[2] = 0 /\ c[3] = 0 /\ c[4] = 1
  BY StartCodeOK
<1>2. data \in Seq(Byte) /\ Len(data) >= 2 /\ data[Len(data)] # 0 /\ NoCode(data) /\ Len(data) \in Nat
  BY UnitOK
<1>3. /\ a \in Nat /\ b = here + Len(data) /\ b <= len
      /\ \A k \in 1 .. Len(c) : f[a + k] = c[k]
      /\ \A k \in 1 .. Len(data) : f[here + k] = data[k]
  BY DEF UnitAt
<1>0. i = a \/ (i = a + 1 /\ Len(c) = 4)
  BY DEF StartsAt
<1> HIDE DEF c, data
<1>4. here \in Nat /\ b \in Nat /\ i \in Nat /\ len \in Nat /\ i < here /\ here + 2 <= b
  BY <1>0, <1>1, <1>2, <1>3
<1>5. AtStartCode(f, i) /\ i + (IF Has(f, i, <<0, 0, 1>>) THEN 3 ELSE 4) = here
  <2>1. CASE Len(c) = 3
    <3>1. i = a /\ f[i + 1] = 0 /\ f[i + 2] = 0 /\ f[i + 3] = 1 /\ i + 3 = here /\ i + 3 <= len
      BY <2>1, <1>0, <1>1, <1>3, <1>4
    <3>2. Has(f, i, <<0, 0, 1>>)
      BY <3>1, <1>4, HasThree
    <3> QED
      BY <3>1, <3>2 DEF AtStartCode
  <2>2. CASE Len(c) = 4 /\ i = a
    <3>1. f[i + 1] = 0 /\ f[i + 2] = 0 /\ f[i + 3] = 0 /\ f[i + 4] = 1 /\ i + 4 = here /\ i + 4 <= len
      BY <2>2, <1>1, <1>3, <1>4
    <3>2. Has(f, i, <<0, 0, 0, 1>>)
      BY <3>1, <1>4, HasFour
    <3>3. ~Has(f, i, <<0, 0, 1>>)
      BY <3>1, <1>4, HasThree
    <3> QED
      BY <3>1, <3>2, <3>3 DEF AtStartCode
  <2>3. CASE Len(c) = 4 /\ i = a + 1
    <3>1. f[i + 1] = 0 /\ f[i + 2] = 0 /\ f[i + 3] = 1 /\ i + 3 = here /\ i + 3 <= len
      <4>1. f[a + 2] = 0 /\ f[a + 3] = 0 /\ f[a + 4] = 1
        BY <2>3, <1>1, <1>3
      <4>2. i + 1 = a + 2 /\ i + 2 = a + 3 /\ i + 3 = a + 4
        BY <2>3, <1>3
      <4>3. i + 3 = here /\ i + 3 <= len
        BY <2>3, <1>3, <1>4
      <4> QED
        BY <4>1, <4>2, <4>3
    <3>2. Has(f, i, <<0, 0, 1>>)
      BY <3>1, <1>4, HasThree
    <3> QED
      BY <3>1, <3>2 DEF AtStartCode
  <2> QED
    BY <1>0, <1>1, <2>1, <2>2, <2>3
<1>6. start = i
  <2> DEFINE T == {k \in Nat : AtStartCode(f, k)}
  <2>1. i \in T /\ i \in i .. len /\ \A m \in i .. i - 1 : m \notin T
    BY <1>4, <1>5, <1>3
  <2>2. /\ \E x \in i .. len : x \in T
        /\ (CHOOSE x \in i .. len : x \in T /\ \A m \in i .. x - 1 : ~(m \in T)) = i
    <3> HIDE DEF T
    <3> QED
      BY <2>1, <1>4, FirstHere
  <2>3. \A k : k \in i .. len => (k \in T <=> code(k))
    BY <1>4
  <2> QED
    BY <2>2, <2>3 DEF From
<1>7. body = here
  <2> HIDE DEF start
  <2> QED
    BY <1>5, <1>6
<1>8. ASSUME NEW k \in here .. b - 1 PROVE ~AtEnd(f, k)
  <2> SUFFICES ASSUME NEW v \in 0 .. 2, Has(f, k, <<0, 0, v>>) PROVE FALSE
    BY DEF AtEnd
  <2>1. k \in Nat /\ k + 3 <= len /\ f[k + 1] = 0 /\ f[k + 2] = 0 /\ f[k + 3] = v
    <3>1. k \in Nat
      BY <1>4
    <3> QED
      BY <3>1, HasThree
  <2> DEFINE j == k - here
  <2>2. j \in 0 .. Len(data) - 1 /\ k = here + j
    BY <1>2, <1>3, <1>4
  <2> HIDE DEF j, here
  <2>3. CASE j + 3 <= Len(data)
    <3>1. data[j + 1] = 0 /\ data[j + 2] = 0 /\ data[j + 3] = v
      <4>1. j + 1 \in 1 .. Len(data) /\ j + 2 \in 1 .. Len(data) /\ j + 3 \in 1 .. Len(data)
        BY <1>2, <2>2, <2>3
      <4>2. f[here + (j + 1)] = data[j + 1] /\ f[here + (j + 2)] = data[j + 2] /\ f[here + (j + 3)] = data[j + 3]
        BY <1>3, <4>1
      <4>3. here + (j + 1) = k + 1 /\ here + (j + 2) = k + 2 /\ here + (j + 3) = k + 3
        BY <1>4, <2>2
      <4> QED
        BY <2>1, <4>2, <4>3
    <3>2. j + 3 \in 3 .. Len(data) /\ (j + 3) - 2 = j + 1 /\ (j + 3) - 1 = j + 2
      BY <1>2, <2>2, <2>3
    <3>3. data[j + 3] >= 3
      BY <1>2, <3>1, <3>2 DEF NoCode
    <3> QED
      BY <3>1, <3>3
  <2>4. CASE j + 2 = Len(data)
    <3>1. f[here + (j + 2)] = data[j + 2] /\ here + (j + 2) = k + 2
      BY <1>2, <1>3, <1>4, <2>2, <2>4
    <3> QED
      BY <1>2, <2>1, <2>4, <3>1
  <2>5. CASE j + 1 = Len(data)
    <3>1. f[here + (j + 1)] = data[j + 1] /\ here + (j + 1) = k + 1
      BY <1>2, <1>3, <1>4, <2>2, <2>5
    <3> QED
      BY <1>2, <2>1, <2>5, <3>1
  <2> QED
    BY <1>2, <2>2, <2>3, <2>4, <2>5
<1>9. b < len => AtEnd(f, b)
  <2> SUFFICES ASSUME b < len PROVE AtEnd(f, b)
    OBVIOUS
  <2>1. Has(f, b, <<0, 0, 1>>) \/ Has(f, b, <<0, 0, 0, 1>>)
    BY DEF AtStartCode
  <2>2. CASE Has(f, b, <<0, 0, 1>>)
    BY <2>2 DEF AtEnd
  <2>3. CASE Has(f, b, <<0, 0, 0, 1>>)
    <3>1. b + 3 <= len /\ f[b + 1] = 0 /\ f[b + 2] = 0 /\ f[b + 3] = 0
      BY <1>4, <2>3, HasFour
    <3>2. Has(f, b, <<0, 0, 0>>)
      BY <1>4, <3>1, HasThree
    <3> QED
      BY <3>2 DEF AtEnd
  <2> QED
    BY <2>1, <2>2, <2>3
<1>10. ~AtEnd(f, len) /\ ~AtStartCode(f, len)
  <2>1. ~AtEnd(f, len)
    BY <1>4, HasThree DEF AtEnd
  <2>2. ~Has(f, len, <<0, 0, 1>>) /\ ~Has(f, len, <<0, 0, 0, 1>>)
    BY <1>4, HasThree, HasFour
  <2> QED
    BY <2>1, <2>2 DEF AtStartCode
<1>11. From(here, end, len) = b
  <2> DEFINE T == {k \in Nat : AtEnd(f, k)}
  <2>1. here \in Nat /\ \A m \in here .. b - 1 : m \notin T
    BY <1>4, <1>8
  <2>2. \A k : k \in here .. len => (k \in T <=> end(k))
    BY <1>4
  <2>3. CASE b < len
    <3>1. b \in T /\ b \in here .. len
      BY <1>4, <1>9, <2>3
    <3>2. /\ \E x \in here .. len : x \in T
          /\ (CHOOSE x \in here .. len : x \in T /\ \A m \in here .. x - 1 : ~(m \in T)) = b
      <4> HIDE DEF T, here
      <4> QED
        BY <3>1, <2>1, <1>4, FirstHere
    <3> HIDE DEF here
    <3> QED
      BY <3>2, <2>2, <1>4 DEF From
  <2>4. CASE b = len
    <3>1. \A k \in here .. len : ~end(k)
      BY <1>4, <1>8, <1>10, <2>4
    <3> HIDE DEF here
    <3> QED
      BY <3>1, <2>4 DEF From
  <2> QED
    BY <1>3, <1>4, <2>3, <2>4
<1>12. stop = b
  <2> HIDE DEF here, start
  <2> QED
    BY <1>7, <1>11
<1>13. From(b, code, len) = b
  <2> DEFINE T == {k \in Nat : AtStartCode(f, k)}
  <2>2. \A k : k \in b .. len => (k \in T <=> code(k))
    BY <1>4
  <2>3. CASE b < len
    <3>1. b \in T /\ b \in b .. len /\ \A m \in b .. b - 1 : m \notin T
      BY <1>4, <2>3
    <3>2. /\ \E x \in b .. len : x \in T
          /\ (CHOOSE x \in b .. len : x \in T /\ \A m \in b .. x - 1 : ~(m \in T)) = b
      <4> HIDE DEF T
      <4> QED
        BY <3>1, <1>4, FirstHere
    <3> QED
      BY <3>2, <2>2, <1>4 DEF From
  <2>4. CASE b = len
    <3>1. \A k \in b .. len : ~code(k)
      BY <1>4, <1>10, <2>4
    <3> QED
      BY <3>1, <2>4 DEF From
  <2> QED
    BY <1>3, <1>4, <2>3, <2>4
<1>14. next = b
  <2> HIDE DEF stop
  <2> QED
    BY <1>12, <1>13
<1>15. SubSeq(f, body + 1, stop) = data
  <2>1. SubSeq(f, here + 1, b) = data
    <3> DEFINE r == SubSeq(f, here + 1, b)
    <3>0. here + 1 \in 1 .. len + 1 /\ b \in here .. len
      BY <1>3, <1>4
    <3>1. r \in Seq(Byte) /\ Len(r) = Len(data) /\ \A k \in 1 .. Len(data) : r[k] = f[here + k]
      <4> HIDE DEF here
      <4>1. Len(r) = b - (here + 1) + 1 /\ r \in Seq(Byte) /\ \A k \in 1 .. b - here : r[k] = f[here + 1 + k - 1]
        BY <3>0, <1>4
      <4>2. b - (here + 1) + 1 = Len(data) /\ b - here = Len(data)
        BY <1>2, <1>3, <1>4
      <4>3. \A k \in 1 .. Len(data) : here + 1 + k - 1 = here + k
        BY <1>2, <1>4
      <4> HIDE DEF r
      <4> QED
        BY <4>1, <4>2, <4>3
    <3> HIDE DEF r, here
    <3>2. \A k \in 1 .. Len(data) : r[k] = data[k]
      BY <1>3, <3>1
    <3>3. r = data
      BY <1>2, <3>1, <3>2
    <3> QED
      BY <3>3 DEF r
  <2> HIDE DEF body, stop, here
  <2> QED
    BY <1>7, <1>12, <2>1
<1>16. (start < len /\ zeros(i, start) /\ zeros(stop, next)) = TRUE
  <2>1. start < len /\ zeros(i, i) /\ zeros(b, b)
    <3> HIDE DEF start
    <3> QED
      BY <1>3, <1>4, <1>6
  <2> HIDE DEF start, stop, next
  <2> QED
    BY <1>6, <1>12, <1>14, <2>1
<1>17. byteStreamNALUnit(f, i) =
         [unit |-> SubSeq(f, body + 1, stop), next |-> next,
          told |-> next + (IF Has(f, next, <<0, 0, 1>>) THEN 3 ELSE 4),
          ok |-> start < len /\ zeros(i, start) /\ zeros(stop, next)]
  BY DEF byteStreamNALUnit
<1> HIDE DEF start, body, stop, next, zeros
<1> QED
  BY <1>14, <1>15, <1>16, <1>17 DEF data, ReadUpTo

-----------------------------------------------------------------------------
(* The encoder puts out bytes.                                             *)

Fields == {"low", "range", "buffered", "numBuffered", "bitsLeft", "out", "models", "ok"}

\* Output of whole bytes, and fewer than eight bits.
Output(out) == out.bytes \in Seq(Byte) /\ out.held \in Int /\ out.num \in 0 .. 7

\* An encoder with at least least bits left.
Encoder(s, least) ==
  /\ DOMAIN s = Fields
  /\ s.low \in Int /\ s.range \in 256 .. 510 /\ s.buffered \in Int /\ s.numBuffered \in Int
  /\ s.bitsLeft \in least .. 23 /\ Output(s.out)
  /\ s.models \in [DOMAIN Models -> Int \X Int]

Words == Int \X (1 .. 16)

Positive == Nat \ {0}

LEMMA Powers ==
  ASSUME NEW k \in 0 .. 32
  PROVE  2 ^ k \in Positive
<1>1. /\ 2 ^ 0 \in Positive /\ 2 ^ 1 \in Positive /\ 2 ^ 2 \in Positive /\ 2 ^ 3 \in Positive
      /\ 2 ^ 4 \in Positive /\ 2 ^ 5 \in Positive /\ 2 ^ 6 \in Positive /\ 2 ^ 7 \in Positive
      /\ 2 ^ 8 \in Positive /\ 2 ^ 9 \in Positive /\ 2 ^ 10 \in Positive /\ 2 ^ 11 \in Positive
      /\ 2 ^ 12 \in Positive /\ 2 ^ 13 \in Positive /\ 2 ^ 14 \in Positive /\ 2 ^ 15 \in Positive
      /\ 2 ^ 16 \in Positive /\ 2 ^ 17 \in Positive /\ 2 ^ 18 \in Positive /\ 2 ^ 19 \in Positive
      /\ 2 ^ 20 \in Positive /\ 2 ^ 21 \in Positive /\ 2 ^ 22 \in Positive /\ 2 ^ 23 \in Positive
      /\ 2 ^ 24 \in Positive /\ 2 ^ 25 \in Positive /\ 2 ^ 26 \in Positive /\ 2 ^ 27 \in Positive
      /\ 2 ^ 28 \in Positive /\ 2 ^ 29 \in Positive /\ 2 ^ 30 \in Positive /\ 2 ^ 31 \in Positive /\ 2 ^ 32 \in Positive
  BY DEF Positive
<1>2. CASE k \in 0 .. 7
  <2>1. k = 0 \/ k = 1 \/ k = 2 \/ k = 3 \/ k = 4 \/ k = 5 \/ k = 6 \/ k = 7
    BY <1>2
  <2> QED
    BY <1>1, <2>1, Zenon
<1>3. CASE k \in 8 .. 15
  <2>1. k = 8 \/ k = 9 \/ k = 10 \/ k = 11 \/ k = 12 \/ k = 13 \/ k = 14 \/ k = 15
    BY <1>3
  <2> QED
    BY <1>1, <2>1, Zenon
<1>4. CASE k \in 16 .. 23
  <2>1. k = 16 \/ k = 17 \/ k = 18 \/ k = 19 \/ k = 20 \/ k = 21 \/ k = 22 \/ k = 23
    BY <1>4
  <2> QED
    BY <1>1, <2>1, Zenon
<1>5. CASE k \in 24 .. 32
  <2>1. k = 24 \/ k = 25 \/ k = 26 \/ k = 27 \/ k = 28 \/ k = 29 \/ k = 30 \/ k = 31 \/ k = 32
    BY <1>5
  <2> QED
    BY <1>1, <2>1, Zenon
<1> QED
  BY <1>2, <1>3, <1>4, <1>5

LEMMA WriteOK ==
  ASSUME NEW out, Output(out), NEW bits \in Int, NEW n \in 1 .. 16
  PROVE  Output(write(out, bits, n))
<1> DEFINE total == out.num + n
           word  == out.held * 2 ^ n + bits
           more  == [i \in 1 .. total \div 8 |-> (word \div 2 ^ (total - 8 * i)) % 256]
           r     == write(out, bits, n)
<1>1. out.bytes \in Seq(Byte) /\ out.held \in Int /\ out.num \in 0 .. 7
  BY DEF Output
<1>2. total \in 1 .. 23 /\ total \div 8 \in 0 .. 2 /\ total % 8 \in 0 .. 7
  <2>1. total \in 1 .. 23
    <3>1. \A x \in 0 .. 7 : x + n \in 1 .. 23
      OBVIOUS
    <3> QED
      BY <1>1, <3>1, Zenon
  <2> HIDE DEF total
  <2> QED
    BY <2>1
<1>3. word \in Int
  <2>1. 2 ^ n \in Nat
    <3>1. n \in 0 .. 32
      OBVIOUS
    <3>2. 2 ^ n \in Positive
      BY <3>1, Powers, Zenon
    <3> QED
      BY <3>2 DEF Positive
  <2> HIDE DEF total
  <2> QED
    BY <1>1, <2>1
<1> HIDE DEF word
<1>4. more \in Seq(Byte)
  <2> HIDE DEF total
  <2>1. ASSUME NEW i \in 1 .. total \div 8 PROVE (word \div 2 ^ (total - 8 * i)) % 256 \in Byte
    <3>1. total - 8 * i \in 0 .. 15
      BY <1>2
    <3>2. 2 ^ (total - 8 * i) \in Nat /\ 2 ^ (total - 8 * i) > 0
      <4>1. total - 8 * i \in 0 .. 32
        BY <3>1
      <4>2. 2 ^ (total - 8 * i) \in Positive
        BY <4>1, Powers, Zenon
      <4> QED
        BY <4>2 DEF Positive
    <3> DEFINE p == 2 ^ (total - 8 * i)
               q == word \div p
    <3>3. q \in Int
      <4> HIDE DEF p
      <4> QED
        BY <1>3, <3>2 DEF p
    <3> HIDE DEF q
    <3>4. q % 256 \in Byte
      BY <3>3 DEF Byte
    <3> QED
      BY <3>4 DEF q
  <2>2. total \div 8 \in Nat
    BY <1>2
  <2> QED
    BY <2>1, <2>2
<1>5. word % 2 ^ (total % 8) \in Int
  <2>1. 2 ^ (total % 8) \in Nat /\ 2 ^ (total % 8) > 0
    <3>1. total % 8 \in 0 .. 32
      BY <1>2
    <3>2. 2 ^ (total % 8) \in Positive
      BY <3>1, Powers, Zenon
    <3> QED
      BY <3>2 DEF Positive
  <2> HIDE DEF total
  <2> QED
    BY <1>3, <2>1
<1>6. r = [bytes |-> out.bytes \o more, held |-> word % 2 ^ (total % 8), num |-> total % 8]
  BY DEF write, word
<1> HIDE DEF total, more, r
<1>7. out.bytes \o more \in Seq(Byte)
  BY <1>1, <1>4
<1>8. r.bytes \in Seq(Byte) /\ r.held \in Int /\ r.num \in 0 .. 7
  BY <1>2, <1>5, <1>6, <1>7
<1> QED
  BY <1>8 DEF Output, r

LEMMA PutOK ==
  ASSUME NEW s, Encoder(s, 12), NEW bits \in Int, NEW n \in 1 .. 16
  PROVE  Encoder(Put(s, bits, n), 12)
<1>1. Output(s.out)
  BY DEF Encoder
<1>2. Output(write(s.out, bits, n))
  BY <1>1, WriteOK
<1> QED
  BY <1>2 DEF Encoder, Fields, Put

\* Words put out one after the other.
PuttingKeeps(seq, s) == Encoder(s, 12)
Putting == INSTANCE FoldInduction WITH Op <- PutWord, Keeps <- PuttingKeeps

LEMMA PutWordsOK ==
  ASSUME NEW s, Encoder(s, 12), NEW words \in Seq(Words)
  PROVE  Encoder(FoldLeft(PutWord, s, words), 12)
<1>1. PuttingKeeps(<<>>, s)
  BY DEF PuttingKeeps
<1>2. ASSUME NEW a, NEW seq \in Seq(Words), NEW x \in Words, PuttingKeeps(seq, a)
      PROVE  PuttingKeeps(Append(seq, x), PutWord(a, x))
  <2>1. x[1] \in Int /\ x[2] \in 1 .. 16
    BY DEF Words
  <2> QED
    BY <1>2, <2>1, PutOK DEF PuttingKeeps, PutWord
<1>3. PuttingKeeps(words, Putting!Fold(s, words))
  <2>1. \A seq \in Seq(Words) : PuttingKeeps(seq, Putting!Fold(s, seq))
    BY <1>1, <1>2, Putting!FoldKeeps
  <2> QED
    BY <2>1
<1>4. FoldLeft(PutWord, s, words) = Putting!Fold(s, words)
  BY DEF Putting!Fold, FoldLeft, Putting!FoldLeft, MapThenFoldSet, Putting!MapThenFoldSet, Max, Putting!Max
<1> QED
  BY <1>3, <1>4 DEF PuttingKeeps

LEMMA PutBytesOK ==
  ASSUME NEW s, Encoder(s, 12), NEW byte \in Int, NEW count \in Int
  PROVE  Encoder(PutBytes(s, byte, count), 12)
<1>1. MaxOf(0, count) \in Nat
  BY DEF MaxOf
<1>2. <<byte, 8>> \in Words
  BY DEF Words
<1>3. [i \in 1 .. MaxOf(0, count) |-> <<byte, 8>>] \in Seq(Words)
  BY <1>1, <1>2, SMTT(30)
<1> QED
  BY <1>3, PutWordsOK DEF PutBytes

\* A byte leaves the register as soon as there are fewer than twelve bits left.
LEMMA WriteOutOK ==
  ASSUME NEW s, Encoder(s, 4), s.bitsLeft < 12
  PROVE  Encoder(writeOut(s), 12)
<1> DEFINE p == 2 ^ (24 - s.bitsLeft)
           leadByte == s.low \div p
           t == [s EXCEPT !.bitsLeft = @ + 8, !.low = @ % p]
           carry == leadByte \div 256
           u == [t EXCEPT !.buffered = leadByte % 256]
           first == Put(u, s.buffered + carry, 8)
           rest == PutBytes(first, (255 + carry) % 256, s.numBuffered - 1)
<1>1. DOMAIN s = Fields /\ s.low \in Int /\ s.bitsLeft \in 4 .. 11 /\ s.buffered \in Int /\ s.numBuffered \in Int
  BY DEF Encoder
<1>2. p \in Nat /\ p > 0
  <2>1. 24 - s.bitsLeft \in 0 .. 32
    BY <1>1
  <2>2. p \in Positive
    BY <2>1, Powers, Zenon
  <2> QED
    BY <2>2 DEF Positive
<1> HIDE DEF p
<1>3. leadByte \in Int /\ s.low % p \in Int
  BY <1>1, <1>2
<1> HIDE DEF leadByte
<1>4. carry \in Int /\ leadByte % 256 \in Int
  BY <1>3
<1>5. Encoder(t, 12)
  BY <1>1, <1>3 DEF Encoder, Fields
<1>6. Encoder([t EXCEPT !.numBuffered = @ + 1], 12) /\ Encoder([t EXCEPT !.numBuffered = 1, !.buffered = leadByte], 12)
  <2> HIDE DEF t
  <2> QED
    BY <1>3, <1>5 DEF Encoder, Fields
<1>7. Encoder(u, 12)
  <2> HIDE DEF t
  <2> QED
    BY <1>4, <1>5 DEF Encoder, Fields
<1> HIDE DEF u
<1>8. Encoder(first, 12)
  <2>1. s.buffered + carry \in Int /\ 8 \in 1 .. 16
    BY <1>1, <1>4
  <2> HIDE DEF carry
  <2> QED
    BY <1>7, <2>1, PutOK, Zenon
<1> HIDE DEF first
<1>9. Encoder(rest, 12)
  <2>1. (255 + carry) % 256 \in Int /\ s.numBuffered - 1 \in Int
    BY <1>1, <1>4
  <2> HIDE DEF carry
  <2> QED
    BY <1>8, <2>1, PutBytesOK
<1> HIDE DEF rest
<1>10. Encoder([rest EXCEPT !.numBuffered = 1], 12)
  BY <1>9 DEF Encoder, Fields
<1>11. writeOut(s) = IF leadByte = 255 THEN [t EXCEPT !.numBuffered = @ + 1]
                     ELSE IF s.numBuffered = 0 THEN [t EXCEPT !.numBuffered = 1, !.buffered = leadByte]
                     ELSE [rest EXCEPT !.numBuffered = 1]
  BY DEF writeOut, rest, first, u, leadByte, p
<1> HIDE DEF t
<1> QED
  BY <1>6, <1>10, <1>11

LEMMA WriteIfDueOK ==
  ASSUME NEW s, Encoder(s, 4)
  PROVE  Encoder(WriteIfDue(s), 12)
<1>1. CASE s.bitsLeft < 12
  BY <1>1, WriteOutOK DEF WriteIfDue
<1>2. CASE ~(s.bitsLeft < 12)
  BY <1>2 DEF WriteIfDue, Encoder
<1> QED
  BY <1>1, <1>2

\* The powers that a range is shifted by, and those beyond it.
PowerIs(k, p) ==
  \/ k = 0 /\ p = 1
  \/ k = 1 /\ p = 2
  \/ k = 2 /\ p = 4
  \/ k = 3 /\ p = 8
  \/ k = 4 /\ p = 16
  \/ k = 5 /\ p = 32
  \/ k = 6 /\ p = 64
  \/ k = 7 /\ p = 128
  \/ k = 8 /\ p = 256
  \/ k > 8 /\ p > 510

LEMMA SmallPowers == ASSUME NEW k \in 0 .. 30 PROVE PowerIs(k, 2 ^ k)
<1>1. /\ 2 ^ 0 = 1 /\ 2 ^ 1 = 2 /\ 2 ^ 2 = 4 /\ 2 ^ 3 = 8 /\ 2 ^ 4 = 16
      /\ 2 ^ 5 = 32 /\ 2 ^ 6 = 64 /\ 2 ^ 7 = 128 /\ 2 ^ 8 = 256
  OBVIOUS
<1>2. /\ 2 ^ 9 > 510 /\ 2 ^ 10 > 510 /\ 2 ^ 11 > 510 /\ 2 ^ 12 > 510 /\ 2 ^ 13 > 510 /\ 2 ^ 14 > 510
      /\ 2 ^ 15 > 510 /\ 2 ^ 16 > 510 /\ 2 ^ 17 > 510 /\ 2 ^ 18 > 510 /\ 2 ^ 19 > 510 /\ 2 ^ 20 > 510
      /\ 2 ^ 21 > 510 /\ 2 ^ 22 > 510 /\ 2 ^ 23 > 510 /\ 2 ^ 24 > 510 /\ 2 ^ 25 > 510 /\ 2 ^ 26 > 510
      /\ 2 ^ 27 > 510 /\ 2 ^ 28 > 510 /\ 2 ^ 29 > 510 /\ 2 ^ 30 > 510
  OBVIOUS
<1>3. k \in 0 .. 8 \/ k \in 9 .. 30
  OBVIOUS
<1>4. CASE k \in 0 .. 8
  <2>1. k = 0 \/ k = 1 \/ k = 2 \/ k = 3 \/ k = 4 \/ k = 5 \/ k = 6 \/ k = 7 \/ k = 8
    BY <1>4
  <2>2. k = 0 => 2 ^ k = 1
    BY <1>1, Zenon
  <2>3. k = 1 => 2 ^ k = 2
    BY <1>1, Zenon
  <2>4. k = 2 => 2 ^ k = 4
    BY <1>1, Zenon
  <2>5. k = 3 => 2 ^ k = 8
    BY <1>1, Zenon
  <2>6. k = 4 => 2 ^ k = 16
    BY <1>1, Zenon
  <2>7. k = 5 => 2 ^ k = 32
    BY <1>1, Zenon
  <2>8. k = 6 => 2 ^ k = 64
    BY <1>1, Zenon
  <2>9. k = 7 => 2 ^ k = 128
    BY <1>1, Zenon
  <2>10. k = 8 => 2 ^ k = 256
    <3>1. k = 8 => 2 ^ k = 2 ^ 8
      BY Zenon
    <3> QED
      BY <3>1
  <2> QED
    BY <2>1, <2>2, <2>3, <2>4, <2>5, <2>6, <2>7, <2>8, <2>9, <2>10 DEF PowerIs
<1>5. CASE k \in 9 .. 30
  <2>1. \/ k = 9 \/ k = 10 \/ k = 11 \/ k = 12 \/ k = 13 \/ k = 14 \/ k = 15 \/ k = 16
        \/ k = 17 \/ k = 18 \/ k = 19 \/ k = 20 \/ k = 21 \/ k = 22 \/ k = 23 \/ k = 24
        \/ k = 25 \/ k = 26 \/ k = 27 \/ k = 28 \/ k = 29 \/ k = 30
    BY <1>5
  <2>2. 2 ^ k > 510
    BY <1>2, <2>1, ZenonT(30)
  <2>3. k > 8
    BY <1>5
  <2> QED
    BY <2>2, <2>3 DEF PowerIs
<1> QED
  BY <1>3, <1>4, <1>5, Zenon

\* The shift brings the range back to nine bits.
LEMMA Renormalised ==
  ASSUME NEW r \in 3 .. 510
  PROVE  /\ getRenormBits(r) \in 0 .. 7
         /\ r * 2 ^ getRenormBits(r) \in 256 .. 510
<1> DEFINE n == getRenormBits(r)
           c == FloorLog2(r)
<1>1. CASE r = 3
  <2>1. n = 7
    BY <1>1 DEF getRenormBits
  <2> HIDE DEF n
  <2>2. 2 ^ n = 128
    <3>1. n \in 0 .. 30
      BY <2>1
    <3>2. PowerIs(n, 2 ^ n)
      BY <3>1, SmallPowers, Zenon
    <3> QED
      BY <2>1, <3>2 DEF PowerIs
  <2> QED
    BY <1>1, <2>1, <2>2 DEF n
<1>2. CASE r \in 4 .. 510
  <2> DEFINE P(k) == 2 ^ k <= r /\ r < 2 * 2 ^ k
  <2>1. 2 ^ 2 = 4 /\ 2 ^ 3 = 8 /\ 2 ^ 4 = 16 /\ 2 ^ 5 = 32 /\ 2 ^ 6 = 64 /\ 2 ^ 7 = 128 /\ 2 ^ 8 = 256
    OBVIOUS
  <2>2. \E k \in 0 .. 30 : P(k)
    <3>1. CASE r < 8
      <4>1. P(2)
        BY <1>2, <3>1
      <4> QED
        BY <4>1
    <3>2. CASE 8 <= r /\ r < 16
      <4>1. P(3)
        BY <1>2, <3>2
      <4> QED
        BY <4>1
    <3>3. CASE 16 <= r /\ r < 32
      <4>1. P(4)
        BY <1>2, <3>3
      <4> QED
        BY <4>1
    <3>4. CASE 32 <= r /\ r < 64
      <4>1. P(5)
        BY <1>2, <3>4
      <4> QED
        BY <4>1
    <3>5. CASE 64 <= r /\ r < 128
      <4>1. P(6)
        BY <1>2, <3>5
      <4> QED
        BY <4>1
    <3>6. CASE 128 <= r /\ r < 256
      <4>1. P(7)
        BY <1>2, <3>6
      <4> QED
        BY <4>1
    <3>7. CASE 256 <= r
      <4>1. P(8)
        BY <1>2, <3>7
      <4> QED
        BY <4>1
    <3> QED
      BY <1>2, <3>1, <3>2, <3>3, <3>4, <3>5, <3>6, <3>7
  <2>3. c \in 0 .. 30 /\ P(c)
    <3> HIDE DEF P
    <3>1. c = CHOOSE k \in 0 .. 30 : P(k)
      BY DEF FloorLog2, P
    <3> HIDE DEF c
    <3> QED
      BY <2>2, <3>1
  <2>4. n = IF 8 - c > 0 THEN 8 - c ELSE 0
    <3> HIDE DEF c
    <3>1. ~(r < 4)
      BY <1>2
    <3>2. n = MaxOf(0, 8 - c)
      BY <3>1 DEF getRenormBits, c
    <3>3. MaxOf(0, 8 - c) = IF 8 - c > 0 THEN 8 - c ELSE 0
      BY <2>3 DEF MaxOf
    <3> QED
      BY <3>2, <3>3
  <2> HIDE DEF c, n
  <2>5. (c = 2 /\ 2 ^ c = 4) \/ (c = 3 /\ 2 ^ c = 8) \/ (c = 4 /\ 2 ^ c = 16) \/ (c = 5 /\ 2 ^ c = 32)
        \/ (c = 6 /\ 2 ^ c = 64) \/ (c = 7 /\ 2 ^ c = 128) \/ (c = 8 /\ 2 ^ c = 256)
    <3>1. PowerIs(c, 2 ^ c)
      BY <2>3, SmallPowers, Zenon
    <3> QED
      BY <1>2, <2>3, <3>1 DEF PowerIs
  <2>6. n \in 0 .. 6 /\ n = 8 - c
    BY <2>4, <2>5
  <2>7. (n = 0 /\ 2 ^ n = 1) \/ (n = 1 /\ 2 ^ n = 2) \/ (n = 2 /\ 2 ^ n = 4) \/ (n = 3 /\ 2 ^ n = 8)
        \/ (n = 4 /\ 2 ^ n = 16) \/ (n = 5 /\ 2 ^ n = 32) \/ (n = 6 /\ 2 ^ n = 64)
    <3>1. n \in 0 .. 30
      BY <2>6
    <3>2. PowerIs(n, 2 ^ n)
      BY <3>1, SmallPowers, Zenon
    <3> QED
      BY <2>6, <3>2 DEF PowerIs
  <2>8. r * 2 ^ n \in 256 .. 510
    BY <1>2, <2>3, <2>5, <2>6, <2>7
  <2> QED
    BY <2>6, <2>8 DEF n
<1> QED
  BY <1>1, <1>2

LEMMA RangeSplit ==
  ASSUME NEW model \in Int \X Int, NEW range \in 256 .. 510
  PROVE  getLPS(model, range) \in 3 .. 507 /\ range - getLPS(model, range) \in 3 .. 507
<1> DEFINE state == (model[1] + model[2]) \div 128
           low == 4 * (range \div 4)
           x == ((1023 - 2 * state) * low + 512) \div 1024
<1>1. low \in 256 .. 508 /\ low <= range
  OBVIOUS
<1>2. state \in Int
  OBVIOUS
<1>3. x \in Int
  <2> HIDE DEF state, low
  <2>1. (1023 - 2 * state) * low \in Int
    BY <1>1, <1>2
  <2> QED
    BY <2>1
<1>4. getLPS(model, range) = Clip(3, low - 3, x)
  BY DEF getLPS
<1> HIDE DEF state, low, x
<1>5. Clip(3, low - 3, x) \in 3 .. low - 3
  BY <1>1, <1>3 DEF Clip, MaxOf, MinOf
<1> DEFINE LPS == getLPS(model, range)
<1>6. LPS \in 3 .. low - 3
  BY <1>4, <1>5
<1> HIDE DEF LPS
<1>7. LPS \in 3 .. 507 /\ range - LPS \in 3 .. 507
  BY <1>1, <1>6
<1> QED
  BY <1>7 DEF LPS

LEMMA UpdateOK ==
  ASSUME NEW model \in Int \X Int, NEW bin
  PROVE  update(model, bin) \in Int \X Int
<1>1. 2 ^ 4 = 16 /\ 2 ^ 8 = 256
  OBVIOUS
<1>2. ASSUME NEW p \in Int, NEW w \in {4, 8} PROVE Adapted(p, bin, w) \in Int
  <2>1. 2 ^ w \in {16, 256}
    <3>1. w \in 0 .. 30
      OBVIOUS
    <3>2. PowerIs(w, 2 ^ w)
      BY <3>1, SmallPowers, Zenon
    <3> QED
      BY <3>2 DEF PowerIs
  <2> DEFINE q == 2 ^ w
  <2>2. (32768 - p) \div q \in Int /\ p \div q \in Int
    <3>1. q \in {16, 256}
      BY <2>1
    <3> HIDE DEF q
    <3> QED
      BY <3>1
  <2> QED
    BY <2>2 DEF Adapted
<1>3. model[1] \in Int /\ model[2] \in Int
  OBVIOUS
<1> QED
  BY <1>2, <1>3 DEF update, m_Log2WindowSize0, m_Log2WindowSize1

LEMMA BinOK ==
  ASSUME NEW s, Encoder(s, 12), NEW ctx \in DOMAIN Models, NEW bin
  PROVE  Encoder(encodeBin(s, ctx, bin), 12)
<1> DEFINE LPS == getLPS(s.models[ctx], s.range)
           MPS == s.range - LPS
           r == IF bin # mps THEN LPS ELSE MPS
           n == getRenormBits(r)
           f == [s EXCEPT !.models[ctx] = update(@, bin)]
           a == [f EXCEPT !.low = (@ + MPS) * 2 ^ n, !.range = LPS * 2 ^ n, !.bitsLeft = @ - n]
           b == [f EXCEPT !.low = @ * 2 ^ n, !.range = MPS * 2 ^ n, !.bitsLeft = @ - n]
           c == [f EXCEPT !.range = MPS]
<1>1. DOMAIN s = Fields /\ s.low \in Int /\ s.range \in 256 .. 510 /\ s.bitsLeft \in 12 .. 23
      /\ s.models \in [DOMAIN Models -> Int \X Int]
  BY DEF Encoder
<1>2. LPS \in 3 .. 507 /\ MPS \in 3 .. 507
  <2>1. s.models[ctx] \in Int \X Int
    BY <1>1
  <2> QED
    BY <1>1, <2>1, RangeSplit, ZenonT(30)
<1> HIDE DEF LPS, MPS
<1>3. Encoder(f, 12) /\ f.low = s.low /\ f.bitsLeft = s.bitsLeft
  <2>1. s.models[ctx] \in Int \X Int
    BY <1>1
  <2>2. update(s.models[ctx], bin) \in Int \X Int
    BY <2>1, UpdateOK
  <2> DEFINE m == [s.models EXCEPT ![ctx] = update(s.models[ctx], bin)]
  <2>3. m \in [DOMAIN Models -> Int \X Int]
    BY <1>1, <2>2
  <2>4. f = [s EXCEPT !.models = m]
    OBVIOUS
  <2> HIDE DEF m, f
  <2> QED
    BY <2>3, <2>4 DEF Encoder, Fields
<1>4. r \in 3 .. 510
  BY <1>2
<1> HIDE DEF r
<1>5. n \in 0 .. 7 /\ r * 2 ^ n \in 256 .. 510
  BY <1>4, Renormalised
<1>6. 2 ^ n \in Int
  <2>1. n \in 0 .. 32
    BY <1>5
  <2>2. 2 ^ n \in Positive
    BY <2>1, Powers, Zenon
  <2> QED
    BY <2>2 DEF Positive
<1>7. f.bitsLeft - n \in 4 .. 23
  BY <1>1, <1>3, <1>5
<1>8. (f.low + MPS) * 2 ^ n \in Int /\ f.low * 2 ^ n \in Int
  <2> DEFINE p == 2 ^ n
  <2>1. p \in Int /\ f.low \in Int /\ MPS \in Int
    BY <1>1, <1>2, <1>3, <1>6
  <2> HIDE DEF p, f
  <2> QED
    BY <2>1 DEF p
<1> HIDE DEF n, f
<1>9. CASE bin # mps
  <2>1. r = LPS
    BY <1>9 DEF r
  <2>2. Encoder(a, 4)
    BY <1>3, <1>5, <1>7, <1>8, <2>1 DEF Encoder, Fields
  <2>3. encodeBin(s, ctx, bin) = WriteIfDue(a)
    BY <1>9 DEF encodeBin, LPS, MPS, r, n, f
  <2> QED
    BY <2>2, <2>3, WriteIfDueOK
<1>10. CASE ~(bin # mps) /\ MPS >= 256
  <2>1. Encoder(c, 12)
    BY <1>2, <1>3, <1>10 DEF Encoder, Fields
  <2>2. encodeBin(s, ctx, bin) = c
    BY <1>10 DEF encodeBin, LPS, MPS, f
  <2> QED
    BY <2>1, <2>2
<1>11. CASE ~(bin # mps) /\ ~(MPS >= 256)
  <2>1. r = MPS
    BY <1>11 DEF r
  <2>2. Encoder(b, 4)
    BY <1>3, <1>5, <1>7, <1>8, <2>1 DEF Encoder, Fields
  <2>3. encodeBin(s, ctx, bin) = WriteIfDue(b)
    BY <1>11 DEF encodeBin, LPS, MPS, r, n, f
  <2> QED
    BY <2>2, <2>3, WriteIfDueOK
<1> QED
  BY <1>9, <1>10, <1>11

LEMMA BypassOK ==
  ASSUME NEW s, Encoder(s, 12), NEW bin \in Int
  PROVE  Encoder(encodeBinEP(s, bin), 12)
<1> DEFINE a == [s EXCEPT !.low = 2 * @ + bin * s.range, !.bitsLeft = @ - 1]
<1>1. s.low \in Int /\ s.range \in 256 .. 510 /\ s.bitsLeft \in 12 .. 23
  BY DEF Encoder
<1>2. 2 * s.low + bin * s.range \in Int /\ s.bitsLeft - 1 \in 4 .. 23
  BY <1>1
<1>3. Encoder(a, 4)
  BY <1>2 DEF Encoder, Fields
<1> QED
  BY <1>3, WriteIfDueOK DEF encodeBinEP

LEMMA TerminatingOK ==
  ASSUME NEW s, Encoder(s, 12), NEW bin
  PROVE  Encoder(encodeBinTrm(s, bin), 12)
<1> DEFINE range == s.range - 2
           a == [s EXCEPT !.low = (@ + range) * 128, !.range = 256, !.bitsLeft = @ - 7]
           b == [s EXCEPT !.range = range]
           c == [s EXCEPT !.low = 2 * @, !.range = 2 * range, !.bitsLeft = @ - 1]
<1>1. s.low \in Int /\ s.range \in 256 .. 510 /\ s.bitsLeft \in 12 .. 23
  BY DEF Encoder
<1>2. range \in 254 .. 508
  BY <1>1
<1> HIDE DEF range
<1>3. Encoder(a, 4)
  <2>1. (s.low + range) * 128 \in Int /\ s.bitsLeft - 7 \in 4 .. 23
    BY <1>1, <1>2
  <2> QED
    BY <2>1 DEF Encoder, Fields
<1>4. range >= 256 => Encoder(b, 12)
  BY <1>2 DEF Encoder, Fields
<1>5. ~(range >= 256) => Encoder(c, 4)
  <2>1. 2 * s.low \in Int /\ s.bitsLeft - 1 \in 4 .. 23
    BY <1>1
  <2>2. ~(range >= 256) => 2 * range \in 256 .. 510
    BY <1>2
  <2> QED
    BY <2>1, <2>2 DEF Encoder, Fields
<1>6. encodeBinTrm(s, bin) = IF bin = 1 THEN WriteIfDue(a) ELSE IF range >= 256 THEN b ELSE WriteIfDue(c)
  BY DEF encodeBinTrm, range
<1> HIDE DEF a, b, c
<1> QED
  BY <1>3, <1>4, <1>5, <1>6, WriteIfDueOK

\* Groups of bypass bins.
Grouped(s) ==
  DOMAIN s = {"e", "bins", "left"} /\ Encoder(s.e, 12) /\ s.bins \in Int /\ s.left \in 0 .. 32
GroupsKeep(seq, s) == Grouped(s)
Bypassing == INSTANCE FoldInduction WITH Op <- BypassGroup, Keeps <- GroupsKeep
Aligned == INSTANCE FoldInduction WITH Op <- AlignedGroup, Keeps <- GroupsKeep

LEMMA GroupOK ==
  ASSUME NEW s, Grouped(s), s.left # 0, NEW range \in Int
  PROVE  Grouped(PutGroup(s, MinOf(8, s.left), range))
<1> DEFINE n == MinOf(8, s.left)
           add == range * ((s.bins \div 2 ^ (s.left - n)) % 2 ^ n)
           a == [s.e EXCEPT !.low = @ * 2 ^ n + add, !.bitsLeft = @ - n]
           t == PutGroup(s, n, range)
<1>1. DOMAIN s = {"e", "bins", "left"} /\ Encoder(s.e, 12) /\ s.bins \in Int /\ s.left \in 1 .. 32
  BY DEF Grouped
<1>2. n \in 1 .. 8 /\ s.left - n \in 0 .. 32
  BY <1>1 DEF MinOf
<1> HIDE DEF n
<1>3. 2 ^ n \in Nat /\ 2 ^ n > 0 /\ 2 ^ (s.left - n) \in Nat /\ 2 ^ (s.left - n) > 0
  <2>1. n \in 0 .. 32
    BY <1>2
  <2>2. 2 ^ n \in Positive /\ 2 ^ (s.left - n) \in Positive
    BY <1>2, <2>1, Powers, Zenon
  <2> QED
    BY <2>2 DEF Positive
<1>4. s.e.low * 2 ^ n + add \in Int
  <2> DEFINE p == 2 ^ n
             q == 2 ^ (s.left - n)
             x == s.bins \div q
             y == x % p
  <2>0. p \in Nat /\ p > 0 /\ q \in Nat /\ q > 0
    BY <1>3
  <2> HIDE DEF p, q
  <2>1. x \in Int
    BY <1>1, <2>0
  <2> HIDE DEF x
  <2>2. y \in Int
    BY <2>0, <2>1
  <2> HIDE DEF y
  <2>3. s.e.low \in Int
    BY <1>1 DEF Encoder
  <2>4. s.e.low * p + range * y \in Int
    <3>1. s.e.low * p \in Int /\ range * y \in Int
      BY <2>0, <2>2, <2>3
    <3> QED
      BY <3>1
  <2> QED
    BY <2>4 DEF p, q, x, y
<1>5. Encoder(a, 4)
  <2>1. s.e.bitsLeft - n \in 4 .. 23
    BY <1>1, <1>2 DEF Encoder
  <2> HIDE DEF add
  <2> QED
    BY <1>1, <1>4, <2>1 DEF Encoder, Fields
<1>6. Encoder(WriteIfDue(a), 12)
  BY <1>5, WriteIfDueOK
<1>7. t = [s EXCEPT !.e = WriteIfDue(a), !.left = s.left - n]
  BY DEF PutGroup
<1> HIDE DEF a, t
<1>8. Grouped(t)
  BY <1>1, <1>2, <1>6, <1>7 DEF Grouped
<1> QED
  BY <1>8 DEF t, n

LEMMA GroupsOK ==
  ASSUME NEW s, Encoder(s, 12), NEW bins \in Int, NEW numBins \in 1 .. 32
  PROVE  Encoder(encodeBinsEP(s, bins, numBins), 12)
<1> DEFINE g == [e |-> s, bins |-> bins, left |-> numBins]
           groups == <<1, 2, 3, 4>>
<1>1. GroupsKeep(<<>>, g)
  BY DEF GroupsKeep, Grouped
<1>2. ASSUME NEW a, NEW seq \in Seq(Nat), NEW x \in Nat, GroupsKeep(seq, a)
      PROVE  GroupsKeep(Append(seq, x), BypassGroup(a, x)) /\ GroupsKeep(Append(seq, x), AlignedGroup(a, x))
  <2>1. Grouped(a)
    BY <1>2 DEF GroupsKeep
  <2>2. a.e.range \in Int /\ 256 \in Int
    <3>1. a.e.range \in 256 .. 510
      BY <2>1 DEF Grouped, Encoder
    <3>2. 256 \in Int /\ \A r \in 256 .. 510 : r \in Int
      OBVIOUS
    <3> QED
      BY <3>1, <3>2, Zenon
  <2>3. CASE a.left = 0
    BY <2>1, <2>3 DEF GroupsKeep, BypassGroup, AlignedGroup
  <2>4. CASE a.left # 0
    <3>1. Grouped(PutGroup(a, MinOf(8, a.left), a.e.range)) /\ Grouped(PutGroup(a, MinOf(8, a.left), 256))
      BY <2>1, <2>2, <2>4, GroupOK, Zenon
    <3> QED
      BY <2>4, <3>1 DEF GroupsKeep, BypassGroup, AlignedGroup
  <2> QED
    BY <2>3, <2>4
<1> HIDE DEF g
<1>3. groups \in Seq(Nat)
  OBVIOUS
<1> HIDE DEF groups
<1>4. Grouped(Bypassing!Fold(g, groups))
  <2>1. \A seq \in Seq(Nat) : GroupsKeep(seq, Bypassing!Fold(g, seq))
    BY <1>1, <1>2, Bypassing!FoldKeeps
  <2> QED
    BY <1>3, <2>1 DEF GroupsKeep
<1>5. Grouped(Aligned!Fold(g, groups))
  <2>1. \A seq \in Seq(Nat) : GroupsKeep(seq, Aligned!Fold(g, seq))
    BY <1>1, <1>2, Aligned!FoldKeeps
  <2> QED
    BY <1>3, <2>1 DEF GroupsKeep
<1>6. FoldLeft(BypassGroup, g, groups) = Bypassing!Fold(g, groups)
  BY DEF Bypassing!Fold, FoldLeft, Bypassing!FoldLeft, MapThenFoldSet, Bypassing!MapThenFoldSet, Max,
         Bypassing!Max
<1>7. FoldLeft(AlignedGroup, g, groups) = Aligned!Fold(g, groups)
  BY DEF Aligned!Fold, FoldLeft, Aligned!FoldLeft, MapThenFoldSet, Aligned!MapThenFoldSet, Max, Aligned!Max
<1>8. encodeBinsEP(s, bins, numBins)
        = IF s.range = 256 THEN FoldLeft(AlignedGroup, g, groups).e ELSE FoldLeft(BypassGroup, g, groups).e
  BY DEF encodeBinsEP, g, groups
<1> QED
  BY <1>4, <1>5, <1>6, <1>7, <1>8 DEF Grouped

\* The end of the arithmetic code: a carry, and the bits that are left.
LEMMA FinishOK ==
  ASSUME NEW s, Encoder(s, 12)
  PROVE  Encoder(finish(s), 12)
<1> DEFINE limit == 2 ^ (32 - s.bitsLeft)
           bits == (s.low % limit) \div 256
           carried == PutBytes(Put(s, s.buffered + 1, 8), 0, s.numBuffered - 1)
           start == IF s.numBuffered > 0 THEN Put(s, s.buffered, 8) ELSE s
           plain == PutBytes(start, 255, s.numBuffered - 1)
           rest == IF s.low >= limit THEN carried ELSE plain
<1>1. s.low \in Int /\ s.bitsLeft \in 12 .. 23 /\ s.buffered \in Int /\ s.numBuffered \in Int
  BY DEF Encoder
<1>2. s.buffered + 1 \in Int /\ s.numBuffered - 1 \in Int /\ 8 \in 1 .. 16 /\ 0 \in Int /\ 255 \in Int
      /\ 24 - s.bitsLeft \in 1 .. 16
  BY <1>1
<1>3. Encoder(carried, 12)
  BY <1>2, PutOK, PutBytesOK, Zenon
<1>4. Encoder(start, 12)
  BY <1>1, <1>2, PutOK, Zenon
<1>5. Encoder(plain, 12)
  <2> HIDE DEF start
  <2> QED
    BY <1>2, <1>4, PutBytesOK, Zenon
<1>6. bits \in Int
  <2>1. 32 - s.bitsLeft \in 0 .. 32
    BY <1>1
  <2>2. limit \in Positive
    BY <2>1, Powers, Zenon
  <2> HIDE DEF limit
  <2> QED
    BY <1>1, <2>2 DEF Positive
<1> HIDE DEF bits, limit, carried, plain
<1>7. Encoder(rest, 12)
  BY <1>3, <1>5
<1> HIDE DEF rest
<1>8. Encoder(Put(rest, bits, 24 - s.bitsLeft), 12)
  BY <1>2, <1>6, <1>7, PutOK, Zenon
<1>9. finish(s) = Put(rest, bits, 24 - s.bitsLeft)
  BY DEF finish, rest, bits, limit, carried, plain, start
<1> QED
  BY <1>8, <1>9

\* A byte that is complete.
LEMMA ByteFull ==
  ASSUME NEW out, Output(out), NEW bits \in Int, NEW n \in 1 .. 8, out.num + n = 8
  PROVE  /\ write(out, bits, n).num = 0 /\ write(out, bits, n).bytes # <<>>
         /\ Last(write(out, bits, n).bytes) = (out.held * 2 ^ n + bits) % 256
<1> DEFINE total == out.num + n
           word  == out.held * 2 ^ n + bits
           more  == [i \in 1 .. total \div 8 |-> (word \div 2 ^ (total - 8 * i)) % 256]
           r     == write(out, bits, n)
<1>1. out.bytes \in Seq(Byte) /\ total = 8 /\ total \div 8 = 1 /\ total % 8 = 0
  <2>1. \A x : x = 8 => x \div 8 = 1 /\ x % 8 = 0
    OBVIOUS
  <2> QED
    BY <2>1 DEF Output
<1>2. word \in Int
  <2>1. n \in 0 .. 32
    OBVIOUS
  <2>2. 2 ^ n \in Positive
    BY <2>1, Powers, Zenon
  <2> QED
    BY <2>2 DEF Positive, Output
<1>3. r = [bytes |-> out.bytes \o more, held |-> word % 2 ^ (total % 8), num |-> total % 8]
  BY DEF write
<1> HIDE DEF word, r
<1>4. more = <<word % 256>>
  <2>1. 8 - 8 * 1 = 0 /\ 2 ^ 0 = 1 /\ word \div 1 = word
    BY <1>2
  <2>2. (word \div 2 ^ (total - 8 * 1)) % 256 = word % 256
    <3>1. total - 8 * 1 = 0
      BY <1>1
    <3> HIDE DEF total
    <3>2. 2 ^ (total - 8 * 1) = 1
      BY <2>1, <3>1, Zenon
    <3> QED
      BY <2>1, <3>2, Zenon
  <2>3. DOMAIN more = 1 .. 1 /\ more[1] = word % 256
    <3>1. DOMAIN more = 1 .. 1 /\ more[1] = (word \div 2 ^ (total - 8 * 1)) % 256
      BY <1>1
    <3> HIDE DEF more, total
    <3> QED
      BY <2>2, <3>1
  <2>4. more = [i \in 1 .. 1 |-> word % 256]
    <3>1. \A i \in 1 .. 1 : more[i] = word % 256
      <4> HIDE DEF more
      <4> QED
        BY <2>3
    <3> QED
      BY <1>1, <3>1
  <2> HIDE DEF more
  <2>5. [i \in 1 .. 1 |-> word % 256] = <<word % 256>>
    BY <1>2
  <2> QED
    BY <2>4, <2>5
<1> HIDE DEF total, more
<1>5. word % 256 \in Byte
  BY <1>2 DEF Byte
<1>6. r.num = 0 /\ r.bytes = out.bytes \o <<word % 256>>
  BY <1>1, <1>3, <1>4
<1>7. r.bytes # <<>> /\ r.bytes[Len(r.bytes)] = word % 256
  <2> DEFINE b == <<word % 256>>
  <2>1. b \in Seq(Byte) /\ Len(b) = 1 /\ b[1] = word % 256
    BY <1>5
  <2> HIDE DEF b
  <2>2. /\ r.bytes \in Seq(Byte) /\ Len(r.bytes) = Len(out.bytes) + 1
        /\ \A k \in 1 .. 1 : r.bytes[Len(out.bytes) + k] = b[k]
    BY <1>1, <1>6, <2>1, Joined DEF b
  <2>3. Len(out.bytes) \in Nat
    BY <1>1
  <2> QED
    BY <2>1, <2>2, <2>3
<1> QED
  BY <1>6, <1>7 DEF r, word, Last

\* The byte with the stop bit is complete, and not zero.
LEMMA AlignmentOK ==
  ASSUME NEW out, Output(out)
  PROVE  LET r == writeByteAlignment(out)
         IN Output(r) /\ r.bytes # <<>> /\ r.bytes[Len(r.bytes)] # 0
<1> DEFINE m == write(out, 1, 1)
<1>1. out.bytes \in Seq(Byte) /\ out.held \in Int /\ out.num \in 0 .. 7
  BY DEF Output
<1>2. 1 \in Int /\ 1 \in 1 .. 16 /\ 1 \in 1 .. 8 /\ 0 \in Int /\ 2 ^ 1 = 2
  OBVIOUS
<1>3. Output(m)
  BY <1>2, WriteOK, Zenon
<1>4. CASE out.num = 7
  <2>1. out.num + 1 = 8
    BY <1>4
  <2>2. m.num = 0 /\ m.bytes # <<>> /\ Last(m.bytes) = (out.held * 2 ^ 1 + 1) % 256
    BY <1>2, <2>1, ByteFull, ZenonT(30)
  <2> HIDE DEF m
  <2>3. (out.held * 2 ^ 1 + 1) % 256 # 0
    BY <1>1
  <2>4. writeByteAlignment(out) = m
    BY <2>2 DEF writeByteAlignment, writeAlignZero, m
  <2> QED
    BY <1>3, <2>2, <2>3, <2>4 DEF Last
<1>5. CASE out.num \in 0 .. 6
  <2> DEFINE k == out.num + 1
  <2>1. k \in 1 .. 7 /\ k % 8 = k
    <3>1. \A x \in 1 .. 7 : x % 8 = x
      OBVIOUS
    <3>2. k \in 1 .. 7
      BY <1>5
    <3> HIDE DEF k
    <3> QED
      BY <3>1, <3>2
  <2>2. m.num = k /\ m.held = (out.held * 2 + 1) % 2 ^ k
    BY <1>2, <2>1 DEF write
  <2> HIDE DEF k, m
  <2>3. k \in 0 .. 30 /\ 8 - k \in 0 .. 30 /\ 8 - k \in 1 .. 8 /\ 8 - k \in 1 .. 16 /\ m.num + (8 - k) = 8 /\ m.num # 0
    BY <2>1, <2>2
  <2>4. PowerIs(k, 2 ^ k) /\ PowerIs(8 - k, 2 ^ (8 - k))
    BY <2>3, SmallPowers, Zenon
  <2> DEFINE r == write(m, 0, 8 - k)
  <2>5. Output(r)
    BY <1>2, <1>3, <2>3, WriteOK, Zenon
  <2>6. r.bytes # <<>> /\ Last(r.bytes) = (m.held * 2 ^ (8 - k) + 0) % 256
    BY <1>2, <1>3, <2>3, ByteFull, ZenonT(30)
  <2>7. (m.held * 2 ^ (8 - k) + 0) % 256 # 0
    <3> DEFINE p == 2 ^ k
               q == 2 ^ (8 - k)
               h == out.held
    <3>1. PowerIs(k, p) /\ PowerIs(8 - k, q) /\ m.held = (h * 2 + 1) % p /\ h \in Int
      BY <1>1, <2>2, <2>4
    <3> HIDE DEF p, q, h
    <3>2. \/ p = 2 /\ q = 128
          \/ p = 4 /\ q = 64
          \/ p = 8 /\ q = 32
          \/ p = 16 /\ q = 16
          \/ p = 32 /\ q = 8
          \/ p = 64 /\ q = 4
          \/ p = 128 /\ q = 2
      BY <2>1, <3>1 DEF PowerIs
    <3>3. m.held \in 1 .. p - 1
      BY <3>1, <3>2
    <3> DEFINE y == m.held
    <3>4. y \in 1 .. p - 1
      BY <3>3
    <3> HIDE DEF y
    <3>5. (y * q + 0) % 256 # 0
      <4>1. y * q \in 1 .. 255
        BY <3>2, <3>4
      <4>2. \A x \in 1 .. 255 : (x + 0) % 256 # 0
        OBVIOUS
      <4> QED
        BY <4>1, <4>2, Zenon
    <3> QED
      BY <3>5 DEF y, q
  <2>8. writeByteAlignment(out) = r
    <3>1. writeByteAlignment(out) = IF m.num = 0 THEN m ELSE write(m, 0, 8 - m.num)
      BY DEF writeByteAlignment, writeAlignZero, m
    <3> QED
      BY <2>2, <2>3, <3>1
  <2> HIDE DEF r
  <2> QED
    BY <2>5, <2>6, <2>7, <2>8 DEF Last
<1> QED
  BY <1>1, <1>4, <1>5

LEMMA EndOK ==
  ASSUME NEW s, Encoder(s, 12)
  PROVE  /\ Encoder(end_of_slice(s), 12)
         /\ end_of_slice(s).out.bytes # <<>> /\ Last(end_of_slice(s).out.bytes) # 0
<1> DEFINE f == finish(encodeBinTrm(s, 1))
           r == writeByteAlignment(f.out)
<1>1. Encoder(f, 12)
  BY TerminatingOK, FinishOK
<1> HIDE DEF f
<1>2. DOMAIN f = Fields /\ Output(f.out)
  BY <1>1 DEF Encoder
<1>3. Output(r) /\ r.bytes # <<>> /\ r.bytes[Len(r.bytes)] # 0
  BY <1>2, AlignmentOK
<1>4. end_of_slice(s) = [f EXCEPT !.out = r]
  BY DEF end_of_slice, f
<1> HIDE DEF r
<1>5. Encoder([f EXCEPT !.out = r], 12) /\ [f EXCEPT !.out = r].out = r
  BY <1>1, <1>3 DEF Encoder, Fields
<1> QED
  BY <1>3, <1>4, <1>5 DEF Last

LEMMA RestartedOK ==
  ASSUME NEW s, Encoder(s, 12)
  PROVE  Encoder(Restarted(s), 12)
  BY DEF Encoder, Fields, Restarted

LEMMA PcmOK ==
  ASSUME NEW s, Encoder(s, 12), NEW samples \in Seq(Nat), NEW bits \in 1 .. 16
  PROVE  Encoder(pcm_data(s, samples, bits), 12)
<1> DEFINE aligned == end_of_slice(s)
           words == [i \in DOMAIN samples |-> <<samples[i], bits>>]
<1>1. Encoder(aligned, 12)
  BY EndOK
<1>2. words \in Seq(Words)
  <2>1. ASSUME NEW i \in DOMAIN samples PROVE <<samples[i], bits>> \in Words
    BY SMTT(20) DEF Words
  <2>2. DOMAIN samples = 1 .. Len(samples) /\ Len(samples) \in Nat
    OBVIOUS
  <2> QED
    BY <2>1, <2>2
<1>3. Encoder(FoldLeft(PutWord, aligned, words), 12)
  <2> HIDE DEF aligned, words
  <2> QED
    BY <1>1, <1>2, PutWordsOK
<1>4. pcm_data(s, samples, bits) = Restarted(FoldLeft(PutWord, aligned, words))
  BY DEF pcm_data, end_of_slice
<1> HIDE DEF aligned, words
<1> QED
  BY <1>3, <1>4, RestartedOK

LEMMA StartedOK == Encoder(Started(Models), 12)
<1>1. Models \in [DOMAIN Models -> Int \X Int]
  BY BitstreamFileAssumption
<1>2. NoOutput = [bytes |-> <<>>, held |-> 0, num |-> 0]
  BY DEF NoOutput
<1>3. Output(NoOutput)
  BY <1>2 DEF Output
<1> HIDE DEF NoOutput
<1> QED
  BY <1>1, <1>3 DEF Encoder, Fields, Started, Restarted

\* What the encoder may be asked to code.
LEMMA EncodeOK ==
  ASSUME NEW s, Encoder(s, 12), NEW sym \in Coding
  PROVE  Encoder(Encode(s, sym), 12)
<1>1. CASE sym \in {"bin"} \X (DOMAIN Models) \X {0, 1}
  <2>1. sym[1] = "bin" /\ sym[2] \in DOMAIN Models
    BY <1>1
  <2>2. Encode(s, sym) = encodeBin(s, sym[2], sym[3])
    BY <2>1 DEF Encode
  <2> QED
    BY <2>1, <2>2, BinOK
<1>2. CASE sym \in {"ep"} \X {0, 1}
  <2>1. sym[1] = "ep" /\ sym[2] \in Int
    BY <1>2
  <2>2. Encode(s, sym) = encodeBinEP(s, sym[2])
    BY <2>1 DEF Encode
  <2> QED
    BY <2>1, <2>2, BypassOK
<1>3. CASE sym \in {"eps"} \X Nat \X (1 .. 32)
  <2>1. sym[1] = "eps" /\ sym[2] \in Int /\ sym[3] \in 1 .. 32
    BY <1>3
  <2>2. Encode(s, sym) = encodeBinsEP(s, sym[2], sym[3])
    BY <2>1 DEF Encode
  <2> QED
    BY <2>1, <2>2, GroupsOK
<1>4. CASE sym \in {<<"trm">>}
  <2>1. sym[1] = "trm"
    BY <1>4
  <2>2. Encode(s, sym) = encodeBinTrm(s, 0)
    BY <2>1 DEF Encode
  <2> QED
    BY <2>2, TerminatingOK
<1>5. CASE sym \in {"pcm"} \X Seq(Nat) \X (1 .. 16)
  <2>1. sym[1] = "pcm" /\ sym[2] \in Seq(Nat) /\ sym[3] \in 1 .. 16
    BY <1>5
  <2>2. Encode(s, sym) = pcm_data(s, sym[2], sym[3])
    BY <2>1 DEF Encode
  <2> QED
    BY <2>1, <2>2, PcmOK
<1> QED
  BY <1>1, <1>2, <1>3, <1>4, <1>5 DEF Coding

EncodingKeeps(seq, s) == Encoder(s, 12)
Encoding == INSTANCE FoldInduction WITH Op <- Encode, Keeps <- EncodingKeeps

LEMMA EncodedOK ==
  ASSUME NEW seq \in Seq(Coding)
  PROVE  Encoder(FoldLeft(Encode, Started(Models), seq), 12)
<1>1. EncodingKeeps(<<>>, Started(Models))
  BY StartedOK DEF EncodingKeeps
<1>2. ASSUME NEW a, NEW q \in Seq(Coding), NEW x \in Coding, EncodingKeeps(q, a)
      PROVE  EncodingKeeps(Append(q, x), Encode(a, x))
  BY <1>2, EncodeOK DEF EncodingKeeps
<1>3. EncodingKeeps(seq, Encoding!Fold(Started(Models), seq))
  <2>1. \A q \in Seq(Coding) : EncodingKeeps(q, Encoding!Fold(Started(Models), q))
    BY <1>1, <1>2, Encoding!FoldKeeps
  <2> QED
    BY <2>1
<1>4. FoldLeft(Encode, Started(Models), seq) = Encoding!Fold(Started(Models), seq)
  BY DEF Encoding!Fold, FoldLeft, Encoding!FoldLeft, MapThenFoldSet, Encoding!MapThenFoldSet, Max,
         Encoding!Max
<1> QED
  BY <1>3, <1>4 DEF EncodingKeeps

-----------------------------------------------------------------------------
(* The file as it is read.                                                 *)

\* Unit k can be read from position p.
Begins(units, starts, p, k) == StartsAt(starts[k], units[k], k = 1, p)

\* Read from there, it is unit k, and the next one can be read from where the
\* reader has got to.
ReadsUnit(units, f, starts, p, k) ==
  LET r == byteStreamNALUnit(f, p)
  IN /\ p < Len(f) /\ p \in Nat
     /\ r.unit = NalUnitData(units[k]) /\ r.ok = TRUE /\ r.next = starts[k + 1]
     /\ k < Len(units) => Begins(units, starts, r.told - 3, k + 1)

LEMMA NextUnit ==
  ASSUME NEW S, \A u \in S : Unit(u), NEW units \in Seq(S), NEW f \in Seq(Byte), NEW starts,
         Layout(units, f, starts), NEW k \in 1 .. Len(units), NEW p, Begins(units, starts, p, k)
  PROVE  ReadsUnit(units, f, starts, p, k)
<1> DEFINE n == Len(units)
           a == starts[k]
           b == starts[k + 1]
           c == StartCode(units[k], k = 1)
           data == NalUnitData(units[k])
           told == b + (IF Has(f, b, <<0, 0, 1>>) THEN 3 ELSE 4)
<1>1. n \in Nat /\ starts \in [1 .. n + 1 -> Nat] /\ starts[n + 1] = Len(f) /\ Len(f) \in Nat
      /\ \A j \in 1 .. n : UnitAt(f, starts[j], starts[j + 1], units[j], j = 1)
  BY DEF Layout
<1>2. Unit(units[k]) /\ (k = 1) \in BOOLEAN
  OBVIOUS
<1>3. UnitAt(f, a, b, units[k], k = 1)
  BY <1>1
<1>4. Len(c) \in {3, 4} /\ Len(data) \in Nat /\ Len(data) >= 2
  <2>1. Len(c) \in {3, 4}
    BY <1>2, StartCodeOK
  <2>2. data \in Seq(Byte) /\ Len(data) >= 2
    BY <1>2, UnitOK
  <2> HIDE DEF data, c
  <2> QED
    BY <2>1, <2>2
<1>5. a \in Nat /\ b = a + Len(c) + Len(data) /\ b <= Len(f) /\ b \in Nat
  <2>1. a \in Nat /\ b = a + Len(c) + Len(data) /\ b <= Len(f)
    BY <1>3 DEF UnitAt
  <2> HIDE DEF a, b, c, data
  <2> QED
    BY <1>4, <2>1
<1>6. p < Len(f) /\ p \in Nat /\ (p = a \/ (p = a + 1 /\ Len(c) = 4))
  <2>1. p = a \/ (p = a + 1 /\ Len(c) = 4)
    BY DEF Begins, StartsAt
  <2> HIDE DEF a, b, c, data
  <2> QED
    BY <1>1, <1>4, <1>5, <2>1
<1>7. k < n =>
        LET code == StartCode(units[k + 1], (k + 1) = 1)
        IN /\ AtStartCode(f, b) /\ Len(code) \in {3, 4}
           /\ Len(code) = 3 => Has(f, b, <<0, 0, 1>>)
  <2> SUFFICES ASSUME k < n
               PROVE  LET code == StartCode(units[k + 1], (k + 1) = 1)
                      IN /\ AtStartCode(f, b) /\ Len(code) \in {3, 4}
                         /\ Len(code) = 3 => Has(f, b, <<0, 0, 1>>)
    OBVIOUS
  <2> DEFINE code == StartCode(units[k + 1], (k + 1) = 1)
             m == starts[(k + 1) + 1]
             next == NalUnitData(units[k + 1])
  <2>0. k + 1 \in 1 .. n
    BY <1>1
  <2>1. UnitAt(f, b, m, units[k + 1], (k + 1) = 1)
    BY <1>1, <2>0
  <2>2. /\ Len(code) \in {3, 4}
        /\ Len(code) = 3 => code[1] = 0 /\ code[2] = 0 /\ code[3] = 1
        /\ Len(code) = 4 => code[1] = 0 /\ code[2] = 0 /\ code[3] = 0 /\ code[4] = 1
    <3>1. ((k + 1) = 1) \in BOOLEAN
      OBVIOUS
    <3> QED
      BY <3>1, StartCodeOK
  <2>3. Len(next) \in Nat
    <3>1. Unit(units[k + 1])
      BY <2>0
    <3>2. next \in Seq(Byte)
      BY <3>1, UnitOK
    <3> HIDE DEF next
    <3> QED
      BY <3>2
  <2>4. m = b + Len(code) + Len(next) /\ m <= Len(f) /\ \A j \in 1 .. Len(code) : f[b + j] = code[j]
    BY <2>1 DEF UnitAt
  <2> HIDE DEF code, m, next, b
  <2>5. CASE Len(code) = 3
    <3>1. b + 3 <= Len(f) /\ f[b + 1] = 0 /\ f[b + 2] = 0 /\ f[b + 3] = 1
      BY <1>1, <1>5, <2>2, <2>3, <2>4, <2>5
    <3>2. 1 \in 0 .. 2
      OBVIOUS
    <3>3. Has(f, b, <<0, 0, 1>>)
      BY <1>5, <3>1, <3>2, HasThree, Zenon
    <3> QED
      BY <2>5, <3>3 DEF AtStartCode, code
  <2>6. CASE Len(code) = 4
    <3>1. b + 4 <= Len(f) /\ f[b + 1] = 0 /\ f[b + 2] = 0 /\ f[b + 3] = 0 /\ f[b + 4] = 1
      BY <1>1, <1>5, <2>2, <2>3, <2>4, <2>6
    <3>2. Has(f, b, <<0, 0, 0, 1>>)
      BY <1>5, <3>1, HasFour, Zenon
    <3>3. AtStartCode(f, b) /\ Len(code) \in {3, 4} /\ (Len(code) = 3 => Has(f, b, <<0, 0, 1>>))
      BY <2>6, <3>2 DEF AtStartCode
    <3> QED
      BY <3>3 DEF code
  <2> QED
    BY <2>2, <2>5, <2>6 DEF code
<1>8. b < Len(f) => AtStartCode(f, b)
  <2>1. CASE k < n
    BY <1>7, <2>1
  <2>2. CASE k = n
    BY <1>1, <2>2
  <2> QED
    BY <1>1, <2>1, <2>2
<1>9. byteStreamNALUnit(f, p) = [unit |-> data, next |-> b, told |-> told, ok |-> TRUE]
  <2>1. PICK first \in BOOLEAN : first = (k = 1)
    OBVIOUS
  <2>2. UnitAt(f, a, b, units[k], first) /\ StartsAt(a, units[k], first, p)
    BY <1>3, <2>1 DEF Begins
  <2> HIDE DEF a, b
  <2>3. ReadUpTo(f, p, units[k], b)
    BY <1>2, <1>8, <2>2, UnitRead
  <2> QED
    BY <2>3 DEF ReadUpTo
<1>10. k < n => Begins(units, starts, told - 3, k + 1)
  <2> SUFFICES ASSUME k < n PROVE Begins(units, starts, told - 3, k + 1)
    OBVIOUS
  <2>1. CASE Has(f, b, <<0, 0, 1>>)
    <3>1. told - 3 = b
      <4> HIDE DEF b
      <4> QED
        BY <1>5, <2>1
    <3> QED
      BY <3>1 DEF Begins, StartsAt
  <2>2. CASE ~Has(f, b, <<0, 0, 1>>)
    <3>1. told - 3 = b + 1
      <4> HIDE DEF b
      <4> QED
        BY <1>5, <2>2
    <3>2. Len(StartCode(units[k + 1], (k + 1) = 1)) = 4
      BY <1>7, <2>2
    <3> HIDE DEF told
    <3> QED
      BY <3>1, <3>2 DEF Begins, StartsAt
  <2> QED
    BY <2>1, <2>2
<1> HIDE DEF told, data, b
<1> QED
  BY <1>6, <1>9, <1>10 DEF data, b, ReadsUnit

-----------------------------------------------------------------------------
(* The inductive invariant.                                                *)

\* The first k units as they are read.
FirstRead(units, k) == [i \in 1 .. k |-> [type |-> units[i].type, rbsp |-> units[i].rbsp, ok |-> TRUE]]

\* k units have been read; the next one is read from here, or once more from
\* three bytes before the place that the look-ahead had reached (from).
Reached(units, f, starts, k, here, from) ==
  /\ k = Len(units) => here.next = Len(f)
  /\ k < Len(units) =>
       /\ Begins(units, starts, here.next, k + 1)
       /\ here.told > here.next => Begins(units, starts, here.told - 3, k + 1)
  /\ from.told > from.next => k > 0 /\ Begins(units, starts, from.told - 3, k)

InFile ==
  \E starts : /\ Layout(au, file, starts)
              /\ \E k \in 0 .. Len(au) : got = FirstRead(au, k) /\ Reached(au, file, starts, k, in, location)

FramingInv ==
  /\ stage \in {"code", "write", "read", "done"}
  /\ stage = "code" => Encoder(e, 12)
  /\ stage \in {"code", "write"} => got = <<>> /\ in = [next |-> 0, told |-> 0] /\ location = in
  /\ stage # "code" => AreUnits(au)
  /\ stage \in {"read", "done"} => file \in Seq(Byte) /\ InFile

LEMMA FirstReadNext ==
  ASSUME NEW units, NEW k \in Nat
  PROVE  /\ Append(FirstRead(units, k), [type |-> units[k + 1].type, rbsp |-> units[k + 1].rbsp, ok |-> TRUE])
              = FirstRead(units, k + 1)
         /\ k > 0 => Front(FirstRead(units, k)) = FirstRead(units, k - 1)
         /\ Len(FirstRead(units, k)) = k
<1> DEFINE back(i) == [type |-> units[i].type, rbsp |-> units[i].rbsp, ok |-> TRUE]
           S == {back(i) : i \in Nat}
           g(m) == [i \in 1 .. m |-> back(i)]
<1>2. \A m : FirstRead(units, m) = g(m)
  BY DEF FirstRead
<1> HIDE DEF back
<1>0. \A i \in Nat : back(i) \in S
  OBVIOUS
<1> HIDE DEF S
<1>1. ASSUME NEW m \in Nat
      PROVE  g(m) \in Seq(S) /\ Len(g(m)) = m /\ \A i \in 1 .. m : g(m)[i] = back(i)
  BY <1>0
<1>3. back(k + 1) \in S
  BY <1>0
<1> HIDE DEF g, back, S
<1>4. Append(g(k), back(k + 1)) = g(k + 1)
  <2> DEFINE p == g(k)
             q == g(k + 1)
             a == Append(p, back(k + 1))
  <2>1. p \in Seq(S) /\ q \in Seq(S) /\ Len(p) = k /\ Len(q) = k + 1
    BY <1>1
  <2>2. /\ \A i \in 1 .. k : p[i] = back(i)
        /\ \A i \in 1 .. k + 1 : q[i] = back(i)
    BY <1>1
  <2> HIDE DEF p, q
  <2>3. a \in Seq(S) /\ Len(a) = k + 1 /\ a[k + 1] = back(k + 1) /\ \A i \in 1 .. k : a[i] = p[i]
    BY <1>3, <2>1
  <2> HIDE DEF a
  <2>4. ASSUME NEW i \in 1 .. k + 1 PROVE a[i] = q[i]
    <3>1. i \in 1 .. k \/ i = k + 1
      OBVIOUS
    <3> QED
      BY <2>2, <2>3, <3>1
  <2>5. a = q
    BY <2>1, <2>3, <2>4
  <2> QED
    BY <2>5 DEF a, p, q
<1>5. ASSUME k > 0 PROVE Front(g(k)) = g(k - 1)
  <2> DEFINE p == g(k)
             q == g(k - 1)
             a == SubSeq(p, 1, k - 1)
  <2>0. k - 1 \in Nat
    BY <1>5
  <2>1. p \in Seq(S) /\ q \in Seq(S) /\ Len(p) = k /\ Len(q) = k - 1
    BY <1>1, <2>0
  <2>2. /\ \A i \in 1 .. k : p[i] = back(i)
        /\ \A i \in 1 .. k - 1 : q[i] = back(i)
    BY <1>1, <2>0
  <2> HIDE DEF p, q
  <2>3. a \in Seq(S) /\ Len(a) = k - 1 /\ \A i \in 1 .. k - 1 : a[i] = p[i]
    BY <2>0, <2>1
  <2>4. Front(p) = a
    BY <2>1 DEF Front
  <2> HIDE DEF a
  <2>5. \A i \in 1 .. k - 1 : a[i] = q[i]
    BY <2>2, <2>3
  <2>6. a = q
    BY <2>0, <2>1, <2>3, <2>5
  <2> QED
    BY <2>4, <2>6 DEF p, q
<1>6. Len(g(k)) = k
  BY <1>1
<1> QED
  BY <1>2, <1>4, <1>5, <1>6 DEF back

LEMMA FramingInit == Init => FramingInv
<1> SUFFICES ASSUME Init PROVE FramingInv
  OBVIOUS
<1>1. syms \in Seq(Coding)
  BY BitstreamFileAssumption DEF Init
<1>2. Encoder(e, 12)
  BY <1>1, EncodedOK DEF Init
<1> QED
  BY <1>2 DEF Init, FramingInv

\* An access unit of one or two companions and a slice of any payload.
Taken(p, words, c, last) ==
  \/ au' = <<c, Slice(p, words)>>
  \/ au' = <<c, Slice(p, IF IsVcl(last.type) THEN 0 ELSE words), last>>

\* The units of the access unit.
LEMMA EndSliceUnits == FramingInv /\ EndSlice => AreUnits(au')
<1> SUFFICES ASSUME FramingInv, EndSlice PROVE AreUnits(au')
  OBVIOUS
<1>1. IsVcl(1) /\ 1 \in 0 .. 63
  BY DEF IsVcl
<1>2. ASSUME NEW p \in Payloads, NEW words \in 0 .. 2, NEW c \in Companions, NEW last \in Companions,
             Taken(p, words, c, last)
      PROVE  AreUnits(au')
  <2> DEFINE x == Slice(p, words)
             y == Slice(p, IF IsVcl(last.type) THEN 0 ELSE words)
             S == {c, x, y, last}
  <2>1. Payload(p) /\ Unit(c) /\ Unit(last)
    BY BitstreamFileAssumption DEF Unit
  <2>2. Unit(x) /\ Unit(y)
    BY <1>1, <2>1 DEF Unit, Slice
  <2>3. \A u \in S : Unit(u)
    BY <2>1, <2>2
  <2> HIDE DEF x, y
  <2>4. <<c, x>> \in Seq(S) /\ <<c, y, last>> \in Seq(S)
    OBVIOUS
  <2>5. au' \in Seq(S)
    BY <1>2, <2>4 DEF x, y, Taken
  <2> QED
    BY <2>3, <2>5 DEF AreUnits
<1> DEFINE own == Slice(<<128>> \o e'.out.bytes, 0)
<1>3. ASSUME au' = <<own>> PROVE AreUnits(au')
  <2> DEFINE b == e'.out.bytes
             p == <<128>> \o b
             u == Slice(p, 0)
             S == {u}
  <2>1. Encoder(e, 12) /\ e' = end_of_slice(e)
    BY DEF FramingInv, EndSlice
  <2>2. Encoder(e', 12) /\ b # <<>> /\ Last(b) # 0
    BY <2>1, EndOK
  <2>3. b \in Seq(Byte) /\ <<128>> \in Seq(Byte)
    BY <2>2 DEF Encoder, Output, Byte
  <2> HIDE DEF b
  <2>4. Payload(p)
    <3> DEFINE h == <<128>>
    <3>1. h \in Seq(Byte) /\ Len(h) = 1
      BY <2>3
    <3> HIDE DEF h
    <3>2. /\ h \o b \in Seq(Byte) /\ Len(h \o b) = 1 + Len(b)
          /\ \A k \in 1 .. Len(b) : (h \o b)[Len(h) + k] = b[k]
      BY <2>3, <3>1, Joined
    <3>3. Len(b) \in Nat /\ Len(b) > 0 /\ b[Len(b)] # 0
      BY <2>2, <2>3 DEF Last
    <3>4. (h \o b)[Len(h \o b)] = b[Len(b)]
      BY <3>1, <3>2, <3>3
    <3>5. p = h \o b
      BY DEF h
    <3> HIDE DEF p
    <3> QED
      BY <3>2, <3>3, <3>4, <3>5 DEF Payload, Byte, Last
  <2>5. Unit(u)
    <3> HIDE DEF p
    <3> QED
      BY <1>1, <2>4 DEF Unit, Slice
  <2> HIDE DEF u
  <2>6. au' = <<u>>
    BY <1>3 DEF u, b
  <2>7. au' \in Seq(S) /\ \A z \in S : Unit(z)
    BY <2>5, <2>6
  <2> QED
    BY <2>7 DEF AreUnits
<1> QED
  BY <1>2, <1>3 DEF EndSlice, Taken

LEMMA RightStays ==
  ASSUME NEW type, NEW rbsp, NEW right, NEW n, n = [type |-> type, rbsp |-> rbsp, ok |-> right], right = TRUE,
         NEW ok, ok = TRUE
  PROVE  [n EXCEPT !.ok = @ /\ ok] = n
<1>1. n.ok = right /\ DOMAIN n = {"type", "rbsp", "ok"} /\ (right /\ ok) = TRUE
  OBVIOUS
<1> QED
  BY <1>1

LEMMA ReadUnitKeeps == FramingInv /\ ReadUnit => InFile'
<1> SUFFICES ASSUME FramingInv, ReadUnit PROVE InFile'
  OBVIOUS
<1>1. AreUnits(au) /\ file \in Seq(Byte) /\ InFile
  BY DEF FramingInv, ReadUnit
<1>2. PICK S : au \in Seq(S) /\ \A u \in S : Unit(u)
  BY <1>1 DEF AreUnits
<1>3. PICK starts : /\ Layout(au, file, starts)
                    /\ \E k \in 0 .. Len(au) : got = FirstRead(au, k) /\ Reached(au, file, starts, k, in, location)
  BY <1>1 DEF InFile
<1>4. PICK k \in 0 .. Len(au) : got = FirstRead(au, k) /\ Reached(au, file, starts, k, in, location)
  BY <1>3
<1> DEFINE r == byteStreamNALUnit(file, in.next)
           unit == au[k + 1]
<1>5. Len(au) \in Nat /\ starts \in [1 .. Len(au) + 1 -> Nat] /\ starts[Len(au) + 1] = Len(file) /\ Len(file) \in Nat
  BY <1>1, <1>2, <1>3 DEF Layout
<1>6. k < Len(au) /\ k + 1 \in 1 .. Len(au) /\ k \in Nat
  <2>1. in.next < Len(file)
    BY DEF ReadUnit
  <2>2. k # Len(au)
    BY <1>4, <1>5, <2>1 DEF Reached
  <2> QED
    BY <1>5, <2>2
<1>7. Begins(au, starts, in.next, k + 1) /\ (in.told > in.next => Begins(au, starts, in.told - 3, k + 1))
  BY <1>4, <1>6 DEF Reached
<1>8. /\ r.unit = NalUnitData(unit) /\ r.ok = TRUE /\ r.next = starts[(k + 1) + 1]
      /\ k + 1 < Len(au) => Begins(au, starts, r.told - 3, (k + 1) + 1)
  <2>1. PICK j : j = k + 1
    OBVIOUS
  <2>2. j \in 1 .. Len(au) /\ Begins(au, starts, in.next, j)
    BY <1>6, <1>7, <2>1
  <2>3. /\ r.unit = NalUnitData(au[j]) /\ r.ok = TRUE /\ r.next = starts[j + 1]
        /\ j < Len(au) => Begins(au, starts, r.told - 3, j + 1)
    <3>1. ReadsUnit(au, file, starts, in.next, j)
      BY <1>1, <1>2, <1>3, <2>2, NextUnit
    <3> QED
      BY <3>1 DEF ReadsUnit
  <2> HIDE DEF r
  <2> QED
    BY <2>1, <2>3
<1>9. /\ in' = [next |-> r.next, told |-> r.told]
      /\ location' = in
      /\ got' = Append(got, IF r.unit = <<>> THEN <<>> ELSE [ReadNal(r.unit) EXCEPT !.ok = @ /\ r.ok])
      /\ au' = au /\ file' = file
  BY DEF ReadUnit
<1> HIDE DEF r
<1>10. got' = FirstRead(au, k + 1)
  <2>1. Unit(unit)
    BY <1>2, <1>6
  <2>2. ReadNal(r.unit) = [type |-> unit.type, rbsp |-> unit.rbsp, ok |-> TRUE] /\ r.unit # <<>>
    <3>1. Len(NalUnitData(unit)) >= 2 /\ ReadNal(NalUnitData(unit)) = [type |-> unit.type, rbsp |-> unit.rbsp, ok |-> TRUE]
      BY <2>1, UnitOK
    <3> QED
      BY <1>8, <3>1
  <2>3. (TRUE /\ r.ok) = TRUE
    BY <1>8
  <2>4. [ReadNal(r.unit) EXCEPT !.ok = @ /\ r.ok] = [type |-> unit.type, rbsp |-> unit.rbsp, ok |-> TRUE]
    <3> DEFINE n == ReadNal(r.unit)
    <3>1. n = [type |-> unit.type, rbsp |-> unit.rbsp, ok |-> TRUE]
      BY <2>2
    <3> HIDE DEF n
    <3>2. PICK right : right = TRUE
      OBVIOUS
    <3>3. n = [type |-> unit.type, rbsp |-> unit.rbsp, ok |-> right]
      BY <3>1, <3>2
    <3>4. [n EXCEPT !.ok = @ /\ r.ok] = n
      BY <1>8, <3>2, <3>3, RightStays
    <3> QED
      BY <3>1, <3>4 DEF n
  <2>5. got' = Append(FirstRead(au, k), [type |-> unit.type, rbsp |-> unit.rbsp, ok |-> TRUE])
    BY <1>4, <1>9, <2>2, <2>4
  <2> QED
    BY <1>6, <2>5, FirstReadNext
<1>11. Reached(au, file, starts, k + 1, in', location')
  <2>1. in'.next = starts[(k + 1) + 1] /\ in'.told = r.told
    BY <1>8, <1>9
  <2>2. k + 1 = Len(au) => in'.next = Len(file)
    BY <1>5, <2>1
  <2>3. k + 1 < Len(au) => Begins(au, starts, in'.next, (k + 1) + 1) /\ Begins(au, starts, in'.told - 3, (k + 1) + 1)
    BY <1>8, <2>1 DEF Begins, StartsAt
  <2>4. location'.told > location'.next => k + 1 > 0 /\ Begins(au, starts, location'.told - 3, k + 1)
    BY <1>6, <1>7, <1>9
  <2> QED
    BY <2>2, <2>3, <2>4 DEF Reached
<1>12. k + 1 \in 0 .. Len(au)
  BY <1>6
<1> QED
  BY <1>3, <1>9, <1>10, <1>11, <1>12 DEF InFile

LEMMA GiveBackKeeps == FramingInv /\ GiveBack => InFile'
<1> SUFFICES ASSUME FramingInv, GiveBack PROVE InFile'
  OBVIOUS
<1>1. AreUnits(au) /\ file \in Seq(Byte) /\ InFile
  BY DEF FramingInv, GiveBack
<1>2. PICK starts : /\ Layout(au, file, starts)
                    /\ \E k \in 0 .. Len(au) : got = FirstRead(au, k) /\ Reached(au, file, starts, k, in, location)
  BY <1>1 DEF InFile
<1>3. PICK k \in 0 .. Len(au) : got = FirstRead(au, k) /\ Reached(au, file, starts, k, in, location)
  BY <1>2
<1>4. /\ location.told > location.next
      /\ in' = [next |-> location.told - 3, told |-> location.told - 3]
      /\ location' = in' /\ got' = Front(got) /\ au' = au /\ file' = file
  BY DEF GiveBack
<1>5. Len(au) \in Nat
  BY <1>1 DEF AreUnits
<1>6. k > 0 /\ Begins(au, starts, location.told - 3, k)
  BY <1>3, <1>4 DEF Reached
<1>7. k - 1 \in 0 .. Len(au) /\ (k - 1) + 1 = k /\ k - 1 # Len(au) /\ k \in Nat
  BY <1>5, <1>6
<1>8. got' = FirstRead(au, k - 1)
  BY <1>3, <1>4, <1>6, <1>7, FirstReadNext
<1>9. in'.next = location.told - 3 /\ in'.told = in'.next /\ location'.told = location'.next
  BY <1>4
<1>10. Reached(au, file, starts, k - 1, in', location')
  <2>1. location.told - 3 \in Nat
    BY <1>2, <1>5, <1>6 DEF Begins, StartsAt, Layout
  <2>2. ~(in'.told > in'.next) /\ ~(location'.told > location'.next)
    <3>1. \A x \in Nat : ~(x > x)
      OBVIOUS
    <3>2. in'.next \in Nat /\ in'.told = in'.next /\ location'.next \in Nat /\ location'.told = location'.next
      BY <1>4, <1>9, <2>1
    <3> QED
      BY <3>1, <3>2
  <2> QED
    BY <1>6, <1>7, <1>9, <2>2 DEF Reached
<1> QED
  BY <1>2, <1>4, <1>7, <1>8, <1>10 DEF InFile

\* The invariant holds in every step.
LEMMA FramingStep == FramingInv /\ [Next]_vars => FramingInv'
<1> SUFFICES ASSUME FramingInv, [Next]_vars PROVE FramingInv'
  OBVIOUS
<1>1. CASE Code
  <2>1. PICK s \in Symbols : e' = Encode(e, s)
    BY <1>1 DEF Code
  <2>2. s \in Coding
    BY BitstreamFileAssumption
  <2>3. Encoder(e', 12)
    BY <1>1, <2>1, <2>2, EncodeOK DEF Code, FramingInv
  <2> QED
    BY <1>1, <2>3 DEF Code, FramingInv
<1>2. CASE EndSlice
  BY <1>2, EndSliceUnits DEF EndSlice, FramingInv
<1>3. CASE WriteFile
  <2>1. AreUnits(au) /\ got = <<>> /\ in = [next |-> 0, told |-> 0] /\ location = in
    BY <1>3 DEF FramingInv, WriteFile
  <2>2. file' = writeAnnexB(au) /\ au' = au /\ got' = got /\ in' = in /\ location' = location /\ stage' = "read"
    BY <1>3 DEF WriteFile
  <2>3. file' \in Seq(Byte) /\ \E starts : Layout(au, file', starts)
    BY <2>1, <2>2, FileOK DEF AreUnits
  <2>4. PICK starts : Layout(au, file', starts)
    BY <2>3
  <2>5. Len(au) \in Nat /\ starts[1] = 0 /\ starts[Len(au) + 1] = Len(file')
    BY <2>1, <2>4 DEF AreUnits, Layout
  <2>6. FirstRead(au, 0) = <<>>
    BY DEF FirstRead
  <2>7. Reached(au, file', starts, 0, in', location')
    <3>1. in'.next = 0 /\ in'.told = 0 /\ location'.next = 0 /\ location'.told = 0
      BY <2>1, <2>2
    <3>2. Begins(au, starts, 0, 0 + 1)
      BY <2>5 DEF Begins, StartsAt
    <3>3. 0 = Len(au) => Len(file') = 0
      BY <2>5
    <3> QED
      BY <3>1, <3>2, <3>3 DEF Reached
  <2>8. 0 \in 0 .. Len(au)
    BY <2>5
  <2>9. InFile'
    BY <2>1, <2>2, <2>4, <2>6, <2>7, <2>8 DEF InFile
  <2> QED
    BY <2>1, <2>2, <2>3, <2>9 DEF FramingInv
<1>4. CASE ReadUnit
  BY <1>4, ReadUnitKeeps DEF ReadUnit, FramingInv
<1>5. CASE GiveBack
  BY <1>5, GiveBackKeeps DEF GiveBack, FramingInv
<1>6. CASE DecodeSlice
  <2>1. InFile => InFile'
    BY <1>6 DEF DecodeSlice, InFile
  <2> QED
    BY <1>6, <2>1 DEF DecodeSlice, FramingInv
<1>7. CASE UNCHANGED vars
  <2>1. InFile => InFile'
    BY <1>7 DEF vars, InFile
  <2> QED
    BY <1>7, <2>1 DEF vars, FramingInv
<1> QED
  BY <1>1, <1>2, <1>3, <1>4, <1>5, <1>6, <1>7 DEF Next

LEMMA FramingInvariant == Spec => []FramingInv
  BY FramingInit, FramingStep, PTL DEF Spec

\* Every unit comes out of the file as it went in, of whatever bytes its payload
\* is, also when it is given back and read once more (UnitsFramed).
THEOREM UnitsComeBack == Spec => []UnitsFramed
<1>1. FramingInv => UnitsFramed
  <2> SUFFICES ASSUME FramingInv PROVE UnitsFramed
    OBVIOUS
  <2>1. CASE stage \in {"code", "write"}
    <3>1. got = <<>>
      BY <2>1 DEF FramingInv
    <3> QED
      BY <2>1, <3>1 DEF UnitsFramed
  <2>2. CASE stage \in {"read", "done"}
    <3>1. AreUnits(au) /\ file \in Seq(Byte) /\ InFile
      BY <2>2 DEF FramingInv
    <3>2. PICK starts : /\ Layout(au, file, starts)
                        /\ \E k \in 0 .. Len(au) : got = FirstRead(au, k) /\ Reached(au, file, starts, k, in, location)
      BY <3>1 DEF InFile
    <3>3. PICK k \in 0 .. Len(au) : got = FirstRead(au, k) /\ Reached(au, file, starts, k, in, location)
      BY <3>2
    <3>4. Len(au) \in Nat /\ k \in Nat /\ k <= Len(au)
      BY <3>1 DEF AreUnits
    <3>5. DOMAIN got = 1 .. k /\ Len(got) = k
          /\ \A i \in 1 .. k : got[i] = [type |-> au[i].type, rbsp |-> au[i].rbsp, ok |-> TRUE]
      BY <3>3, <3>4, FirstReadNext DEF FirstRead
    <3>6. in.next >= Len(file) => k = Len(au)
      <4> SUFFICES ASSUME k < Len(au) PROVE ~(in.next >= Len(file))
        BY <3>4
      <4>1. Begins(au, starts, in.next, k + 1) /\ k + 1 \in 1 .. Len(au)
        BY <3>3, <3>4 DEF Reached
      <4>2. PICK S : au \in Seq(S) /\ \A u \in S : Unit(u)
        BY <3>1 DEF AreUnits
      <4>3. in.next < Len(file) /\ in.next \in Nat
        BY <3>1, <3>2, <4>1, <4>2, NextUnit DEF ReadsUnit
      <4> QED
        BY <3>1, <4>3
    <3> QED
      BY <3>4, <3>5, <3>6 DEF UnitsFramed
  <2> QED
    BY <2>1, <2>2 DEF FramingInv
<1> QED
  BY <1>1, FramingInvariant, PTL

\* Inside a unit there is no start code and no third byte of a reserved pattern
\* but where the writer put it, whatever the encoder was asked to code and
\* whatever a payload holds (NoStartCodeInside).
THEOREM NoStartCodes == Spec => []NoStartCodeInside
<1>1. FramingInv => NoStartCodeInside
  <2> SUFFICES ASSUME FramingInv, stage = "write", NEW i \in DOMAIN au
               PROVE  LET data == NalUnitData(au[i])
                      IN /\ Last(data) # 0
                         /\ \A k \in 3 .. Len(data) :
                              data[k - 2] = 0 /\ data[k - 1] = 0 =>
                                data[k] >= 3 /\ (data[k] = 3 /\ k < Len(data) => data[k + 1] <= 3)
    BY DEF NoStartCodeInside
  <2>1. AreUnits(au)
    BY DEF FramingInv
  <2>2. Unit(au[i])
    BY <2>1 DEF AreUnits
  <2> DEFINE data == NalUnitData(au[i])
  <2>3. data[Len(data)] # 0 /\ NoCode(data)
    BY <2>2, UnitOK
  <2> HIDE DEF data
  <2> QED
    BY <2>3 DEF NoCode, Last, data
<1> QED
  BY <1>1, FramingInvariant, PTL
=============================================================================
