--------------------------- MODULE PictureListProof ---------------------------
(***************************************************************************)
(* What the operations on the decoder's picture list keep: which pictures  *)
(* it holds, that each has a slice, and the types of what they return.     *)
(* The sorting and the two loops that write frames are folds along the     *)
(* list; FoldInduction is instantiated for each.                           *)
(***************************************************************************)
EXTENDS PictureList, FiniteSetTheorems, TLAPS

\* The slices of pictures.
Slices ==
  [nut : SliceTypes, poc : Int, tid : Nat, first : BOOLEAN, nonRef : BOOLEAN,
   refs : Seq(Refs), out : BOOLEAN, noOutputPriorPics : BOOLEAN,
   irapPoc : Int, irapType : RapTypes \cup {"INVALID"}, frame : Nat, cvs : Nat,
   found : UNION {[I -> Nat] : I \in SUBSET Nat}]

Pics ==
  [id : Nat, poc : Int, layer : Nat, referenced : BOOLEAN,
   usedByCurr : BOOLEAN, reconstructed : BOOLEAN, neededForOutput : BOOLEAN,
   slices : Seq(Slices)]

\* A picture that has a slice.
Coded == {p \in Pics : p.slices # <<>>}

Ids(list) == {list[k].id : k \in DOMAIN list}

Items == [cvs : Nat, poc : Int, frame : Nat]

-----------------------------------------------------------------------------
\* A list in the order of the pictures' POCs.
Ascending(list) == \A i, j \in 1 .. Len(list) : i < j => list[i].poc <= list[j].poc

SortKeeps(seq, list) ==
  /\ list \in Seq(Range(seq))
  /\ Range(list) = Range(seq)
  /\ Len(list) = Len(seq)
  /\ (\A p \in Range(seq) : p.poc \in Int) => Ascending(list)

Sorting == INSTANCE FoldInduction WITH Op <- InsertPicture, Keeps <- SortKeeps

\* Min is the least number of a set, as there is one.
LEMMA LeastIsMin ==
  ASSUME NEW s \in SUBSET Nat, s # {}
  PROVE  Min(s) \in s /\ \A y \in s : Min(s) <= y
<1>1. PICK x \in s : \A y \in s : x =< y
  BY Sorting!FirstPosition
<1> QED
  BY <1>1 DEF Min

\* The loops that take the first picture that meets a condition take one that
\* does.
LEMMA SelectOK ==
  ASSUME NEW n \in Nat, NEW I \in SUBSET (1 .. n)
  PROVE  IF I # {} THEN Min(I) \in I ELSE TRUE
BY LeastIsMin

\* Where a picture is found.
LEMMA IndexFound ==
  ASSUME NEW S, NEW list \in Seq(S), NEW id
  PROVE  /\ id \in Ids(list) <=> IndexOf(list, id) # 0
         /\ id \in Ids(list) => /\ IndexOf(list, id) \in 1 .. Len(list)
                                /\ list[IndexOf(list, id)].id = id
<1> DEFINE I == {i \in 1 .. Len(list) : list[i].id = id}
<1>1. IndexOf(list, id) = IF I # {} THEN Min(I) ELSE 0
  BY DEF IndexOf, SelectInSeq
<1>2. id \in Ids(list) <=> I # {}
  BY DEF Ids
<1>3. I # {} => Min(I) \in I
  <2> HIDE DEF I
  <2>1. I \in SUBSET Nat
    BY DEF I
  <2> QED
    BY <2>1, LeastIsMin
<1> QED
  BY <1>1, <1>2, <1>3

\* sortPicList inserts each picture once.
LEMMA Inserted ==
  ASSUME NEW S, NEW list \in Seq(S), NEW p \in S
  PROVE  /\ InsertPicture(list, p) \in Seq(S)
         /\ Len(InsertPicture(list, p)) = Len(list) + 1
         /\ Range(InsertPicture(list, p)) = Range(list) \cup {p}
<1> DEFINE I == {i \in 1 .. Len(list) : list[i].poc >= p.poc}
           k == IF I # {} THEN Min(I) ELSE 0
<1>1. InsertPicture(list, p) = IF k = 0 THEN Append(list, p) ELSE InsertAt(list, k, p)
  BY DEF InsertPicture, SelectInSeq
<1>2. k \in 0 .. Len(list)
  <2> HIDE DEF I
  <2>1. I \in SUBSET (1 .. Len(list))
    BY DEF I
  <2>2. I # {} => Min(I) \in 1 .. Len(list)
    <3>1. I \in SUBSET Nat
      BY <2>1
    <3> QED
      BY <3>1, <2>1, LeastIsMin
  <2> QED
    BY <2>2
<1> HIDE DEF k
<1>3. CASE k = 0
  BY <1>1, <1>3 DEF Range
<1>4. CASE k # 0
  <2> DEFINE r == InsertAt(list, k, p)
  <2>1. /\ r \in Seq(S) /\ Len(r) = Len(list) + 1
        /\ \A i \in 1 .. Len(list) + 1 :
             r[i] = IF i < k THEN list[i] ELSE IF i = k THEN p ELSE list[i - 1]
    BY <1>2, <1>4 DEF InsertAt
  <2> HIDE DEF r
  <2>2. ASSUME NEW x \in Range(list) PROVE x \in Range(r)
    <3>1. PICK j \in 1 .. Len(list) : x = list[j]
      BY DEF Range
    <3>2. x = IF j < k THEN r[j] ELSE r[j + 1]
      BY <3>1, <2>1, <1>2, <1>4
    <3>3. j \in DOMAIN r /\ j + 1 \in DOMAIN r
      BY <2>1
    <3> QED
      BY <3>2, <3>3 DEF Range
  <2>3. p \in Range(r)
    BY <2>1, <1>2, <1>4 DEF Range
  <2>4. Range(r) \subseteq Range(list) \cup {p}
    BY SMTT(20), <2>1, <1>2, <1>4 DEF Range
  <2> QED
    BY <2>1, <2>2, <2>3, <2>4, <1>1, <1>4 DEF r
<1> QED
  BY <1>3, <1>4

\* A picture is inserted behind the smaller ones and before all others.
LEMMA InsertedInOrder ==
  ASSUME NEW S, \A q \in S : q.poc \in Int,
         NEW list \in Seq(S), NEW p \in S, Ascending(list)
  PROVE  Ascending(InsertPicture(list, p))
<1> DEFINE I == {i \in 1 .. Len(list) : list[i].poc >= p.poc}
           k == IF I # {} THEN Min(I) ELSE 0
<1>1. InsertPicture(list, p) = IF k = 0 THEN Append(list, p) ELSE InsertAt(list, k, p)
  BY DEF InsertPicture, SelectInSeq
<1>2. \A i \in 1 .. Len(list) : list[i].poc \in Int
  OBVIOUS
<1>3. p.poc \in Int
  OBVIOUS
<1>4. CASE I = {}
  <2>1. \A i \in 1 .. Len(list) : list[i].poc < p.poc
    BY <1>4, <1>2, <1>3
  <2> HIDE DEF I
  <2>2. InsertPicture(list, p) = Append(list, p)
    BY <1>1, <1>4
  <2>3. SUFFICES ASSUME NEW i \in 1 .. Len(list) + 1, NEW j \in 1 .. Len(list) + 1, i < j
                 PROVE  Append(list, p)[i].poc <= Append(list, p)[j].poc
    BY <2>2 DEF Ascending
  <2>4. CASE j = Len(list) + 1
    BY <2>1, <2>3, <2>4, <1>2, <1>3
  <2>5. CASE j # Len(list) + 1
    BY <2>3, <2>5, <1>2 DEF Ascending
  <2> QED
    BY <2>4, <2>5
<1>5. CASE I # {}
  <2>1. k \in I /\ \A y \in I : k <= y
    <3> HIDE DEF I
    <3>1. I \in SUBSET Nat
      BY DEF I
    <3> QED
      BY <3>1, <1>5, LeastIsMin
  <2>2. /\ k \in 1 .. Len(list) /\ list[k].poc >= p.poc
        /\ \A i \in 1 .. Len(list) : i < k => list[i].poc < p.poc
    <3>1. k \in 1 .. Len(list) /\ list[k].poc >= p.poc
      BY <2>1
    <3>2. \A i \in 1 .. Len(list) : i \in I <=> list[i].poc >= p.poc
      OBVIOUS
    <3> HIDE DEF I, k
    <3>3. ASSUME NEW i \in 1 .. Len(list), i < k PROVE list[i].poc < p.poc
      <4>1. i \notin I
        BY <2>1, <3>1, <3>3
      <4> QED
        BY <4>1, <3>2, <1>2, <1>3
    <3> QED
      BY <3>1, <3>3
  <2> HIDE DEF k
  <2> DEFINE r == InsertAt(list, k, p)
  <2>3. InsertPicture(list, p) = r
    BY <1>1, <2>2
  <2>4. /\ Len(r) = Len(list) + 1
        /\ \A i \in 1 .. Len(list) + 1 :
             r[i] = IF i < k THEN list[i] ELSE IF i = k THEN p ELSE list[i - 1]
    BY <2>2 DEF InsertAt
  <2> HIDE DEF r
  <2>5. SUFFICES ASSUME NEW i \in 1 .. Len(list) + 1, NEW j \in 1 .. Len(list) + 1, i < j
                 PROVE  r[i].poc <= r[j].poc
    BY <2>3, <2>4 DEF Ascending
  <2>6. \A m \in k .. Len(list) : p.poc <= list[m].poc
    BY <2>2, <1>2, <1>3 DEF Ascending
  <2>7. CASE j < k
    <3>1. r[i] = list[i] /\ r[j] = list[j] /\ i \in 1 .. Len(list) /\ j \in 1 .. Len(list)
      BY <2>2, <2>4, <2>5, <2>7
    <3> QED
      BY <3>1, <2>5 DEF Ascending
  <2>8. CASE j = k
    BY <2>2, <2>4, <2>5, <2>8, <1>2, <1>3
  <2>9. CASE j > k
    <3>1. r[j] = list[j - 1] /\ j - 1 \in k .. Len(list) /\ j - 1 \in 1 .. Len(list)
      BY <2>2, <2>4, <2>9
    <3>2. CASE i = k
      BY <3>1, <3>2, <2>4, <2>6
    <3>3. CASE i < k
      BY <3>1, <3>3, <2>2, <2>4, <2>5 DEF Ascending
    <3>4. CASE i > k
      <4>1. r[i] = list[i - 1] /\ i - 1 \in 1 .. Len(list) /\ i - 1 < j - 1
        BY <2>2, <2>4, <2>5, <3>4
      <4> QED
        BY <3>1, <4>1 DEF Ascending
    <3> QED
      BY <3>2, <3>3, <3>4, <2>2
  <2> QED
    BY <2>7, <2>8, <2>9, <2>2
<1> QED
  BY <1>4, <1>5

\* Sorting the list along SortKeeps.
LEMMA SortPicListKeeps ==
  ASSUME NEW S, NEW list \in Seq(S)
  PROVE  SortKeeps(list, SortPicList(list))
<1>1. SortKeeps(<<>>, <<>>)
  BY DEF SortKeeps, Range, Ascending
<1>2. ASSUME NEW seq \in Seq(S), NEW x \in S, NEW a, SortKeeps(seq, a)
      PROVE  SortKeeps(Append(seq, x), InsertPicture(a, x))
  <2>1. Range(Append(seq, x)) = Range(seq) \cup {x}
    <3> DEFINE q == Append(seq, x)
    <3>1. /\ DOMAIN q = 1 .. Len(seq) + 1 /\ DOMAIN seq = 1 .. Len(seq)
          /\ q[Len(seq) + 1] = x /\ \A i \in 1 .. Len(seq) : q[i] = seq[i]
      OBVIOUS
    <3> HIDE DEF q
    <3> QED
      BY <3>1 DEF Range, q
  <2>2. a \in Seq(Range(Append(seq, x))) /\ x \in Range(Append(seq, x))
    BY <1>2, <2>1 DEF SortKeeps
  <2>3. Len(Append(seq, x)) = Len(seq) + 1
    OBVIOUS
  <2> QED
    <3> DEFINE V == Range(Append(seq, x))
    <3>1. /\ InsertPicture(a, x) \in Seq(V)
          /\ Len(InsertPicture(a, x)) = Len(a) + 1
          /\ Range(InsertPicture(a, x)) = Range(a) \cup {x}
      BY <2>2, Inserted
    <3>2. (\A p \in V : p.poc \in Int) => Ascending(InsertPicture(a, x))
      <4> HIDE DEF V
      <4> SUFFICES ASSUME \A p \in V : p.poc \in Int
                   PROVE  Ascending(InsertPicture(a, x))
        OBVIOUS
      <4>1. \A p \in Range(seq) : p.poc \in Int
        BY <2>1 DEF V
      <4>2. Ascending(a)
        BY <4>1, <1>2 DEF SortKeeps
      <4>3. a \in Seq(V) /\ x \in V
        BY <2>2 DEF V
      <4> QED
        BY <4>2, <4>3, InsertedInOrder
    <3> QED
      BY <1>2, <2>1, <2>3, <3>1, <3>2 DEF SortKeeps
<1>3. \A seq \in Seq(S) : SortKeeps(seq, Sorting!Fold(<<>>, seq))
  BY <1>1, <1>2, Sorting!FoldKeeps
<1>4. SortPicList(list) = Sorting!Fold(<<>>, list)
  BY DEF SortPicList, Sorting!Fold, FoldLeft, Sorting!FoldLeft, MapThenFoldSet, Sorting!MapThenFoldSet, Max, Sorting!Max
<1> QED
  BY <1>3, <1>4

\* A sorted list has the pictures of the list.
LEMMA SortPicListOK ==
  ASSUME NEW S, NEW list \in Seq(S)
  PROVE  /\ SortPicList(list) \in Seq(S)
         /\ Len(SortPicList(list)) = Len(list)
         /\ Range(SortPicList(list)) = Range(list)
<1>1. Range(list) \subseteq S
  BY DEF Range
<1> QED
  BY <1>1, SortPicListKeeps DEF SortKeeps

\* The sorting the decoder does when a picture is complete (Slice.cpp:257)
\* leaves the pictures in the order of their POCs, so that the loops that
\* write frames meet them in output order; it loses none and doubles none.
THEOREM SortPicListSorts ==
  ASSUME NEW list \in Seq(Pics)
  PROVE  /\ Ascending(SortPicList(list))
         /\ SortPicList(list) \in Seq(Pics)
         /\ Len(SortPicList(list)) = Len(list)
         /\ Range(SortPicList(list)) = Range(list)
<1>1. \A p \in Range(list) : p.poc \in Int
  <2>1. \A p \in Pics : p.poc \in Int
    BY DEF Pics
  <2> QED
    BY <2>1 DEF Range
<1>2. Ascending(SortPicList(list))
  BY <1>1, SortPicListKeeps DEF SortKeeps
<1> QED
  BY <1>2, SortPicListOK

-----------------------------------------------------------------------------
(* The other operations on the list.                                       *)

\* Two lists with the same pictures at the same places.
SamePictures(list, new) ==
  /\ Len(new) = Len(list)
  /\ \A k \in 1 .. Len(list) : new[k].id = list[k].id

\* Pictures with the same slices and the same POC,
Alike(p, q) == q.slices = p.slices /\ q.poc = p.poc

\* and lists of them.
SameSlices(list, new) ==
  /\ SamePictures(list, new)
  /\ \A k \in 1 .. Len(list) : Alike(list[k], new[k])

\* A list that holds no other slices than the list before it.
FromList(list, new) ==
  \A k \in 1 .. Len(new) : \E j \in 1 .. Len(list) : Alike(list[j], new[k])

\* Lists that differ in what is marked in their pictures hold the same ones.
LEMMA SameIds ==
  ASSUME NEW S, NEW T, NEW list \in Seq(S), NEW new \in Seq(T),
         SamePictures(list, new)
  PROVE  Ids(new) = Ids(list)
BY DEF SamePictures, Ids

\* A picture that is written back keeps its place; the others stay.
LEMMA SetPictureOK ==
  ASSUME NEW S, NEW list \in Seq(S), NEW p \in S, p.id \in Ids(list)
  PROVE  /\ SetPicture(list, p) \in Seq(S)
         /\ SamePictures(list, SetPicture(list, p))
         /\ Ids(SetPicture(list, p)) = Ids(list)
         /\ \A k \in 1 .. Len(list) : \/ SetPicture(list, p)[k] = list[k]
                                     \/ SetPicture(list, p)[k] = p
<1> DEFINE i == IndexOf(list, p.id)
<1>1. i \in 1 .. Len(list) /\ list[i].id = p.id
  BY IndexFound
<1>2. SetPicture(list, p) = [list EXCEPT ![i] = p]
  BY DEF SetPicture, ReplaceAt
<1> HIDE DEF i
<1>3. /\ SetPicture(list, p) \in Seq(S)
      /\ SamePictures(list, SetPicture(list, p))
      /\ \A k \in 1 .. Len(list) : \/ SetPicture(list, p)[k] = list[k]
                                  \/ SetPicture(list, p)[k] = p
  BY <1>1, <1>2 DEF SamePictures
<1> QED
  BY <1>3, SameIds

\* The picture that is looked up by its number is the one of that number.
LEMMA PictureOfOK ==
  ASSUME NEW S, NEW list \in Seq(S), NEW id \in Ids(list)
  PROVE  PictureOf(list, id) \in S /\ PictureOf(list, id).id = id
BY IndexFound DEF PictureOf

\* Marks do not change where a picture is found, nor its slices.
LEMMA PictureOfSame ==
  ASSUME NEW S, NEW T, NEW list \in Seq(S), NEW new \in Seq(T),
         SameSlices(list, new), NEW id \in Ids(list)
  PROVE  PictureOf(new, id).slices = PictureOf(list, id).slices
<1>1. IndexOf(new, id) = IndexOf(list, id)
  BY DEF SameSlices, SamePictures, IndexOf, SelectInSeq
<1>2. IndexOf(list, id) \in 1 .. Len(list)
  BY IndexFound
<1> QED
  BY <1>1, <1>2 DEF SameSlices, PictureOf, Alike

\* The picture that is written back is found again.
LEMMA SetPictureFound ==
  ASSUME NEW S, NEW list \in Seq(S), NEW p, p.id \in Ids(list)
  PROVE  PictureOf(SetPicture(list, p), p.id) = p
<1> DEFINE i == IndexOf(list, p.id)
           new == SetPicture(list, p)
<1>1. i \in 1 .. Len(list) /\ list[i].id = p.id
  BY IndexFound
<1>2. new = [list EXCEPT ![i] = p]
  BY DEF SetPicture, ReplaceAt
<1>3. IndexOf(new, p.id) = i
  <2>1. {k \in 1 .. Len(new) : new[k].id = p.id} = {k \in 1 .. Len(list) : list[k].id = p.id}
    <3> HIDE DEF i, new
    <3>1. Len(new) = Len(list) /\ \A k \in 1 .. Len(list) : new[k].id = list[k].id
      BY <1>1, <1>2
    <3> QED
      BY <3>1
  <2> QED
    BY <2>1 DEF IndexOf, SelectInSeq
<1> HIDE DEF i, new
<1> QED
  BY <1>1, <1>2, <1>3 DEF PictureOf, new

\* All pictures but the one with that id have a slice.
OnlyNew(list, id) ==
  \A k \in 1 .. Len(list) :
    \/ list[k] \in Coded
    \/ \A j \in 1 .. Len(list) : list[j].id = id <=> j = k

\* The buffer that is given out is the only one that may have no slice.
LEMMA GetNewPicBufferOK ==
  ASSUME NEW list \in Seq(Coded), NEW fresh \in Nat, fresh \notin Ids(list)
  PROVE  LET b == GetNewPicBuffer(list, fresh)
         IN  /\ b.list \in Seq(Pics)
             /\ b.id = fresh \/ b.id \in Ids(list)
             /\ Ids(b.list) = Ids(list) \cup {b.id}
             /\ OnlyNew(b.list, b.id)
             /\ b.id \notin Ids(list) => PictureOf(b.list, b.id).slices = <<>>
             /\ \A k \in 1 .. Len(b.list) :
                  \/ b.list[k].slices = <<>>
                  \/ \E j \in 1 .. Len(list) : Alike(list[j], b.list[k])
<1> DEFINE b == GetNewPicBuffer(list, fresh)
           I == {i \in 1 .. Len(list) : Reusable(list[i])}
           k == IF Len(list) < MaxDecPicBuffering THEN 0
                ELSE IF I # {} THEN Min(I) ELSE 0
<1>1. b = IF k = 0
          THEN [list |-> Append(list, NewPicture(fresh)), id |-> fresh]
          ELSE [list |-> [list EXCEPT ![k].reconstructed = FALSE], id |-> list[k].id]
  BY DEF GetNewPicBuffer, SelectInSeq
<1>2. k \in 0 .. Len(list)
  <2> HIDE DEF I
  <2>1. I \in SUBSET (1 .. Len(list))
    BY DEF I
  <2>2. I # {} => Min(I) \in 1 .. Len(list)
    <3>1. I \in SUBSET Nat
      BY <2>1
    <3> QED
      BY <3>1, <2>1, LeastIsMin
  <2> QED
    BY <2>2
<1>3. list \in Seq(Pics)
  BY DEF Coded
<1> HIDE DEF b, k
<1>4. CASE k = 0
  <2> DEFINE n == NewPicture(fresh)
  <2>1. n \in Pics /\ n.id = fresh /\ n.slices = <<>>
    BY DEF NewPicture, Pics
  <2> HIDE DEF n
  <2>2. b.list = Append(list, n) /\ b.id = fresh
    BY <1>1, <1>4 DEF n
  <2>3. /\ b.list \in Seq(Pics) /\ Len(b.list) = Len(list) + 1
        /\ b.list[Len(list) + 1] = n
        /\ \A i \in 1 .. Len(list) : b.list[i] = list[i]
    BY <2>1, <2>2, <1>3
  <2>4. Ids(b.list) = Ids(list) \cup {fresh}
    BY <2>1, <2>3 DEF Ids
  <2>5. \A i \in 1 .. Len(list) : list[i].id # fresh /\ list[i] \in Coded
    BY DEF Ids
  <2>6. OnlyNew(b.list, fresh)
    BY <2>1, <2>3, <2>5 DEF OnlyNew
  <2>7. PictureOf(b.list, fresh) = n
    <3>1. fresh \in Ids(b.list)
      BY <2>4
    <3>2. /\ IndexOf(b.list, fresh) \in 1 .. Len(b.list)
          /\ b.list[IndexOf(b.list, fresh)].id = fresh
      BY <2>3, <3>1, IndexFound
    <3> QED
      BY <3>2, <2>3, <2>5 DEF PictureOf
  <2>8. ASSUME NEW i \in 1 .. Len(b.list)
        PROVE  \/ b.list[i].slices = <<>>
               \/ \E j \in 1 .. Len(list) : Alike(list[j], b.list[i])
    <3>1. i \in 1 .. Len(list) \/ i = Len(list) + 1
      BY <2>3
    <3> QED
      BY <2>1, <2>3, <3>1 DEF Alike
  <2> QED
    BY <2>1, <2>2, <2>3, <2>4, <2>6, <2>7, <2>8 DEF b
<1>5. CASE k # 0
  <2> DEFINE q == [list[k] EXCEPT !.reconstructed = FALSE]
  <2>1. list[k] \in Coded
    BY <1>2, <1>5
  <2>2. q \in Coded /\ q.id = list[k].id /\ Alike(list[k], q)
    BY <2>1 DEF Coded, Pics, Alike
  <2>3. b.list = [list EXCEPT ![k] = q] /\ b.id = list[k].id
    BY <1>1, <1>2, <1>5
  <2> HIDE DEF q
  <2>4. /\ b.list \in Seq(Coded) /\ Len(b.list) = Len(list)
        /\ \A i \in 1 .. Len(list) : /\ b.list[i].id = list[i].id
                                     /\ Alike(list[i], b.list[i])
    BY <2>2, <2>3, <1>2, <1>5 DEF Alike
  <2>5. Ids(b.list) = Ids(list)
    BY <2>4 DEF Ids
  <2>6. b.id \in Ids(list)
    BY <2>3, <1>2, <1>5 DEF Ids
  <2>7. b.list \in Seq(Pics)
    BY <2>4 DEF Coded
  <2> QED
    BY <2>4, <2>5, <2>6, <2>7 DEF b, OnlyNew
<1> QED
  BY <1>4, <1>5

\* applyReferencePictureSet marks pictures; it neither adds nor removes any, and
\* leaves their slices alone.
LEMMA ApplyRpsOK ==
  ASSUME NEW list \in Seq(Pics), NEW s
  PROVE  /\ ApplyRps(list, s) \in Seq(Pics)
         /\ Ids(ApplyRps(list, s)) = Ids(list)
         /\ SameSlices(list, ApplyRps(list, s))
<1> DEFINE to(p) == IF ~p.referenced THEN p
                    ELSE IF p.poc \in RefPocs(s)
                         THEN [p EXCEPT !.usedByCurr = p.poc \in UsedPocs(s)]
                         ELSE IF p.poc = s.poc THEN p
                         ELSE [p EXCEPT !.referenced = FALSE, !.usedByCurr = FALSE]
           r == ApplyRps(list, s)
<1>1. ASSUME NEW p \in Pics
      PROVE  to(p) \in Pics /\ to(p).id = p.id /\ Alike(p, to(p))
  <2>1. ASSUME NEW u \in BOOLEAN
        PROVE  LET q == [p EXCEPT !.usedByCurr = u]
               IN  q \in Pics /\ q.id = p.id /\ Alike(p, q)
    BY DEF Pics, Alike
  <2>2. LET q == [p EXCEPT !.referenced = FALSE, !.usedByCurr = FALSE]
        IN  q \in Pics /\ q.id = p.id /\ Alike(p, q)
    BY DEF Pics, Alike
  <2>3. (p.poc \in UsedPocs(s)) \in BOOLEAN
    OBVIOUS
  <2>4. to(p) \in {p, [p EXCEPT !.usedByCurr = p.poc \in UsedPocs(s)],
                  [p EXCEPT !.referenced = FALSE, !.usedByCurr = FALSE]}
    OBVIOUS
  <2>5. Alike(p, p)
    BY DEF Alike
  <2> HIDE DEF to
  <2> QED
    BY <2>1, <2>2, <2>3, <2>4, <2>5
<1>2. r = [k \in 1 .. Len(list) |-> to(list[k])]
  BY DEF ApplyRps
<1> HIDE DEF to, r
<1>3. /\ r \in Seq(Pics) /\ Len(r) = Len(list)
      /\ \A k \in 1 .. Len(list) : r[k] = to(list[k])
  BY <1>1, <1>2
<1>4. SameSlices(list, r)
  BY <1>1, <1>3 DEF SameSlices, SamePictures
<1> QED
  BY <1>3, <1>4, SameIds DEF r, SameSlices

\* The reference picture set does not disturb who has a slice.
LEMMA StaysOnlyNew ==
  ASSUME NEW list \in Seq(Pics), NEW new \in Seq(Pics), SameSlices(list, new),
         NEW id, OnlyNew(list, id)
  PROVE  OnlyNew(new, id)
<1> SUFFICES ASSUME NEW k \in 1 .. Len(new)
             PROVE  \/ new[k] \in Coded
                    \/ \A j \in 1 .. Len(new) : new[j].id = id <=> j = k
  BY DEF OnlyNew
<1>1. list[k] \in Coded => new[k] \in Coded
  BY DEF SameSlices, SamePictures, Alike, Coded
<1> QED
  BY <1>1 DEF OnlyNew, SameSlices, SamePictures

\* A slice for the picture that may have none.
LEMMA SetOnlyNew ==
  ASSUME NEW list \in Seq(Pics), NEW p \in Coded, p.id \in Ids(list),
         OnlyNew(list, p.id)
  PROVE  SetPicture(list, p) \in Seq(Coded) /\ SamePictures(list, SetPicture(list, p))
<1> DEFINE i == IndexOf(list, p.id)
           r == SetPicture(list, p)
<1>1. i \in 1 .. Len(list) /\ list[i].id = p.id
  BY IndexFound
<1>2. r = [list EXCEPT ![i] = p]
  BY DEF SetPicture, ReplaceAt
<1> HIDE DEF i, r
<1>3. \A k \in 1 .. Len(list) : k # i => list[k] \in Coded
  BY <1>1 DEF OnlyNew
<1>4. /\ Len(r) = Len(list) /\ DOMAIN r = 1 .. Len(list) /\ r \in Seq(Pics)
      /\ \A k \in 1 .. Len(list) : r[k] = IF k = i THEN p ELSE list[k]
  BY <1>1, <1>2 DEF Coded
<1>5. r \in Seq(Coded)
  BY <1>3, <1>4
<1>6. SamePictures(list, r)
  BY <1>1, <1>4 DEF SamePictures
<1> QED
  BY <1>5, <1>6 DEF r

\* checkNoOutputPriorPics keeps every picture in the list.
LEMMA DropPriorPicsOK ==
  ASSUME NEW list \in Seq(Coded), NEW keepPoc
  PROVE  /\ DropPriorPics(list, keepPoc) \in Seq(Coded)
         /\ Ids(DropPriorPics(list, keepPoc)) = Ids(list)
         /\ SameSlices(list, DropPriorPics(list, keepPoc))
<1> DEFINE to(p) == [p EXCEPT !.neededForOutput = @ /\ p.poc = keepPoc]
           r == DropPriorPics(list, keepPoc)
<1>1. ASSUME NEW p \in Coded
      PROVE  to(p) \in Coded /\ to(p).id = p.id /\ Alike(p, to(p))
  BY DEF Pics, Coded, Alike
<1>2. r = [k \in 1 .. Len(list) |-> to(list[k])]
  BY DEF DropPriorPics
<1> HIDE DEF to, r
<1>3. r \in Seq(Coded) /\ SameSlices(list, r)
  BY <1>1, <1>2 DEF SameSlices, SamePictures
<1> QED
  BY <1>3, SameIds DEF r, SameSlices

-----------------------------------------------------------------------------
(* Output.                                                                 *)

\* A picture that has a slice can be written.
LEMMA ItemOK ==
  ASSUME NEW p \in Coded PROVE Item(p) \in Items
<1>1. p.slices \in Seq(Slices) /\ p.slices # <<>> /\ p.poc \in Int
  BY DEF Coded, Pics
<1>2. p.slices[1] \in Slices
  BY <1>1
<1> QED
  BY <1>1, <1>2 DEF Item, Items, Slices

WriteKeeps(seq, acc) ==
  /\ acc \in [num : Int, full : Int, last : Int, list : Seq(Coded), out : Seq(Items)]
  /\ Len(acc.list) = Len(seq)
  /\ \A k \in 1 .. Len(seq) : acc.list[k] \in {seq[k], Shown(seq[k])}

FlushKeeps(seq, out) == out \in Seq(Items)

Writing  == INSTANCE FoldInduction WITH Op <- WriteOne, Keeps <- WriteKeeps
Flushing == INSTANCE FoldInduction WITH Op <- FlushOne, Keeps <- FlushKeeps

\* A picture that is written stays what it was otherwise.
LEMMA ShownOK ==
  ASSUME NEW p \in Coded
  PROVE  Shown(p) \in Coded /\ Shown(p).id = p.id /\ Alike(p, Shown(p))
BY DEF Shown, Coded, Pics, Alike

\* The counts of the pictures that wait are numbers.
LEMMA CountOK ==
  ASSUME NEW n \in Nat, NEW I \in SUBSET (1 .. n)
  PROVE  Cardinality(I) \in Nat
<1>1. IsFiniteSet(1 .. n)
  BY FS_Interval
<1> QED
  BY <1>1, FS_Subset, FS_CardinalityType

\* xWriteOutput keeps the pictures of the list, and writes frames.
LEMMA WriteOutputOK ==
  ASSUME NEW list \in Seq(Coded), NEW last \in Int
  PROVE  LET w == WriteOutput(list, last)
         IN  /\ w.list \in Seq(Coded)
             /\ Ids(w.list) = Ids(list)
             /\ w.out \in Seq(Items)
             /\ w.last \in Int
             /\ SameSlices(list, w.list)
<1> DEFINE waiting == Waiting(list, last)
           held == {k \in DOMAIN list : list[k].referenced} \cup waiting
           base == [num |-> Cardinality(waiting), full |-> Cardinality(held),
                    last |-> last, list |-> <<>>, out |-> <<>>]
           w == WriteOutput(list, last)
<1>1. w = Writing!Fold(base, list)
  BY DEF WriteOutput, Writing!Fold, FoldLeft, Writing!FoldLeft, MapThenFoldSet,
         Writing!MapThenFoldSet, Max, Writing!Max
<1>2. WriteKeeps(<<>>, base)
  <2>1. waiting \in SUBSET (1 .. Len(list)) /\ held \in SUBSET (1 .. Len(list))
    BY DEF Waiting
  <2>2. Cardinality(waiting) \in Int /\ Cardinality(held) \in Int
    <3> HIDE DEF waiting, held
    <3>1. Len(list) \in Nat
      OBVIOUS
    <3>2. Cardinality(waiting) \in Nat /\ Cardinality(held) \in Nat
      BY <3>1, <2>1, CountOK
    <3> QED
      BY <3>2
  <2> HIDE DEF waiting, held
  <2> QED
    BY <2>2 DEF WriteKeeps
<1>3. ASSUME NEW seq \in Seq(Coded), NEW x \in Coded, NEW a, WriteKeeps(seq, a)
      PROVE  WriteKeeps(Append(seq, x), WriteOne(a, x))
  <2>1. /\ a \in [num : Int, full : Int, last : Int, list : Seq(Coded), out : Seq(Items)]
        /\ Len(a.list) = Len(seq)
        /\ \A k \in 1 .. Len(seq) : a.list[k] \in {seq[k], Shown(seq[k])}
    BY <1>3 DEF WriteKeeps
  <2> DEFINE r == WriteOne(a, x)
  <2>2. Item(x) \in Items /\ Shown(x) \in Coded /\ x.poc \in Int
    BY ItemOK, ShownOK DEF Coded, Pics
  <2>3. /\ r \in [num : Int, full : Int, last : Int, list : Seq(Coded), out : Seq(Items)]
        /\ r.list = Append(a.list, x) \/ r.list = Append(a.list, Shown(x))
    <3> DEFINE f == IF x.referenced THEN a.full ELSE a.full - 1
               one == [num |-> a.num - 1, full |-> f, last |-> x.poc,
                       list |-> Append(a.list, Shown(x)), out |-> Append(a.out, Item(x))]
               none == [a EXCEPT !.list = Append(@, x)]
    <3>1. r = one \/ r = none
      BY DEF WriteOne
    <3>2. f \in Int
      BY <2>1
    <3> HIDE DEF f, r
    <3>3. CASE r = one
      BY <3>2, <3>3, <2>1, <2>2
    <3>4. CASE r = none
      <4> DEFINE m == Append(a.list, x)
      <4>1. m \in Seq(Coded)
        BY <2>1
      <4>2. r = [a EXCEPT !.list = m]
        BY <3>4
      <4> HIDE DEF m
      <4>3. r \in [num : Int, full : Int, last : Int, list : Seq(Coded), out : Seq(Items)] /\ r.list = m
        BY <2>1, <4>1, <4>2
      <4> QED
        BY <4>3 DEF m
    <3> QED
      BY <3>1, <3>3, <3>4
  <2> HIDE DEF r
  <2>4. /\ Len(r.list) = Len(seq) + 1
        /\ r.list[Len(seq) + 1] \in {x, Shown(x)}
        /\ \A k \in 1 .. Len(seq) : r.list[k] = a.list[k]
    <3> DEFINE l == a.list
    <3>1. l \in Seq(Coded) /\ Len(l) = Len(seq)
      BY <2>1
    <3> HIDE DEF l
    <3>2. \A y \in Coded : /\ Len(Append(l, y)) = Len(seq) + 1
                           /\ Append(l, y)[Len(seq) + 1] = y
                           /\ \A k \in 1 .. Len(seq) : Append(l, y)[k] = l[k]
      BY <3>1
    <3> QED
      BY <2>2, <2>3, <3>2 DEF l
  <2> DEFINE q == Append(seq, x)
  <2>5. /\ Len(q) = Len(seq) + 1 /\ q[Len(seq) + 1] = x
        /\ \A k \in 1 .. Len(seq) : q[k] = seq[k]
    OBVIOUS
  <2> HIDE DEF q
  <2>6. \A k \in 1 .. Len(q) : r.list[k] \in {q[k], Shown(q[k])}
    BY SMTT(20), <2>1, <2>4, <2>5
  <2> QED
    BY <2>3, <2>4, <2>5, <2>6 DEF WriteKeeps, r, q
<1>4. WriteKeeps(list, w)
  <2> HIDE DEF base
  <2>1. \A seq \in Seq(Coded) : WriteKeeps(seq, Writing!Fold(base, seq))
    BY <1>2, <1>3, Writing!FoldKeeps
  <2> QED
    BY <1>1, <2>1
<1> HIDE DEF w
<1>5. SameSlices(list, w.list)
  BY SMTT(20), <1>4, ShownOK DEF WriteKeeps, SameSlices, SamePictures, Alike
<1> QED
  BY <1>4, <1>5, SameIds DEF WriteKeeps, w, SameSlices

\* xFlushOutput writes frames.
LEMMA FlushOutputOK ==
  ASSUME NEW list \in Seq(Coded)
  PROVE  FlushOutput(list) \in Seq(Items)
<1>1. FlushOutput(list) = Flushing!Fold(<<>>, list)
  BY DEF FlushOutput, Flushing!Fold, FoldLeft, Flushing!FoldLeft, MapThenFoldSet,
         Flushing!MapThenFoldSet, Max, Flushing!Max
<1>2. FlushKeeps(<<>>, <<>>)
  BY DEF FlushKeeps
<1>3. ASSUME NEW seq \in Seq(Coded), NEW x \in Coded, NEW a, FlushKeeps(seq, a)
      PROVE  FlushKeeps(Append(seq, x), FlushOne(a, x))
  BY <1>3, ItemOK DEF FlushKeeps, FlushOne
<1>4. \A seq \in Seq(Coded) : FlushKeeps(seq, Flushing!Fold(<<>>, seq))
  BY <1>2, <1>3, Flushing!FoldKeeps
<1> QED
  BY <1>1, <1>4 DEF FlushKeeps
=============================================================================
