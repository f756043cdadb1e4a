------------------------------ MODULE PocProof ------------------------------
(***************************************************************************)
(* The POC that the decoder derives for a slice is the one that it was     *)
(* coded with, both times the slice is read.  prevTid0POC is changed by    *)
(* the first reading of the slice of a new picture, so the second derives  *)
(* the POC from another one; the invariant PocInv says what the members    *)
(* hold between the readings, in terms of the bitstream read so far.       *)
(*                                                                         *)
(* On it rests that pictures are whole: the second reading finds the same  *)
(* slice, and the POCs tell which slices are skipped.  The invariant Whole *)
(* says which picture is open for the slices that may still come.          *)
(*                                                                         *)
(* And on both rests that the references of slices are right: the list is  *)
(* emptied before a picture of another sequence could be in it.  The       *)
(* invariant Listed says since when the pictures of the list are in it.    *)
(***************************************************************************)
EXTENDS DecoderProof

USE DecoderAssumption, PictureListAssumption

\* The two multiples of M that numbers less than M apart can lie above.
LEMMA NearMultiples ==
  ASSUME NEW M \in Nat \ {0}, NEW a \in Int, NEW b \in Int,
         NEW x \in 0 .. M - 1, NEW y \in 0 .. M - 1,
         (M * a + x) - (M * b + y) <= M \div 2,
         (M * b + y) - (M * a + x) < M \div 2
  PROVE  M * a = IF x < y /\ y - x >= M \div 2 THEN M * b + M
                 ELSE IF x > y /\ x - y > M \div 2 THEN M * b - M
                 ELSE M * b
<1> DEFINE h == M \div 2
           c == a - b
<1>1. h \in Nat /\ 2 * h <= M /\ M <= 2 * h + 1
  OBVIOUS
<1>2. c \in Int /\ M * a = M * b + M * c /\ M * b \in Int /\ M * c \in Int
  OBVIOUS
<1>3. c = 0 \/ c = 1 \/ c = -1
  <2>1. ASSUME c >= 2 PROVE M * c >= 2 * M
    BY <1>2, <2>1
  <2>2. ASSUME c <= -2 PROVE M * c <= -(2 * M)
    BY <1>2, <2>2
  <2> HIDE DEF c, h
  <2>3. (M * c + x) - y <= h /\ y - (M * c + x) < h
    BY <1>2 DEF h
  <2> QED
    BY <1>1, <1>2, <2>1, <2>2, <2>3
<1>4. M * c \in {0, M, -M} /\ (c = 0 => M * c = 0) /\ (c = 1 => M * c = M) /\ (c = -1 => M * c = -M)
  BY <1>3
<1> HIDE DEF c, h
<1>5. (M * c + x) - y <= h /\ y - (M * c + x) < h
  BY <1>2 DEF h
<1>6. M * a = IF x < y /\ y - x >= h THEN M * b + M
              ELSE IF x > y /\ x - y > h THEN M * b - M
              ELSE M * b
  <2>1. CASE M * c = 0
    BY <1>1, <1>2, <1>5, <2>1
  <2>2. CASE M * c = M
    BY <1>1, <1>2, <1>5, <2>2
  <2>3. CASE M * c = -M
    BY <1>1, <1>2, <1>5, <2>3
  <2> QED
    BY <1>4, <2>1, <2>2, <2>3
<1> QED
  BY <1>6 DEF h

\* A POC is found again from its low bits and a POC near to it.
LEMMA PocFound ==
  ASSUME dec.prevTid0POC \in Int, NEW poc \in Int,
         poc - dec.prevTid0POC <= MaxPocLsb \div 2,
         dec.prevTid0POC - poc < MaxPocLsb \div 2
  PROVE  PocMsb(poc % MaxPocLsb) + (poc % MaxPocLsb) = poc
<1> DEFINE M == MaxPocLsb
           p == dec.prevTid0POC
           a == poc \div M
           b == p \div M
           x == poc % M
           y == p % M
<1>1. M \in Nat \ {0} /\ p \in Int
  OBVIOUS
<1>2. /\ a \in Int /\ x \in 0 .. M - 1 /\ poc = M * a + x
      /\ b \in Int /\ y \in 0 .. M - 1 /\ p = M * b + y
  BY <1>1, DivMod
<1>3. PocMsb(x) = IF x < y /\ y - x >= M \div 2 THEN (p - y) + M
                  ELSE IF x > y /\ x - y > M \div 2 THEN (p - y) - M
                  ELSE p - y
  BY DEF PocMsb
<1>4. poc - p <= M \div 2 /\ p - poc < M \div 2
  OBVIOUS
<1> SUFFICES PocMsb(x) + x = poc
  OBVIOUS
<1> HIDE DEF M, p, a, b, x, y
<1>5. M * a \in Int /\ M * b \in Int
  BY <1>1, <1>2
<1>6. M * a = IF x < y /\ y - x >= M \div 2 THEN M * b + M
              ELSE IF x > y /\ x - y > M \div 2 THEN M * b - M
              ELSE M * b
  BY <1>1, <1>2, <1>4, NearMultiples
<1>7. p - y = M * b
  BY <1>2, <1>5
<1>8. PocMsb(x) = M * a
  BY <1>3, <1>6, <1>7
<1> QED
  BY <1>2, <1>5, <1>8

-----------------------------------------------------------------------------
(* The NAL unit after NAL unit i.                                          *)

\* Whether a sequence has come to its first random access point,
LEMMA FreshNext ==
  ASSUME NEW s, NEW i \in Nat \ {0}
  PROVE  Fresh(s, i + 1) <=> s[i].nut = "EOS" \/ (Fresh(s, i) /\ s[i].nut \notin RapTypes)
<1>1. "EOS" \notin RapTypes
  BY DEF RapTypes, IdrTypes, BlaTypes
<1>2. (i + 1) - 1 = i /\ i \in 1 .. i
  OBVIOUS
<1>3. CASE s[i].nut = "EOS"
  <2>1. ASSUME NEW j \in 1 .. i, s[j].nut \in RapTypes
        PROVE  \E k \in j + 1 .. i : s[k].nut = "EOS"
    <3>1. j # i
      BY <1>1, <1>3, <2>1
    <3>2. i \in j + 1 .. i
      BY <3>1
    <3> QED
      BY <1>3, <3>2
  <2> QED
    BY <1>2, <1>3, <2>1 DEF Fresh
<1>4. CASE s[i].nut # "EOS"
  <2>1. ASSUME Fresh(s, i), s[i].nut \notin RapTypes, NEW j \in 1 .. i, s[j].nut \in RapTypes
        PROVE  \E k \in j + 1 .. i : s[k].nut = "EOS"
    <3>1. j \in 1 .. i - 1
      BY <2>1
    <3>2. PICK k \in j + 1 .. i - 1 : s[k].nut = "EOS"
      BY <2>1, <3>1 DEF Fresh
    <3> QED
      BY <3>1, <3>2
  <2>2. ASSUME Fresh(s, i + 1) PROVE s[i].nut \notin RapTypes
    <3>1. i + 1 .. i = {}
      OBVIOUS
    <3> QED
      BY <1>2, <2>2, <3>1 DEF Fresh
  <2>3. ASSUME Fresh(s, i + 1), NEW j \in 1 .. i - 1, s[j].nut \in RapTypes
        PROVE  \E k \in j + 1 .. i - 1 : s[k].nut = "EOS"
    <3>1. j \in 1 .. i
      OBVIOUS
    <3>2. PICK k \in j + 1 .. i : s[k].nut = "EOS"
      BY <1>2, <2>3, <3>1 DEF Fresh
    <3>3. k \in j + 1 .. i - 1
      BY <1>4, <3>2
    <3> QED
      BY <3>2, <3>3
  <2> QED
    BY <1>2, <1>4, <2>1, <2>2, <2>3 DEF Fresh
<1> QED
  BY <1>3, <1>4

\* and the last POC of temporal layer 0, from one NAL unit to the next.
LEMMA AnchorNext ==
  ASSUME NEW s, NEW i \in Nat \ {0}, NEW poc
  PROVE  /\ IsAnchor(s[i]) /\ poc = s[i].poc => poc \in AnchorPoc(s, i + 1)
         /\ ~IsAnchor(s[i]) /\ poc \in AnchorPoc(s, i) => poc \in AnchorPoc(s, i + 1)
<1>1. (i + 1) - 1 = i /\ i \in 1 .. i
  OBVIOUS
<1>2. CASE IsAnchor(s[i])
  <2>1. i + 1 .. i = {}
    OBVIOUS
  <2>2. i \in LastAnchor(s, i + 1)
    BY <1>1, <1>2, <2>1 DEF LastAnchor
  <2> QED
    BY <1>2, <2>2 DEF AnchorPoc
<1>3. CASE ~IsAnchor(s[i])
  <2>1. LastAnchor(s, i + 1) = LastAnchor(s, i)
    <3>1. ASSUME NEW j \in LastAnchor(s, i) PROVE j \in LastAnchor(s, i + 1)
      <4>1. j \in 1 .. i
        BY DEF LastAnchor
      <4>2. \A k \in j + 1 .. i : ~IsAnchor(s[k])
        <5> SUFFICES ASSUME NEW k \in j + 1 .. i PROVE ~IsAnchor(s[k])
          OBVIOUS
        <5>1. k = i \/ k \in j + 1 .. i - 1
          BY <4>1
        <5> QED
          BY <1>3, <5>1 DEF LastAnchor
      <4> QED
        BY <1>1, <4>1, <4>2 DEF LastAnchor
    <3>2. ASSUME NEW j \in LastAnchor(s, i + 1) PROVE j \in LastAnchor(s, i)
      <4>1. j \in 1 .. i /\ IsAnchor(s[j]) /\ \A k \in j + 1 .. i : ~IsAnchor(s[k])
        BY <1>1 DEF LastAnchor
      <4>2. j \in 1 .. i - 1
        BY <1>3, <4>1
      <4>3. \A k \in j + 1 .. i - 1 : k \in j + 1 .. i
        BY <4>1
      <4> QED
        BY <4>1, <4>2, <4>3 DEF LastAnchor
    <3> QED
      BY <3>1, <3>2
  <2> QED
    BY <1>3, <2>1 DEF AnchorPoc
<1> QED
  BY <1>2, <1>3

-----------------------------------------------------------------------------
(* The invariant.                                                          *)

\* Has the NAL unit at pos not been read yet?
Unread == phase = "read" /\ ~dec.newPicture

\* The first NAL unit that has not been read.
NextUnread == IF Unread THEN pos ELSE pos + 1

\* The first slice of a picture is read, and will be decoded.
Pending == dec.newPicture \/ phase = "decode"

\* prevTid0POC is the POC that the next slice is coded against.
Anchored == dec.prevTid0POC \in AnchorPoc(stream, NextUnread)

\* pocRandomAccess is set by the first random access point of a sequence.
Accessed == dec.pocRandomAccess = MaxInt <=> Fresh(stream, NextUnread)

\* firstSliceInSequence is cleared by the first slice that is decoded.
Sequenced ==
  /\ phase = "read" \/ Pending => (dec.firstSliceInSequence <=> Fresh(stream, pos))
  /\ \/ phase = "read" \/ Pending \/ phase = "error"
     \/ phase = "finish" /\ nalu.nut = "EOS"
     \/ dec.firstSliceInSequence <=> Fresh(stream, pos + 1)
  /\ phase = "decode" => ~Fresh(stream, pos + 1)

\* The flag of the pilot is left over from the first reading of a slice only.
Flagged == dec.pilotNoRasl => phase = "error" \/ (Pending /\ StartsDecoding(stream, pos))

\* The POC of the slice, now and when it is read again.
Derived ==
  /\ dec.newPicture => SlicePoc = nalu.poc
  /\ phase \in {"decode", "finish"} /\ nalu.nut \in SliceTypes => pilot.poc = nalu.poc

PocInv ==
  /\ DInv /\ dec.skipFrame = 0
  /\ Anchored /\ Accessed /\ Sequenced /\ Flagged /\ Derived

-----------------------------------------------------------------------------
(* A slice is read.                                                        *)

\* The types of slices that are told apart.
LEMMA NotAtOnce ==
  ASSUME NEW t \in SliceTypes
  PROVE  /\ t # "EOS"
         /\ t \in RapTypes => t \notin RaslTypes
BY DEF SliceTypes, RapTypes, IdrTypes, BlaTypes, LeadTypes, RaslTypes, RadlTypes, TsaTypes

\* What the lemmas below use of the invariant.
LEMMA PocFacts ==
  ASSUME PocInv
  PROVE  /\ dec \in Members /\ stream \in Streams /\ nalu \in Nalus /\ nalu = stream[pos]
         /\ pos \in Nat \ {0} /\ pos \in DOMAIN stream /\ pos <= Len(stream)
         /\ nalu.poc \in Int /\ dec.prevTid0POC \in Int
<1>1. Types /\ dec \in Members /\ pos \in 1 .. Len(stream) /\ stream \in Streams
  BY DEF PocInv, DInv, Types
<1>2. stream \in Seq(Nalus) /\ Len(stream) \in Nat /\ nalu \in Nalus /\ nalu = stream[pos]
  BY <1>1, NaluOK
<1>3. nalu.poc \in Int
  BY <1>2 DEF Nalus
<1>4. dec.prevTid0POC \in Int
  BY <1>1 DEF Members
<1> QED
  BY <1>1, <1>2, <1>3, <1>4

\* NoRaslOutputFlag tells where the decoding starts.
LEMMA NoRaslRight ==
  ASSUME PocInv, phase = "read"
  PROVE  /\ dec.pilotNoRasl => StartsDecoding(stream, pos)
         /\ nalu.nut \in RapTypes => (NoRaslOutput <=> StartsDecoding(stream, pos))
<1>1. dec.pilotNoRasl => StartsDecoding(stream, pos)
  BY DEF PocInv, Flagged
<1>2. dec.firstSliceInSequence <=> Fresh(stream, pos)
  BY DEF PocInv, Sequenced
<1>3. nalu = stream[pos] /\ dec \in Members
  BY PocFacts
<1> QED
  BY <1>1, <1>2, <1>3 DEF NoRaslOutput, StartsDecoding, Members

\* A slice that is read, for the first or the second time, gets its POC: the
\* induction step that the invariant is there for.
LEMMA SlicePocRight ==
  ASSUME PocInv, WellCoded(stream), phase = "read", nalu.nut \in SliceTypes
  PROVE  SlicePoc = nalu.poc
<1>1. CASE dec.newPicture
  BY <1>1 DEF PocInv, Derived
<1>2. CASE ~dec.newPicture
  <2>1. /\ dec \in Members /\ nalu = stream[pos] /\ pos \in DOMAIN stream
        /\ nalu.poc \in Int /\ dec.prevTid0POC \in Int
    BY PocFacts
  <2>2. /\ nalu.nut \in IdrTypes => nalu.poc = 0
        /\ StartsDecoding(stream, pos) /\ nalu.nut \notin IdrTypes => nalu.poc = nalu.lsb
        /\ ~StartsDecoding(stream, pos) =>
             /\ nalu.lsb = nalu.poc % MaxPocLsb
             /\ \A poc \in AnchorPoc(stream, pos) :
                  /\ nalu.poc - poc <= MaxPocLsb \div 2
                  /\ poc - nalu.poc < MaxPocLsb \div 2
    BY <2>1 DEF WellCoded
  <2>3. nalu.nut = "CRA" => (CraNoRasl <=> StartsDecoding(stream, pos))
    BY NoRaslRight DEF CraNoRasl, RapTypes
  <2>4. nalu.nut \in IdrTypes \cup BlaTypes => StartsDecoding(stream, pos)
    BY <2>1 DEF StartsDecoding
  <2>5. StartsDecoding(stream, pos) => nalu.nut \in IdrTypes \cup BlaTypes \cup {"CRA"}
    BY <2>1 DEF StartsDecoding
  <2>6. CASE StartsDecoding(stream, pos)
    BY <2>2, <2>3, <2>5, <2>6 DEF SlicePoc
  <2>7. CASE ~StartsDecoding(stream, pos)
    <3>1. SlicePoc = PocMsb(nalu.lsb) + nalu.lsb
      BY <2>3, <2>4, <2>7 DEF SlicePoc
    <3>2. dec.prevTid0POC \in AnchorPoc(stream, pos)
      BY <1>2 DEF PocInv, Anchored, NextUnread, Unread
    <3>3. /\ nalu.poc - dec.prevTid0POC <= MaxPocLsb \div 2
          /\ dec.prevTid0POC - nalu.poc < MaxPocLsb \div 2
          /\ nalu.lsb = nalu.poc % MaxPocLsb
      BY <2>2, <2>7, <3>2
    <3> QED
      BY <2>1, <3>1, <3>3, PocFound
  <2> QED
    BY <2>6, <2>7
<1> QED
  BY <1>1, <1>2

\* What reading a slice does to the members that the POCs depend on.
ReadSlice ==
  /\ /\ dec'.prevTid0POC = IF Tid0(Pilot) THEN Pilot.poc ELSE dec.prevTid0POC
     /\ dec'.pocRandomAccess = RandomAccessPoc(Pilot)
     /\ dec'.skipFrame = IF dec.skipFrame > 0 THEN dec.skipFrame - 1 ELSE 0
  /\ /\ dec'.pilotNoRasl =
          IF nalu.nut \in RapTypes THEN NoRaslOutput ELSE dec.pilotNoRasl
     /\ dec'.firstSliceInSequence = dec.firstSliceInSequence
  /\ pilot' = Pilot /\ UNCHANGED <<stream, pos>>

\* What a slice that is read leaves behind, before it is skipped, accepted, or
\* found to start a new picture.
LEMMA ReadSliceHolds ==
  ASSUME PocInv, WellCoded(stream), phase = "read", nalu.nut \in SliceTypes, ReadSlice
  PROVE  /\ dec'.skipFrame = 0
         /\ dec'.prevTid0POC \in AnchorPoc(stream, pos + 1)
         /\ dec'.pocRandomAccess = MaxInt <=> Fresh(stream, pos + 1)
         /\ dec'.firstSliceInSequence <=> Fresh(stream, pos)
         /\ dec'.pilotNoRasl => StartsDecoding(stream, pos)
         /\ pilot'.poc = nalu.poc
<1>1. /\ dec \in Members /\ nalu = stream[pos] /\ pos \in DOMAIN stream
      /\ pos \in Nat \ {0} /\ nalu \in Nalus
  BY PocFacts
<1>2. Pilot.poc = nalu.poc /\ Pilot.nut = nalu.nut /\ Pilot.tid = nalu.tid
  BY SlicePocRight DEF Pilot
<1>3. dec'.skipFrame = 0
  BY DEF ReadSlice, PocInv
<1>4. dec'.prevTid0POC \in AnchorPoc(stream, pos + 1)
  <2>1. Tid0(Pilot) <=> IsAnchor(stream[pos])
    BY <1>1, <1>2 DEF Tid0, IsAnchor
  <2>2. CASE Tid0(Pilot)
    BY <1>1, <1>2, <2>1, <2>2, AnchorNext DEF ReadSlice
  <2>3. CASE ~Tid0(Pilot)
    <3>1. dec'.prevTid0POC = dec.prevTid0POC
      BY <2>3 DEF ReadSlice
    <3>2. \/ dec.prevTid0POC \in AnchorPoc(stream, pos)
          \/ dec.prevTid0POC \in AnchorPoc(stream, pos + 1)
      BY DEF PocInv, Anchored, NextUnread
    <3> QED
      BY <1>1, <2>1, <2>3, <3>1, <3>2, AnchorNext
  <2> QED
    BY <2>2, <2>3
<1>5. Fresh(stream, pos + 1) <=> Fresh(stream, pos) /\ nalu.nut \notin RapTypes
  BY <1>1, FreshNext, NotAtOnce
<1>6. dec'.pocRandomAccess = MaxInt <=> Fresh(stream, pos + 1)
  <2>1. CASE nalu.nut \notin RapTypes
    <3>1. dec'.pocRandomAccess = dec.pocRandomAccess
      BY <1>2, <2>1 DEF ReadSlice, RandomAccessPoc
    <3>2. Fresh(stream, pos + 1) <=> Fresh(stream, pos)
      BY <1>5, <2>1
    <3> QED
      BY <3>1, <3>2 DEF PocInv, Accessed, NextUnread
  <2>2. CASE nalu.nut \in RapTypes
    <3>1. ~Fresh(stream, pos + 1)
      BY <1>5, <2>2
    <3>2. dec.pocRandomAccess # MaxInt => dec'.pocRandomAccess # MaxInt
      BY DEF ReadSlice, RandomAccessPoc
    <3>3. ASSUME dec.pocRandomAccess = MaxInt PROVE dec'.pocRandomAccess # MaxInt
      <4>1. ~(dec.skipFrame > 0)
        BY DEF PocInv
      <4>2. dec'.pocRandomAccess = IF nalu.nut \in IdrTypes THEN -MaxInt ELSE nalu.poc
        BY <1>2, <2>2, <3>3, <4>1 DEF ReadSlice, RandomAccessPoc
      <4>3. nalu.poc < MaxInt /\ (nalu.nut \in IdrTypes => nalu.poc = 0)
        BY <1>1 DEF WellCoded
      <4>4. nalu.poc \in Int
        BY PocFacts
      <4> QED
        BY <4>2, <4>3, <4>4
    <3> QED
      BY <3>1, <3>2, <3>3
  <2> QED
    BY <2>1, <2>2
<1>7. dec'.pilotNoRasl => StartsDecoding(stream, pos)
  BY NoRaslRight DEF ReadSlice
<1>8. dec'.firstSliceInSequence <=> Fresh(stream, pos)
  BY DEF ReadSlice, PocInv, Sequenced
<1> QED
  BY <1>2, <1>3, <1>4, <1>6, <1>7, <1>8 DEF ReadSlice

\* Each action preserves PocInv.
LEMMA SkipSlicePoc ==
  ASSUME PocInv, WellCoded(stream), SkipSlice, DInv'
  PROVE  PocInv'
<1> DEFINE i == Inferred(Pilot)
<1>1. /\ dec \in Members /\ nalu \in Nalus /\ phase = "read" /\ nalu.nut \in SliceTypes
      /\ nalu = stream[pos] /\ pos \in Nat \ {0}
  BY PocFacts DEF SkipSlice
<1>2. Pilot \in Slices /\ Pilot.nut = nalu.nut
  BY <1>1, PilotOK
<1>3. dec' = i /\ phase' = "finish" /\ pilot' = Pilot /\ UNCHANGED <<stream, pos>>
  BY DEF SkipSlice
<1>4. /\ ~i.newPicture /\ i.firstSliceInSequence = dec.firstSliceInSequence
      /\ i.prevTid0POC = IF Tid0(Pilot) THEN Pilot.poc ELSE dec.prevTid0POC
      /\ i.pocRandomAccess = RandomAccessPoc(Pilot)
      /\ i.skipFrame = IF dec.skipFrame > 0 THEN dec.skipFrame - 1 ELSE 0
      /\ i.pilotNoRasl = IF nalu.nut \in RapTypes THEN NoRaslOutput ELSE dec.pilotNoRasl
  BY <1>1, <1>2, InferredOK
<1> HIDE DEF i
<1>5. ReadSlice
  BY <1>3, <1>4 DEF ReadSlice
<1>6. /\ dec'.skipFrame = 0
      /\ dec'.prevTid0POC \in AnchorPoc(stream, pos + 1)
      /\ dec'.pocRandomAccess = MaxInt <=> Fresh(stream, pos + 1)
      /\ dec'.firstSliceInSequence <=> Fresh(stream, pos)
      /\ dec'.pilotNoRasl => StartsDecoding(stream, pos)
      /\ pilot'.poc = nalu.poc
  BY <1>1, <1>5, ReadSliceHolds
<1>7. nalu.nut \notin RapTypes
  <2>1. ~(dec.skipFrame > 0)
    BY DEF PocInv
  <2> QED
    BY <1>1, <1>2, <2>1, NotAtOnce DEF SkipSlice, Skipped
<1>8. Fresh(stream, pos + 1) <=> Fresh(stream, pos)
  BY <1>1, <1>7, FreshNext, NotAtOnce
<1>9. ~StartsDecoding(stream, pos)
  BY <1>1, <1>7 DEF StartsDecoding, RapTypes
<1>10. ~dec'.newPicture /\ NextUnread' = pos + 1 /\ nalu' = nalu
  BY <1>3, <1>4 DEF NextUnread, Unread, nalu
<1> QED
  BY <1>3, <1>6, <1>8, <1>9, <1>10 DEF PocInv, Anchored, Accessed, Sequenced, Flagged, Derived, Pending

\* A slice that is accepted.
LEMMA AcceptSlicePoc ==
  ASSUME PocInv, WellCoded(stream), AcceptSlice, DInv'
  PROVE  PocInv'
<1> DEFINE i == Inferred(Pilot)
<1>1. /\ dec \in Members /\ nalu \in Nalus /\ phase = "read" /\ nalu.nut \in SliceTypes
      /\ nalu = stream[pos] /\ pos \in Nat \ {0}
  BY PocFacts DEF AcceptSlice
<1>2. Pilot \in Slices /\ Pilot.nut = nalu.nut
  BY <1>1, PilotOK
<1>3. /\ dec' = [i EXCEPT !.prevPOC = Pilot.poc]
      /\ phase' = "decode" /\ pilot' = Pilot /\ UNCHANGED <<stream, pos>>
  BY DEF AcceptSlice
<1>4. /\ i \in Members
      /\ ~i.newPicture /\ i.firstSliceInSequence = dec.firstSliceInSequence
      /\ i.prevTid0POC = IF Tid0(Pilot) THEN Pilot.poc ELSE dec.prevTid0POC
      /\ i.pocRandomAccess = RandomAccessPoc(Pilot)
      /\ i.skipFrame = IF dec.skipFrame > 0 THEN dec.skipFrame - 1 ELSE 0
      /\ i.pilotNoRasl = IF nalu.nut \in RapTypes THEN NoRaslOutput ELSE dec.pilotNoRasl
  BY <1>1, <1>2, InferredOK
<1> HIDE DEF i
<1>5. /\ dec'.newPicture = i.newPicture
      /\ dec'.firstSliceInSequence = i.firstSliceInSequence
      /\ dec'.prevTid0POC = i.prevTid0POC /\ dec'.pocRandomAccess = i.pocRandomAccess
      /\ dec'.skipFrame = i.skipFrame /\ dec'.pilotNoRasl = i.pilotNoRasl
  BY <1>3, <1>4 DEF Members
<1>6. ReadSlice
  BY <1>3, <1>4, <1>5 DEF ReadSlice
<1>7. /\ dec'.skipFrame = 0
      /\ dec'.prevTid0POC \in AnchorPoc(stream, pos + 1)
      /\ dec'.pocRandomAccess = MaxInt <=> Fresh(stream, pos + 1)
      /\ dec'.firstSliceInSequence <=> Fresh(stream, pos)
      /\ dec'.pilotNoRasl => StartsDecoding(stream, pos)
      /\ pilot'.poc = nalu.poc
  BY <1>1, <1>6, ReadSliceHolds
<1>8. ~Fresh(stream, pos + 1)
  <2>1. CASE nalu.nut \in RapTypes
    BY <1>1, <2>1, FreshNext, NotAtOnce
  <2>2. CASE nalu.nut \notin RapTypes
    <3>1. dec.pocRandomAccess # MaxInt
      BY <1>2, <2>2 DEF AcceptSlice, Skipped
    <3>2. dec'.pocRandomAccess = dec.pocRandomAccess
      BY <1>2, <1>4, <1>5, <2>2 DEF RandomAccessPoc
    <3> QED
      BY <1>7, <3>1, <3>2
  <2> QED
    BY <2>1, <2>2
<1>9. ~dec'.newPicture /\ NextUnread' = pos + 1 /\ nalu' = nalu
  BY <1>3, <1>4, <1>5 DEF NextUnread, Unread, nalu
<1> QED
  BY <1>3, <1>7, <1>8, <1>9 DEF PocInv, Anchored, Accessed, Sequenced, Flagged, Derived, Pending

\* A slice of a new picture, which is read again.
LEMMA FindNewPicturePoc ==
  ASSUME PocInv, WellCoded(stream), FindNewPicture, DInv'
  PROVE  PocInv'
<1> DEFINE i == Inferred(Pilot)
<1>1. /\ dec \in Members /\ nalu \in Nalus /\ phase = "read" /\ nalu.nut \in SliceTypes
      /\ nalu = stream[pos] /\ pos \in Nat \ {0}
  BY PocFacts DEF FindNewPicture
<1>2. Pilot \in Slices /\ Pilot.nut = nalu.nut /\ Pilot.poc = SlicePoc
  BY <1>1, PilotOK
<1>3. /\ dec' = [i EXCEPT !.newPicture = TRUE, !.prevPOC = Pilot.poc]
      /\ phase' = "finish" /\ pilot' = Pilot /\ UNCHANGED <<stream, pos>>
  BY DEF FindNewPicture
<1>4. /\ i \in Members
      /\ i.firstSliceInSequence = dec.firstSliceInSequence
      /\ i.prevTid0POC = IF Tid0(Pilot) THEN Pilot.poc ELSE dec.prevTid0POC
      /\ i.pocRandomAccess = RandomAccessPoc(Pilot)
      /\ i.skipFrame = IF dec.skipFrame > 0 THEN dec.skipFrame - 1 ELSE 0
      /\ i.pilotNoRasl = IF nalu.nut \in RapTypes THEN NoRaslOutput ELSE dec.pilotNoRasl
  BY <1>1, <1>2, InferredOK
<1> HIDE DEF i
<1>5. /\ dec'.newPicture
      /\ dec'.firstSliceInSequence = i.firstSliceInSequence
      /\ dec'.prevTid0POC = i.prevTid0POC /\ dec'.pocRandomAccess = i.pocRandomAccess
      /\ dec'.skipFrame = i.skipFrame /\ dec'.pilotNoRasl = i.pilotNoRasl
  BY <1>3, <1>4 DEF Members
<1>6. ReadSlice
  BY <1>3, <1>4, <1>5 DEF ReadSlice
<1>7. /\ dec'.skipFrame = 0
      /\ dec'.prevTid0POC \in AnchorPoc(stream, pos + 1)
      /\ dec'.pocRandomAccess = MaxInt <=> Fresh(stream, pos + 1)
      /\ dec'.firstSliceInSequence <=> Fresh(stream, pos)
      /\ dec'.pilotNoRasl => StartsDecoding(stream, pos)
      /\ pilot'.poc = nalu.poc
  BY <1>1, <1>6, ReadSliceHolds
<1>8. NextUnread' = pos + 1 /\ nalu' = nalu
  BY <1>3, <1>5 DEF NextUnread, Unread, nalu
<1>9. SlicePoc' = nalu.poc
  <2>1. SlicePoc' = SlicePoc
    BY <1>1, <1>2, <1>4, <1>5, <1>8, SlicePocAgain
  <2> QED
    BY <1>1, <2>1, SlicePocRight
<1> QED
  BY <1>3, <1>5, <1>7, <1>8, <1>9 DEF PocInv, Anchored, Accessed, Sequenced, Flagged, Derived, Pending

-----------------------------------------------------------------------------
(* The other steps.                                                        *)

\* What NAL units without slices leave alone.
LEMMA OtherNalMembers ==
  ASSUME dec \in Members, ~dec.newPicture,
         DecodeEos \/ DecodePrefixSei \/ DecodeReservedVcl \/ DecodeNonVcl
  PROVE  /\ ~dec'.newPicture /\ dec'.pic = dec.pic
         /\ dec'.skipFrame = dec.skipFrame /\ dec'.pilotNoRasl = dec.pilotNoRasl
         /\ dec'.firstSliceInPicture = dec.firstSliceInPicture
         /\ dec'.firstSliceInSequence = dec.firstSliceInSequence
         /\ dec'.prevTid0POC = dec.prevTid0POC
         /\ dec'.havePicList = dec.havePicList /\ dec'.loopFiltered = dec.loopFiltered
         /\ IF nalu.nut = "EOS"
            THEN dec'.pocRandomAccess = MaxInt /\ dec'.prevPOC = MaxInt
            ELSE /\ dec'.pocRandomAccess = dec.pocRandomAccess /\ dec'.prevPOC = dec.prevPOC
                 /\ dec'.associatedIRAPType = dec.associatedIRAPType
                 /\ dec'.pocCRA = dec.pocCRA
<1>1. CASE DecodeEos
  BY <1>1 DEF DecodeEos, Members
<1>2. CASE DecodePrefixSei
  BY <1>2 DEF DecodePrefixSei, Members
<1>3. CASE DecodeReservedVcl
  <2>1. nalu.nut # "EOS"
    BY <1>3 DEF DecodeReservedVcl
  <2>2. PICK f : dec' = [dec EXCEPT !.newPicture = FALSE] \/ dec' = [dec EXCEPT !.freedSEI = f]
    BY <1>3 DEF DecodeReservedVcl
  <2>3. CASE dec' = [dec EXCEPT !.newPicture = FALSE]
    BY <2>1, <2>3 DEF Members
  <2>4. CASE dec' = [dec EXCEPT !.freedSEI = f]
    BY <2>1, <2>4 DEF Members
  <2> QED
    BY <2>2, <2>3, <2>4
<1>4. CASE DecodeNonVcl
  BY <1>4 DEF DecodeNonVcl, Members
<1> QED
  BY <1>1, <1>2, <1>3, <1>4

\* NAL units without slices; an EOS makes the sequence fresh.
LEMMA OtherNalPoc ==
  ASSUME PocInv, DecodeEos \/ DecodePrefixSei \/ DecodeReservedVcl \/ DecodeNonVcl, DInv'
  PROVE  PocInv'
<1>1. /\ dec \in Members /\ nalu = stream[pos] /\ pos \in Nat \ {0}
  BY PocFacts
<1>2. phase = "read" /\ nalu.nut \notin SliceTypes /\ nalu.nut \notin RapTypes
  BY DEF DecodeEos, DecodePrefixSei, DecodeReservedVcl, DecodeNonVcl,
         SliceTypes, RapTypes, IdrTypes, BlaTypes, LeadTypes, RaslTypes, RadlTypes, TsaTypes
<1>3. ~dec.newPicture
  BY <1>2 DEF PocInv, DInv, ReadAgain
<1>4. /\ UNCHANGED <<stream, pos, pilot>>
      /\ phase' \in {"finish", "error"} \/ (phase' = "read" /\ nalu.nut # "EOS")
  BY <1>2 DEF DecodeEos, DecodePrefixSei, DecodeReservedVcl, DecodeNonVcl
<1>5. /\ ~dec'.newPicture /\ dec'.firstSliceInSequence = dec.firstSliceInSequence
      /\ dec'.prevTid0POC = dec.prevTid0POC
      /\ dec'.skipFrame = dec.skipFrame /\ dec'.pilotNoRasl = dec.pilotNoRasl
  BY <1>1, <1>3, OtherNalMembers
<1>6. dec'.pocRandomAccess = IF nalu.nut = "EOS" THEN MaxInt ELSE dec.pocRandomAccess
  BY <1>1, <1>3, OtherNalMembers
<1>7. NextUnread = pos /\ (NextUnread' = pos + 1 \/ (NextUnread' = pos /\ nalu.nut # "EOS"))
  BY <1>2, <1>3, <1>4, <1>5 DEF NextUnread, Unread
<1>8. ~IsAnchor(stream[pos])
  BY <1>1, <1>2 DEF IsAnchor
<1>9. Fresh(stream, pos + 1) <=> nalu.nut = "EOS" \/ Fresh(stream, pos)
  BY <1>1, <1>2, FreshNext
<1>10. Anchored'
  BY <1>1, <1>4, <1>5, <1>7, <1>8, AnchorNext DEF PocInv, Anchored
<1>11. Accessed'
  BY <1>4, <1>6, <1>7, <1>9 DEF PocInv, Accessed
<1>12. ~Pending' /\ nalu' = nalu
  BY <1>4, <1>5 DEF Pending, nalu
<1>13. dec.firstSliceInSequence <=> Fresh(stream, pos)
  BY <1>2 DEF PocInv, Sequenced
<1>14. Sequenced'
  BY <1>4, <1>5, <1>9, <1>12, <1>13 DEF Sequenced
<1>15. Flagged'
  BY <1>2, <1>3, <1>5 DEF PocInv, Flagged, Pending
<1>16. Derived'
  BY <1>2, <1>5, <1>12 DEF Derived
<1> QED
  BY <1>5, <1>10, <1>11, <1>14, <1>15, <1>16 DEF PocInv

\* A slice is decoded, or found in error.
LEMMA DecodePoc ==
  ASSUME PocInv, StartPicture \/ ContinuePicture, DInv'
  PROVE  PocInv'
<1>1. dec \in Members /\ phase = "decode" /\ ~dec.newPicture
  BY DEF PocInv, DInv, Types, ReadAgain, StartPicture, ContinuePicture
<1>2. /\ UNCHANGED <<stream, pos, pilot>>
      /\ \/ phase' = "error" /\ dec' = dec
         \/ /\ phase' \in {"finish", "error"}
            /\ ~dec'.newPicture /\ ~dec'.firstSliceInSequence /\ ~dec'.pilotNoRasl
            /\ dec'.prevTid0POC = dec.prevTid0POC
            /\ dec'.skipFrame = dec.skipFrame
            /\ dec'.pocRandomAccess = dec.pocRandomAccess
  <2>1. ASSUME NEW d \in Members, NEW list, NEW p, DecodeInto(list, p, d), ~d.newPicture
        PROVE  /\ phase' \in {"finish", "error"}
               /\ ~dec'.newPicture /\ ~dec'.firstSliceInSequence /\ ~dec'.pilotNoRasl
               /\ dec'.prevTid0POC = d.prevTid0POC
               /\ dec'.skipFrame = d.skipFrame
               /\ dec'.pocRandomAccess = d.pocRandomAccess
    BY <2>1 DEF DecodeInto, Members
  <2>2. CASE ContinuePicture
    BY <1>1, <2>1, <2>2 DEF ContinuePicture
  <2>3. CASE StartPicture
    <3> DEFINE b == GetNewPicBuffer(listPic, dec.made + 1)
               made == IF b.id > dec.made THEN b.id ELSE dec.made
               d == [dec EXCEPT !.made = made]
               l == ApplyRps(b.list, pilot)
               p == [PictureOf(l, b.id) EXCEPT !.slices = <<>>]
    <3>1. UNCHANGED <<stream, pos, pilot>>
      BY <2>3 DEF StartPicture
    <3>2. (phase' = "error" /\ dec' = dec) \/ DecodeInto(l, p, d)
      BY <2>3 DEF StartPicture
    <3>3. made \in Nat
      <4>1. /\ listPic \in Seq(Coded) /\ dec.made \in Nat
            /\ Ids(listPic) \subseteq 1 .. dec.made
        BY <1>1 DEF PocInv, DInv, Types, Members
      <4>2. dec.made + 1 \in Nat /\ dec.made + 1 \notin Ids(listPic)
        BY <4>1
      <4>3. b.id = dec.made + 1 \/ b.id \in Ids(listPic)
        BY <4>1, <4>2, GetNewPicBufferOK
      <4> QED
        BY <4>1, <4>3
    <3> HIDE DEF b, l, p, made
    <3>4. /\ d \in Members /\ ~d.newPicture /\ d.prevTid0POC = dec.prevTid0POC
          /\ d.skipFrame = dec.skipFrame /\ d.pocRandomAccess = dec.pocRandomAccess
      BY <1>1, <3>3 DEF Members
    <3> HIDE DEF d
    <3> QED
      BY <2>1, <3>1, <3>2, <3>4
  <2> QED
    BY <2>2, <2>3
<1>3. NextUnread = pos + 1 /\ NextUnread' = pos + 1 /\ nalu' = nalu
  BY <1>1, <1>2 DEF NextUnread, Unread, nalu
<1>4. ~Fresh(stream, pos + 1)
  BY <1>1 DEF PocInv, Sequenced
<1>5. Anchored' /\ Accessed'
  BY <1>2, <1>3 DEF PocInv, Anchored, Accessed
<1>6. Sequenced'
  BY <1>1, <1>2, <1>4 DEF Sequenced, Pending
<1>7. Flagged' /\ Derived'
  BY <1>1, <1>2, <1>3 DEF PocInv, Flagged, Derived, Pending
<1> QED
  BY <1>2, <1>5, <1>6, <1>7 DEF PocInv

\* The statements of the loop.
LEMMA RoundPoc ==
  ASSUME PocInv, Unmoved, UNCHANGED <<stream, pos, pilot>>,
         phase \in {"finish", "write", "prior", "flush"},
         phase' \in {"write", "prior", "flush", "bump"},
         dec.newPicture => dec'.firstSliceInSequence = dec.firstSliceInSequence,
         IF phase = "finish" /\ nalu.nut = "EOS" THEN dec'.firstSliceInSequence
         ELSE dec'.firstSliceInSequence = dec.firstSliceInSequence,
         DInv'
  PROVE  PocInv'
<1>1. NextUnread = pos + 1 /\ NextUnread' = pos + 1 /\ nalu' = nalu
  BY DEF NextUnread, Unread, nalu
<1>2. nalu = stream[pos] /\ pos \in Nat \ {0}
  BY PocFacts
<1>3. Anchored' /\ Accessed'
  BY <1>1 DEF PocInv, Anchored, Accessed, Unmoved
<1>4. Sequenced'
  <2>1. CASE dec.newPicture
    BY <2>1 DEF PocInv, Sequenced, Pending, Unmoved
  <2>2. CASE ~dec.newPicture /\ phase = "finish" /\ nalu.nut = "EOS"
    BY <1>2, <2>2, FreshNext DEF Sequenced, Pending, Unmoved
  <2>3. CASE ~dec.newPicture /\ ~(phase = "finish" /\ nalu.nut = "EOS")
    BY <2>3 DEF PocInv, Sequenced, Pending, Unmoved
  <2> QED
    BY <2>1, <2>2, <2>3
<1>5. Flagged'
  BY DEF PocInv, Flagged, Pending, Unmoved
<1>6. Derived'
  <2>1. dec.newPicture => SlicePoc' = SlicePoc
    BY <1>1, SlicePocSame DEF Unmoved
  <2> QED
    BY <1>1, <2>1 DEF PocInv, Derived, Unmoved
<1> QED
  BY <1>3, <1>4, <1>5, <1>6 DEF PocInv, Unmoved

\* The end of a picture.
LEMMA FinishPicturePoc ==
  ASSUME PocInv, FinishPicture, DInv'
  PROVE  PocInv'
<1>1. dec \in Members /\ phase = "finish" /\ phase' = "write" /\ UNCHANGED <<stream, pos, pilot>>
  BY DEF PocInv, DInv, Types, FinishPicture
<1>2. Unmoved
  BY <1>1 DEF FinishPicture, Unmoved, Members
<1>3. dec'.firstSliceInSequence =
        (dec.firstSliceInSequence \/ (PictureEnds /\ nalu.nut = "EOS"))
  BY <1>1 DEF FinishPicture, Members
<1>4. dec.newPicture => nalu.nut # "EOS"
  BY NotAtOnce DEF PocInv, DInv, ReadAgain
<1>5. IF phase = "finish" /\ nalu.nut = "EOS" THEN dec'.firstSliceInSequence
      ELSE dec'.firstSliceInSequence = dec.firstSliceInSequence
  BY <1>1, <1>3 DEF PictureEnds, Members
<1>6. dec.newPicture => dec'.firstSliceInSequence = dec.firstSliceInSequence
  BY <1>4, <1>5
<1> QED
  BY <1>1, <1>2, <1>5, <1>6, RoundPoc

\* Output changes nothing that POCs depend on.
LEMMA LoopPoc ==
  ASSUME PocInv, WriteAtNewPicture \/ DropPrior \/ Flush, DInv'
  PROVE  PocInv'
<1>1. dec \in Members /\ DInv
  BY DEF PocInv, DInv, Types
<1>2. /\ phase \in {"write", "prior", "flush"} /\ phase' \in {"prior", "flush", "bump"}
      /\ UNCHANGED <<stream, pos, pilot>>
  BY DEF WriteAtNewPicture, DropPrior, Flush
<1>3. Unmoved /\ dec'.firstSliceInSequence = dec.firstSliceInSequence
  <2>1. CASE WriteAtNewPicture
    <3> DEFINE called == dec.havePicList /\ dec.newPicture
    <3>1. called \in BOOLEAN /\ WriteIf(called)
      BY <1>1, <2>1 DEF WriteAtNewPicture, Members
    <3> HIDE DEF called
    <3> QED
      BY <1>1, <3>1, WriteIfOK
  <2>2. CASE DropPrior
    BY <1>1, <2>2 DEF DropPrior, Unmoved, Members
  <2>3. CASE Flush
    BY <1>1, <2>3 DEF Flush, Unmoved, Members
  <2> QED
    BY <2>1, <2>2, <2>3
<1> QED
  BY <1>2, <1>3, RoundPoc

\* On to the next NAL unit, or back to the slice that is read again.
LEMMA BumpPoc ==
  ASSUME PocInv, Bump, DInv'
  PROVE  PocInv'
<1>1. /\ phase = "bump" /\ phase' = (IF Eof THEN "end" ELSE "read")
      /\ pos' = (IF dec.newPicture \/ Eof THEN pos ELSE pos + 1)
      /\ UNCHANGED <<stream, pilot>> /\ WriteIf(MustBump) /\ DInv
  BY DEF Bump, PocInv
<1>2. MustBump \in BOOLEAN
  BY DEF MustBump, PocInv, DInv, Types, Members
<1>3. Unmoved /\ dec'.firstSliceInSequence = dec.firstSliceInSequence
  BY <1>1, <1>2, WriteIfOK
<1>4. NextUnread = pos + 1 /\ (~dec.newPicture => ~Pending /\ ~Pending')
  BY <1>1, <1>3 DEF NextUnread, Unread, Pending, Unmoved
<1>5. CASE dec.newPicture
  <2>1. phase' = "read" /\ pos' = pos /\ nalu' = nalu
    BY <1>1, <1>5 DEF Eof, nalu
  <2>2. NextUnread' = pos + 1 /\ Pending /\ Pending'
    BY <1>3, <1>5, <2>1 DEF NextUnread, Unread, Pending, Unmoved
  <2>3. SlicePoc' = SlicePoc
    BY <1>3, <2>1, SlicePocSame DEF Unmoved
  <2>4. Anchored' /\ Accessed'
    BY <1>1, <1>3, <1>4, <2>2 DEF PocInv, Anchored, Accessed, Unmoved
  <2>5. Sequenced'
    BY <1>1, <1>3, <2>1, <2>2 DEF PocInv, Sequenced
  <2>6. Flagged' /\ Derived'
    BY <1>1, <1>3, <1>5, <2>1, <2>2, <2>3 DEF PocInv, Flagged, Derived, Unmoved
  <2> QED
    BY <1>3, <2>4, <2>5, <2>6 DEF PocInv, Unmoved
<1>6. CASE ~dec.newPicture
  <2>1. NextUnread' = pos + 1
    BY <1>1, <1>3, <1>6 DEF NextUnread, Unread, Unmoved
  <2>2. Anchored' /\ Accessed'
    BY <1>1, <1>3, <1>4, <2>1 DEF PocInv, Anchored, Accessed, Unmoved
  <2>3. Sequenced'
    BY <1>1, <1>3, <1>4, <1>6 DEF PocInv, Sequenced
  <2>4. Flagged'
    BY <1>1, <1>3, <1>4, <1>6 DEF PocInv, Flagged, Unmoved
  <2>5. Derived'
    BY <1>1, <1>3, <1>6 DEF Derived, Unmoved
  <2> QED
    BY <1>3, <2>2, <2>3, <2>4, <2>5 DEF PocInv, Unmoved
<1> QED
  BY <1>5, <1>6

\* The end.
LEMMA StillPoc ==
  ASSUME PocInv, FlushAtEnd \/ UNCHANGED vars, DInv'
  PROVE  PocInv'
<1>1. /\ UNCHANGED <<stream, pos, dec, pilot>>
      /\ (phase = "end" /\ phase' = "done") \/ phase' = phase
  BY DEF FlushAtEnd, vars
<1>2. nalu' = nalu /\ SlicePoc' = SlicePoc /\ NextUnread' = NextUnread /\ Pending' = Pending
  BY <1>1, SlicePocSame DEF nalu, NextUnread, Unread, Pending
<1> QED
  BY <1>1, <1>2 DEF PocInv, Anchored, Accessed, Sequenced, Flagged, Derived

\* Every step preserves PocInv, as long as no reference is reported lost.
LEMMA PocStep ==
  ASSUME PocInv, NoneLost, [Next]_vars, \A s \in Streams : WellCoded(s)
  PROVE  PocInv'
<1>1. DInv' /\ WellCoded(stream)
  BY NextHolds DEF PocInv, DInv, Types
<1>2. ~CreateLostPicture
  BY DEF NoneLost, CreateLostPicture
<1> QED
  BY <1>1, <1>2, SkipSlicePoc, AcceptSlicePoc, FindNewPicturePoc, OtherNalPoc,
     DecodePoc, FinishPicturePoc, LoopPoc, BumpPoc, StillPoc
     DEF Next, Done

\* PocInv holds at the start, if no frame is skipped on request.
LEMMA PocInit ==
  ASSUME SkipFrames = 0
  PROVE  Init => PocInv
<1> SUFFICES ASSUME Init PROVE PocInv
  OBVIOUS
<1>1. /\ pos = 1 /\ phase = "read" /\ dec.prevTid0POC = 0 /\ dec.pocRandomAccess = MaxInt
      /\ ~dec.newPicture /\ ~dec.pilotNoRasl /\ dec.firstSliceInSequence
      /\ dec.skipFrame = 0
  BY DEF Init
<1>2. NextUnread = 1
  BY <1>1 DEF NextUnread, Unread
<1>3. 1 .. 1 - 1 = {}
  OBVIOUS
<1>4. Fresh(stream, 1) /\ 0 \in AnchorPoc(stream, 1)
  BY <1>3 DEF Fresh, AnchorPoc, LastAnchor
<1> QED
  BY <1>1, <1>2, <1>4, InitHolds
     DEF PocInv, Anchored, Accessed, Sequenced, Flagged, Derived, Pending

\* The POC derived for a slice is the one it was coded with, both times it is
\* read, in every bitstream whose POCs are coded as the standard demands, if
\* no reference is reported lost and no frame is skipped on request.
THEOREM PocsDerived ==
  ASSUME SkipFrames = 0, \A s \in Streams : WellCoded(s)
  PROVE  Spec /\ []NoneLost => []PocRight
<1>1. Init => PocInv
  BY PocInit
<1>2. PocInv /\ NoneLost /\ [Next]_vars => PocInv'
  BY PocStep
<1>3. PocInv => PocRight
  BY DEF PocInv, Derived, PocRight
<1> QED
  BY <1>1, <1>2, <1>3, PTL DEF Spec

-----------------------------------------------------------------------------
(* Whole pictures: the slices that a picture of the list holds.            *)

\* Slices of one coded picture, from its first on.
WholeSlices(u) ==
  \A j \in DOMAIN u : u[j].frame = u[1].frame /\ (u[j].first <=> j = 1)

AllWhole(list) == \A k \in 1 .. Len(list) : WholeSlices(list[k].slices)

\* The picture last decoded is open for another slice of frame f.
OpenFor(f) ==
  /\ ~dec.firstSliceInPicture
  /\ dec.pic \in Ids(listPic)
  /\ PictureOf(listPic, dec.pic).slices[1].frame = f

\* The round leads on to another NAL unit.
GoesOn == phase = "read" \/ (phase \in {"finish", "write", "prior", "flush", "bump"} /\ ~Eof)

\* Where the random access POC a that is set before NAL unit i comes from.
AccessAt(a, i) ==
  \/ a \in {MaxInt, -MaxInt}
  \/ \E j \in FirstRap(stream, i) : stream[j].nut \notin IdrTypes /\ a = stream[j].poc

\* The last POC is one from the random access point on, so that the test of
\* NewPictureFound does not keep a picture from being found.
AfterAccess == dec.prevPOC >= dec.pocRandomAccess

\* The last slice, if it was not skipped, is in the picture that is open.
LastTaken ==
  GoesOn /\ ~Pending =>
    \A j \in LastSlice(stream, NextUnread) :
      Skipped(stream[j]) \/ OpenFor(stream[j].frame)

\* Only the first slice of a picture is read again.
FirstAgain == dec.newPicture => nalu.first

\* The slice to be decoded starts a picture or belongs to the one that is open.
Ready ==
  phase = "decode" =>
    /\ nalu.nut \in SliceTypes /\ pilot.frame = nalu.frame
    /\ pilot.first <=> dec.firstSliceInPicture
    /\ ~pilot.first => OpenFor(pilot.frame)

Whole ==
  /\ AllWhole(listPic)
  /\ AccessAt(dec.pocRandomAccess, NextUnread)
  /\ AfterAccess /\ LastTaken /\ FirstAgain /\ Ready

\* From one NAL unit to the next: the first random access point of the sequence,
LEMMA FirstRapNext ==
  ASSUME NEW s, NEW i \in Nat \ {0}
  PROVE  /\ FirstRap(s, i + 1) \subseteq FirstRap(s, i) \cup {i}
         /\ s[i].nut # "EOS" => FirstRap(s, i) \subseteq FirstRap(s, i + 1)
         /\ s[i].nut \in RapTypes /\ Fresh(s, i) => i \in FirstRap(s, i + 1)
<1>1. (i + 1) - 1 = i /\ i \in 1 .. i /\ i + 1 .. i = {}
  OBVIOUS
<1>2. ASSUME NEW j \in FirstRap(s, i + 1), j # i PROVE j \in FirstRap(s, i)
  <2>1. /\ j \in 1 .. i - 1 /\ s[j].nut \in RapTypes /\ Fresh(s, j)
        /\ \A k \in j + 1 .. i : s[k].nut # "EOS"
    BY <1>1, <1>2 DEF FirstRap
  <2>2. \A k \in j + 1 .. i - 1 : k \in j + 1 .. i
    BY <2>1
  <2> QED
    BY <2>1, <2>2 DEF FirstRap
<1>3. ASSUME s[i].nut # "EOS", NEW j \in FirstRap(s, i) PROVE j \in FirstRap(s, i + 1)
  <2>1. /\ j \in 1 .. i - 1 /\ s[j].nut \in RapTypes /\ Fresh(s, j)
        /\ \A k \in j + 1 .. i - 1 : s[k].nut # "EOS"
    BY DEF FirstRap
  <2>2. \A k \in j + 1 .. i : k = i \/ k \in j + 1 .. i - 1
    BY <2>1
  <2>3. j \in 1 .. i
    BY <2>1
  <2> QED
    BY <1>1, <1>3, <2>1, <2>2, <2>3 DEF FirstRap
<1>4. s[i].nut \in RapTypes /\ Fresh(s, i) => i \in FirstRap(s, i + 1)
  BY <1>1 DEF FirstRap
<1> QED
  BY <1>2, <1>3, <1>4

\* and its last slice.
LEMMA LastSliceNext ==
  ASSUME NEW s, NEW i \in Nat \ {0}
  PROVE  /\ s[i].nut \in SliceTypes => LastSlice(s, i + 1) \subseteq {i}
         /\ s[i].nut = "EOS" => LastSlice(s, i + 1) = {}
         /\ s[i].nut \notin SliceTypes => LastSlice(s, i + 1) \subseteq LastSlice(s, i)
<1>1. (i + 1) - 1 = i
  OBVIOUS
<1> SUFFICES ASSUME NEW j \in LastSlice(s, i + 1)
             PROVE  /\ s[i].nut \in SliceTypes => j = i
                    /\ s[i].nut # "EOS"
                    /\ s[i].nut \notin SliceTypes => j \in LastSlice(s, i)
  OBVIOUS
<1>2. /\ j \in 1 .. i /\ s[j].nut \in SliceTypes
      /\ \A k \in j + 1 .. i : s[k].nut \notin SliceTypes \cup {"EOS"}
  BY <1>1 DEF LastSlice
<1>3. j # i => i \in j + 1 .. i
  BY <1>2
<1>4. s[i].nut # "EOS"
  BY <1>2, <1>3, NotAtOnce
<1>5. s[i].nut \notin SliceTypes => j \in 1 .. i - 1
  BY <1>2
<1>6. \A k \in j + 1 .. i - 1 : k \in j + 1 .. i
  BY <1>2
<1> QED
  BY <1>2, <1>3, <1>4, <1>5, <1>6 DEF LastSlice

\* What makes a slice one that is skipped, from one state to the next.
LEMMA SkippedKept ==
  ASSUME dec'.skipFrame = dec.skipFrame, dec'.pocRandomAccess = dec.pocRandomAccess,
         dec'.associatedIRAPType = dec.associatedIRAPType, dec'.pocCRA = dec.pocCRA,
         NEW s
  PROVE  Skipped(s)' <=> Skipped(s)
BY DEF Skipped

\* Lists with slices of another one are whole when it is, and lists with the
\* same slices have the same picture open.
LEMMA WholeFrom ==
  ASSUME NEW list, NEW new, FromList(list, new), AllWhole(list)
  PROVE  AllWhole(new)
BY DEF AllWhole, FromList, Alike

LEMMA WholeSame ==
  ASSUME NEW S, NEW T, NEW list \in Seq(S), NEW new \in Seq(T),
         SameSlices(list, new), AllWhole(list)
  PROVE  AllWhole(new)
BY DEF AllWhole, SameSlices, SamePictures, Alike

LEMMA OpenKept ==
  ASSUME listPic \in Seq(Coded), listPic' \in Seq(Coded), SameSlices(listPic, listPic'),
         dec'.pic = dec.pic, dec'.firstSliceInPicture = dec.firstSliceInPicture,
         NEW f, OpenFor(f)
  PROVE  OpenFor(f)'
<1>1. Ids(listPic') = Ids(listPic)
  BY SameIds DEF SameSlices
<1>2. PictureOf(listPic', dec.pic).slices = PictureOf(listPic, dec.pic).slices
  BY PictureOfSame DEF OpenFor
<1> QED
  BY <1>1, <1>2 DEF OpenFor

-----------------------------------------------------------------------------
(* Whole pictures: a slice is read.                                        *)

\* A random access POC that is set is not above that of the slice, but for a
\* RASL picture.
LEMMA AccessBelow ==
  ASSUME PocInv, InPictures(stream), nalu.nut \in SliceTypes, nalu.nut \notin RaslTypes,
         NEW a, AccessAt(a, pos + 1), a # MaxInt
  PROVE  nalu.poc >= a
<1>1. nalu = stream[pos] /\ pos \in DOMAIN stream /\ pos \in Nat \ {0} /\ nalu.poc \in Int
  BY PocFacts
<1>2. /\ nalu.poc >= -MaxInt
      /\ \A j \in FirstRap(stream, pos) :
           stream[j].nut \notin IdrTypes => nalu.poc >= stream[j].poc
  BY <1>1 DEF InPictures
<1>3. FirstRap(stream, pos + 1) \subseteq FirstRap(stream, pos) \cup {pos}
  BY <1>1, FirstRapNext
<1> QED
  BY <1>1, <1>2, <1>3 DEF AccessAt

\* The random access POC that a slice leaves: where it comes from, and that the
\* POCs of the slice, if it is not skipped, and of the one before are not below.
LEMMA ReadSliceAccess ==
  ASSUME PocInv, Whole, WellCoded(stream), InPictures(stream),
         phase = "read", nalu.nut \in SliceTypes
  PROVE  /\ AccessAt(RandomAccessPoc(Pilot), pos + 1)
         /\ dec.prevPOC >= RandomAccessPoc(Pilot)
         /\ ~Skipped(Pilot) => Pilot.poc >= RandomAccessPoc(Pilot)
<1> DEFINE a == RandomAccessPoc(Pilot)
<1>1. /\ dec \in Members /\ nalu = stream[pos] /\ pos \in DOMAIN stream
      /\ pos \in Nat \ {0} /\ nalu \in Nalus /\ nalu.poc \in Int
  BY PocFacts
<1>2. Pilot.poc = nalu.poc /\ Pilot.nut = nalu.nut
  BY SlicePocRight DEF Pilot
<1>3. /\ nalu.poc < MaxInt /\ (nalu.nut \in IdrTypes => nalu.poc = 0)
      /\ nalu.poc >= -MaxInt
  BY <1>1 DEF WellCoded, InPictures
<1>4. dec.pocRandomAccess \in Int /\ dec.prevPOC \in Int /\ dec.skipFrame = 0 /\ MaxInt \in Nat
  BY <1>1 DEF Members, PocInv
<1>5. CASE dec.pocRandomAccess # MaxInt \/ nalu.nut \notin RapTypes
  <2>1. a = dec.pocRandomAccess
    BY <1>2, <1>5 DEF RandomAccessPoc
  <2>2. AccessAt(a, NextUnread) /\ dec.prevPOC >= a
    BY <2>1 DEF Whole, AfterAccess
  <2>3. AccessAt(a, pos + 1)
    <3>1. NextUnread \in {pos, pos + 1} /\ nalu.nut # "EOS"
      BY NotAtOnce DEF NextUnread
    <3>2. FirstRap(stream, pos) \subseteq FirstRap(stream, pos + 1)
      BY <1>1, <3>1, FirstRapNext
    <3> QED
      BY <2>2, <3>1, <3>2 DEF AccessAt
  <2>4. ASSUME ~Skipped(Pilot) PROVE Pilot.poc >= a
    <3>1. dec.pocRandomAccess # MaxInt
      BY <1>2, <1>5, <2>4 DEF Skipped
    <3>2. CASE nalu.nut \in RaslTypes
      BY <1>2, <1>4, <1>1, <2>1, <2>4, <3>1, <3>2 DEF Skipped
    <3>3. CASE nalu.nut \notin RaslTypes
      BY <1>2, <2>1, <2>3, <3>1, <3>3, AccessBelow
    <3> QED
      BY <3>2, <3>3
  <2> QED
    BY <2>2, <2>3, <2>4
<1>6. CASE dec.pocRandomAccess = MaxInt /\ nalu.nut \in RapTypes
  <2>1. a = IF nalu.nut \in IdrTypes THEN -MaxInt ELSE nalu.poc
    BY <1>2, <1>4, <1>6 DEF RandomAccessPoc
  <2>2. ~dec.newPicture
    <3>1. ~Fresh(stream, pos + 1)
      BY <1>1, <1>6, FreshNext, NotAtOnce
    <3> QED
      BY <1>6, <3>1 DEF PocInv, Accessed, NextUnread, Unread
  <2>3. Fresh(stream, pos)
    BY <1>6, <2>2 DEF PocInv, Accessed, NextUnread, Unread
  <2>4. pos \in FirstRap(stream, pos + 1)
    BY <1>1, <1>6, <2>3, FirstRapNext
  <2>5. AccessAt(a, pos + 1)
    BY <1>1, <2>1, <2>4 DEF AccessAt
  <2>6. dec.prevPOC >= MaxInt
    BY <1>6 DEF Whole, AfterAccess
  <2>7. a \in Int /\ a <= MaxInt /\ nalu.poc >= a
    BY <1>1, <1>3, <1>4, <2>1
  <2>8. dec.prevPOC >= a
    BY <1>4, <2>6, <2>7
  <2> QED
    BY <1>2, <2>5, <2>7, <2>8
<1> QED
  BY <1>5, <1>6

\* A slice that is skipped leaves the next one none to follow.
LEMMA SkipSliceWhole ==
  ASSUME PocInv, Whole, WellCoded(stream), InPictures(stream), SkipSlice, PocInv'
  PROVE  Whole'
<1> DEFINE i == Inferred(Pilot)
<1>1. /\ dec \in Members /\ nalu \in Nalus /\ phase = "read" /\ nalu.nut \in SliceTypes
      /\ nalu = stream[pos] /\ pos \in Nat \ {0}
  BY PocFacts DEF SkipSlice
<1>2. Pilot \in Slices /\ Pilot.nut = nalu.nut /\ Pilot.poc = nalu.poc
  BY <1>1, PilotOK, SlicePocRight
<1>3. /\ dec' = i /\ phase' = "finish" /\ UNCHANGED <<stream, pos, listPic>>
      /\ Skipped(Pilot)
  BY DEF SkipSlice
<1>4. dec.skipFrame = 0 /\ nalu.nut \notin RapTypes
  <2>1. dec.skipFrame = 0
    BY DEF PocInv
  <2> QED
    BY <1>1, <1>2, <1>3, <2>1, NotAtOnce DEF Skipped
<1>5. /\ ~i.newPicture /\ i.pocRandomAccess = dec.pocRandomAccess
      /\ i.associatedIRAPType = dec.associatedIRAPType /\ i.pocCRA = dec.pocCRA
      /\ i.skipFrame = 0
  <2>1. RandomAccessPoc(Pilot) = dec.pocRandomAccess
    BY <1>2, <1>4 DEF RandomAccessPoc
  <2> QED
    BY <1>1, <1>2, <1>4, <2>1, InferredOK
<1>6. i.prevPOC = dec.prevPOC
  BY <1>1 DEF Inferred, Members
<1> HIDE DEF i
<1>7. NextUnread' = pos + 1
  BY <1>3, <1>5 DEF NextUnread, Unread
<1>8. /\ AccessAt(dec.pocRandomAccess, pos + 1)
  <2>1. RandomAccessPoc(Pilot) = dec.pocRandomAccess
    BY <1>2, <1>4 DEF RandomAccessPoc
  <2> QED
    BY <1>1, <2>1, ReadSliceAccess
<1>9. LastTaken'
  <2>1. LastSlice(stream, pos + 1) \subseteq {pos}
    BY <1>1, LastSliceNext
  <2>2. Skipped(stream[pos])
    BY <1>1, <1>2, <1>3 DEF Skipped
  <2>3. Skipped(stream[pos])'
    BY <1>3, <1>4, <1>5, <2>2 DEF Skipped
  <2> QED
    BY <1>3, <1>7, <2>1, <2>3 DEF LastTaken
<1>10. AfterAccess' /\ FirstAgain' /\ Ready' /\ AllWhole(listPic')
  BY <1>3, <1>5, <1>6 DEF Whole, AfterAccess, FirstAgain, Ready
<1>11. AccessAt(dec.pocRandomAccess, NextUnread)'
  BY <1>3, <1>5, <1>7, <1>8 DEF AccessAt
<1> QED
  BY <1>9, <1>10, <1>11 DEF Whole

\* A slice that is accepted starts a picture, or follows a slice of its own.
LEMMA AcceptSliceWhole ==
  ASSUME PocInv, Whole, WellCoded(stream), InPictures(stream), AcceptSlice, PocInv'
  PROVE  Whole'
<1> DEFINE i == Inferred(Pilot)
<1>1. /\ dec \in Members /\ nalu \in Nalus /\ phase = "read" /\ nalu.nut \in SliceTypes
      /\ nalu = stream[pos] /\ pos \in Nat \ {0} /\ pos \in DOMAIN stream
  BY PocFacts DEF AcceptSlice
<1>2. /\ Pilot \in Slices /\ Pilot.nut = nalu.nut /\ Pilot.poc = nalu.poc
      /\ Pilot.first = nalu.first /\ Pilot.frame = nalu.frame
  BY <1>1, PilotOK, SlicePocRight DEF Pilot
<1>3. /\ dec' = [i EXCEPT !.prevPOC = Pilot.poc] /\ phase' = "decode" /\ pilot' = Pilot
      /\ UNCHANGED <<stream, pos, listPic>>
      /\ ~Skipped(Pilot) /\ ~NewPictureFound(Pilot)
  BY DEF AcceptSlice
<1>4. /\ i \in Members /\ ~i.newPicture /\ i.pocRandomAccess = RandomAccessPoc(Pilot)
      /\ i.firstSliceInPicture = dec.firstSliceInPicture /\ i.pic = dec.pic
  BY <1>1, <1>2, InferredOK
<1> HIDE DEF i
<1>5. /\ ~dec'.newPicture /\ dec'.pocRandomAccess = RandomAccessPoc(Pilot)
      /\ dec'.firstSliceInPicture = dec.firstSliceInPicture /\ dec'.pic = dec.pic
      /\ dec'.prevPOC = Pilot.poc
  BY <1>3, <1>4 DEF Members
<1>6. /\ AccessAt(RandomAccessPoc(Pilot), pos + 1)
      /\ dec.prevPOC >= RandomAccessPoc(Pilot)
      /\ Pilot.poc >= RandomAccessPoc(Pilot)
  BY <1>1, <1>3, ReadSliceAccess
<1>7. nalu.first => dec.firstSliceInPicture
  BY <1>2, <1>3, <1>6 DEF NewPictureFound
<1>8. ~nalu.first => OpenFor(nalu.frame)
  <2> SUFFICES ASSUME ~nalu.first PROVE OpenFor(nalu.frame)
    OBVIOUS
  <2>1. ~dec.newPicture
    BY DEF Whole, FirstAgain
  <2>2. NextUnread = pos /\ GoesOn /\ ~Pending
    BY <1>1, <2>1 DEF NextUnread, Unread, GoesOn, Pending
  <2>3. PICK j \in LastSlice(stream, pos) :
          stream[j].frame = nalu.frame /\ stream[j].nut = nalu.nut /\ stream[j].poc = nalu.poc
    BY <1>1 DEF InPictures
  <2>4. Skipped(stream[j]) \/ OpenFor(stream[j].frame)
    BY <2>2, <2>3 DEF Whole, LastTaken
  <2>5. ~Skipped(stream[j])
    BY <1>2, <1>3, <2>3 DEF Skipped
  <2> QED
    BY <2>3, <2>4, <2>5
<1>9. nalu' = nalu
  BY <1>3 DEF nalu
<1>10. ~nalu.first => ~dec.firstSliceInPicture /\ OpenFor(nalu.frame)'
  <2> SUFFICES ASSUME ~nalu.first PROVE ~dec.firstSliceInPicture /\ OpenFor(nalu.frame)'
    OBVIOUS
  <2> QED
    BY <1>3, <1>5, <1>8, <1>9 DEF OpenFor
<1>11. Ready'
  <2>1. pilot'.first = nalu.first /\ pilot'.frame = nalu.frame
    BY <1>2, <1>3
  <2>2. nalu'.nut \in SliceTypes /\ pilot'.frame = nalu'.frame
    BY <1>1, <1>9, <2>1
  <2>3. pilot'.first <=> dec'.firstSliceInPicture
    BY <1>1, <1>5, <1>7, <1>10, <2>1 DEF Nalus, Members
  <2>4. ~pilot'.first => OpenFor(pilot.frame)'
    BY <1>9, <1>10, <2>1 DEF OpenFor
  <2> QED
    BY <2>2, <2>3, <2>4 DEF Ready
<1>12. NextUnread' = pos + 1
  BY <1>3 DEF NextUnread, Unread
<1>13. AccessAt(dec.pocRandomAccess, NextUnread)'
  BY <1>3, <1>5, <1>6, <1>12 DEF AccessAt
<1>14. LastTaken' /\ FirstAgain' /\ AfterAccess' /\ AllWhole(listPic')
  BY <1>3, <1>5, <1>6 DEF Whole, LastTaken, Pending, FirstAgain, AfterAccess
<1> QED
  BY <1>11, <1>13, <1>14 DEF Whole

\* The slice that starts a new picture while one is open is its first.
LEMMA FindNewPictureWhole ==
  ASSUME PocInv, Whole, WellCoded(stream), InPictures(stream), FindNewPicture, PocInv'
  PROVE  Whole'
<1> DEFINE i == Inferred(Pilot)
<1>1. /\ dec \in Members /\ nalu \in Nalus /\ phase = "read" /\ nalu.nut \in SliceTypes
      /\ nalu = stream[pos] /\ pos \in Nat \ {0}
  BY PocFacts DEF FindNewPicture
<1>2. Pilot \in Slices /\ Pilot.first = nalu.first
  BY <1>1, PilotOK
<1>3. /\ dec' = [i EXCEPT !.newPicture = TRUE, !.prevPOC = Pilot.poc] /\ phase' = "finish"
      /\ UNCHANGED <<stream, pos, listPic>>
      /\ ~Skipped(Pilot) /\ NewPictureFound(Pilot)
  BY DEF FindNewPicture
<1>4. i \in Members /\ i.pocRandomAccess = RandomAccessPoc(Pilot)
  BY <1>1, <1>2, InferredOK
<1> HIDE DEF i
<1>5. /\ dec'.newPicture /\ dec'.pocRandomAccess = RandomAccessPoc(Pilot)
      /\ dec'.prevPOC = Pilot.poc
  BY <1>3, <1>4 DEF Members
<1>6. /\ AccessAt(RandomAccessPoc(Pilot), pos + 1)
      /\ Pilot.poc >= RandomAccessPoc(Pilot)
  BY <1>1, <1>3, ReadSliceAccess
<1>7. FirstAgain'
  <2>1. nalu' = nalu /\ nalu.first
    BY <1>2, <1>3 DEF nalu, NewPictureFound
  <2> QED
    BY <2>1 DEF FirstAgain
<1>8. NextUnread' = pos + 1
  BY <1>3 DEF NextUnread, Unread
<1>9. AccessAt(dec.pocRandomAccess, NextUnread)'
  BY <1>3, <1>5, <1>6, <1>8 DEF AccessAt
<1>10. LastTaken' /\ AfterAccess' /\ Ready' /\ AllWhole(listPic')
  BY <1>3, <1>5, <1>6 DEF Whole, LastTaken, Pending, Ready, AfterAccess
<1> QED
  BY <1>7, <1>9, <1>10 DEF Whole

-----------------------------------------------------------------------------
(* Whole pictures: a slice is decoded.                                     *)

\* One more slice, that is the first or of the same frame.
LEMMA WholeAppended ==
  ASSUME NEW S, NEW u \in Seq(S), NEW s \in S, WholeSlices(u),
         s.first <=> u = <<>>, u # <<>> => u[1].frame = s.frame
  PROVE  WholeSlices(Append(u, s)) /\ Append(u, s)[1].frame = s.frame
<1> DEFINE v == Append(u, s)
<1>1. /\ DOMAIN v = 1 .. Len(u) + 1 /\ v[Len(u) + 1] = s /\ Len(u) \in Nat
      /\ DOMAIN u = 1 .. Len(u) /\ \A j \in 1 .. Len(u) : v[j] = u[j]
  OBVIOUS
<1> HIDE DEF v
<1>2. CASE u = <<>>
  <2>1. DOMAIN v = {1} /\ v[1] = s
    BY <1>1, <1>2
  <2> QED
    BY <1>2, <2>1 DEF WholeSlices, v
<1>3. CASE u # <<>>
  <2>1. v[1] = u[1] /\ Len(u) + 1 # 1
    BY <1>1, <1>3
  <2>2. ASSUME NEW j \in DOMAIN v PROVE v[j].frame = v[1].frame /\ (v[j].first <=> j = 1)
    <3>1. CASE j = Len(u) + 1
      BY <1>1, <1>3, <2>1, <3>1
    <3>2. CASE j # Len(u) + 1
      <4>1. j \in DOMAIN u /\ v[j] = u[j]
        BY <1>1, <3>2
      <4> QED
        BY <2>1, <4>1 DEF WholeSlices
    <3> QED
      BY <3>1, <3>2
  <2> QED
    BY <1>3, <2>1, <2>2 DEF WholeSlices, v
<1> QED
  BY <1>2, <1>3

\* The picture that a slice goes to is whole with it, and open for others.
LEMMA DecodeIntoWhole ==
  ASSUME pilot \in Slices, pilot' = pilot, NEW list \in Seq(Pics), NEW p \in Pics, NEW d \in Members,
         p.id \in Ids(list), DecodeInto(list, p, d),
         AllWhole(list), WholeSlices(p.slices),
         pilot.first <=> p.slices = <<>>,
         p.slices # <<>> => p.slices[1].frame = pilot.frame
  PROVE  /\ AllWhole(listPic') /\ OpenFor(pilot.frame)'
         /\ dec'.newPicture = d.newPicture /\ phase' \in {"finish", "error"}
         /\ dec'.prevPOC = d.prevPOC /\ dec'.pocRandomAccess = d.pocRandomAccess
<1> DEFINE q    == [p EXCEPT !.poc = pilot.poc, !.layer = pilot.tid,
                             !.referenced = TRUE, !.slices = Append(@, pilot)]
           with == SetPicture(list, q)
           s    == [pilot EXCEPT !.found = FoundRefs(with, pilot)]
           t    == Append(p.slices, s)
           r    == [q EXCEPT !.slices = t]
<1>1. /\ listPic' = SetPicture(list, r)
      /\ dec' = [d EXCEPT !.pic = p.id, !.firstSliceInSequence = FALSE,
                          !.firstSliceInBitstream = FALSE,
                          !.firstSliceInPicture = FALSE, !.pilotNoRasl = FALSE,
                          !.freedSEI = @ \cup d.prefixSEI, !.prefixSEI = {},
                          !.pocCRA = IF pilot.nut \in RapTypes THEN pilot.poc ELSE @,
                          !.associatedIRAPType = IF pilot.nut \in RapTypes
                                                 THEN pilot.nut ELSE @]
      /\ phase' \in {"finish", "error"}
  BY DEF DecodeInto
<1>2. r.id = p.id /\ r.slices = t
  BY DEF Pics
<1>3. s.first = pilot.first /\ s.frame = pilot.frame /\ p.slices \in Seq(Slices)
  BY DEF Slices, Pics
<1> HIDE DEF s
<1>4. WholeSlices(t) /\ t[1].frame = pilot.frame
  <2>1. p.slices \in Seq(Slices \cup {s}) /\ s \in Slices \cup {s}
    BY <1>3
  <2> QED
    BY <1>3, <2>1, WholeAppended
<1> HIDE DEF t, q, r
<1>5. list \in Seq(Pics \cup {r}) /\ r \in Pics \cup {r} /\ r.id \in Ids(list)
  BY <1>2
<1>6. AllWhole(listPic')
  <2>1. /\ SamePictures(list, listPic')
        /\ \A k \in 1 .. Len(list) : listPic'[k] = list[k] \/ listPic'[k] = r
    BY <1>1, <1>5, SetPictureOK
  <2> QED
    BY <1>2, <1>4, <2>1 DEF AllWhole, SamePictures
<1>7. p.id \in Ids(listPic') /\ PictureOf(listPic', p.id) = r
  <2>1. Ids(listPic') = Ids(list)
    BY <1>1, <1>5, SetPictureOK
  <2> QED
    BY <1>1, <1>2, <1>5, <2>1, SetPictureFound
<1>8. /\ dec'.pic = p.id /\ ~dec'.firstSliceInPicture /\ dec'.newPicture = d.newPicture
      /\ dec'.prevPOC = d.prevPOC /\ dec'.pocRandomAccess = d.pocRandomAccess
  BY <1>1 DEF Members
<1>9. OpenFor(pilot.frame)'
  BY <1>2, <1>4, <1>7, <1>8 DEF OpenFor
<1> QED
  BY <1>1, <1>6, <1>8, <1>9

\* After a slice is decoded, or found in error, its picture is open.
LEMMA DecodedWhole ==
  ASSUME PocInv, Whole, phase = "decode", ~dec.newPicture, ~dec'.newPicture,
         UNCHANGED <<stream, pos, pilot>>, AllWhole(listPic'),
         phase' = "error" \/ (phase' = "finish" /\ OpenFor(pilot.frame)'),
         dec'.prevPOC = dec.prevPOC, dec'.pocRandomAccess = dec.pocRandomAccess
  PROVE  Whole'
<1>1. nalu = stream[pos] /\ pos \in Nat \ {0} /\ nalu' = nalu
  BY PocFacts DEF nalu
<1>2. NextUnread = pos + 1 /\ NextUnread' = pos + 1
  BY DEF NextUnread, Unread
<1>3. AccessAt(dec.pocRandomAccess, NextUnread)'
  BY <1>2 DEF Whole, AccessAt
<1>4. LastTaken'
  <2> SUFFICES ASSUME GoesOn' PROVE LastTaken'
    BY DEF LastTaken
  <2>1. nalu.nut \in SliceTypes /\ pilot.frame = nalu.frame
    BY DEF Whole, Ready
  <2>2. OpenFor(pilot.frame)'
    BY DEF GoesOn
  <2>3. LastSlice(stream, pos + 1) \subseteq {pos}
    BY <1>1, <2>1, LastSliceNext
  <2>4. OpenFor(stream[pos].frame)'
    BY <1>1, <2>1, <2>2 DEF OpenFor
  <2> QED
    BY <1>2, <2>3, <2>4 DEF LastTaken
<1>5. AfterAccess' /\ FirstAgain' /\ Ready'
  BY DEF Whole, AfterAccess, FirstAgain, Ready
<1> QED
  BY <1>3, <1>4, <1>5 DEF Whole

\* The first slice of a picture goes to a picture without slices,
LEMMA StartPictureWhole ==
  ASSUME PocInv, Whole, StartPicture
  PROVE  Whole'
<1>1. /\ DInv /\ phase = "decode" /\ ~dec.newPicture /\ UNCHANGED <<stream, pos, pilot>>
      /\ dec.firstSliceInPicture /\ listPic \in Seq(Coded) /\ pilot \in Slices
  BY DEF PocInv, DInv, Types, ReadAgain, StartPicture
<1>2. pilot.first /\ AllWhole(listPic)
  BY <1>1 DEF Whole, Ready
<1>3. CASE phase' = "error" /\ UNCHANGED <<listPic, dec>>
  BY <1>1, <1>2, <1>3, DecodedWhole
<1>4. ASSUME NEW l \in Seq(Pics), NEW p \in Pics, NEW d \in Members,
             DecodeInto(l, p, d), p.slices = <<>>, p.id \in Ids(l), ~d.newPicture,
             d.prevPOC = dec.prevPOC, d.pocRandomAccess = dec.pocRandomAccess,
             \A k \in 1 .. Len(l) :
               \/ l[k].slices = <<>>
               \/ \E j \in 1 .. Len(listPic) : Alike(listPic[j], l[k])
      PROVE  Whole'
  <2>1. WholeSlices(<<>>)
    BY DEF WholeSlices
  <2>2. AllWhole(l) /\ WholeSlices(p.slices)
    BY <1>2, <1>4, <2>1 DEF AllWhole, Alike
  <2>3. /\ AllWhole(listPic') /\ OpenFor(pilot.frame)'
        /\ dec'.newPicture = d.newPicture /\ phase' \in {"finish", "error"}
        /\ dec'.prevPOC = d.prevPOC /\ dec'.pocRandomAccess = d.pocRandomAccess
    BY <1>1, <1>2, <1>4, <2>2, DecodeIntoWhole
  <2> QED
    BY <1>1, <1>4, <2>3, DecodedWhole
<1> QED
  BY <1>1, <1>3, <1>4, StartPictureInto

\* and another one to the picture of the slice before it.
LEMMA ContinuePictureWhole ==
  ASSUME PocInv, Whole, ContinuePicture
  PROVE  Whole'
<1> DEFINE p == PictureOf(listPic, dec.pic)
<1>1. /\ dec \in Members /\ phase = "decode" /\ ~dec.newPicture /\ ~dec.firstSliceInPicture
      /\ UNCHANGED <<stream, pos, pilot>> /\ DecodeInto(listPic, p, dec)
      /\ listPic \in Seq(Coded) /\ pilot \in Slices
  BY DEF PocInv, DInv, Types, ReadAgain, ContinuePicture
<1>2. ~pilot.first /\ OpenFor(pilot.frame) /\ AllWhole(listPic)
  BY <1>1 DEF Whole, Ready
<1>3. dec.pic \in Ids(listPic) /\ p.slices[1].frame = pilot.frame
  BY <1>2 DEF OpenFor
<1>4. p \in Coded /\ p.id = dec.pic /\ listPic \in Seq(Pics)
  BY <1>1, <1>3, PictureOfOK DEF Coded
<1>5. WholeSlices(p.slices)
  <2>1. IndexOf(listPic, dec.pic) \in 1 .. Len(listPic)
    BY <1>1, <1>3, IndexFound
  <2> QED
    BY <1>2, <2>1 DEF AllWhole, PictureOf
<1> HIDE DEF p
<1>6. p \in Pics /\ p.slices # <<>>
  BY <1>4 DEF Coded
<1>7. /\ AllWhole(listPic') /\ OpenFor(pilot.frame)'
      /\ dec'.newPicture = dec.newPicture /\ phase' \in {"finish", "error"}
      /\ dec'.prevPOC = dec.prevPOC /\ dec'.pocRandomAccess = dec.pocRandomAccess
  BY <1>1, <1>2, <1>3, <1>4, <1>5, <1>6, DecodeIntoWhole
<1> QED
  BY <1>1, <1>7, DecodedWhole

-----------------------------------------------------------------------------
(* Whole pictures: the other steps.                                        *)

\* The open picture is still that of the last slice where the slices of the
\* pictures, the members that Skipped reads and firstSliceInPicture stay; what
\* comes after an EOS, at the end or before a slice that is read again needs no
\* picture.
LEMMA LastStaysTaken ==
  ASSUME PocInv, Whole, Unmoved, stream' = stream, listPic' \in Seq(Coded),
         NextUnread = pos + 1, NextUnread' = pos + 1,
         GoesOn' => GoesOn, Pending => Pending',
         GoesOn' /\ ~Pending /\ nalu.nut # "EOS" =>
           /\ dec'.firstSliceInPicture = dec.firstSliceInPicture
           /\ SameSlices(listPic, listPic')
  PROVE  LastTaken'
<1>1. nalu = stream[pos] /\ pos \in Nat \ {0} /\ listPic \in Seq(Coded)
  BY PocFacts DEF PocInv, DInv, Types
<1> SUFFICES ASSUME GoesOn', ~Pending', NEW j \in LastSlice(stream, pos + 1)
             PROVE  Skipped(stream[j])' \/ OpenFor(stream[j].frame)'
  BY DEF LastTaken
<1>2. nalu.nut # "EOS"
  BY <1>1, LastSliceNext
<1>3. /\ dec'.firstSliceInPicture = dec.firstSliceInPicture
      /\ SameSlices(listPic, listPic')
  BY <1>2
<1>4. Skipped(stream[j]) \/ OpenFor(stream[j].frame)
  BY DEF Whole, LastTaken
<1>5. CASE Skipped(stream[j])
  BY <1>5 DEF Skipped, Unmoved
<1>6. CASE OpenFor(stream[j].frame)
  <2>1. PICK f : f = stream[j].frame
    OBVIOUS
  <2>2. OpenFor(f)'
    BY <1>1, <1>3, <1>6, <2>1, OpenKept DEF Unmoved
  <2> QED
    BY <2>1, <2>2 DEF OpenFor
<1> QED
  BY <1>4, <1>5, <1>6

\* The statements of the loop.
LEMMA RoundWhole ==
  ASSUME PocInv, Whole, Unmoved, UNCHANGED <<stream, pos, pilot>>,
         phase \in {"finish", "write", "prior", "flush"},
         phase' \in {"write", "prior", "flush", "bump"},
         listPic' \in Seq(Coded), AllWhole(listPic'),
         ~Eof /\ ~dec.newPicture /\ nalu.nut # "EOS" =>
           /\ dec'.firstSliceInPicture = dec.firstSliceInPicture
           /\ SameSlices(listPic, listPic')
  PROVE  Whole'
<1>1. NextUnread = pos + 1 /\ NextUnread' = pos + 1 /\ nalu' = nalu
  BY DEF NextUnread, Unread, nalu
<1>2. /\ GoesOn <=> ~Eof
      /\ GoesOn' <=> ~Eof
      /\ Pending <=> dec.newPicture
      /\ Pending' <=> dec.newPicture
  BY DEF GoesOn, Pending, Eof, Unmoved
<1>3. LastTaken'
  BY <1>1, <1>2, LastStaysTaken
<1>4. AccessAt(dec.pocRandomAccess, NextUnread)'
  BY <1>1 DEF Whole, AccessAt, Unmoved
<1>5. AfterAccess' /\ FirstAgain' /\ Ready'
  BY <1>1 DEF Whole, AfterAccess, FirstAgain, Ready, Unmoved
<1> QED
  BY <1>3, <1>4, <1>5 DEF Whole

\* NAL units without slices; an EOS ends the sequence.
LEMMA OtherNalWhole ==
  ASSUME PocInv, Whole, DecodeEos \/ DecodePrefixSei \/ DecodeReservedVcl \/ DecodeNonVcl
  PROVE  Whole'
<1>1. /\ dec \in Members /\ nalu = stream[pos] /\ pos \in Nat \ {0}
  BY PocFacts
<1>2. phase = "read" /\ nalu.nut \notin SliceTypes
  BY DEF DecodeEos, DecodePrefixSei, DecodeReservedVcl, DecodeNonVcl,
         SliceTypes, RapTypes, IdrTypes, BlaTypes, LeadTypes, RaslTypes, RadlTypes, TsaTypes
<1>3. ~dec.newPicture
  BY <1>2 DEF PocInv, DInv, ReadAgain
<1>4. /\ UNCHANGED <<stream, pos, pilot, listPic>>
      /\ phase' \in {"finish", "error"} \/ (phase' = "read" /\ nalu.nut # "EOS")
  BY <1>2 DEF DecodeEos, DecodePrefixSei, DecodeReservedVcl, DecodeNonVcl
<1>5. /\ ~dec'.newPicture /\ dec'.pic = dec.pic /\ dec'.skipFrame = dec.skipFrame
      /\ dec'.firstSliceInPicture = dec.firstSliceInPicture
  BY <1>1, <1>3, OtherNalMembers
<1>6. IF nalu.nut = "EOS"
      THEN dec'.pocRandomAccess = MaxInt /\ dec'.prevPOC = MaxInt
      ELSE /\ dec'.pocRandomAccess = dec.pocRandomAccess /\ dec'.prevPOC = dec.prevPOC
           /\ dec'.associatedIRAPType = dec.associatedIRAPType /\ dec'.pocCRA = dec.pocCRA
  BY <1>1, <1>3, OtherNalMembers
<1>7. NextUnread = pos /\ (NextUnread' = pos + 1 \/ (NextUnread' = pos /\ nalu.nut # "EOS"))
  BY <1>2, <1>3, <1>4, <1>5 DEF NextUnread, Unread
<1>8. AccessAt(dec.pocRandomAccess, NextUnread)'
  <2>1. CASE nalu.nut = "EOS"
    BY <1>6, <2>1 DEF AccessAt
  <2>2. CASE nalu.nut # "EOS"
    <3>1. FirstRap(stream, pos) \subseteq FirstRap(stream, pos + 1)
      BY <1>1, <2>2, FirstRapNext
    <3> QED
      BY <1>4, <1>6, <1>7, <2>2, <3>1 DEF Whole, AccessAt
  <2> QED
    BY <2>1, <2>2
<1>9. LastTaken'
  <2> SUFFICES ASSUME NEW j \in LastSlice(stream, NextUnread')
               PROVE  Skipped(stream[j])' \/ OpenFor(stream[j].frame)'
    BY <1>4 DEF LastTaken
  <2>1. nalu.nut # "EOS" /\ j \in LastSlice(stream, pos)
    BY <1>1, <1>2, <1>7, LastSliceNext
  <2>2. Skipped(stream[j]) \/ OpenFor(stream[j].frame)
    BY <1>2, <1>3, <1>7, <2>1 DEF Whole, LastTaken, GoesOn, Pending
  <2> QED
    BY <1>4, <1>5, <1>6, <2>1, <2>2 DEF Skipped, OpenFor
<1>10. AfterAccess'
  <2>1. MaxInt >= MaxInt
    OBVIOUS
  <2> QED
    BY <1>6, <2>1 DEF Whole, AfterAccess
<1>11. FirstAgain' /\ Ready' /\ AllWhole(listPic')
  BY <1>4, <1>5 DEF Whole, FirstAgain, Ready
<1> QED
  BY <1>8, <1>9, <1>10, <1>11 DEF Whole

\* The end of a picture: it is marked, and the list is sorted.
LEMMA FinishPictureWhole ==
  ASSUME PocInv, Whole, FinishPicture, DInv'
  PROVE  Whole'
<1>1. /\ dec \in Members /\ phase = "finish" /\ phase' = "write"
      /\ UNCHANGED <<stream, pos, pilot>>
      /\ listPic \in Seq(Coded) /\ listPic' \in Seq(Coded)
  BY DEF PocInv, DInv, Types, FinishPicture
<1>2. Unmoved
  BY <1>1 DEF FinishPicture, Unmoved, Members
<1>3. AllWhole(listPic')
  <2>1. CASE MustFinish
    <3>1. dec.pic \in Ids(listPic)
      BY <1>1, <2>1 DEF MustFinish, PocInv, DInv, Held
    <3> QED
      BY <1>1, <2>1, <3>1, FinishedOK, WholeFrom DEF Whole, FinishPicture
  <2>2. CASE ~MustFinish
    BY <2>2 DEF Whole, FinishPicture
  <2> QED
    BY <2>1, <2>2
<1>4. ASSUME ~Eof, ~dec.newPicture, nalu.nut # "EOS"
      PROVE  /\ dec'.firstSliceInPicture = dec.firstSliceInPicture
             /\ SameSlices(listPic, listPic')
  <2>1. ~PictureEnds /\ ~MustFinish
    BY <1>4 DEF PictureEnds, MustFinish
  <2>2. listPic' = listPic
    BY <2>1 DEF FinishPicture
  <2>3. dec'.firstSliceInPicture = dec.firstSliceInPicture
    BY <1>1, <2>1 DEF FinishPicture, Members
  <2> QED
    BY <2>2, <2>3 DEF SameSlices, SamePictures, Alike
<1> QED
  BY <1>1, <1>2, <1>3, <1>4, RoundWhole

\* Output and the release of pictures.
LEMMA LoopWhole ==
  ASSUME PocInv, Whole, WriteAtNewPicture \/ DropPrior \/ Flush, DInv'
  PROVE  Whole'
<1>1. /\ dec \in Members /\ DInv /\ listPic \in Seq(Coded) /\ listPic' \in Seq(Coded)
      /\ AllWhole(listPic)
  BY DEF PocInv, DInv, Types, Whole
<1>2. /\ phase \in {"write", "prior", "flush"} /\ phase' \in {"prior", "flush", "bump"}
      /\ UNCHANGED <<stream, pos, pilot>>
  BY DEF WriteAtNewPicture, DropPrior, Flush
<1>3. SameSlices(listPic, listPic)
  BY DEF SameSlices, SamePictures, Alike
<1>4. CASE WriteAtNewPicture
  <2> DEFINE called == dec.havePicList /\ dec.newPicture
  <2>1. called \in BOOLEAN /\ WriteIf(called) /\ (called => dec.newPicture)
    BY <1>1, <1>4 DEF WriteAtNewPicture, Members
  <2> HIDE DEF called
  <2>2. /\ Unmoved /\ SameSlices(listPic, listPic')
        /\ dec'.firstSliceInPicture =
             (dec.firstSliceInPicture /\ (called => nalu.nut # "EOS"))
    BY <1>1, <2>1, WriteIfOK
  <2>3. AllWhole(listPic')
    BY <1>1, <2>2, WholeSame
  <2>4. ~dec.newPicture => dec'.firstSliceInPicture = dec.firstSliceInPicture
    BY <1>1, <2>1, <2>2 DEF Members
  <2> QED
    BY <1>1, <1>2, <2>2, <2>3, <2>4, RoundWhole
<1>5. CASE DropPrior
  <2>1. Unmoved /\ dec'.firstSliceInPicture = dec.firstSliceInPicture
    BY SMTT(20), <1>1, <1>5 DEF DropPrior, Unmoved, Members
  <2>2. SameSlices(listPic, listPic')
    BY <1>1, <1>3, <1>5, DropPriorPicsOK DEF DropPrior
  <2>3. AllWhole(listPic')
    BY <1>1, <2>2, WholeSame
  <2> QED
    BY <1>1, <1>2, <2>1, <2>2, <2>3, RoundWhole
<1>6. CASE Flush
  <2>1. Unmoved /\ dec'.firstSliceInPicture = dec.firstSliceInPicture
    BY <1>1, <1>6 DEF Flush, Unmoved, Members
  <2>2. listPic' = <<>> \/ listPic' = listPic
    BY <1>6 DEF Flush
  <2>3. ~dec.newPicture => SameSlices(listPic, listPic')
    BY <1>3, <1>6 DEF Flush, MustFlush
  <2>4. AllWhole(listPic')
    BY <1>1, <2>2 DEF AllWhole
  <2> QED
    BY <1>1, <1>2, <2>1, <2>3, <2>4, RoundWhole
<1> QED
  BY <1>4, <1>5, <1>6

\* On to the next NAL unit, or back to the slice that is read again.
LEMMA BumpWhole ==
  ASSUME PocInv, Whole, Bump, DInv'
  PROVE  Whole'
<1>1. /\ phase = "bump" /\ phase' = (IF Eof THEN "end" ELSE "read")
      /\ pos' = (IF dec.newPicture \/ Eof THEN pos ELSE pos + 1)
      /\ UNCHANGED <<stream, pilot>> /\ WriteIf(MustBump) /\ DInv
      /\ listPic \in Seq(Coded) /\ listPic' \in Seq(Coded) /\ dec \in Members
  BY DEF Bump, PocInv, DInv, Types
<1>2. MustBump \in BOOLEAN
  BY <1>1 DEF MustBump, Members
<1>3. /\ Unmoved /\ SameSlices(listPic, listPic')
      /\ dec'.firstSliceInPicture =
           (dec.firstSliceInPicture /\ (MustBump => nalu.nut # "EOS"))
  BY <1>1, <1>2, WriteIfOK
<1>4. AllWhole(listPic')
  BY <1>1, <1>3, WholeSame DEF Whole
<1>5. dec.newPicture => phase' = "read" /\ pos' = pos /\ nalu' = nalu
  BY <1>1 DEF Eof, nalu
<1>6. NextUnread = pos + 1 /\ NextUnread' = pos + 1
  BY <1>1, <1>3, <1>5 DEF NextUnread, Unread, Unmoved
<1>7. /\ GoesOn' => GoesOn
      /\ Pending => Pending'
  BY <1>1, <1>3 DEF GoesOn, Pending, Unmoved
<1>8. nalu.nut # "EOS" => dec'.firstSliceInPicture = dec.firstSliceInPicture
  BY <1>1, <1>3 DEF Members
<1>9. LastTaken'
  BY <1>1, <1>3, <1>6, <1>7, <1>8, LastStaysTaken
<1>10. AccessAt(dec.pocRandomAccess, NextUnread)'
  BY <1>1, <1>3, <1>6 DEF Whole, AccessAt, Unmoved
<1>11. AfterAccess' /\ FirstAgain' /\ Ready'
  BY <1>1, <1>3, <1>5 DEF Whole, AfterAccess, FirstAgain, Ready, Unmoved
<1> QED
  BY <1>4, <1>9, <1>10, <1>11 DEF Whole

\* The end.
LEMMA StillWhole ==
  ASSUME PocInv, Whole, FlushAtEnd \/ UNCHANGED vars
  PROVE  Whole'
<1>1. CASE FlushAtEnd
  <2>1. /\ UNCHANGED <<stream, pos, dec, pilot>> /\ phase = "end" /\ phase' = "done"
        /\ listPic' = <<>> \/ listPic' = listPic
    BY <1>1 DEF FlushAtEnd
  <2>2. NextUnread' = NextUnread
    BY <2>1 DEF NextUnread, Unread
  <2>3. AllWhole(listPic')
    BY <2>1 DEF Whole, AllWhole
  <2>4. LastTaken'
    BY <2>1 DEF LastTaken, GoesOn
  <2> QED
    BY <2>1, <2>2, <2>3, <2>4 DEF Whole, AccessAt, AfterAccess, FirstAgain, Ready, nalu
<1>2. CASE UNCHANGED vars
  BY <1>2 DEF vars, Whole, AccessAt, AfterAccess, LastTaken, FirstAgain, Ready, GoesOn,
              Pending, NextUnread, Unread, OpenFor, Skipped, Eof, nalu
<1> QED
  BY <1>1, <1>2

\* Every step preserves Whole, as long as no reference is reported lost.
LEMMA WholeStep ==
  ASSUME PocInv, Whole, InPictures(stream), NoneLost, [Next]_vars,
         \A s \in Streams : WellCoded(s)
  PROVE  Whole'
<1>1. PocInv' /\ DInv' /\ WellCoded(stream)
  BY PocStep DEF PocInv, DInv, Types
<1>2. ~CreateLostPicture
  BY DEF NoneLost, CreateLostPicture
<1> QED
  BY <1>1, <1>2, SkipSliceWhole, AcceptSliceWhole, FindNewPictureWhole, OtherNalWhole,
     StartPictureWhole, ContinuePictureWhole, FinishPictureWhole, LoopWhole, BumpWhole,
     StillWhole
     DEF Next, Done

\* Whole holds at the start.
LEMMA WholeInit == Init => Whole
<1> SUFFICES ASSUME Init PROVE Whole
  OBVIOUS
<1>1. /\ pos = 1 /\ phase = "read" /\ dec.prevPOC = MaxInt /\ dec.pocRandomAccess = MaxInt
      /\ ~dec.newPicture /\ listPic = <<>>
  BY DEF Init
<1>2. NextUnread = 1 /\ 1 .. 1 - 1 = {}
  BY <1>1 DEF NextUnread, Unread
<1>3. LastSlice(stream, 1) = {} /\ MaxInt >= MaxInt
  BY <1>2 DEF LastSlice
<1> QED
  BY <1>1, <1>2, <1>3
     DEF Whole, AllWhole, AccessAt, AfterAccess, LastTaken, FirstAgain, Ready

\* The bitstream stays the one that is decoded.
LEMMA SameStream ==
  ASSUME [Next]_vars PROVE stream' = stream
BY DEF Next, vars, Done, SkipSlice, FindNewPicture, AcceptSlice, CreateLostPicture,
       StartPicture, ContinuePicture, DecodeEos, DecodePrefixSei, DecodeReservedVcl,
       DecodeNonVcl, FinishPicture, WriteAtNewPicture, DropPrior, Flush, Bump, FlushAtEnd

\* A picture of the list is made of the slices of one coded picture, from its
\* first on, in the decoding of every bitstream of whole pictures, if no
\* reference is reported lost and no frame is skipped on request: although the
\* slice of a new picture is known by the end of the one before only, is read
\* twice, and slices may be skipped in between.
THEOREM PicturesWhole ==
  ASSUME SkipFrames = 0, \A s \in Streams : WellCoded(s)
  PROVE  Spec /\ []NoneLost => [](InPictures(stream) => WholePictures)
<1> DEFINE WholeInv == PocInv /\ (InPictures(stream) => Whole)
<1>1. Init => Whole
  BY WholeInit
<1>2. WholeInv /\ NoneLost /\ [Next]_vars => WholeInv'
  BY PocStep, WholeStep, SameStream
<1>3. WholeInv => (InPictures(stream) => WholePictures)
  <2> SUFFICES ASSUME Whole, listPic \in Seq(Coded) PROVE WholePictures
    BY DEF PocInv, DInv, Types
  <2> QED
    BY DEF Whole, AllWhole, WholeSlices, WholePictures
<1> QED
  BY <1>1, <1>2, <1>3, PocInit, PTL DEF Spec

-----------------------------------------------------------------------------
(* References: the list holds pictures of the sequence at hand only.       *)

\* The list is emptied before the picture that NAL unit i of bitstream s starts.
Empties(s, i) == s[i].first /\ s[i].nut \in IdrTypes \cup BlaTypes

\* Picture p has its POC and its frame from one of the first n NAL units of s,
\* and the list has not been emptied since.
CodedIn(s, n, p) ==
  \E j \in 1 .. n :
    /\ s[j].nut \in SliceTypes
    /\ s[j].poc = p.poc /\ s[j].frame = p.slices[1].frame
    /\ \A k \in j + 1 .. n : ~Empties(s, k)

AllCoded(s, n, list) == \A k \in 1 .. Len(list) : CodedIn(s, n, list[k])

\* The references found for slices are those that they name.
NamedFound(u) ==
  \A j \in DOMAIN u : \A i \in DOMAIN u[j].found : u[j].found[i] = u[j].refs[i].frame

AllNamed(list) == \A k \in 1 .. Len(list) : NamedFound(list[k].slices)

\* The NAL units before whose pictures the list has been emptied, if at all.
EmptiedFor ==
  IF Unread \/ (dec.newPicture /\ phase \in {"finish", "write", "prior", "flush"})
  THEN pos - 1 ELSE pos

InRound == phase \in {"finish", "write", "prior", "flush", "bump"}

\* A slice that finds no picture open, without being read again, finds no list:
\* it is that of the first picture.
NoneListed ==
  dec.firstSliceInPicture /\ ~dec.newPicture =>
    /\ phase = "read" => listPic = <<>>
    /\ InRound => listPic = <<>> \/ Eof \/ nalu.nut = "EOS"

\* pcListPic is set when it is needed: where a picture ends, at the latest.
ListSet ==
  /\ listPic = <<>> \/ dec.havePicList \/ ~dec.firstSliceInSequence
  /\ dec.loopFiltered => dec.havePicList
  /\ InRound /\ phase # "finish" /\ (dec.newPicture \/ nalu.nut = "EOS") =>
       listPic = <<>> \/ dec.havePicList

\* The slice to be decoded has the references of the NAL unit, if it has any.
OwnRefs == phase = "decode" => pilot.refs = <<>> \/ pilot.refs = nalu.refs

Listed ==
  /\ AllCoded(stream, EmptiedFor, listPic)
  /\ AllNamed(listPic)
  /\ NoneListed /\ ListSet /\ OwnRefs

\* From one NAL unit to the next, when the list need not be emptied,
LEMMA CodedNext ==
  ASSUME NEW s, NEW n \in Nat \ {0}, NEW list, AllCoded(s, n - 1, list), ~Empties(s, n)
  PROVE  AllCoded(s, n, list)
<1> SUFFICES ASSUME NEW k \in 1 .. Len(list) PROVE CodedIn(s, n, list[k])
  BY DEF AllCoded
<1>1. PICK j \in 1 .. n - 1 :
        /\ s[j].nut \in SliceTypes
        /\ s[j].poc = list[k].poc /\ s[j].frame = list[k].slices[1].frame
        /\ \A i \in j + 1 .. n - 1 : ~Empties(s, i)
  BY DEF AllCoded, CodedIn
<1>2. j \in 1 .. n /\ \A i \in j + 1 .. n : i = n \/ i \in j + 1 .. n - 1
  OBVIOUS
<1> QED
  BY <1>1, <1>2 DEF CodedIn

\* and from one list to another with its slices.
LEMMA ListedFrom ==
  ASSUME NEW S, NEW list, NEW new \in Seq(S), FromList(list, new)
  PROVE  /\ \A s, n : AllCoded(s, n, list) => AllCoded(s, n, new)
         /\ AllNamed(list) => AllNamed(new)
         /\ list = <<>> => new = <<>>
<1>1. \A k \in 1 .. Len(new) : \E j \in 1 .. Len(list) :
        new[k].slices = list[j].slices /\ new[k].poc = list[j].poc
  BY DEF FromList, Alike
<1>2. \A s, n : AllCoded(s, n, list) => AllCoded(s, n, new)
  <2> SUFFICES ASSUME NEW s, NEW n, AllCoded(s, n, list), NEW k \in 1 .. Len(new)
               PROVE  CodedIn(s, n, new[k])
    BY DEF AllCoded
  <2>1. PICK j \in 1 .. Len(list) :
          new[k].slices = list[j].slices /\ new[k].poc = list[j].poc
    BY <1>1
  <2>2. CodedIn(s, n, list[j])
    BY DEF AllCoded
  <2> QED
    BY <2>1, <2>2 DEF CodedIn
<1>3. AllNamed(list) => AllNamed(new)
  BY <1>1 DEF AllNamed
<1>4. list = <<>> => new = <<>>
  <2> SUFFICES ASSUME list = <<>>, new # <<>> PROVE FALSE
    OBVIOUS
  <2>1. 1 \in 1 .. Len(new) /\ Len(list) = 0
    OBVIOUS
  <2> QED
    BY <1>1, <2>1
<1> QED
  BY <1>2, <1>3, <1>4

LEMMA FromSame ==
  ASSUME NEW list, NEW new, SameSlices(list, new)
  PROVE  FromList(list, new)
BY DEF FromList, SameSlices, SamePictures

\* The pictures of the list are those of the sequence of the slice at hand.
LEMMA SameSequence ==
  ASSUME PocInv, InSequences(stream), nalu.nut \in SliceTypes,
         NEW list, AllCoded(stream, pos, list), NEW k \in 1 .. Len(list),
         NEW r \in DOMAIN nalu.refs, nalu.refs[r].used,
         list[k].poc = nalu.poc + nalu.refs[r].delta
  PROVE  list[k].slices[1].frame = nalu.refs[r].frame
<1>1. nalu = stream[pos] /\ pos \in Nat \ {0} /\ pos \in DOMAIN stream
  BY PocFacts
<1>2. PICK j \in 1 .. pos :
        /\ stream[j].nut \in SliceTypes
        /\ stream[j].poc = list[k].poc /\ stream[j].frame = list[k].slices[1].frame
        /\ \A i \in j + 1 .. pos : ~Empties(stream, i)
  BY DEF AllCoded, CodedIn
<1>3. j \in DOMAIN stream
  <2>1. DOMAIN stream = 1 .. Len(stream) /\ Len(stream) \in Nat
    BY NaluOK DEF PocInv, DInv
  <2> QED
    BY <1>1, <2>1
<1>4. stream[pos].cvs = stream[j].cvs
  <2> SUFFICES ASSUME stream[pos].cvs # stream[j].cvs PROVE FALSE
    OBVIOUS
  <2>1. j < pos
    BY <1>1, <1>2
  <2>2. \E i \in j + 1 .. pos : Empties(stream, i)
    BY <1>1, <1>2, <1>3, <2>1 DEF InSequences, Empties
  <2> QED
    BY <1>2, <2>2
<1> QED
  BY <1>1, <1>2, <1>3, <1>4 DEF InSequences

-----------------------------------------------------------------------------
(* References: a slice, or another NAL unit, is read.                      *)

\* The list may hold what it held, and the slice need not empty it.
LEMMA ReadCoded ==
  ASSUME PocInv, Listed, phase = "read",
         dec.newPicture \/ listPic = <<>> \/ ~Empties(stream, pos)
  PROVE  AllCoded(stream, pos, listPic)
<1>1. pos \in Nat \ {0}
  BY PocFacts
<1>2. CASE dec.newPicture
  BY <1>2 DEF Listed, EmptiedFor, Unread
<1>3. CASE listPic = <<>>
  <2>1. 1 .. Len(listPic) = {}
    BY <1>3
  <2> QED
    BY <2>1 DEF AllCoded
<1>4. CASE ~dec.newPicture /\ ~Empties(stream, pos)
  <2>1. AllCoded(stream, pos - 1, listPic)
    BY <1>4 DEF Listed, EmptiedFor, Unread
  <2> QED
    BY <1>1, <1>4, <2>1, CodedNext
<1> QED
  BY <1>2, <1>3, <1>4

\* A slice that is skipped is not that of a random access point.
LEMMA SkipSliceListed ==
  ASSUME PocInv, Listed, WellCoded(stream), SkipSlice
  PROVE  Listed'
<1> DEFINE i == Inferred(Pilot)
<1>1. /\ dec \in Members /\ nalu \in Nalus /\ phase = "read" /\ nalu.nut \in SliceTypes
      /\ nalu = stream[pos] /\ pos \in Nat \ {0}
  BY PocFacts DEF SkipSlice
<1>2. Pilot \in Slices /\ Pilot.nut = nalu.nut
  BY <1>1, PilotOK
<1>3. /\ dec' = i /\ phase' = "finish" /\ UNCHANGED <<stream, pos, listPic>>
      /\ Skipped(Pilot)
  BY DEF SkipSlice
<1>4. /\ ~i.newPicture /\ i.firstSliceInPicture = dec.firstSliceInPicture
      /\ i.firstSliceInSequence = dec.firstSliceInSequence
      /\ i.havePicList = dec.havePicList /\ i.loopFiltered = dec.loopFiltered
  BY <1>1, <1>2, InferredOK
<1> HIDE DEF i
<1>5. ~dec.newPicture
  BY <1>3 DEF PocInv, DInv, ReadAgain
<1>6. ~Empties(stream, pos)
  <2>1. dec.skipFrame = 0
    BY DEF PocInv
  <2> QED
    BY <1>1, <1>2, <1>3, <2>1, NotAtOnce DEF Skipped, Empties, RapTypes
<1>7. AllCoded(stream, pos, listPic)
  BY <1>1, <1>6, ReadCoded
<1>8. EmptiedFor' = pos
  BY <1>3, <1>4 DEF EmptiedFor, Unread
<1>9. NoneListed' /\ ListSet' /\ OwnRefs'
  BY <1>1, <1>3, <1>4, <1>5 DEF Listed, NoneListed, ListSet, OwnRefs
<1> QED
  BY <1>3, <1>7, <1>8, <1>9 DEF Listed

\* A slice that is accepted is read again, or finds no pictures, or its picture
\* empties the list for none.
LEMMA AcceptSliceListed ==
  ASSUME PocInv, Whole, Listed, WellCoded(stream), InPictures(stream), AcceptSlice
  PROVE  Listed'
<1> DEFINE i == Inferred(Pilot)
<1>1. /\ dec \in Members /\ nalu \in Nalus /\ phase = "read" /\ nalu.nut \in SliceTypes
      /\ nalu = stream[pos] /\ pos \in Nat \ {0}
  BY PocFacts DEF AcceptSlice
<1>2. Pilot \in Slices /\ Pilot.first = nalu.first /\ Pilot.refs \in {<<>>, nalu.refs}
  BY <1>1, PilotOK DEF Pilot
<1>3. /\ dec' = [i EXCEPT !.prevPOC = Pilot.poc] /\ phase' = "decode" /\ pilot' = Pilot
      /\ UNCHANGED <<stream, pos, listPic>>
      /\ ~NewPictureFound(Pilot)
  BY DEF AcceptSlice
<1>4. /\ i \in Members /\ ~i.newPicture
      /\ i.firstSliceInSequence = dec.firstSliceInSequence
      /\ i.havePicList = dec.havePicList /\ i.loopFiltered = dec.loopFiltered
  BY <1>1, <1>2, InferredOK
<1> HIDE DEF i
<1>5. /\ ~dec'.newPicture
      /\ dec'.firstSliceInSequence = dec.firstSliceInSequence
      /\ dec'.havePicList = dec.havePicList /\ dec'.loopFiltered = dec.loopFiltered
  BY <1>3, <1>4 DEF Members
<1>6. Empties(stream, pos) => dec.firstSliceInPicture
  <2>1. dec.prevPOC >= RandomAccessPoc(Pilot)
    BY <1>1, ReadSliceAccess
  <2> QED
    BY <1>1, <1>2, <1>3, <2>1 DEF NewPictureFound, Empties
<1>7. AllCoded(stream, pos, listPic)
  BY <1>1, <1>6, ReadCoded DEF Listed, NoneListed
<1>8. EmptiedFor' = pos
  BY <1>3, <1>5 DEF EmptiedFor, Unread
<1>9. nalu' = nalu /\ pilot'.refs \in {<<>>, nalu.refs}
  BY <1>2, <1>3 DEF nalu
<1>10. NoneListed' /\ ListSet' /\ OwnRefs'
  BY <1>3, <1>5, <1>9 DEF Listed, NoneListed, ListSet, OwnRefs, InRound
<1> QED
  BY <1>3, <1>7, <1>8, <1>10 DEF Listed

\* A slice that starts a new picture while one is open has not been read before.
LEMMA FindNewPictureListed ==
  ASSUME PocInv, Listed, FindNewPicture
  PROVE  Listed'
<1> DEFINE i == Inferred(Pilot)
<1>1. /\ dec \in Members /\ nalu \in Nalus /\ phase = "read" /\ nalu.nut \in SliceTypes
      /\ nalu = stream[pos] /\ pos \in Nat \ {0}
  BY PocFacts DEF FindNewPicture
<1>2. Pilot \in Slices
  BY <1>1, PilotOK
<1>3. /\ dec' = [i EXCEPT !.newPicture = TRUE, !.prevPOC = Pilot.poc] /\ phase' = "finish"
      /\ UNCHANGED <<stream, pos, listPic>>
      /\ NewPictureFound(Pilot)
  BY DEF FindNewPicture
<1>4. /\ i \in Members
      /\ i.firstSliceInSequence = dec.firstSliceInSequence
      /\ i.havePicList = dec.havePicList /\ i.loopFiltered = dec.loopFiltered
  BY <1>1, <1>2, InferredOK
<1> HIDE DEF i
<1>5. /\ dec'.newPicture
      /\ dec'.firstSliceInSequence = dec.firstSliceInSequence
      /\ dec'.havePicList = dec.havePicList /\ dec'.loopFiltered = dec.loopFiltered
  BY <1>3, <1>4 DEF Members
<1>6. ~dec.newPicture
  BY <1>1, <1>3 DEF PocInv, DInv, ReadAgain, NewPictureFound
<1>7. EmptiedFor = pos - 1 /\ EmptiedFor' = pos - 1
  BY <1>1, <1>3, <1>5, <1>6 DEF EmptiedFor, Unread
<1>8. NoneListed' /\ ListSet' /\ OwnRefs'
  BY <1>3, <1>5 DEF Listed, NoneListed, ListSet, OwnRefs
<1> QED
  BY <1>3, <1>7, <1>8 DEF Listed

\* NAL units without slices.
LEMMA OtherNalListed ==
  ASSUME PocInv, Listed, phase' # "error",
         DecodeEos \/ DecodePrefixSei \/ DecodeReservedVcl \/ DecodeNonVcl
  PROVE  Listed'
<1>1. /\ dec \in Members /\ nalu = stream[pos] /\ pos \in Nat \ {0}
  BY PocFacts
<1>2. phase = "read" /\ nalu.nut \notin SliceTypes
  BY DEF DecodeEos, DecodePrefixSei, DecodeReservedVcl, DecodeNonVcl,
         SliceTypes, RapTypes, IdrTypes, BlaTypes, LeadTypes, RaslTypes, RadlTypes, TsaTypes
<1>3. ~dec.newPicture
  BY <1>2 DEF PocInv, DInv, ReadAgain
<1>4. /\ UNCHANGED <<stream, pos, pilot, listPic>> /\ phase' \in {"finish", "read"}
  BY <1>2 DEF DecodeEos, DecodePrefixSei, DecodeReservedVcl, DecodeNonVcl
<1>5. /\ ~dec'.newPicture /\ dec'.firstSliceInPicture = dec.firstSliceInPicture
      /\ dec'.firstSliceInSequence = dec.firstSliceInSequence
      /\ dec'.havePicList = dec.havePicList /\ dec'.loopFiltered = dec.loopFiltered
  BY <1>1, <1>3, OtherNalMembers
<1>6. ~Empties(stream, pos)
  BY <1>1, <1>2 DEF Empties, SliceTypes, RapTypes
<1>7. AllCoded(stream, EmptiedFor', listPic)
  <2>1. CASE phase' = "read"
    BY <1>2, <1>3, <1>4, <1>5, <2>1 DEF Listed, EmptiedFor, Unread
  <2>2. CASE phase' = "finish"
    <3>1. EmptiedFor' = pos
      BY <1>4, <1>5, <2>2 DEF EmptiedFor, Unread
    <3> QED
      BY <1>2, <1>6, <3>1, ReadCoded
  <2> QED
    BY <1>4, <2>1, <2>2
<1>8. NoneListed' /\ ListSet' /\ OwnRefs'
  BY <1>2, <1>3, <1>4, <1>5 DEF Listed, NoneListed, ListSet, OwnRefs, InRound
<1> QED
  BY <1>4, <1>7, <1>8 DEF Listed

-----------------------------------------------------------------------------
(* References: a slice is decoded.                                         *)

\* xGetRefPic gives a picture with the POC, where it gives one.
LEMMA GetRefPicFound ==
  ASSUME NEW S, NEW list \in Seq(S), NEW poc, GetRefPic(list, poc) # 0
  PROVE  /\ GetRefPic(list, poc) \in 1 .. Len(list)
         /\ list[GetRefPic(list, poc)].poc = poc
<1> DEFINE I == {i \in 1 .. Len(list) : list[i].poc = poc}
<1>1. GetRefPic(list, poc) = IF I # {} THEN Min(I) ELSE 0
  BY DEF GetRefPic, SelectInSeq
<1>2. I # {} => Min(I) \in I
  <2>1. Len(list) \in Nat /\ I \in SUBSET (1 .. Len(list))
    OBVIOUS
  <2> HIDE DEF I
  <2> QED
    BY <2>1, SelectOK
<1> QED
  BY <1>1, <1>2

\* The pictures found for a slice, in a list of its sequence, are those named,
\* unless the slice is rejected for one that is missing.
LEMMA FoundNamed ==
  ASSUME PocInv, InSequences(stream), nalu.nut \in SliceTypes,
         pilot \in Slices, pilot.poc = nalu.poc,
         pilot.refs = <<>> \/ pilot.refs = nalu.refs,
         NEW with \in Seq(Coded), AllCoded(stream, pos, with),
         ~RefListRejected(with, pilot)
  PROVE  \A i \in DOMAIN FoundRefs(with, pilot) :
           FoundRefs(with, pilot)[i] = pilot.refs[i].frame
<1> DEFINE I == {j \in DOMAIN pilot.refs : pilot.refs[j].used}
<1>1. SUFFICES ASSUME NEW i \in I
               PROVE  FoundRefs(with, pilot)[i] = pilot.refs[i].frame
  BY DEF FoundRefs
<1> DEFINE poc == pilot.poc + pilot.refs[i].delta
           k == GetRefPic(with, poc)
<1>2. FoundRefs(with, pilot)[i] = IF k = 0 THEN 0 ELSE with[k].slices[1].frame
  BY DEF FoundRefs
<1>3. k # 0
  <2>1. poc \in UsedPocs(pilot)
    BY DEF UsedPocs
  <2> QED
    BY <2>1 DEF RefListRejected
<1>4. k \in 1 .. Len(with) /\ with[k].poc = poc
  BY <1>3, GetRefPicFound
<1>5. pilot.refs = nalu.refs
  <2>1. DOMAIN pilot.refs # {}
    OBVIOUS
  <2> QED
    BY <2>1
<1> HIDE DEF k
<1>6. with[k].slices[1].frame = nalu.refs[i].frame
  BY <1>4, <1>5, SameSequence
<1> QED
  BY <1>2, <1>3, <1>5, <1>6

\* One more slice, with what is found for it.
LEMMA NamedAppended ==
  ASSUME NEW S, NEW u \in Seq(S), NEW s \in S, NamedFound(u),
         \A i \in DOMAIN s.found : s.found[i] = s.refs[i].frame
  PROVE  NamedFound(Append(u, s))
<1> DEFINE v == Append(u, s)
<1>1. /\ DOMAIN v = 1 .. Len(u) + 1 /\ v[Len(u) + 1] = s /\ Len(u) \in Nat
      /\ DOMAIN u = 1 .. Len(u) /\ \A j \in 1 .. Len(u) : v[j] = u[j]
  OBVIOUS
<1> HIDE DEF v
<1>2. ASSUME NEW j \in DOMAIN v
      PROVE  \A i \in DOMAIN v[j].found : v[j].found[i] = v[j].refs[i].frame
  <2>1. CASE j = Len(u) + 1
    BY <1>1, <2>1
  <2>2. CASE j # Len(u) + 1
    <3>1. j \in DOMAIN u /\ v[j] = u[j]
      BY <1>1, <2>2
    <3> QED
      BY <3>1 DEF NamedFound
  <2> QED
    BY <2>1, <2>2
<1> QED
  BY <1>2 DEF NamedFound, v

\* The first slice of a picture stays the first.
LEMMA FirstFrame ==
  ASSUME NEW S, NEW u \in Seq(S), NEW s \in S, u = <<>> \/ u[1].frame = s.frame
  PROVE  Append(u, s)[1].frame = s.frame
<1>1. CASE u = <<>>
  BY <1>1
<1>2. CASE u # <<>>
  <2>1. Append(u, s)[1] = u[1]
    BY <1>2
  <2> QED
    BY <1>2, <2>1
<1> QED
  BY <1>1, <1>2

\* The list with the slice at hand in picture p.
LEMMA DecodeIntoListed ==
  ASSUME PocInv, InSequences(stream), OwnRefs, phase = "decode", nalu.nut \in SliceTypes,
         pilot.frame = nalu.frame, pilot.poc = nalu.poc,
         NEW list \in Seq(Pics), NEW p \in Pics, NEW d \in Members,
         p.id \in Ids(list), OnlyNew(list, p.id), DecodeInto(list, p, d),
         phase' # "error", listPic' \in Seq(Coded),
         \A k \in 1 .. Len(list) :
           \/ list[k].slices = <<>>
           \/ CodedIn(stream, pos, list[k]) /\ NamedFound(list[k].slices),
         NamedFound(p.slices), p.slices = <<>> \/ p.slices[1].frame = pilot.frame
  PROVE  /\ AllCoded(stream, pos, listPic') /\ AllNamed(listPic')
         /\ phase' = "finish" /\ dec'.newPicture = d.newPicture
         /\ ~dec'.firstSliceInPicture /\ ~dec'.firstSliceInSequence
         /\ dec'.havePicList = d.havePicList /\ dec'.loopFiltered = d.loopFiltered
<1> DEFINE tp   == Append(p.slices, pilot)
           q    == [p EXCEPT !.poc = pilot.poc, !.layer = pilot.tid,
                             !.referenced = TRUE, !.slices = Append(@, pilot)]
           with == SetPicture(list, q)
           s    == [pilot EXCEPT !.found = FoundRefs(with, pilot)]
           t    == Append(p.slices, s)
           r    == [q EXCEPT !.slices = t]
<1>1. /\ pilot \in Slices /\ nalu = stream[pos] /\ pos \in Nat \ {0}
      /\ p.slices \in Seq(Slices) /\ pilot.poc \in Int /\ pilot.tid \in Nat
  BY PocFacts DEF PocInv, DInv, Types, Pics, Slices
<1>2. /\ listPic' = SetPicture(list, r)
      /\ dec' = [d EXCEPT !.pic = p.id, !.firstSliceInSequence = FALSE,
                          !.firstSliceInBitstream = FALSE,
                          !.firstSliceInPicture = FALSE, !.pilotNoRasl = FALSE,
                          !.freedSEI = @ \cup d.prefixSEI, !.prefixSEI = {},
                          !.pocCRA = IF pilot.nut \in RapTypes THEN pilot.poc ELSE @,
                          !.associatedIRAPType = IF pilot.nut \in RapTypes
                                                 THEN pilot.nut ELSE @]
      /\ phase' = "finish" /\ ~RefListRejected(with, pilot)
  BY DEF DecodeInto
<1>3. tp \in Seq(Slices) /\ tp # <<>> /\ tp[1].frame = pilot.frame
  <2>1. tp \in Seq(Slices) /\ tp # <<>>
    BY <1>1, Appended
  <2>2. tp[1].frame = pilot.frame
    BY <1>1, FirstFrame
  <2> QED
    BY <2>1, <2>2
<1>4. q \in Coded /\ q.id = p.id /\ q.poc = pilot.poc /\ q.slices = tp
  <2>1. q = [p EXCEPT !.poc = pilot.poc, !.layer = pilot.tid,
                      !.referenced = TRUE, !.slices = tp]
    BY DEF Pics
  <2> HIDE DEF q, tp
  <2> QED
    BY <1>1, <1>3, <2>1 DEF Pics, Coded
<1>5. s.frame = pilot.frame /\ s.refs = pilot.refs /\ s.found = FoundRefs(with, pilot)
  BY <1>1 DEF Slices
<1>6. r.id = p.id /\ r.poc = pilot.poc /\ r.slices = t
  <2> HIDE DEF t, q
  <2> QED
    BY <1>4 DEF Coded, Pics
<1> HIDE DEF tp, q, s
<1>7. /\ p.slices \in Seq(Slices \cup {s}) /\ s \in Slices \cup {s}
      /\ p.slices = <<>> \/ p.slices[1].frame = s.frame
  BY <1>1, <1>5
<1>8. t[1].frame = pilot.frame
  BY <1>5, <1>7, FirstFrame
<1> HIDE DEF t, r
<1>9. ASSUME NEW x, x.poc = pilot.poc, x.slices[1].frame = pilot.frame
      PROVE  CodedIn(stream, pos, x)
  <2>1. pos \in 1 .. pos /\ pos + 1 .. pos = {}
    BY <1>1
  <2> QED
    BY <1>1, <1>9, <2>1 DEF CodedIn
<1>10. CodedIn(stream, pos, q) /\ CodedIn(stream, pos, r)
  BY <1>3, <1>4, <1>6, <1>8, <1>9
<1>11. /\ with \in Seq(Coded) /\ Len(with) = Len(list)
       /\ \A k \in 1 .. Len(list) : with[k] = list[k] \/ with[k] = q
  <2>1. list \in Seq(Pics \cup {q}) /\ q \in Pics \cup {q} /\ q.id \in Ids(list)
    BY <1>4
  <2> QED
    BY <1>4, <2>1, SetOnlyNew, SetPictureOK DEF SamePictures
<1> HIDE DEF with
<1>12. AllCoded(stream, pos, with)
  <2> SUFFICES ASSUME NEW k \in 1 .. Len(with) PROVE CodedIn(stream, pos, with[k])
    BY DEF AllCoded
  <2>1. with[k].slices # <<>>
    BY <1>11 DEF Coded
  <2> QED
    BY <1>10, <1>11, <2>1
<1>13. NamedFound(t)
  <2>1. \A i \in DOMAIN s.found : s.found[i] = s.refs[i].frame
    BY <1>1, <1>2, <1>5, <1>11, <1>12, FoundNamed DEF OwnRefs
  <2> QED
    BY <1>7, <2>1, NamedAppended DEF t
<1>14. /\ Len(listPic') = Len(list)
       /\ \A k \in 1 .. Len(list) : listPic'[k] = list[k] \/ listPic'[k] = r
  <2>1. list \in Seq(Pics \cup {r}) /\ r \in Pics \cup {r} /\ r.id \in Ids(list)
    BY <1>6
  <2> QED
    BY <1>2, <2>1, SetPictureOK DEF SamePictures
<1>15. ASSUME NEW k \in 1 .. Len(listPic')
       PROVE  CodedIn(stream, pos, listPic'[k]) /\ NamedFound(listPic'[k].slices)
  <2>1. listPic'[k].slices # <<>>
    BY DEF Coded
  <2> QED
    BY <1>6, <1>10, <1>13, <1>14, <2>1
<1>16. /\ dec'.newPicture = d.newPicture
       /\ ~dec'.firstSliceInPicture /\ ~dec'.firstSliceInSequence
       /\ dec'.havePicList = d.havePicList /\ dec'.loopFiltered = d.loopFiltered
  BY <1>2 DEF Members
<1> QED
  BY <1>2, <1>15, <1>16 DEF AllCoded, AllNamed

\* After a slice is decoded, there is a list.
LEMMA DecodedListed ==
  ASSUME Listed, UNCHANGED <<stream, pos>>, phase' = "finish",
         AllCoded(stream, pos, listPic'), AllNamed(listPic'),
         ~dec'.newPicture, ~dec'.firstSliceInPicture, ~dec'.firstSliceInSequence,
         dec'.havePicList = dec.havePicList, dec'.loopFiltered = dec.loopFiltered
  PROVE  Listed'
<1>1. EmptiedFor' = pos
  BY DEF EmptiedFor, Unread
<1> QED
  BY <1>1 DEF Listed, NoneListed, ListSet, OwnRefs

\* What is known where a slice is decoded.
LEMMA ListedFacts ==
  ASSUME PocInv, Whole, Listed, phase = "decode"
  PROVE  /\ listPic \in Seq(Coded) /\ AllCoded(stream, pos, listPic) /\ AllNamed(listPic)
         /\ OwnRefs /\ nalu.nut \in SliceTypes
         /\ pilot.frame = nalu.frame /\ pilot.poc = nalu.poc
         /\ ~dec.newPicture
<1>1. /\ ~dec.newPicture /\ listPic \in Seq(Coded)
      /\ nalu.nut \in SliceTypes /\ pilot.frame = nalu.frame /\ pilot.poc = nalu.poc
  BY DEF PocInv, DInv, Types, ReadAgain, Derived, Whole, Ready
<1>2. EmptiedFor = pos
  BY DEF EmptiedFor, Unread
<1> QED
  BY <1>1, <1>2 DEF Listed

\* The first slice of a picture goes to a picture without slices,
LEMMA StartPictureListed ==
  ASSUME PocInv, Whole, Listed, InSequences(stream), StartPicture, phase' # "error", DInv'
  PROVE  Listed'
<1>1. /\ DInv /\ phase = "decode" /\ UNCHANGED <<stream, pos>> /\ listPic' \in Seq(Coded)
  BY DEF PocInv, DInv, Types, StartPicture
<1>2. /\ listPic \in Seq(Coded) /\ AllCoded(stream, pos, listPic) /\ AllNamed(listPic)
      /\ OwnRefs /\ nalu.nut \in SliceTypes
      /\ pilot.frame = nalu.frame /\ pilot.poc = nalu.poc /\ ~dec.newPicture
  BY <1>1, ListedFacts
<1>3. ASSUME NEW l \in Seq(Pics), NEW p \in Pics, NEW d \in Members,
             DecodeInto(l, p, d), p.slices = <<>>, p.id \in Ids(l), OnlyNew(l, p.id),
             ~d.newPicture,
             d.havePicList = dec.havePicList, d.loopFiltered = dec.loopFiltered,
             \A k \in 1 .. Len(l) :
               \/ l[k].slices = <<>>
               \/ \E j \in 1 .. Len(listPic) : Alike(listPic[j], l[k])
      PROVE  Listed'
  <2>1. NamedFound(p.slices)
    BY <1>3 DEF NamedFound
  <2>2. \A k \in 1 .. Len(l) :
          \/ l[k].slices = <<>>
          \/ CodedIn(stream, pos, l[k]) /\ NamedFound(l[k].slices)
    BY <1>2, <1>3 DEF Alike, AllCoded, AllNamed, CodedIn
  <2>3. /\ AllCoded(stream, pos, listPic') /\ AllNamed(listPic')
        /\ phase' = "finish" /\ dec'.newPicture = d.newPicture
        /\ ~dec'.firstSliceInPicture /\ ~dec'.firstSliceInSequence
        /\ dec'.havePicList = d.havePicList /\ dec'.loopFiltered = d.loopFiltered
    BY <1>1, <1>2, <1>3, <2>1, <2>2, DecodeIntoListed
  <2> QED
    BY <1>1, <1>3, <2>3, DecodedListed
<1> QED
  BY <1>1, <1>3, StartPictureInto

\* and another one to the picture that is open, which is of its frame.
LEMMA ContinuePictureListed ==
  ASSUME PocInv, Whole, Listed, InSequences(stream), ContinuePicture, phase' # "error", DInv'
  PROVE  Listed'
<1> DEFINE p == PictureOf(listPic, dec.pic)
<1>1. /\ dec \in Members /\ phase = "decode" /\ UNCHANGED <<stream, pos>>
      /\ listPic' \in Seq(Coded) /\ DecodeInto(listPic, p, dec) /\ ~dec.firstSliceInPicture
  BY DEF PocInv, DInv, Types, ContinuePicture
<1>2. /\ listPic \in Seq(Coded) /\ AllCoded(stream, pos, listPic) /\ AllNamed(listPic)
      /\ OwnRefs /\ nalu.nut \in SliceTypes
      /\ pilot.frame = nalu.frame /\ pilot.poc = nalu.poc /\ ~dec.newPicture
  BY <1>1, ListedFacts
<1>3. dec.pic \in Ids(listPic) /\ p.slices[1].frame = pilot.frame
  BY <1>1 DEF Whole, Ready, OpenFor
<1>4. p \in Coded /\ p.id = dec.pic
  BY <1>2, <1>3, PictureOfOK
<1>5. NamedFound(p.slices)
  <2>1. IndexOf(listPic, dec.pic) \in 1 .. Len(listPic)
    BY <1>2, <1>3, IndexFound
  <2> QED
    BY <1>2, <2>1 DEF AllNamed, PictureOf
<1> HIDE DEF p
<1>6. p \in Pics /\ listPic \in Seq(Pics) /\ OnlyNew(listPic, p.id) /\ p.id \in Ids(listPic)
  BY <1>2, <1>3, <1>4 DEF Coded, OnlyNew
<1>7. \A k \in 1 .. Len(listPic) : CodedIn(stream, pos, listPic[k]) /\ NamedFound(listPic[k].slices)
  BY <1>2 DEF AllCoded, AllNamed
<1>8. /\ AllCoded(stream, pos, listPic') /\ AllNamed(listPic')
      /\ phase' = "finish" /\ dec'.newPicture = dec.newPicture
      /\ ~dec'.firstSliceInPicture /\ ~dec'.firstSliceInSequence
      /\ dec'.havePicList = dec.havePicList /\ dec'.loopFiltered = dec.loopFiltered
  BY <1>1, <1>2, <1>3, <1>5, <1>6, <1>7, DecodeIntoListed
<1> QED
  BY <1>1, <1>2, <1>8, DecodedListed

-----------------------------------------------------------------------------
(* References: the other steps.                                            *)

\* The end of a picture sets pcListPic.
LEMMA FinishPictureListed ==
  ASSUME PocInv, Listed, FinishPicture, DInv'
  PROVE  Listed'
<1>1. /\ dec \in Members /\ phase = "finish" /\ phase' = "write"
      /\ UNCHANGED <<stream, pos, pilot>>
      /\ listPic \in Seq(Coded) /\ listPic' \in Seq(Coded)
  BY DEF PocInv, DInv, Types, FinishPicture
<1>2. /\ dec'.newPicture = dec.newPicture
      /\ dec'.firstSliceInPicture =
           (dec.firstSliceInPicture \/ MustFinish \/ (PictureEnds /\ dec.firstSliceInSequence))
      /\ dec'.havePicList = (dec.havePicList \/ MustFinish)
      /\ dec'.loopFiltered = IF PictureEnds /\ ~dec.firstSliceInSequence
                             THEN nalu.nut = "EOS" ELSE dec.loopFiltered
      /\ dec'.firstSliceInSequence =
           (dec.firstSliceInSequence \/ (PictureEnds /\ nalu.nut = "EOS"))
  BY <1>1 DEF FinishPicture, Members
<1>3. nalu' = nalu /\ (Eof' <=> Eof)
  BY <1>1, <1>2 DEF nalu, Eof
<1>4. FromList(listPic, listPic') /\ (~MustFinish => listPic' = listPic)
  <2>1. CASE MustFinish
    <3>1. dec.pic \in Ids(listPic)
      BY <1>1, <2>1 DEF MustFinish, PocInv, DInv, Held
    <3> QED
      BY <1>1, <2>1, <3>1, FinishedOK DEF FinishPicture
  <2>2. CASE ~MustFinish
    BY <2>2 DEF FinishPicture, FromList, Alike
  <2> QED
    BY <2>1, <2>2
<1>5. EmptiedFor' = EmptiedFor
  BY <1>1, <1>2 DEF EmptiedFor, Unread
<1>6. AllCoded(stream, EmptiedFor, listPic') /\ AllNamed(listPic')
  BY <1>1, <1>4, ListedFrom DEF Listed
<1>7. NoneListed'
  <2> SUFFICES ASSUME dec'.firstSliceInPicture, ~dec.newPicture, ~Eof, nalu.nut # "EOS"
               PROVE  listPic' = <<>>
    BY <1>1, <1>2, <1>3 DEF NoneListed
  <2>1. ~PictureEnds /\ ~MustFinish
    BY DEF PictureEnds, MustFinish
  <2> QED
    BY <1>1, <1>2, <1>4, <2>1 DEF Listed, NoneListed, InRound
<1>8. MustFinish \/ ~PictureEnds \/ dec.firstSliceInSequence \/ dec.loopFiltered
  BY DEF MustFinish
<1>9. ListSet'
  <2>1. dec.newPicture \/ nalu.nut = "EOS" => PictureEnds
    BY DEF PictureEnds
  <2> QED
    BY <1>1, <1>2, <1>3, <1>4, <1>8, <2>1 DEF Listed, ListSet
<1> QED
  BY <1>1, <1>5, <1>6, <1>7, <1>9 DEF Listed, OwnRefs

\* Output and the release of pictures: they keep the pictures, or empty the list.
LEMMA LoopListed ==
  ASSUME PocInv, Listed, WriteAtNewPicture \/ DropPrior \/ Flush, DInv'
  PROVE  Listed'
<1>1. /\ dec \in Members /\ DInv /\ listPic \in Seq(Coded) /\ listPic' \in Seq(Coded)
      /\ nalu = stream[pos] /\ pos \in Nat \ {0}
  BY PocFacts DEF PocInv, DInv, Types
<1>2. /\ phase \in {"write", "prior", "flush"} /\ phase' \in {"prior", "flush", "bump"}
      /\ UNCHANGED <<stream, pos, pilot>>
  BY DEF WriteAtNewPicture, DropPrior, Flush
<1>3. /\ dec'.newPicture = dec.newPicture
      /\ dec'.firstSliceInPicture => dec.firstSliceInPicture
      /\ dec'.firstSliceInSequence = dec.firstSliceInSequence
      /\ dec'.havePicList = dec.havePicList /\ dec'.loopFiltered = dec.loopFiltered
  <2>1. CASE WriteAtNewPicture
    <3> DEFINE called == dec.havePicList /\ dec.newPicture
    <3>1. called \in BOOLEAN /\ WriteIf(called)
      BY <1>1, <2>1 DEF WriteAtNewPicture, Members
    <3> HIDE DEF called
    <3> QED
      BY <1>1, <3>1, WriteIfOK DEF Unmoved
  <2>2. CASE DropPrior
    BY <1>1, <2>2 DEF DropPrior, Members
  <2>3. CASE Flush
    BY <1>1, <2>3 DEF Flush, Members
  <2> QED
    BY <2>1, <2>2, <2>3
<1>4. FromList(listPic, listPic')
  <2>1. CASE WriteAtNewPicture
    <3> DEFINE called == dec.havePicList /\ dec.newPicture
    <3>1. called \in BOOLEAN /\ WriteIf(called)
      BY <1>1, <2>1 DEF WriteAtNewPicture, Members
    <3> HIDE DEF called
    <3>2. SameSlices(listPic, listPic')
      BY <1>1, <3>1, WriteIfOK
    <3> QED
      BY <3>2, FromSame
  <2>2. CASE listPic' = listPic
    BY <2>2 DEF FromList, Alike
  <2>3. CASE listPic' = <<>>
    <3>1. 1 .. Len(listPic') = {}
      BY <2>3
    <3> QED
      BY <3>1 DEF FromList
  <2>4. CASE DropPrior
    <3>1. CASE MustDropPrior
      <4>1. SameSlices(listPic, listPic')
        BY <1>1, <2>4, <3>1, DropPriorPicsOK DEF DropPrior
      <4> QED
        BY <4>1, FromSame
    <3>2. CASE ~MustDropPrior
      BY <2>2, <2>4, <3>2 DEF DropPrior
    <3> QED
      BY <3>1, <3>2
  <2>5. CASE Flush
    BY <2>2, <2>3, <2>5 DEF Flush
  <2> QED
    BY <2>1, <2>4, <2>5
<1>5. AllCoded(stream, EmptiedFor, listPic') /\ AllNamed(listPic') /\ (listPic = <<>> => listPic' = <<>>)
  BY <1>1, <1>4, ListedFrom DEF Listed
<1>6. AllCoded(stream, EmptiedFor', listPic')
  <2>1. CASE EmptiedFor' = EmptiedFor
    BY <1>5, <2>1
  <2>2. CASE EmptiedFor' # EmptiedFor
    <3>1. Flush /\ dec.newPicture /\ EmptiedFor = pos - 1 /\ EmptiedFor' = pos
      BY <1>1, <1>2, <1>3, <2>2
         DEF EmptiedFor, Unread, WriteAtNewPicture, DropPrior, Flush
    <3>2. CASE listPic' = <<>>
      <4>1. 1 .. Len(listPic') = {}
        BY <3>2
      <4> QED
        BY <4>1 DEF AllCoded
    <3>3. CASE listPic' # <<>>
      <4>1. ~MustFlush /\ dec.havePicList
        BY <1>5, <3>1, <3>3 DEF Flush, Listed, ListSet, InRound
      <4>2. ~Empties(stream, pos)
        BY <1>1, <3>1, <4>1 DEF MustFlush, Empties
      <4> QED
        BY <1>1, <1>5, <3>1, <4>2, CodedNext
    <3> QED
      BY <3>2, <3>3
  <2> QED
    BY <2>1, <2>2
<1>7. nalu' = nalu /\ (Eof' <=> Eof)
  BY <1>2, <1>3 DEF nalu, Eof
<1>8. NoneListed' /\ ListSet' /\ OwnRefs'
  BY <1>2, <1>3, <1>5, <1>7 DEF Listed, NoneListed, ListSet, OwnRefs, InRound
<1> QED
  BY <1>2, <1>5, <1>6, <1>8 DEF Listed

\* On to the next NAL unit; after an EOS the next slice finds a picture open.
LEMMA BumpListed ==
  ASSUME PocInv, Listed, Bump, DInv'
  PROVE  Listed'
<1>1. /\ phase = "bump" /\ phase' = (IF Eof THEN "end" ELSE "read")
      /\ pos' = (IF dec.newPicture \/ Eof THEN pos ELSE pos + 1)
      /\ UNCHANGED <<stream, pilot>> /\ WriteIf(MustBump) /\ DInv
      /\ listPic \in Seq(Coded) /\ listPic' \in Seq(Coded) /\ dec \in Members
      /\ pos \in Nat \ {0}
  BY PocFacts DEF Bump, PocInv, DInv, Types
<1>2. MustBump \in BOOLEAN
  BY <1>1 DEF MustBump, Members
<1>3. /\ dec'.newPicture = dec.newPicture
      /\ dec'.firstSliceInSequence = dec.firstSliceInSequence
      /\ dec'.havePicList = dec.havePicList /\ dec'.loopFiltered = dec.loopFiltered
      /\ dec'.firstSliceInPicture =
           (dec.firstSliceInPicture /\ (MustBump => nalu.nut # "EOS"))
      /\ SameSlices(listPic, listPic')
  BY <1>1, <1>2, WriteIfOK DEF Unmoved
<1>4. /\ \A s, n : AllCoded(s, n, listPic) => AllCoded(s, n, listPic')
      /\ AllNamed(listPic') /\ (listPic = <<>> => listPic' = <<>>)
  BY <1>1, <1>3, FromSame, ListedFrom DEF Listed
<1>5. EmptiedFor = pos /\ EmptiedFor' = pos
  BY <1>1, <1>3 DEF EmptiedFor, Unread, Eof
<1>6. NoneListed'
  <2> SUFFICES ASSUME phase' = "read", dec'.firstSliceInPicture, ~dec.newPicture
               PROVE  listPic' = <<>>
    BY <1>1, <1>3 DEF NoneListed, InRound
  <2>1. ~Eof /\ (listPic = <<>> \/ nalu.nut = "EOS")
    BY <1>1, <1>3 DEF Listed, NoneListed, InRound
  <2>2. nalu.nut = "EOS" => ~dec.havePicList
    BY <1>3 DEF MustBump
  <2>3. nalu.nut = "EOS" => listPic = <<>>
    BY <1>1, <2>2 DEF Listed, ListSet, InRound
  <2> QED
    BY <1>4, <2>1, <2>3
<1>7. ListSet' /\ OwnRefs'
  BY <1>1, <1>3, <1>4 DEF Listed, ListSet, OwnRefs, InRound
<1> QED
  BY <1>1, <1>4, <1>5, <1>6, <1>7 DEF Listed

\* The end.
LEMMA StillListed ==
  ASSUME PocInv, Listed, FlushAtEnd \/ UNCHANGED vars
  PROVE  Listed'
<1>1. CASE FlushAtEnd
  <2>1. /\ UNCHANGED <<stream, pos, dec, pilot>> /\ phase = "end" /\ phase' = "done"
        /\ listPic' = <<>> \/ listPic' = listPic
    BY <1>1 DEF FlushAtEnd
  <2>2. EmptiedFor' = EmptiedFor
    BY <2>1 DEF EmptiedFor, Unread
  <2>3. AllCoded(stream, EmptiedFor, listPic') /\ AllNamed(listPic')
    <3>1. CASE listPic' = <<>>
      <4>1. 1 .. Len(listPic') = {}
        BY <3>1
      <4> QED
        BY <4>1 DEF AllCoded, AllNamed
    <3>2. CASE listPic' = listPic
      BY <3>2 DEF Listed
    <3> QED
      BY <2>1, <3>1, <3>2
  <2>4. NoneListed' /\ ListSet' /\ OwnRefs'
    BY <2>1 DEF Listed, NoneListed, ListSet, OwnRefs, InRound
  <2> QED
    BY <2>1, <2>2, <2>3, <2>4 DEF Listed
<1>2. CASE UNCHANGED vars
  BY <1>2 DEF vars, Listed, EmptiedFor, Unread, NoneListed, ListSet, OwnRefs, InRound, Eof, nalu
<1> QED
  BY <1>1, <1>2

\* Every step preserves Listed, as long as no reference is reported lost and no
\* CHECK fails.
LEMMA ListedStep ==
  ASSUME PocInv, Whole, Listed, InPictures(stream), InSequences(stream), NoneLost,
         phase' # "error", [Next]_vars, \A s \in Streams : WellCoded(s)
  PROVE  Listed'
<1>1. DInv' /\ WellCoded(stream)
  BY NextHolds DEF PocInv, DInv, Types
<1>2. ~CreateLostPicture
  BY DEF NoneLost, CreateLostPicture
<1> QED
  BY <1>1, <1>2, SkipSliceListed, AcceptSliceListed, FindNewPictureListed, OtherNalListed,
     StartPictureListed, ContinuePictureListed, FinishPictureListed, LoopListed, BumpListed,
     StillListed
     DEF Next, Done

\* A failed CHECK is the end.
LEMMA ErrorStays ==
  ASSUME phase = "error", [Next]_vars PROVE phase' = "error"
BY DEF Next, vars, Done, Stopped, SkipSlice, FindNewPicture, AcceptSlice, CreateLostPicture,
       StartPicture, ContinuePicture, DecodeEos, DecodePrefixSei, DecodeReservedVcl,
       DecodeNonVcl, FinishPicture, WriteAtNewPicture, DropPrior, Flush, Bump, FlushAtEnd

\* Every reference that a slice was decoded with is the coded picture that the
\* encoder referred to, as long as no CHECK fails and no reference is reported
\* lost: in every bitstream of whole pictures whose sequences, but for the
\* first, begin with an IDR or a BLA picture, xGetRefPic, which compares POCs
\* alone, never takes a picture of an earlier sequence with the same POC.
THEOREM ReferencesRight ==
  ASSUME SkipFrames = 0, \A s \in Streams : WellCoded(s)
  PROVE  Spec /\ []NoneLost => [](NoError => RefsRightInSequences)
<1> DEFINE Regular == InPictures(stream) /\ InSequences(stream)
           RefsInv == /\ PocInv
                      /\ InPictures(stream) => Whole
                      /\ Regular /\ phase # "error" => Listed
<1>1. Init => Whole /\ Listed
  <2> SUFFICES ASSUME Init PROVE Whole /\ Listed
    OBVIOUS
  <2>1. /\ phase = "read" /\ ~dec.newPicture /\ listPic = <<>> /\ ~dec.loopFiltered
    BY DEF Init
  <2>2. 1 .. Len(listPic) = {}
    BY <2>1
  <2> QED
    BY <2>1, <2>2, WholeInit
       DEF Listed, AllCoded, AllNamed, NoneListed, ListSet, OwnRefs, InRound
<1>2. RefsInv /\ NoneLost /\ [Next]_vars => RefsInv'
  BY PocStep, WholeStep, ListedStep, SameStream, ErrorStays
<1>3. RefsInv => (NoError => RefsRightInSequences)
  <2> SUFFICES ASSUME Listed, listPic \in Seq(Coded) PROVE RefsRight
    BY DEF PocInv, DInv, Types, NoError, RefsRightInSequences
  <2> QED
    BY DEF Listed, AllNamed, NamedFound, RefsRight
<1>4. Init => RefsInv
  BY <1>1, PocInit
<1> HIDE DEF RefsInv, Regular
<1> QED
  BY <1>2, <1>3, <1>4, PTL DEF Spec
=============================================================================
