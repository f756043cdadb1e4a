----------------------------- MODULE DecoderProof -----------------------------
(***************************************************************************)
(* The decoding loop holds the types of its state, and the picture that it *)
(* decodes into.  The inductive invariant DInv adds to the types when a    *)
(* slice may be read a second time (ReadAgain), and when the current       *)
(* picture may be missing from the list (Held): only before a new picture  *)
(* is started, which the first slice of a picture will do.                 *)
(***************************************************************************)
EXTENDS Decoder, PictureListProof

USE DecoderAssumption, PictureListAssumption

\* The members of DecLib and the variables of the loop.
Members ==
  [associatedIRAPType : RapTypes \cup {"INVALID"}, pocCRA : Int,
   pocRandomAccess : Int, prevPOC : Int, prevTid0POC : Int,
   firstSliceInPicture : BOOLEAN, firstSliceInSequence : BOOLEAN,
   firstSliceInBitstream : BOOLEAN, lastPOCNoOutputPriorPics : Int,
   isNoOutputPriorPics : BOOLEAN, craNoRaslOutputFlag : BOOLEAN,
   pilotNoRasl : BOOLEAN, pic : Nat, made : Nat, prefixSEI : SUBSET Nat,
   freedSEI : SUBSET Nat, skipFrame : Nat, newPicture : BOOLEAN,
   loopFiltered : BOOLEAN, havePicList : BOOLEAN, lastDisplay : Int]

\* Types, in more detail than TypeOK: each picture of the list has a slice.
Types ==
  /\ stream \in Streams
  /\ pos \in 1 .. Len(stream)
  /\ phase \in Phases
  /\ dec \in Members
  /\ dec.prefixSEI \subseteq 1 .. Len(stream)
  /\ dec.pic <= dec.made
  /\ pilot \in Slices \cup {NoSlice}
  /\ phase = "decode" => pilot \in Slices
  /\ listPic \in Seq(Coded)
  /\ Ids(listPic) \subseteq 1 .. dec.made
  /\ written \in Seq(Items)

\* A slice that is to be read again is going to be decoded then.
ReadAgain ==
  dec.newPicture =>
    /\ phase \in {"finish", "write", "prior", "flush", "bump", "read"}
    /\ nalu.nut \in SliceTypes
    /\ ~Skipped(Pilot)
    /\ phase # "finish" => dec.firstSliceInPicture

\* The picture last decoded is in the list, but before the first one and from
\* the flush before a picture until that picture is started.
Held ==
  \/ dec.pic \in Ids(listPic)
  \/ dec.firstSliceInSequence /\ dec.firstSliceInPicture /\ ~dec.havePicList
  \/ /\ dec.firstSliceInPicture
     /\ phase = "decode" \/ (dec.newPicture /\ phase # "finish")
  \/ phase \in {"end", "done", "error"}

DInv == Types /\ ReadAgain /\ Held

-----------------------------------------------------------------------------
(* The slice header.                                                       *)

\* The NAL unit at hand is one of the bitstream.
LEMMA NaluOK ==
  ASSUME Types
  PROVE  stream \in Seq(Nalus) /\ Len(stream) \in Nat /\ nalu \in Nalus /\ nalu = stream[pos]
BY DEF Types, nalu

\* Division with remainder,
LEMMA DivMod ==
  ASSUME NEW M \in Nat \ {0}, NEW p \in Int
  PROVE  /\ p \div M \in Int /\ p % M \in 0 .. M - 1
         /\ p = M * (p \div M) + (p % M)
OBVIOUS

\* and the remainder of a multiple and a little more.
LEMMA ModOf ==
  ASSUME NEW M \in Nat \ {0}, NEW k \in Int, NEW r \in 0 .. M - 1
  PROVE  (M * k + r) % M = r
OBVIOUS

\* PocMsb is a multiple of MaxPocLsb.
LEMMA MsbIsMultiple ==
  ASSUME dec \in Members, NEW lsb \in 0 .. MaxPocLsb - 1
  PROVE  \E k \in Int : PocMsb(lsb) = MaxPocLsb * k
<1> DEFINE M == MaxPocLsb
           q == dec.prevTid0POC
           k == q \div M
<1>1. q \in Int /\ M \in Nat \ {0}
  BY DEF Members
<1>2. k \in Int /\ q - (q % M) = M * k
  <2>1. k \in Int /\ q % M \in 0 .. M - 1 /\ q = M * k + (q % M)
    BY <1>1, DivMod
  <2> HIDE DEF k
  <2> QED
    BY <1>1, <2>1
<1>3. PocMsb(lsb) \in {M * k, M * k + M, M * k - M}
  BY <1>2 DEF PocMsb
<1> HIDE DEF k, q, M
<1>4. M * k + M = M * (k + 1) /\ M * k - M = M * (k - 1)
  BY <1>1, <1>2
<1>5. k \in Int /\ k + 1 \in Int /\ k - 1 \in Int
  BY <1>2
<1>6. \E l \in Int : PocMsb(lsb) = M * l
  BY <1>3, <1>4, <1>5
<1> QED
  BY <1>6 DEF M

\* The POC of a slice is a number.
LEMMA PocInt ==
  ASSUME dec \in Members, nalu \in Nalus
  PROVE  /\ PocMsb(nalu.lsb) \in Int
         /\ SlicePoc \in Int
<1>1. nalu.lsb \in 0 .. MaxPocLsb - 1
  BY DEF Nalus
<1>2. PICK k \in Int : PocMsb(nalu.lsb) = MaxPocLsb * k
  BY <1>1, MsbIsMultiple
<1>3. PocMsb(nalu.lsb) \in Int
  BY <1>2
<1> QED
  BY <1>1, <1>3 DEF SlicePoc

\* The header that is read into the pilot is that of the NAL unit.
LEMMA PilotOK ==
  ASSUME dec \in Members, nalu \in Nalus, nalu.nut \in SliceTypes
  PROVE  Pilot \in Slices /\ Pilot.nut = nalu.nut /\ Pilot.poc = SlicePoc /\ Pilot.first = nalu.first
<1>1. <<>> \in UNION {[I -> Nat] : I \in SUBSET Nat}
  <2>1. <<>> \in [{} -> Nat]
    OBVIOUS
  <2> QED
    BY <2>1
<1>2. (IF nalu.nut \in IdrTypes THEN <<>> ELSE nalu.refs) \in Seq(Refs)
  BY DEF Nalus
<1>3. /\ NonReference(nalu.nut) \in BOOLEAN
      /\ NoOutputPriorPics \in BOOLEAN
      /\ (nalu.out /\ ~(nalu.nut \in RaslTypes /\ CraNoRasl)) \in BOOLEAN
  BY DEF NonReference, NoOutputPriorPics, Nalus
<1>4. SlicePoc \in Int
  BY PocInt
<1>5. /\ nalu.tid \in Nat /\ nalu.first \in BOOLEAN /\ nalu.frame \in Nat /\ nalu.cvs \in Nat
      /\ dec.pocCRA \in Int /\ dec.associatedIRAPType \in RapTypes \cup {"INVALID"}
  BY DEF Nalus, Members
<1> QED
  BY <1>1, <1>2, <1>3, <1>4, <1>5 DEF Pilot, Slices

\* What a slice header changes in the members, and what it leaves alone.
LEMMA InferredOK ==
  ASSUME dec \in Members, nalu \in Nalus, nalu.nut \in SliceTypes, NEW s \in Slices
  PROVE  /\ Inferred(s) \in Members
         /\ Inferred(s).prefixSEI = dec.prefixSEI
         /\ Inferred(s).pic = dec.pic /\ Inferred(s).made = dec.made
         /\ ~Inferred(s).newPicture
         /\ Inferred(s).firstSliceInPicture = dec.firstSliceInPicture
         /\ Inferred(s).firstSliceInSequence = dec.firstSliceInSequence
         /\ Inferred(s).havePicList = dec.havePicList
         /\ Inferred(s).loopFiltered = dec.loopFiltered
         /\ Inferred(s).associatedIRAPType = dec.associatedIRAPType
         /\ Inferred(s).pocCRA = dec.pocCRA
         /\ Inferred(s).prevTid0POC = IF Tid0(s) THEN s.poc ELSE dec.prevTid0POC
         /\ Inferred(s).pocRandomAccess = RandomAccessPoc(s)
         /\ Inferred(s).skipFrame = IF dec.skipFrame > 0 THEN dec.skipFrame - 1 ELSE 0
         /\ Inferred(s).pilotNoRasl = IF nalu.nut \in RapTypes THEN NoRaslOutput ELSE dec.pilotNoRasl
<1>1. s.poc \in Int /\ s.noOutputPriorPics \in BOOLEAN
  BY DEF Slices
<1>2. NoRaslOutput \in BOOLEAN /\ CraNoRasl \in BOOLEAN
  BY DEF NoRaslOutput, CraNoRasl, Members
<1>3. RandomAccessPoc(s) \in Int
  BY <1>1 DEF RandomAccessPoc, Members
<1> DEFINE tid0 == IF Tid0(s) THEN s.poc ELSE dec.prevTid0POC
           rasl == IF nalu.nut \in RapTypes THEN NoRaslOutput ELSE dec.pilotNoRasl
           drop == IF s.noOutputPriorPics THEN s.poc ELSE dec.lastPOCNoOutputPriorPics
           left == IF dec.skipFrame > 0 THEN dec.skipFrame - 1 ELSE 0
           start == RandomAccessPoc(s)
           cra  == CraNoRasl
           prior == s.noOutputPriorPics
           new == Inferred(s)
<1>4. /\ tid0 \in Int /\ rasl \in BOOLEAN /\ drop \in Int /\ left \in Nat
      /\ start \in Int /\ cra \in BOOLEAN /\ prior \in BOOLEAN
  BY <1>1, <1>2, <1>3 DEF Members
<1>5. new = [dec EXCEPT !.prevTid0POC = tid0, !.pilotNoRasl = rasl,
                        !.craNoRaslOutputFlag = cra, !.isNoOutputPriorPics = prior,
                        !.lastPOCNoOutputPriorPics = drop, !.pocRandomAccess = start,
                        !.skipFrame = left, !.newPicture = FALSE]
  BY DEF Inferred
<1> HIDE DEF tid0, rasl, drop, left, start, cra, prior, new
<1>6. new \in Members
  <2> DEFINE a == [dec EXCEPT !.prevTid0POC = tid0, !.pilotNoRasl = rasl]
             b == [a EXCEPT !.craNoRaslOutputFlag = cra, !.isNoOutputPriorPics = prior]
             c == [b EXCEPT !.lastPOCNoOutputPriorPics = drop, !.pocRandomAccess = start]
  <2>1. a \in Members
    BY <1>4 DEF Members
  <2>2. b \in Members
    <3> HIDE DEF a
    <3> QED
      BY <1>4, <2>1 DEF Members
  <2>3. c \in Members
    <3> HIDE DEF b
    <3> QED
      BY <1>4, <2>2 DEF Members
  <2>4. new = [c EXCEPT !.skipFrame = left, !.newPicture = FALSE]
    BY <1>5
  <2> HIDE DEF c
  <2> QED
    BY <1>4, <2>3, <2>4 DEF Members
<1>7. /\ new.prefixSEI = dec.prefixSEI
      /\ new.pic = dec.pic /\ new.made = dec.made
      /\ new.associatedIRAPType = dec.associatedIRAPType
      /\ new.pocCRA = dec.pocCRA
  BY <1>5 DEF Members
<1>8. /\ new.newPicture = FALSE
      /\ new.firstSliceInPicture = dec.firstSliceInPicture
      /\ new.firstSliceInSequence = dec.firstSliceInSequence
      /\ new.havePicList = dec.havePicList
      /\ new.loopFiltered = dec.loopFiltered
  BY <1>5 DEF Members
<1>9. /\ new.prevTid0POC = tid0
      /\ new.pocRandomAccess = start
      /\ new.skipFrame = left
      /\ new.pilotNoRasl = rasl
  BY <1>5 DEF Members
<1> QED
  BY <1>6, <1>7, <1>8, <1>9 DEF tid0, left, start, rasl, new

\* What the POC of a slice depends on.
LEMMA SlicePocSame ==
  ASSUME nalu' = nalu, dec'.prevTid0POC = dec.prevTid0POC,
         dec'.pilotNoRasl = dec.pilotNoRasl,
         dec'.firstSliceInSequence = dec.firstSliceInSequence
  PROVE  SlicePoc' = SlicePoc
<1>1. NoRaslOutput' = NoRaslOutput
  BY DEF NoRaslOutput
<1>2. PocMsb(nalu.lsb)' = PocMsb(nalu.lsb)
  BY DEF PocMsb
<1> QED
  BY <1>1, <1>2 DEF SlicePoc, CraNoRasl

\* A slice that is read twice in a row gets the same POC both times, although
\* the first reading moves prevTid0POC.
LEMMA SlicePocAgain ==
  ASSUME dec \in Members, nalu \in Nalus, nalu.nut \in SliceTypes, nalu' = nalu,
         dec'.prevTid0POC = IF Tid0(Pilot) THEN SlicePoc ELSE dec.prevTid0POC,
         dec'.pilotNoRasl = IF nalu.nut \in RapTypes THEN NoRaslOutput ELSE dec.pilotNoRasl,
         dec'.firstSliceInSequence = dec.firstSliceInSequence
  PROVE  SlicePoc' = SlicePoc
<1>1. nalu.nut \in RapTypes => NoRaslOutput' = NoRaslOutput
  BY DEF NoRaslOutput, Members
<1>2. nalu.nut = "CRA" => CraNoRasl' = CraNoRasl
  BY <1>1 DEF CraNoRasl, RapTypes
<1>3. CASE nalu.nut \in IdrTypes \cup BlaTypes \/ (nalu.nut = "CRA" /\ CraNoRasl)
  BY <1>2, <1>3 DEF SlicePoc
<1>4. CASE ~(nalu.nut \in IdrTypes \cup BlaTypes \/ (nalu.nut = "CRA" /\ CraNoRasl))
  <2>1. SlicePoc = PocMsb(nalu.lsb) + nalu.lsb
    BY <1>4 DEF SlicePoc
  <2>2. SlicePoc' = PocMsb(nalu.lsb)' + nalu.lsb
    BY <1>2, <1>4 DEF SlicePoc
  <2>3. nalu.lsb \in 0 .. MaxPocLsb - 1
    BY DEF Nalus
  <2>4. PICK k \in Int : PocMsb(nalu.lsb) = MaxPocLsb * k
    BY <2>3, MsbIsMultiple
  <2>5. CASE Tid0(Pilot)
    <3>1. dec'.prevTid0POC = MaxPocLsb * k + nalu.lsb
      BY <2>1, <2>4, <2>5
    <3>2. MaxPocLsb' = MaxPocLsb /\ k' = k
      OBVIOUS
    <3>3. PocMsb(nalu.lsb)' = MaxPocLsb * k
      <4> DEFINE q == dec'.prevTid0POC
      <4>1. q % MaxPocLsb = nalu.lsb /\ MaxPocLsb * k \in Int
        BY <2>3, <3>1, ModOf
      <4>2. q - (q % MaxPocLsb) = MaxPocLsb * k
        BY <4>1, <3>1, <2>3
      <4>3. PocMsb(nalu.lsb)' =
              IF nalu.lsb < q % MaxPocLsb /\ (q % MaxPocLsb) - nalu.lsb >= MaxPocLsb \div 2
              THEN (q - (q % MaxPocLsb)) + MaxPocLsb
              ELSE IF nalu.lsb > q % MaxPocLsb /\ nalu.lsb - (q % MaxPocLsb) > MaxPocLsb \div 2
                   THEN (q - (q % MaxPocLsb)) - MaxPocLsb
                   ELSE q - (q % MaxPocLsb)
        BY DEF PocMsb
      <4> QED
        BY <4>1, <4>2, <4>3, <2>3
    <3> QED
      BY <2>1, <2>2, <2>4, <3>3
  <2>6. CASE ~Tid0(Pilot)
    <3>1. PocMsb(nalu.lsb)' = PocMsb(nalu.lsb)
      BY <2>6 DEF PocMsb
    <3> QED
      BY <2>1, <2>2, <3>1
  <2> QED
    BY <2>5, <2>6
<1> QED
  BY <1>3, <1>4

\* Whether the slice is skipped depends on the NAL unit and on these members.
LEMMA SkippedSame ==
  ASSUME nalu' = nalu, dec'.prevTid0POC = dec.prevTid0POC,
         dec'.pilotNoRasl = dec.pilotNoRasl,
         dec'.firstSliceInSequence = dec.firstSliceInSequence,
         dec'.skipFrame = dec.skipFrame,
         dec'.pocRandomAccess = dec.pocRandomAccess,
         dec'.associatedIRAPType = dec.associatedIRAPType,
         dec'.pocCRA = dec.pocCRA
  PROVE  Skipped(Pilot)' = Skipped(Pilot)
<1>1. SlicePoc' = SlicePoc
  BY SlicePocSame
<1>2. /\ Pilot.poc = SlicePoc /\ Pilot.nut = nalu.nut
      /\ Pilot'.poc = SlicePoc' /\ Pilot'.nut = nalu'.nut
  BY DEF Pilot
<1> QED
  BY <1>1, <1>2 DEF Skipped

\* A slice that starts a picture is not skipped the second time, either.
LEMMA SkippedAgain ==
  ASSUME dec \in Members, nalu \in Nalus, nalu.nut \in SliceTypes, nalu' = nalu,
         ~Skipped(Pilot),
         dec' = [Inferred(Pilot) EXCEPT !.newPicture = TRUE, !.prevPOC = Pilot.poc]
  PROVE  ~Skipped(Pilot)'
<1> DEFINE i == Inferred(Pilot)
<1>1. Pilot \in Slices /\ Pilot.nut = nalu.nut /\ Pilot.poc = SlicePoc
  BY PilotOK
<1>2. /\ i \in Members
      /\ i.firstSliceInSequence = dec.firstSliceInSequence
      /\ i.associatedIRAPType = dec.associatedIRAPType /\ i.pocCRA = dec.pocCRA
      /\ i.prevTid0POC = IF Tid0(Pilot) THEN SlicePoc ELSE dec.prevTid0POC
      /\ i.pocRandomAccess = RandomAccessPoc(Pilot)
      /\ i.skipFrame = IF dec.skipFrame > 0 THEN dec.skipFrame - 1 ELSE 0
      /\ i.pilotNoRasl = IF nalu.nut \in RapTypes THEN NoRaslOutput ELSE dec.pilotNoRasl
  <2>1. Pilot.poc = SlicePoc
    BY <1>1
  <2> QED
    BY <1>1, <2>1, InferredOK
<1> HIDE DEF i
<1>3. /\ dec'.firstSliceInSequence = i.firstSliceInSequence
      /\ dec'.associatedIRAPType = i.associatedIRAPType /\ dec'.pocCRA = i.pocCRA
      /\ dec'.prevTid0POC = i.prevTid0POC /\ dec'.pocRandomAccess = i.pocRandomAccess
      /\ dec'.skipFrame = i.skipFrame /\ dec'.pilotNoRasl = i.pilotNoRasl
  <2>1. dec' = [i EXCEPT !.newPicture = TRUE, !.prevPOC = Pilot.poc]
    BY DEF i
  <2> QED
    BY <1>2, <2>1 DEF Members
<1>4. SlicePoc' = SlicePoc
  BY <1>2, <1>3, SlicePocAgain
<1>5. Pilot'.poc = SlicePoc' /\ Pilot'.nut = nalu'.nut
  BY DEF Pilot
<1>6. dec.skipFrame = 0 /\ dec'.skipFrame = 0
  <2>1. dec.skipFrame \in Nat /\ ~(dec.skipFrame > 0)
    BY DEF Skipped, Members
  <2> QED
    BY <2>1, <1>2, <1>3
<1>7. dec'.pocRandomAccess = RandomAccessPoc(Pilot)
  BY <1>2, <1>3
<1>8. CASE dec.pocRandomAccess # MaxInt
  <2>1. dec'.pocRandomAccess = dec.pocRandomAccess
    BY <1>7, <1>8 DEF RandomAccessPoc
  <2> QED
    BY <1>1, <1>2, <1>3, <1>4, <1>5, <1>6, <1>8, <2>1 DEF Skipped
<1>9. CASE dec.pocRandomAccess = MaxInt
  <2>1. nalu.nut \in RapTypes /\ nalu.nut \notin RaslTypes
    BY <1>1, <1>9 DEF Skipped, RapTypes, RaslTypes, IdrTypes, BlaTypes
  <2>2. 0 > 0 <=> FALSE
    OBVIOUS
  <2> QED
    BY <1>1, <1>5, <1>6, <2>1, <2>2 DEF Skipped
<1> QED
  BY <1>8, <1>9

-----------------------------------------------------------------------------
(* The invariant is kept: a NAL unit is read.                              *)

\* DInv holds at the start, and each action below preserves it.
LEMMA InitHolds == Init => DInv
<1> SUFFICES ASSUME Init PROVE DInv
  OBVIOUS
<1>1. dec \in Members /\ dec.prefixSEI = {} /\ dec.pic = 0 /\ dec.made = 0
      /\ ~dec.newPicture /\ dec.firstSliceInPicture /\ dec.firstSliceInSequence
      /\ ~dec.havePicList
  BY DEF Init, Members
<1>2. Ids(listPic) = {} /\ listPic \in Seq(Coded) /\ written \in Seq(Items)
  BY DEF Init, Ids
<1>3. stream \in Seq(Nalus) /\ stream # <<>>
  BY DEF Init
<1>4. 1 \in 1 .. Len(stream)
  BY <1>3
<1> QED
  BY <1>1, <1>2, <1>4 DEF Init, DInv, Types, ReadAgain, Held, Phases

\* isSkipPictureForBLA, isRandomAccessSkipPicture: a skipped slice is not read again.
LEMMA SkipSliceHolds == DInv /\ SkipSlice => DInv'
<1> SUFFICES ASSUME DInv, SkipSlice PROVE DInv'
  OBVIOUS
<1>1. dec \in Members /\ nalu \in Nalus
  BY NaluOK DEF DInv, Types
<1>2. Pilot \in Slices
  BY <1>1, PilotOK DEF SkipSlice
<1>3. /\ dec' \in Members /\ dec'.prefixSEI = dec.prefixSEI
      /\ dec'.pic = dec.pic /\ dec'.made = dec.made /\ ~dec'.newPicture
      /\ dec'.firstSliceInPicture = dec.firstSliceInPicture
      /\ dec'.firstSliceInSequence = dec.firstSliceInSequence
      /\ dec'.havePicList = dec.havePicList
  BY <1>1, <1>2, InferredOK DEF SkipSlice
<1>4. Types'
  BY <1>2, <1>3 DEF DInv, Types, SkipSlice, Phases
<1>5. ~dec.newPicture
  BY DEF DInv, ReadAgain, SkipSlice
<1>6. Held'
  BY <1>3, <1>5 DEF DInv, Held, SkipSlice
<1> QED
  BY <1>3, <1>4, <1>6 DEF DInv, ReadAgain

\* A slice of the current picture goes on to be decoded.
LEMMA AcceptSliceHolds == DInv /\ AcceptSlice => DInv'
<1> SUFFICES ASSUME DInv, AcceptSlice PROVE DInv'
  OBVIOUS
<1> DEFINE i == Inferred(Pilot)
<1>1. dec \in Members /\ nalu \in Nalus
  BY NaluOK DEF DInv, Types
<1>2. Pilot \in Slices /\ Pilot.poc \in Int
  BY <1>1, PilotOK DEF AcceptSlice, Slices
<1>3. /\ i \in Members /\ i.prefixSEI = dec.prefixSEI
      /\ i.pic = dec.pic /\ i.made = dec.made /\ ~i.newPicture
      /\ i.firstSliceInPicture = dec.firstSliceInPicture
      /\ i.firstSliceInSequence = dec.firstSliceInSequence
      /\ i.havePicList = dec.havePicList
  BY <1>1, <1>2, InferredOK DEF AcceptSlice
<1>4. dec' = [i EXCEPT !.prevPOC = Pilot.poc]
  BY DEF AcceptSlice
<1> HIDE DEF i
<1>5. /\ dec' \in Members /\ dec'.prefixSEI = dec.prefixSEI
      /\ dec'.pic = dec.pic /\ dec'.made = dec.made /\ ~dec'.newPicture
      /\ dec'.firstSliceInPicture = dec.firstSliceInPicture
      /\ dec'.firstSliceInSequence = dec.firstSliceInSequence
      /\ dec'.havePicList = dec.havePicList
  BY <1>2, <1>3, <1>4 DEF Members
<1>6. Types'
  BY <1>2, <1>5 DEF DInv, Types, AcceptSlice, Phases
<1>7. Held'
  BY <1>5 DEF DInv, Held, AcceptSlice
<1> QED
  BY <1>5, <1>6, <1>7 DEF DInv, ReadAgain

\* A slice of a new picture: it is read again, and will not be skipped then.
LEMMA FindNewPictureHolds == DInv /\ FindNewPicture => DInv'
<1> SUFFICES ASSUME DInv, FindNewPicture PROVE DInv'
  OBVIOUS
<1> DEFINE i == Inferred(Pilot)
<1>1. dec \in Members /\ nalu \in Nalus
  BY NaluOK DEF DInv, Types
<1>2. Pilot \in Slices /\ Pilot.poc \in Int
  BY <1>1, PilotOK DEF FindNewPicture, Slices
<1>3. /\ i \in Members /\ i.prefixSEI = dec.prefixSEI
      /\ i.pic = dec.pic /\ i.made = dec.made
  BY <1>1, <1>2, InferredOK DEF FindNewPicture
<1>4. dec' = [i EXCEPT !.newPicture = TRUE, !.prevPOC = Pilot.poc]
  BY DEF FindNewPicture
<1>5. nalu' = nalu
  BY DEF FindNewPicture, nalu
<1>6. ~Skipped(Pilot)'
  BY <1>1, <1>5, SkippedAgain DEF FindNewPicture
<1> HIDE DEF i
<1>7. /\ dec' \in Members /\ dec'.prefixSEI = dec.prefixSEI
      /\ dec'.pic = dec.pic /\ dec'.made = dec.made
  BY <1>2, <1>3, <1>4 DEF Members
<1>8. Types'
  BY <1>2, <1>7 DEF DInv, Types, FindNewPicture, Phases
<1>9. ~dec.firstSliceInPicture
  BY DEF FindNewPicture, NewPictureFound
<1>10. dec.pic \in Ids(listPic)
  BY <1>9 DEF FindNewPicture, DInv, Held
<1>11. Held'
  BY <1>7, <1>10 DEF Held, FindNewPicture
<1>12. ReadAgain'
  BY <1>5, <1>6 DEF ReadAgain, FindNewPicture
<1> QED
  BY <1>8, <1>11, <1>12 DEF DInv

\* The NAL units that are no slices.
LEMMA OtherNalHolds ==
  DInv /\ (DecodeEos \/ DecodePrefixSei \/ DecodeReservedVcl \/ DecodeNonVcl) => DInv'
<1> SUFFICES ASSUME DInv, DecodeEos \/ DecodePrefixSei \/ DecodeReservedVcl \/ DecodeNonVcl
             PROVE  DInv'
  OBVIOUS
<1>1. dec \in Members /\ phase = "read" /\ nalu.nut \notin SliceTypes
  BY DEF DInv, Types, DecodeEos, DecodePrefixSei, DecodeReservedVcl, DecodeNonVcl,
         SliceTypes, RapTypes, IdrTypes, BlaTypes, LeadTypes, RaslTypes, RadlTypes, TsaTypes
<1>2. dec.newPicture = FALSE
  BY <1>1 DEF DInv, ReadAgain, Members
<1>3. pos \in 1 .. Len(stream) /\ Len(stream) \in Nat /\ pos \in Nat
  BY NaluOK DEF DInv, Types
<1>4. /\ dec' \in Members /\ dec'.prefixSEI \subseteq 1 .. Len(stream)
      /\ dec'.pic = dec.pic /\ dec'.made = dec.made /\ dec'.newPicture = FALSE
      /\ dec'.firstSliceInPicture = dec.firstSliceInPicture
      /\ dec'.firstSliceInSequence = dec.firstSliceInSequence
      /\ dec'.havePicList = dec.havePicList
  <2>1. CASE DecodeEos
    <3> DEFINE a == [dec EXCEPT !.associatedIRAPType = "INVALID"]
               z == [a EXCEPT !.pocCRA = 0]
               b == [z EXCEPT !.pocRandomAccess = MaxInt, !.prevPOC = MaxInt]
    <3>0. MaxInt \in Int /\ "INVALID" \in RapTypes \cup {"INVALID"}
      OBVIOUS
    <3>1. a \in Members
      BY <1>1, <3>0 DEF Members
    <3>6. z \in Members
      <4> HIDE DEF a
      <4>1. z = [a EXCEPT !.pocCRA = 0] /\ 0 \in Int
        OBVIOUS
      <4> HIDE DEF z
      <4> QED
        BY <3>1, <4>1 DEF Members
    <3>2. b \in Members
      <4> HIDE DEF z
      <4> QED
        BY <3>0, <3>6 DEF Members
    <3>3. dec' = [b EXCEPT !.newPicture = FALSE]
      BY <2>1 DEF DecodeEos
    <3>4. dec' \in Members
      <4> HIDE DEF b
      <4> QED
        BY <3>2, <3>3 DEF Members
    <3>5. /\ dec'.prefixSEI = dec.prefixSEI
          /\ dec'.pic = dec.pic /\ dec'.made = dec.made /\ dec'.newPicture = FALSE
          /\ dec'.firstSliceInPicture = dec.firstSliceInPicture
          /\ dec'.firstSliceInSequence = dec.firstSliceInSequence
          /\ dec'.havePicList = dec.havePicList
      BY <1>1, <3>3 DEF Members
    <3> QED
      BY <3>4, <3>5 DEF DInv, Types
  <2>2. CASE DecodePrefixSei
    BY <1>1, <1>3, <2>2 DEF DecodePrefixSei, Members, DInv, Types
  <2>3. CASE DecodeReservedVcl
    <3> DEFINE front == CHOOSE k \in dec.prefixSEI : \A j \in dec.prefixSEI : k <= j
    <3>1. CASE dec.prefixSEI = {}
      <4>1. dec' = [dec EXCEPT !.newPicture = FALSE]
        BY <2>3, <3>1 DEF DecodeReservedVcl
      <4> QED
        BY <1>1, <4>1 DEF Members, DInv, Types
    <3>2. CASE dec.prefixSEI # {}
      <4>1. dec.prefixSEI \in SUBSET Nat
        BY <1>1 DEF Members
      <4>2. front \in Nat
        <5>1. \E k \in dec.prefixSEI : \A j \in dec.prefixSEI : k <= j
          BY <4>1, <3>2, Sorting!FirstPosition
        <5> QED
          BY <4>1, <5>1
      <4>3. dec' = [dec EXCEPT !.freedSEI = @ \cup {front}]
        BY <2>3, <3>2 DEF DecodeReservedVcl
      <4> HIDE DEF front
      <4> QED
        BY <1>1, <1>2, <4>2, <4>3 DEF Members, DInv, Types
    <3> QED
      BY <3>1, <3>2
  <2>4. CASE DecodeNonVcl
    BY <1>1, <2>4 DEF DecodeNonVcl, Members, DInv, Types
  <2> QED
    BY <2>1, <2>2, <2>3, <2>4
<1>5. /\ phase' \in {"finish", "read", "error"}
      /\ UNCHANGED <<stream, pos, pilot, listPic, written>>
  BY <1>1 DEF DecodeEos, DecodePrefixSei, DecodeReservedVcl, DecodeNonVcl
<1>6. Types'
  BY <1>4, <1>5 DEF DInv, Types, Phases
<1>7. Held'
  BY <1>1, <1>2, <1>4, <1>5 DEF DInv, Held
<1> QED
  BY <1>4, <1>6, <1>7 DEF DInv, ReadAgain

-----------------------------------------------------------------------------
(* The invariant is kept: a slice is decoded.                              *)

\* The reference reported lost is one of the slice.
LEMMA LostPocInt ==
  ASSUME pilot \in Slices, Lost # {}
  PROVE  LostPoc \in Int
<1>1. /\ pilot.refs \in Seq(Refs) /\ Len(pilot.refs) \in Nat
      /\ DOMAIN pilot.refs = 1 .. Len(pilot.refs) /\ pilot.poc \in Int
  BY DEF Slices
<1>2. Lost \in SUBSET (1 .. Len(pilot.refs))
  BY <1>1 DEF Lost, LostRefs
<1>3. \E i \in Lost : \A j \in Lost : i >= j
  BY <1>1, <1>2, Sorting!LastPosition
<1>4. \E i \in Lost : \A j \in Lost : j <= i
  <2>1. \A i, j \in 1 .. Len(pilot.refs) : i >= j <=> j <= i
    BY <1>1
  <2> QED
    BY <1>2, <1>3, <2>1
<1> DEFINE i == CHOOSE x \in Lost : \A y \in Lost : y <= x
<1>5. i \in Lost
  BY <1>4
<1>6. LostPoc = pilot.poc + pilot.refs[i].delta
  BY DEF LostPoc
<1> HIDE DEF i
<1>7. pilot.refs[i] \in Refs
  BY <1>1, <1>2, <1>5
<1> QED
  BY <1>1, <1>6, <1>7 DEF Refs

\* A picture made up for a lost reference has a slice.
LEMMA CreateLostPictureHolds == DInv /\ CreateLostPicture => DInv'
<1> SUFFICES ASSUME DInv, CreateLostPicture PROVE DInv'
  OBVIOUS
<1> DEFINE b == GetNewPicBuffer(listPic, dec.made + 1)
           p == PictureOf(b.list, b.id)
           q == Filled(p)
           tid0 == IF Tid0(q.slices[1]) THEN LostPoc ELSE dec.prevTid0POC
<1>1. /\ dec \in Members /\ listPic \in Seq(Coded) /\ pilot \in Slices
      /\ Ids(listPic) \subseteq 1 .. dec.made /\ dec.made \in Nat
  BY DEF DInv, Types, CreateLostPicture, Members
<1>2. ~dec.newPicture /\ phase = "decode"
  BY DEF DInv, ReadAgain, CreateLostPicture
<1>3. LostPoc \in Int
  BY <1>1, LostPocInt DEF CreateLostPicture, LostReported
<1>4. dec.made + 1 \in Nat /\ dec.made + 1 \notin Ids(listPic)
  BY <1>1
<1>5. /\ b.list \in Seq(Pics)
      /\ Ids(b.list) = Ids(listPic) \cup {b.id}
      /\ OnlyNew(b.list, b.id)
      /\ b.id \notin Ids(listPic) => p.slices = <<>>
  BY <1>1, <1>4, GetNewPicBufferOK
<1>6. UNCHANGED <<stream, pos, pilot, written>>
  BY DEF CreateLostPicture
<1>7. CASE p.slices = <<>>
  <2>1. phase' = "error" /\ UNCHANGED <<listPic, dec>>
    BY <1>7 DEF CreateLostPicture
  <2> QED
    BY <1>2, <1>6, <2>1 DEF DInv, Types, ReadAgain, Held, Phases
<1>8. CASE p.slices # <<>>
  <2>1. /\ listPic' = SetPicture(b.list, q)
        /\ dec' = [dec EXCEPT !.prevTid0POC = tid0]
        /\ phase' = phase
    BY <1>8 DEF CreateLostPicture
  <2>2. b.id \in Ids(listPic)
    BY <1>5, <1>8
  <2>3. p \in Pics /\ p.id = b.id
    BY <1>5, PictureOfOK
  <2> HIDE DEF p, b
  <2>4. p.slices \in Seq(Slices) /\ p.slices # <<>> /\ 1 \in DOMAIN p.slices
    BY <1>8, <2>3 DEF Pics
  <2>5. [p.slices[1] EXCEPT !.poc = LostPoc] \in Slices
    <3> DEFINE u == p.slices[1]
    <3>1. u \in Slices
      BY <2>4
    <3> HIDE DEF u
    <3>2. [u EXCEPT !.poc = LostPoc] \in Slices
      BY <1>3, <3>1 DEF Slices
    <3> QED
      BY <3>2 DEF u
  <2> DEFINE s == [p.slices EXCEPT ![1].poc = LostPoc]
  <2>6. s \in Seq(Slices) /\ s # <<>>
    BY <2>4, <2>5
  <2>7. q \in Coded /\ q.id = b.id
    <3>1. q = [p EXCEPT !.referenced = TRUE, !.reconstructed = TRUE,
                        !.neededForOutput = TRUE, !.slices = s]
      BY <2>3 DEF Pics, Filled
    <3> HIDE DEF s, q
    <3> QED
      BY <2>3, <2>6, <3>1 DEF Pics, Coded
  <2>8. q.id \in Ids(b.list) /\ OnlyNew(b.list, q.id)
    BY <1>5, <2>7
  <2> HIDE DEF q
  <2>9. listPic' \in Seq(Coded) /\ SamePictures(b.list, listPic')
    BY <1>5, <2>1, <2>7, <2>8, SetOnlyNew
  <2>10. Ids(listPic') = Ids(listPic)
    <3>1. Ids(listPic') = Ids(b.list)
      BY <1>5, <2>9, SameIds
    <3> QED
      BY <1>5, <2>2, <3>1
  <2>11. tid0 \in Int
    BY <1>1, <1>3 DEF Members
  <2> HIDE DEF tid0
  <2>12. /\ dec' \in Members /\ dec'.pic = dec.pic /\ dec'.made = dec.made
         /\ dec'.prefixSEI = dec.prefixSEI
    BY <1>1, <2>1, <2>11 DEF Members
  <2>13. /\ dec'.newPicture = dec.newPicture
         /\ dec'.firstSliceInPicture = dec.firstSliceInPicture
         /\ dec'.firstSliceInSequence = dec.firstSliceInSequence
         /\ dec'.havePicList = dec.havePicList
    BY <1>1, <2>1 DEF Members
  <2>14. Types'
    BY <1>2, <1>6, <2>1, <2>9, <2>10, <2>12 DEF DInv, Types
  <2>15. Held'
    BY <1>2, <2>1, <2>10, <2>12, <2>13 DEF DInv, Held
  <2> QED
    BY <1>2, <2>13, <2>14, <2>15 DEF DInv, ReadAgain
<1> QED
  BY <1>7, <1>8

\* The references found are coded pictures.
LEMMA FoundRefsOK ==
  ASSUME NEW list \in Seq(Coded), NEW s \in Slices
  PROVE  FoundRefs(list, s) \in UNION {[I -> Nat] : I \in SUBSET Nat}
<1> DEFINE I == {j \in DOMAIN s.refs : s.refs[j].used}
<1>1. I \in SUBSET Nat
  BY DEF Slices
<1>2. ASSUME NEW i \in I
      PROVE  (LET k == GetRefPic(list, s.poc + s.refs[i].delta)
              IN  IF k = 0 THEN 0 ELSE list[k].slices[1].frame) \in Nat
  <2> DEFINE K == {j \in 1 .. Len(list) : list[j].poc = s.poc + s.refs[i].delta}
             k == GetRefPic(list, s.poc + s.refs[i].delta)
  <2>1. k = IF K # {} THEN Min(K) ELSE 0
    BY DEF GetRefPic, SelectInSeq
  <2>2. K # {} => Min(K) \in K
    <3>1. Len(list) \in Nat /\ K \in SUBSET (1 .. Len(list))
      OBVIOUS
    <3> HIDE DEF K
    <3> QED
      BY <3>1, SelectOK
  <2>3. k # 0 => k \in 1 .. Len(list)
    BY <2>1, <2>2
  <2> HIDE DEF k, K
  <2>4. CASE k = 0
    BY <2>4 DEF k
  <2>5. CASE k # 0
    <3> DEFINE p == list[k]
    <3>1. p \in Coded
      BY <2>3, <2>5
    <3> HIDE DEF p
    <3>2. p.slices[1] \in Slices
      BY <3>1 DEF Coded, Pics
    <3> DEFINE f == p.slices[1]
    <3>3. f \in Slices
      BY <3>2
    <3> HIDE DEF f
    <3>4. f.frame \in Nat
      BY <3>3 DEF Slices
    <3> QED
      BY <2>5, <3>4 DEF f, p, k
  <2> QED
    BY <2>4, <2>5
<1>3. FoundRefs(list, s) \in [I -> Nat]
  BY <1>2 DEF FoundRefs
<1> HIDE DEF I
<1> QED
  BY <1>1, <1>3

\* A list of slices with one more.
LEMMA Appended ==
  ASSUME NEW S, NEW u \in Seq(S), NEW x \in S
  PROVE  Append(u, x) \in Seq(S) /\ Append(u, x) # <<>>
OBVIOUS

\* The slice becomes part of the picture p of the list: for a new picture and
\* for another slice of one.
LEMMA DecodeIntoHolds ==
  ASSUME Types, phase = "decode", UNCHANGED <<stream, pos, pilot, written>>,
         NEW list \in Seq(Pics), NEW p \in Pics, NEW d \in Members,
         p.id \in Ids(list), OnlyNew(list, p.id), Ids(list) \subseteq 1 .. d.made,
         d.prefixSEI = dec.prefixSEI, ~d.newPicture,
         DecodeInto(list, p, d)
  PROVE  DInv'
<1> DEFINE q    == [p EXCEPT !.poc = pilot.poc, !.layer = pilot.tid,
                             !.referenced = TRUE, !.slices = Append(@, pilot)]
           with == SetPicture(list, q)
           s    == [pilot EXCEPT !.found = FoundRefs(with, pilot)]
           r    == [q EXCEPT !.slices = Append(p.slices, s)]
           isRap == pilot.nut \in RapTypes
           cra  == IF isRap THEN pilot.poc ELSE d.pocCRA
           type == IF isRap THEN pilot.nut ELSE d.associatedIRAPType
           freed == d.freedSEI \cup d.prefixSEI
<1>1. pilot \in Slices
  BY DEF Types
<1>2. pilot.poc \in Int /\ pilot.tid \in Nat /\ pilot.nut \in SliceTypes
  BY <1>1 DEF Slices
<1>3. p.slices \in Seq(Slices)
  BY DEF Pics
<1>4. q \in Coded /\ q.id = p.id
  <2> DEFINE t == Append(p.slices, pilot)
  <2>1. t \in Seq(Slices) /\ t # <<>>
    BY <1>1, <1>3
  <2>2. q = [p EXCEPT !.poc = pilot.poc, !.layer = pilot.tid,
                      !.referenced = TRUE, !.slices = t]
    BY DEF Pics
  <2> HIDE DEF q, t
  <2> QED
    BY <1>2, <2>1, <2>2 DEF Pics, Coded
<1> HIDE DEF q
<1>5. with \in Seq(Coded)
  BY <1>4, SetOnlyNew
<1> HIDE DEF with
<1>6. s \in Slices
  <2> DEFINE f == FoundRefs(with, pilot)
  <2>1. f \in UNION {[I -> Nat] : I \in SUBSET Nat}
    BY <1>1, <1>5, FoundRefsOK
  <2> HIDE DEF f
  <2>2. [pilot EXCEPT !.found = f] \in Slices
    BY <1>1, <2>1 DEF Slices
  <2> QED
    BY <2>2 DEF f
<1> HIDE DEF s
<1>7. r \in Coded /\ r.id = p.id
  <2> DEFINE t == Append(p.slices, s)
  <2>1. t \in Seq(Slices) /\ t # <<>>
    BY <1>3, <1>6, Appended
  <2> HIDE DEF t
  <2>2. [q EXCEPT !.slices = t] \in Coded /\ [q EXCEPT !.slices = t].id = q.id
    BY <1>4, <2>1 DEF Pics, Coded
  <2> QED
    BY <1>4, <2>2 DEF t
<1> HIDE DEF r
<1>8. listPic' = SetPicture(list, r)
  BY DEF DecodeInto, r, s, with, q
<1>9. listPic' \in Seq(Coded) /\ Ids(listPic') = Ids(list)
  <2>1. listPic' \in Seq(Coded) /\ SamePictures(list, listPic')
    BY <1>7, <1>8, SetOnlyNew
  <2> QED
    BY <2>1, SameIds
<1>10. /\ cra \in Int /\ type \in RapTypes \cup {"INVALID"}
       /\ freed \in SUBSET Nat /\ p.id \in Nat
  BY <1>2 DEF Members, Pics
<1>11. dec' = [d EXCEPT !.pic = p.id, !.firstSliceInSequence = FALSE,
                        !.firstSliceInBitstream = FALSE,
                        !.firstSliceInPicture = FALSE, !.pilotNoRasl = FALSE,
                        !.freedSEI = freed, !.prefixSEI = {},
                        !.pocCRA = cra, !.associatedIRAPType = type]
  BY DEF DecodeInto
<1> HIDE DEF cra, type, freed, isRap
<1>12. dec' \in Members
  <2> DEFINE a == [d EXCEPT !.pic = p.id, !.firstSliceInSequence = FALSE]
             b == [a EXCEPT !.firstSliceInBitstream = FALSE,
                            !.firstSliceInPicture = FALSE]
             c == [b EXCEPT !.pilotNoRasl = FALSE, !.freedSEI = freed]
             e == [c EXCEPT !.prefixSEI = {}, !.pocCRA = cra]
  <2>1. a \in Members
    BY <1>10 DEF Members
  <2>2. b \in Members
    <3> HIDE DEF a
    <3> QED
      BY <2>1 DEF Members
  <2>3. c \in Members
    <3> HIDE DEF b
    <3> QED
      BY <1>10, <2>2 DEF Members
  <2>4. e \in Members
    <3> HIDE DEF c
    <3> QED
      BY <1>10, <2>3 DEF Members
  <2>5. dec' = [e EXCEPT !.associatedIRAPType = type]
    BY <1>11
  <2> HIDE DEF e
  <2> QED
    BY <1>10, <2>4, <2>5 DEF Members
<1>13. /\ dec'.pic = p.id /\ dec'.made = d.made /\ dec'.prefixSEI = {}
       /\ dec'.newPicture = d.newPicture
  BY <1>11 DEF Members
<1>14. phase' \in {"finish", "error"}
  BY DEF DecodeInto
<1>15. Types'
  <2>1. p.id <= d.made
    BY DEF Members
  <2> QED
    BY <1>9, <1>12, <1>13, <1>14, <2>1 DEF Types, Phases
<1>16. Held'
  BY <1>9, <1>13 DEF Held
<1> QED
  BY <1>13, <1>15, <1>16 DEF DInv, ReadAgain

\* The first slice of a picture goes to a picture p without slices, of a list l
\* that holds the pictures of before, and what the buffer of p held at most.
LEMMA StartPictureInto ==
  ASSUME DInv, StartPicture
  PROVE  \/ phase' = "error" /\ UNCHANGED <<listPic, dec>>
         \/ \E l \in Seq(Pics), p \in Pics, d \in Members :
              /\ DecodeInto(l, p, d)
              /\ p.slices = <<>> /\ p.id \in Ids(l) /\ OnlyNew(l, p.id)
              /\ Ids(l) \subseteq 1 .. d.made
              /\ d.prefixSEI = dec.prefixSEI /\ ~d.newPicture
              /\ d.prevPOC = dec.prevPOC /\ d.pocRandomAccess = dec.pocRandomAccess
              /\ d.havePicList = dec.havePicList /\ d.loopFiltered = dec.loopFiltered
              /\ \A k \in 1 .. Len(l) :
                   \/ l[k].slices = <<>>
                   \/ \E j \in 1 .. Len(listPic) : Alike(listPic[j], l[k])
<1> DEFINE b == GetNewPicBuffer(listPic, dec.made + 1)
           l == ApplyRps(b.list, pilot)
           o == PictureOf(l, b.id)
           p == [o EXCEPT !.slices = <<>>]
           made == IF b.id > dec.made THEN b.id ELSE dec.made
           d == [dec EXCEPT !.made = made]
<1>1. /\ dec \in Members /\ listPic \in Seq(Coded)
      /\ Ids(listPic) \subseteq 1 .. dec.made /\ dec.made \in Nat
  BY DEF DInv, Types, StartPicture, Members
<1>2. ~dec.newPicture
  BY DEF DInv, ReadAgain, StartPicture
<1>3. \/ phase' = "error" /\ UNCHANGED <<listPic, dec>>
      \/ DecodeInto(l, p, d)
  BY DEF StartPicture
<1>4. dec.made + 1 \in Nat /\ dec.made + 1 \notin Ids(listPic)
  BY <1>1
<1>5. /\ b.list \in Seq(Pics)
      /\ b.id = dec.made + 1 \/ b.id \in Ids(listPic)
      /\ Ids(b.list) = Ids(listPic) \cup {b.id}
      /\ OnlyNew(b.list, b.id)
      /\ \A k \in 1 .. Len(b.list) :
           \/ b.list[k].slices = <<>>
           \/ \E j \in 1 .. Len(listPic) : Alike(listPic[j], b.list[k])
  BY <1>1, <1>4, GetNewPicBufferOK
<1> HIDE DEF b
<1>6. l \in Seq(Pics) /\ SameSlices(b.list, l) /\ Ids(l) = Ids(b.list)
  BY <1>5, ApplyRpsOK
<1> HIDE DEF l
<1>7. OnlyNew(l, b.id) /\ b.id \in Ids(l)
  BY <1>5, <1>6, StaysOnlyNew
<1>8. o \in Pics /\ o.id = b.id
  BY <1>6, <1>7, PictureOfOK
<1> HIDE DEF o
<1>9. p \in Pics /\ p.id = b.id /\ p.slices = <<>>
  <2>1. <<>> \in Seq(Slices)
    OBVIOUS
  <2> QED
    BY <1>8, <2>1 DEF Pics
<1> HIDE DEF p
<1>10. made \in Nat /\ Ids(l) \subseteq 1 .. made
  BY <1>1, <1>5, <1>6
<1> HIDE DEF made
<1>11. /\ d \in Members /\ d.made = made
       /\ d.prefixSEI = dec.prefixSEI /\ ~d.newPicture
       /\ d.prevPOC = dec.prevPOC /\ d.pocRandomAccess = dec.pocRandomAccess
       /\ d.havePicList = dec.havePicList /\ d.loopFiltered = dec.loopFiltered
  BY <1>1, <1>2, <1>10 DEF Members
<1> HIDE DEF d
<1>12. p.id \in Ids(l) /\ OnlyNew(l, p.id) /\ Ids(l) \subseteq 1 .. d.made
  BY <1>7, <1>9, <1>10, <1>11
<1>13. \A k \in 1 .. Len(l) :
         \/ l[k].slices = <<>>
         \/ \E j \in 1 .. Len(listPic) : Alike(listPic[j], l[k])
  BY <1>5, <1>6 DEF SameSlices, SamePictures, Alike
<1> QED
  BY <1>3, <1>6, <1>9, <1>11, <1>12, <1>13

\* The first slice of a picture: the buffer it takes becomes the current picture.
LEMMA StartPictureHolds == DInv /\ StartPicture => DInv'
<1> SUFFICES ASSUME DInv, StartPicture PROVE DInv'
  OBVIOUS
<1>1. Types
  BY DEF DInv
<1>2. ~dec.newPicture /\ phase = "decode" /\ UNCHANGED <<stream, pos, pilot, written>>
  BY DEF DInv, ReadAgain, StartPicture
<1>3. CASE phase' = "error" /\ UNCHANGED <<listPic, dec>>
  BY <1>2, <1>3 DEF DInv, Types, ReadAgain, Held, Phases
<1>4. ASSUME NEW l \in Seq(Pics), NEW p \in Pics, NEW d \in Members,
             DecodeInto(l, p, d), p.id \in Ids(l), OnlyNew(l, p.id),
             Ids(l) \subseteq 1 .. d.made, d.prefixSEI = dec.prefixSEI, ~d.newPicture
      PROVE  DInv'
  BY <1>1, <1>2, <1>4, DecodeIntoHolds
<1> QED
  BY <1>3, <1>4, StartPictureInto

\* Another slice joins the current picture, which Held has in the list.
LEMMA ContinuePictureHolds == DInv /\ ContinuePicture => DInv'
<1> SUFFICES ASSUME DInv, ContinuePicture PROVE DInv'
  OBVIOUS
<1> DEFINE p == PictureOf(listPic, dec.pic)
<1>1. dec \in Members /\ listPic \in Seq(Coded) /\ Types
  BY DEF DInv, Types
<1>2. ~dec.newPicture /\ phase = "decode" /\ ~dec.firstSliceInPicture
  BY DEF DInv, ReadAgain, ContinuePicture
<1>3. dec.pic \in Ids(listPic)
  BY <1>2 DEF DInv, Held
<1>4. p \in Coded /\ p.id = dec.pic
  BY <1>1, <1>3, PictureOfOK
<1>5. DecodeInto(listPic, p, dec) /\ UNCHANGED <<stream, pos, pilot, written>>
  BY DEF ContinuePicture
<1> HIDE DEF p
<1>6. p \in Pics /\ listPic \in Seq(Pics)
  BY <1>1, <1>4 DEF Coded
<1>7. OnlyNew(listPic, p.id)
  BY <1>1 DEF OnlyNew
<1>8. p.id \in Ids(listPic) /\ Ids(listPic) \subseteq 1 .. dec.made
  BY <1>3, <1>4 DEF DInv, Types
<1> QED
  BY <1>1, <1>2, <1>5, <1>6, <1>7, <1>8, DecodeIntoHolds

-----------------------------------------------------------------------------
(* The invariant is kept: the rest of the round.                           *)

\* What the statements of the loop leave alone.
Unmoved ==
  /\ /\ dec'.prevTid0POC = dec.prevTid0POC
     /\ dec'.pilotNoRasl = dec.pilotNoRasl
     /\ dec'.skipFrame = dec.skipFrame
     /\ dec'.pocRandomAccess = dec.pocRandomAccess
  /\ /\ dec'.associatedIRAPType = dec.associatedIRAPType
     /\ dec'.pocCRA = dec.pocCRA
     /\ dec'.newPicture = dec.newPicture
     /\ dec'.pic = dec.pic
  /\ /\ dec'.made = dec.made
     /\ dec'.prefixSEI = dec.prefixSEI
     /\ dec'.prevPOC = dec.prevPOC

\* A statement of the loop that keeps the pictures' types keeps Types, and a
\* slice that is to be read again.
LEMMA RoundHolds ==
  ASSUME DInv, Unmoved, dec' \in Members, stream' = stream, pilot' = pilot,
         pos' \in 1 .. Len(stream), phase' \in Phases \ {"decode"},
         listPic' \in Seq(Coded), Ids(listPic') \subseteq Ids(listPic),
         written' \in Seq(Items),
         dec.newPicture =>
           /\ pos' = pos /\ dec'.firstSliceInSequence = dec.firstSliceInSequence
           /\ phase' \in {"write", "prior", "flush", "bump", "read"}
           /\ dec'.firstSliceInPicture
  PROVE  Types' /\ ReadAgain'
<1>1. Types'
  BY DEF DInv, Types, Unmoved
<1>2. ASSUME dec'.newPicture PROVE ~Skipped(Pilot)' /\ nalu' = nalu
  <2>1. dec.newPicture
    BY <1>2 DEF Unmoved
  <2>2. nalu' = nalu
    BY <2>1 DEF nalu
  <2>3. Skipped(Pilot)' = Skipped(Pilot)
    BY <2>1, <2>2, SkippedSame DEF Unmoved
  <2> QED
    BY <2>1, <2>2, <2>3 DEF DInv, ReadAgain
<1>3. ReadAgain'
  BY <1>2 DEF DInv, ReadAgain, Unmoved
<1> QED
  BY <1>1, <1>3

\* DecApp::xWriteOutput, if it is called.
LEMMA WriteIfOK ==
  ASSUME DInv, NEW called \in BOOLEAN, WriteIf(called)
  PROVE  /\ dec' \in Members /\ Unmoved
         /\ dec'.firstSliceInSequence = dec.firstSliceInSequence
         /\ dec'.havePicList = dec.havePicList /\ dec'.loopFiltered = dec.loopFiltered
         /\ dec'.firstSliceInPicture =
              (dec.firstSliceInPicture /\ (called => nalu.nut # "EOS"))
         /\ listPic' \in Seq(Coded) /\ Ids(listPic') = Ids(listPic)
         /\ SameSlices(listPic, listPic')
         /\ written' \in Seq(Items)
<1>1. /\ dec \in Members /\ listPic \in Seq(Coded) /\ written \in Seq(Items)
      /\ dec.lastDisplay \in Int /\ dec.firstSliceInPicture \in BOOLEAN
  BY DEF DInv, Types, Members
<1>2. CASE called
  <2> DEFINE w == WriteOutput(listPic, dec.lastDisplay)
             open == dec.firstSliceInPicture /\ nalu.nut # "EOS"
             last == w.last
  <2>1. /\ w.list \in Seq(Coded) /\ Ids(w.list) = Ids(listPic)
        /\ w.out \in Seq(Items) /\ w.last \in Int
        /\ SameSlices(listPic, w.list)
    BY <1>1, WriteOutputOK
  <2>2. /\ listPic' = w.list /\ written' = written \o w.out
        /\ dec' = [dec EXCEPT !.lastDisplay = last, !.firstSliceInPicture = open]
    BY <1>2 DEF WriteIf
  <2> HIDE DEF w
  <2>3. open \in BOOLEAN /\ last \in Int
    BY <2>1
  <2>4. open = (dec.firstSliceInPicture /\ (called => nalu.nut # "EOS"))
    BY <1>2
  <2> HIDE DEF open, last
  <2>5. /\ dec' \in Members /\ dec'.firstSliceInPicture = open
        /\ dec'.firstSliceInSequence = dec.firstSliceInSequence
        /\ dec'.havePicList = dec.havePicList /\ dec'.loopFiltered = dec.loopFiltered
    BY <1>1, <2>2, <2>3 DEF Members
  <2>6. Unmoved
    BY <1>1, <2>2 DEF Members, Unmoved
  <2>7. written' \in Seq(Items)
    BY <1>1, <2>1, <2>2
  <2> QED
    BY <2>1, <2>2, <2>4, <2>5, <2>6, <2>7
<1>3. CASE ~called
  BY <1>1, <1>3 DEF WriteIf, Unmoved, SameSlices, SamePictures, Alike
<1> QED
  BY <1>2, <1>3

\* xWriteOutput leaves the pictures in the list.
LEMMA WriteAtNewPictureHolds == DInv /\ WriteAtNewPicture => DInv'
<1> SUFFICES ASSUME DInv, WriteAtNewPicture PROVE DInv'
  OBVIOUS
<1> DEFINE called == dec.havePicList /\ dec.newPicture
<1>1. /\ phase = "write" /\ phase' = "prior" /\ WriteIf(called)
      /\ UNCHANGED <<stream, pos, pilot>>
  BY DEF WriteAtNewPicture
<1>2. called \in BOOLEAN /\ (called => dec.newPicture) /\ (called => dec.havePicList)
  BY DEF DInv, Types, Members
<1> HIDE DEF called
<1>3. dec.newPicture => dec.firstSliceInPicture /\ nalu.nut # "EOS"
  BY <1>1 DEF DInv, ReadAgain, SliceTypes, RapTypes, IdrTypes, BlaTypes,
              LeadTypes, RaslTypes, RadlTypes, TsaTypes
<1>4. /\ dec' \in Members /\ Unmoved
      /\ dec'.firstSliceInSequence = dec.firstSliceInSequence
      /\ dec'.havePicList = dec.havePicList
      /\ dec'.firstSliceInPicture =
           (dec.firstSliceInPicture /\ (called => nalu.nut # "EOS"))
      /\ listPic' \in Seq(Coded) /\ Ids(listPic') = Ids(listPic)
      /\ written' \in Seq(Items)
  BY <1>1, <1>2, WriteIfOK
<1>5. dec'.firstSliceInPicture = dec.firstSliceInPicture
  BY <1>2, <1>3, <1>4 DEF DInv, Types, Members
<1>6. Types' /\ ReadAgain'
  BY <1>1, <1>3, <1>4, <1>5, RoundHolds DEF DInv, Types, Phases
<1>7. Held'
  BY <1>1, <1>4, <1>5 DEF DInv, Held, Unmoved
<1> QED
  BY <1>6, <1>7 DEF DInv

\* checkNoOutputPriorPics leaves the pictures in the list.
LEMMA DropPriorHolds == DInv /\ DropPrior => DInv'
<1> SUFFICES ASSUME DInv, DropPrior PROVE DInv'
  OBVIOUS
<1>1. /\ phase = "prior" /\ phase' = "flush"
      /\ UNCHANGED <<stream, pos, pilot, written>>
  BY DEF DropPrior
<1>2. dec \in Members /\ listPic \in Seq(Coded) /\ written \in Seq(Items)
  BY DEF DInv, Types
<1>3. /\ dec' \in Members /\ Unmoved
      /\ dec'.firstSliceInSequence = dec.firstSliceInSequence
      /\ dec'.havePicList = dec.havePicList
      /\ dec'.firstSliceInPicture = dec.firstSliceInPicture
      /\ listPic' \in Seq(Coded) /\ Ids(listPic') = Ids(listPic)
  <2>1. CASE MustDropPrior
    <3>1. /\ dec' = [dec EXCEPT !.isNoOutputPriorPics = FALSE]
          /\ listPic' = DropPriorPics(listPic, dec.lastPOCNoOutputPriorPics)
      BY <2>1 DEF DropPrior
    <3>2. listPic' \in Seq(Coded) /\ Ids(listPic') = Ids(listPic)
      BY <1>2, <3>1, DropPriorPicsOK
    <3>3. /\ dec' \in Members
          /\ dec'.firstSliceInSequence = dec.firstSliceInSequence
          /\ dec'.havePicList = dec.havePicList
          /\ dec'.firstSliceInPicture = dec.firstSliceInPicture
      BY <1>2, <3>1 DEF Members
    <3>4. Unmoved
      BY <1>2, <3>1 DEF Members, Unmoved
    <3> QED
      BY <3>2, <3>3, <3>4
  <2>2. CASE ~MustDropPrior
    BY <1>2, <2>2 DEF DropPrior, Unmoved
  <2> QED
    BY <2>1, <2>2
<1>4. dec.newPicture => dec.firstSliceInPicture
  BY <1>1 DEF DInv, ReadAgain
<1>5. Types' /\ ReadAgain'
  BY <1>1, <1>2, <1>3, <1>4, RoundHolds DEF DInv, Types, Phases
<1>6. Held'
  BY <1>1, <1>3 DEF DInv, Held, Unmoved
<1> QED
  BY <1>5, <1>6 DEF DInv

\* xFlushOutput destroys all pictures, the current one too: Held is then its third
\* case, as a new picture is about to start, or its second after an EOS.
LEMMA FlushHolds == DInv /\ Flush => DInv'
<1> SUFFICES ASSUME DInv, Flush PROVE DInv'
  OBVIOUS
<1>1. /\ phase = "flush" /\ phase' = "bump" /\ UNCHANGED <<stream, pos, pilot>>
  BY DEF Flush
<1>2. dec \in Members /\ listPic \in Seq(Coded) /\ written \in Seq(Items)
  BY DEF DInv, Types
<1>3. /\ dec' \in Members /\ Unmoved
      /\ dec'.firstSliceInSequence = dec.firstSliceInSequence
      /\ dec'.havePicList = dec.havePicList
      /\ dec'.firstSliceInPicture = dec.firstSliceInPicture
      /\ listPic' \in Seq(Coded) /\ Ids(listPic') \subseteq Ids(listPic)
      /\ written' \in Seq(Items)
      /\ listPic' = listPic \/ dec.newPicture
  <2>1. CASE MustFlush
    <3> DEFINE last == IF listPic = <<>> THEN dec.lastDisplay ELSE -MaxInt
    <3>1. /\ dec' = [dec EXCEPT !.lastDisplay = last]
          /\ listPic' = <<>> /\ written' = written \o FlushOutput(listPic)
      BY <2>1 DEF Flush
    <3>2. last \in Int
      BY <1>2 DEF Members
    <3> HIDE DEF last
    <3>3. /\ dec' \in Members
          /\ dec'.firstSliceInSequence = dec.firstSliceInSequence
          /\ dec'.havePicList = dec.havePicList
          /\ dec'.firstSliceInPicture = dec.firstSliceInPicture
      BY <1>2, <3>1, <3>2 DEF Members
    <3>4. Unmoved
      BY <1>2, <3>1 DEF Members, Unmoved
    <3>5. written' \in Seq(Items)
      BY <1>2, <3>1, FlushOutputOK
    <3>6. listPic' \in Seq(Coded) /\ Ids(listPic') = {}
      BY <3>1 DEF Ids
    <3> QED
      BY <2>1, <3>3, <3>4, <3>5, <3>6 DEF MustFlush
  <2>2. CASE ~MustFlush
    BY <1>2, <2>2 DEF Flush, Unmoved
  <2> QED
    BY <2>1, <2>2
<1>4. dec.newPicture => dec.firstSliceInPicture
  BY <1>1 DEF DInv, ReadAgain
<1>5. Types' /\ ReadAgain'
  BY <1>1, <1>2, <1>3, <1>4, RoundHolds DEF DInv, Types, Phases
<1>6. Held'
  <2>1. CASE dec.newPicture
    BY <1>1, <1>3, <1>4, <2>1 DEF Held, Unmoved
  <2>2. CASE ~dec.newPicture
    BY <1>1, <1>3, <2>2 DEF DInv, Held, Unmoved
  <2> QED
    BY <2>1, <2>2
<1> QED
  BY <1>5, <1>6 DEF DInv

\* Back to the loop's condition: to the next NAL unit, or the same one again.
LEMMA BumpHolds == DInv /\ Bump => DInv'
<1> SUFFICES ASSUME DInv, Bump PROVE DInv'
  OBVIOUS
<1>1. /\ phase = "bump" /\ phase' = (IF Eof THEN "end" ELSE "read")
      /\ pos' = (IF dec.newPicture \/ Eof THEN pos ELSE pos + 1)
      /\ UNCHANGED <<stream, pilot>> /\ WriteIf(MustBump)
  BY DEF Bump
<1>2. MustBump \in BOOLEAN /\ (MustBump => ~dec.newPicture /\ dec.havePicList)
  BY DEF MustBump, DInv, Types, Members
<1>3. /\ dec' \in Members /\ Unmoved
      /\ dec'.firstSliceInSequence = dec.firstSliceInSequence
      /\ dec'.havePicList = dec.havePicList
      /\ dec'.firstSliceInPicture =
           (dec.firstSliceInPicture /\ (MustBump => nalu.nut # "EOS"))
      /\ listPic' \in Seq(Coded) /\ Ids(listPic') = Ids(listPic)
      /\ written' \in Seq(Items)
  BY <1>1, <1>2, WriteIfOK
<1>4. pos \in 1 .. Len(stream) /\ Len(stream) \in Nat /\ dec \in Members
  BY NaluOK DEF DInv, Types
<1>5. pos' \in 1 .. Len(stream)
  BY <1>1, <1>4 DEF Eof
<1>6. dec.newPicture => ~Eof /\ dec.firstSliceInPicture
  BY <1>1 DEF DInv, ReadAgain, Eof
<1>7. ~MustBump => dec'.firstSliceInPicture = dec.firstSliceInPicture
  BY <1>3, <1>4 DEF Members
<1>8. Types' /\ ReadAgain'
  BY <1>1, <1>2, <1>3, <1>5, <1>6, <1>7, RoundHolds DEF Phases
<1>9. Held'
  BY <1>1, <1>2, <1>3, <1>6, <1>7 DEF DInv, Held, Unmoved
<1> QED
  BY <1>8, <1>9 DEF DInv

\* The loop has ended.
LEMMA FlushAtEndHolds == DInv /\ FlushAtEnd => DInv'
<1> SUFFICES ASSUME DInv, FlushAtEnd PROVE DInv'
  OBVIOUS
<1>1. /\ phase = "end" /\ phase' = "done" /\ UNCHANGED <<stream, pos, dec, pilot>>
  BY DEF FlushAtEnd
<1>2. listPic \in Seq(Coded) /\ written \in Seq(Items)
  BY DEF DInv, Types
<1>3. ~dec.newPicture
  BY <1>1 DEF DInv, ReadAgain
<1>4. written' \in Seq(Items)
  BY <1>2, FlushOutputOK DEF FlushAtEnd
<1>5. listPic' \in Seq(Coded) /\ Ids(listPic') \subseteq Ids(listPic)
  BY <1>2 DEF FlushAtEnd, Ids
<1>6. Types'
  BY <1>1, <1>4, <1>5 DEF DInv, Types, Phases
<1> QED
  BY <1>1, <1>3, <1>6 DEF DInv, ReadAgain, Held

\* DecLib::finishPicture keeps the pictures of the list, and their slices.
LEMMA FinishedOK ==
  ASSUME listPic \in Seq(Coded), dec.pic \in Ids(listPic)
  PROVE  /\ Finished(listPic) \in Seq(Coded) /\ Ids(Finished(listPic)) = Ids(listPic)
         /\ FromList(listPic, Finished(listPic))
<1> DEFINE p == PictureOf(listPic, dec.pic)
           out == Last(p.slices).out
           q == [p EXCEPT !.neededForOutput = out, !.reconstructed = TRUE]
           with == SetPicture(listPic, q)
<1>1. p \in Coded /\ p.id = dec.pic
  BY PictureOfOK
<1>2. Finished(listPic) = SortPicList(with)
  BY DEF Finished
<1> HIDE DEF p
<1>3. out \in BOOLEAN
  <2>1. p.slices \in Seq(Slices) /\ p.slices # <<>>
    BY <1>1 DEF Coded, Pics
  <2>2. \A u \in Seq(Slices) : u # <<>> => Len(u) \in DOMAIN u
    OBVIOUS
  <2>3. Last(p.slices) \in Slices
    BY <2>1, <2>2 DEF Last
  <2> QED
    BY <2>3 DEF Slices
<1> HIDE DEF out
<1>4. q \in Coded /\ q.id = dec.pic /\ Alike(p, q)
  BY <1>1, <1>3 DEF Coded, Pics, Alike
<1> HIDE DEF q
<1>5. /\ with \in Seq(Coded) /\ Ids(with) = Ids(listPic)
      /\ FromList(listPic, with)
  <2>1. IndexOf(listPic, dec.pic) \in 1 .. Len(listPic)
    BY IndexFound
  <2>2. \E j \in 1 .. Len(listPic) : Alike(listPic[j], q)
    BY <1>4, <2>1 DEF p, PictureOf
  <2>3. /\ with \in Seq(Coded) /\ Ids(with) = Ids(listPic) /\ Len(with) = Len(listPic)
        /\ \A k \in 1 .. Len(listPic) : with[k] = listPic[k] \/ with[k] = q
    BY <1>4, SetPictureOK DEF SamePictures
  <2>4. \A k \in 1 .. Len(listPic) : Alike(listPic[k], listPic[k])
    BY DEF Alike
  <2> HIDE DEF with
  <2> QED
    BY <2>2, <2>3, <2>4 DEF FromList
<1> HIDE DEF with
<1> DEFINE sorted == SortPicList(with)
<1>6. sorted \in Seq(Coded) /\ Range(sorted) = Range(with)
  BY <1>5, SortPicListOK
<1> HIDE DEF sorted
<1>7. Ids(sorted) = Ids(with)
  <2>1. \A l \in Seq(Coded) : Ids(l) = {x.id : x \in Range(l)}
    BY DEF Ids, Range
  <2> QED
    BY <1>5, <1>6, <2>1
<1>8. FromList(listPic, sorted)
  <2> SUFFICES ASSUME NEW k \in 1 .. Len(sorted)
               PROVE  \E j \in 1 .. Len(listPic) : Alike(listPic[j], sorted[k])
    BY DEF FromList
  <2>1. DOMAIN sorted = 1 .. Len(sorted) /\ DOMAIN with = 1 .. Len(with)
    BY <1>5, <1>6
  <2>2. sorted[k] \in Range(with)
    BY <1>6, <2>1 DEF Range
  <2>3. PICK i \in 1 .. Len(with) : sorted[k] = with[i]
    BY <2>1, <2>2 DEF Range
  <2> QED
    BY <1>5, <2>3 DEF FromList
<1> QED
  BY <1>2, <1>5, <1>6, <1>7, <1>8 DEF sorted

\* finishPicture: the picture is finished, and the next slice starts a new one.
LEMMA FinishPictureHolds == DInv /\ FinishPicture => DInv'
<1> SUFFICES ASSUME DInv, FinishPicture PROVE DInv'
  OBVIOUS
<1> DEFINE first == dec.firstSliceInPicture \/ MustFinish
                      \/ (PictureEnds /\ dec.firstSliceInSequence)
           have  == dec.havePicList \/ MustFinish
           loop  == IF PictureEnds /\ ~dec.firstSliceInSequence
                    THEN nalu.nut = "EOS" ELSE dec.loopFiltered
           start == dec.firstSliceInSequence \/ (PictureEnds /\ nalu.nut = "EOS")
<1>1. /\ phase = "finish" /\ phase' = "write"
      /\ UNCHANGED <<stream, pos, pilot, written>>
  BY DEF FinishPicture
<1>2. dec \in Members /\ listPic \in Seq(Coded) /\ written \in Seq(Items)
  BY DEF DInv, Types
<1>3. dec' = [dec EXCEPT !.firstSliceInPicture = first, !.havePicList = have,
                         !.loopFiltered = loop, !.firstSliceInSequence = start]
  BY DEF FinishPicture
<1>4. /\ first \in BOOLEAN /\ have \in BOOLEAN /\ loop \in BOOLEAN /\ start \in BOOLEAN
  BY <1>2 DEF Members, MustFinish, PictureEnds, Eof
<1>5. MustFinish => dec.pic \in Ids(listPic)
  BY <1>1 DEF MustFinish, DInv, Held
<1>6. listPic' \in Seq(Coded) /\ Ids(listPic') = Ids(listPic)
  BY <1>2, <1>5, FinishedOK DEF FinishPicture
<1>7. dec.newPicture => /\ first
                        /\ start = dec.firstSliceInSequence
  <2>1. ASSUME dec.newPicture PROVE nalu.nut # "EOS" /\ PictureEnds /\ ~Eof
    BY <2>1 DEF DInv, ReadAgain, PictureEnds, Eof, SliceTypes, RapTypes, IdrTypes,
                BlaTypes, LeadTypes, RaslTypes, RadlTypes, TsaTypes
  <2> QED
    BY <1>2, <2>1 DEF MustFinish, Members
<1>8. /\ dec.firstSliceInPicture => first
      /\ dec.firstSliceInSequence => start
      /\ ~MustFinish => have = dec.havePicList
      /\ MustFinish => ~dec.firstSliceInSequence
  BY <1>2 DEF MustFinish, Members
<1> HIDE DEF first, have, loop, start
<1>9. dec' \in Members
  <2> DEFINE a == [dec EXCEPT !.firstSliceInPicture = first, !.havePicList = have]
  <2>1. a \in Members
    BY <1>2, <1>4 DEF Members
  <2>2. dec' = [a EXCEPT !.loopFiltered = loop, !.firstSliceInSequence = start]
    BY <1>3
  <2> HIDE DEF a
  <2> QED
    BY <1>4, <2>1, <2>2 DEF Members
<1>10. /\ dec'.firstSliceInPicture = first /\ dec'.havePicList = have
       /\ dec'.firstSliceInSequence = start
  BY <1>2, <1>3 DEF Members
<1>11. Unmoved
  BY <1>2, <1>3 DEF Members, Unmoved
<1>12. Types' /\ ReadAgain'
  BY <1>1, <1>2, <1>6, <1>7, <1>9, <1>10, <1>11, RoundHolds DEF DInv, Types, Phases
<1>13. Held'
  BY <1>1, <1>5, <1>6, <1>8, <1>10, <1>11 DEF DInv, Held, Unmoved
<1> QED
  BY <1>12, <1>13 DEF DInv

-----------------------------------------------------------------------------
\* Every step preserves DInv,
LEMMA NextHolds == DInv /\ [Next]_vars => DInv'
<1>1. DInv /\ UNCHANGED vars => DInv'
  BY DEF vars, DInv, Types, ReadAgain, Held, Skipped, Pilot, SlicePoc, PocMsb,
         CraNoRasl, NoRaslOutput, nalu
<1> QED
  BY <1>1, SkipSliceHolds, AcceptSliceHolds, FindNewPictureHolds, OtherNalHolds,
     CreateLostPictureHolds, StartPictureHolds, ContinuePictureHolds,
     FinishPictureHolds, WriteAtNewPictureHolds, DropPriorHolds, FlushHolds,
     BumpHolds, FlushAtEndHolds
     DEF Next, Done

\* so it holds throughout.
LEMMA Invariance == Spec => []DInv
BY InitHolds, NextHolds, PTL DEF Spec

\* The members of DecLib, the picture list and the variables of DecApp::decode
\* have their types in every behaviour, for every set of bitstreams: the NAL
\* unit at hand is one of the bitstream, the numbers of the pictures in the list
\* are those given out, and POCs are integers.
THEOREM TypeCorrect == Spec => []TypeOK
<1>1. DInv => TypeOK
  <2> SUFFICES ASSUME DInv PROVE TypeOK
    OBVIOUS
  <2>1. /\ dec \in Members /\ listPic \in Seq(Coded) /\ written \in Seq(Items)
        /\ Ids(listPic) \subseteq 1 .. dec.made
    BY DEF DInv, Types
  <2>2. \A k \in DOMAIN listPic : listPic[k].id \in 1 .. dec.made
    BY <2>1 DEF Ids
  <2>3. \A i \in DOMAIN written : written[i].frame \in Nat
    <3>1. \A x \in Items : x.frame \in Nat
      BY DEF Items
    <3> QED
      BY <2>1, <3>1
  <2>4. dec.associatedIRAPType \in RapTypes \cup {"INVALID"} /\ dec.pic \in 0 .. dec.made
    BY <2>1 DEF Members, DInv, Types
  <2> QED
    BY <2>2, <2>3, <2>4 DEF DInv, Types, TypeOK
<1> QED
  BY <1>1, Invariance, PTL

\* m_pcPic is a picture of the list whenever a slice takes over the header of
\* the one before, joins its picture, or the picture is finished: in every
\* behaviour for every bitstream, lossy or not, in which DecApp::decode flushes
\* and destroys pictures in between.
THEOREM CurrentPictureHeld == Spec => []PictureOpen
<1>1. DInv => PictureOpen
  <2> SUFFICES ASSUME DInv,
                      \/ phase = "read" /\ nalu.nut \in SliceTypes /\ ~dec.firstSliceInPicture
                      \/ phase = "decode" /\ ~dec.firstSliceInPicture
                      \/ phase = "finish" /\ MustFinish
               PROVE  HasPicture(listPic, dec.pic)
    BY DEF PictureOpen
  <2>1. dec.pic \in Ids(listPic)
    BY DEF DInv, Held, MustFinish
  <2>2. listPic \in Seq(Coded)
    BY DEF DInv, Types
  <2> QED
    BY <2>1, <2>2, IndexFound DEF HasPicture
<1> QED
  BY <1>1, Invariance, PTL
=============================================================================
