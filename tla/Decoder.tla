------------------------------ MODULE Decoder ------------------------------
(***************************************************************************)
(* The decoding loop: DecApp::decode reads one NAL unit after the other,   *)
(* DecLib::decode handles it, and the loop finishes pictures and writes    *)
(* them out.  The slice that starts a new picture is read twice: the first *)
(* time it ends the picture before it, the second time it is decoded.      *)
(*                                                                         *)
(* One round of the loop is the phases                                     *)
(*    read -> (decode) -> finish -> write -> prior -> flush -> bump -> read *)
(* which follow each other as the statements of the loop do.  Sample data, *)
(* parameter sets and long-term references are left out; a picture is      *)
(* known by the number of the coded picture (frame) its slices came from.  *)
(***************************************************************************)
EXTENDS PictureList

CONSTANTS Streams,     \* the bitstreams: sequences of NAL units
          MaxPocLsb,   \* 1 << sps.getBitsForPOC()
          SkipFrames,  \* DecApp::m_iSkipFrame
          MaxInt       \* MAX_INT

\* A NAL unit: its header, what the decoder reads of a slice header, and, for
\* the properties, the POC, frame and sequence that the encoder had in mind.
Nalus ==
  [nut : NalTypes, tid : Nat, first : BOOLEAN, lsb : 0 .. MaxPocLsb - 1,
   refs : Seq(Refs), out : BOOLEAN, noPrior : BOOLEAN,
   poc : Int, frame : Nat, cvs : Nat]

ASSUME DecoderAssumption ==
  /\ MaxPocLsb \in Nat \ {0}
  /\ SkipFrames \in Nat
  /\ MaxInt \in Nat
  /\ \A s \in Streams : s \in Seq(Nalus) /\ s # <<>>

VARIABLES stream,   \* the bitstream
          pos,      \* the NAL unit that is read next, or being handled
          phase,    \* where the round is
          dec,      \* the members of DecLib, and the loop's variables
          pilot,    \* m_apcSlicePilot
          listPic,  \* m_cListPic
          written   \* the reconstruction file: the pictures, in order

vars == <<stream, pos, phase, dec, pilot, listPic, written>>

nalu == stream[pos]

NoSlice == [nut |-> "NON_VCL", frame |-> 0]

Init ==
  /\ stream \in Streams
  /\ pos = 1
  /\ phase = "read"
  /\ dec = [associatedIRAPType |-> "INVALID",
            pocCRA |-> 0,
            pocRandomAccess |-> MaxInt,
            prevPOC |-> MaxInt,
            prevTid0POC |-> 0,
            firstSliceInPicture |-> TRUE,
            firstSliceInSequence |-> TRUE,
            firstSliceInBitstream |-> TRUE,
            lastPOCNoOutputPriorPics |-> -1,
            isNoOutputPriorPics |-> FALSE,
            craNoRaslOutputFlag |-> FALSE,
            pilotNoRasl |-> FALSE,     \* m_noRaslOutputFlag of the pilot
            pic |-> 0,                 \* m_pcPic
            made |-> 0,                \* pictures allocated so far
            prefixSEI |-> {},          \* m_prefixSEINALUs
            freedSEI |-> {},           \* those deleted
            skipFrame |-> SkipFrames,
            newPicture |-> FALSE,      \* bNewPicture
            loopFiltered |-> FALSE,
            havePicList |-> FALSE,     \* pcListPic is set
            lastDisplay |-> SkipFrames - MaxInt]
  /\ pilot = NoSlice
  /\ listPic = <<>>
  /\ written = <<>>

-----------------------------------------------------------------------------
(* DecLib::xDecodeSlice up to the decision whether to decode the slice.    *)

\* Mutant of PocMsb: the wrap downwards is missed.
PocMsbUpOnly(lsb) ==
  LET prevLsb == dec.prevTid0POC % MaxPocLsb
      prevMsb == dec.prevTid0POC - prevLsb
  IN  IF lsb < prevLsb /\ prevLsb - lsb >= MaxPocLsb \div 2
      THEN prevMsb + MaxPocLsb
      ELSE prevMsb

\* parseSliceHeader: the POC from its low bits and the previous picture of
\* temporal layer 0.
PocMsb(lsb) ==
  LET prevLsb == dec.prevTid0POC % MaxPocLsb
      prevMsb == dec.prevTid0POC - prevLsb
  IN  IF lsb < prevLsb /\ prevLsb - lsb >= MaxPocLsb \div 2
      THEN prevMsb + MaxPocLsb
      ELSE IF lsb > prevLsb /\ lsb - prevLsb > MaxPocLsb \div 2
           THEN prevMsb - MaxPocLsb
           ELSE prevMsb

NoRaslOutput ==
  \/ dec.pilotNoRasl
  \/ nalu.nut \in IdrTypes \cup BlaTypes
  \/ nalu.nut = "CRA" /\ dec.firstSliceInSequence

CraNoRasl ==
  IF nalu.nut = "CRA" THEN NoRaslOutput ELSE dec.craNoRaslOutputFlag

SlicePoc ==
  IF nalu.nut \in IdrTypes THEN 0
  ELSE IF nalu.nut \in BlaTypes THEN nalu.lsb
  ELSE IF nalu.nut = "CRA" /\ CraNoRasl THEN nalu.lsb
  ELSE PocMsb(nalu.lsb) + nalu.lsb

NoOutputPriorPics ==
  /\ nalu.nut \in RapTypes
  /\ ~dec.firstSliceInBitstream
  /\ NoRaslOutput
  /\ nalu.nut = "CRA" \/ nalu.noPrior

\* The slice pilot with what its header and the inferences give.
Pilot ==
  [nut |-> nalu.nut, poc |-> SlicePoc, tid |-> nalu.tid, first |-> nalu.first,
   nonRef |-> NonReference(nalu.nut),
   refs |-> IF nalu.nut \in IdrTypes THEN <<>> ELSE nalu.refs,
   out |-> nalu.out /\ ~(nalu.nut \in RaslTypes /\ CraNoRasl),
   noOutputPriorPics |-> NoOutputPriorPics,
   irapPoc |-> dec.pocCRA, irapType |-> dec.associatedIRAPType,
   frame |-> nalu.frame, cvs |-> nalu.cvs, found |-> <<>>]

\* Mutant of Tid0: pictures that are not referenced count.
Tid0Any(s) == s.tid = 0

\* xUpdatePreviousTid0POC.
Tid0(s) == s.tid = 0 /\ IsReferenceNalu(s.nut) /\ s.nut \notin LeadTypes

\* isRandomAccessSkipPicture and isSkipPictureForBLA.
Skipped(s) ==
  \/ dec.skipFrame > 0
  \/ dec.pocRandomAccess = MaxInt /\ s.nut \notin RapTypes
  \/ /\ dec.pocRandomAccess # MaxInt
     /\ s.poc < dec.pocRandomAccess
     /\ s.nut \in RaslTypes
  \/ /\ dec.associatedIRAPType \in BlaTypes
     /\ s.poc < dec.pocCRA
     /\ s.nut \in RaslTypes

RandomAccessPoc(s) ==
  IF dec.pocRandomAccess # MaxInt \/ dec.skipFrame > 0 \/ s.nut \notin RapTypes
  THEN dec.pocRandomAccess
  ELSE IF s.nut \in IdrTypes THEN -MaxInt ELSE s.poc

\* Mutant of NewPictureFound: only a change of the POC starts a picture.
NewPictureByPoc(s) ==
  /\ ~dec.firstSliceInPicture
  /\ dec.prevPOC # s.poc

\* A slice at CTU address 0 while a picture is open.
NewPictureFound(s) ==
  /\ s.first
  /\ ~dec.firstSliceInPicture
  /\ dec.prevPOC >= RandomAccessPoc(s)

\* The members of DecLib after the header and the inferences.
Inferred(s) ==
  [dec EXCEPT
     !.prevTid0POC = IF Tid0(s) THEN s.poc ELSE @,
     !.pilotNoRasl = IF nalu.nut \in RapTypes THEN NoRaslOutput ELSE @,
     !.craNoRaslOutputFlag = CraNoRasl,
     !.isNoOutputPriorPics = s.noOutputPriorPics,
     !.lastPOCNoOutputPriorPics = IF s.noOutputPriorPics THEN s.poc ELSE @,
     !.pocRandomAccess = RandomAccessPoc(s),
     !.skipFrame = IF @ > 0 THEN @ - 1 ELSE 0,
     !.newPicture = FALSE]

SkipSlice ==
  /\ phase = "read"
  /\ nalu.nut \in SliceTypes
  /\ Skipped(Pilot)
  /\ dec' = Inferred(Pilot)
  /\ pilot' = Pilot
  /\ phase' = "finish"
  /\ UNCHANGED <<stream, pos, listPic, written>>

FindNewPicture ==
  /\ phase = "read"
  /\ nalu.nut \in SliceTypes
  /\ ~Skipped(Pilot)
  /\ NewPictureFound(Pilot)
  /\ dec' = [Inferred(Pilot) EXCEPT !.newPicture = TRUE, !.prevPOC = Pilot.poc]
  /\ pilot' = Pilot
  /\ phase' = "finish"
  /\ UNCHANGED <<stream, pos, listPic, written>>

AcceptSlice ==
  /\ phase = "read"
  /\ nalu.nut \in SliceTypes
  /\ ~Skipped(Pilot)
  /\ ~NewPictureFound(Pilot)
  /\ dec' = [Inferred(Pilot) EXCEPT !.prevPOC = Pilot.poc]
  /\ pilot' = Pilot
  /\ phase' = "decode"
  /\ UNCHANGED <<stream, pos, listPic, written>>

-----------------------------------------------------------------------------
(* The rest of DecLib::xDecodeSlice.                                       *)

\* The POC checkThatAllRefPicsAreAvailable reports lost, when it reports
\* one: it answers POC + 1, and the caller acts on positive answers only.
Lost == LostRefs(listPic, pilot, dec.pocRandomAccess)
LostPoc ==
  pilot.poc + pilot.refs[CHOOSE i \in Lost : \A j \in Lost : j <= i].delta
LostReported == Lost # {} /\ LostPoc >= 0

\* Mutant of Filled: the picture is given no marks.
FilledUnmarked(p) == [p EXCEPT !.slices[1].poc = LostPoc]

\* What xCreateLostPicture sets in the picture it fills in: the slice of the
\* picture gets the POC, the picture itself does not.
Filled(p) ==
  [p EXCEPT !.referenced = TRUE, !.reconstructed = TRUE,
            !.neededForOutput = TRUE, !.slices[1].poc = LostPoc]

\* xCreateLostPicture.  A CHECK fails on a picture that has no slice yet.  As the
\* picture is not found under the lost POC, the loop goes on to the next buffer.
CreateLostPicture ==
  /\ phase = "decode"
  /\ LostReported
  /\ LET b == GetNewPicBuffer(listPic, dec.made + 1)
         p == PictureOf(b.list, b.id)
         q == Filled(p)
     IN  IF p.slices = <<>>
         THEN phase' = "error" /\ UNCHANGED <<listPic, dec>>
         ELSE /\ listPic' = SetPicture(b.list, q)
              /\ dec' = [dec EXCEPT !.prevTid0POC =
                                      IF Tid0(q.slices[1]) THEN LostPoc ELSE @]
              /\ UNCHANGED phase
  /\ UNCHANGED <<stream, pos, pilot, written>>

\* checkCRA.
CraRejected(s) ==
  s.poc > dec.pocCRA /\ \E poc \in RefPocs(s) : poc < dec.pocCRA

\* setRefPicList: the pictures found for the references in use, and the
\* cases where a CHECK fails or no picture is found.
FoundRefs(list, s) ==
  [i \in {j \in DOMAIN s.refs : s.refs[j].used} |->
     LET k == GetRefPic(list, s.poc + s.refs[i].delta)
     IN  IF k = 0 THEN 0 ELSE list[k].slices[1].frame]

RefListRejected(list, s) ==
  \/ s.nut \in RapTypes /\ UsedPocs(s) # {}
  \/ \E poc \in UsedPocs(s) : GetRefPic(list, poc) = 0

\* The slice is made part of picture p and its references are looked up.
DecodeInto(list, p, d) ==
  LET q    == [p EXCEPT !.poc = pilot.poc, !.layer = pilot.tid,
                        !.referenced = TRUE, !.slices = Append(@, pilot)]
      with == SetPicture(list, q)
      s    == [pilot EXCEPT !.found = FoundRefs(with, pilot)]
  IN  /\ listPic' = SetPicture(list, [q EXCEPT !.slices = Append(p.slices, s)])
      /\ dec' = [d EXCEPT !.pic = p.id,
                          !.firstSliceInSequence = FALSE,
                          !.firstSliceInBitstream = FALSE,
                          !.firstSliceInPicture = FALSE,
                          !.pilotNoRasl = FALSE,
                          !.freedSEI = @ \cup d.prefixSEI,
                          !.prefixSEI = {},
                          !.pocCRA = IF pilot.nut \in RapTypes
                                     THEN pilot.poc ELSE @,
                          !.associatedIRAPType = IF pilot.nut \in RapTypes
                                                 THEN pilot.nut ELSE @]
      /\ phase' = IF CraRejected(pilot) \/ RefListRejected(with, pilot)
                  THEN "error" ELSE "finish"

\* xActivateParameterSets for the first slice of a picture: the buffer is
\* chosen before the reference picture set is applied.
StartPicture ==
  /\ phase = "decode"
  /\ ~LostReported
  /\ dec.firstSliceInPicture
  /\ \E b \in {GetNewPicBuffer(listPic, dec.made + 1)} :
     \E l \in {ApplyRps(b.list, pilot)} :
       LET p == [PictureOf(l, b.id) EXCEPT !.slices = <<>>]
           d == [dec EXCEPT !.made = IF b.id > @ THEN b.id ELSE @]
       IN  IF LeadingRejected(b.list, pilot) \/ RpsRejected(l, pilot)
           THEN phase' = "error" /\ UNCHANGED <<listPic, dec>>
           ELSE DecodeInto(l, p, d)
  /\ UNCHANGED <<stream, pos, pilot, written>>

\* And for another slice: it goes to the picture that is open.
ContinuePicture ==
  /\ phase = "decode"
  /\ ~LostReported
  /\ ~dec.firstSliceInPicture
  /\ DecodeInto(listPic, PictureOf(listPic, dec.pic), dec)
  /\ UNCHANGED <<stream, pos, pilot, written>>

-----------------------------------------------------------------------------
(* DecLib::decode for the other NAL units.                                 *)

DecodeEos ==
  /\ phase = "read"
  /\ nalu.nut = "EOS"
  /\ dec' = [dec EXCEPT !.associatedIRAPType = "INVALID", !.pocCRA = 0,
                        !.pocRandomAccess = MaxInt, !.prevPOC = MaxInt,
                        !.newPicture = FALSE]
  /\ phase' = "finish"
  /\ UNCHANGED <<stream, pos, pilot, listPic, written>>

\* A prefix SEI message waits for the slice it belongs to.
DecodePrefixSei ==
  /\ phase = "read"
  /\ nalu.nut = "PREFIX_SEI"
  /\ dec' = [dec EXCEPT !.prefixSEI = @ \cup {pos}, !.newPicture = FALSE]
  /\ phase' = "finish"
  /\ UNCHANGED <<stream, pos, pilot, listPic, written>>

\* xParsePrefixSEIsForUnknownVCLNal: the front of the queue is deleted and
\* not removed, as long as the queue is not empty.
DecodeReservedVcl ==
  /\ phase = "read"
  /\ nalu.nut = "RESERVED_VCL"
  /\ LET front == CHOOSE i \in dec.prefixSEI : \A j \in dec.prefixSEI : i <= j
     IN  IF dec.prefixSEI = {}
         THEN phase' = "finish" /\ dec' = [dec EXCEPT !.newPicture = FALSE]
         ELSE /\ phase' = IF front \in dec.freedSEI THEN "error" ELSE phase
              /\ dec' = [dec EXCEPT !.freedSEI = @ \cup {front}]
  /\ UNCHANGED <<stream, pos, pilot, listPic, written>>

\* The NAL units that change no picture state (delimiters, filler data,
\* suffix SEI, parameter sets).
DecodeNonVcl ==
  /\ phase = "read"
  /\ nalu.nut = "NON_VCL"
  /\ dec' = [dec EXCEPT !.newPicture = FALSE]
  /\ phase' = "finish"
  /\ UNCHANGED <<stream, pos, pilot, listPic, written>>

-----------------------------------------------------------------------------
(* The rest of the round in DecApp::decode.                                *)

\* Mutant of Eof: the end is noticed only after reading past it.
EofLate == pos > Len(stream) /\ ~dec.newPicture

\* The file is at its end after its last NAL unit, unless the loop has
\* gone back to read the slice again.
Eof == pos = Len(stream) /\ ~dec.newPicture

\* Mutant of PictureEnds: a new picture does not end the one before.
PictureEndsLate == Eof \/ nalu.nut = "EOS"

PictureEnds == dec.newPicture \/ Eof \/ nalu.nut = "EOS"

\* DecLib::finishPicture.
Finished(list) ==
  LET p == PictureOf(list, dec.pic)
  IN  SortPicList(SetPicture(list,
        [p EXCEPT !.neededForOutput = Last(p.slices).out,
                  !.reconstructed = TRUE]))

MustFinish ==
  /\ PictureEnds
  /\ ~dec.firstSliceInSequence
  /\ ~dec.loopFiltered \/ ~Eof

FinishPicture ==
  /\ phase = "finish"
  /\ IF MustFinish
     THEN listPic' = Finished(listPic)
     ELSE UNCHANGED listPic
  /\ dec' = [dec EXCEPT
       !.firstSliceInPicture = @ \/ MustFinish \/ (PictureEnds /\ dec.firstSliceInSequence),
       !.havePicList = @ \/ MustFinish,
       !.loopFiltered = IF PictureEnds /\ ~dec.firstSliceInSequence
                        THEN nalu.nut = "EOS" ELSE @,
       !.firstSliceInSequence = @ \/ (PictureEnds /\ nalu.nut = "EOS")]
  /\ phase' = "write"
  /\ UNCHANGED <<stream, pos, pilot, written>>

\* DecApp::xWriteOutput on the state, if it is called; after an end of
\* sequence the loop also clears m_bFirstSliceInPicture.
WriteIf(called) ==
  LET w == WriteOutput(listPic, dec.lastDisplay)
  IN  IF called
      THEN /\ listPic' = w.list
           /\ written' = written \o w.out
           /\ dec' = [dec EXCEPT !.lastDisplay = w.last,
                                 !.firstSliceInPicture = @ /\ nalu.nut # "EOS"]
      ELSE UNCHANGED <<listPic, written, dec>>

WriteAtNewPicture ==
  /\ phase = "write"
  /\ WriteIf(dec.havePicList /\ dec.newPicture)
  /\ phase' = "prior"
  /\ UNCHANGED <<stream, pos, pilot>>

MustDropPrior ==
  /\ dec.havePicList
  /\ dec.newPicture \/ nalu.nut = "CRA"
  /\ dec.isNoOutputPriorPics

DropPrior ==
  /\ phase = "prior"
  /\ IF MustDropPrior
     THEN /\ listPic' = DropPriorPics(listPic, dec.lastPOCNoOutputPriorPics)
          /\ dec' = [dec EXCEPT !.isNoOutputPriorPics = FALSE]
     ELSE UNCHANGED <<listPic, dec>>
  /\ phase' = "flush"
  /\ UNCHANGED <<stream, pos, pilot, written>>

\* Mutant of MustFlush: IDR pictures do not flush.
MustFlushBla == dec.havePicList /\ dec.newPicture /\ nalu.nut \in BlaTypes

\* Mutant of MustFlush: the pictures are flushed both times the slice is read.
MustFlushTwice == dec.havePicList /\ nalu.nut \in IdrTypes \cup BlaTypes

MustFlush ==
  /\ dec.havePicList
  /\ dec.newPicture
  /\ nalu.nut \in IdrTypes \cup BlaTypes

\* xFlushOutput: the pictures are destroyed and the list is empty.
Flush ==
  /\ phase = "flush"
  /\ IF MustFlush
     THEN /\ written' = written \o FlushOutput(listPic)
          /\ listPic' = <<>>
          /\ dec' = [dec EXCEPT !.lastDisplay =
                                  IF listPic = <<>> THEN @ ELSE -MaxInt]
     ELSE UNCHANGED <<listPic, written, dec>>
  /\ phase' = "bump"
  /\ UNCHANGED <<stream, pos, pilot>>

MustBump ==
  /\ dec.havePicList
  /\ ~dec.newPicture
  /\ nalu.nut \in VclTypes \cup {"EOS"}

\* The last xWriteOutput of the round, and the way to the next NAL unit.
Bump ==
  /\ phase = "bump"
  /\ WriteIf(MustBump)
  /\ pos' = IF dec.newPicture \/ Eof THEN pos ELSE pos + 1
  /\ phase' = IF Eof THEN "end" ELSE "read"
  /\ UNCHANGED <<stream, pilot>>

\* The flush after the loop.
FlushAtEnd ==
  /\ phase = "end"
  /\ written' = IF dec.havePicList THEN written \o FlushOutput(listPic) ELSE written
  /\ listPic' = IF dec.havePicList THEN <<>> ELSE listPic
  /\ phase' = "done"
  /\ UNCHANGED <<stream, pos, dec, pilot>>

-----------------------------------------------------------------------------
Stopped == phase \in {"done", "error"}

Done == Stopped /\ UNCHANGED vars

Next ==
  \/ SkipSlice \/ FindNewPicture \/ AcceptSlice
  \/ CreateLostPicture \/ StartPicture \/ ContinuePicture
  \/ DecodeEos \/ DecodePrefixSei \/ DecodeReservedVcl \/ DecodeNonVcl
  \/ FinishPicture \/ WriteAtNewPicture \/ DropPrior \/ Flush \/ Bump
  \/ FlushAtEnd
  \/ Done

Spec == Init /\ [][Next]_vars /\ WF_vars(Next)

-----------------------------------------------------------------------------
(* How an encoder codes POCs, and what a decoder derives them from.        *)

\* Does NAL unit i come before the first random access point of a sequence?
Fresh(s, i) ==
  \A j \in 1 .. i - 1 : s[j].nut \in RapTypes =>
    \E k \in j + 1 .. i - 1 : s[k].nut = "EOS"

\* Does the slice of NAL unit i start the decoding (NoRaslOutputFlag)?
StartsDecoding(s, i) ==
  \/ s[i].nut \in IdrTypes \cup BlaTypes
  \/ s[i].nut = "CRA" /\ Fresh(s, i)

\* The POC that the one of NAL unit i is coded against.
IsAnchor(n) ==
  n.nut \in SliceTypes \ LeadTypes /\ n.tid = 0 /\ IsReferenceNalu(n.nut)

LastAnchor(s, i) ==
  {j \in 1 .. i - 1 : IsAnchor(s[j]) /\ \A k \in j + 1 .. i - 1 : ~IsAnchor(s[k])}

AnchorPoc(s, i) ==
  IF LastAnchor(s, i) = {} THEN {0} ELSE {s[j].poc : j \in LastAnchor(s, i)}

\* POCs are coded as the standard demands it: from zero at an IDR picture, in
\* full where the decoding starts, and else by their low bits, less than half
\* of the range of these bits away from the last picture of temporal layer 0.
WellCoded(s) ==
  \A i \in DOMAIN s : s[i].nut \in SliceTypes =>
    /\ s[i].poc < MaxInt
    /\ s[i].nut \in IdrTypes => s[i].poc = 0
    /\ StartsDecoding(s, i) /\ s[i].nut \notin IdrTypes => s[i].poc = s[i].lsb
    /\ ~StartsDecoding(s, i) =>
         /\ s[i].lsb = s[i].poc % MaxPocLsb
         /\ \A poc \in AnchorPoc(s, i) :
              /\ s[i].poc - poc <= MaxPocLsb \div 2
              /\ poc - s[i].poc < MaxPocLsb \div 2

\* The last slice before NAL unit i, if it is of the same sequence.
LastSlice(s, i) ==
  {j \in 1 .. i - 1 :
     /\ s[j].nut \in SliceTypes
     /\ \A k \in j + 1 .. i - 1 : s[k].nut \notin SliceTypes \cup {"EOS"}}

\* The first random access point of the sequence that NAL unit i is part of.
FirstRap(s, i) ==
  {j \in 1 .. i - 1 :
     /\ s[j].nut \in RapTypes /\ Fresh(s, j)
     /\ \A k \in j + 1 .. i - 1 : s[k].nut # "EOS"}

\* Bitstreams of whole pictures: a slice that is not the first of its picture
\* follows one of the same picture.  From a random access point that starts the
\* decoding on, but for an IDR picture, only RASL pictures go back behind its POC.
InPictures(s) ==
  \A i \in DOMAIN s : s[i].nut \in SliceTypes =>
    /\ ~s[i].first =>
         \E j \in LastSlice(s, i) :
           s[j].frame = s[i].frame /\ s[j].nut = s[i].nut /\ s[j].poc = s[i].poc
    /\ s[i].nut \notin RaslTypes =>
         \A j \in FirstRap(s, i) : s[j].nut \notin IdrTypes => s[i].poc >= s[j].poc
    /\ s[i].poc >= -MaxInt

\* Bitstreams whose sequences begin with an IDR or a BLA picture, but for the
\* first, and whose references are pictures of their own sequence: the decoder
\* knows them by their POCs, and empties its list before such a picture only.
InSequences(s) ==
  \A i, j \in {k \in DOMAIN s : s[k].nut \in SliceTypes} :
    IF s[i].cvs = s[j].cvs
    THEN \A r \in DOMAIN s[i].refs :
           s[i].refs[r].used /\ s[j].poc = s[i].poc + s[i].refs[r].delta
             => s[j].frame = s[i].refs[r].frame
    ELSE j < i => \E k \in j + 1 .. i :
                    s[k].first /\ s[k].nut \in IdrTypes \cup BlaTypes

\* No reference is reported lost.
NoneLost == ~(phase = "decode" /\ LostReported)

-----------------------------------------------------------------------------
(* Properties.                                                             *)

Phases == {"read", "decode", "finish", "write", "prior", "flush", "bump",
           "end", "done", "error"}

\* Types of the state of the loop.
TypeOK ==
  /\ stream \in Streams
  /\ pos \in 1 .. Len(stream)
  /\ phase \in Phases
  /\ dec.associatedIRAPType \in RapTypes \cup {"INVALID"}
  /\ dec.prefixSEI \subseteq 1 .. Len(stream)
  /\ dec.pic \in 0 .. dec.made
  /\ \A k \in DOMAIN listPic : listPic[k].id \in 1 .. dec.made
  /\ \A i \in DOMAIN written : written[i].frame \in Nat

\* No CHECK fails and no undefined behaviour is met, and no picture is made up
\* for a lost reference: the decoder gets through the bitstream.
NoError == phase # "error" /\ NoneLost

\* m_pcPic is a picture of the list whenever the code goes through it: when
\* a slice takes over the header of the one before, for another slice, and
\* when the picture is finished (DecLib.cpp:940, 862, 587).
PictureOpen ==
  \/ phase = "read" /\ nalu.nut \in SliceTypes /\ ~dec.firstSliceInPicture
  \/ phase = "decode" /\ ~dec.firstSliceInPicture
  \/ phase = "finish" /\ MustFinish
  => HasPicture(listPic, dec.pic)

\* The POC derived for a slice is the one it was coded with, both times it
\* is read, although reading it moves prevTid0POC (DecLib.cpp:993, 1052).
PocRight ==
  phase \in {"decode", "finish"} /\ nalu.nut \in SliceTypes => pilot.poc = nalu.poc

\* Every reference that a slice in the buffer was decoded with is the coded
\* picture that the encoder referred to (setRefPicList, xGetRefPic).
RefsRight ==
  \A k \in DOMAIN listPic : \A j \in DOMAIN listPic[k].slices :
    LET s == listPic[k].slices[j]
    IN  \A i \in DOMAIN s.found : s.found[i] = s.refs[i].frame

\* So it is where the POC tells the pictures apart and each picture is found
\* (DecLib.cpp:1084).  Elsewhere a picture of the sequence before may be taken:
\* xGetRefPic compares POCs alone (Slice.cpp:302).
RefsRightInSequences ==
  InPictures(stream) /\ InSequences(stream) => RefsRight

\* A picture is made of the slices of one coded picture, from its first on
\* (DecLib.cpp:1084, "leave when a new picture is found").
WholePictures ==
  \A k \in DOMAIN listPic : \A j \in DOMAIN listPic[k].slices :
    /\ listPic[k].slices[j].frame = listPic[k].slices[1].frame
    /\ listPic[k].slices[j].first <=> j = 1

\* Between two NAL units no more pictures wait for their output than the
\* sequence allows (DecApp.cpp:249, the bumping of C.5.2.3).
BumpedEnough ==
  phase = "read" =>
    Cardinality({k \in DOMAIN listPic : listPic[k].neededForOutput})
      <= NumReorderPics

\* The list of pictures grows at most one over its size: the buffer for a
\* picture is chosen before the pictures it does not need are released.
BufferBound == Len(listPic) <= MaxDecPicBuffering + 1

\* The frames that are to be shown: all but RASL pictures whose random
\* access point starts the decoding or is a BLA picture, and pictures that
\* are not for output.
StartsIn(s, i) ==
  \/ s[i].nut \in BlaTypes
  \/ /\ s[i].nut = "CRA"
     /\ \A j \in 1 .. i - 1 :
          s[j].nut \in SliceTypes /\ s[j].cvs = s[i].cvs => s[j].frame = s[i].frame

StartsSequence(i) == StartsIn(stream, i)

LastRap(i) ==
  CHOOSE j \in 1 .. i : /\ stream[j].nut \in RapTypes
                        /\ \A m \in j + 1 .. i : stream[m].nut \notin RapTypes

ToShow ==
  {stream[i].frame : i \in {j \in DOMAIN stream :
     /\ stream[j].nut \in SliceTypes
     /\ stream[j].out
     /\ stream[j].nut \in RaslTypes => ~StartsSequence(LastRap(j))}}

\* The frames that a later random access point allows to drop.
MayDrop ==
  {stream[j].frame : j \in {m \in DOMAIN stream :
     \E i \in m + 1 .. Len(stream) :
       /\ stream[i].nut \in RapTypes
       /\ stream[m].cvs < stream[i].cvs
       /\ stream[i].noPrior \/ (stream[i].nut = "CRA" /\ StartsSequence(i))}}

\* When the loop is over, the pictures shown are those to be shown, each of
\* them once, but for those that may have been dropped.
AllWritten ==
  phase = "done" =>
    LET frames == {written[i].frame : i \in DOMAIN written}
    IN  /\ frames \subseteq ToShow
        /\ ToShow \ MayDrop \subseteq frames
        /\ Len(written) = Cardinality(frames)

\* So it is where each picture is found (DecLib.cpp:1084); a picture whose slice
\* goes into the one before is not shown.
AllWrittenInPictures == InPictures(stream) => AllWritten

\* The loop comes to its end: going back to read a slice again does not go
\* on for ever (DecApp.cpp:163).
Terminates == <>Stopped

\* The file and the pictures that wait are the abstract output order.
Order == INSTANCE OutputOrder WITH
  waiting <- {Item(listPic[k]) : k \in {j \in DOMAIN listPic :
                                          listPic[j].neededForOutput}},
  shown <- written

ImplementsOutputOrder == Order!Spec
=============================================================================
