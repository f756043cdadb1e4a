----------------------------- MODULE PictureList -----------------------------
(***************************************************************************)
(* The operations on the decoded picture buffer, m_cListPic of DecLib: a   *)
(* list of pictures kept in ascending order of POC.  They are the helpers  *)
(* of Slice.cpp that mark, find and sort pictures, the choice of a buffer  *)
(* for a new picture, and the bumping of DecApp::xWriteOutput.             *)
(***************************************************************************)
EXTENDS Integers, Sequences, SequencesExt, FiniteSets

CONSTANTS MaxDecPicBuffering,  \* sps.getMaxDecPicBuffering of the sub-layers
          NumReorderPics       \* sps.getNumReorderPics of the highest one

ASSUME PictureListAssumption ==
  /\ MaxDecPicBuffering \in Nat \ {0}
  /\ NumReorderPics \in 0 .. MaxDecPicBuffering - 1

\* The NAL unit types the decoder tells apart.
IdrTypes  == {"IDR_W_RADL", "IDR_N_LP"}
BlaTypes  == {"BLA_W_LP", "BLA_W_RADL", "BLA_N_LP"}
RapTypes  == IdrTypes \cup BlaTypes \cup {"CRA"}
RaslTypes == {"RASL_N", "RASL_R"}
RadlTypes == {"RADL_N", "RADL_R"}
LeadTypes == RaslTypes \cup RadlTypes
TsaTypes  == {"TSA_N", "TSA_R"}
SliceTypes == RapTypes \cup LeadTypes \cup TsaTypes
                \cup {"TRAIL_N", "TRAIL_R", "STSA_N", "STSA_R"}
VclTypes  == SliceTypes \cup {"RESERVED_VCL"}
NalTypes  == VclTypes \cup {"EOS", "PREFIX_SEI", "NON_VCL"}

NonReference(t) ==
  t \in {"RASL_N", "RADL_N", "TRAIL_N", "TSA_N", "STSA_N"}
IsReferenceNalu(t) == t \in SliceTypes /\ ~NonReference(t)

\* A reference in the reference picture set of a slice.
Refs == [delta : Int, used : BOOLEAN, frame : Nat]

\* A picture as the constructor and create() leave it.  The constructor sets
\* no poc: it is written before it is read.
NewPicture(id) ==
  [id |-> id, poc |-> 0, layer |-> 0, referenced |-> FALSE,
   usedByCurr |-> FALSE, reconstructed |-> FALSE, neededForOutput |-> FALSE,
   slices |-> <<>>]

\* What a picture shows: the coded picture, and where it is in output order.
Item(p) == [cvs |-> p.slices[1].cvs, poc |-> p.poc, frame |-> p.slices[1].frame]

IndexOf(list, id) == SelectInSeq(list, LAMBDA p : p.id = id)
HasPicture(list, id) == IndexOf(list, id) # 0
PictureOf(list, id) == list[IndexOf(list, id)]
SetPicture(list, p) == ReplaceAt(list, IndexOf(list, p.id), p)

-----------------------------------------------------------------------------

\* Mutant of Reusable: a picture that waits for its output is taken.
ReusableUnshown(p) == p.reconstructed => ~p.referenced

\* Mutant of Reusable: a picture that is still referenced is taken.
ReusableReferenced(p) == ~p.neededForOutput

\* May the picture's buffer be taken for another picture?
Reusable(p) ==
  /\ ~p.neededForOutput
  /\ p.reconstructed => ~p.referenced

\* xGetNewPicBuffer: the list and the picture it gives out; fresh is the
\* identity of a Picture that is newly allocated.
GetNewPicBuffer(list, fresh) ==
  LET k == IF Len(list) < MaxDecPicBuffering
           THEN 0 ELSE SelectInSeq(list, Reusable)
  IN  IF k = 0
      THEN [list |-> Append(list, NewPicture(fresh)), id |-> fresh]
      ELSE [list |-> [list EXCEPT ![k].reconstructed = FALSE],
            id |-> list[k].id]

-----------------------------------------------------------------------------
\* sortPicList: insertion before the first picture that is not smaller.
InsertPicture(sorted, p) ==
  LET k == SelectInSeq(sorted, LAMBDA q : q.poc >= p.poc)
  IN  IF k = 0 THEN Append(sorted, p) ELSE InsertAt(sorted, k, p)

\* Mutant of SortPicList: the list stays in decoding order.
SortNothing(list) == list

SortPicList(list) == FoldLeft(InsertPicture, <<>>, list)

\* xGetRefPic: the first picture with that POC; 0 where the code runs past
\* the end of the list.
GetRefPic(list, poc) == SelectInSeq(list, LAMBDA p : p.poc = poc)

RefPocs(s) == {s.poc + s.refs[i].delta : i \in DOMAIN s.refs}
UsedPocs(s) ==
  {s.poc + s.refs[i].delta : i \in {j \in DOMAIN s.refs : s.refs[j].used}}

\* checkThatAllRefPicsAreAvailable: the indices of the short-term references
\* that are lost; the code reports the last one.
LostRefs(list, s, pocRandomAccess) ==
  {i \in DOMAIN s.refs :
     LET poc == s.poc + s.refs[i].delta
     IN  /\ s.refs[i].used
         /\ poc >= pocRandomAccess
         /\ \A k \in DOMAIN list : ~(list[k].referenced /\ list[k].poc = poc)}

\* Mutant of ApplyRps: only the references of the current picture are kept.
ApplyRpsUsedOnly(list, s) ==
  [k \in DOMAIN list |->
     [list[k] EXCEPT !.referenced = @ /\ list[k].poc \in UsedPocs(s)]]

\* Mutant of ApplyRps: no picture is ever released.
ApplyRpsKeepAll(list, s) ==
  [k \in DOMAIN list |->
     [list[k] EXCEPT !.usedByCurr = list[k].poc \in UsedPocs(s)]]

\* applyReferencePictureSet without its checks.
ApplyRps(list, s) ==
  [k \in DOMAIN list |->
     LET p == list[k] IN
     IF ~p.referenced THEN p
     ELSE IF p.poc \in RefPocs(s)
          THEN [p EXCEPT !.usedByCurr = p.poc \in UsedPocs(s)]
          ELSE IF p.poc = s.poc THEN p
          ELSE [p EXCEPT !.referenced = FALSE, !.usedByCurr = FALSE]]

\* The sanity checks of applyReferencePictureSet on what ApplyRps left.
RpsRejected(list, s) ==
  \E k \in DOMAIN list :
    LET p == list[k] IN
    /\ p.referenced
    /\ \/ p.usedByCurr /\ p.layer > s.tid
       \/ s.nut \in TsaTypes /\ p.layer >= s.tid
       \/ /\ p.usedByCurr /\ p.layer = s.tid /\ p.poc # s.poc
          /\ p.slices[1].nonRef

\* The CHECKs of checkLeadingPictureRestrictions on the picture alone.
LeadingTypeRejected(s) ==
  \/ s.irapPoc > s.poc /\ s.nut \notin LeadTypes \cup RapTypes
  \/ s.irapPoc < s.poc /\ s.nut \in LeadTypes
  \/ s.nut \in RaslTypes /\ s.irapType \in IdrTypes \cup {"BLA_W_RADL", "BLA_N_LP"}
  \/ s.nut \in RadlTypes /\ s.irapType \in {"BLA_N_LP", "IDR_N_LP"}

\* And those on a reconstructed picture p of the list with another POC.
LeadingRejectedBy(s, p) ==
  LET f == p.slices[1] IN
  \/ f.out /\ ~s.noOutputPriorPics /\ s.nut \in RapTypes /\ p.poc >= s.poc
  \/ /\ f.out
     /\ s.nut \in RadlTypes
     /\ s.irapPoc > f.irapPoc
     /\ s.irapPoc # p.poc
     /\ p.poc >= s.poc
  \/ s.nut \in LeadTypes /\ f.irapPoc = s.irapPoc /\ p.poc > s.irapPoc
  \/ /\ s.nut \in RaslTypes
     /\ s.irapType \in BlaTypes \cup {"CRA"}
     /\ f.irapPoc = s.irapPoc
     /\ f.nut \in RadlTypes
     /\ p.poc <= s.poc
  \/ /\ s.nut \in RaslTypes
     /\ s.irapType = "CRA"
     /\ f.poc < s.irapPoc
     /\ f.nut \in RapTypes
     /\ s.poc <= f.poc

LeadingRejected(list, s) ==
  \/ LeadingTypeRejected(s)
  \/ \E k \in DOMAIN list : /\ list[k].reconstructed
                            /\ list[k].poc # s.poc
                            /\ LeadingRejectedBy(s, list[k])

-----------------------------------------------------------------------------
\* DecApp::xWriteOutput (frame coding).  The result has the list, the POC
\* last displayed and the pictures written, in order.
Waiting(list, lastDisplay) ==
  {k \in DOMAIN list : list[k].neededForOutput /\ list[k].poc > lastDisplay}

\* Mutant of Shown: the picture stays in line for its output.
ShownAgain(p) == [p EXCEPT !.reconstructed = p.reconstructed /\ p.referenced]

Shown(p) ==
  [p EXCEPT !.neededForOutput = FALSE,
            !.reconstructed = p.reconstructed /\ p.referenced]

\* Mutant of TooFull: one picture too many is kept back.
TooFullLate(num, full) == num > NumReorderPics + 1 \/ full > MaxDecPicBuffering

TooFull(num, full) == num > NumReorderPics \/ full > MaxDecPicBuffering

WriteOne(acc, p) ==
  IF /\ p.neededForOutput
     /\ p.poc > acc.last
     /\ TooFull(acc.num, acc.full)
  THEN [num  |-> acc.num - 1,
        full |-> IF p.referenced THEN acc.full ELSE acc.full - 1,
        last |-> p.poc,
        list |-> Append(acc.list, Shown(p)),
        out  |-> Append(acc.out, Item(p))]
  ELSE [acc EXCEPT !.list = Append(@, p)]

WriteOutput(list, lastDisplay) ==
  LET waiting == Waiting(list, lastDisplay)
      held    == {k \in DOMAIN list : list[k].referenced} \cup waiting
  IN  FoldLeft(WriteOne,
               [num |-> Cardinality(waiting), full |-> Cardinality(held),
                last |-> lastDisplay, list |-> <<>>, out |-> <<>>],
               list)

\* DecApp::xFlushOutput: every picture still needed is written, in the order
\* of the list.
FlushOne(out, p) == IF p.neededForOutput THEN Append(out, Item(p)) ELSE out

FlushOutput(list) == FoldLeft(FlushOne, <<>>, list)

\* DecLib::checkNoOutputPriorPics.
DropPriorPics(list, keepPoc) ==
  [k \in DOMAIN list |->
     [list[k] EXCEPT !.neededForOutput = @ /\ list[k].poc = keepPoc]]
=============================================================================
