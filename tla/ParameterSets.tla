---------------------------- MODULE ParameterSets ----------------------------
(***************************************************************************)
(* The life of the parameter sets in the decoder: ParameterSetManager      *)
(* (CommonLib/Slice.h, Slice.cpp) owns them, xActivateParameterSets        *)
(* (DecoderLib/DecLib.cpp) picks the ones a picture is decoded with, and   *)
(* the pictures of the list keep pointers to them in their CodingStructure *)
(* (CommonLib/Picture.cpp).                                                *)
(*                                                                         *)
(* The bitstream is the environment.  A picture is held from the end of    *)
(* its decoding until it has been output and is not a reference any more   *)
(* (module Decoder says when); here that moment is arbitrary.              *)
(***************************************************************************)
EXTENDS ParameterSetMap, FiniteSets

CONSTANTS
  SpsIds, PpsIds,      \* ids of parameter sets
  SpsNals,             \* SPS NAL units, [id, size, tools]
  PpsNals,             \* PPS NAL units, [id, sps, qp]
  MaxMade,             \* bound: parameter sets of a kind in the bitstream
  MaxPictures,         \* bound: pictures of the bitstream
  MaxUpdates,          \* between two pictures, a changed set is sent so often
  SpsChangeAt,         \* kinds of pictures that may follow a changed SPS
  PpsChangeAt,         \* kinds of pictures that may follow a changed PPS
  PpsFollowsSps,       \* a PPS in use changes when its SPS has changed
  MaxDecPicBuffering   \* of every SPS

Kinds == {"IDR", "CRA", "TRAIL"}

ASSUME ParameterSetsAssumption ==
  /\ SpsIds \subseteq Nat /\ PpsIds \subseteq Nat
  /\ SpsNals # {} /\ PpsNals # {}
  /\ \A d \in SpsNals : d.id \in SpsIds /\ d.size \in Nat \ {0}
  /\ \A d \in PpsNals : d.id \in PpsIds /\ d.sps \in SpsIds
  /\ MaxMade \in Nat \ {0} /\ MaxPictures \in Nat \ {0}
  /\ MaxUpdates \in Nat /\ MaxDecPicBuffering \in Nat \ {0}
  /\ SpsChangeAt \subseteq Kinds /\ PpsChangeAt \subseteq Kinds
  /\ PpsFollowsSps \in BOOLEAN

VARIABLES
  spsMap, ppsMap,  \* m_spsMap, m_ppsMap
  activeSpsId,     \* m_activeSPSId
  pcv,             \* PPS::pcv of each PPS object: the size it was made for
  pics,            \* the pictures; a slot without one is NoPic
  open,            \* m_pcPic, from its first slice until it is finished
  next,            \* the slice that ended the picture before, to be read again
  status,          \* "run", or how the decoder stopped
  sent             \* history of the bitstream

vars == <<spsMap, ppsMap, activeSpsId, pcv, pics, open, next, status, sent>>
maps == <<spsMap, ppsMap, activeSpsId, pcv>>

NoSize == 0
NoPicture == 0
Pictures == 1 .. MaxPictures

\* A slot without a picture, and a new Picture: its CodingStructure does not
\* exist before finalInit.
NoPic == [state |-> "none", size |-> NoSize, sps |-> Null, pps |-> Null]
NewPic(size) == [NoPic EXCEPT !.state = "free", !.size = size]

Init ==
  /\ spsMap = EmptyMap(SpsIds, MaxMade, CHOOSE d \in SpsNals : TRUE)
  /\ ppsMap = EmptyMap(PpsIds, MaxMade, CHOOSE d \in PpsNals : TRUE)
  /\ activeSpsId = NoId
  /\ pcv = [o \in 1 .. MaxMade |-> NoSize]
  /\ pics = [b \in Pictures |-> NoPic]
  /\ open = NoPicture
  /\ next = {}
  /\ status = "run"
  /\ sent = [sps |-> [i \in SpsIds |-> {}], pps |-> [i \in PpsIds |-> {}],
             spsUpdates |-> [i \in SpsIds |-> 0],
             ppsUpdates |-> [i \in PpsIds |-> 0],
             old |-> {}, pictures |-> 0, slice |-> {}]

-----------------------------------------------------------------------------
(* Parameter sets may come at any place of the bitstream.                  *)

Reading == status = "run" /\ next = {}

\* xDecodeSPS.  The PPSs sent for an SPS that changes become old.
DecodeSPS(d) ==
  LET changes == sent.sps[d.id] \notin {{}, {d}}
      counts == changes \/ sent.spsUpdates[d.id] > 0
  IN  /\ Reading
      /\ spsMap.made < MaxMade
      /\ counts => sent.spsUpdates[d.id] < MaxUpdates
      /\ spsMap' = StorePS(spsMap, d.id, d)
      /\ sent' = [sent EXCEPT
           !.sps[d.id] = {d},
           !.spsUpdates[d.id] = IF counts THEN @ + 1 ELSE @,
           !.old = IF changes
                   THEN @ \cup {i \in PpsIds : \E q \in sent.pps[i] : q.sps = d.id}
                   ELSE @]
      /\ UNCHANGED <<ppsMap, activeSpsId, pcv, pics, open, next, status>>

\* xDecodePPS: the pcv of a new PPS is NULL.
DecodePPS(d) ==
  LET changes == sent.pps[d.id] \notin {{}, {d}}
      counts == changes \/ sent.ppsUpdates[d.id] > 0
  IN  /\ Reading
      /\ ppsMap.made < MaxMade
      /\ counts => sent.ppsUpdates[d.id] < MaxUpdates
      /\ ppsMap' = StorePS(ppsMap, d.id, d)
      /\ sent' = [sent EXCEPT
           !.pps[d.id] = {d},
           !.ppsUpdates[d.id] = IF counts THEN @ + 1 ELSE @,
           !.old = IF changes THEN @ \ {d.id} ELSE @]
      /\ UNCHANGED <<spsMap, activeSpsId, pcv, pics, open, next, status>>

-----------------------------------------------------------------------------
(* The end of a picture.                                                   *)

SpsAlive(b) == pics[b].sps \in spsMap.live
PpsAlive(b) == pics[b].pps \in ppsMap.live

InList == {b \in Pictures : pics[b].state # "none"}

\* executeLoopFilters and finishPicture go through cs->sps, cs->pps and
\* cs->pcv of the open picture.
MayFinish == open # NoPicture => SpsAlive(open) /\ PpsAlive(open)

\* Mutant of FinishedPics: the picture stays open.
FinishedPicsNever == pics

FinishedPics ==
  IF open = NoPicture THEN pics ELSE [pics EXCEPT ![open].state = "held"]

\* xFlushOutput: each picture waiting is cropped by its SPS, and all pictures
\* are destroyed.
MayFlush == \A b \in InList : pics[b].state \in {"held", "open"} => SpsAlive(b)

FlushedPics == [b \in Pictures |-> NoPic]

Fault == status' = "fault" /\ UNCHANGED <<maps, pics, open, next, sent>>

\* What the bitstream may do: a picture has a place in a sequence, and the
\* sets change only where the constants allow it.
StreamAllows(kind, d, e) ==
  /\ sent.pictures < MaxPictures
  /\ kind = "TRAIL" => open # NoPicture
  /\ \A h \in sent.slice : e # h.sps =>
       \/ kind = "IDR" /\ kind \in SpsChangeAt
       \/ kind = "CRA" /\ kind \in SpsChangeAt /\ open = NoPicture
       \/ kind = "TRAIL" /\ e.id # h.sps.id
  /\ (\E i \in PpsIds : sent.ppsUpdates[i] > 0) => kind \in PpsChangeAt
  /\ PpsFollowsSps => d.id \notin sent.old

\* parseSliceHeader finds both sets, the slice begins a new picture, and the
\* open picture is finished; the pictures are flushed before an IDR picture.
FindNewPicture(kind, i) ==
  /\ Reading
  /\ \E d \in sent.pps[i] : \E e \in sent.sps[d.sps] : StreamAllows(kind, d, e)
  /\ IF MayFinish /\ (kind = "IDR" => MayFlush)
     THEN /\ next' = {[kind |-> kind, pps |-> i]}
          /\ pics' = IF kind = "IDR" THEN FlushedPics ELSE FinishedPics
          /\ open' = NoPicture
          /\ UNCHANGED <<maps, status, sent>>
     ELSE Fault

\* Neither parses without its PPS and its SPS: "Invalid PPS", "Invalid SPS".
RejectSlice(i) ==
  /\ Reading
  /\ Present(ppsMap, i) => ~Present(spsMap, GetPS(ppsMap, i).sps)
  /\ status' = "missing"
  /\ UNCHANGED <<maps, pics, open, next, sent>>

EndSequence ==
  /\ Reading
  /\ open # NoPicture
  /\ IF MayFinish
     THEN /\ pics' = FinishedPics
          /\ open' = NoPicture
          /\ UNCHANGED <<maps, next, status, sent>>
     ELSE Fault

EndOfFile ==
  /\ Reading
  /\ IF MayFinish /\ MayFlush
     THEN /\ pics' = FlushedPics
          /\ open' = NoPicture
          /\ status' = "done"
          /\ UNCHANGED <<maps, next, sent>>
     ELSE Fault

\* xWriteOutput takes the sizes of the buffer from the SPS of the front of
\* the list and crops the picture written by its own.
ReleasePicture(b) ==
  /\ Reading
  /\ pics[b].state = "held"
  /\ \E front \in InList :
       IF SpsAlive(front) /\ SpsAlive(b)
       THEN /\ pics' = [pics EXCEPT ![b].state = "free"]
            /\ UNCHANGED <<maps, open, next, status, sent>>
       ELSE Fault

-----------------------------------------------------------------------------
(* xActivateParameterSets.                                                 *)

\* Mutant of WithPcv: the SPS is the one that was active before.
WithPcvOfActive(o, size) ==
  [pcv EXCEPT ![o] = IF @ # NoSize THEN @
                     ELSE IF activeSpsId = NoId THEN size
                     ELSE GetPS(spsMap, activeSpsId).size]

\* DecLib.cpp:740: computed once in the life of a PPS object.
WithPcv(o, size) == [pcv EXCEPT ![o] = IF @ = NoSize THEN size ELSE @]

\* Picture::finalInit: a CodingStructure that exists keeps its SPS.
FinalInit(p, sps, pps) ==
  [p EXCEPT !.state = "open", !.sps = IF @ = Null THEN sps ELSE @, !.pps = pps]

\* xGetNewPicBuffer: the pictures that may be taken over, and the places for
\* a new one.
FreePics == {b \in Pictures : pics[b].state = "free"}

UseNewPicture == Cardinality(InList) < MaxDecPicBuffering \/ FreePics = {}

NewSlots == {b \in Pictures : /\ pics[b].state = "none"
                              /\ \A c \in 1 .. b - 1 : pics[c].state # "none"}

\* activatePPS for the slice: only an IRAP picture changes the active SPS.
Activates(slice, spsId) == slice.kind # "TRAIL" \/ spsId = activeSpsId

\* Mutant of ClearFlags: the changed flags are not cleared.
ClearFlagsNever(i, s) == <<SetActive(spsMap, s), SetActive(ppsMap, i)>>

\* The maps with the changed flags cleared and the sets active.
ClearFlags(i, s) ==
  <<SetActive(ClearChanged(spsMap, s), s), SetActive(ClearChanged(ppsMap, i), i)>>

\* The picture p, taken over or new, is initialised with the active sets.
TakePicture(b, p, slice) ==
  LET i == slice.pps
      s == GetPS(ppsMap, i).sps
      m == ClearFlags(i, s)
  IN  /\ spsMap' = m[1]
      /\ ppsMap' = m[2]
      /\ activeSpsId' = s
      /\ pcv' = WithPcv(ppsMap.ps[i], GetPS(spsMap, s).size)
      /\ pics' = [pics EXCEPT ![b] = FinalInit(p, spsMap.ps[s], ppsMap.ps[i])]
      /\ open' = b
      /\ next' = {}
      /\ sent' = [sent EXCEPT
           !.spsUpdates = [k \in SpsIds |-> 0],
           !.ppsUpdates = [k \in PpsIds |-> 0],
           !.pictures = @ + 1,
           !.slice = {[sps |-> e, pps |-> d] : e \in sent.sps[s], d \in sent.pps[i]}]
      /\ UNCHANGED status

StartInNewPicture(b) ==
  \E slice \in next :
    LET s == GetPS(ppsMap, slice.pps).sps
    IN  /\ status = "run"
        /\ Activates(slice, s)
        /\ UseNewPicture
        /\ b \in NewSlots
        /\ TakePicture(b, NewPic(GetPS(spsMap, s).size), slice)

\* The picture taken over is compared with the SPS by way of its pcv, which
\* is part of the PPS it was decoded with, and made again if it differs.
StartInOldPicture(b) ==
  \E slice \in next :
    LET s == GetPS(ppsMap, slice.pps).sps
        size == GetPS(spsMap, s).size
        now == WithPcv(ppsMap.ps[slice.pps], size)
        fits == pics[b].size = size /\ now[pics[b].pps] = size
    IN  /\ status = "run"
        /\ Activates(slice, s)
        /\ ~UseNewPicture
        /\ b \in FreePics
        /\ IF PpsAlive(b)
           THEN TakePicture(b, IF fits THEN pics[b] ELSE NewPic(size), slice)
           ELSE Fault

\* "Parameter set activation failed!"
RejectActivation ==
  \E slice \in next :
    LET i == slice.pps
        s == GetPS(ppsMap, i).sps
    IN  /\ status = "run"
        /\ ~Activates(slice, s)
        /\ spsMap' = ClearChanged(spsMap, s)
        /\ ppsMap' = ClearChanged(ppsMap, i)
        /\ pcv' = WithPcv(ppsMap.ps[i], GetPS(spsMap, s).size)
        /\ activeSpsId' = NoId
        /\ status' = "inactive"
        /\ UNCHANGED <<pics, open, next, sent>>

\* Mutant of SetsChanged: only the PPS is looked at.
SetsChangedPps(p) == ppsMap.changed[ppsMap.data[p.pps].id]

\* "a new SPS (PPS) has been decoded while processing a picture"
SetsChanged(p) ==
  \/ spsMap.changed[spsMap.data[p.sps].id]
  \/ ppsMap.changed[ppsMap.data[p.pps].id]

\* Another slice of the open picture: its header is parsed with the sets of
\* the map, and it is decoded with those of the picture.
ContinuePicture ==
  /\ Reading
  /\ open # NoPicture
  /\ IF ~MayFinish THEN Fault
     ELSE /\ status' = IF SetsChanged(pics[open]) THEN "changed" ELSE status
          /\ sent' = IF SetsChanged(pics[open]) THEN sent ELSE
               [sent EXCEPT !.slice =
                  UNION {{[sps |-> e, pps |-> d] : e \in sent.sps[d.sps]} :
                         d \in UNION {sent.pps[h.pps.id] : h \in sent.slice}}]
          /\ UNCHANGED <<maps, pics, open, next>>

-----------------------------------------------------------------------------
Done == status # "run" /\ UNCHANGED vars

Next ==
  \/ \E d \in SpsNals : DecodeSPS(d)
  \/ \E d \in PpsNals : DecodePPS(d)
  \/ \E kind \in Kinds, i \in PpsIds : FindNewPicture(kind, i)
  \/ \E i \in PpsIds : RejectSlice(i)
  \/ \E b \in Pictures :
       ReleasePicture(b) \/ StartInOldPicture(b) \/ StartInNewPicture(b)
  \/ RejectActivation
  \/ ContinuePicture
  \/ EndSequence
  \/ EndOfFile
  \/ Done

Spec == Init /\ [][Next]_vars

-----------------------------------------------------------------------------
(* Properties.                                                             *)

PicStates == {"none", "held", "free", "open"}

Pics == [state : PicStates, size : Nat, sps : 0 .. MaxMade, pps : 0 .. MaxMade]

Sent == [sps : [SpsIds -> SUBSET SpsNals], pps : [PpsIds -> SUBSET PpsNals],
         spsUpdates : [SpsIds -> Nat], ppsUpdates : [PpsIds -> Nat],
         old : SUBSET PpsIds, pictures : Nat,
         slice : SUBSET [sps : SpsNals, pps : PpsNals]]

\* Types of the variables; one picture is being decoded at a time.
TypeOK ==
  /\ spsMap \in Maps(SpsIds, MaxMade, SpsNals)
  /\ ppsMap \in Maps(PpsIds, MaxMade, PpsNals)
  /\ activeSpsId \in SpsIds \cup {NoId}
  /\ pcv \in [1 .. MaxMade -> Nat]
  /\ pics \in [Pictures -> Pics]
  /\ open \in Pictures \cup {NoPicture}
  /\ {b \in Pictures : pics[b].state = "open"} = {open} \ {NoPicture}
  /\ next \in SUBSET [kind : Kinds, pps : PpsIds]
  /\ status \in {"run", "done", "missing", "inactive", "changed", "fault"}
  /\ sent \in Sent

\* The manager owns every parameter set exactly once (Slice.h:2295, "store
\* sequence parameter set and take ownership of it").
Owned == OwnedOnce(spsMap) /\ OwnedOnce(ppsMap)

\* For every id the maps hold the contents last sent, and nothing where
\* nothing was sent: no set is lost and none is out of date (Slice.h:2183).
Latest ==
  /\ \A i \in SpsIds : sent.sps[i] = IF Present(spsMap, i) THEN {GetPS(spsMap, i)} ELSE {}
  /\ \A i \in PpsIds : sent.pps[i] = IF Present(ppsMap, i) THEN {GetPS(ppsMap, i)} ELSE {}

\* A slice that waits to be read again finds its sets, and no picture is
\* open.
Waits ==
  \A slice \in next :
    /\ open = NoPicture
    /\ Present(ppsMap, slice.pps)
    /\ Present(spsMap, GetPS(ppsMap, slice.pps).sps)

\* No parameter set is read by way of a picture after the manager has
\* deleted it (Slice.h:2200 keeps the active one for the open picture).
NoFault == status # "fault"

\* The slices of the open picture are decoded with the sets their headers
\* name, in the version that was last sent before them (DecLib.cpp:760,
\* "give us a SPS and PPS pointer that we can use", 881).
SlicesRight ==
  open # NoPicture => \A h \in sent.slice :
    /\ spsMap.data[pics[open].sps] = h.sps
    /\ ppsMap.data[pics[open].pps] = h.pps

\* The precalculated values of the open picture are those of its SPS
\* (DecLib.cpp:740, 788).
PcvRight ==
  open # NoPicture => pcv[pics[open].pps] = spsMap.data[pics[open].sps].size

\* The decoder gives up between two slices of a picture only if one of its
\* sets really was sent with other contents (DecLib.cpp:881).
ExitJustified ==
  status = "changed" => \E h \in sent.slice :
    \/ sent.sps[h.sps.id] # {h.sps}
    \/ sent.pps[h.pps.id] # {h.pps}
=============================================================================
