--------------------------- MODULE EncoderPictures ---------------------------
(***************************************************************************)
(* The encoder's pictures, from the frames of the application to the NAL   *)
(* units: the checks that complete a GOP structure, the order in which     *)
(* EncGOP::compressGOP codes the pictures of a GOP, their NAL unit types,  *)
(* reference picture sets and temporal layers, and the picture list.       *)
(*                                                                         *)
(* Frames are coded, not fields; composite references, current picture     *)
(* referencing and recovery points are off.  What happens inside a picture *)
(* is left out: a coded picture is the number of the order it was coded in.*)
(***************************************************************************)
EXTENDS PictureList

CONSTANTS MaxPocLsb,  \* 1 << sps.getBitsForPOC()
          MaxInt      \* an intra period of -1, as the unsigned it becomes

\* An entry of the GOP list as the configuration file gives it: its POC, its
\* temporal layer, the number of active references, and the references.
Entry(poc, tid, active, refs) ==
  [poc |-> poc, tid |-> tid, active |-> active, refs |-> refs,
   used |-> [i \in DOMAIN refs |-> FALSE], refPic |-> FALSE]

-----------------------------------------------------------------------------
(* EncAppCfg::xCheckParameter: the GOP is walked through in coding order   *)
(* from the first intra picture on, until each of its pictures has been    *)
(* met with all its references; a picture whose references lie before the  *)
(* start gets an entry of its own, behind those of the GOP.                *)

\* The entry of the GOP for a picture, 0 for none.
EntryOf(list, size, poc) ==
  SelectInSeq(SubSeq(list, 1, size), LAMBDA e : (e.poc - poc) % size = 0)

\* Its references exist: the entries they name are marked when they are of
\* the same layer, and the picture may use those of its layer or below.
MarkRefs(list, size, cur, poc) ==
  LET at(i) == EntryOf(list, size, poc + list[cur].refs[i])
      same  == {at(i) : i \in {j \in DOMAIN list[cur].refs :
                                 /\ poc + list[cur].refs[j] >= 0
                                 /\ list[at(j)].tid = list[cur].tid}}
      used  == [i \in DOMAIN list[cur].refs |->
                  IF poc + list[cur].refs[i] >= 0
                  THEN list[at(i)].tid <= list[cur].tid
                  ELSE list[cur].used[i]]
  IN  [k \in DOMAIN list |->
         [list[k] EXCEPT !.refPic = @ \/ k \in same,
                         !.used = IF k = cur THEN used ELSE @]]

\* A reference is put in front of the first that is farther back, or ahead.
InsertRef(e, delta) ==
  LET k == SelectInSeq(e.refs, LAMBDA d : d < delta \/ d > 0)
      n == IF k = 0 THEN Len(e.refs) + 1 ELSE k
  IN  [e EXCEPT !.refs = InsertAt(@, n, delta), !.used = InsertAt(@, n, TRUE)]

\* Pictures coded before it replace the references that do not exist, until
\* there are as many as the picture has active references.
AddEarlier(g, acc, offset, poc) ==
  LET size == g.size
      off  == ((g.check - 1 - offset) % size) + 1
      p    == ((g.check - 1 - offset) \div size) * size + acc.list[off].poc
      e    == acc.entry
  IN  IF acc.full THEN acc
      ELSE LET new == /\ acc.list[off].tid <= e.tid
                      /\ p \in g.refList
                      /\ ~Contains(e.refs, p - poc)
               f   == IF new THEN InsertRef(e, p - poc) ELSE e
           IN  [list  |-> IF new /\ acc.list[off].tid = e.tid
                          THEN [acc.list EXCEPT ![off].refPic = TRUE]
                          ELSE acc.list,
                entry |-> f,
                full  |-> Len(f.refs) >= f.active]

ExtraEntry(g, list, cur, poc) ==
  LET there == SelectSeq([i \in DOMAIN list[cur].refs |-> i],
                         LAMBDA i : poc + list[cur].refs[i] >= 0)
      start == [list[cur] EXCEPT
                  !.poc  = poc,
                  !.refs = [i \in DOMAIN there |-> list[cur].refs[there[i]]],
                  !.used = [i \in DOMAIN there |-> list[cur].used[there[i]]]]
      done  == FoldLeft(LAMBDA acc, offset : AddEarlier(g, acc, offset, poc),
                        [list |-> list, entry |-> start, full |-> FALSE],
                        [i \in 1 .. g.check - 1 |-> i])
  IN  Append(done.list, done.entry)

\* One round of the loop.  refList has the POCs of the pictures that are
\* there after the picture before.
CheckGopEntry(g) ==
  LET cur    == ((g.check - 1) % g.size) + 1
      poc    == ((g.check - 1) \div g.size) * g.size + g.list[cur].poc
      pocs   == {poc + g.list[cur].refs[i] : i \in DOMAIN g.list[cur].refs}
      marked == MarkRefs(g.list, g.size, cur, poc)
      before == \E p \in pocs : p < 0
      list   == IF before THEN ExtraEntry(g, marked, cur, poc) ELSE marked
      e      == IF before THEN Last(list) ELSE list[cur]
  IN  IF \E p \in pocs : p >= 0 /\ p \notin g.refList
      THEN [g EXCEPT !.error = TRUE]
      ELSE [g EXCEPT
              !.list = list,
              !.ok = IF before THEN @ ELSE @ \cup {cur},
              !.refList = {poc} \cup {poc + e.refs[i] : i \in DOMAIN e.refs},
              !.check = @ + 1]

RECURSIVE CheckedFrom(_)
CheckedFrom(g) ==
  IF g.error \/ g.ok = 1 .. g.size THEN g ELSE CheckedFrom(CheckGopEntry(g))

CheckParameter(gop) ==
  CheckedFrom([list |-> gop, size |-> Len(gop), refList |-> {0}, ok |-> {},
               check |-> 1, error |-> FALSE])

\* m_numReorderPics of the highest layer: the most pictures that are coded
\* before and shown after a picture.
Reorder(gop) ==
  LET num(i) ==
        LET high == SelectLastInSeq(gop, LAMBDA e : e.poc <= gop[i].poc)
        IN  Cardinality({j \in 1 .. high - 1 : /\ gop[j].tid <= gop[i].tid
                                               /\ gop[j].poc > gop[i].poc})
  IN  Max({num(i) : i \in DOMAIN gop})

\* m_maxDecPicBuffering of the highest layer.
Buffering(gop) ==
  Max({Len(gop[i].refs) + 1 : i \in DOMAIN gop} \cup {Reorder(gop) + 1})

\* What is asked of a configuration: its GOP list, intra period, decoding
\* refresh type, and frames.
Valid(c) ==
  /\ ~CheckParameter(c.gop).error
  /\ \A i \in DOMAIN c.gop : c.gop[i].poc = Len(c.gop) => c.gop[i].tid = 0
  /\ c.period # MaxInt => /\ c.period >= Len(c.gop)
                          /\ c.period % Len(c.gop) = 0
  /\ c.refresh = 2 => c.period > Len(c.gop)

-----------------------------------------------------------------------------
(* EncLib::encode.                                                         *)

\* The state of EncLib and EncGOP: the GOP list as it was completed, the
\* pictures, and the NAL units written.
Encoder(c) ==
  [gops |-> CheckParameter(c.gop).list, listPic |-> <<>>, pocLast |-> -1,
   rcvd |-> 0, made |-> 0, lastIDR |-> 0, pocCRA |-> 0, pending |-> FALSE,
   irapType |-> "IDR_N_LP", irapPoc |-> 0, cvs |-> 0,
   nals |-> <<>>, error |-> FALSE]

\* Mutant of FreePicture: the search takes the last picture as it starts.
FreeLast(list) == Len(list)

\* The first picture that is not referenced, or the last one.
FreePicture(list) ==
  LET k == SelectInSeq(list, LAMBDA p : ~p.referenced)
  IN  IF k = 0 THEN Len(list) ELSE k

\* EncLib::xGetNewPicBuffer: a picture of the list when it is full, else a
\* new one; its POC is the next.
AddFrame(c, e) ==
  LET list == SortPicList(e.listPic)
      take(p) == [p EXCEPT !.poc = e.pocLast + 1, !.referenced = TRUE,
                           !.reconstructed = FALSE]
      full == Len(list) >= Len(c.gop) + Buffering(c.gop) + 2
  IN  [e EXCEPT !.listPic = IF full THEN [list EXCEPT ![FreePicture(list)] = take(@)]
                            ELSE Append(list, take(NewPicture(e.made + 1))),
                !.made = IF full THEN @ ELSE @ + 1,
                !.pocLast = @ + 1,
                !.rcvd = @ + 1]

-----------------------------------------------------------------------------
(* The steps of EncGOP::compressGOP for one picture.                       *)

NalUnitType(c, e, poc) ==
  IF poc = 0 THEN "IDR_W_RADL"
  ELSE IF poc % c.period = 0 /\ c.refresh = 1 THEN "CRA"
  ELSE IF poc % c.period = 0 /\ c.refresh = 2 THEN "IDR_W_RADL"
  ELSE IF e.pocCRA > 0 /\ poc < e.pocCRA THEN "RASL_R"
  ELSE IF e.lastIDR > 0 /\ poc < e.lastIDR THEN "RADL_R"
  ELSE "TRAIL_R"

IsISlice(c, e, poc) == e.pocLast = 0 \/ poc % c.period = 0

\* A picture no other of its layer refers to; the one picture of an intra
\* GOP stays a reference.
NonReferenceType(nut, onlyIntra) ==
  CASE nut = "TRAIL_R" /\ ~onlyIntra -> "TRAIL_N"
    [] nut = "RADL_R" -> "RADL_N"
    [] nut = "RASL_R" -> "RASL_N"
    [] OTHER -> nut

Unmark(list, keep) ==
  [k \in DOMAIN list |->
     [list[k] EXCEPT !.referenced = @ /\ list[k].poc \in keep]]

\* Slice::decodingRefreshMarking.
RefreshMarking(c, e, s) ==
  LET idr   == c.fieldIrap /\ e.irapType \in IdrTypes
      since == IF idr THEN e.lastIDR ELSE e.pocCRA
      now   == e.pending /\ s.poc > since
  IN  IF s.nut \in IdrTypes
      THEN [e EXCEPT !.listPic = Unmark(@, {s.poc}),
                     !.pending = @ \/ c.fieldIrap]
      ELSE [e EXCEPT !.listPic = IF now THEN Unmark(@, {s.poc, since}) ELSE @,
                     !.pending = s.nut = "CRA" \/ (@ /\ ~now),
                     !.pocCRA = IF s.nut = "CRA" THEN s.poc ELSE @]

\* EncLib::selectReferencePictureSet: the last extra entry for the POC, else
\* the entry of the GOP.
RpsIdx(c, e, poc, gopId) ==
  LET index == IF c.refresh > 0
               THEN IF poc % c.period = 0 THEN c.period ELSE poc % c.period
               ELSE poc
      extra == {k \in Len(c.gop) + 1 .. Len(e.gops) : e.gops[k].poc = index}
  IN  IF extra = {} THEN gopId ELSE Max(extra)

RpsOf(entry) ==
  [i \in DOMAIN entry.refs |->
     [delta |-> entry.refs[i], used |-> entry.used[i]]]

Available(list, poc) ==
  \E k \in DOMAIN list : list[k].referenced /\ list[k].poc = poc

\* checkThatAllRefPicsAreAvailable asks for those from POC 0 on.
SomeMissing(list, s) ==
  \E poc \in RefPocs(s) : poc >= 0 /\ ~Available(list, poc)

\* createExplicitReferencePictureSetFromReference: those that are there; an
\* access point keeps them without using them.
ExplicitRps(list, s) ==
  LET there == SelectSeq(s.refs, LAMBDA r : Available(list, s.poc + r.delta))
  IN  [i \in DOMAIN there |->
         [there[i] EXCEPT !.used = @ /\ s.nut \notin RapTypes]]

\* No picture of the layer or above is kept: the layer may be joined here.
SwitchingPoint(list, s) ==
  \A k \in DOMAIN list :
    list[k].referenced /\ list[k].poc # s.poc => list[k].layer < s.tid

\* None is used by this picture, nor by a later one of its layer in the GOP.
\* A reference that is not in the GOP counts with the entry behind it.
StepwiseSwitchingPoint(c, e, list, s, gopId) ==
  LET n == Len(c.gop)
      tidAt(poc) ==
        LET k == SelectInSeq(SubSeq(e.gops, 1, n), LAMBDA g : g.poc = poc)
        IN  IF k # 0 THEN e.gops[k].tid
            ELSE IF Len(e.gops) > n THEN e.gops[n + 1].tid ELSE 0
  IN  /\ \A k \in DOMAIN list :
           list[k].referenced /\ list[k].usedByCurr /\ list[k].poc # s.poc
             => list[k].layer < s.tid
      /\ \A k \in gopId + 1 .. n : \A i \in DOMAIN e.gops[k].refs :
           e.gops[k].tid = s.tid /\ e.gops[k].used[i]
             => tidAt(e.gops[k].poc + e.gops[k].refs[i]) < s.tid

LayerType(c, e, list, s, gopId) ==
  IF s.tid = 0 \/ s.nut \in LeadTypes THEN s.nut
  ELSE IF SwitchingPoint(list, s) THEN IF s.nonRef THEN "TSA_N" ELSE "TSA_R"
  ELSE IF StepwiseSwitchingPoint(c, e, list, s, gopId)
       THEN IF s.nonRef THEN "STSA_N" ELSE "STSA_R"
       ELSE s.nut

\* The POC in a header counts from the last IDR picture.
PocLsb(e, s) == (s.poc - e.lastIDR) % MaxPocLsb

\* The NAL unit of a picture; an IDR picture has no reference picture set.
Nal(e, list, s) ==
  LET frameAt(poc) ==
        LET k == GetRefPic(list, poc)
        IN  IF k = 0 \/ list[k].slices = <<>> THEN 0 ELSE list[k].slices[1].frame
      refs == IF s.nut \in IdrTypes THEN <<>> ELSE s.refs
  IN  [nut |-> s.nut, lsb |-> PocLsb(e, s), tid |-> s.tid,
       first |-> TRUE,
       refs |-> [i \in DOMAIN refs |->
                   [delta |-> refs[i].delta, used |-> refs[i].used,
                    frame |-> frameAt(s.poc + refs[i].delta)]],
       out |-> TRUE, noPrior |-> FALSE, poc |-> s.poc - e.lastIDR,
       frame |-> s.frame, cvs |-> e.cvs]

\* The pictures an inter picture refers to are all there (setRefPicList).
RefsThere(list, s, iSlice) ==
  iSlice \/ \A poc \in UsedPocs(s) : GetRefPic(list, poc) # 0

CodePicture(c, e, poc, gopId) ==
  LET k     == GetRefPic(e.listPic, poc)
      type  == NalUnitType(c, e, poc)
      idr   == type \in IdrTypes
      i     == IsISlice(c, e, poc)
      non   == e.pocLast # 0 /\ ~e.gops[gopId].refPic
      only  == i /\ (e.pocLast = 0 \/ Len(c.gop) = 1)
      nut   == IF non THEN NonReferenceType(type, only) ELSE type
      a     == [e EXCEPT
                  !.lastIDR = IF idr THEN poc ELSE @,
                  !.cvs = IF idr THEN @ + 1 ELSE @,
                  !.irapType = IF nut \in RapTypes THEN nut ELSE @,
                  !.irapPoc = IF nut \in RapTypes THEN poc ELSE @,
                  !.listPic[k].referenced = TRUE,
                  !.listPic[k].layer = IF i THEN 0 ELSE e.gops[gopId].tid]
      s0    == [nut |-> nut, poc |-> poc, tid |-> a.listPic[k].layer,
                refs |-> RpsOf(e.gops[RpsIdx(c, e, poc, gopId)]),
                nonRef |-> non, out |-> TRUE, noOutputPriorPics |-> FALSE,
                irapPoc |-> a.irapPoc, irapType |-> a.irapType,
                frame |-> Len(e.nals) + 1]
      b     == RefreshMarking(c, a, s0)
      s1    == IF nut \in RapTypes \/ SomeMissing(b.listPic, s0)
               THEN [s0 EXCEPT !.refs = ExplicitRps(b.listPic, s0)] ELSE s0
      list  == ApplyRps(b.listPic, s1)
      s2    == [s1 EXCEPT !.nut = LayerType(c, b, list, s1, gopId)]
  IN  IF k = 0 THEN [e EXCEPT !.error = TRUE]
      ELSE [b EXCEPT
              !.listPic = [list EXCEPT ![k].slices = <<s2>>,
                                       ![k].reconstructed = TRUE],
              !.nals = Append(@, Nal(b, list, s2)),
              !.error = \/ @ \/ LeadingRejected(b.listPic, s1)
                        \/ RpsRejected(list, s1) \/ ~RefsThere(list, s1, i)]

\* compressGOP: the first picture is a GOP of its own; pictures behind the
\* last frame are left out.
CompressGOP(c, e) ==
  LET poc(g) == IF e.pocLast = 0 THEN 0
                ELSE e.pocLast - e.rcvd + e.gops[g].poc
      ids    == SelectSeq([g \in 1 .. IF e.pocLast = 0 THEN 1 ELSE Len(c.gop) |-> g],
                          LAMBDA g : poc(g) < c.frames)
  IN  [FoldLeft(LAMBDA d, g : IF d.error THEN d ELSE CodePicture(c, d, poc(g), g),
                e, ids)
         EXCEPT !.rcvd = 0]

\* EncLib::encode: a GOP is coded when it is full, after the first frame,
\* and when the application has no more frames.
EncodeFrame(c, e) ==
  LET a == AddFrame(c, e)
  IN  IF a.pocLast = 0 \/ a.rcvd = Len(c.gop) \/ a.pocLast = c.frames - 1
      THEN CompressGOP(c, a) ELSE a

Encode(c) ==
  FoldLeft(LAMBDA e, n : EncodeFrame(c, e), Encoder(c), [n \in 1 .. c.frames |-> n])
=============================================================================
