----------------------------- MODULE HlsInputs -----------------------------
(***************************************************************************)
(* Slice headers and parameter sets for SyntaxCoding, by the part that     *)
(* varies; parameter sets are what EncLib makes of a configuration that    *)
(* EncAppCfg accepts.  Bounds: POCs of four bits, two structures of GOPs,  *)
(* three references by list, up to four weights, the smallest and the      *)
(* largest number of adaptive filters; CTUs of 16 to 128 samples, one or   *)
(* three temporal layers, and one tool at a time switched on, or off, or   *)
(* to another mode.                                                        *)
(***************************************************************************)
EXTENDS HlsCoding, FiniteSets

CONSTANT SubPuAddresses   \* first CTUs of slices with a size of temporal subblocks

(***************************************************************************)
(* The encoder's reference picture sets.                                   *)
(***************************************************************************)
\* EncLib::xInitRPS: the set of each picture of the GOP, told by its difference
\* to the one coded before if that tells all of it; and a set that is not used.
xInitRPS(gop) ==
  LET moved(ref, deltaRPS) == Append([j \in 1 .. Len(ref) |-> ref[j] + deltaRPS], deltaRPS)
      idc(e, d) == IF \E k \in 1 .. Len(e.refs) : e.refs[k] = d
                   THEN (IF e.used[CHOOSE k \in 1 .. Len(e.refs) : e.refs[k] = d] THEN 1 ELSE 2) ELSE 0
      entry(i) ==
        LET e == gop[i]
            plain == Rps(e.refs, e.used)
            deltaRPS == gop[i - 1].poc - e.poc
            deltas == moved(gop[i - 1].refs, deltaRPS)
        IN IF i = 1 \/ ~e.inter THEN plain
           ELSE [plain EXCEPT !.inter = Range(e.refs) \subseteq Range(deltas), !.deltaRPS = deltaRPS,
                              !.idc = [j \in 1 .. Len(deltas) |-> idc(e, deltas[j])]]
  IN Append([i \in 1 .. Len(gop) |-> entry(i)], NoRps)
\* createExplicitReferencePictureSetFromReference: the pictures of the set that
\* are there, which an IRAP picture keeps but does not use; told by the
\* difference to the same set as before, counted from the end of the list.
ExplicitRps(rpsList, idx, there, irap) ==
  LET old  == rpsList[idx + 1]
      keep == SelectSeq([k \in 1 .. Len(old.deltas) |-> k], LAMBDA k : old.deltas[k] \in there)
      new  == Rps([k \in 1 .. Len(keep) |-> old.deltas[keep[k]]], [k \in 1 .. Len(keep) |-> old.used[keep[k]] /\ ~irap])
      ref  == rpsList[idx]
      idc(d) == IF \E k \in 1 .. Len(keep) : new.deltas[k] = d
                THEN (IF new.used[CHOOSE k \in 1 .. Len(keep) : new.deltas[k] = d] THEN 1 ELSE 2) ELSE 0
  IN IF ~old.inter THEN new
     ELSE [new EXCEPT !.inter = TRUE, !.deltaRPS = old.deltaRPS, !.ridx = Len(rpsList) - idx,
                      !.idc = [j \in 1 .. Len(ref.deltas) + 1 |->
                                 idc(old.deltaRPS + (IF j <= Len(ref.deltas) THEN ref.deltas[j] ELSE 0))]]
Entry(poc, refs, unused, inter) ==
  [poc |-> poc, refs |-> refs, used |-> [k \in 1 .. Len(refs) |-> refs[k] \notin unused], inter |-> inter]
RandomAccess == <<Entry(4, <<-4, -6>>, {-6}, FALSE), Entry(2, <<-2, -4, 2>>, {}, TRUE),
                  Entry(1, <<-1, 1, 3>>, {3}, TRUE), Entry(3, <<-1, -3, 1>>, {-1}, TRUE)>>
LowDelay == <<Entry(1, <<-1, -3>>, {}, FALSE), Entry(2, <<-1, -2, -4>>, {-2}, TRUE),
              Entry(3, <<-1, -5>>, {}, TRUE), Entry(4, <<-1, -9>>, {}, TRUE)>>

(***************************************************************************)
(* A plain P slice, from which the families differ.                        *)
(***************************************************************************)
AlfOff == [luma |-> FALSE, cb |-> FALSE, cr |-> FALSE, seven |-> TRUE, deltaIdx |-> NoFilters, deltaFlag |-> FALSE,
           predMode |-> FALSE, flags |-> <<>>, coeff |-> <<>>, ctbPresent |-> FALSE, chromaCoeff |-> <<>>, filters |-> 0]
NoClip == [used |-> FALSE, y |-> <<0, 255>>, chroma |-> FALSE, c |-> << <<0, 255>>, <<0, 255>> >>]
Param == [family |-> "order", rap |-> FALSE, idr |-> FALSE, ppsId |-> 0, numCtus |-> 4, bitsForPOC |-> 4,
          lastIDR |-> 0, prevTid0POC |-> 0, rpsList |-> <<>>, longTerm |-> FALSE, tmvpPresent |-> TRUE,
          chroma |-> TRUE, outputPresent |-> FALSE, useSAO |-> FALSE, useALF |-> FALSE, numRefDefault |-> <<1, 1>>,
          cabacInitPresent |-> TRUE, useWP |-> FALSE, WPBiPred |-> FALSE, LIC |-> FALSE, SubPuMvp |-> FALSE,
          SubPuMvpLog2Size |-> 2, ctuLog2 |-> 7, initQP |-> 26, chromaQpFlag |-> FALSE, chromaAdjList |-> FALSE,
          dbControl |-> FALSE, dbOverrideEnabled |-> FALSE, dbPps |-> [disable |-> FALSE, beta |-> 0, tc |-> 0],
          lfAcross |-> FALSE, AClip |-> FALSE, clipQuant |-> 0, bitDepth |-> 8]
Header == [ppsId |-> 0, addr |-> 0, first |-> TRUE, noOutputPrior |-> FALSE,
           type |-> "P", output |-> TRUE, poc |-> 1, rpsIdx |-> -1,
           rps |-> Rps(<<-1>>, <<TRUE>>), lt |-> <<>>, tmvp |-> TRUE, saoLuma |-> FALSE, saoChroma |-> FALSE,
           alf |-> AlfOff, numRef |-> <<1, 0>>, mvdL1Zero |-> FALSE, encTable |-> "P", cabacInit |-> FALSE,
           colFromL0 |-> TRUE, colRefIdx |-> 0, denomY |-> 0, denomC |-> 0, wp |-> << <<>>, <<>> >>, useLIC |-> FALSE,
           depQuant |-> FALSE, signHiding |-> TRUE, maxBT |-> 7, maxMerge |-> 5, qp |-> 32, cbQp |-> 0, crQp |-> 0,
           chromaAdj |-> FALSE, dbOverride |-> FALSE, dbDisable |-> FALSE, beta |-> 0, tc |-> 0, lfAcross |-> FALSE,
           clip |-> NoClip, subblkEnable |-> FALSE, subblkLog2 |-> 2]
Intra(h) == [h EXCEPT !.type = "I", !.numRef = <<0, 0>>, !.maxBT = MAX_BT_LOG2, !.encTable = "I"]

(***************************************************************************)
(* "order": POC, reference pictures, IDR and IRAP pictures.                *)
(***************************************************************************)
OrderParams ==
  {[Param EXCEPT !.lastIDR = i, !.prevTid0POC = n, !.rpsList = xInitRPS(g), !.rap = k # "other", !.idr = k = "IDR",
                 !.longTerm = lt, !.tmvpPresent = lt] :
     i \in {0, 5}, n \in {0, 7, 8, 15, 30}, g \in {RandomAccess, LowDelay}, k \in {"IDR", "CRA", "other"}, lt \in BOOLEAN}
OrderUnits(p) ==
  LET irap  == p.rap
      diffs == IF p.idr THEN {-p.prevTid0POC} ELSE {d \in -7 .. 8 : d # 0 /\ p.lastIDR + p.prevTid0POC + d >= 0}
      at(d) == [Header EXCEPT !.poc = p.lastIDR + p.prevTid0POC + d, !.tmvp = p.tmvpPresent]
      typed(h) == IF irap THEN Intra(h) ELSE h
      chosen(i, there) ==
        IF irap \/ ~(Range(p.rpsList[i + 1].deltas) \subseteq there)
        THEN [at(1) EXCEPT !.rps = ExplicitRps(p.rpsList, i, there, irap)]
        ELSE [at(1) EXCEPT !.rps = p.rpsList[i + 1], !.rpsIdx = i,
                           !.lt = IF p.longTerm /\ p.lastIDR = 0 THEN <<p.prevTid0POC>> ELSE <<>>]
  IN {typed(at(d)) : d \in diffs}
     \cup IF p.idr THEN {} ELSE UNION {{typed(chosen(i, there)) : there \in SUBSET Range(p.rpsList[i + 1].deltas)} : i \in 0 .. 3}

(***************************************************************************)
(* "references": lists, collocated picture, table of contexts.             *)
(***************************************************************************)
ReferenceParams ==
  {[Param EXCEPT !.family = "references", !.cabacInitPresent = c, !.numRefDefault = n, !.tmvpPresent = t] :
     c \in BOOLEAN, n \in {<<1, 1>>, <<2, 1>>, <<2, 3>>}, t \in BOOLEAN}
ReferenceUnits(p) ==
  {h \in {[Header EXCEPT !.type = t, !.numRef = <<a, IF t = "B" THEN b ELSE 0>>, !.mvdL1Zero = z, !.encTable = e,
                         !.tmvp = m, !.colFromL0 = l, !.colRefIdx = c] :
            t \in {"P", "B"}, a \in 1 .. 3, b \in 1 .. 3, z \in BOOLEAN, e \in {"B", "P", "I"},
            m \in {p.tmvpPresent, FALSE}, l \in BOOLEAN, c \in 0 .. 2} :
     /\ h.colRefIdx < h.numRef[IF h.colFromL0 THEN 1 ELSE 2]
     /\ h.type = "P" => h.colFromL0 /\ ~h.mvdL1Zero
     /\ ~h.tmvp => h.colFromL0 /\ h.colRefIdx = 0
     /\ h.mvdL1Zero => h.encTable = "B"}

(***************************************************************************)
(* "weights": explicit weighted prediction.                                *)
(***************************************************************************)
WeightParams ==
  {[Param EXCEPT !.family = "weights", !.chroma = c, !.useWP = w, !.WPBiPred = b] :
     c \in BOOLEAN, w \in BOOLEAN, b \in BOOLEAN}
Weights(p, dy, dc) ==
  LET none == WpDefault(dy, dc)
      y(e) == [e EXCEPT !.y = TRUE, !.w[1] = @ - 1, !.o[1] = -128]
      c(e) == [e EXCEPT !.c = TRUE, !.w[2] = @ + 127, !.w[3] = @ - 128, !.o = <<@[1], 127, -3>>]
  IN {none, y(none)} \cup IF p.chroma THEN {c(none), y(c(none))} ELSE {}
WeightUnits(p) ==
  UNION {{[Header EXCEPT !.type = t, !.numRef = <<n, IF t = "B" THEN 1 ELSE 0>>, !.tmvp = FALSE,
                         !.denomY = d[1], !.denomC = d[2],
                         !.wp = <<SubSeq(<<w[1], w[2]>>, 1, n), IF t = "B" THEN <<w[3]>> ELSE <<>> >>] :
            w \in [1 .. 3 -> Weights(p, d[1], d[2])], n \in {1, 2}, t \in {"P", "B"}} :
         d \in IF p.chroma THEN {<<0, 0>>, <<5, 7>>, <<7, 4>>} ELSE {<<0, 0>>, <<7, 0>>}}

(***************************************************************************)
(* "alf": the filters of the adaptive loop filter.                         *)
(***************************************************************************)
AlfFilters(n, size) ==
  {[i \in 1 .. n |-> [k \in 1 .. size |-> 0]],
   [i \in 1 .. n |-> [k \in 1 .. size |-> IF (k + i) % 3 = 0 THEN 60 - 20 * k ELSE k % 2]],
   [i \in 1 .. n |-> [k \in 1 .. size |-> IF k = size THEN -511 ELSE IF k = 3 THEN 255 ELSE i - k]]}
AlfUnits ==
  {AlfOff} \cup
  UNION {{[AlfOff EXCEPT !.luma = TRUE, !.cb = cb, !.cr = cr, !.seven = s, !.coeff = f, !.predMode = n > 1 /\ pm,
                        !.deltaIdx = [i \in 1 .. MAX_NUM_ALF_CLASSES |-> (i * i) % n], !.ctbPresent = (cb \/ cr) /\ pm,
                        !.chromaCoeff = <<0, -3, 17, 1, -64, 5>>] :
            cb \in BOOLEAN, cr \in BOOLEAN, pm \in BOOLEAN, f \in AlfFilters(n, Len(GolombIdx(s)))} :
         n \in {1, 2, 3}, s \in BOOLEAN}
  \cup {[AlfOff EXCEPT !.luma = TRUE, !.seven = FALSE, !.coeff = f, !.deltaIdx = [i \in 1 .. 25 |-> i - 1]] :
           f \in AlfFilters(25, 6)}
\* Filters that the encoder found not worth their bits are zero.
SomeFilters(a) ==
  {[a EXCEPT !.deltaFlag = TRUE, !.predMode = FALSE, !.flags = f,
             !.coeff = [i \in 1 .. Len(a.coeff) |-> IF f[i] THEN @[i] ELSE [k \in DOMAIN @[i] |-> 0]]] :
     f \in [1 .. Len(a.coeff) -> BOOLEAN]}
AlfParams == {[Param EXCEPT !.family = "alf", !.useALF = TRUE]}
AlfHeaders(p) == 
  {[Header EXCEPT !.alf = a] :
     a \in AlfUnits \cup UNION {SomeFilters(a) : a \in {b \in AlfUnits : Len(b.coeff) \in 1 .. 3 /\ ~b.cb}}}

(***************************************************************************)
(* "filters": offsets, deblocking, filtering across slices, clipping.      *)
(***************************************************************************)
FilterHeaderParams ==
  {q \in {[Param EXCEPT !.family = "filters", !.useSAO = s, !.chroma = c, !.lfAcross = a, !.dbControl = d,
                        !.dbOverrideEnabled = o, !.dbPps = [disable |-> x, beta |-> 2 * Flag(d), tc |-> -Flag(d)],
                        !.AClip = l, !.clipQuant = 2 * Flag(l)] :
            s \in BOOLEAN, c \in BOOLEAN, a \in BOOLEAN, d \in BOOLEAN, o \in BOOLEAN, x \in BOOLEAN, l \in BOOLEAN} :
     q.dbOverrideEnabled \/ q.dbPps.disable => q.dbControl}
Clips == {NoClip, [NoClip EXCEPT !.used = TRUE, !.y = <<16, 236>>],
          [used |-> TRUE, y |-> <<0, 252>>, chroma |-> TRUE, c |-> << <<32, 128>>, <<4, 240>> >>]}
FilterHeaders(p) ==
  {h \in {[Header EXCEPT !.saoLuma = l, !.saoChroma = c, !.dbOverride = o.over, !.dbDisable = o.disable, !.beta = o.beta,
                         !.tc = o.tc, !.lfAcross = a /\ p.lfAcross, !.clip = k, !.addr = n] :
            l \in {p.useSAO, FALSE}, c \in {p.useSAO /\ p.chroma, FALSE}, a \in BOOLEAN,
            k \in IF p.AClip THEN Clips ELSE {NoClip}, n \in {0, 3},
            o \in {[over |-> FALSE, disable |-> p.dbPps.disable, beta |-> p.dbPps.beta, tc |-> p.dbPps.tc],
                   [over |-> TRUE, disable |-> TRUE, beta |-> 0, tc |-> 0],
                   [over |-> TRUE, disable |-> FALSE, beta |-> -6, tc |-> 6]}} :
     h.dbOverride => p.dbOverrideEnabled}

(***************************************************************************)
(* "tools": address, output, quantiser and the tools of the slice.         *)
(***************************************************************************)
ToolHeaderParams ==
  {[Param EXCEPT !.family = "tools", !.LIC = l, !.SubPuMvp = s, !.SubPuMvpLog2Size = z, !.ctuLog2 = c, !.chromaQpFlag = q,
                 !.chromaAdjList = q, !.outputPresent = o, !.ppsId = 2 * Flag(l), !.numCtus = n, !.rap = r] :
     l \in BOOLEAN, s \in BOOLEAN, z \in {2, 3}, c \in {5, 7}, q \in BOOLEAN, o \in BOOLEAN, n \in {1, 4, 5}, r \in BOOLEAN}
ToolHeaders(p) ==
  {h \in {[g EXCEPT !.addr = a, !.noOutputPrior = p.rap /\ v, !.output = v \/ ~p.outputPresent, !.useLIC = p.LIC /\ v,
            !.depQuant = d, !.signHiding = v /\ ~d, !.qp = 26 + m, !.maxMerge = MaxMerge(p) - (IF v THEN 0 ELSE 4),
            !.cbQp = IF p.chromaQpFlag THEN m % 5 ELSE 0, !.crQp = IF p.chromaQpFlag THEN -(m % 7) ELSE 0,
            !.chromaAdj = p.chromaAdjList /\ v,
            !.subblkEnable = z # p.SubPuMvpLog2Size, !.subblkLog2 = z] :
            g \in IF p.rap THEN {Intra(Header)} ELSE {Header, [Header EXCEPT !.maxBT = 5]}, a \in {0, 2, p.numCtus - 1},
            v \in BOOLEAN, d \in BOOLEAN, m \in {-26, -1, 0, 37}, z \in {2, 3}} :
     /\ h.addr < p.numCtus
     /\ p.SubPuMvp => h.addr \in SubPuAddresses
     /\ (p.SubPuMvp /\ h.type # "I") \/ h.subblkLog2 = p.SubPuMvpLog2Size}

HeaderParams == OrderParams \cup ReferenceParams \cup WeightParams \cup AlfParams \cup FilterHeaderParams \cup ToolHeaderParams
HeaderUnits(p) ==
  CASE p.family = "order" -> OrderUnits(p) [] p.family = "references" -> ReferenceUnits(p)
    [] p.family = "weights" -> WeightUnits(p) [] p.family = "alf" -> AlfHeaders(p)
    [] p.family = "filters" -> FilterHeaders(p) [] p.family = "tools" -> ToolHeaders(p)

\* The pilot slice is an object that an earlier slice was decoded with:
\* initSlice resets some of its members; those of a later slice of the picture
\* are then copied from the slice before, among them its clipping ranges and its
\* chroma QPs, which are zero in a picture that does not send them.  Sign
\* hiding is off in a sequence with dependent quantisation.
EarlierSlice ==
  [Header EXCEPT !.type = "B", !.poc = -99, !.output = FALSE, !.rps = Rps(<<-7, 7>>, <<TRUE, FALSE>>), !.tmvp = TRUE,
                 !.saoLuma = TRUE, !.saoChroma = TRUE, !.numRef = <<9, 9>>, !.mvdL1Zero = TRUE, !.colFromL0 = FALSE,
                 !.colRefIdx = 8, !.wp = << <<WpDefault(3, 3)>>, <<WpDefault(2, 2)>> >>, !.useLIC = TRUE,
                 !.signHiding = FALSE, !.maxBT = 0, !.maxMerge = 1, !.qp = -5, !.chromaAdj = TRUE, !.cabacInit = TRUE,
                 !.dbOverride = TRUE, !.dbDisable = TRUE, !.beta = 4, !.tc = 4, !.subblkEnable = TRUE, !.subblkLog2 = 5,
                 !.alf = [AlfOff EXCEPT !.luma = TRUE, !.cb = TRUE, !.cr = TRUE, !.coeff = << <<1>> >>, !.predMode = TRUE,
                              !.filters = 9],
                 !.clip = [used |-> TRUE, y |-> <<9, 9>>, chroma |-> TRUE, c |-> << <<9, 9>>, <<9, 9>> >>], !.cbQp = 3, !.crQp = 3, !.ppsId = 9]
initSlice(d) ==
  [d EXCEPT !.numRef = <<0, 0>>, !.colFromL0 = TRUE, !.colRefIdx = 0, !.cbQp = 0, !.crQp = 0, !.tmvp = TRUE,
            !.maxMerge = MRG_MAX_NUM_CANDS, !.cabacInit = FALSE, !.subblkEnable = FALSE, !.subblkLog2 = 2]
PilotSlice(p, h) ==
  IF h.addr = 0 THEN initSlice(EarlierSlice)
  ELSE [EarlierSlice EXCEPT !.clip = h.clip, !.cbQp = IF p.chromaQpFlag THEN @ ELSE 0,
                           !.crQp = IF p.chromaQpFlag THEN @ ELSE 0]

-----------------------------------------------------------------------------
(* Parameter sets.                                                         *)

(***************************************************************************)
(* The sets as their constructors leave them; and the members that are     *)
(* left to chance there, with a value that nothing sends.                  *)
(***************************************************************************)
Window(offsets) == [enabled |-> TRUE, offsets |-> offsets]
NoWindow == [enabled |-> FALSE, offsets |-> <<0, 0, 0, 0>>]
NewHrd ==
  [nal |-> FALSE, vcl |-> FALSE, subPic |-> FALSE, tickDivisor |-> 0, duRemovalLength |-> 0, subPicInSei |-> FALSE,
   duOutputLength |-> 0, bitRateScale |-> 0, cpbSizeScale |-> 0, duCpbSizeScale |-> 0, initialLength |-> 23,
   removalLength |-> 23, outputLength |-> 23, layers |-> <<>>]
NewVui ==
  [aspect |-> FALSE, aspectIdc |-> 0, sarWidth |-> 0, sarHeight |-> 0, overscan |-> FALSE, overscanAppropriate |-> FALSE,
   signal |-> FALSE, videoFormat |-> 5, fullRange |-> FALSE, colour |-> FALSE, primaries |-> 2, transfer |-> 2,
   matrix |-> 2, chromaLoc |-> FALSE, locTop |-> 0, locBottom |-> 0, neutralChroma |-> FALSE, fieldSeq |-> FALSE,
   frameField |-> FALSE, display |-> NoWindow, timing |-> FALSE, unitsInTick |-> 1001, timeScale |-> 60000,
   pocProportional |-> FALSE, ticksPocDiffOne |-> 0, hrdPresent |-> FALSE, hrd |-> NewHrd, restriction |-> FALSE,
   mvOverPic |-> TRUE, restrictedLists |-> TRUE, minSpatial |-> 0, maxBytes |-> 2, maxBits |-> 1, log2MvHor |-> 15,
   log2MvVer |-> 15]
ToolFlags == {"QTBT", "NSST", "Intra4Tap", "LargeCTU", "IntraBoundaryFilter", "BIO", "DisableMotCompress", "LMChroma",
              "IntraEMT", "InterEMT", "OBMC", "FRUC", "Affine", "AffineType", "AClip", "BIF", "DMVR", "MDMS", "IBCMode",
              "GBi", "MTTMode", "NextDQP"}
\* Modes up to the highest that the configuration may ask for.
ToolModes == {<<"SubPuMvpMode", 3>>, <<"CABACEngineMode", 3>>, <<"ImvMode", 2>>, <<"LICMode", 2>>, <<"IntraPDPCMode", 2>>,
              <<"CIPFMode", 2>>}
ToolNames == ToolFlags \cup {m[1] : m \in ToolModes}
NewSps ==
  [maxTLayers |-> 1, nesting |-> FALSE, highTier |-> FALSE, profile |-> 0, compatible |-> {}, progressive |-> FALSE,
   interlaced |-> FALSE, nonPacked |-> FALSE, frameOnly |-> FALSE, level |-> 0, spsId |-> 0, chroma |-> 1,
   width |-> 352, height |-> 288, window |-> NoWindow, bitDepthY |-> 8, bitDepthC |-> 8, qpBDOffsetY |-> 0,
   qpBDOffsetC |-> 0, bitsForPOC |-> 8, dpb |-> <<>>, log2MinCb |-> 0, log2DiffMaxMinCb |-> 0, log2MinTU |-> 0,
   log2MaxTU |-> 0, depthInter |-> 0, depthIntra |-> 0, maxCUWidth |-> 32, maxTrSize |-> 32, maxCodingDepth |-> 3,
   useALF |-> FALSE, useAMP |-> FALSE, useSAO |-> FALSE, usePCM |-> FALSE, pcmDepthY |-> 8, pcmDepthC |-> 8,
   pcmLog2Min |-> 7, pcmLog2Max |-> 5, pcmFilterDisable |-> FALSE, rpsList |-> <<>>, longTerm |-> FALSE, tmvp |-> FALSE,
   vuiPresent |-> FALSE, vui |-> NewVui, DualITree |-> FALSE, ctuLog2 |-> 0, minQTLog2 |-> <<0, 0, 0>>,
   maxBTDepth |-> <<4, 4, 0>>, SubPuMvpLog2Size |-> 0, OBMCBlkSize |-> 4, FRUCRefineFilter |-> 1, FRUCRefineRange |-> 8,
   FRUCSmallBlkRefineDepth |-> 3, AClipQuant |-> 0] @@ [f \in ToolNames |-> 0]
NewPps ==
  [ppsId |-> 0, spsId |-> 0, outputPresent |-> FALSE, extraBits |-> 0, cabacInitPresent |-> FALSE, numRef |-> <<1, 1>>,
   initQPMinus26 |-> 0, constrainedIntra |-> FALSE, transformSkip |-> FALSE, useDQP |-> FALSE, maxCuDQPDepth |-> 0,
   cbOffset |-> 0, crOffset |-> 0, sliceChromaQp |-> FALSE, useWP |-> FALSE, WPBiPred |-> FALSE,
   transquantBypass |-> FALSE, lfAcross |-> FALSE, dbControl |-> FALSE, dbOverrideEnabled |-> FALSE, dbDisable |-> FALSE,
   beta |-> 0, tc |-> 0, listsModification |-> FALSE, log2ParMrgMinus2 |-> 0, headerExtension |-> FALSE, log2MaxTS |-> 2,
   crossComponent |-> FALSE, qpOffsetList |-> <<>>, chromaQpDepth |-> 0, saoScale |-> <<0, 0>>]

(***************************************************************************)
(* What a set says: each member in the cases in which it is looked at.     *)
(***************************************************************************)
WindowMeaning(w) == IF w.enabled THEN w.offsets ELSE NoWindow.offsets
HrdMeaning(h) ==
  LET list(present, buffers) ==
        IF ~present THEN <<>>
        ELSE [j \in DOMAIN buffers |->
                [f \in DOMAIN buffers[j] \ (IF h.subPic THEN {} ELSE {"duCpbSize", "duBitRate"}) |-> buffers[j][f]]]
      layer(l) == <<l.fixed, l.fixed \/ l.within, l.duration, l.lowDelay, l.cpbCnt, list(h.nal, l.nalCpb), list(h.vcl, l.vclCpb)>>
      common == IF ~(h.nal \/ h.vcl) THEN {}
                ELSE {"subPic", "bitRateScale", "cpbSizeScale", "initialLength", "removalLength", "outputLength"}
                     \cup IF h.subPic THEN {"tickDivisor", "duRemovalLength", "subPicInSei", "duOutputLength", "duCpbSizeScale"}
                          ELSE {}
  IN <<[f \in {"nal", "vcl"} \cup common |-> h[f]], [i \in DOMAIN h.layers |-> layer(h.layers[i])]>>
VuiMeaning(u) ==
  LET when(flag, fields) == IF u[flag] THEN fields ELSE {}
      seen == {"aspect", "overscan", "signal", "chromaLoc", "neutralChroma", "fieldSeq", "frameField", "timing", "restriction"}
              \cup when("aspect", {"aspectIdc"} \cup IF u.aspectIdc = 255 THEN {"sarWidth", "sarHeight"} ELSE {})
              \cup when("overscan", {"overscanAppropriate"})
              \cup when("signal", {"videoFormat", "fullRange", "colour"} \cup when("colour", {"primaries", "transfer", "matrix"}))
              \cup when("chromaLoc", {"locTop", "locBottom"})
              \cup when("timing", {"unitsInTick", "timeScale", "pocProportional", "hrdPresent"}
                                  \cup when("pocProportional", {"ticksPocDiffOne"}))
              \cup when("restriction", {"mvOverPic", "restrictedLists", "minSpatial", "maxBytes", "maxBits", "log2MvHor", "log2MvVer"})
  IN <<[f \in seen |-> u[f]], WindowMeaning(u.display), IF u.timing /\ u.hrdPresent THEN HrdMeaning(u.hrd) ELSE <<>> >>
SpsMeaning(s) ==
  LET when(c, fields) == IF c THEN fields ELSE {}
      chroma == s.chroma # 0
      apart == {"window", "rpsList", "vui", "minQTLog2", "maxBTDepth", "CIPFMode", "IBCMode"}
      unseen == when(~chroma, {"bitDepthC", "qpBDOffsetC", "pcmDepthC"})
                \cup when(~s.usePCM, {"pcmDepthY", "pcmDepthC", "pcmLog2Min", "pcmLog2Max", "pcmFilterDisable"})
                \cup when(s.QTBT = 0, {"DualITree", "ctuLog2"}) \cup when(s.Affine = 0, {"AffineType"})
                \cup when(s.SubPuMvpMode = 0, {"SubPuMvpLog2Size"}) \cup when(s.OBMC = 0, {"OBMCBlkSize"})
                \cup when(s.FRUC = 0, {"FRUCRefineFilter", "FRUCRefineRange", "FRUCSmallBlkRefineDepth"})
                \cup when(s.AClip = 0, {"AClipQuant"})
      first(sizes) == IF s.QTBT = 0 THEN <<>> ELSE SubSeq(sizes, 1, IF s.DualITree THEN 3 ELSE 2)
  IN <<[f \in DOMAIN s \ (apart \cup unseen) |-> s[f]], WindowMeaning(s.window),
       [i \in DOMAIN s.rpsList |-> RpsMeaning(s.rpsList[i])], first(s.minQTLog2), first(s.maxBTDepth),
       s.CIPFMode # 0, s.IBCMode # 0, IF s.vuiPresent THEN VuiMeaning(s.vui) ELSE <<>> >>
PpsMeaning(s) ==
  LET unseen == (IF s.dbControl THEN {} ELSE {"dbOverrideEnabled", "dbDisable"})
                \cup (IF s.dbControl /\ ~s.dbDisable THEN {} ELSE {"beta", "tc"})
                \cup (IF s.transformSkip THEN {} ELSE {"log2MaxTS"})
  IN [f \in DOMAIN s \ unseen |-> s[f]]

(***************************************************************************)
(* The encoder's sequences.  Every stream is in the profile NEXT.          *)
(***************************************************************************)
xInitSPS(s) ==
  [s EXCEPT !.profile = NEXT, !.compatible = {NEXT}, !.nesting = s.maxTLayers = 1,
            !.qpBDOffsetY = 6 * (s.bitDepthY - 8), !.qpBDOffsetC = 6 * (s.bitDepthC - 8),
            !.log2MinCb = FloorLog2(s.maxCUWidth) - s.log2DiffMaxMinCb, !.maxTrSize = 2 ^ s.log2MaxTU,
            !.dpb = [i \in 1 .. s.maxTLayers |-> [buffering |-> i + 1, reorder |-> i - 1, latency |-> 0]]]
Sizes4(s, ctuLog2, diff, minTU, maxTU) ==
  [s EXCEPT !.maxCUWidth = 2 ^ ctuLog2, !.log2DiffMaxMinCb = diff, !.log2MinTU = minTU, !.log2MaxTU = maxTU,
            !.ctuLog2 = ctuLog2, !.LargeCTU = Flag(ctuLog2 = 7), !.level = IF ctuLog2 = 4 THEN 123 ELSE 186]
Binary(s, ctuLog2) == \* EncAppCfg: the depth that reaches the smallest unit
  [Sizes4(s, ctuLog2, ctuLog2 - MIN_CU_LOG2 - 1, 2, MinOf(ctuLog2, 5)) EXCEPT !.QTBT = 1, !.maxCodingDepth = ctuLog2 - MIN_CU_LOG2]
Quad(s, ctuLog2, depth, minTU, maxTU) ==
  [Sizes4(s, ctuLog2, depth - 1, minTU, maxTU) EXCEPT !.QTBT = 0, !.maxCodingDepth = depth + MaxOf(0, ctuLog2 - depth - minTU)]
Sequence ==
  [Binary(NewSps, 7) EXCEPT !.depthInter = 3, !.depthIntra = 3, !.minQTLog2 = <<3, 3, 2>>, !.maxBTDepth = <<3, 3, 0>>,
                            !.progressive = TRUE, !.frameOnly = TRUE, !.window = Window(<<0, 0, 0, 8>>), !.tmvp = TRUE,
                            !.useSAO = TRUE, !.rpsList = xInitRPS(RandomAccess)]

StructureUnits ==
  {[Binary(Sequence, c) EXCEPT !.minQTLog2 = <<3, c, 2>>, !.maxBTDepth = b, !.DualITree = d, !.useAMP = d] :
     c \in 4 .. 7, b \in {<<3, 2, 0>>, <<0, 5, 3>>}, d \in BOOLEAN}
  \cup {[Binary(Sequence, c) EXCEPT !.minQTLog2 = <<c, 2, c - 1>>, !.DualITree = TRUE, !.useALF = TRUE] : c \in 4 .. 7}
  \cup UNION {{Quad(Sequence, c, d, t, m) : m \in t .. MinOf(c, 5)} :
                <<c, d, t>> \in {x \in (4 .. 6) \X (1 .. 4) \X (2 .. 4) : x[1] - x[2] >= MaxOf(2, x[3])}}
FormatUnits ==
  LET layered(s, n) == [s EXCEPT !.maxTLayers = n, !.highTier = n = 1, !.width = 416, !.height = 240,
                                 !.window = Window(IF n = 1 THEN WinUnit(s.chroma) ELSE <<0, 8, 0, 4>>)]
      pcm(s, k) == [s EXCEPT !.usePCM = k # <<>>, !.pcmLog2Min = IF k = <<>> THEN 3 ELSE k[1],
                             !.pcmLog2Max = IF k = <<>> THEN 5 ELSE k[2], !.pcmFilterDisable = k = <<5, 5>>,
                             !.pcmDepthY = IF k = <<5, 5>> THEN s.bitDepthY ELSE 8, !.pcmDepthC = IF k = <<5, 5>> THEN s.bitDepthC ELSE 8]
  IN {pcm(layered([Sequence EXCEPT !.chroma = c, !.bitDepthY = b[1], !.bitDepthC = b[2]], n), k) :
        c \in {0, 1, 3}, b \in {<<8, 8>>, <<10, 10>>, <<12, 10>>}, n \in {1, 3}, k \in {<<>>, <<3, 5>>, <<5, 5>>}}
ListUnits ==
  {[Sequence EXCEPT !.rpsList = xInitRPS(g), !.longTerm = lt, !.tmvp = t] :
     g \in {RandomAccess, LowDelay}, lt \in BOOLEAN, t \in BOOLEAN}
\* Tools: from none and from all, with and without the binary tree.
ToolUnits ==
  LET sized(s) == [s EXCEPT !.SubPuMvpLog2Size = 3, !.OBMCBlkSize = 8, !.FRUCRefineRange = 128]
      none == sized(Sequence)
      all  == [f \in DOMAIN none |-> CASE f \in ToolFlags -> 1 [] \E m \in ToolModes : m[1] = f -> 2 [] OTHER -> none[f]]
      quad == Quad(none, 6, 4, 2, 5)
      modes == {<<f, v>> : f \in ToolFlags \ {"QTBT", "LargeCTU"}, v \in 0 .. 1} \cup UNION {{<<m[1], v>> : v \in 0 .. m[2]} : m \in ToolModes}
  IN {[s EXCEPT ![m[1]] = m[2]] : s \in {none, all}, m \in modes}
     \cup {[quad EXCEPT ![m[1]] = m[2]] : m \in {x \in modes : x[1] \notin {"MTTMode", "DMVR"} /\ x[2] # 0}}
     \cup {[all EXCEPT !.SubPuMvpLog2Size = z] : z \in 2 .. 6} \cup {[all EXCEPT !.AClipQuant = q, !.bitDepthY = 8 + q, !.bitDepthC = 8 + q] : q \in {2, 4}}
     \cup {[all EXCEPT !.OBMCBlkSize = 4, !.FRUCRefineFilter = f, !.FRUCRefineRange = 16 * g, !.FRUCSmallBlkRefineDepth = d] :
             f \in 0 .. 1, g \in {0, 1, 8}, d \in {0, 3}}
\* Usability information: one part at a time, and all of them.
VuiUnits ==
  LET shown(v) == [Sequence EXCEPT !.vuiPresent = TRUE, !.vui = v]
      base == [NewVui EXCEPT !.display = Window(<<0, 0, 0, 0>>), !.restrictedLists = TRUE]
      size(v) == [v EXCEPT !.aspect = TRUE, !.aspectIdc = 255, !.sarWidth = 16, !.sarHeight = 11]
      signal(v) == [v EXCEPT !.signal = TRUE, !.videoFormat = 2, !.fullRange = TRUE]
      colour(v) == [signal(v) EXCEPT !.colour = TRUE, !.primaries = 9, !.transfer = 16, !.matrix = 9]
      limits(v) == [v EXCEPT !.restriction = TRUE, !.mvOverPic = FALSE, !.minSpatial = 4095, !.maxBytes = 0, !.log2MvVer = 9]
      loc(v) == [v EXCEPT !.chromaLoc = TRUE, !.locTop = 2, !.locBottom = 3, !.display = Window(<<2, 4, 6, 8>>)]
      scan(v) == [v EXCEPT !.overscan = TRUE, !.overscanAppropriate = TRUE, !.frameField = TRUE]
  IN {shown(v) : v \in {base, size(base), [base EXCEPT !.aspect = TRUE, !.aspectIdc = 1], signal(base), colour(base),
                        limits(base), loc(base), scan(base), [base EXCEPT !.neutralChroma = TRUE, !.overscan = TRUE],
                        size(colour(limits(loc(scan(base)))))}}
\* EncLib::xInitHrdParameters: all layers have one buffer with the same values.
xInitHrdParameters(vui, layers, rate, useSubCpbParams, length) ==
  LET buffer == [bitRate |-> rate, cpbSize |-> 2 * rate, duCpbSize |-> rate, duBitRate |-> 2 * rate, cbr |-> FALSE]
      layer == [fixed |-> TRUE, within |-> FALSE, duration |-> 0, lowDelay |-> FALSE, cpbCnt |-> 0,
                nalCpb |-> <<buffer>>, vclCpb |-> <<buffer>>]
      sub(h) == [h EXCEPT !.subPic = TRUE, !.tickDivisor = 98, !.duRemovalLength = 7, !.subPicInSei = TRUE, !.duOutputLength = 12]
      hrd == [NewHrd EXCEPT !.nal = rate > 0, !.vcl = rate > 0, !.bitRateScale = 4, !.cpbSizeScale = 15, !.duCpbSizeScale = 6,
                            !.initialLength = 15, !.removalLength = length, !.outputLength = length,
                            !.layers = [i \in 1 .. layers |-> layer]]
  IN [vui EXCEPT !.timing = TRUE, !.hrd = IF useSubCpbParams THEN sub(hrd) ELSE hrd]
HrdUnits ==
  {[Sequence EXCEPT !.maxTLayers = n, !.vuiPresent = TRUE,
       !.vui = [xInitHrdParameters(NewVui, n, rate, sub, IF poc THEN 5 ELSE 9) EXCEPT
                  !.display = Window(<<0, 0, 0, 0>>), !.hrdPresent = h, !.pocProportional = poc, !.ticksPocDiffOne = 3,
                  !.unitsInTick = IF sub THEN 450450 ELSE 1001, !.timeScale = IF sub THEN 27000000 ELSE 60000]] :
     n \in {1, 3}, rate \in {0, 975}, sub \in BOOLEAN, poc \in BOOLEAN, h \in BOOLEAN}

SpsFamilies == {"structure", "format", "lists", "tools", "vui", "hrd"}
SpsParams == {[family |-> f] : f \in SpsFamilies}
SpsUnits(p) ==
  LET units == CASE p.family = "structure" -> StructureUnits [] p.family = "format" -> FormatUnits
                 [] p.family = "lists" -> ListUnits [] p.family = "tools" -> ToolUnits
                 [] p.family = "vui" -> VuiUnits [] p.family = "hrd" -> HrdUnits
  IN {xInitSPS(s) : s \in units}

(***************************************************************************)
(* The encoder's picture parameter sets.                                   *)
(***************************************************************************)
xInitPPS(s) ==
  [s EXCEPT !.cabacInitPresent = TRUE,
            !.dbControl = s.dbOverrideEnabled \/ s.dbDisable \/ s.beta # 0 \/ s.tc # 0]
PpsFlags == {"constrainedIntra", "transformSkip", "sliceChromaQp", "useWP", "WPBiPred", "transquantBypass", "lfAcross"}
PpsFamilies == {"flags", "quantiser", "deblocking", "scales"}
PpsParams == {[family |-> f] : f \in PpsFamilies}
PpsUnits(p) ==
  LET units ==
        CASE p.family = "flags" ->
               {[f \in DOMAIN NewPps |-> IF f \in PpsFlags THEN f \in on ELSE IF f = "numRef" THEN n ELSE NewPps[f]] :
                  on \in {o \in SUBSET PpsFlags : Cardinality(o) \in {0, 1, 6, 7}}, n \in {<<1, 1>>, <<4, 4>>, <<5, 4>>}}
          [] p.family = "quantiser" ->
               {[NewPps EXCEPT !.initQPMinus26 = q, !.useDQP = d >= 0, !.maxCuDQPDepth = MaxOf(0, d), !.cbOffset = o, !.crOffset = -o] :
                  q \in {-26, -1, 0, 25}, d \in {-1, 0, 2}, o \in {-12, 0, 1, 12}}
          [] p.family = "deblocking" ->
               {[NewPps EXCEPT !.dbOverrideEnabled = e, !.beta = b, !.tc = t] : e \in BOOLEAN, b \in {-6, 0, 6}, t \in {-6, 0, 3}}
               \cup {[NewPps EXCEPT !.dbOverrideEnabled = e, !.dbDisable = TRUE] : e \in BOOLEAN}
          [] p.family = "scales" ->
               {[NewPps EXCEPT !.ppsId = i, !.transformSkip = t, !.qpOffsetList = IF d < 0 THEN <<>> ELSE << <<6, 6>> >>,
                               !.chromaQpDepth = MaxOf(0, d), !.saoScale = z, !.log2ParMrgMinus2 = i] :
                  i \in 0 .. 2, t \in BOOLEAN, d \in {-1, 0, 2}, z \in {<<0, 0>>, <<1, 0>>, <<2, 2>>}}
  IN {xInitPPS(s) : s \in units}
=============================================================================
