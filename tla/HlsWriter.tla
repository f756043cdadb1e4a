----------------------------- MODULE HlsWriter -----------------------------
(***************************************************************************)
(* HLSWriter: the bits it writes for slice headers and parameter sets.  A  *)
(* parameter set is a record of the members of SPS or PPS; those of the    *)
(* VUI and of the HRD are records in it.  Members of SPSNext are numbers:  *)
(* 0 where a tool is off, else its mode.                                   *)
(***************************************************************************)
EXTENDS BinWriter, HlsCoding

xWriteFlag(flag) == encodeBinsPCM(Flag(flag), 1)
xWriteCode(code, length) == encodeBinsPCM(code, length)
xWriteUvlc(code) ==
  LET n == FloorLog2(code + 1) IN encodeBinsPCM(0, n) \o encodeBinsPCM(code + 1, n + 1)
xWriteSvlc(code) == xWriteUvlc(IF code <= 0 THEN -2 * code ELSE 2 * code - 1)
WriteEach(n, write(_)) == FlattenSeq([i \in 1 .. n |-> write(i)])

(***************************************************************************)
(* Reference pictures.                                                     *)
(***************************************************************************)
\* The set of this number in the sequence; a slice may send one more, and then
\* says by which of the others it tells it.
xCodeShortTermRefPicSet(rps, calledFromSliceHeader, idx) ==
  LET idc(j) == xWriteFlag(rps.idc[j] = 1) \o OnlyIf(rps.idc[j] # 1, xWriteFlag(rps.idc[j] = 2))
      neg == Len(NegPart(rps))
      prev(j) == IF j \in {1, neg + 1} THEN 0 ELSE rps.deltas[j - 1]
      one(j) == xWriteUvlc(AbsOf(rps.deltas[j] - prev(j)) - 1) \o xWriteFlag(rps.used[j])
  IN OnlyIf(idx > 0, xWriteFlag(rps.inter))
     \o IF rps.inter
        THEN OnlyIf(calledFromSliceHeader, xWriteUvlc(rps.ridx)) \o xWriteFlag(rps.deltaRPS < 0) \o xWriteUvlc(AbsOf(rps.deltaRPS) - 1)
             \o WriteEach(Len(rps.idc), idc)
        ELSE xWriteUvlc(neg) \o xWriteUvlc(Len(rps.deltas) - neg) \o WriteEach(Len(rps.deltas), one)

\* One long-term picture at most (the composite reference), named by the low
\* bits of its POC.
longTermRefPics(p, h) ==
  LET one(i) == xWriteCode(h.lt[i] % 2 ^ p.bitsForPOC, p.bitsForPOC) \o xWriteFlag(TRUE) \o xWriteFlag(FALSE)
  IN xWriteUvlc(Len(h.lt)) \o WriteEach(Len(h.lt), one)
pictureOrder(p, h) ==
  OnlyIf(~p.idr,
    xWriteCode((h.poc - p.lastIDR + 2 ^ p.bitsForPOC) % 2 ^ p.bitsForPOC, p.bitsForPOC)
    \o xWriteFlag(h.rpsIdx >= 0)
    \o (IF h.rpsIdx < 0 THEN xCodeShortTermRefPicSet(h.rps, TRUE, Len(p.rpsList))
                        ELSE xWriteCode(h.rpsIdx, BitsFor(Len(p.rpsList))))
    \o OnlyIf(p.longTerm, longTermRefPics(p, h))
    \o OnlyIf(p.tmvpPresent, xWriteFlag(h.tmvp)))
references(p, h) ==
  LET override == h.numRef[1] # p.numRefDefault[1] \/ (h.type = "B" /\ h.numRef[2] # p.numRefDefault[2])
  IN OnlyIf(h.type # "I",
       xWriteFlag(override)
       \o OnlyIf(override, xWriteUvlc(h.numRef[1] - 1) \o OnlyIf(h.type = "B", xWriteUvlc(h.numRef[2] - 1)))
       \o OnlyIf(h.type = "B", xWriteFlag(h.mvdL1Zero))
       \o OnlyIf(p.cabacInitPresent, xWriteFlag(h.encTable \notin {h.type, "I"})))
     \o OnlyIf(h.tmvp, OnlyIf(h.type = "B", xWriteFlag(h.colFromL0))
                       \o OnlyIf(h.type # "I" /\ ColChoice(h), xWriteUvlc(h.colRefIdx)))
xCodePredWeightTable(p, h) ==
  LET luma(e) == xWriteSvlc(e.w[1] - 2 ^ h.denomY) \o xWriteSvlc(e.o[1])
      comp(e, j) == xWriteSvlc(e.w[j] - 2 ^ h.denomC) \o xWriteSvlc(e.o[j] - WpPred(e.w[j], h.denomC))
      list(l) == LET n == h.numRef[l]
                     lumaFlag(i) == xWriteFlag(h.wp[l][i].y)
                     chromaFlag(i) == xWriteFlag(h.wp[l][i].c)
                     entry(i) == OnlyIf(h.wp[l][i].y, luma(h.wp[l][i]))
                                 \o OnlyIf(p.chroma /\ h.wp[l][i].c, comp(h.wp[l][i], 2) \o comp(h.wp[l][i], 3))
                 IN WriteEach(n, lumaFlag) \o OnlyIf(p.chroma, WriteEach(n, chromaFlag)) \o WriteEach(n, entry)
  IN OnlyIf(Weighted(p, h),
       xWriteUvlc(h.denomY) \o OnlyIf(p.chroma, xWriteSvlc(h.denomC - h.denomY))
       \o list(1) \o OnlyIf(h.type = "B", list(2)))

(***************************************************************************)
(* Adaptive loop filter.                                                   *)
(***************************************************************************)
TruncBin(symbol, max) ==
  LET thresh == FloorLog2(max)
      short  == 2 * 2 ^ thresh - max
  IN IF symbol < short THEN xWriteCode(symbol, thresh) ELSE xWriteCode(symbol + short, thresh + 1)
truncatedUnaryEqProb(symbol, max) == LET ctx(i) == PCM IN Unary(symbol, max, ctx)
lengthGolomb(abs, k) == abs \div 2 ^ k + k + (IF abs # 0 THEN 2 ELSE 1)
\* The order of the code of each class of coefficients, at least that of the
\* class before and at most one more; the start that needs the fewest bits.
getGolombKMin(filters, seven) ==
  LET bits == [c \in 1 .. MaxGolombIdx(seven) |-> [k \in 1 .. 11 |->
                 FoldLeft(LAMBDA n, f : n + FoldLeft(LAMBDA m, i : IF GolombIdx(seven)[i] = c
                                                     THEN m + lengthGolomb(AbsOf(f[i]), k) ELSE m,
                                                     0, [i \in 1 .. Len(f) |-> i]), 0, filters)]]
      next(k, c) == IF bits[c][k + 1] < bits[c][k] THEN k + 1 ELSE k
      tab(start) == FoldLeft(LAMBDA t, c : Append(t, next(IF t = <<>> THEN start ELSE Last(t), c)), <<>>,
                             [c \in 1 .. MaxGolombIdx(seven) |-> c])
      cost(start) == FoldLeft(LAMBDA n, c : n + bits[c][tab(start)[c]], 0, [c \in 1 .. MaxGolombIdx(seven) |-> c])
      best == CHOOSE k \in 1 .. 7 : \A j \in 1 .. 7 : cost(k) < cost(j) \/ (cost(k) = cost(j) /\ k <= j)
  IN <<best>> \o tab(best)
\* Quotient in ones, remainder from its lowest bit on, sign.
alfGolombEncode(coeff, k) ==
  LET abs == AbsOf(coeff)
      bit(i) == xWriteFlag((abs \div 2 ^ (i - 1)) % 2 = 1)
      ctx(i) == PCM
  IN Unary(abs \div 2 ^ k, abs \div 2 ^ k + 1, ctx) \o WriteEach(k, bit) \o OnlyIf(coeff # 0, xWriteFlag(coeff > 0))
alfFilter(a, isChroma) ==
  LET seven == ~isChroma /\ a.seven
      some  == ~isChroma /\ a.deltaFlag
      filters == IF isChroma THEN <<a.chromaCoeff>> ELSE a.coeff
      sent == SelectSeq([i \in 1 .. Len(filters) |-> i], LAMBDA i : ~some \/ a.flags[i])
      flag(i) == xWriteFlag(a.flags[i])
      body(kMin) ==
        LET order(c) == xWriteFlag(kMin[c + 1] # kMin[c])
            filter(n) == LET f == filters[sent[n]]
                             coeff(i) == alfGolombEncode(f[i], kMin[GolombIdx(seven)[i] + 1])
                         IN WriteEach(Len(f), coeff)
        IN xWriteUvlc(kMin[1] - 1) \o WriteEach(MaxGolombIdx(seven), order)
           \o OnlyIf(some, WriteEach(Len(filters), flag)) \o WriteEach(Len(sent), filter)
  IN OnlyIf(~isChroma, xWriteFlag(a.deltaFlag)
                       \o OnlyIf(~a.deltaFlag /\ Len(a.coeff) > 1, xWriteFlag(a.predMode)))
     \o body(getGolombKMin([n \in 1 .. Len(sent) |-> filters[sent[n]]], seven))
alf(a) ==
  LET n == Len(a.coeff)
      class(i) == TruncBin(a.deltaIdx[i], n)
      idc == 2 * Flag(a.cb) + Flag(a.cr)
  IN xWriteFlag(a.luma)
     \o OnlyIf(a.luma,
          truncatedUnaryEqProb(idc, 3) \o TruncBin(n - 1, MAX_NUM_ALF_CLASSES) \o xWriteFlag(~a.seven)
          \o OnlyIf(n > 1, WriteEach(MAX_NUM_ALF_CLASSES, class)) \o alfFilter(a, FALSE)
          \o OnlyIf(idc # 0, xWriteFlag(a.ctbPresent) \o alfFilter(a, TRUE)))

(***************************************************************************)
(* The header.                                                             *)
(***************************************************************************)
tools(p, h) ==
  OnlyIf(p.LIC /\ h.type # "I", xWriteFlag(h.useLIC))
  \o xWriteFlag(h.depQuant) \o OnlyIf(~h.depQuant, xWriteFlag(h.signHiding))
  \o OnlyIf(h.type # "I", xWriteUvlc(MaxOf(p.ctuLog2 - h.maxBT, 0)) \o xWriteUvlc(MaxMerge(p) - h.maxMerge))
  \o xWriteSvlc(h.qp - p.initQP)
  \o OnlyIf(p.chromaQpFlag, xWriteSvlc(h.cbQp) \o xWriteSvlc(h.crQp))
  \o OnlyIf(p.chromaAdjList, xWriteFlag(h.chromaAdj))
deblocking(p, h) ==
  OnlyIf(p.dbControl, OnlyIf(p.dbOverrideEnabled, xWriteFlag(h.dbOverride))
    \o OnlyIf(h.dbOverride, xWriteFlag(h.dbDisable)
         \o OnlyIf(~h.dbDisable, xWriteSvlc(h.beta) \o xWriteSvlc(h.tc))))
  \o OnlyIf(p.lfAcross /\ FiltersOn(p, h), xWriteFlag(h.lfAcross))
clipping(p, h) ==
  LET pair(c) == xWriteCode(c[1] \div 2 ^ p.clipQuant, p.bitDepth - p.clipQuant)
                 \o xWriteCode(c[2] \div 2 ^ p.clipQuant, p.bitDepth - p.clipQuant)
  IN OnlyIf(h.addr = 0 /\ p.AClip, xWriteFlag(h.clip.used)
       \o OnlyIf(h.clip.used, pair(h.clip.y) \o xWriteFlag(h.clip.chroma)
            \o OnlyIf(h.clip.chroma, pair(h.clip.c[1]) \o pair(h.clip.c[2]))))
codeSliceHeader(p, h) ==
  xWriteFlag(h.addr = 0) \o OnlyIf(p.rap, xWriteFlag(h.noOutputPrior)) \o xWriteUvlc(p.ppsId)
  \o OnlyIf(h.addr > 0, xWriteCode(h.addr, BitsFor(p.numCtus)))
  \o xWriteUvlc(CHOOSE i \in 0 .. 2 : SliceTypes[i + 1] = h.type)
  \o OnlyIf(p.outputPresent, xWriteFlag(h.output))
  \o pictureOrder(p, h)
  \o OnlyIf(p.useSAO, xWriteFlag(h.saoLuma) \o OnlyIf(p.chroma, xWriteFlag(h.saoChroma)))
  \o OnlyIf(p.useALF, alf(h.alf))
  \o references(p, h) \o xCodePredWeightTable(p, h) \o tools(p, h) \o deblocking(p, h) \o clipping(p, h)
  \o OnlyIf(p.SubPuMvp /\ h.type # "I",
       xWriteFlag(h.subblkEnable) \o OnlyIf(h.subblkEnable, xWriteCode(h.subblkLog2 - MIN_CU_LOG2, 3)))

\* initCtxModels: the initial context states are those of the table that the
\* last slice would have coded best with.
ContextTable(p, h) ==
  IF p.cabacInitPresent /\ h.type # "I" /\ h.encTable \in {"B", "P"} THEN h.encTable ELSE h.type

-----------------------------------------------------------------------------
(* Parameter sets.                                                         *)

Flags(s, fields) == FlattenSeq([i \in DOMAIN fields |-> xWriteFlag(s[fields[i]])])
Modes(s, fields) == FlattenSeq([i \in DOMAIN fields |-> xWriteFlag(s[fields[i]] # 0)])
Uvlcs(s, fields) == FlattenSeq([i \in DOMAIN fields |-> xWriteUvlc(s[fields[i]])])
\* A number of 32 bits, of which the model uses 30.
xWriteLong(code) == xWriteCode(0, 2) \o xWriteCode(code, 30)
xWriteRbspTrailingBits(bins) == bins \o xWriteFlag(TRUE) \o xWriteCode(0, 7 - (Len(bins) % 8))
codeWindow(window, chroma) ==
  LET offset(i) == xWriteUvlc(window.offsets[i] \div WinUnit(chroma)[i])
  IN xWriteFlag(window.enabled) \o OnlyIf(window.enabled, WriteEach(4, offset))

(***************************************************************************)
(* Profile and level; sub-layers have none of their own.                   *)
(***************************************************************************)
codeProfileTier(s) ==
  LET compatible(j) == xWriteFlag(j - 1 \in s.compatible)
  IN xWriteCode(0, 2) \o xWriteFlag(s.highTier) \o xWriteCode(s.profile, 5) \o WriteEach(32, compatible)
     \o Flags(s, <<"progressive", "interlaced", "nonPacked", "frameOnly">>)
     \o xWriteCode(0, 16) \o xWriteCode(0, 16) \o xWriteCode(0, 11) \o xWriteFlag(FALSE)
codePTL(s, maxNumSubLayersMinus1) ==
  LET absent(i)   == xWriteFlag(FALSE) \o xWriteFlag(FALSE)
      reserved(i) == xWriteCode(0, 2)
  IN codeProfileTier(s) \o xWriteCode(s.level, 8) \o WriteEach(maxNumSubLayersMinus1, absent)
     \o OnlyIf(maxNumSubLayersMinus1 > 0, WriteEach(8 - maxNumSubLayersMinus1, reserved))

(***************************************************************************)
(* Usability information and the hypothetical decoder.                     *)
(***************************************************************************)
codeHrdParameters(hrd, maxNumSubLayersMinus1) ==
  LET common ==
        xWriteFlag(hrd.subPic)
        \o OnlyIf(hrd.subPic, xWriteCode(hrd.tickDivisor, 8) \o xWriteCode(hrd.duRemovalLength, 5)
                              \o xWriteFlag(hrd.subPicInSei) \o xWriteCode(hrd.duOutputLength, 5))
        \o xWriteCode(hrd.bitRateScale, 4) \o xWriteCode(hrd.cpbSizeScale, 4)
        \o OnlyIf(hrd.subPic, xWriteCode(hrd.duCpbSizeScale, 4))
        \o xWriteCode(hrd.initialLength, 5) \o xWriteCode(hrd.removalLength, 5) \o xWriteCode(hrd.outputLength, 5)
      buffer(b) == Uvlcs(b, <<"bitRate", "cpbSize">>) \o OnlyIf(hrd.subPic, Uvlcs(b, <<"duCpbSize", "duBitRate">>))
                   \o xWriteFlag(b.cbr)
      layer(i) ==
        LET l == hrd.layers[i]
            buffers(list) == FlattenSeq([j \in 1 .. l.cpbCnt + 1 |-> buffer(list[j])])
        IN xWriteFlag(l.fixed) \o OnlyIf(~l.fixed, xWriteFlag(l.within))
           \o (IF l.fixed \/ l.within THEN xWriteUvlc(l.duration) ELSE xWriteFlag(l.lowDelay))
           \o OnlyIf(~l.lowDelay, xWriteUvlc(l.cpbCnt))
           \o OnlyIf(hrd.nal, buffers(l.nalCpb)) \o OnlyIf(hrd.vcl, buffers(l.vclCpb))
  IN Flags(hrd, <<"nal", "vcl">>) \o OnlyIf(hrd.nal \/ hrd.vcl, common) \o WriteEach(maxNumSubLayersMinus1 + 1, layer)
codeVUI(vui, s) ==
  LET timing ==
        xWriteLong(vui.unitsInTick) \o xWriteLong(vui.timeScale)
        \o xWriteFlag(vui.pocProportional) \o OnlyIf(vui.pocProportional, xWriteUvlc(vui.ticksPocDiffOne))
        \o xWriteFlag(vui.hrdPresent) \o OnlyIf(vui.hrdPresent, codeHrdParameters(vui.hrd, s.maxTLayers - 1))
  IN xWriteFlag(vui.aspect)
     \o OnlyIf(vui.aspect, xWriteCode(vui.aspectIdc, 8)
          \o OnlyIf(vui.aspectIdc = 255, xWriteCode(vui.sarWidth, 16) \o xWriteCode(vui.sarHeight, 16)))
     \o xWriteFlag(vui.overscan) \o OnlyIf(vui.overscan, xWriteFlag(vui.overscanAppropriate))
     \o xWriteFlag(vui.signal)
     \o OnlyIf(vui.signal, xWriteCode(vui.videoFormat, 3) \o Flags(vui, <<"fullRange", "colour">>)
          \o OnlyIf(vui.colour, xWriteCode(vui.primaries, 8) \o xWriteCode(vui.transfer, 8) \o xWriteCode(vui.matrix, 8)))
     \o xWriteFlag(vui.chromaLoc) \o OnlyIf(vui.chromaLoc, Uvlcs(vui, <<"locTop", "locBottom">>))
     \o Flags(vui, <<"neutralChroma", "fieldSeq", "frameField">>)
     \o codeWindow(vui.display, s.chroma)
     \o xWriteFlag(vui.timing) \o OnlyIf(vui.timing, timing)
     \o xWriteFlag(vui.restriction)
     \o OnlyIf(vui.restriction, Flags(vui, <<"mvOverPic", "restrictedLists">>)
          \o Uvlcs(vui, <<"minSpatial", "maxBytes", "maxBits", "log2MvHor", "log2MvVer">>))

(***************************************************************************)
(* Sequences.                                                              *)
(***************************************************************************)
codeSPSNext(s) ==
  LET mode(f) == OnlyIf(s[f] # 0, xWriteUvlc(s[f] - 1))
      tree == xWriteFlag(s.DualITree) \o xWriteUvlc(s.ctuLog2 - MIN_CU_LOG2)
              \o xWriteUvlc(s.minQTLog2[1] - MIN_CU_LOG2) \o xWriteUvlc(s.minQTLog2[2] - MIN_CU_LOG2)
              \o xWriteUvlc(s.maxBTDepth[1]) \o xWriteUvlc(s.maxBTDepth[2])
              \o OnlyIf(s.DualITree, xWriteUvlc(s.minQTLog2[3] - MIN_CU_LOG2) \o xWriteUvlc(s.maxBTDepth[3]))
  IN Modes(s, <<"QTBT", "NSST", "Intra4Tap", "LargeCTU", "IntraBoundaryFilter", "SubPuMvpMode", "CABACEngineMode",
                "ImvMode", "BIO", "DisableMotCompress", "LICMode", "IntraPDPCMode", "LMChroma", "IntraEMT", "InterEMT",
                "OBMC", "FRUC", "Affine">>)
     \o OnlyIf(s.Affine # 0, Modes(s, <<"AffineType">>))
     \o Modes(s, <<"AClip", "CIPFMode", "BIF", "DMVR", "MDMS", "IBCMode", "GBi">>)
     \o xWriteCode(0, NumReservedFlags) \o Modes(s, <<"MTTMode", "NextDQP">>)
     \o OnlyIf(s.QTBT # 0, tree)
     \o OnlyIf(s.SubPuMvpMode # 0, xWriteCode(s.SubPuMvpLog2Size - MIN_CU_LOG2, 3)
          \o xWriteFlag(s.SubPuMvpMode % 2 = 1) \o xWriteFlag(s.SubPuMvpMode \div 2 = 1))
     \o mode("CABACEngineMode") \o mode("ImvMode") \o mode("LICMode") \o mode("MTTMode")
     \o OnlyIf(s.OBMC # 0, xWriteUvlc(s.OBMCBlkSize))
     \o OnlyIf(s.FRUC # 0, xWriteUvlc(s.FRUCRefineFilter) \o xWriteUvlc(s.FRUCRefineRange \div 16)
                           \o xWriteUvlc(s.FRUCSmallBlkRefineDepth))
     \o OnlyIf(s.AClip # 0, xWriteCode(s.AClipQuant \div 2, 2))
     \o OnlyIf(s.IntraPDPCMode # 0, xWriteFlag(s.IntraPDPCMode = 2))
codeSPS(s) ==
  LET chroma == s.chroma # 0
      layer(i) == xWriteUvlc(s.dpb[i].buffering - 1) \o Uvlcs(s.dpb[i], <<"reorder", "latency">>)
      set(i) == xCodeShortTermRefPicSet(s.rpsList[i], FALSE, i - 1)
      pcm == xWriteCode(s.pcmDepthY - 1, 4) \o xWriteCode(IF chroma THEN s.pcmDepthC - 1 ELSE 0, 4)
             \o xWriteUvlc(s.pcmLog2Min - 3) \o xWriteUvlc(s.pcmLog2Max - s.pcmLog2Min) \o xWriteFlag(s.pcmFilterDisable)
  IN xWriteRbspTrailingBits(
       xWriteCode(s.maxTLayers - 1, 3) \o xWriteFlag(s.nesting) \o codePTL(s, s.maxTLayers - 1)
       \o Uvlcs(s, <<"spsId", "chroma">>) \o OnlyIf(s.chroma = 3, xWriteFlag(FALSE))
       \o Uvlcs(s, <<"width", "height">>) \o codeWindow(s.window, s.chroma)
       \o xWriteUvlc(s.bitDepthY - 8) \o xWriteUvlc(IF chroma THEN s.bitDepthC - 8 ELSE 0)
       \o xWriteUvlc(s.bitsForPOC - 4) \o xWriteFlag(TRUE) \o WriteEach(s.maxTLayers, layer)
       \o xWriteUvlc(s.log2MinCb - 3) \o xWriteUvlc(s.log2DiffMaxMinCb)
       \o xWriteUvlc(s.log2MinTU - 2) \o xWriteUvlc(s.log2MaxTU - s.log2MinTU)
       \o xWriteUvlc(s.depthInter - 1) \o xWriteUvlc(s.depthIntra - 1)
       \o Flags(s, <<"useALF", "useAMP", "useSAO", "usePCM">>) \o OnlyIf(s.usePCM, pcm)
       \o xWriteUvlc(Len(s.rpsList)) \o WriteEach(Len(s.rpsList), set)
       \o xWriteFlag(s.longTerm) \o OnlyIf(s.longTerm, xWriteUvlc(0)) \o Flags(s, <<"tmvp", "vuiPresent">>)
       \o OnlyIf(s.vuiPresent, codeVUI(s.vui, s))
       \o OnlyIf(s.profile = NEXT, xWriteFlag(TRUE) \o xWriteCode(2 ^ (7 - SPS_EXT__NEXT), NumExtensionFlags)
                                   \o codeSPSNext(s)))

(***************************************************************************)
(* Pictures.                                                               *)
(***************************************************************************)
settingsDifferFromDefaults(s) ==
  (s.transformSkip /\ s.log2MaxTS # 2) \/ s.crossComponent \/ s.qpOffsetList # <<>> \/ s.saoScale # <<0, 0>>
codePPS(s) ==
  LET offset(i) == xWriteSvlc(s.qpOffsetList[i][1]) \o xWriteSvlc(s.qpOffsetList[i][2])
      range == OnlyIf(s.transformSkip, xWriteUvlc(s.log2MaxTS - 2)) \o xWriteFlag(s.crossComponent)
               \o xWriteFlag(s.qpOffsetList # <<>>)
               \o OnlyIf(s.qpOffsetList # <<>>, xWriteUvlc(s.chromaQpDepth) \o xWriteUvlc(Len(s.qpOffsetList) - 1)
                                                \o WriteEach(Len(s.qpOffsetList), offset))
               \o xWriteUvlc(s.saoScale[1]) \o xWriteUvlc(s.saoScale[2])
      deblock == Flags(s, <<"dbOverrideEnabled", "dbDisable">>)
                 \o OnlyIf(~s.dbDisable, xWriteSvlc(s.beta) \o xWriteSvlc(s.tc))
  IN xWriteRbspTrailingBits(
       Uvlcs(s, <<"ppsId", "spsId">>) \o xWriteFlag(s.outputPresent) \o xWriteCode(s.extraBits, 3)
       \o xWriteFlag(s.cabacInitPresent) \o xWriteUvlc(s.numRef[1] - 1) \o xWriteUvlc(s.numRef[2] - 1)
       \o xWriteSvlc(s.initQPMinus26) \o Flags(s, <<"constrainedIntra", "transformSkip", "useDQP">>)
       \o OnlyIf(s.useDQP, xWriteUvlc(s.maxCuDQPDepth)) \o xWriteSvlc(s.cbOffset) \o xWriteSvlc(s.crOffset)
       \o Flags(s, <<"sliceChromaQp", "useWP", "WPBiPred", "transquantBypass", "lfAcross", "dbControl">>)
       \o OnlyIf(s.dbControl, deblock)
       \o xWriteFlag(s.listsModification) \o xWriteUvlc(s.log2ParMrgMinus2) \o xWriteFlag(s.headerExtension)
       \o xWriteFlag(settingsDifferFromDefaults(s))
       \o OnlyIf(settingsDifferFromDefaults(s), xWriteCode(2 ^ (7 - PPS_EXT__REXT), NumExtensionFlags) \o range))
=============================================================================
