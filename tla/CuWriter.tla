------------------------------ MODULE CuWriter ------------------------------
(***************************************************************************)
(* CABACWriter::coding_unit and what it calls: the bins of one coding unit *)
(* cu.  Its residuals are symbols of their own here (ResidualWriter has    *)
(* them), its quantiser step and the end of the CTU are CodingTree's.      *)
(***************************************************************************)
EXTENDS BinWriter, CuCoding

cu_transquant_bypass_flag(p, cu) ==
  OnlyIf(p.bypassEnabled, encodeBin(Flag(cu.bypass), Ctx("TransquantBypassFlag", 0)))
cu_skip_flag(p, cu) == OnlyIf(SkipFlagCoded(p), encodeBin(Flag(cu.skip), CtxSkipFlag(p)))
pred_mode(p, cu) ==
  OnlyIf(p.slice # "I", encodeBin(Flag(cu.predMode = "INTRA"), Ctx("PredMode", 0)))
pdpc_flag(p, cu) == OnlyIf(PdpcCoded(p, cu), encodeBin(Flag(cu.pdpc), Ctx("PdpcFlag", 0)))

pcm_samples(p, cu) == FlattenSeq([i \in 1 .. 3 |-> encodeBinsPCM(cu.pcm[i], p.pcmBits[i])])
pcm_data(p, cu) ==
  OnlyIf(PcmCoded(p), encodeBinTrm(Flag(cu.ipcm)) \o OnlyIf(cu.ipcm, pcm_samples(p, cu)))

(***************************************************************************)
(* Intra modes.                                                            *)
(***************************************************************************)
\* A mode that is not probable is numbered among those that are not: from the
\* largest probable mode down, each below it takes one off.
Unlikely(mpms, mode) ==
  LET less(m, q) == IF m > q THEN m - 1 ELSE m
  IN FoldLeft(less, mode, Reverse(SortSeq(mpms, LAMBDA a, b : a < b)))
intra_luma_pred_modes(p, cu) ==
  LET mpms == getIntraMPMs(p)
      at   == {i \in 1 .. 3 : mpms[i] = cu.lumaMode}
      idx  == (CHOOSE i \in at : \A j \in at : i <= j) - 1
  IN OnlyIf(HasLuma(p),
       encodeBin(Flag(at # {}), CtxOf("IPredMode", 0, 0))
       \o (IF at = {} THEN encodeBinsEP(Unlikely(mpms, cu.lumaMode), 6)
           ELSE encodeBinEP(Flag(idx > 0)) \o OnlyIf(idx > 0, encodeBinEP(Flag(idx > 1)))))

intra_chroma_lmc_mode(p, cu) ==
  LET list == getLMSymbolList(p)
      sym  == IF cu.chromaMode = LM_CHROMA_IDX THEN LM_CHROMA_IDX ELSE -1
  IN unary_max_symbol((CHOOSE i \in DOMAIN list : list[i] = sym) - 1,
                      CtxOf("IPredMode", 1, 2), CtxOf("IPredMode", 1, 3), Len(list) - 1)
intra_chroma_pred_modes(p, cu) ==
  LET dm == cu.chromaMode = DM_CHROMA_IDX
      cands == getIntraChromaCandModes(p, cu)
      cand  == (CHOOSE i \in 1 .. 4 : cands[i] = cu.chromaMode) - 1
  IN OnlyIf(HasChroma(p),
       encodeBin(Flag(~dm), CtxOf("IPredMode", 1, 1))
       \o OnlyIf(~dm /\ p.lmChroma, intra_chroma_lmc_mode(p, cu))
       \o OnlyIf(~dm /\ ~(p.lmChroma /\ cu.chromaMode = LM_CHROMA_IDX), encodeBinsEP(cand, 2)))

(***************************************************************************)
(* Inter prediction.                                                       *)
(***************************************************************************)
fruc_mrg_mode(p, cu) ==
  OnlyIf(p.fruc,
    encodeBin(Flag(cu.fruc # "OFF"), CtxFrucFlag(p))
    \o OnlyIf(cu.fruc # "OFF" /\ p.slice # "P", encodeBin(Flag(cu.fruc = "BILATERAL"), CtxFrucMode(p))))

affine_flag(p, cu) ==
  OnlyIf(AffineFlagCoded(p, cu),
    encodeBin(Flag(cu.affine), CtxAffineFlag(p))
    \o OnlyIf(AffineTypeCoded(p, cu), encodeBin(cu.affineType, Ctx("AffineType", 0))))

\* The first bin has a context; with sub-block candidates the others have too.
MergeIdxCtx(p, idx) == IF idx = 0 \/ p.subPuMvp THEN Ctx("MergeIdx", MinOf(idx, 4)) ELSE EP
merge_idx(p, cu) ==
  LET ctx(i) == MergeIdxCtx(p, i)
  IN OnlyIf(cu.fruc = "OFF" /\ ~cu.affine, Unary(cu.mergeIdx, p.maxNumMergeCand - 1, ctx))

inter_pred_idc(p, cu) ==
  OnlyIf(p.slice = "B",
    encodeBin(Flag(cu.interDir = 3), CtxInterDir(p))
    \o OnlyIf(cu.interDir # 3, encodeBin(Flag(cu.interDir = 2), Ctx("InterDir", 4))))

ref_idx(p, cu, list) ==
  LET ctx(i) == IF i < 2 THEN Ctx("RefPic", i) ELSE EP
  IN Unary(cu.refIdx[list], p.numRef[list] - 1, ctx)

\* A component that is no multiple of the precision loses its remainder.
AtPrecision(value, imv) == value \div 4 ^ imv
mvd_coding(mvd, imv) ==
  LET v == [i \in 1 .. 2 |-> AtPrecision(mvd[i], imv)]
      a == [i \in 1 .. 2 |-> AbsOf(v[i])]
      over(i, k) == encodeBin(Flag(a[i] > k), Ctx("Mvd", k))
      rest(i) == OnlyIf(a[i] > 0, OnlyIf(a[i] > 1, exp_golomb_eqprob(a[i] - 2, 1))
                                  \o encodeBinEP(Flag(v[i] < 0)))
  IN over(1, 0) \o over(2, 0) \o OnlyIf(a[1] > 0, over(1, 1)) \o OnlyIf(a[2] > 0, over(2, 1))
     \o rest(1) \o rest(2)

MvdsOfList(cu, list) ==
  IF cu.affine THEN FlattenSeq([i \in 1 .. 2 + cu.affineType |-> mvd_coding(cu.mvdAffi[list][i], 0)])
               ELSE mvd_coding(cu.mvd[list], cu.imv)
prediction_unit(p, cu) ==
  LET list(l) == OnlyIf(Used(cu, l), ref_idx(p, cu, l)
                                     \o OnlyIf(MvdCoded(p, cu, l), MvdsOfList(cu, l))
                                     \o encodeBin(cu.mvpIdx[l], Ctx("MVPIdx", 0)))
  IN OnlyIf(~cu.skip, encodeBin(Flag(cu.merge), Ctx("MergeFlag", 0)))
     \o (IF cu.merge THEN fruc_mrg_mode(p, cu) \o affine_flag(p, cu) \o merge_idx(p, cu)
         ELSE inter_pred_idc(p, cu) \o affine_flag(p, cu) \o list(1) \o list(2))

imv_mode(p, cu) ==
  OnlyIf(p.imv # 0 /\ hasSubCUNonZeroMVd(p, cu),
    OnlyIf(~ImvInferred(p, cu), encodeBin(Flag(cu.imv > 0), CtxIMVFlag(p)))
    \o OnlyIf(p.imv = 2 /\ cu.imv > 0, encodeBin(Flag(cu.imv > 1), Ctx("ImvFlag", 3))))
obmc_flag(p, cu) ==
  OnlyIf(p.obmc /\ isObmcFlagCoded(p, cu), encodeBin(Flag(cu.obmc), Ctx("ObmcFlag", 0)))
cu_lic_flag(p, cu) == OnlyIf(isLICFlagPresent(p, cu), encodeBin(Flag(cu.lic), Ctx("LICFlag", 0)))
cu_gbi_flag(p, cu) ==
  LET idx == (CHOOSE i \in 1 .. 5 : GbiParsingOrder[i] = cu.gbi) - 1
      ctx(i) == Ctx("GBiIdx", 4 + i)
      others == [i \in 1 .. MinOf(idx, numGBi(p) - 2) |-> <<ctx(i - 1), Flag(idx = i)>>]
  IN OnlyIf(isGBiIdxCoded(p, cu), encodeBin(Flag(idx = 0), Ctx("GBiIdx", 0)) \o others)

cu_pred_data(p, cu) ==
  IF cu.predMode = "INTRA" THEN intra_luma_pred_modes(p, cu) \o intra_chroma_pred_modes(p, cu)
  ELSE prediction_unit(p, cu) \o imv_mode(p, cu) \o obmc_flag(p, cu) \o cu_lic_flag(p, cu)
       \o cu_gbi_flag(p, cu)

(***************************************************************************)
(* The transform tree: one unit, or the parts of a unit above the largest  *)
(* transform, whose flags at depth 0 say whether any part has a residual.  *)
(***************************************************************************)
cbf_comp(comp, cbf, trDepth, prevCb) == encodeBin(Flag(cbf), CtxQtCbf(comp, trDepth, prevCb))
getCbfAtDepth0(cu, comp) == \E i \in DOMAIN cu.tus : cu.tus[i].cbf[comp]
emt_cu_flag(p, cu) == OnlyIf(EmtCuFlagCoded(p, cu), encodeBin(Flag(cu.emtFlag), CtxEmtCuFlag(p)))
cu_chroma_qp_offset(p, cu) ==
  encodeBin(Flag(cu.chromaQpAdj > 0), Ctx("ChromaQpAdjFlag", 0))
  \o OnlyIf(cu.chromaQpAdj > 0 /\ p.qpAdjLen > 1,
            unary_max_symbol(cu.chromaQpAdj - 1, Ctx("ChromaQpAdjIdc", 0), Ctx("ChromaQpAdjIdc", 0),
                             p.qpAdjLen - 1))
cross_comp_pred(comp, alpha) ==
  LET base == IF comp = "Cr" THEN 5 ELSE 0
      ctx(i) == Ctx("CrossCompPred", base + i)
      log2 == FloorLog2(AbsOf(alpha))
  IN IF alpha = 0 THEN encodeBin(0, ctx(0))
     ELSE encodeBin(1, ctx(0)) \o encodeBin(Flag(log2 > 0), ctx(1))
          \o OnlyIf(log2 > 0, unary_max_symbol(log2 - 1, ctx(2), ctx(3), 2))
          \o encodeBin(Flag(alpha < 0), ctx(4))
residual(tu, comp) == OnlyIf(tu.cbf[comp], encodeBin(tu.num[comp], Ctx("Residual", 0)))

transform_unit(p, cu, i) ==
  LET tu == cu.tus[i]
      chroma(k) == HasChroma(p) /\ (cu.tus[k].cbf["Cb"] \/ cu.tus[k].cbf["Cr"])
      first == \A k \in 1 .. i - 1 : ~ChromaQpAdjCoded(p, cu, chroma(k))
      comp(c) == OnlyIf(hasCrossCompPredInfo(p, cu, tu), cross_comp_pred(c, tu.alpha[c]))
                 \o residual(tu, c)
  IN OnlyIf(tu.cbf["Y"] \/ chroma(i),
       OnlyIf(ChromaQpAdjCoded(p, cu, chroma(i)) /\ first, cu_chroma_qp_offset(p, cu))
       \o residual(tu, "Y") \o OnlyIf(HasChroma(p), comp("Cb") \o comp("Cr")))

LumaCbfInferred(cu, trDepth, cb, cr) == cu.predMode # "INTRA" /\ trDepth = 0 /\ ~cb /\ ~cr
TreeLeaf(p, cu, i, trDepth) ==
  LET tu == cu.tus[i]
  IN OnlyIf(HasLuma(p) /\ ~LumaCbfInferred(cu, trDepth, tu.cbf["Cb"], tu.cbf["Cr"]),
            cbf_comp("Y", tu.cbf["Y"], trDepth, FALSE))
     \o OnlyIf(trDepth = 0 /\ tu.cbf["Y"], emt_cu_flag(p, cu))
     \o transform_unit(p, cu, i)
transform_tree(p, cu) ==
  LET cb == getCbfAtDepth0(cu, "Cb")
      cr == getCbfAtDepth0(cu, "Cr")
      root == OnlyIf(HasChroma(p), cbf_comp("Cb", cb, 0, FALSE) \o cbf_comp("Cr", cr, 0, cb))
      part(i) == LET tu == cu.tus[i]
                 IN OnlyIf(HasChroma(p) /\ cb, cbf_comp("Cb", tu.cbf["Cb"], 1, FALSE))
                    \o OnlyIf(HasChroma(p) /\ cr, cbf_comp("Cr", tu.cbf["Cr"], 1, tu.cbf["Cb"]))
                    \o TreeLeaf(p, cu, i, 1)
  IN root \o (IF NumTUs(p) = 1 THEN TreeLeaf(p, cu, 1, 0)
              ELSE emt_cu_flag(p, cu) \o FlattenSeq([i \in 1 .. NumTUs(p) |-> part(i)]))

residual_nsst_mode(p, cu) ==
  LET set == IF ThreeNSSTPasses(p, cu) THEN <<1, 3>> ELSE <<0, 2, 4>>
      ctx(i) == Ctx("NSSTIdx", set[i + 1])
  IN OnlyIf(NsstCoded(p, cu), Unary(cu.nsst, Len(set), ctx))

cu_residual(p, cu) ==
  OnlyIf(RootCbfCoded(cu), encodeBin(Flag(cu.rootCbf), Ctx("QtRootCbf", 0)))
  \o OnlyIf(cu.rootCbf, transform_tree(p, cu) \o residual_nsst_mode(p, cu))

coding_unit(p, cu) ==
  cu_transquant_bypass_flag(p, cu) \o cu_skip_flag(p, cu)
  \o (IF cu.skip THEN prediction_unit(p, cu) \o cu_lic_flag(p, cu)
      ELSE pred_mode(p, cu) \o pdpc_flag(p, cu)
           \o OnlyIf(cu.predMode = "INTRA", pcm_data(p, cu))
           \o OnlyIf(~cu.ipcm, cu_pred_data(p, cu) \o cu_residual(p, cu)))
=============================================================================
