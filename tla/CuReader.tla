------------------------------ MODULE CuReader ------------------------------
(***************************************************************************)
(* CABACReader::coding_unit and what it calls.  The reader's data d is the *)
(* coding unit that is filled in, from initData's state on.                *)
(***************************************************************************)
EXTENDS BinReader, CuCoding

\* Read one bin into a flag of the unit.
ReadFlag(r, field, ctx) ==
  LET q == decodeBin(r, ctx) IN [q EXCEPT !.d = [@ EXCEPT ![field] = q.v = 1]]
ReadFlagIf(cond, r, field, ctx) == IF cond THEN ReadFlag(r, field, ctx) ELSE r

cu_transquant_bypass_flag(p, r) ==
  ReadFlagIf(p.bypassEnabled, r, "bypass", Ctx("TransquantBypassFlag", 0))
cu_skip_flag(p, r) ==
  LET q == ReadFlagIf(SkipFlagCoded(p), r, "skip", CtxSkipFlag(p))
  IN IF q.d.skip THEN [q EXCEPT !.d.rootCbf = FALSE, !.d.predMode = "INTER"] ELSE q
pred_mode(p, r) ==
  LET q == decodeBin(r, Ctx("PredMode", 0))
  IN IF p.slice = "I" THEN [r EXCEPT !.d.predMode = "INTRA"]
     ELSE [q EXCEPT !.d.predMode = IF q.v = 1 THEN "INTRA" ELSE "INTER"]
pdpc_flag(p, r) == ReadFlagIf(PdpcCoded(p, r.d), r, "pdpc", Ctx("PdpcFlag", 0))

pcm_flag(p, r) == ReadFlagIf(PcmCoded(p), r, "ipcm", Trm)
pcm_samples(p, r) ==
  LET sample(q, i) == LET s == decodeBinsPCM(q, p.pcmBits[i]) IN [s EXCEPT !.d.pcm = Append(@, s.v)]
  IN FoldLeft(sample, r, <<1, 2, 3>>)

(***************************************************************************)
(* Intra modes.                                                            *)
(***************************************************************************)
\* A bug: the probable modes are taken in their own order, unsorted.
UnlikelyUnsorted(mpms, number) ==
  LET more(m, q) == IF m >= q THEN m + 1 ELSE m IN FoldLeft(more, number, mpms)
\* The number of a mode among those that are not probable gives the mode: from
\* the smallest probable mode up, each that it reaches puts one on.
Unlikely(mpms, number) ==
  LET more(m, q) == IF m >= q THEN m + 1 ELSE m
  IN FoldLeft(more, number, SortSeq(mpms, LAMBDA x, y : x < y))
intra_luma_pred_modes(p, r) ==
  LET mpms == getIntraMPMs(p)
      flag == decodeBin(r, CtxOf("IPredMode", 0, 0))
      one  == decodeBinEP(flag)
      two  == decodeBinEP(one)
      six  == decodeBinsEP(flag, 6)
  IN IF ~HasLuma(p) THEN r
     ELSE IF flag.v = 0 THEN [six EXCEPT !.d.lumaMode = Unlikely(mpms, six.v)]
     ELSE IF one.v = 0 THEN [one EXCEPT !.d.lumaMode = mpms[1]]
     ELSE [two EXCEPT !.d.lumaMode = mpms[2 + two.v]]

intra_chroma_pred_modes(p, r) ==
  LET flag == decodeBin(r, CtxOf("IPredMode", 1, 1))
      list == getLMSymbolList(p)
      lm   == IF ~p.lmChroma THEN [flag EXCEPT !.v = -1]
              ELSE LET q == unary_max_symbol(flag, CtxOf("IPredMode", 1, 2), CtxOf("IPredMode", 1, 3),
                                             Len(list) - 1)
                   IN [q EXCEPT !.v = list[@ + 1]]
      cand == decodeBinsEP(lm, 2)
  IN IF ~HasChroma(p) THEN r
     ELSE IF flag.v = 0 THEN [flag EXCEPT !.d.chromaMode = DM_CHROMA_IDX]
     ELSE IF lm.v # -1 THEN [lm EXCEPT !.d.chromaMode = lm.v]
     ELSE [cand EXCEPT !.d.chromaMode = getIntraChromaCandModes(p, r.d)[cand.v + 1]]

(***************************************************************************)
(* Inter prediction.                                                       *)
(***************************************************************************)
fruc_mrg_mode(p, r) ==
  LET flag == decodeBin(r, CtxFrucFlag(p))
      mode == decodeBin(flag, CtxFrucMode(p))
  IN IF ~p.fruc THEN r
     ELSE IF flag.v = 0 THEN flag
     ELSE IF p.slice = "P" THEN [flag EXCEPT !.d.fruc = "TEMPLATE"]
     ELSE [mode EXCEPT !.d.fruc = IF mode.v = 1 THEN "BILATERAL" ELSE "TEMPLATE"]

affine_flag(p, r) ==
  LET flag == ReadFlag(r, "affine", CtxAffineFlag(p))
      type == decodeBin(flag, Ctx("AffineType", 0))
  IN IF ~AffineFlagCoded(p, r.d) THEN r
     ELSE IF AffineTypeCoded(p, flag.d) THEN [type EXCEPT !.d.affineType = type.v]
     ELSE [flag EXCEPT !.d.affineType = 0]

MergeIdxCtx(p, idx) == IF idx = 0 \/ p.subPuMvp THEN Ctx("MergeIdx", MinOf(idx, 4)) ELSE EP
merge_data(p, r) ==
  LET ctx(i) == MergeIdxCtx(p, i)
      q == Unary(r, p.maxNumMergeCand - 1, ctx)
  IN IF r.d.fruc # "OFF" \/ r.d.affine THEN r ELSE [q EXCEPT !.d.mergeIdx = q.v]

inter_pred_idc(p, r) ==
  LET bi == decodeBin(r, CtxInterDir(p))
      l1 == decodeBin(bi, Ctx("InterDir", 4))
  IN IF p.slice = "P" THEN [r EXCEPT !.d.interDir = 1]
     ELSE IF bi.v = 1 THEN [bi EXCEPT !.d.interDir = 3]
     ELSE [l1 EXCEPT !.d.interDir = 1 + l1.v]

ref_idx(p, r, list) ==
  LET ctx(i) == IF i < 2 THEN Ctx("RefPic", i) ELSE EP
      q == Unary(r, p.numRef[list] - 1, ctx)
  IN [q EXCEPT !.d.refIdx[list] = q.v]
mvp_flag(r, list) ==
  LET q == decodeBin(r, Ctx("MVPIdx", 0)) IN [q EXCEPT !.d.mvpIdx[list] = q.v]

\* The rest of a component of which it is known whether it exceeds 0 and 1.
MvdRest(r, abs) ==
  IF abs = 0 THEN [r EXCEPT !.v = 0]
  ELSE Then(ReadIf(abs > 1, r, LAMBDA q : exp_golomb_eqprob(q, 1)),
            LAMBDA more : LET signed(q) == [q EXCEPT !.v = IF @ = 1 THEN -(abs + more.v) ELSE abs + more.v]
                          IN signed(decodeBinEP(more)))
\* The four flags of the two components, then what is left of each; v becomes the pair.
mvd_coding(r) ==
  LET flag(q, of) == decodeBin(q, Ctx("Mvd", of))
      rest(h0, v0, h1, v1) ==
        Then(MvdRest(v1, h0.v + h1.v),
             LAMBDA h : Then(MvdRest(h, v0.v + v1.v), LAMBDA v : [v EXCEPT !.v = <<h.v, v.v>>]))
      ones(h0, v0) ==
        Then(ReadIf(h0.v = 1, v0, LAMBDA q : flag(q, 1)),
             LAMBDA h1 : Then(ReadIf(v0.v = 1, h1, LAMBDA q : flag(q, 1)),
                              LAMBDA v1 : rest(h0, v0, h1, v1)))
  IN Then(flag(r, 0), LAMBDA h0 : ones(h0, flag(h0, 0)))
MvdsOfList(r, list) ==
  LET corners == [i \in 1 .. (IF r.d.affine THEN 2 + r.d.affineType ELSE 1) |-> i]
      corner(q, i) ==
        Then(mvd_coding(q), LAMBDA m : IF r.d.affine THEN [m EXCEPT !.d.mvdAffi[list][i] = m.v]
                                       ELSE [m EXCEPT !.d.mvd[list] = m.v])
  IN FoldLeft(corner, r, corners)

prediction_unit(p, r) ==
  LET flag == IF r.d.skip THEN [r EXCEPT !.d.merge = TRUE] ELSE ReadFlag(r, "merge", Ctx("MergeFlag", 0))
      list(q, l) ==
        IF ~Used(q.d, l) THEN q
        ELSE Then(ref_idx(p, q, l),
                  LAMBDA i : mvp_flag(IF MvdCoded(p, i.d, l) THEN MvdsOfList(i, l) ELSE i, l))
  IN IF flag.d.merge THEN merge_data(p, affine_flag(p, fruc_mrg_mode(p, flag)))
     ELSE FoldLeft(list, affine_flag(p, inter_pred_idc(p, flag)), <<1, 2>>)

\* imv counts from the inferred bin on; without a vector nothing is known of it.
imv_mode(p, r) ==
  LET first  == IF ImvInferred(p, r.d) THEN [r EXCEPT !.v = 1] ELSE decodeBin(r, CtxIMVFlag(p))
      second == decodeBin(first, Ctx("ImvFlag", 3))
  IN IF p.imv = 0 \/ ~hasSubCUNonZeroMVd(p, r.d) THEN r
     ELSE IF p.imv = 2 /\ first.v = 1 THEN [second EXCEPT !.d.imv = second.v + 1]
     ELSE [first EXCEPT !.d.imv = first.v]
obmc_flag(p, r) ==
  LET q == [r EXCEPT !.d.obmc = p.obmc]
  IN ReadFlagIf(p.obmc /\ isObmcFlagCoded(p, q.d), q, "obmc", Ctx("ObmcFlag", 0))
cu_lic_flag(p, r) == ReadFlagIf(isLICFlagPresent(p, r.d), r, "lic", Ctx("LICFlag", 0))
cu_gbi_flag(p, r) ==
  LET first == decodeBin(r, Ctx("GBiIdx", 0))
      \* Zeros up to a one or the last but one index.
      zeros[i \in 0 .. numGBi(p) - 2] ==
        IF i < numGBi(p) - 2 /\ ~Next1([first EXCEPT !.at = @ + i], Ctx("GBiIdx", 4 + i))
        THEN zeros[i + 1] ELSE i
      ctx(i) == Ctx("GBiIdx", 4 + i)
      skip(q, i) == decodeBin(q, ctx(i - 1))
      upTo == MinOf(zeros[0] + 1, numGBi(p) - 2)
      rest == FoldLeft(skip, first, [i \in 1 .. upTo |-> i])
  IN IF ~isGBiIdxCoded(p, r.d) THEN r
     ELSE IF first.v = 1 THEN [first EXCEPT !.d.gbi = GbiParsingOrder[1]]
     ELSE [rest EXCEPT !.d.gbi = GbiParsingOrder[zeros[0] + 2]]

cu_pred_data(p, r) ==
  IF r.d.predMode = "INTRA" THEN intra_chroma_pred_modes(p, intra_luma_pred_modes(p, r))
  ELSE cu_gbi_flag(p, cu_lic_flag(p, obmc_flag(p, imv_mode(p, prediction_unit(p, r)))))

(***************************************************************************)
(* The transform tree.  s carries the reader r and whether the unit's      *)
(* chroma QP offset has come.                                              *)
(***************************************************************************)
cbf_comp(r, comp, trDepth, prevCb) == decodeBin(r, CtxQtCbf(comp, trDepth, prevCb))
emt_cu_flag(p, r) == ReadFlagIf(EmtCuFlagCoded(p, r.d), r, "emtFlag", CtxEmtCuFlag(p))
cu_chroma_qp_offset(p, r) ==
  LET flag == decodeBin(r, Ctx("ChromaQpAdjFlag", 0))
      idc  == unary_max_symbol(flag, Ctx("ChromaQpAdjIdc", 0), Ctx("ChromaQpAdjIdc", 0), p.qpAdjLen - 1)
  IN IF flag.v = 1 /\ p.qpAdjLen > 1 THEN [idc EXCEPT !.d.chromaQpAdj = idc.v + 1]
     ELSE [flag EXCEPT !.d.chromaQpAdj = flag.v]
cross_comp_pred(r, n, comp) ==
  LET base == IF comp = "Cr" THEN 5 ELSE 0
      used == decodeBin(r, Ctx("CrossCompPred", base))
      over == decodeBin(used, Ctx("CrossCompPred", base + 1))
      log2 == IF over.v = 0 THEN over
              ELSE LET q == unary_max_symbol(over, Ctx("CrossCompPred", base + 2),
                                             Ctx("CrossCompPred", base + 3), 2)
                   IN [q EXCEPT !.v = @ + 1]
      sign == decodeBin(log2, Ctx("CrossCompPred", base + 4))
  IN IF used.v = 0 THEN used
     ELSE [sign EXCEPT !.d.tus[n].alpha[comp] = IF sign.v = 1 THEN -(2 ^ log2.v) ELSE 2 ^ log2.v]
residual(r, n, comp) ==
  LET q == decodeBin(r, Ctx("Residual", 0))
  IN IF r.d.tus[n].cbf[comp] THEN [q EXCEPT !.d.tus[n].num[comp] = q.v] ELSE r

transform_unit(p, s, cbfChroma) ==
  LET n   == Len(s.r.d.tus)
      tu  == s.r.d.tus[n]
      adj == ChromaQpAdjCoded(p, s.r.d, cbfChroma) /\ ~s.adjCoded
      luma == residual(IF adj THEN cu_chroma_qp_offset(p, s.r) ELSE s.r, n, "Y")
      comp(r, c) == residual(IF hasCrossCompPredInfo(p, r.d, tu) THEN cross_comp_pred(r, n, c) ELSE r, n, c)
  IN IF ~tu.cbf["Y"] /\ ~cbfChroma THEN s
     ELSE [r |-> IF HasChroma(p) THEN comp(comp(luma, "Cb"), "Cr") ELSE luma,
           adjCoded |-> s.adjCoded \/ adj]

LumaCbfInferred(cu, trDepth, cb, cr) == cu.predMode # "INTRA" /\ trDepth = 0 /\ ~cb /\ ~cr
TreeLeaf(p, s, trDepth, cb, cr) ==
  LET r0 == [s.r EXCEPT !.d.tus = Append(@, [NewTU EXCEPT !.cbf["Cb"] = cb, !.cbf["Cr"] = cr])]
      n  == Len(r0.d.tus)
      y  == IF ~HasLuma(p) THEN [r0 EXCEPT !.v = 0]
            ELSE IF LumaCbfInferred(r0.d, trDepth, cb, cr) THEN [r0 EXCEPT !.v = 1]
            ELSE cbf_comp(r0, "Y", trDepth, FALSE)
      r1 == [y EXCEPT !.d.tus[n].cbf["Y"] = y.v = 1]
      r2 == IF trDepth = 0 /\ y.v = 1 THEN emt_cu_flag(p, r1) ELSE r1
  IN transform_unit(p, [s EXCEPT !.r = r2], cb \/ cr)
\* Chroma flags are read below a flag that is set; v becomes the pair.
ReadChromaCbfs(p, r, trDepth, above) ==
  LET cb == IF above[1] THEN cbf_comp(r, "Cb", trDepth, FALSE) ELSE [r EXCEPT !.v = 0]
      cr == IF above[2] THEN cbf_comp(cb, "Cr", trDepth, cb.v = 1) ELSE [cb EXCEPT !.v = 0]
  IN IF HasChroma(p) THEN [cr EXCEPT !.v = <<cb.v = 1, cr.v = 1>>] ELSE [r EXCEPT !.v = <<FALSE, FALSE>>]
transform_tree(p, r) ==
  LET root == ReadChromaCbfs(p, r, 0, <<TRUE, TRUE>>)
      part(s, i) == LET q == ReadChromaCbfs(p, s.r, 1, root.v)
                    IN TreeLeaf(p, [s EXCEPT !.r = q], 1, q.v[1], q.v[2])
      start(q) == [r |-> q, adjCoded |-> FALSE]
  IN IF NumTUs(p) = 1 THEN TreeLeaf(p, start(root), 0, root.v[1], root.v[2]).r
     ELSE FoldLeft(part, start(emt_cu_flag(p, root)), [i \in 1 .. NumTUs(p) |-> i]).r

residual_nsst_mode(p, r) ==
  LET set == IF ThreeNSSTPasses(p, r.d) THEN <<1, 3>> ELSE <<0, 2, 4>>
      ctx(i) == Ctx("NSSTIdx", set[i + 1])
      q == Unary(r, Len(set), ctx)
  IN IF NsstCoded(p, r.d) THEN [q EXCEPT !.d.nsst = q.v] ELSE r

cu_residual(p, r) ==
  LET root == IF RootCbfCoded(r.d) THEN ReadFlag(r, "rootCbf", Ctx("QtRootCbf", 0))
              ELSE [r EXCEPT !.d.rootCbf = TRUE]
  IN IF root.d.rootCbf THEN residual_nsst_mode(p, transform_tree(p, root))
     ELSE [root EXCEPT !.d.tus = <<NewTU>>]

coding_unit(p, r) ==
  LET skipped(q) ==
        LET merged(u) == [u EXCEPT !.d.obmc = p.obmc]
        IN cu_lic_flag(p, merged(prediction_unit(p, [q EXCEPT !.d.tus = <<NewTU>>])))
      pcmOrNot(q) == IF q.d.predMode = "INTRA" THEN pcm_flag(p, q) ELSE q
      rest(q) == IF q.d.ipcm THEN [pcm_samples(p, q) EXCEPT !.d.tus = <<NewTU>>]
                 ELSE cu_residual(p, cu_pred_data(p, q))
  IN Then(cu_skip_flag(p, cu_transquant_bypass_flag(p, r)),
          LAMBDA q : IF q.d.skip THEN skipped(q) ELSE rest(pcmOrNot(pdpc_flag(p, pred_mode(p, q)))))

\* PU::applyImv, by which the decoder brings the differences of vectors to the
\* precision that was read after them.
applyImv(p, cu) ==
  LET scaled(l) == [i \in 1 .. 2 |-> cu.mvd[l][i] * 4 ^ cu.imv]
  IN [cu EXCEPT !.mvd = [l \in 1 .. 2 |->
        IF ~cu.merge /\ Used(cu, l) /\ MvdCoded(p, cu, l) THEN scaled(l) ELSE cu.mvd[l]]]
=============================================================================
