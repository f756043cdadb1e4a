--------------------------- MODULE ResidualWriter ---------------------------
(***************************************************************************)
(* CABACWriter::residual_coding and what it calls: the bins of the         *)
(* coefficients of one transform block tu, under the parameters p.         *)
(***************************************************************************)
EXTENDS BinWriter, CoeffCoding

transform_skip_flag(p, tu) ==
  OnlyIf(TransformSkipCoded(p, tu), encodeBin(Flag(tu.transformSkip), Ctx("TransformSkipFlag", tu.ch)))

explicit_rdpcm_mode(p, tu) ==
  OnlyIf(RdpcmCoded(p, tu, tu.transformSkip),
         encodeBin(Flag(tu.rdpcm # "OFF"), Ctx("RdpcmFlag", tu.ch))
         \o OnlyIf(tu.rdpcm # "OFF", encodeBin(Flag(tu.rdpcm = "VER"), Ctx("RdpcmDir", tu.ch))))

emt_tu_index(tu) ==
  LET first == IF tu.intra THEN 0 ELSE 2
  IN OnlyIf(EmtIndexFits(tu), encodeBin(tu.emtIdx % 2, Ctx("EMTTuIndex", first))
                              \o encodeBin(tu.emtIdx \div 2, Ctx("EMTTuIndex", first + 1)))

\* The offset within a group of last positions.
LastSuffix(pos) ==
  LET g == GroupIdx(pos)
  IN OnlyIf(g > 3, encodeBinsEP(pos - MinInGroup[g + 1], (g - 2) \div 2))
last_sig_coeff(c) ==
  LET pos == blockPos(c, c.last)
      xctx(i) == lastXCtxId(c, i)
      yctx(i) == lastYCtxId(c, i)
  IN Unary(GroupIdx(pos[1]), maxLastPosX(c), xctx) \o Unary(GroupIdx(pos[2]), maxLastPosY(c), yctx)
     \o LastSuffix(pos[1]) \o LastSuffix(pos[2])

(***************************************************************************)
(* A subblock, in three passes and the signs.  s carries the bins (out),   *)
(* the contexts (c), the quantiser's state and, by position, the offsets   *)
(* that the first pass leaves for the second.                              *)
(***************************************************************************)
InferSigPos(c, hi) == IF hi = c.last THEN hi ELSE IF isNotFirst(c) THEN minSubPos(c) ELSE -1

FirstPass(p, tu, infer, s, n) ==
  LET level == tu.coeff[blockPos(s.c, n)]
      sig   == level # 0
      coded == s.num # 0 \/ n # infer
      c     == IF coded THEN SeeTemplate(s.c, n, tu.coeff) ELSE s.c
      off   == ctxOffsetAbs(c)
      rem   == AbsOf(level) - 1
  IN [s EXCEPT !.c = c, !.state = NextState(p.depQuant, @, level), !.num = @ + Flag(sig),
               !.off = [@ EXCEPT ![n] = IF sig THEN off ELSE @],
               !.out = @ \o OnlyIf(coded, encodeBin(Flag(sig), sigCtxIdAbs(c, n, tu.coeff, s.state)))
                         \o OnlyIf(sig, encodeBin(rem % 2, parityCtxIdAbs(c, off))
                                        \o encodeBin(Flag(rem > 1), greater1CtxIdAbs(c, off)))]

residual_coding_subblock(p, tu, w) ==
  LET c     == w.c
      lo    == minSubPos(c)
      hi    == IF isLast(c) THEN c.last ELSE maxSubPos(c)
      infer == InferSigPos(c, hi)
      mag(n) == AbsOf(tu.coeff[blockPos(c, n)])
      sig   == SelectSeq(Down(hi, lo), LAMBDA n : mag(n) # 0)
      coded == ~isLast(c) /\ isNotFirst(c)
      step(s, n) == FirstPass(p, tu, infer, s, n)
      group == OnlyIf(coded, encodeBin(Flag(isSigGroup(c)), sigGroupCtxId(c)))
      one   == FoldLeft(step, [w EXCEPT !.off = [n \in lo .. hi |-> 0], !.num = 0,
                                        !.out = @ \o group], Down(hi, lo))
      over(k) == SelectSeq(sig, LAMBDA n : mag(n) > k)
      gt2(out, n) == out \o encodeBin(Flag(mag(n) > 4), greater2CtxIdAbs(c, one.off[n]))
      rest(out, n) == out \o encodeRemAbsEP((mag(n) - 5) \div 2, GoRiceParAbs(c, n, tu.coeff),
                                            p.extPrec, p.range)
      hidden == sig # <<>> /\ hideSign(c, Last(sig), Head(sig))
      signs == [i \in 1 .. Len(sig) - Flag(hidden) |-> <<EP, Flag(tu.coeff[blockPos(c, sig[i])] < 0)>>]
  IN IF coded /\ ~isSigGroup(c) THEN [w EXCEPT !.out = @ \o group]
     ELSE [one EXCEPT !.numSig = @ + one.num,
                      !.out = FoldLeft(rest, FoldLeft(gt2, @, over(2)), over(4)) \o signs]

residual_coding(p, tu) ==
  LET hide == SignHiding(p, tu, tu.transformSkip, tu.rdpcm)
      new  == NewContext(tu.ch, tu.w, tu.h, hide)
      nonzero == {n \in 0 .. tu.w * tu.h - 1 : tu.coeff[blockPos(new, n)] # 0}
      c    == [new EXCEPT !.last = Max(nonzero)]
      flagged(id) == \E n \in nonzero : n \div CGSize(c) = id
      subblock(w, id) ==
        residual_coding_subblock(p, tu, [w EXCEPT !.c = initSubblock(@, id, flagged(id))])
      w0 == [out |-> transform_skip_flag(p, tu) \o explicit_rdpcm_mode(p, tu) \o last_sig_coeff(c),
             c |-> c, state |-> 0, off |-> <<>>, num |-> 0, numSig |-> 0]
      all(w) == w.out \o OnlyIf(EmtIndexCoded(p, tu, tu.transformSkip, w.numSig), emt_tu_index(tu))
  IN all(FoldLeft(subblock, w0, Down(c.last \div CGSize(c), 0)))
=============================================================================
