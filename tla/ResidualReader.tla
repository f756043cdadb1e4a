--------------------------- MODULE ResidualReader ---------------------------
(***************************************************************************)
(* CABACReader::residual_coding and what it calls.  The reader's data d is *)
(* the transform unit that is filled in: its coefficients start at zero.   *)
(***************************************************************************)
EXTENDS BinReader, CoeffCoding

transform_skip_flag(p, r) ==
  IF TransformSkipCoded(p, r.d)
  THEN Then(decodeBin(r, Ctx("TransformSkipFlag", r.d.ch)), LAMBDA q : [q EXCEPT !.d.transformSkip = q.v = 1])
  ELSE [r EXCEPT !.d.transformSkip = FALSE]

explicit_rdpcm_mode(p, r) ==
  LET dir(q) == Then(decodeBin(q, Ctx("RdpcmDir", r.d.ch)),
                     LAMBDA b : [b EXCEPT !.d.rdpcm = IF b.v = 1 THEN "VER" ELSE "HOR"])
  IN Then(ReadIf(RdpcmCoded(p, r.d, r.d.transformSkip), r, LAMBDA q : decodeBin(q, Ctx("RdpcmFlag", r.d.ch))),
          LAMBDA q : IF q.v = 1 THEN dir(q) ELSE [q EXCEPT !.d.rdpcm = "OFF"])

emt_tu_index(r) ==
  LET first == IF r.d.intra THEN 0 ELSE 2
      high(low) == Then(decodeBin(low, Ctx("EMTTuIndex", first + 1)),
                        LAMBDA q : [q EXCEPT !.d.emtIdx = 2 * q.v + low.v])
  IN IF EmtIndexFits(r.d) THEN Then(decodeBin(r, Ctx("EMTTuIndex", first)), high)
                          ELSE [r EXCEPT !.d.emtIdx = 0]

\* The position from its group: the offset in the group follows for groups
\* above 3.
LastSuffix(r, g) ==
  IF g > 3 THEN Plus(decodeBinsEP(r, (g - 2) \div 2), MinInGroup[g + 1]) ELSE [r EXCEPT !.v = g]
ScanIndex(c, x, y) ==
  LET found == {n \in 0 .. c.w * c.h - 1 : blockPos(c, n) = <<x, y>>}
  IN Min(found \cup {c.w * c.h - 1})
last_sig_coeff(r, c) ==
  LET groupX(q) == Unary(q, maxLastPosX(c), LAMBDA i : lastXCtxId(c, i))
      groupY(q) == Unary(q, maxLastPosY(c), LAMBDA i : lastYCtxId(c, i))
      index(x, y) == [y EXCEPT !.v = ScanIndex(c, x.v, y.v)]
      suffixes(x, y) == Then(LastSuffix(y, x.v), LAMBDA px : index(px, LastSuffix(px, y.v)))
  IN Then(groupX(r), LAMBDA x : suffixes(x, groupY(x)))

(***************************************************************************)
(* A subblock.  s carries the reader r, the contexts c, the quantiser's    *)
(* state, the offsets by position, and the positions found significant, in *)
(* the order in which their signs come.  After the first pass a level is   *)
(* only known up to its parity and whether it exceeds two.                 *)
(***************************************************************************)
\* A group known to hold a coefficient has one at its first position if
\* nowhere else; of the group at the block's origin this is not known.
InferSigPosEverywhere(c, hi) == IF hi = c.last THEN hi ELSE minSubPos(c)
InferSigPos(c, hi) == IF hi = c.last THEN hi ELSE IF isNotFirst(c) THEN minSubPos(c) ELSE -1

\* What follows the significance flag q, in the contexts c.
FirstLevel(p, s, n, c, q) ==
  LET off == ctxOffsetAbs(c)
      found(b, level) ==
        [s EXCEPT !.c = c, !.r = [b EXCEPT !.d.coeff[blockPos(s.c, n)] = level],
                  !.state = NextState(p.depQuant, @, level),
                  !.off = [@ EXCEPT ![n] = off], !.sig = Append(@, n)]
      above(par) == Then(decodeBin(par, greater1CtxIdAbs(c, off)), LAMBDA gt1 : found(gt1, 1 + par.v + 2 * gt1.v))
  IN IF q.v = 0 THEN [s EXCEPT !.c = c, !.r = q, !.state = NextState(p.depQuant, @, 0)]
     ELSE Then(decodeBin(q, parityCtxIdAbs(c, off)), above)
FirstPass(p, infer, s, n) ==
  LET seen(c) == FirstLevel(p, s, n, c, decodeBin(s.r, sigCtxIdAbs(c, n, s.r.d.coeff, s.state)))
  IN IF s.sig = <<>> /\ n = infer THEN FirstLevel(p, s, n, s.c, [s.r EXCEPT !.v = 1])
     ELSE seen(SeeTemplate(s.c, n, s.r.d.coeff))

\* The rest of a level is added to what the passes before have found.
Raise(s, n, q) == [s EXCEPT !.r = [q EXCEPT !.d.coeff[blockPos(s.c, n)] = @ + 2 * q.v]]
SecondPass(s, n) ==
  IF s.r.d.coeff[blockPos(s.c, n)] > 2
  THEN Raise(s, n, decodeBin(s.r, greater2CtxIdAbs(s.c, s.off[n]))) ELSE s

ThirdPass(p, s, n) ==
  IF s.r.d.coeff[blockPos(s.c, n)] > 4
  THEN Raise(s, n, decodeRemAbsEP(s.r, GoRiceParAbs(s.c, n, s.r.d.coeff), p.extPrec, p.range)) ELSE s

\* The signs; a hidden one is the parity of the sum of the levels.
HiddenSign(sum, level) == IF sum % 2 = 1 THEN -level ELSE level
Signs(s) ==
  LET hidden == s.sig # <<>> /\ hideSign(s.c, Last(s.sig), Head(s.sig))
      sum == FoldLeft(LAMBDA a, n : a + s.r.d.coeff[blockPos(s.c, n)], 0, s.sig)
      signed(b, n) == [b EXCEPT !.d.coeff[blockPos(s.c, n)] = IF b.v = 1 THEN -@ ELSE @]
      sign(r, n) == signed(decodeBinEP(r), n)
  IN IF ~hidden THEN FoldLeft(sign, s.r, s.sig)
     ELSE [FoldLeft(sign, s.r, Front(s.sig)) EXCEPT !.d.coeff[blockPos(s.c, Last(s.sig))] = HiddenSign(sum, @)]

\* The passes over the positions from hi down to lo.
Passes(p, s, hi, lo) ==
  LET order == Down(hi, lo)
      one(t, n) == FirstPass(p, InferSigPos(s.c, hi), t, n)
      three(t, n) == ThirdPass(p, t, n)
      signs(t) == [t EXCEPT !.r = Signs(t), !.numSig = @ + Len(t.sig)]
  IN signs(FoldLeft(three, FoldLeft(SecondPass,
       FoldLeft(one, [s EXCEPT !.sig = <<>>, !.off = [n \in lo .. hi |-> 0]], order), order), order))
residual_coding_subblock(p, s) ==
  LET group(q) ==
        IF q.v = 0 THEN [s EXCEPT !.r = q]
        ELSE Passes(p, [s EXCEPT !.r = q, !.c = setSigGroup(@)],
                    IF isLast(s.c) THEN s.c.last ELSE maxSubPos(s.c), minSubPos(s.c))
  IN IF ~isLast(s.c) /\ minSubPos(s.c) # 0 THEN group(decodeBin(s.r, sigGroupCtxId(s.c)))
     ELSE group([s.r EXCEPT !.v = 1])

Residual(p, q, new) ==
  LET subblock(s, id) == residual_coding_subblock(p, [s EXCEPT !.c = initSubblock(@, id, FALSE)])
      from(r, c) == FoldLeft(subblock, [r |-> r, c |-> c, state |-> 0, off |-> <<>>, sig |-> <<>>, numSig |-> 0],
                             Down(c.last \div CGSize(c), 0))
  IN Then(last_sig_coeff(q, new), LAMBDA r : from(r, [new EXCEPT !.last = r.v]))
EmtIndex(p, r, numSig) ==
  LET emt == /\ r.d.ch = 0 /\ (IF r.d.intra THEN p.intraEMT ELSE p.interEMT)
             /\ ~r.d.transformSkip /\ r.d.emtFlag
  IN IF EmtIndexCoded(p, r.d, r.d.transformSkip, numSig) THEN emt_tu_index(r)
     ELSE IF emt THEN [r EXCEPT !.d.emtIdx = 0] ELSE r
residual_coding(p, r) ==
  LET flagged(q) == Residual(p, q, NewContext(q.d.ch, q.d.w, q.d.h,
                                              SignHiding(p, q.d, q.d.transformSkip, q.d.rdpcm)))
  IN Then(flagged(explicit_rdpcm_mode(p, transform_skip_flag(p, r))), LAMBDA s : EmtIndex(p, s.r, s.numSig))
=============================================================================
