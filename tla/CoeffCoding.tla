----------------------------- MODULE CoeffCoding -----------------------------
(***************************************************************************)
(* The scans of a transform block (Rom.cpp) and the contexts of its        *)
(* coefficients (CoeffCodingContext of ContextModelling), which the writer *)
(* and the reader each keep for themselves while they walk the block.      *)
(*                                                                         *)
(* A block is described by its channel type ch (0 luma, 1 chroma), width w *)
(* and height h.  Coefficients are a function on the positions <<x, y>>.   *)
(* A context record c adds what the object keeps: the last scan position,  *)
(* the subblock, the significant groups, and the template of the           *)
(* coefficient whose significance was coded last.                          *)
(***************************************************************************)
EXTENDS Bins, SequencesExt

Positions(w, h) == (0 .. w - 1) \X (0 .. h - 1)
\* ScanGenerator: along a diagonal to its upper right end, then to the lower
\* left end of the next one.
GetNextIndex(w, h, p) ==
  LET y == p[1] + p[2] + 1
  IN IF p[1] = w - 1 \/ p[2] = 0
     THEN IF y >= h THEN <<y - (h - 1), h - 1>> ELSE <<0, y>>
     ELSE <<p[1] + 1, p[2] - 1>>
DiagScan(w, h) ==
  FoldLeft(LAMBDA s, n : Append(s, GetNextIndex(w, h, Last(s))), << <<0, 0>> >>,
           [n \in 1 .. w * h - 1 |-> n])

CGSide(w, h) == IF w % 4 # 0 \/ h % 4 # 0 THEN 2 ELSE 4
\* The scan of the coefficients, group by group.
GroupedScan(w, h) ==
  LET side   == CGSide(w, h)
      inside == DiagScan(side, side)
      group(g) == [n \in 1 .. side * side |-> <<g[1] * side + inside[n][1], g[2] * side + inside[n][2]>>]
  IN FoldLeft(LAMBDA s, g : s \o group(g), <<>>, DiagScan(w \div side, h \div side))

NewContext(ch, w, h, signHiding) ==
  [ch |-> ch, w |-> w, h |-> h, signHiding |-> signHiding, last |-> -1,
   scan |-> GroupedScan(w, h), scanCG |-> DiagScan(w \div CGSide(w, h), h \div CGSide(w, h)),
   id |-> -1, groups |-> {}, diag |-> -1, sum1 |-> -1]
CGSize(c) == CGSide(c.w, c.h) * CGSide(c.w, c.h)
CGPos(c, id) == c.scanCG[id + 1]
blockPos(c, n) == c.scan[n + 1]

\* Where the last coefficient lies is coded by a group of positions and an
\* offset in it.
MinInGroup == <<0, 1, 2, 3, 4, 6, 8, 12, 16, 24, 32, 48, 64, 96>>
GroupIdx(pos) == (CHOOSE g \in 1 .. 14 : /\ MinInGroup[g] <= pos
                                        /\ (g = 14 \/ pos < MinInGroup[g + 1])) - 1
maxLastPosX(c) == GroupIdx(c.w - 1)
maxLastPosY(c) == GroupIdx(c.h - 1)
PrefixCtx == <<0, 0, 0, 3, 6, 10, 15, 21>>
LastCtx(c, set, side, pos) ==
  IF c.ch = 0
  THEN CtxOf(set, 0, PrefixCtx[FloorLog2(side) + 1] + pos \div 2 ^ ((FloorLog2(side) + 1) \div 4))
  ELSE CtxOf(set, 1, pos \div 2 ^ Clip(0, 2, side \div 8))
lastXCtxId(c, pos) == LastCtx(c, "LastX", c.w, pos)
lastYCtxId(c, pos) == LastCtx(c, "LastY", c.h, pos)

initSubblock(c, id, sigGroupFlag) ==
  [c EXCEPT !.id = id, !.groups = @ \cup (IF sigGroupFlag THEN {CGPos(c, id)} ELSE {})]
setSigGroup(c) == [c EXCEPT !.groups = @ \cup {CGPos(c, c.id)}]
isSigGroup(c)  == CGPos(c, c.id) \in c.groups
isLast(c)      == c.last \div CGSize(c) = c.id
isNotFirst(c)  == c.id # 0
minSubPos(c)   == c.id * CGSize(c)
maxSubPos(c)   == minSubPos(c) + CGSize(c) - 1
sigGroupCtxId(c) ==
  LET p == CGPos(c, c.id)
  IN CtxOf("SigCoeffGroup", c.ch,
           Flag({<<p[1] + 1, p[2]>>, <<p[1], p[2] + 1>>} \cap c.groups # {}))

\* The five neighbours to the right and below that are coded before p.
Template(c, p) ==
  {<<p[1] + 1, p[2]>>, <<p[1] + 2, p[2]>>, <<p[1] + 1, p[2] + 1>>,
   <<p[1], p[2] + 1>>, <<p[1], p[2] + 2>>} \cap Positions(c.w, c.h)

\* sigCtxIdAbs: the context of a significance flag; seeing the template is kept
\* for the flags of the level that follow.
Small(a) == MinOf(4 - (a % 2), a)
TemplateSum(c, n, coeff) ==
  LET term(q) == Small(AbsOf(coeff[q])) IN MapThenSumSet(term, Template(c, blockPos(c, n)))
SeeTemplate(c, n, coeff) ==
  LET p == blockPos(c, n)
      term(q) == Flag(coeff[q] # 0)
  IN [c EXCEPT !.diag = p[1] + p[2],
               !.sum1 = TemplateSum(c, n, coeff) - MapThenSumSet(term, Template(c, p))]
sigCtxIdAbs(c, n, coeff, state) ==
  LET p == blockPos(c, n)
      diag == p[1] + p[2]
  IN CtxOf("SigFlag", c.ch + 2 * MaxOf(0, state - 1),
           MinOf(TemplateSum(c, n, coeff), 5) + (IF diag < 2 THEN 6 ELSE 0)
           + (IF c.ch = 0 /\ diag < 5 THEN 6 ELSE 0))

\* The offset of the parity and greater-than flags.  It stays that of the last
\* significance flag when the significance of a coefficient is inferred.
DiagOffset(c) ==
  IF c.ch = 1 THEN IF c.diag = 0 THEN 5 ELSE 0
  ELSE IF c.diag = 0 THEN 15 ELSE IF c.diag < 3 THEN 10 ELSE IF c.diag < 10 THEN 5 ELSE 0
ctxOffsetAbsWide(c) == IF c.diag = -1 THEN 0 ELSE MinOf(c.sum1, 5) + 1 + DiagOffset(c)
ctxOffsetAbs(c) == IF c.diag = -1 THEN 0 ELSE MinOf(c.sum1, 4) + 1 + DiagOffset(c)
parityCtxIdAbs(c, offset)   == CtxOf("ParFlag", c.ch, offset)
greater1CtxIdAbs(c, offset) == CtxOf("GtxFlag", c.ch + 2, offset)
greater2CtxIdAbs(c, offset) == CtxOf("GtxFlag", c.ch, offset)

GoRiceParAbs(c, n, coeff) ==
  LET term(q) == AbsOf(coeff[q]) - Flag(coeff[q] # 0)
      sum == MapThenSumSet(term, Template(c, blockPos(c, n)))
  IN IF sum < 12 THEN 0 ELSE IF sum < 25 THEN 1 ELSE 2

SBH_THRESHOLD == 4
hideSign(c, posFirst, posLast) == c.signHiding /\ posLast - posFirst >= SBH_THRESHOLD

\* 32040: the state machine of dependent quantisation, driven by the parity of
\* the levels (the constant read as four two-bit entries per state, bit 0 of the
\* level selecting the entry).
StateTrans == << <<0, 2>>, <<2, 0>>, <<1, 3>>, <<3, 1>> >>
NextState(depQuant, state, level) ==
  IF depQuant THEN StateTrans[state + 1][(AbsOf(level) % 2) + 1] ELSE 0

\* Scan positions from hi down to lo.
Down(hi, lo) == [i \in 1 .. hi - lo + 1 |-> hi - i + 1]

(***************************************************************************)
(* The conditions that both sides ask, of the parameters p of the sequence *)
(* and picture and of the transform unit tu.                               *)
(***************************************************************************)
TransformSkipCoded(p, tu) ==
  p.useTransformSkip /\ ~tu.bypass /\ ~(tu.ch = 0 /\ tu.emtFlag)
  /\ tu.w * tu.h <= 4 ^ p.log2MaxTransformSkip
isRDPCMEnabled(p, tu) == IF tu.intra THEN p.implicitRdpcm ELSE p.explicitRdpcm
RdpcmCoded(p, tu, transformSkip) ==
  ~tu.intra /\ isRDPCMEnabled(p, tu) /\ (transformSkip \/ tu.bypass)
SignHiding(p, tu, transformSkip, rdpcm) ==
  /\ p.signHiding /\ ~tu.bypass /\ rdpcm = "OFF"
  /\ ~(tu.intra /\ isRDPCMEnabled(p, tu) /\ transformSkip /\ tu.intraMode \in {"HOR", "VER"})
EmtMax(intra) == IF intra THEN EMT_INTRA_MAX_CU_WITH_QTBT ELSE EMT_INTER_MAX_CU_WITH_QTBT
EmtIndexFits(tu) == tu.cuW <= EmtMax(tu.intra) /\ tu.cuH <= EmtMax(tu.intra)
g_EmtSigNumThr == 2
EmtIndexCoded(p, tu, transformSkip, numSig) ==
  /\ tu.ch = 0 /\ (IF tu.intra THEN p.intraEMT ELSE p.interEMT)
  /\ ~transformSkip /\ tu.emtFlag
  /\ tu.intra => numSig > g_EmtSigNumThr
=============================================================================
