----------------------------- MODULE HlsCoding -----------------------------
(***************************************************************************)
(* The slice header: what both sides derive from it.  A header h has the   *)
(* members of Slice that the header carries, the parameters p those of the *)
(* parameter sets and of the picture that decide what it carries.          *)
(***************************************************************************)
EXTENDS Bins, SequencesExt

SliceTypes == <<"B", "P", "I">>
MRG_MAX_NUM_CANDS == 7
MAX_BT_LOG2  == 5    \* MAX_BT_SIZE, of intra slices
MIN_CU_LOG2  == 2
MAX_NUM_ALF_CLASSES == 25

\* Number of bits for a value below n.
BitsFor(n) == CHOOSE b \in 0 .. 20 : 2 ^ b >= n /\ \A a \in 0 .. b - 1 : 2 ^ a < n
MaxMerge(p) == MRG_MAX_NUM_CANDS - (IF p.SubPuMvp THEN 0 ELSE 2)
FiltersOn(p, h) == (p.useSAO /\ (h.saoLuma \/ (p.chroma /\ h.saoChroma))) \/ ~h.dbDisable
Weighted(p, h) == (p.useWP /\ h.type = "P") \/ (p.WPBiPred /\ h.type = "B")
ColChoice(h) == (h.colFromL0 /\ h.numRef[1] > 1) \/ (~h.colFromL0 /\ h.numRef[2] > 1)

(***************************************************************************)
(* Reference picture sets: the distances of the pictures, nearest first,   *)
(* those before the current picture before those after it, and whether     *)
(* the current picture uses each.                                          *)
(***************************************************************************)
Rps(deltas, used) == [deltas |-> deltas, used |-> used, inter |-> FALSE, idc |-> <<>>, deltaRPS |-> 0, ridx |-> 0]
NoRps == Rps(<<>>, <<>>)
NegPart(rps) == SelectSeq(rps.deltas, LAMBDA d : d < 0)
sortDeltaPOC(pairs) ==
  LET before(a, b) == IF a[1] < 0 THEN b[1] >= 0 \/ a[1] > b[1] ELSE b[1] >= 0 /\ a[1] < b[1]
  IN SortSeq(pairs, before)
\* What a set says about the decoded picture buffer.
RpsMeaning(rps) == <<rps.deltas, rps.used>>

(***************************************************************************)
(* Parameter sets.  Chroma formats are 0 (no chroma) to 3 (4:4:4); offsets *)
(* of a window (left, right, top, bottom) are sent in samples of chroma.   *)
(***************************************************************************)
WinUnit(chroma) ==
  LET x == <<1, 2, 2, 1>>[chroma + 1]
      y == <<1, 2, 1, 1>>[chroma + 1]
  IN <<x, x, y, y>>
NEXT == 6               \* the profile
LEVEL5 == 150
NumReservedFlags == 5
NumExtensionFlags == 8  \* of either set; in use are these
SPS_EXT__NEXT == 3
PPS_EXT__REXT == 0

(***************************************************************************)
(* Adaptive loop filter: the diamond of 5 by 5 or 7 by 7 samples has six   *)
(* or twelve coefficients beside its centre, in two or three classes of    *)
(* Golomb parameters.                                                      *)
(***************************************************************************)
GolombIdx(seven) == IF seven THEN <<1, 1, 2, 1, 1, 2, 3, 2, 1, 1, 2, 3>> ELSE <<1, 1, 2, 1, 1, 2>>
MaxGolombIdx(seven) == IF seven THEN 3 ELSE 2
NoFilters == [i \in 1 .. MAX_NUM_ALF_CLASSES |-> 0]
AlfMeaning(a) ==
  IF ~a.luma THEN [on |-> FALSE]
  ELSE [on |-> TRUE, cb |-> a.cb, cr |-> a.cr, seven |-> a.seven, classes |-> a.deltaIdx,
        pred |-> a.predMode, coeff |-> a.coeff,
        chroma |-> IF a.cb \/ a.cr THEN <<a.ctbPresent, a.chromaCoeff>> ELSE <<>>]

(***************************************************************************)
(* Weighted prediction: of a reference, what luma and the two chroma       *)
(* components are multiplied with and shifted by.                          *)
(***************************************************************************)
WpDefault(denomY, denomC) ==
  [y |-> FALSE, c |-> FALSE, w |-> <<2 ^ denomY, 2 ^ denomC, 2 ^ denomC>>, o |-> <<0, 0, 0>>]
WpRange == 128
WpPred(w, denom) == WpRange - ((WpRange * w) \div 2 ^ denom)
WpMeaning(p, h) ==
  <<h.denomY, h.denomC>> \o
  [l \in 1 .. (IF h.type = "B" THEN 2 ELSE 1) |->
     [i \in 1 .. h.numRef[l] |->
        LET e == h.wp[l][i] IN IF p.chroma THEN e ELSE [y |-> e.y, w |-> e.w[1], o |-> e.o[1]]]]

\* Clipping to the range of the samples' depth.
DefaultClip(p) ==
  LET all == <<0, 2 ^ p.bitDepth - 1>> IN [used |-> FALSE, y |-> all, chroma |-> FALSE, c |-> <<all, all>>]

\* What decides how the slice is decoded: every member in the cases in which
\* it is looked at.  poc and table (of initial context states) are the two that
\* the sides hold in forms of their own.
Meaning(p, h, poc, table) ==
  LET inter == h.type # "I"
      when(c, v) == IF c THEN <<v>> ELSE <<>>
  IN [start |-> h.addr, type |-> h.type, poc |-> poc, output |-> h.output,
      noPrior |-> when(p.rap, h.noOutputPrior),
      rps |-> IF p.idr THEN NoRps.deltas ELSE RpsMeaning(h.rps),
      lt |-> when(p.longTerm /\ ~p.idr, [i \in DOMAIN h.lt |-> h.lt[i] % 2 ^ p.bitsForPOC]),
      tmvp |-> when(~p.idr /\ inter, h.tmvp),
      sao |-> when(p.useSAO, <<h.saoLuma, p.chroma /\ h.saoChroma>>),
      alf |-> when(p.useALF, AlfMeaning(h.alf)),
      refs |-> when(inter, IF h.type = "B" THEN h.numRef ELSE <<h.numRef[1]>>),
      mvdL1Zero |-> when(h.type = "B", h.mvdL1Zero), table |-> when(inter, table),
      col |-> when(~p.idr /\ inter /\ h.tmvp, <<h.colFromL0, h.colRefIdx>>),
      wp |-> when(Weighted(p, h), WpMeaning(p, h)), lic |-> when(inter /\ p.LIC, h.useLIC),
      quant |-> <<h.depQuant, h.signHiding>>, merge |-> when(inter, h.maxMerge),
      bt |-> MinOf(h.maxBT, p.ctuLog2), qp |-> h.qp, chromaQp |-> <<h.cbQp, h.crQp>>, adj |-> h.chromaAdj,
      db |-> IF h.dbDisable THEN <<>> ELSE <<h.beta, h.tc>>,
      across |-> when(FiltersOn(p, h), h.lfAcross),
      clip |-> IF ~p.AClip \/ ~h.clip.used THEN <<>> ELSE <<h.clip.y, when(h.clip.chroma, h.clip.c)>>,
      sub |-> when(inter /\ p.SubPuMvp, h.subblkLog2)]
=============================================================================
