-------------------------------- MODULE Bins --------------------------------
(***************************************************************************)
(* What CABACWriter and CABACReader have in common below the syntax: a bin *)
(* is a pair of the context it is coded with and its value.  A context is  *)
(* a set of Ctx (Contexts.h) and an offset in it; bins without a context   *)
(* have the pseudo contexts EP (equal probability), Trm (terminating) and  *)
(* PCM (raw bits).  A message is a sequence of bins; how the arithmetic    *)
(* coder carries it is the subject of BinEncoder.                          *)
(***************************************************************************)
EXTENDS Integers, Sequences

CtxOf(set, sub, offset) == <<set, sub, offset>>
Ctx(set, offset) == CtxOf(set, 0, offset)
EP  == Ctx("EP", 0)
Trm == Ctx("Trm", 0)
PCM == Ctx("PCM", 0)

\* Contexts.cpp: the number of contexts of each set (of its luma and chroma
\* parts and the like, where the table has several).  An offset beyond it is
\* the first context of another set: nothing but a debug check notices.
CtxSetSize(set, sub) ==
  CASE set \in {"EP", "Trm", "PCM", "Residual", "MergeFlag", "PredMode", "PdpcFlag", "AffineType",
                "QtRootCbf", "MVPIdx", "SaoMergeFlag", "SaoTypeIdx", "TransquantBypassFlag",
                "ChromaQpAdjFlag", "ChromaQpAdjIdc", "LICFlag", "ObmcFlag"} -> 1
    [] set \in {"RefPic", "Mvd", "SigCoeffGroup", "TransformSkipFlag", "RdpcmFlag", "RdpcmDir"} -> 2
    [] set \in {"SkipFlag", "DeltaQP", "AffineFlag", "FrucFlag", "FrucMode"} -> 3
    [] set \in {"PartSize", "EMTTuIndex", "ImvFlag"} -> 4
    [] set \in {"SplitFlag", "MergeIdx", "InterDir", "TransSubdivFlag", "NSSTIdx"} -> 5
    [] set = "EMTCuFlag" -> 6
    [] set = "GBiIdx" -> 7
    [] set = "ctbAlfFlag" -> 9
    [] set = "CrossCompPred" -> 10
    [] set = "BTSplitFlag" -> 12
    [] set = "IPredMode" -> IF sub = 0 THEN 1 ELSE 12
    [] set = "QtCbf" -> IF sub = 1 THEN 5 ELSE 2
    [] set = "SigFlag" -> IF sub % 2 = 0 THEN 20 ELSE 12
    [] set \in {"ParFlag", "GtxFlag"} -> IF sub % 2 = 0 THEN 21 ELSE 11
    [] set \in {"LastX", "LastY"} -> IF sub = 0 THEN 25 ELSE 4
InSet(ctx) == ctx[3] \in 0 .. CtxSetSize(ctx[1], ctx[2]) - 1

MinOf(a, b) == IF a < b THEN a ELSE b
MaxOf(a, b) == IF a > b THEN a ELSE b
AbsOf(a)    == IF a < 0 THEN -a ELSE a
Clip(lo, hi, a) == MaxOf(lo, MinOf(hi, a))
Flag(b)     == IF b THEN 1 ELSE 0

\* Rom.cpp: the number of the highest bit of n; g_aucLog2 and g_NonMPM hold
\* this for their index.
FloorLog2(n) == CHOOSE k \in 0 .. 30 : 2 ^ k <= n /\ n < 2 * 2 ^ k

\* Rom.cpp: the number of Golomb-Rice prefixes before the escape, by parameter.
GoRiceRange(rice) == IF rice = 1 THEN 5 ELSE IF rice \in {0, 2} THEN 6 ELSE 3
COEF_REMAIN_BIN_REDUCTION == 3

\* The largest blocks with a choice of transforms (CommonDef.h).
EMT_INTRA_MAX_CU_WITH_QTBT == 32
EMT_INTER_MAX_CU_WITH_QTBT == 32
=============================================================================
