------------------------------ MODULE CuCoding ------------------------------
(***************************************************************************)
(* What CABACWriter::coding_unit and CABACReader::coding_unit both ask:    *)
(* contexts derived from the neighbours, candidate modes, and the          *)
(* conditions under which an element is sent.  p is what both sides know:  *)
(* the parameters of the sequence, picture and slice and the unit's        *)
(* surroundings; cu is the unit as far as it is known, in initData's state *)
(* before anything is.  Lists 0 and 1 of references are entries 1 and 2.   *)
(***************************************************************************)
EXTENDS Bins

PLANAR_IDX == 0
DC_IDX  == 1
HOR_IDX == 18
VER_IDX == 50
VDIA_IDX == 66
NUM_LUMA_MODE == 67
LM_CHROMA_IDX == 67
DM_CHROMA_IDX == 68
GBI_DEFAULT == 2
Zero == <<0, 0>>

\* CodingUnit::initData, PredictionUnit::initData.
initData ==
  [bypass |-> FALSE, skip |-> FALSE, predMode |-> "NONE", pdpc |-> FALSE, ipcm |-> FALSE,
   pcm |-> <<>>, lumaMode |-> DC_IDX, chromaMode |-> PLANAR_IDX, merge |-> FALSE, fruc |-> "OFF",
   affine |-> FALSE, affineType |-> 0, mergeIdx |-> 255, interDir |-> 255, refIdx |-> <<-1, -1>>,
   mvd |-> <<Zero, Zero>>, mvdAffi |-> << <<Zero, Zero, Zero>>, <<Zero, Zero, Zero>> >>,
   mvpIdx |-> <<255, 255>>, imv |-> 0, obmc |-> FALSE, lic |-> FALSE, gbi |-> GBI_DEFAULT,
   rootCbf |-> TRUE, emtFlag |-> FALSE, nsst |-> 0, chromaQpAdj |-> 0, tus |-> <<>>]
\* A transform unit: its coded block flags, the factors of cross-component
\* prediction and, for each component, the number of coefficients that are not
\* transform-skipped, which stands for the residual.
Components == <<"Y", "Cb", "Cr">>
NewTU == [cbf |-> [c \in {"Y", "Cb", "Cr"} |-> FALSE], alpha |-> [c \in {"Cb", "Cr"} |-> 0],
          num |-> [c \in {"Y", "Cb", "Cr"} |-> 0]]

(***************************************************************************)
(* Contexts (DeriveCtx).  A neighbour that is not available is the unit    *)
(* none of whose tools is used.                                            *)
(***************************************************************************)
NoUnit == [intra |-> FALSE, mode |-> DC_IDX, skip |-> FALSE, affine |-> FALSE, imv |-> 0, fruc |-> "OFF"]
Neighbours(p, has(_)) == Flag(has(p.left)) + Flag(has(p.above))
CtxSkipFlag(p)   == Ctx("SkipFlag", Neighbours(p, LAMBDA n : n.skip))
CtxAffineFlag(p) == Ctx("AffineFlag", Neighbours(p, LAMBDA n : n.affine))
CtxIMVFlag(p)    == Ctx("ImvFlag", Neighbours(p, LAMBDA n : n.imv # 0))
CtxFrucFlag(p)   == Ctx("FrucFlag", Neighbours(p, LAMBDA n : n.fruc # "OFF"))
CtxFrucMode(p)   == Ctx("FrucMode", Neighbours(p, LAMBDA n : n.fruc = "BILATERAL"))
InterDirOffset(p) ==
  IF p.largeCtu THEN Clip(0, 3, 7 - (FloorLog2(p.w) + FloorLog2(p.h) + 1) \div 2) ELSE p.qtDepth
CtxInterDir(p) == Ctx("InterDir", InterDirOffset(p))
CtxQtCbf(comp, trDepth, prevCb) ==
  CASE comp = "Y"  -> CtxOf("QtCbf", 0, IF trDepth = 0 THEN 1 ELSE 0)
    [] comp = "Cb" -> CtxOf("QtCbf", 1, trDepth)
    [] comp = "Cr" -> CtxOf("QtCbf", 2, Flag(prevCb))
NUM_EMT_CU_FLAG_CTX == 6
CtxEmtCuFlag(p) == Ctx("EMTCuFlag", MinOf(p.qtDepth, NUM_EMT_CU_FLAG_CTX - 1))

(***************************************************************************)
(* Intra modes.                                                            *)
(***************************************************************************)
HasLuma(p)   == p.tree # "C"
HasChroma(p) == p.tree # "L"
isDualITree(p) == p.tree # "S"

\* The three most probable modes; the unit above counts within the CTU only.
getIntraMPMs(p) ==
  LET l == IF p.left.intra THEN p.left.mode ELSE DC_IDX
      a == IF p.above.intra /\ p.aboveInCtu THEN p.above.mode ELSE DC_IDX
  IN IF l = a /\ l > DC_IDX THEN <<l, ((l + 61) % 64) + 2, ((l - 1) % 64) + 2>>
     ELSE IF l = a THEN <<PLANAR_IDX, DC_IDX, VER_IDX>>
     ELSE <<l, a, IF l # PLANAR_IDX /\ a # PLANAR_IDX THEN PLANAR_IDX
                  ELSE IF l + a < 2 THEN VER_IDX ELSE DC_IDX>>

\* The luma mode that a chroma block sees: that of its own unit, or of the
\* luma tree's unit at its place.
LumaMode(p, cu) == IF isDualITree(p) THEN p.lumaMode ELSE cu.lumaMode
getIntraChromaCandModes(p, cu) ==
  [i \in 1 .. 4 |-> LET m == <<PLANAR_IDX, VER_IDX, HOR_IDX, DC_IDX>>[i]
                    IN IF m = LumaMode(p, cu) THEN VDIA_IDX ELSE m]
\* Whether LM, or none of the linear models (-1), comes first: LM always does.
getLMSymbolList(p) == <<LM_CHROMA_IDX, -1>>

(***************************************************************************)
(* What is coded.                                                          *)
(***************************************************************************)
SkipFlagCoded(p) == p.slice # "I" /\ HasLuma(p)
PdpcCoded(p, cu) == p.pdpc /\ cu.predMode # "INTER"
PcmCoded(p) == p.pcm /\ p.w \in p.pcmMin .. p.pcmMax

isAffineMrgFlagCoded(p) == p.w >= 8 /\ p.h >= 8 /\ p.affineNeighbour
AffineFlagCoded(p, cu) ==
  /\ p.slice # "I" /\ p.affine /\ cu.fruc = "OFF"
  /\ IF cu.merge THEN isAffineMrgFlagCoded(p) ELSE p.w > 8 /\ p.h > 8
AffineTypeCoded(p, cu) == cu.affine /\ ~cu.merge /\ p.affineType

Used(cu, list) == cu.interDir # 3 - list
MvdCoded(p, cu, list) == list = 1 \/ ~p.mvdL1Zero \/ cu.interDir # 3
hasSubCUNonZeroMVd(p, cu) ==
  /\ ~cu.merge /\ ~cu.skip
  /\ \E list \in {1, 2} : Used(cu, list) /\ MvdCoded(p, cu, list) /\ cu.mvd[list] # Zero
\* A block that refers to its own picture has vectors of full samples.
ImvInferred(p, cu) == cu.interDir = 1 /\ cu.refIdx[1] = p.cprRef

isObmcFlagCoded(p, cu) == cu.predMode # "INTRA" /\ ~cu.merge /\ p.w * p.h <= 16 * 16
isLICFlagPresent(p, cu) ==
  /\ cu.predMode # "INTRA" /\ p.lic # 0
  /\ ~(cu.merge /\ cu.fruc = "OFF")
  /\ p.lic = 2 => p.w * p.h > 32
  /\ ~cu.affine
isGBiIdxCoded(p, cu) ==
  p.gbi /\ cu.predMode # "INTRA" /\ p.slice # "P" /\ cu.interDir = 3 /\ ~cu.merge
numGBi(p) == IF p.checkLDC THEN 5 ELSE 3
\* resetGbiCodingOrder: the default first, then outwards by turns.
GbiParsingOrder == <<2, 3, 1, 4, 0>>

RootCbfCoded(cu) == cu.predMode = "INTER" /\ ~cu.merge
\* TU_MAX_TR_SPLIT: the number of transform units.
NumTUs(p) == MaxOf(1, p.w \div p.maxTr) * MaxOf(1, p.h \div p.maxTr)
ChromaQpAdjCoded(p, cu, cbfChroma) == p.qpAdjLen > 0 /\ cbfChroma /\ ~cu.bypass
EmtCuFlagCoded(p, cu) ==
  LET max == IF cu.predMode = "INTRA" THEN EMT_INTRA_MAX_CU_WITH_QTBT ELSE EMT_INTER_MAX_CU_WITH_QTBT
  IN /\ IF cu.predMode = "INTRA" THEN p.intraEMT ELSE p.interEMT
     /\ HasLuma(p) /\ p.w <= max /\ p.h <= max
hasCrossCompPredInfo(p, cu, tu) ==
  p.crossComp /\ tu.cbf["Y"] /\ (cu.predMode = "INTER" \/ cu.chromaMode = DM_CHROMA_IDX)

\* Secondary transforms need more coefficients than there are channels in the
\* tree; planar, DC and the linear model have one kernel less.
numNonZeroCoeffNonTs(cu) ==
  LET of(tu) == tu.num["Y"] + tu.num["Cb"] + tu.num["Cr"]
      upTo[n \in 0 .. Len(cu.tus)] == IF n = 0 THEN 0 ELSE upTo[n - 1] + of(cu.tus[n])
  IN upTo[Len(cu.tus)]
NsstCoded(p, cu) ==
  /\ ~(p.tree = "C" /\ MinOf(p.w, p.h) \div 2 < 4)
  /\ p.nsst /\ cu.predMode = "INTRA" /\ ~cu.bypass /\ ~cu.pdpc
  /\ numNonZeroCoeffNonTs(cu) > (IF isDualITree(p) THEN 1 ELSE 2)
ThreeNSSTPasses(p, cu) ==
  LET mode == IF p.tree # "C" THEN cu.lumaMode
              ELSE IF cu.chromaMode = DM_CHROMA_IDX THEN LumaMode(p, cu)
              ELSE IF cu.chromaMode = LM_CHROMA_IDX THEN PLANAR_IDX
              ELSE cu.chromaMode
  IN mode <= DC_IDX
=============================================================================
