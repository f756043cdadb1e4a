----------------------------- MODULE UnitInputs -----------------------------
(***************************************************************************)
(* Transform blocks and coding units for SyntaxCoding: the parameters and  *)
(* surroundings, and the levels and units that the encoder's search and    *)
(* quantiser may choose under them.                                        *)
(***************************************************************************)
EXTENDS CoeffCoding, CuCoding

CONSTANTS Sizes,       \* <<ch, w, h>> of the blocks
          Levels,      \* levels of their coefficients
          Extended,    \* the values of extended_precision_processing_flag
          Mvds,        \* differences of vectors, in full precision
          IntraModes   \* luma modes

(***************************************************************************)
(* Transform blocks.  Levels repeat a short pattern along the scan, or are zero but  *)
(* at a few positions.  With sign hiding the quantiser has made the parity *)
(* of each subblock's sum tell the sign of its last coefficient in coding  *)
(* order (Quant::xSignBitHidingHDQ).  Dependent quantisation excludes it.  *)
(***************************************************************************)
Context(s) == NewContext(s[1], s[2], s[3], TRUE)
\* The function f on scan positions as a function on positions.
AtScan(s, f) ==
  LET scan == Context(s).scan
      place(g, n) == [g EXCEPT ![scan[n]] = f[n - 1]]
  IN FoldLeft(place, [q \in Positions(s[2], s[3]) |-> 0], [n \in 1 .. Len(scan) |-> n])
Patterned(s) ==
  {[n \in 0 .. s[2] * s[3] - 1 |-> f[n % 3]] : f \in [0 .. 2 -> Levels]}
Sparse(s) ==
  LET top == s[2] * s[3] - 1
  IN {[n \in 0 .. top |-> IF n = a THEN x ELSE IF n = b THEN y ELSE 0] :
        a \in {0, 5, top \div 2}, b \in {1, 17, top}, x \in Levels, y \in Levels}
Hidden(s, f) ==
  LET size == CGSize(Context(s))
      sig(g) == {n \in DOMAIN f : n \div size = g /\ f[n] # 0}
      sum(g) == MapThenSumSet(LAMBDA n : AbsOf(f[n]), sig(g))
      tells(n) == LET S == sig(n \div size)
                  IN n = Min(S) /\ Max(S) - n >= SBH_THRESHOLD
  IN [n \in DOMAIN f |-> IF f[n] # 0 /\ tells(n)
                         THEN IF sum(n \div size) % 2 = 1 THEN -AbsOf(f[n]) ELSE AbsOf(f[n])
                         ELSE f[n]]
Scanned(s) == {f \in Patterned(s) \cup Sparse(s) : \E n \in DOMAIN f : f[n] # 0}
\* One, two or three significant coefficients, or a full block.
Few(s) == LET top == s[2] * s[3] - 1
          IN {[n \in 0 .. top |-> IF n \in S THEN 1 + (n % 4) ELSE 0] :
                S \in {{0}, {0, 1}, {0, 5, 6}, 0 .. top}}

Base == [useTransformSkip |-> FALSE, log2MaxTransformSkip |-> 2, implicitRdpcm |-> FALSE,
         explicitRdpcm |-> FALSE, signHiding |-> FALSE, depQuant |-> FALSE, intraEMT |-> FALSE,
         interEMT |-> FALSE, extPrec |-> FALSE, range |-> 15]
Quantisers ==
  {[Base EXCEPT !.signHiding = q = "hiding", !.depQuant = q = "dependent", !.extPrec = x] :
     q \in {"hiding", "dependent", "plain"}, x \in Extended}
Tools == {[Base EXCEPT !.useTransformSkip = ts, !.implicitRdpcm = rd, !.explicitRdpcm = rd,
                       !.signHiding = TRUE, !.intraEMT = e, !.interEMT = e] :
            ts \in BOOLEAN, rd \in BOOLEAN, e \in BOOLEAN}

\* A unit before its levels are known, as initData and the prediction leave it.
Unit(s) ==
  [ch |-> s[1], w |-> s[2], h |-> s[3], cuW |-> s[2], cuH |-> s[3], intra |-> TRUE,
   bypass |-> FALSE, emtFlag |-> FALSE, intraMode |-> "OTHER", transformSkip |-> FALSE,
   rdpcm |-> "OFF", emtIdx |-> 0, coeff |-> [q \in Positions(s[2], s[3]) |-> 0]]
Units(s) ==
  {[Unit(s) EXCEPT !.intra = intra, !.bypass = bypass, !.emtFlag = emt, !.intraMode = mode, !.cuW = @ * scale] :
     intra \in BOOLEAN, bypass \in BOOLEAN, emt \in BOOLEAN, mode \in {"HOR", "VER", "OTHER"},
     scale \in {1, 16}}
\* What the search may choose for it: rdpcmNxN derives the mode of an intra block
\* and keeps it in the unit; the index of the transform is zero unless it is coded.
Selections(par, u) ==
  {[u EXCEPT !.transformSkip = ts, !.rdpcm = rd, !.emtIdx = e] :
     ts \in IF TransformSkipCoded(par, u) THEN BOOLEAN ELSE {FALSE},
     rd \in {"OFF", "HOR", "VER"}, e \in 0 .. 3}
Chosen(par, v, numSig) ==
  /\ v.rdpcm \in
       IF ~isRDPCMEnabled(par, v) \/ ~(v.transformSkip \/ v.bypass) THEN {"OFF"}
       ELSE IF v.intra THEN {IF v.intraMode = "OTHER" THEN "OFF" ELSE v.intraMode}
       ELSE {"OFF", "HOR", "VER"}
  /\ v.emtIdx # 0 => EmtIndexCoded(par, v, v.transformSkip, numSig) /\ EmtIndexFits(v)
WithLevels(par, v, s, f) ==
  [v EXCEPT !.coeff = AtScan(s, IF SignHiding(par, v, v.transformSkip, v.rdpcm) THEN Hidden(s, f) ELSE f)]
NumSig(f) == Cardinality({n \in DOMAIN f : f[n] # 0})

Blocks(par, s) == {WithLevels(par, Unit(s), s, f) : f \in Scanned(s)}
ToolBlocks(par, s) ==
  UNION {{WithLevels(par, v, s, f) : v \in {c \in Selections(par, u) : Chosen(par, c, NumSig(f))}} :
           u \in Units(s), f \in Few(s)}
\* What the reader knows before it comes to the residual.
Known(u) == [Unit(<<u.ch, u.w, u.h>>) EXCEPT !.cuW = u.cuW, !.cuH = u.cuH, !.intra = u.intra,
               !.bypass = u.bypass, !.emtFlag = u.emtFlag, !.intraMode = u.intraMode]

(***************************************************************************)
(* Coding units.                                                           *)
(***************************************************************************)
Plain ==
  [slice |-> "B", tree |-> "S", w |-> 16, h |-> 16, qtDepth |-> 2, largeCtu |-> FALSE, maxTr |-> 64,
   left |-> NoUnit, above |-> NoUnit, aboveInCtu |-> TRUE, lumaMode |-> DC_IDX,
   bypassEnabled |-> FALSE, pdpc |-> FALSE, pcm |-> FALSE, pcmMin |-> 8, pcmMax |-> 32,
   pcmBits |-> <<3, 2, 2>>, lmChroma |-> FALSE, maxNumMergeCand |-> 5, subPuMvp |-> FALSE,
   fruc |-> FALSE, affine |-> FALSE, affineType |-> FALSE, affineNeighbour |-> FALSE, imv |-> 0,
   obmc |-> FALSE, lic |-> 0, gbi |-> FALSE, checkLDC |-> FALSE, mvdL1Zero |-> FALSE,
   numRef |-> <<1, 1>>, cprRef |-> -2, nsst |-> FALSE, crossComp |-> FALSE, qpAdjLen |-> 0,
   intraEMT |-> FALSE, interEMT |-> FALSE]
IntraUnit(mode) == [NoUnit EXCEPT !.intra = TRUE, !.mode = mode]
ToolsUnit == [NoUnit EXCEPT !.skip = TRUE, !.affine = TRUE, !.imv = 2, !.fruc = "BILATERAL"]

(***************************************************************************)
(* What the search leaves in a unit: a tool is used only where the syntax  *)
(* can say so (EncCu's xCheckRDCost... functions and InterSearch).         *)
(***************************************************************************)
AllMultiples(u) ==
  \A list \in {1, 2} : \A i \in {1, 2} : u.mvd[list][i] % 4 ^ u.imv = 0
InterLegal(p, u) ==
  /\ u.fruc # "OFF" => p.fruc /\ u.merge /\ (p.slice = "P" => u.fruc = "TEMPLATE")
  /\ u.affine => AffineFlagCoded(p, u)
  /\ u.affineType = 1 => AffineTypeCoded(p, u)
  /\ (u.mergeIdx = 255) <=> (u.fruc # "OFF" \/ u.affine \/ ~u.merge)
  /\ u.lic => isLICFlagPresent(p, u)
  /\ u.obmc # p.obmc => p.obmc /\ isObmcFlagCoded(p, u)
  /\ u.gbi # GBI_DEFAULT => isGBiIdxCoded(p, u)
  /\ u.imv # 0 => u.imv <= p.imv /\ hasSubCUNonZeroMVd(p, u) /\ AllMultiples(u)
  /\ p.imv # 0 /\ hasSubCUNonZeroMVd(p, u) /\ ImvInferred(p, u) => u.imv # 0
\* A transform unit has a residual where its flags say so, and an inter unit of
\* one transform without chroma has one in luma.
TuLegal(p, u, tu) ==
  /\ \A c \in {"Y", "Cb", "Cr"} : tu.num[c] # 0 => tu.cbf[c]
  /\ (tu.cbf["Y"] => HasLuma(p)) /\ (tu.cbf["Cb"] \/ tu.cbf["Cr"] => HasChroma(p))
  /\ \A c \in {"Cb", "Cr"} : tu.alpha[c] # 0 => HasChroma(p) /\ hasCrossCompPredInfo(p, u, tu)
ResidualLegal(p, u) ==
  LET chroma == \E i \in DOMAIN u.tus : u.tus[i].cbf["Cb"] \/ u.tus[i].cbf["Cr"]
      luma   == \E i \in DOMAIN u.tus : u.tus[i].cbf["Y"]
  IN /\ \A i \in DOMAIN u.tus : TuLegal(p, u, u.tus[i])
     /\ u.predMode = "INTER" => (u.rootCbf <=> luma \/ chroma)
     /\ ~u.rootCbf => u.tus = <<NewTU>>
     /\ u.emtFlag => EmtCuFlagCoded(p, u) /\ luma
     /\ u.nsst # 0 => NsstCoded(p, u) /\ u.nsst <= (IF ThreeNSSTPasses(p, u) THEN 2 ELSE 3)
     /\ u.chromaQpAdj # 0 => ChromaQpAdjCoded(p, u, chroma)

InterUnit(p) == [initData EXCEPT !.predMode = "INTER", !.obmc = p.obmc, !.rootCbf = FALSE, !.tus = <<NewTU>>]
LumaTU == [NewTU EXCEPT !.cbf["Y"] = TRUE, !.num["Y"] = 2]

(***************************************************************************)
(* Merged units, skipped or with a residual.                               *)
(***************************************************************************)
MergeParams ==
  {[Plain EXCEPT !.slice = s, !.fruc = f, !.affine = a, !.affineNeighbour = a, !.lic = l, !.obmc = TRUE,
                 !.maxNumMergeCand = n, !.subPuMvp = e, !.w = size[1], !.h = size[2],
                 !.left = left, !.above = ToolsUnit] :
     s \in {"P", "B"}, f \in BOOLEAN, a \in BOOLEAN, l \in 0 .. 2, n \in {1, 2, 7}, e \in BOOLEAN,
     size \in {<<4, 8>>, <<8, 8>>}, left \in {NoUnit, ToolsUnit}}
MergeUnits(p) ==
  {u \in {[InterUnit(p) EXCEPT !.merge = TRUE, !.skip = skip, !.rootCbf = ~skip, !.fruc = fruc,
             !.affine = affine, !.mergeIdx = idx, !.lic = lic, !.tus = IF skip THEN @ ELSE <<LumaTU>>] :
            skip \in BOOLEAN, fruc \in {"OFF", "TEMPLATE", "BILATERAL"}, affine \in BOOLEAN,
            idx \in (0 .. p.maxNumMergeCand - 1) \cup {255}, lic \in BOOLEAN} : InterLegal(p, u)}

(***************************************************************************)
(* Units with vectors of their own.                                        *)
(***************************************************************************)
VectorParams ==
  {[Plain EXCEPT !.slice = s, !.numRef = n, !.imv = i, !.mvdL1Zero = z, !.left = ToolsUnit,
                 !.cprRef = c, !.largeCtu = z] :
     s \in {"P", "B"}, n \in {<<1, 2>>, <<3, 5>>}, i \in 0 .. 2, z \in BOOLEAN, c \in {-2, 0}}
Refs(p, dir) == {<<a, b>> \in (-1 .. p.numRef[1] - 1) \X (-1 .. p.numRef[2] - 1) :
                   (a = -1 <=> dir = 2) /\ (b = -1 <=> dir = 1)}
VectorUnits(p) ==
  {u \in {[InterUnit(p) EXCEPT !.interDir = dir, !.refIdx = ref, !.mvd = <<a, b>>, !.imv = imv,
             !.mvpIdx = <<IF dir = 2 THEN 255 ELSE 1, IF dir = 1 THEN 255 ELSE 0>>] :
            dir \in IF p.slice = "P" THEN {1} ELSE 1 .. 3, ref \in UNION {Refs(p, d) : d \in 1 .. 3},
            a \in Mvds, b \in Mvds, imv \in 0 .. 2} :
     /\ u.refIdx \in Refs(p, u.interDir)
     /\ \A list \in {1, 2} : ~Used(u, list) \/ ~MvdCoded(p, u, list) => u.mvd[list] = Zero
     /\ InterLegal(p, u)}

\* Affine units and the tools decided last: the vectors are fixed.
InterToolParams ==
  {[Plain EXCEPT !.affine = a, !.affineType = t, !.lic = l, !.obmc = o, !.gbi = g, !.checkLDC = d,
                 !.mvdL1Zero = z, !.imv = 2, !.w = w, !.above = ToolsUnit] :
     a \in BOOLEAN, t \in BOOLEAN, l \in {0, 2}, o \in BOOLEAN, g \in BOOLEAN, d \in BOOLEAN,
     z \in BOOLEAN, w \in {8, 16, 32}}
Corners == << <<1, 0>>, <<0, -5>>, <<-2, 9>> >>
InterToolUnits(p) ==
  {u \in {[InterUnit(p) EXCEPT !.interDir = dir, !.affine = a, !.affineType = t, !.lic = l, !.obmc = o,
             !.gbi = g, !.refIdx = <<IF dir = 2 THEN -1 ELSE 0, IF dir = 1 THEN -1 ELSE 0>>,
             !.mvd = <<IF a \/ dir = 2 THEN Zero ELSE <<4, -7>>, Zero>>,
             !.mvdAffi = [list \in 1 .. 2 |-> [i \in 1 .. 3 |->
               IF a /\ (list = 1 \/ ~(p.mvdL1Zero /\ dir = 3)) /\ dir # 3 - list /\ i <= 2 + t
               THEN Corners[i] ELSE Zero]],
             !.mvpIdx = <<IF dir = 2 THEN 255 ELSE 0, IF dir = 1 THEN 255 ELSE 1>>] :
            dir \in 1 .. 3, a \in BOOLEAN, t \in 0 .. 1, l \in BOOLEAN, o \in BOOLEAN, g \in 0 .. 4} :
     /\ u.gbi # GBI_DEFAULT => \E i \in 1 .. numGBi(p) : GbiParsingOrder[i] = u.gbi
     /\ InterLegal(p, u)}

(***************************************************************************)
(* Intra units, in one tree and in two.                                    *)
(***************************************************************************)
IntraParams ==
  {[Plain EXCEPT !.slice = IF t = "S" THEN s ELSE "I", !.tree = t, !.left = l, !.above = a,
                 !.aboveInCtu = c, !.lmChroma = c, !.lumaMode = m, !.pdpc = c, !.bypassEnabled = c] :
     t \in {"S", "L", "C"}, s \in {"I", "P"}, c \in BOOLEAN, m \in {PLANAR_IDX, VER_IDX, 33},
     l \in {NoUnit, IntraUnit(PLANAR_IDX), IntraUnit(2), IntraUnit(66)},
     a \in {NoUnit, IntraUnit(DC_IDX), IntraUnit(66), IntraUnit(33)}}
ChromaModes(p, u) ==
  IF ~HasChroma(p) THEN {PLANAR_IDX}
  ELSE {getIntraChromaCandModes(p, u)[i] : i \in 1 .. 4} \cup {DM_CHROMA_IDX}
       \cup IF p.lmChroma THEN {LM_CHROMA_IDX} ELSE {}
\* All luma modes, and for a few of them all chroma modes.
IntraUnits(p) ==
  UNION {LET u == [initData EXCEPT !.predMode = "INTRA", !.lumaMode = m, !.pdpc = p.pdpc, !.bypass = p.pdpc,
                                   !.tus = <<NewTU>>]
         IN {[u EXCEPT !.chromaMode = c] :
               c \in IF m \in {DC_IDX, HOR_IDX, 40} THEN ChromaModes(p, u)
                     ELSE {IF HasChroma(p) THEN DM_CHROMA_IDX ELSE PLANAR_IDX}} :
         m \in IF HasLuma(p) THEN IntraModes ELSE {DC_IDX}}
PcmParams == {[Plain EXCEPT !.slice = s, !.pcm = TRUE, !.w = w, !.h = 16] : s \in {"I", "B"}, w \in {4, 8, 32, 64}}
PcmUnits(p) ==
  {[initData EXCEPT !.predMode = "INTRA", !.ipcm = i, !.pcm = IF i THEN <<5, 0, 3>> ELSE <<>>,
                    !.chromaMode = IF i THEN @ ELSE DM_CHROMA_IDX, !.tus = <<NewTU>>] :
     i \in IF PcmCoded(p) THEN BOOLEAN ELSE {FALSE}}

(***************************************************************************)
(* Transform trees.                                                        *)
(***************************************************************************)
TreeParams ==
  {[Plain EXCEPT !.tree = t, !.slice = IF t = "S" THEN "P" ELSE "I", !.w = size[1], !.h = size[2],
                 !.maxTr = 32, !.qtDepth = q, !.nsst = x, !.crossComp = ~x, !.qpAdjLen = IF x THEN q ELSE 0,
                 !.intraEMT = x, !.interEMT = x, !.lumaMode = IF x THEN DC_IDX ELSE 7] :
     t \in {"S", "L", "C"}, size \in {<<4, 8>>, <<32, 16>>, <<64, 32>>, <<64, 64>>}, q \in {0, 1, 6},
     x \in BOOLEAN}
SomeTUs ==
  {[cbf |-> [c \in {"Y", "Cb", "Cr"} |-> c \in on], num |-> [c \in {"Y", "Cb", "Cr"} |-> IF c \in on THEN n ELSE 0],
    alpha |-> [c \in {"Cb", "Cr"} |-> IF c = "Cb" THEN a ELSE -a]] :
     on \in SUBSET {"Y", "Cb", "Cr"}, n \in {0, 1, 3}, a \in {0, 1, -2, 8}}
\* The transform units of a split unit alternate between one and another.
TreeTUs(p) ==
  IF NumTUs(p) = 1 THEN {<<tu>> : tu \in SomeTUs}
  ELSE {[i \in 1 .. NumTUs(p) |-> IF i % 2 = 1 THEN a ELSE b] :
          a \in {tu \in SomeTUs : tu.num["Y"] + tu.num["Cb"] + tu.num["Cr"] # 1 /\ tu.alpha["Cb"] \in {0, 8}},
          b \in {tu \in SomeTUs : tu.num["Y"] # 1 /\ tu.alpha["Cb"] = 0}}
TreeUnits(p) ==
  {u \in {[(IF mode = "INTRA" THEN [initData EXCEPT !.predMode = mode, !.lumaMode = m, !.chromaMode = c]
            ELSE [InterUnit(p) EXCEPT !.rootCbf = root, !.interDir = 1, !.refIdx = <<0, -1>>, !.mvpIdx = <<0, 255>>])
           EXCEPT !.tus = tus, !.emtFlag = e, !.nsst = n, !.chromaQpAdj = j] :
            mode \in IF p.tree = "S" THEN {"INTRA", "INTER"} ELSE {"INTRA"},
            m \in IF HasLuma(p) THEN {DC_IDX, 5} ELSE {DC_IDX}, root \in BOOLEAN,
            c \in IF HasChroma(p) THEN {DM_CHROMA_IDX, VER_IDX} ELSE {PLANAR_IDX}, tus \in TreeTUs(p),
            e \in BOOLEAN, n \in 0 .. 3, j \in {0, 1, p.qpAdjLen}} : ResidualLegal(p, u)}
=============================================================================
