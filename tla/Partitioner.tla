----------------------------- MODULE Partitioner -----------------------------
(***************************************************************************)
(* QTBTPartitioner (UnitPartitioner.cpp): where the search, the writer and *)
(* the reader are in the block structure of one CTU, and which splits are  *)
(* possible there.  A partitioner is a record of a stack of levels and of  *)
(* six depths that are counted up and down beside it.  Areas are in luma   *)
(* samples relative to the CTU, for both channel types.  The parameters c  *)
(* are those of the SPS, the slice and the picture's size.                 *)
(***************************************************************************)
EXTENDS Bins, SequencesExt

BT == {"HORZ", "VERT"}
TT == {"TRIH", "TRIV"}

Area(x, y, w, h) == [x |-> x, y |-> y, w |-> w, h |-> h]
Covers(a, x, y) == a.x <= x /\ x < a.x + a.w /\ a.y <= y /\ y < a.y + a.h
Picture(c) == Area(0, 0, c.picW, c.picH)
\* Only parts that begin inside the picture are visited.
Inside(c, a) == Covers(Picture(c), a.x, a.y)

getCUSubPartitions(a, split) ==
  LET w2 == a.w \div 2  h2 == a.h \div 2  w4 == a.w \div 4  h4 == a.h \div 4
  IN CASE split = "QUAD" -> << Area(a.x, a.y, w2, h2), Area(a.x + w2, a.y, w2, h2),
                               Area(a.x, a.y + h2, w2, h2), Area(a.x + w2, a.y + h2, w2, h2) >>
       [] split = "HORZ" -> << Area(a.x, a.y, a.w, h2), Area(a.x, a.y + h2, a.w, h2) >>
       [] split = "VERT" -> << Area(a.x, a.y, w2, a.h), Area(a.x + w2, a.y, w2, a.h) >>
       [] split = "TRIH" -> << Area(a.x, a.y, a.w, h4), Area(a.x, a.y + h4, a.w, h2),
                               Area(a.x, a.y + 3 * h4, a.w, h4) >>
       [] split = "TRIV" -> << Area(a.x, a.y, w4, a.h), Area(a.x + w4, a.y, w2, a.h),
                               Area(a.x + 3 * w4, a.y, w4, a.h) >>

\* g_rsScanToZ, g_zScanToX and g_zScanToY undo each other (but for row 6): tile
\* i of a row-major list lies at the position that the tables name for it.
zScanToX(z) == (z % 2) + 2 * ((z \div 4) % 2) + 4 * ((z \div 16) % 2)
zScanToY(z) == LET y == ((z \div 2) % 2) + 2 * ((z \div 8) % 2) + 4 * ((z \div 32) % 2)
               IN IF z \in {45, 61} THEN 5 ELSE y
rsScanToZ(x, y) == (x % 2) + 4 * ((x \div 2) % 2) + 16 * (x \div 4)
                   + 2 * (y % 2) + 8 * ((y \div 2) % 2) + 32 * (y \div 4)
getMaxTuTiling(a, maxTr) ==
  LET nH == MaxOf(1, a.w \div maxTr)
      nV == MaxOf(1, a.h \div maxTr)
      w  == a.w \div nH
      h  == a.h \div nV
      tile(i) == LET z == rsScanToZ(i % nH, i \div nH)
                 IN Area(a.x + w * zScanToX(z), a.y + h * zScanToY(z), w, h)
  IN [i \in 1 .. nH * nV |-> tile(i - 1)]

Level(split, parts) == [split |-> split, parts |-> parts, idx |-> 0, isImplicit |-> FALSE]
initCtu(c, ch) ==
  [ch |-> ch, stack |-> << Level("CTU", << Area(0, 0, c.ctu, c.ctu) >>) >>,
   depth |-> 0, qt |-> 0, bt |-> 0, mt |-> 0, impl |-> 0, tr |-> 0]

currLevel(p) == Last(p.stack)
PartAt(level) == level.parts[level.idx + 1]
currArea(p) == PartAt(Last(p.stack))
getSplitSeries(p) == [i \in 1 .. Len(p.stack) - 1 |-> p.stack[i + 1].split]

\* 64 x 64 luma samples is the largest block of a slice with separate trees.
TooLargeForDualTree(c, a) == c.dual /\ (a.w > 64 \/ a.h > 64)

getImplicitSplitRight(c, p) ==
  LET a == currArea(p)
  IN IF TooLargeForDualTree(c, a) THEN "QUAD"
     ELSE IF Inside(c, Area(a.x + a.w - 1, a.y, 1, 1)) THEN "NONE" ELSE "QUAD"
\* The split of an area whose bottom left and top right corner are (not) inside.
SplitAtBorder(blIn, trIn, btAllowed, qtAllowed) ==
  CASE blIn /\ trIn                    -> "NONE"
    [] ~blIn /\ ~trIn /\ qtAllowed     -> "QUAD"
    [] OTHER -> IF ~blIn /\ btAllowed THEN "HORZ"
                ELSE IF ~trIn /\ btAllowed THEN "VERT" ELSE "QUAD"
ImplicitSplitOf(c, p, a) ==
  IF TooLargeForDualTree(c, a) THEN "QUAD"
  ELSE SplitAtBorder(Inside(c, Area(a.x, a.y + a.h - 1, 1, 1)), Inside(c, Area(a.x + a.w - 1, a.y, 1, 1)),
                     a.w <= c.maxBt[p.ch] /\ a.h <= c.maxBt[p.ch],
                     a.w > c.minQt[p.ch] /\ a.h > c.minQt[p.ch] /\ p.bt = 0)
getImplicitSplit(c, p) == ImplicitSplitOf(c, p, currArea(p))

\* canSplit for CU_MT_SPLIT: the limits that every split below the quad-tree
\* is under.  Implicit splits do not use up the depth.
MultiSplitOf(c, p, a) ==
  /\ p.mt < c.maxBtDepth[p.ch] + p.impl
  /\ \/ a.w > c.minBt[p.ch] \/ a.h > c.minBt[p.ch]
     \/ c.mtt /\ (a.w > c.minTt[p.ch] \/ a.h > c.minTt[p.ch])
  /\ \/ a.w <= c.maxBt[p.ch] /\ a.h <= c.maxBt[p.ch]
     \/ c.mtt /\ a.w <= c.maxTt[p.ch] /\ a.h <= c.maxTt[p.ch]
  /\ ~TooLargeForDualTree(c, a)
CanMultiSplit(c, p) == MultiSplitOf(c, p, currArea(p))

\* The middle of a ternary split is not halved in the same direction again.
RepeatsTernary(level, split) ==
  /\ split \in BT /\ level.split \in TT /\ level.idx = 1
  /\ split = IF level.split = "TRIH" THEN "HORZ" ELSE "VERT"

SplitAllowed(c, p, split, level, a, implicit) ==
  LET bt(side) == side > c.minBt[p.ch] /\ side <= c.maxBt[p.ch]
      tt(side) == c.mtt /\ side > 2 * c.minTt[p.ch] /\ a.w <= c.maxTt[p.ch] /\ a.h <= c.maxTt[p.ch]
  IN CASE split = "TU"   -> a.w > c.maxTr \/ a.h > c.maxTr
       [] split = "NONE" -> implicit = "NONE"
       [] split = "QUAD" -> /\ level.split \in {"CTU", "QUAD"}
                            /\ a.w > c.minQt[p.ch] /\ a.h > c.minQt[p.ch]
       [] OTHER -> /\ ~RepeatsTernary(level, split)
                   /\ ~TooLargeForDualTree(c, a)
                   /\ \/ implicit = split
                      \/ /\ implicit = "NONE"
                         /\ MultiSplitOf(c, p, a)
                         /\ CASE split = "HORZ" -> bt(a.h) [] split = "VERT" -> bt(a.w)
                              [] split = "TRIH" -> tt(a.h) [] split = "TRIV" -> tt(a.w)
canSplit(c, p, split) ==
  SplitAllowed(c, p, split, currLevel(p), currArea(p), getImplicitSplit(c, p))

SplitInto(p, split, implicit, parts) ==
  LET multi == Flag(split \in BT \cup TT)
  IN [p EXCEPT !.stack = Append([@ EXCEPT ![Len(@)].isImplicit = implicit # "NONE"], Level(split, parts)),
               !.depth = @ + 1,
               !.tr    = IF split = "TU" THEN @ + 1 ELSE 0,
               !.impl  = @ + Flag(multi = 1 /\ split = implicit),
               !.mt    = IF split = "QUAD" THEN 0 ELSE @ + multi,
               !.bt    = IF split = "QUAD" THEN 0 ELSE @ + multi + Flag(split \in TT),
               !.qt    = @ + Flag(split = "QUAD")]
splitCurrArea(c, p, split) ==
  SplitInto(p, split, getImplicitSplit(c, p),
            IF split = "TU" THEN getMaxTuTiling(currArea(p), c.maxTr)
            ELSE getCUSubPartitions(currArea(p), split))

exitCurrSplitAlike(p) ==
  LET multi == Flag(currLevel(p).split \in BT \cup TT)
      quad == Flag(currLevel(p).split = "QUAD")
  IN [p EXCEPT !.stack = Front(@), !.depth = @ - 1, !.mt = @ - multi, !.bt = @ - multi, !.qt = @ - quad]
LeaveLevel(p, was, above) ==
  LET multi == Flag(was.split \in BT \cup TT)
  IN [p EXCEPT !.stack = above,
               !.depth = @ - 1,
               !.mt    = @ - multi,
               !.impl  = @ - Flag(multi = 1 /\ Last(above).isImplicit),
               !.bt    = @ - multi - Flag(was.split \in TT /\ was.idx # 1),
               !.tr    = @ - Flag(was.split = "TU"),
               !.qt    = @ - Flag(was.split = "QUAD")]
exitCurrSplit(p) == LeaveLevel(p, currLevel(p), Front(p.stack))

MoreParts(level) == level.idx < Len(level.parts)
hasPart(p) == MoreParts(currLevel(p))
\* The middle of a ternary split counts as one binary split, its sides as two.
CountSide(q, level) ==
  IF ~MoreParts(level) \/ level.split \notin TT THEN q
  ELSE [q EXCEPT !.bt = IF level.idx = 1 THEN @ - 1 ELSE @ + 1]
MoveOn(p, level) == CountSide([p EXCEPT !.stack[Len(p.stack)] = level], level)
nextPart(p) == MoveOn(p, [currLevel(p) EXCEPT !.idx = @ + 1, !.isImplicit = FALSE])

\* What the loops over the parts do when the subtree at the current part is
\* finished: go on to the next part inside the picture, leaving every level
\* that has no more, but not the levels up to 'floor'.
Climb(c, p, floor) ==
  LET arrive(q) == IF ~hasPart(q) THEN [p |-> exitCurrSplit(q), stop |-> FALSE]
                   ELSE [p |-> q, stop |-> Inside(c, currArea(q))]
      step(a, i) == IF a.stop \/ Len(a.p.stack) = floor THEN [a EXCEPT !.stop = TRUE]
                    ELSE arrive(nextPart(a.p))
  IN FoldLeft(step, [p |-> p, stop |-> FALSE], [i \in 1 .. 5 * Len(p.stack) |-> i]).p

\* The depths that the levels of the stack stand for.
CountLevels(p, S) == Cardinality({i \in DOMAIN p.stack : p.stack[i].split \in S})
DepthsMatchStack(p) ==
  LET sides == {i \in DOMAIN p.stack : p.stack[i].split \in TT /\ p.stack[i].idx # 1}
      implicit == {i \in 2 .. Len(p.stack) : p.stack[i].split \in BT \cup TT /\ p.stack[i - 1].isImplicit}
  IN /\ p.depth = Len(p.stack) - 1
     /\ p.qt = CountLevels(p, {"QUAD"})
     /\ p.mt = CountLevels(p, BT \cup TT)
     /\ p.bt = p.mt + Cardinality(sides)
     /\ p.impl = Cardinality(implicit)
     /\ p.tr = CountLevels(p, {"TU"})

-----------------------------------------------------------------------------
(***************************************************************************)
(* What the writer and the reader of a coding tree both derive from the    *)
(* partitioner and from the units around: contexts, the order of the       *)
(* trees, predicted QPs.  A unit is a record of its channel type, area,    *)
(* depths, series of splits, whether it has a residual, and QP.            *)
(***************************************************************************)

MAX_QP == 63
Channels == {"L", "C"}

(***************************************************************************)
(* The units around an area, as sets of at most one unit.  Those of the    *)
(* CTUs to the left and above are alike, or missing (c.left and c.above).  *)
(***************************************************************************)
getCU(c, cus, ch, x, y) ==
  IF y < 0 THEN IF x < 0 /\ c.left = {} THEN {} ELSE c.above
  ELSE IF y >= c.ctu THEN {}
  ELSE IF x < 0 THEN c.left
  ELSE {cus[i] : i \in {j \in DOMAIN cus : cus[j].ch = ch /\ Covers(cus[j].area, x, y)}}
Left(c, cus, p)  == getCU(c, cus, p.ch, currArea(p).x - 1, currArea(p).y)
Above(c, cus, p) == getCU(c, cus, p.ch, currArea(p).x, currArea(p).y - 1)

\* The depth at which no quad split is signalled: from the minimum size that
\* SPSNext::getMinQTSize has for the type of the slice, where canSplit has the
\* one that PreCalcValues has for (non-)IRAP pictures.
MaxQtDepth(c, ch) == FloorLog2(c.ctu) - FloorLog2(c.flagQt[ch])

setMaxMinDepth(c, cus, p) ==
  LET top == MaxQtDepth(c, p.ch)
      at(offset) == getCU(c, cus, p.ch, currArea(p).x + offset[1], currArea(p).y + offset[2])
      extend(d, u) == [min |-> MinOf(d.min, u.qt), max |-> MaxOf(d.max, u.qt)]
      take(d, units) == IF units = {} THEN [min |-> 0, max |-> top]
                        ELSE extend(d, CHOOSE u \in units : TRUE)
      widen(d) == [min |-> MaxOf(0, d.min - 1), max |-> MinOf(top, d.max + 1)]
  IN widen(FoldLeft(LAMBDA d, offset : take(d, at(offset)), [min |-> top, max |-> 0],
                    << <<-1, 0>>, <<-1, c.minCU>>, <<0, -1>>, <<c.minCU, -1>> >>))

CtxCUsplit(c, cus, p) ==
  LET deeper(units) == Flag(\E u \in units : u.qt > p.qt)
      ctxFor(d) == IF c.largeCtu /\ p.depth < d.min THEN 3
                   ELSE IF c.largeCtu /\ p.depth >= d.max + 1 THEN 4
                   ELSE deeper(Left(c, cus, p)) + deeper(Above(c, cus, p))
  IN ctxFor(setMaxMinDepth(c, cus, p))

CtxBTsplit(c, cus, p) ==
  LET deeper(units) == Flag(\E u \in units : 2 * u.qt + u.bt > 2 * p.qt + p.bt)
  IN deeper(Left(c, cus, p)) + deeper(Above(c, cus, p))

\* g_mtSplitDTT: the decisions on the way to a split, each with the splits
\* that a 0 and those that a 1 leaves.  A decision with only one side
\* available takes no bin (reduce, encode_sparse_dt, decode_sparse_dt).
MtDecisions(c, cus, p) ==
  LET shape == IF currArea(p).w = currArea(p).h THEN 0 ELSE IF currArea(p).w > currArea(p).h THEN 1 ELSE 2
      decision(offset, zero, one) == [ctx |-> Ctx("BTSplitFlag", offset), zero |-> zero, one |-> one]
  IN << decision(CtxBTsplit(c, cus, p), {"NONE"}, BT \cup TT),
        decision(3 + shape, {"HORZ", "TRIH"}, {"VERT", "TRIV"}),
        decision(6 + shape, {"TRIH"}, {"HORZ"}),
        decision(9 + shape, {"TRIV"}, {"VERT"}) >>
MtAvailable(c, p) == {s \in {"NONE"} \cup BT \cup TT : canSplit(c, p, s)}

(***************************************************************************)
(* Quantisation groups and QPs.                                            *)
(***************************************************************************)
isQGStart(c, cu) ==
  LET size == 2 ^ (FloorLog2(c.ctu) - c.dqpDepth)
  IN cu.area.x % size = 0 /\ cu.area.y % size = 0

\* Across the border of the CTU the QP coded last stands for the neighbour's.
\* With next_dqp_enabled_flag the neighbours of other CTUs are asked too, and the
\* slice's QP stands for one that is missing; units above and to the left come
\* before the unit, so getCURestricted's test of their order keeps them all.
predictQP(c, cus, cu, prevQP) ==
  LET x == cu.area.x  y == cu.area.y
      qpOf(units, missing) == IF units = {} THEN missing ELSE (CHOOSE u \in units : TRUE).qp
      qpAt(dx, dy, missing) == qpOf(getCU(c, cus, cu.ch, x + dx, y + dy), missing)
      planar(a, b, corner) == MaxOf(MinOf(a, b), MinOf(MaxOf(a, b), a + b - corner))
      a == IF y % c.ctu # 0 THEN qpAt(0, -1, prevQP) ELSE prevQP
      b == IF x % c.ctu # 0 THEN qpAt(-1, 0, prevQP) ELSE prevQP
  IN IF c.nextDqp
     THEN planar(qpAt(0, -1, c.sliceQp), qpAt(-1, 0, c.sliceQp), qpAt(-1, -1, c.sliceQp))
     ELSE (a + b + 1) \div 2

\* CU::isLastSubCUOfCtu, which the writer asks, and the reader's own test of the
\* unit's bottom right corner.
isLastSubCUOfCtu(c, cu) ==
  LET right == cu.area.x + cu.area.w  bottom == cu.area.y + cu.area.h
  IN (right % c.ctu = 0 \/ right = c.picW) /\ (bottom % c.ctu = 0 \/ bottom = c.picH)

(***************************************************************************)
(* Where a tree is being visited.  A slice with separate trees has the     *)
(* tree of the luma blocks and that of the chroma blocks: one after the    *)
(* other, but interleaved by 64x64 samples where the CTU is larger.        *)
(***************************************************************************)
StartWalk(c) == [p |-> [ch \in Channels |-> initCtu(c, ch)], ch |-> "L", over |-> FALSE]
At(walk) == walk.p[walk.ch]
Interleaved(c) == c.dual /\ c.ctu > 64

\* Into the first part of the current area.
Descend(c, walk, split, interleaved) ==
  IF interleaved /\ At(walk).depth = 0
  THEN [walk EXCEPT !.p = [ch \in Channels |-> splitCurrArea(c, walk.p[ch], split)]]
  ELSE [walk EXCEPT !.p[walk.ch] = splitCurrArea(c, @, split)]

SkipOutside(c, p) ==
  FoldLeft(LAMBDA q, i : IF hasPart(q) /\ ~Inside(c, currArea(q)) THEN nextPart(q) ELSE q, p, <<1, 2, 3>>)

\* On to the area after the current one, which has been a leaf.
Advance(c, walk, interleaved) ==
  LET floor == IF interleaved /\ At(walk).depth > 0 THEN 2 ELSE 1
      quarter(next) == IF hasPart(next.L) THEN [walk EXCEPT !.p = next, !.ch = "L"]
                       ELSE [walk EXCEPT !.p = [ch \in Channels |-> exitCurrSplit(next[ch])], !.over = TRUE]
      tree(here) == IF c.dual /\ walk.ch = "L" THEN [here EXCEPT !.ch = "C"] ELSE [here EXCEPT !.over = TRUE]
      arrive(q) ==
        IF Len(q.stack) > floor THEN [walk EXCEPT !.p[walk.ch] = q]
        ELSE IF floor = 1 THEN tree([walk EXCEPT !.p[walk.ch] = q])
        ELSE IF walk.ch = "L" THEN [walk EXCEPT !.p["L"] = nextPart(q), !.ch = "C"]
        ELSE quarter([L |-> SkipOutside(c, walk.p.L), C |-> SkipOutside(c, nextPart(q))])
  IN arrive(Climb(c, At(walk), floor))

setCUData(p) ==
  [ch |-> p.ch, area |-> currArea(p), depth |-> p.depth, qt |-> p.qt, bt |-> p.bt, mt |-> p.mt,
   series |-> getSplitSeries(p)]

=============================================================================
