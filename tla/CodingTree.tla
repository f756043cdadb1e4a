------------------------------ MODULE CodingTree ------------------------------
(***************************************************************************)
(* The block structure of one CTU: chosen by the search (EncCu), written   *)
(* by CABACWriter::coding_tree and read by CABACReader::coding_tree, each  *)
(* with a partitioner of its own.  The search leaves a list of coding      *)
(* units; the writer finds its way from the unit at the top left of each   *)
(* area; the reader from the bins and its own units.  What a unit holds is *)
(* abstracted to whether it has a residual.                                *)
(***************************************************************************)
EXTENDS Partitioner

CONSTANT Configs  \* parameters of sequence, slice and CTU, and the bound c.splits
                  \* on the splits that the search makes of its own accord

W == INSTANCE BinWriter
R == INSTANCE BinReader

\* What the encoder makes sure of, or the defaults do: a quad-tree leaf can be
\* halved at the picture's border.
ASSUME TreeAssumption ==
  \A c \in Configs : \A ch \in Channels :
    /\ c.minQt[ch] <= c.maxBt[ch] /\ c.maxBtDepth[ch] >= 1
    /\ c.picW % c.minBt[ch] = 0 /\ c.picH % c.minBt[ch] = 0

VARIABLES c,      \* the parameters
          stage,
          walk,   \* where the search, the writer or the reader is
          cus,    \* the encoder's units
          group,  \* the search's quantisation group, and the splits it has left
          cuCtx,  \* QP and isDQPCoded of the tree of each channel type
          bins,
          r       \* the reader; r.d holds its units and what end_of_ctu returned
vars == <<c, stage, walk, cus, group, cuCtx, bins, r>>

StartCtx == [ch \in Channels |-> [qp |-> c.prevQP, isDQPCoded |-> FALSE]]
StartGroup == [cur |-> c.prevQP, prev |-> c.prevQP, first |-> 1]

Init ==
  /\ c \in Configs /\ stage = "search"
  /\ walk = StartWalk(c) /\ cus = <<>> /\ bins = <<>>
  /\ group = [budget |-> c.splits] @@ StartGroup
  /\ cuCtx = StartCtx /\ r = R!Reader(<<>>, [cus |-> <<>>, last |-> FALSE])

P == At(walk)
GroupLevel == c.dqp /\ P.depth <= c.dqpDepth

(***************************************************************************)
(* The search (xCompressCU, xCheckModeSplit, EncModeCtrl): any split that  *)
(* canSplit allows.  QPs are tried down to the depth of the quantisation   *)
(* groups, by the leaf or by the split there; below it the group's is used.*)
(***************************************************************************)
xCheckDQPNoReset(units, g) == units
\* xCheckDQP, when a group is complete: the units before the first one with a
\* residual get the QP predicted for the first unit of the group.
xCheckDQP(units, g) ==
  LET predQP == predictQP(c, units, units[g.first], g.prev)
      coded == {i \in g.first .. Len(units) : units[i].coded}
      end == Min(coded \cup {Len(units) + 1})
  IN [i \in DOMAIN units |-> IF i >= g.first /\ i < end THEN [units[i] EXCEPT !.qp = predQP]
                             ELSE units[i]]

SearchSplit ==
  /\ stage = "search" /\ ~walk.over
  /\ \E split \in {"QUAD"} \cup BT \cup TT :
       /\ canSplit(c, P, split)
       /\ LET implicit == getImplicitSplit(c, P)
          IN /\ implicit \notin {"NONE", split} => split = "QUAD"
             /\ implicit = "NONE" => group.budget > 0
             /\ \E qp \in IF GroupLevel /\ P.depth = c.dqpDepth THEN c.qps ELSE {group.cur} :
                  group' = [group EXCEPT !.budget = @ - Flag(implicit = "NONE"), !.cur = qp]
       /\ walk' = Descend(c, walk, split, FALSE)
  /\ UNCHANGED <<c, stage, cus, cuCtx, bins, r>>

SearchLeaf ==
  /\ stage = "search" /\ ~walk.over
  /\ canSplit(c, P, "NONE")
  /\ \E coded \in IF c.dqp THEN BOOLEAN ELSE {TRUE}, qp \in IF GroupLevel THEN c.qps ELSE {group.cur} :
       LET units == Append(cus, [coded |-> coded, qp |-> qp] @@ setCUData(P))
           complete == c.dqp /\ (walk'.over \/ walk'.ch # walk.ch \/ At(walk').depth <= c.dqpDepth)
       IN /\ walk' = Advance(c, walk, FALSE)
          /\ cus' = IF complete THEN xCheckDQP(units, group) ELSE units
          /\ group' = IF ~complete THEN group
                      ELSE [group EXCEPT !.first = Len(units) + 1, !.cur = c.prevQP,
                              !.prev = IF walk'.ch # walk.ch THEN c.prevQP ELSE cus'[Len(units)].qp]
  /\ UNCHANGED <<c, stage, cuCtx, bins, r>>

SearchEnd ==
  /\ stage = "search" /\ walk.over
  /\ stage' = "write" /\ walk' = StartWalk(c)
  /\ UNCHANGED <<c, cus, group, cuCtx, bins, r>>

(***************************************************************************)
(* The beginning of coding_tree, on both sides: a quantisation group       *)
(* starts, for both trees where they are interleaved.                      *)
(***************************************************************************)
ResetDqp ==
  LET all == Interleaved(c) /\ P.depth = 0
  IN [ch \in Channels |->
        [cuCtx[ch] EXCEPT !.isDQPCoded = @ /\ ~(GroupLevel /\ (all \/ ch = walk.ch))]]
\* A leaf at the start of a group that has no QP yet takes the predicted one.
StartOfLeaf(ctx, units, cu) ==
  IF c.dqp /\ ~ctx.isDQPCoded /\ isQGStart(c, cu)
  THEN [ctx EXCEPT !.qp = predictQP(c, units, cu, @)] ELSE ctx
DqpCoded(ctx, cu) == c.dqp /\ cu.coded /\ ~ctx.isDQPCoded
EndsCtu(cu) == isLastSubCUOfCtu(c, cu) /\ (~c.dual \/ cu.ch = "C")
CornerEndsCtuAlways(cu) == isLastSubCUOfCtu(c, cu)
\* The reader's own test: the corner of the unit's last block, in luma samples.
CornerEndsCtu(cu) ==
  LET scale == IF cu.ch = "C" THEN 2 ELSE 1
      x == scale * ((cu.area.x + cu.area.w) \div scale)
      y == scale * ((cu.area.y + cu.area.h) \div scale)
  IN /\ x % c.ctu = 0 \/ x = c.picW
     /\ y % c.ctu = 0 \/ y = c.picH
     /\ ~c.dual \/ cu.ch = "C"
\* end_of_ctu, which flips the flag.
EndOfCtu(ctx, ends) == IF ends THEN [ctx EXCEPT !.isDQPCoded = c.dqp /\ ~@] ELSE ctx

(***************************************************************************)
(* The writer.                                                             *)
(***************************************************************************)
QpRange == MAX_QP + 1 + c.qpOffset
WriteQpDelta(qp, predQP) ==
  LET half == (MAX_QP + 1) \div 2 + c.qpOffset \div 2
      DQp == ((qp - predQP + QpRange + half) % QpRange) - half
      abs == AbsOf(DQp)
  IN W!unary_max_symbol(MinOf(abs, 5), Ctx("DeltaQP", 0), Ctx("DeltaQP", 1), 5)
     \o W!OnlyIf(abs >= 5, W!exp_golomb_eqprob(abs - 5, 0))
     \o W!OnlyIf(abs > 0, W!encodeBinEP(Flag(DQp < 0)))

WriteSplitMode(split) ==
  LET one(a, d) ==
        IF a.left \cap d.zero = {} \/ a.left \cap d.one = {} THEN a
        ELSE [left |-> a.left \cap (IF split \in d.one THEN d.one ELSE d.zero),
              bins |-> a.bins \o W!encodeBin(Flag(split \in d.one), d.ctx)]
  IN FoldLeft(one, [left |-> MtAvailable(c, P), bins |-> <<>>], MtDecisions(c, cus, P)).bins

Write ==
  /\ stage = "write" /\ ~walk.over
  /\ LET a  == currArea(P)
         cu == CHOOSE u \in getCU(c, cus, P.ch, a.x, a.y) : TRUE
         canQt == canSplit(c, P, "QUAD")
         implicit == getImplicitSplit(c, P)
         quad == canQt /\ (implicit = "QUAD" \/ cu.qt > P.qt)
         mode == IF quad THEN "QUAD"
                 ELSE IF CanMultiSplit(c, P) /\ P.depth < cu.depth THEN cu.series[P.depth + 1] ELSE "NONE"
         flags ==
           W!OnlyIf(canQt /\ implicit # "QUAD" /\ P.depth # MaxQtDepth(c, P.ch),
                    W!encodeBin(Flag(quad), Ctx("SplitFlag", CtxCUsplit(c, cus, P))))
           \o W!OnlyIf(~quad /\ CanMultiSplit(c, P), WriteSplitMode(mode))
         ctx == StartOfLeaf(ResetDqp[P.ch], cus, cu)
         unit ==
           W!encodeBin(Flag(cu.coded), Ctx("QtRootCbf", 0))
           \o W!OnlyIf(DqpCoded(ctx, cu), WriteQpDelta(cu.qp, ctx.qp))
           \o W!OnlyIf(EndsCtu(cu) /\ ~c.last, W!encodeBinTrm(0))
     IN IF mode # "NONE"
        THEN /\ bins' = bins \o flags
             /\ walk' = Descend(c, walk, mode, Interleaved(c))
             /\ cuCtx' = ResetDqp
        ELSE /\ bins' = bins \o flags \o unit
             /\ walk' = Advance(c, walk, Interleaved(c))
             /\ cuCtx' = [ResetDqp EXCEPT ![P.ch] =
                  EndOfCtu(IF DqpCoded(ctx, cu) THEN [qp |-> cu.qp, isDQPCoded |-> TRUE] ELSE ctx, EndsCtu(cu))]
  /\ UNCHANGED <<c, stage, cus, group, r>>

\* EncSlice ends the slice with a terminating bin of its own.
WriteEnd ==
  /\ stage = "write" /\ walk.over
  /\ stage' = "read" /\ walk' = StartWalk(c) /\ cuCtx' = StartCtx
  /\ bins' = bins \o W!OnlyIf(c.last, W!encodeBinTrm(1))
  /\ r' = [r EXCEPT !.bins = bins']
  /\ UNCHANGED <<c, cus, group>>

(***************************************************************************)
(* The reader.                                                             *)
(***************************************************************************)
ReadQpDelta(q, predQP) ==
  LET abs(u) == IF u.v >= 5 THEN R!Plus(R!exp_golomb_eqprob(u, 0), 5) ELSE u
      signed(s, a) == [s EXCEPT !.v = IF @ = 1 THEN -a ELSE a]
      qp(DQp) == ((predQP + DQp + MAX_QP + 1 + 2 * c.qpOffset) % QpRange) - c.qpOffset
      rest(a) == IF a.v = 0 THEN a ELSE signed(R!decodeBinEP(a), a.v)
      found(d) == [d EXCEPT !.v = IF @ = 0 THEN predQP ELSE qp(@)]
  IN found(R!Then(R!Then(R!unary_max_symbol(q, Ctx("DeltaQP", 0), Ctx("DeltaQP", 1), 5), abs), rest))

\* The value is the split.
ReadSplitMode(q) ==
  LET narrow(left, d, b) == [left |-> left \cap (IF b.v = 1 THEN d.one ELSE d.zero), q |-> b]
      one(a, d) ==
        IF a.left \cap d.zero = {} \/ a.left \cap d.one = {} THEN a
        ELSE narrow(a.left, d, R!decodeBin(a.q, d.ctx))
      found(end) == [end.q EXCEPT !.v = CHOOSE s \in end.left : TRUE]
  IN found(FoldLeft(one, [left |-> MtAvailable(c, P), q |-> q], MtDecisions(c, q.d.cus, P)))

ReadNode ==
  LET flag(canQt, implicit) ==
        IF ~canQt \/ implicit = "QUAD" THEN [r EXCEPT !.v = Flag(canQt)]
        ELSE IF P.depth = MaxQtDepth(c, P.ch) THEN [r EXCEPT !.v = 0]
        ELSE R!decodeBin(r, Ctx("SplitFlag", CtxCUsplit(c, r.d.cus, P)))
      node(q) == IF q.v = 1 THEN [q EXCEPT !.v = "QUAD"]
                 ELSE IF CanMultiSplit(c, P) THEN ReadSplitMode(q)
                 ELSE [q EXCEPT !.v = "NONE"]
  IN node(flag(canSplit(c, P, "QUAD"), getImplicitSplit(c, P)))

\* The unit with its residual flag and QP; the value is the unit.
ReadCu(q, ctx) ==
  LET unit(u) == [coded |-> u.v = 1, qp |-> ctx.qp] @@ setCUData(P)
      delta(u, cu) == IF ~DqpCoded(ctx, cu) THEN [u EXCEPT !.v = cu]
                      ELSE R!Then(ReadQpDelta(u, ctx.qp), LAMBDA s : [s EXCEPT !.v = [cu EXCEPT !.qp = s.v]])
  IN R!Then(R!decodeBin(q, Ctx("QtRootCbf", 0)), LAMBDA u : delta(u, unit(u)))
ReadEndOfCtu(q) == R!ReadIf(CornerEndsCtu(q.v), q, R!decodeBinTrm)

Read ==
  /\ stage = "read" /\ ~walk.over
  /\ \E node \in {ReadNode} :
       IF node.v # "NONE"
       THEN /\ walk' = Descend(c, walk, node.v, Interleaved(c))
            /\ r' = node
            /\ cuCtx' = ResetDqp
       ELSE \E ctx \in {StartOfLeaf(ResetDqp[P.ch], node.d.cus, setCUData(P))} :
            \E read \in {ReadCu(node, ctx)} : \E end \in {ReadEndOfCtu(read)} :
              LET after == IF DqpCoded(ctx, read.v) THEN [qp |-> read.v.qp, isDQPCoded |-> TRUE] ELSE ctx
              IN /\ walk' = Advance(c, walk, Interleaved(c))
                 /\ r' = [end EXCEPT !.d = [cus |-> Append(@.cus, read.v), last |-> end.v = 1]]
                 /\ cuCtx' = [ResetDqp EXCEPT ![P.ch] = EndOfCtu(after, CornerEndsCtu(read.v))]
  /\ UNCHANGED <<c, stage, cus, group, bins>>

RelinkedNot(units) == [i \in DOMAIN units |-> IF i = Len(units) THEN 0 ELSE i + 1]
\* The units are chained in the order of decoding.  Where the trees were
\* interleaved the chain is then relinked, run by run: each run of a channel
\* type to the next of the same type, and the last luma unit to the first
\* chroma unit.
Relinked(units) ==
  LET chain == [i \in DOMAIN units |-> IF i = Len(units) THEN 0 ELSE i + 1]
      pass(a, i) ==
        IF i = Len(units) \/ units[i].ch = units[i + 1].ch THEN a
        ELSE IF units[i].ch = "L"
        THEN [a EXCEPT !.lastL = i, !.chain = IF a.lastC = 0 THEN @ ELSE [@ EXCEPT ![a.lastC] = i + 1]]
        ELSE [a EXCEPT !.lastC = i, !.chain = IF a.lastL = 0 THEN @ ELSE [@ EXCEPT ![a.lastL] = i + 1]]
      all == FoldLeft(pass, [chain |-> chain, lastL |-> 0, lastC |-> 0], [i \in DOMAIN units |-> i])
      firstC == Min({i \in DOMAIN units : units[i].ch = "C"})
  IN [all.chain EXCEPT ![all.lastL] = firstC]
\* The units in the order of a chain that begins at the first.
Follow(units, chain) ==
  LET along(a, i) == IF a.at = 0 THEN a
                     ELSE [at |-> chain[a.at], seq |-> Append(a.seq, units[a.at])]
  IN FoldLeft(along, [at |-> 1, seq |-> <<>>], [i \in 1 .. Len(units) + 1 |-> i]).seq

ReadEnd ==
  /\ stage = "read" /\ walk.over
  /\ stage' = "done"
  /\ r' = IF Interleaved(c) THEN [r EXCEPT !.d.cus = Follow(@, Relinked(@))] ELSE r
  /\ UNCHANGED <<c, walk, cus, group, cuCtx, bins>>

\* Nothing else stops: an area that the search can neither split nor leave, or a
\* visit that goes on for ever or ends early, is a deadlock or an error.
Done == stage = "done" /\ UNCHANGED vars

Next == SearchSplit \/ SearchLeaf \/ SearchEnd \/ Write \/ WriteEnd \/ Read \/ ReadEnd \/ Done
Spec == Init /\ [][Next]_vars

\* The depths that are counted beside the stack by splitCurrArea, nextPart and
\* exitCurrSplit are those of the levels on the stack, in each of the three
\* visits: canSplit and the contexts are computed from the depths alone.
DepthsAgree == \A ch \in Channels : DepthsMatchStack(walk.p[ch])

\* The units that the search ends with tile the part of the CTU that is in the
\* picture, in each of the trees, and none crosses its border; what transform_tree
\* tiles a unit into (getMaxTuTiling) tiles the unit, from left to right and
\* from the top.
Size(a) == a.w * a.h
Disjoint(a, b) == a.x + a.w <= b.x \/ b.x + b.w <= a.x \/ a.y + a.h <= b.y \/ b.y + b.h <= a.y
Tile(areas, whole) ==
  /\ \A i \in DOMAIN areas :
       /\ Covers(whole, areas[i].x, areas[i].y)
       /\ Covers(whole, areas[i].x + areas[i].w - 1, areas[i].y + areas[i].h - 1)
       /\ \A j \in 1 .. i - 1 : Disjoint(areas[i], areas[j])
  /\ FoldLeft(LAMBDA n, a : n + Size(a), 0, areas) = Size(whole)
UnitsTile ==
  stage = "write" /\ bins = <<>> =>
    /\ \A ch \in IF c.dual THEN Channels ELSE {"L"} :
         LET units == SelectSeq(cus, LAMBDA u : u.ch = ch)
         IN Tile([i \in DOMAIN units |-> units[i].area],
                 Area(0, 0, MinOf(c.ctu, c.picW), MinOf(c.ctu, c.picH)))
    /\ \A i \in DOMAIN cus :
         LET tiles == getMaxTuTiling(cus[i].area, c.maxTr)
         IN /\ Tile(tiles, cus[i].area)
            /\ \A j \in DOMAIN tiles : tiles[j].w <= c.maxTr /\ tiles[j].h <= c.maxTr

\* The reader asks for every bin in the context it was written with, though it
\* has only the units before; it makes the units of the search, and chains them
\* in the search's order, luma before chroma (coding_tree on both sides).
UnitsRead ==
  /\ r.inStep
  /\ stage = "done" => R!AllRead(r) /\ [i \in DOMAIN cus |-> [r.d.cus[i] EXCEPT !.qp = cus[i].qp]] = cus
\* Every unit has the QP in the decoder that it has in the encoder, also one
\* without a residual, whose QP the deblocking filter and later predictions use
\* (xCheckDQP against coding_tree's predictQP).
QpsRight == stage = "done" => \A i \in DOMAIN cus : r.d.cus[i].qp = cus[i].qp
\* end_of_ctu asks for a terminating bin after the last unit of the CTU and after
\* no other, and so finds the end of the slice there.
EndFound == (stage = "done" \/ r.d.last) => walk.over /\ r.d.last = c.last
=============================================================================
