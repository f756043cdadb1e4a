----------------------------- MODULE CodingTreeMC -----------------------------
(***************************************************************************)
(* Instances of CodingTree: a slice with one tree and one with separate    *)
(* trees, CTUs inside the picture and at its borders, and quantisation     *)
(* groups.  Minimum sizes are large, to keep the trees small.              *)
(***************************************************************************)
EXTENDS CodingTree

Both(v) == [ch \in Channels |-> v]
Base == [ctu |-> 128, picW |-> 256, picH |-> 256, dual |-> FALSE, mtt |-> TRUE, largeCtu |-> FALSE,
         minQt |-> Both(32), flagQt |-> Both(32), minBt |-> Both(16), maxBt |-> Both(128),
         minTt |-> Both(16), maxTt |-> Both(64), maxBtDepth |-> Both(2), maxTr |-> 64, minCU |-> 4,
         left |-> {}, above |-> {[qt |-> 2, bt |-> 1, qp |-> 33]}, last |-> FALSE,
         dqp |-> FALSE, dqpDepth |-> 0, prevQP |-> 30, qpOffset |-> 0, qps |-> {30},
         nextDqp |-> FALSE, sliceQp |-> 28,
         splits |-> 2]
Dual == [Base EXCEPT !.dual = TRUE, !.maxBt = [L |-> 32, C |-> 64], !.minQt = [L |-> 16, C |-> 32],
                     !.flagQt = [L |-> 16, C |-> 32], !.left = {[qt |-> 3, bt |-> 0, qp |-> 27]}, !.minBt = Both(8),
                     !.splits = 1]
\* The picture ends inside the CTU: at its right, below it, and both.
Borders(b) == {[b EXCEPT !.picW = w, !.picH = h] : w \in {96, 256}, h \in {48, 64, 256}}
TreeConfigs ==
  Borders(Base) \cup Borders([Dual EXCEPT !.last = TRUE])
  \cup {[Base EXCEPT !.largeCtu = TRUE, !.left = {[qt |-> 2, bt |-> 0, qp |-> 27]}, !.splits = 4],
        [Dual EXCEPT !.ctu = 64, !.maxTr = 32, !.largeCtu = TRUE, !.splits = 2]}
\* QPs in one group for each CTU, also at the ends of their range.
Dqp == [Base EXCEPT !.dqp = TRUE, !.last = TRUE, !.splits = 1]
DqpConfigs == {[Dqp EXCEPT !.qps = {24, 39}], [Dqp EXCEPT !.qps = {-12, 63}, !.qpOffset = 12],
               [Dqp EXCEPT !.qps = {24, 39}, !.picW = 96, !.picH = 64],
               [Dqp EXCEPT !.qps = {24, 39}, !.nextDqp = TRUE, !.left = {[qt |-> 2, bt |-> 0, qp |-> 27]}],
               [Dqp EXCEPT !.qps = {24, 39}, !.nextDqp = TRUE, !.picW = 96],
               [Dqp EXCEPT !.qps = {31}, !.dual = TRUE, !.maxBt = Both(64), !.minQt = Both(64),
                           !.flagQt = Both(64), !.splits = 0]}
MCConfigs == TreeConfigs \cup DqpConfigs
\* Groups of 64 x 64 samples below a CTU that is halved first.
DeepDqpConfigs == {[Base EXCEPT !.dqp = TRUE, !.dqpDepth = 1, !.qps = {30, 34}, !.minQt = Both(64), !.splits = 3, !.mtt = FALSE]}
=============================================================================
