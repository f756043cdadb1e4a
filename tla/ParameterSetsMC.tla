-------------------------- MODULE ParameterSetsMC ----------------------------
(* Values of the constants of ParameterSets for TLC.                       *)
EXTENDS ParameterSets

\* Two sizes of the picture for one SPS, and another SPS.
TwoSizes == {[id |-> 0, size |-> 1, tools |-> 1], [id |-> 0, size |-> 2, tools |-> 1],
             [id |-> 1, size |-> 1, tools |-> 1]}

\* Two versions of one SPS, of different sizes.
OneSpsTwoSizes == {[id |-> 0, size |-> z, tools |-> 1] : z \in {1, 2}}

\* Two versions of one SPS, of the same size.
OneSpsOneSize == {[id |-> 0, size |-> 1, tools |-> t] : t \in {1, 2}}

OneSps == {[id |-> 0, size |-> 1, tools |-> 1]}

\* Two versions of PPS 0 and a PPS for the other SPS.
TwoPps == {[id |-> 0, sps |-> 0, qp |-> 1], [id |-> 0, sps |-> 0, qp |-> 2],
           [id |-> 1, sps |-> 1, qp |-> 1]}

OnePps == {[id |-> 0, sps |-> 0, qp |-> q] : q \in {1, 2}}
=============================================================================
