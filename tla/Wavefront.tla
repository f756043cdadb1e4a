------------------------------ MODULE Wavefront ------------------------------
(***************************************************************************)
(* What wavefront coding of a picture promises, whatever the scheduling:   *)
(* the CTUs of a row are coded from left to right, and a CTU is begun only *)
(* when its above-right neighbour (the above one in the last column) has   *)
(* been coded, so that every neighbour it predicts from is reconstructed.  *)
(* WppScheduler implements this specification.                             *)
(***************************************************************************)
EXTENDS Integers

CONSTANTS W,            \* CTUs in a row
          H,            \* CTU rows
          MaxPictures   \* bound: pictures coded

VARIABLES coded,    \* coded[y]: CTUs of row y that are reconstructed
          active,   \* the rows of which a CTU is being coded
          picture   \* the picture being coded

wvars == <<coded, active, picture>>

Rows == 0 .. H - 1

\* The number of CTUs of the row above that CTU x depends on.
Above(x) == IF x + 2 <= W THEN x + 2 ELSE W

Init ==
  /\ coded = [y \in Rows |-> 0]
  /\ active = {}
  /\ picture = 1

BeginCtu(y) ==
  /\ y \notin active
  /\ coded[y] < W
  /\ y > 0 => coded[y - 1] >= Above(coded[y])
  /\ active' = active \cup {y}
  /\ UNCHANGED <<coded, picture>>

EndCtu(y) ==
  /\ y \in active
  /\ active' = active \ {y}
  /\ coded' = [coded EXCEPT ![y] = @ + 1]
  /\ UNCHANGED picture

NextPicture ==
  /\ active = {}
  /\ \A y \in Rows : coded[y] = W
  /\ picture < MaxPictures
  /\ picture' = picture + 1
  /\ coded' = [y \in Rows |-> 0]
  /\ UNCHANGED active

Next == NextPicture \/ \E y \in Rows : BeginCtu(y) \/ EndCtu(y)

Spec == Init /\ [][Next]_wvars
=============================================================================
