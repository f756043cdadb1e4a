---------------------------- MODULE OutputOrder ----------------------------
(***************************************************************************)
(* What the reconstruction file promises: every picture that is finished   *)
(* waits until it is shown or dropped, and pictures are shown in output    *)
(* order, one coded video sequence after the other and by POC within one.  *)
(* A picture is a record with at least the fields cvs and poc.             *)
(***************************************************************************)
EXTENDS Naturals, Sequences, FiniteSets

VARIABLES waiting,  \* the finished pictures that have not been shown
          shown     \* the pictures shown, in order

Before(p, q) == p.cvs < q.cvs \/ (p.cvs = q.cvs /\ p.poc < q.poc)

Init == waiting = {} /\ shown = <<>>

\* A picture comes in no later than the last one shown.
Finish ==
  /\ \E p \in waiting' \ waiting :
       /\ waiting' = waiting \cup {p}
       /\ \A i \in DOMAIN shown : Before(shown[i], p)
  /\ UNCHANGED shown

\* The first of the waiting pictures are shown, in order.
Show ==
  LET new == SubSeq(shown', Len(shown) + 1, Len(shown'))
  IN  /\ SubSeq(shown', 1, Len(shown)) = shown
      /\ waiting' \subseteq waiting
      /\ {new[i] : i \in DOMAIN new} = waiting \ waiting'
      /\ \A i, j \in DOMAIN new : i < j => Before(new[i], new[j])
      /\ \A i \in DOMAIN new, p \in waiting' : Before(new[i], p)

\* Pictures are dropped where a random access point says so.
Drop == waiting' \subseteq waiting /\ UNCHANGED shown

Next == Finish \/ Show \/ Drop

Spec == Init /\ [][Next]_<<waiting, shown>>
=============================================================================
