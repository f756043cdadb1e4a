---------------------------- MODULE FilterCoding ----------------------------
(***************************************************************************)
(* Parameters of the loop filters that are sent with the CTUs of a picture *)
(* (sample adaptive offset, and the flags of the adaptive loop filter) and *)
(* how the decoder completes them before it filters.  The picture has two  *)
(* rows of two CTUs; p.slice names the slice of each.                      *)
(***************************************************************************)
EXTENDS Bins, FiniteSets

CONSTANT AlfSlices   \* slices of a picture in which the adaptive filter is on

Comps == <<"Y", "Cb", "Cr">>
CompSet == {"Y", "Cb", "Cr"}
CompIdx == [c \in CompSet |-> CASE c = "Y" -> 0 [] c = "Cb" -> 1 [] c = "Cr" -> 2]
widthInCtus == 2
Ctus == 0 .. 2 * widthInCtus - 1

\* getCURestricted for the CTU beside and above: in the picture and the slice.
leftAvail(p, ctu)  == ctu % widthInCtus # 0 /\ p.slice[ctu - 1] = p.slice[ctu]
aboveAvail(p, ctu) == ctu >= widthInCtus /\ p.slice[ctu - widthInCtus] = p.slice[ctu]

(***************************************************************************)
(* Sample adaptive offset.  A component of a CTU is off, has offsets of    *)
(* its own, or takes those of the CTU beside or above.  Edge offsets use   *)
(* classes 0 to 4 with nothing for the plain class, band offsets four      *)
(* classes from typeAuxInfo on.                                            *)
(***************************************************************************)
Classes == 0 .. 31
NUM_SAO_BO_CLASSES_LOG2 == 5
NoOffsets == [k \in Classes |-> 0]
SaoOff == [mode |-> "OFF", type |-> -1, aux |-> -1, offset |-> NoOffsets]
EdgeTypes == 0 .. 3
SAO_TYPE_BO == 4
EdgeClasses == <<0, 1, 3, 4>>
Band(aux, i) == (aux + i - 1) % 32
sliceEnabled(p, c) == IF c = "Y" THEN p.saoLuma ELSE p.saoChroma
SaoCoded(p) == p.useSAO /\ (p.saoLuma \/ p.saoChroma)
\* getMaxOffsetQVal for eight bits.
maxOffsetQVal == 7

invertQuantOffsets(p, par) ==
  [par EXCEPT !.offset = [k \in Classes |->
     IF k \in (IF par.type = SAO_TYPE_BO THEN {Band(par.aux, i) : i \in 1 .. 4} ELSE 0 .. 4)
     THEN par.offset[k] * 2 ^ p.offsetStepLog2 ELSE 0]]
\* CTU by CTU: what the CTU merges with has been completed before.
reconstructBlkSAOParam(p, sao, ctu) ==
  LET target(par) == IF par.type = "LEFT" THEN ctu - 1 ELSE ctu - widthInCtus
  IN [sao EXCEPT ![ctu] = [c \in CompSet |->
        LET par == sao[ctu][c]
        IN CASE par.mode = "OFF" -> par
             [] par.mode = "NEW" -> invertQuantOffsets(p, par)
             [] par.mode = "MERGE" -> sao[target(par)][c]]]
xReconstructBlkSAOParams(p, sao) ==
  LET upTo[n \in 0 .. Cardinality(Ctus)] ==
        IF n = 0 THEN sao ELSE reconstructBlkSAOParam(p, upTo[n - 1], n - 1)
  IN upTo[Cardinality(Ctus)]
\* What the filters do with a picture: the offsets by CTU and component, and
\* the CTUs that the adaptive filter changes.
Applied(p, d) ==
  LET sao == xReconstructBlkSAOParams(p, d.sao)
      used(par) == [type |-> par.type, aux |-> IF par.type = SAO_TYPE_BO THEN par.aux ELSE 0,
                    offset |-> par.offset]
  IN [sao |-> IF ~p.useSAO THEN {}
              ELSE {<<n, c, used(sao[n][c])>> : <<n, c>> \in
                      {q \in Ctus \X CompSet : sao[q[1]][q[2]].mode # "OFF"}},
      alf |-> IF \A c \in CompSet : ~p.alf[c] THEN {}
              ELSE {q \in Ctus \X CompSet : d.alf[q[2]][q[1]] = 1}]

(***************************************************************************)
(* Adaptive loop filter: one flag by CTU and component.                    *)
(***************************************************************************)
AlfInferred(p, c) == c # "Y" /\ p.chromaCtbPresent
CtxAlfFlag(p, flags, ctu, c) ==
  Ctx("ctbAlfFlag", 3 * CompIdx[c] + (IF leftAvail(p, ctu) THEN flags[c][ctu - 1] ELSE 0)
                    + (IF aboveAvail(p, ctu) THEN flags[c][ctu - widthInCtus] ELSE 0))
NoAlf == [c \in CompSet |-> [n \in Ctus |-> 0]]

(***************************************************************************)
(* Pictures for SyntaxCoding: what the encoder's filters may choose for    *)
(* the CTUs (deriveModeNewRDO and deriveModeMergeRDO of                    *)
(* EncSampleAdaptiveOffset, alfEncoder of EncAdaptiveLoopFilter).          *)
(***************************************************************************)
\* Pictures of one slice and of two.
SliceMaps == {[n \in Ctus |-> IF n < k THEN 0 ELSE 1] : k \in 1 .. 4}
NumSlices(slice) == Cardinality({slice[n] : n \in Ctus})
FilterParams ==
  {p \in [slice : SliceMaps, useSAO : BOOLEAN, saoLuma : BOOLEAN, saoChroma : BOOLEAN,
          offsetStepLog2 : {0, 2}, chromaCtbPresent : BOOLEAN, alf : [CompSet -> BOOLEAN]] :
     /\ p.saoLuma \/ p.saoChroma => p.useSAO
     /\ p.offsetStepLog2 = 0 \/ p.useSAO
     /\ p.alf["Y"] => NumSlices(p.slice) \in AlfSlices
     /\ p.alf["Cb"] \/ p.alf["Cr"] => p.alf["Y"]
     /\ p.chromaCtbPresent => p.alf["Cb"] /\ p.alf["Cr"]}

New(type, aux, offset) == [mode |-> "NEW", type |-> type, aux |-> aux, offset |-> offset]
Edge(type, a, b, c, d) == New(type, 0, [NoOffsets EXCEPT ![0] = a, ![1] = b, ![3] = -c, ![4] = -d])
BandAt(aux, a, b, c, d) ==
  New(SAO_TYPE_BO, aux, [k \in Classes |-> IF k \in aux .. aux + 3 THEN <<a, b, c, d>>[k - aux + 1] ELSE 0])
Merge(side) == [mode |-> "MERGE", type |-> side, aux |-> 0, offset |-> NoOffsets]
\* Parameters of a CTU: those of Cb and Cr have one type.
CtuSao(p, ctu) ==
  LET own == {<<Edge(0, 7, 0, 1, 7), BandAt(28, -7, 0, 1, 2), BandAt(1, 0, 0, 3, -1)>>,
              <<BandAt(0, 1, -1, 0, 7), Edge(3, 1, 2, 3, 4), Edge(3, 0, 1, 0, 0)>>,
              <<SaoOff, Edge(2, 0, 0, 0, 0), Edge(2, 5, 6, 7, 0)>>, <<SaoOff, SaoOff, SaoOff>>}
      sides == (IF leftAvail(p, ctu) THEN {"LEFT"} ELSE {}) \cup (IF aboveAvail(p, ctu) THEN {"ABOVE"} ELSE {})
  IN {[c \in CompSet |-> IF sliceEnabled(p, c) THEN o[CompIdx[c] + 1] ELSE SaoOff] : o \in own}
     \cup {[c \in CompSet |-> Merge(s)] : s \in sides}
AlfFlags(p) ==
  {f \in [CompSet -> [Ctus -> {0, 1}]] :
     /\ \A c \in CompSet : IF ~p.alf[c] THEN f[c] = NoAlf[c]
                           ELSE AlfInferred(p, c) => \A n \in Ctus : f[c][n] = 1
     /\ p.alf["Cr"] => f["Cr"] \in {[n \in Ctus |-> 1], [n \in Ctus |-> n % 2], [n \in Ctus |-> Flag(n > 1)]}}
FilterUnits(p) ==
  LET plain == [n \in Ctus |-> [c \in CompSet |-> SaoOff]]
  IN IF SaoCoded(p)
     THEN {[sao |-> [n \in Ctus |-> <<a, b, c, d>>[n + 1]], alf |-> f] :
             a \in CtuSao(p, 0), b \in CtuSao(p, 1), c \in CtuSao(p, 2), d \in CtuSao(p, 3),
             f \in {[q \in CompSet |-> [n \in Ctus |-> Flag(p.alf[q])]]}}
     ELSE {[sao |-> plain, alf |-> f] : f \in AlfFlags(p)}
\* The arrays of a picture whose buffer is used again.
Stale == [sao |-> [n \in Ctus |-> [c \in CompSet |-> New(SAO_TYPE_BO, 30, [k \in Classes |-> 9])]], alf |-> NoAlf]
=============================================================================
