---------------------------- MODULE FilterReader ----------------------------
(***************************************************************************)
(* CABACReader's part in the parameters of the loop filters.  The reader's *)
(* data d holds the picture's arrays, which outlive the picture: those of  *)
(* the offsets are not cleared when its buffer is used again, the flags of *)
(* the adaptive filter are, by every slice.                                *)
(***************************************************************************)
EXTENDS BinReader, FilterCoding

SetSao(r, ctu, c, par) == [r EXCEPT !.d.sao[ctu][c] = par]
ReadOffsets(r) ==
  LET one(q, i) == LET s == unary_max_eqprob(q.r, maxOffsetQVal)
                   IN [r |-> s, offset |-> Append(q.offset, s.v)]
  IN FoldLeft(one, [r |-> r, offset |-> <<>>], <<1, 2, 3, 4>>)
ReadSigns(o) ==
  LET one(q, i) == LET s == decodeBinEP(q.r)
                   IN IF q.offset[i] = 0 THEN q
                      ELSE [r |-> s, offset |-> [q.offset EXCEPT ![i] = IF s.v = 1 THEN -@ ELSE @]]
  IN FoldLeft(one, o, <<1, 2, 3, 4>>)
\* Only the classes in use are assigned.
Assigned(old, classes, values) ==
  [k \in DOMAIN old |-> IF \E i \in 1 .. 4 : classes[i] = k
                        THEN values[CHOOSE i \in 1 .. 4 : classes[i] = k] ELSE old[k]]

ReadSaoType(r, ctu, c) ==
  LET on == decodeBin(r, Ctx("SaoTypeIdx", 0))
      eo == decodeBinEP(on)
      par == [r.d.sao[ctu][c] EXCEPT !.mode = "NEW", !.type = IF eo.v = 1 THEN 0 ELSE SAO_TYPE_BO]
      cb == r.d.sao[ctu]["Cb"]
  IN IF c = "Cr" THEN SetSao(r, ctu, c, [r.d.sao[ctu][c] EXCEPT !.mode = cb.mode, !.type = cb.type])
     ELSE IF on.v = 0 THEN on ELSE SetSao(eo, ctu, c, par)
ReadSaoComp(r, ctu, c) ==
  LET t   == ReadSaoType(r, ctu, c)
      par == t.d.sao[ctu][c]
      o   == ReadOffsets(t)
      s   == ReadSigns(o)
      aux == decodeBinsEP(s.r, NUM_SAO_BO_CLASSES_LOG2)
      cls == IF c = "Cr" THEN [o.r EXCEPT !.v = t.d.sao[ctu]["Cb"].type]
             ELSE LET q == decodeBinsEP(o.r, 2) IN [q EXCEPT !.v = par.type + @]
      edge == Assigned([par.offset EXCEPT ![2] = 0], EdgeClasses,
                       <<o.offset[1], o.offset[2], -o.offset[3], -o.offset[4]>>)
  IN IF par.mode = "OFF" THEN t
     ELSE IF par.type = SAO_TYPE_BO
     THEN SetSao(aux, ctu, c,
            [par EXCEPT !.aux = aux.v, !.offset = Assigned(@, [i \in 1 .. 4 |-> Band(aux.v, i)], s.offset)])
     ELSE SetSao(cls, ctu, c, [par EXCEPT !.aux = 0, !.type = cls.v, !.offset = edge])

sao(p, r, ctu) ==
  LET off   == [r EXCEPT !.d.sao[ctu] = [c \in CompSet |-> [@[c] EXCEPT !.mode = "OFF"]]]
      left  == IF leftAvail(p, ctu) THEN decodeBin(off, Ctx("SaoMergeFlag", 0)) ELSE [off EXCEPT !.v = 0]
      above == IF left.v = 0 /\ aboveAvail(p, ctu) THEN decodeBin(left, Ctx("SaoMergeFlag", 0))
               ELSE [left EXCEPT !.v = 0]
      merge == {"Y"} \cup IF p.saoChroma THEN {"Cb", "Cr"} ELSE {}
      side  == IF left.v = 1 THEN "LEFT" ELSE "ABOVE"
      comps == (IF p.saoLuma THEN <<"Y">> ELSE <<>>) \o (IF p.saoChroma THEN <<"Cb", "Cr">> ELSE <<>>)
      one(q, c) == ReadSaoComp(q, ctu, c)
  IN IF ~p.useSAO THEN r
     ELSE IF ~SaoCoded(p) THEN off
     ELSE IF left.v = 1 \/ above.v = 1
     THEN [above EXCEPT !.d.sao[ctu] = [c \in CompSet |->
             IF c \in merge THEN [@[c] EXCEPT !.mode = "MERGE", !.type = side] ELSE @[c]]]
     ELSE FoldLeft(one, above, comps)

ReadAlfFlag(p, r, ctu, c) ==
  LET q == decodeBin(r, CtxAlfFlag(p, r.d.alf, ctu, c))
  IN IF ~p.alf[c] THEN r
     ELSE IF AlfInferred(p, c) THEN [r EXCEPT !.d.alf[c][ctu] = 1]
     ELSE [q EXCEPT !.d.alf[c][ctu] = q.v]

\* DecSlice::decompressSlice clears the flags of the whole picture; then the
\* CTUs of the slice follow.
coding_tree_unit(p, r, ctu) ==
  LET first == ctu = 0 \/ p.slice[ctu - 1] # p.slice[ctu]
      start == IF first THEN [r EXCEPT !.d.alf = NoAlf] ELSE r
      one(q, c) == ReadAlfFlag(p, q, ctu, c)
  IN FoldLeft(one, sao(p, start, ctu), Comps)
decompressSlices(p, r) ==
  LET one(q, n) == coding_tree_unit(p, q, n) IN FoldLeft(one, r, [n \in 1 .. Cardinality(Ctus) |-> n - 1])
=============================================================================
