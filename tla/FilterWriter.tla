---------------------------- MODULE FilterWriter ----------------------------
(***************************************************************************)
(* CABACWriter's part in the parameters of the loop filters: the bins that *)
(* coding_tree_unit writes before the CTU's blocks, for every CTU of u.    *)
(***************************************************************************)
EXTENDS BinWriter, FilterCoding

sao_offset_pars(p, par, c) ==
  LET bo == par.type = SAO_TYPE_BO
      offset == [i \in 1 .. 4 |-> par.offset[IF bo THEN Band(par.aux, i) ELSE EdgeClasses[i]]]
      type == IF par.mode = "OFF" THEN encodeBin(0, Ctx("SaoTypeIdx", 0))
              ELSE encodeBin(1, Ctx("SaoTypeIdx", 0)) \o encodeBinEP(Flag(~bo))
      signs == FlattenSeq([i \in 1 .. 4 |-> OnlyIf(offset[i] # 0, encodeBinEP(Flag(offset[i] < 0)))])
  IN OnlyIf(sliceEnabled(p, c),
       OnlyIf(c # "Cr", type)
       \o OnlyIf(par.mode = "NEW",
            FlattenSeq([i \in 1 .. 4 |-> unary_max_eqprob(AbsOf(offset[i]), maxOffsetQVal)])
            \o IF bo THEN signs \o encodeBinsEP(par.aux, NUM_SAO_BO_CLASSES_LOG2)
               ELSE OnlyIf(c # "Cr", encodeBinsEP(par.type, 2))))
sao_block_pars(p, sao, ctu) ==
  LET merged(side) == sao[ctu]["Y"].mode = "MERGE" /\ sao[ctu]["Y"].type = side
      left  == leftAvail(p, ctu) /\ merged("LEFT")
      above == aboveAvail(p, ctu) /\ ~left /\ merged("ABOVE")
      flag(value) == encodeBin(Flag(value), Ctx("SaoMergeFlag", 0))
  IN OnlyIf(leftAvail(p, ctu), flag(left)) \o OnlyIf(aboveAvail(p, ctu) /\ ~left, flag(above))
     \o OnlyIf(~left /\ ~above,
               FlattenSeq([i \in 1 .. 3 |-> sao_offset_pars(p, sao[ctu][Comps[i]], Comps[i])]))

codeAlfCtuEnableFlag(p, flags, ctu, c) ==
  OnlyIf(p.alf[c] /\ ~AlfInferred(p, c), encodeBin(flags[c][ctu], CtxAlfFlag(p, flags, ctu, c)))

coding_tree_unit(p, u, ctu) ==
  OnlyIf(SaoCoded(p), sao_block_pars(p, u.sao, ctu))
  \o FlattenSeq([i \in 1 .. 3 |-> codeAlfCtuEnableFlag(p, u.alf, ctu, Comps[i])])
encodeSlices(p, u) == FlattenSeq([n \in 1 .. Cardinality(Ctus) |-> coding_tree_unit(p, u, n - 1)])
=============================================================================
