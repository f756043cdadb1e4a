------------------------------ MODULE BinReader ------------------------------
(***************************************************************************)
(* The reader's codes.  A reader is a record: the bins still to be read,   *)
(* how many it has taken ("at"), whether each was written with the context *)
(* that it was asked with ("inStep"), the symbol read last ("v") and, in   *)
(* field d, the data structure that the syntax fills.  The real decoder    *)
(* does not notice a wrong context: it decodes garbage from there on.      *)
(***************************************************************************)
EXTENDS Bins, SequencesExt

Reader(bins, data) == [bins |-> bins, at |-> 0, inStep |-> TRUE, v |-> 0, d |-> data]
AllRead(r) == r.inStep /\ r.at = Len(r.bins)

Next1(r, ctx) == r.at < Len(r.bins) /\ r.bins[r.at + 1] = <<ctx, 1>>
decodeBin(r, ctx) ==
  IF r.inStep /\ r.at < Len(r.bins) /\ r.bins[r.at + 1][1] = ctx
  THEN [r EXCEPT !.at = @ + 1, !.v = r.bins[r.at + 1][2]]
  ELSE [r EXCEPT !.inStep = FALSE, !.v = 0]
decodeBinEP(r) == decodeBin(r, EP)
decodeBinTrm(r) == decodeBin(r, Trm)

\* What a reader does from r on.  The set has one element; r is known before
\* the rest is begun.
Then(r, rest(_)) == CHOOSE q \in {rest(s) : s \in {r}} : TRUE
\* One step after the other; by halves, which nest less deeply than a fold.
InTurn(r, items, step(_, _)) ==
  LET RECURSIVE Between(_, _, _)
      Between(q, i, j) ==
        IF i > j THEN q ELSE IF i = j THEN step(q, items[i])
        ELSE LET half == (i + j) \div 2
             IN CHOOSE t \in {Between(s, half + 1, j) : s \in {Between(q, i, half)}} : TRUE
  IN CHOOSE q \in {Between(s, 1, Len(items)) : s \in {r}} : TRUE
Plus(r, n) == [r EXCEPT !.v = @ + n]
ReadIf(cond, r, read(_)) == IF cond THEN read(r) ELSE [r EXCEPT !.v = 0]

decodeBits(r, num, ctx) ==
  LET bits(q) ==
        LET v[n \in 0 .. num] == IF n = 0 THEN 0 ELSE 2 * v[n - 1] + q.bins[q.at + n][2]
        IN IF q.inStep /\ q.at + num <= Len(q.bins) /\ \A n \in 1 .. num : q.bins[q.at + n][1] = ctx
           THEN [q EXCEPT !.at = @ + num, !.v = v[num]]
           ELSE [q EXCEPT !.inStep = FALSE, !.v = 0]
  IN Then(r, bits)
decodeBinsEP(r, numBins) == decodeBits(r, numBins, EP)
decodeBinsPCM(r, numBins) == decodeBits(r, numBins, PCM)

\* Ones until a zero or the maximum; bin i in the context ctx(i).
Unary(r, max, ctx(_)) ==
  LET ones[i \in 0 .. max] ==
        IF i < max /\ Next1([r EXCEPT !.at = @ + i], ctx(i)) THEN ones[i + 1] ELSE i
      end(past, n) == [(IF n = max THEN past ELSE decodeBin(past, ctx(n))) EXCEPT !.v = n]
  IN Then([r EXCEPT !.v = ones[0]], LAMBDA q : end([q EXCEPT !.at = @ + q.v], q.v))

unary_max_symbol(r, ctxId0, ctxIdN, maxSymbol) ==
  Unary(r, maxSymbol, LAMBDA i : IF i = 0 THEN ctxId0 ELSE ctxIdN)

unary_max_eqprob(r, maxSymbol) == Unary(r, maxSymbol, LAMBDA i : EP)

exp_golomb_eqprob(r, count) ==
  Then(unary_max_eqprob(r, 31),
       LAMBDA p : Plus(decodeBinsEP(p, count + p.v), 2 ^ count * (2 ^ p.v - 1)))

xReadTruncBinCode(r, maxSymbol) ==
  LET thresh == FloorLog2(maxSymbol)
      short  == 2 * 2 ^ thresh - maxSymbol
  IN Then(decodeBinsEP(r, thresh),
          LAMBDA s : IF s.v < short THEN s ELSE Plus(decodeBinEP(s), 2 * s.v - short))

decodeRemAbsEP(r, rice, limited, range) ==
  LET cut == GoRiceRange(rice)
      offset(v) == IF v >= cut THEN (2 ^ (v - cut) + cut - 1) * 2 ^ rice ELSE v * 2 ^ rice
      length(v) == IF v < cut THEN rice
                   ELSE IF ~limited THEN rice + v - cut
                   ELSE IF v = 32 - range THEN range
                   ELSE rice + v - COEF_REMAIN_BIN_REDUCTION
  IN Then(unary_max_eqprob(r, IF limited THEN 32 - range ELSE 31),
          LAMBDA p : Plus(decodeBinsEP(p, length(p.v)), offset(p.v)))
=============================================================================
