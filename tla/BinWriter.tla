------------------------------ MODULE BinWriter ------------------------------
(***************************************************************************)
(* The writer's codes.  Each operator returns the sequence of bins that    *)
(* the function of that name hands to the arithmetic encoder.              *)
(***************************************************************************)
EXTENDS Bins, SequencesExt

encodeBin(bin, ctx) == << <<ctx, bin>> >>
encodeBinEP(bin) == encodeBin(bin, EP)
encodeBinTrm(bin) == encodeBin(bin, Trm)
encodeBits(value, num, ctx) == [i \in 1 .. num |-> <<ctx, (value \div 2 ^ (num - i)) % 2>>]
encodeBinsEP(bins, numBins) == encodeBits(bins, numBins, EP)
encodeBinsPCM(bins, numBins) == encodeBits(bins, numBins, PCM)

\* Bins that are written only when a condition of the code holds.
OnlyIf(cond, bins) == IF cond THEN bins ELSE <<>>

\* n ones and, unless n is the maximum, a zero; bin i in the context ctx(i).
Unary(n, max, ctx(_)) ==
  [i \in 1 .. MinOf(n + 1, max) |-> <<ctx(i - 1), Flag(n >= i)>>]

unary_max_symbol(symbol, ctxId0, ctxIdN, maxSymbol) ==
  LET ctx(i) == IF i = 0 THEN ctxId0 ELSE ctxIdN IN Unary(symbol, maxSymbol, ctx)

unary_max_eqprob(symbol, maxSymbol) ==
  LET ctx(i) == EP IN Unary(symbol, maxSymbol, ctx)

\* The k-th order Exp-Golomb code: 'more' prefix ones, a zero, and what is left
\* in count + more bits.
exp_golomb_eqprob(symbol, count) ==
  LET below(n) == 2 ^ count * (2 ^ n - 1)
      more == CHOOSE n \in 0 .. 20 : below(n) <= symbol /\ symbol < below(n + 1)
      ctx(i) == EP
  IN Unary(more, more + 1, ctx) \o encodeBinsEP(symbol - below(more), count + more)

xWriteTruncBinCode(symbol, maxSymbol) ==
  LET thresh == FloorLog2(maxSymbol)
      short  == 2 * 2 ^ thresh - maxSymbol
  IN IF symbol < short THEN encodeBinsEP(symbol, thresh)
                       ELSE encodeBinsEP(symbol + short, thresh + 1)

\* What is left of a level above 4: a Golomb-Rice code up to the threshold,
\* then an escape whose prefix is either unbounded or, with extended precision,
\* limited to 32 - range bits.
encodeRemAbsEP(bins, rice, limited, range) ==
  LET cut == GoRiceRange(rice)
      ctx(i) == EP
      ones(n) == Unary(n, n, ctx)
      unlimited ==
        LET below(n) == cut * 2 ^ rice + 2 ^ rice * (2 ^ n - 1)
            more == CHOOSE n \in 0 .. 24 : below(n) <= bins /\ bins < below(n + 1)
        IN ones(cut + more) \o encodeBinEP(0) \o encodeBinsEP(bins - below(more), rice + more)
      code == bins \div 2 ^ rice - COEF_REMAIN_BIN_REDUCTION
      max  == 32 - COEF_REMAIN_BIN_REDUCTION - range
      long == code >= 2 ^ max - 1
      prefix == IF long THEN max
                ELSE CHOOSE n \in 0 .. max : 2 ^ n - 1 <= code /\ code < 2 ^ (n + 1) - 1
      suffix == (code - (2 ^ prefix - 1)) * 2 ^ rice + (bins % 2 ^ rice)
  IN IF bins < cut * 2 ^ rice
     THEN Unary(bins \div 2 ^ rice, cut, ctx) \o encodeBinsEP(bins % 2 ^ rice, rice)
     ELSE IF ~limited THEN unlimited
     ELSE ones(prefix + COEF_REMAIN_BIN_REDUCTION)
          \o encodeBinsEP(suffix, IF long THEN range ELSE prefix + rice + 1)
=============================================================================
