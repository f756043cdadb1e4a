----------------------------- MODULE BinDecoder -----------------------------
(***************************************************************************)
(* TBinDecoder.  A decoder d holds m_Value, m_Range, m_bitsNeeded, its     *)
(* bitstream and its contexts; v is what the last call returned.           *)
(***************************************************************************)
EXTENDS CoderParts, SequencesExt

Start(d) ==
  LET one == readByte(d.in)
      two == readByte(one)
  IN [d EXCEPT !.range = 510, !.value = 256 * LastByte(one) + LastByte(two), !.bitsNeeded = -8,
               !.in = [two EXCEPT !.ok = @ /\ d.in.num = 0]]
Decoder(bytes, models) ==
  Start([value |-> 0, range |-> 0, bitsNeeded |-> 0, in |-> Input(bytes), models |-> models, v |-> 0])

\* n more bits are needed; a byte comes in when the reserve is used up.
Shifted(d, n) ==
  LET s  == [d EXCEPT !.value = @ * 2 ^ n, !.bitsNeeded = @ + n]
      in == readByte(d.in)
  IN IF s.bitsNeeded < 0 THEN s
     ELSE [s EXCEPT !.value = @ + LastByte(in) * 2 ^ s.bitsNeeded, !.bitsNeeded = @ - 8, !.in = in]

decodeBin(d, ctx) ==
  LET LPS == getLPS(d.models[ctx], d.range)
      MPS == d.range - LPS
      hit == d.value < MPS * 128
      bin == IF hit THEN mps ELSE 1 - mps
      f   == [d EXCEPT !.models[ctx] = update(@, bin), !.v = bin]
      nM  == getRenormBits(MPS)
      nL  == getRenormBits(LPS)
  IN IF ~hit THEN Shifted([f EXCEPT !.value = @ - MPS * 128, !.range = LPS * 2 ^ nL], nL)
     ELSE IF MPS >= 256 THEN [f EXCEPT !.range = MPS]
     ELSE Shifted([f EXCEPT !.range = MPS * 2 ^ nM], nM)

\* The bins of a value against a range that is halved for each.
Compared(value, range, n) ==
  LET next(s, i) == LET SR == range * 2 ^ (n - i)
                    IN IF s.value >= SR THEN [value |-> s.value - SR, bins |-> 2 * s.bins + 1]
                                        ELSE [s EXCEPT !.bins = 2 * @]
  IN FoldLeft(next, [value |-> value, bins |-> 0], [i \in 1 .. n |-> i])
decodeBinEP(d) ==
  LET s == Shifted(d, 1)
      c == Compared(s.value, d.range * 128, 1)
  IN [s EXCEPT !.value = c.value, !.v = c.bins]
\* A whole byte is taken for eight bins, whatever the reserve.
DecodeByte(d) ==
  LET in == readByte(d.in)
      c  == Compared(d.value * 256 + LastByte(in) * 2 ^ (8 + d.bitsNeeded), d.range * 128, 8)
  IN [d EXCEPT !.value = c.value, !.in = in, !.v = @ * 256 + c.bins]
DecodeRest(d, n) ==
  LET s == Shifted(d, n)
      c == Compared(s.value, d.range * 128, n)
  IN [s EXCEPT !.value = c.value, !.v = @ * 2 ^ n + c.bins]
DecodeAligned(d, n) ==
  LET bins == (d.value \div 2 ^ (15 - n)) % 2 ^ n
      s == [d EXCEPT !.value = (@ * 2 ^ n) % 32768, !.bitsNeeded = @ + n, !.v = @ * 2 ^ n + bins]
      in == readByte(d.in)
  IN IF s.bitsNeeded < 0 THEN s
     ELSE [s EXCEPT !.value = @ + LastByte(in) * 2 ^ s.bitsNeeded, !.bitsNeeded = @ - 8, !.in = in]
decodeBinsEP(d, numBins) ==
  LET next(s, i) == LET n == MinOf(8, s.left)
                    IN IF s.left = 0 THEN s
                       ELSE [d |-> IF d.range = 256 THEN DecodeAligned(s.d, n)
                                   ELSE IF s.left > 8 THEN DecodeByte(s.d) ELSE DecodeRest(s.d, n),
                             left |-> s.left - n]
  IN FoldLeft(next, [d |-> [d EXCEPT !.v = 0], left |-> numBins], <<1, 2, 3, 4>>).d

decodeBinTrm(d) ==
  LET range == d.range - 2
  IN IF d.value >= range * 128 THEN [d EXCEPT !.range = range, !.v = 1]
     ELSE IF range >= 256 THEN [d EXCEPT !.range = range, !.v = 0]
     ELSE [Shifted(d, 1) EXCEPT !.range = 2 * range, !.v = 0]

\* CABACReader::pcm_samples: the bits start with the next byte.
pcm_samples(d, num, bits) ==
  LET next(s, i) == LET x == read(s.in, bits) IN [in |-> x.in, samples |-> Append(s.samples, x.v)]
      all == FoldLeft(next, [in |-> d.in, samples |-> <<>>], [i \in 1 .. num |-> i])
  IN [Start([d EXCEPT !.in = all.in]) EXCEPT !.v = all.samples]
\* finish: the last byte ends with the stop bit and zeros.  CABACReader's
\* remaining_bytes accepts only zeros after it.
Stopped(d) == (LastByte(d.in) * 2 ^ (8 + d.bitsNeeded)) % 256 = 128
NothingLeft(d) == \A i \in d.in.idx + 1 .. Len(d.in.bytes) : d.in.bytes[i] = 0
=============================================================================
