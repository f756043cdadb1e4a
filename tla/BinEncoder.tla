----------------------------- MODULE BinEncoder -----------------------------
(***************************************************************************)
(* TBinEncoder, the arithmetic coder.  An encoder e holds m_Low, m_Range,  *)
(* m_bitsLeft, the byte m_bufferedByte that may still take a carry with    *)
(* the number of bytes held back (it and the bytes 0xff behind it), its    *)
(* bitstream and its contexts.  ok falls when OutputBitstream::write would *)
(* not accept a byte.  Every number fits the code's 32 bits.               *)
(***************************************************************************)
EXTENDS CoderParts, SequencesExt

Restarted(e) == [e EXCEPT !.low = 0, !.range = 510, !.buffered = 255, !.numBuffered = 0, !.bitsLeft = 23]
Started(models) ==
  Restarted([low |-> 0, range |-> 0, buffered |-> 0, numBuffered |-> 0, bitsLeft |-> 0,
             out |-> NoOutput, models |-> models, ok |-> TRUE])

Put(e, bits, n) == [e EXCEPT !.out = write(@, bits, n), !.ok = @ /\ Fits(bits, n)]
PutWord(e, word) == Put(e, word[1], word[2])
PutBytes(e, byte, count) == FoldLeft(PutWord, e, [i \in 1 .. MaxOf(0, count) |-> <<byte, 8>>])

writeOut(e) ==
  LET leadByte == e.low \div 2 ^ (24 - e.bitsLeft)
      s == [e EXCEPT !.bitsLeft = @ + 8, !.low = @ % 2 ^ (24 - e.bitsLeft)]
      carry == leadByte \div 256
      first == Put([s EXCEPT !.buffered = leadByte % 256], e.buffered + carry, 8)
  IN IF leadByte = 255 THEN [s EXCEPT !.numBuffered = @ + 1]
     ELSE IF e.numBuffered = 0 THEN [s EXCEPT !.numBuffered = 1, !.buffered = leadByte]
     ELSE [PutBytes(first, (255 + carry) % 256, e.numBuffered - 1) EXCEPT !.numBuffered = 1]
WriteIfDue(e) == IF e.bitsLeft < 12 THEN writeOut(e) ELSE e

encodeBin(e, ctx, bin) ==
  LET LPS == getLPS(e.models[ctx], e.range)
      MPS == e.range - LPS
      n   == getRenormBits(IF bin # mps THEN LPS ELSE MPS)
      f   == [e EXCEPT !.models[ctx] = update(@, bin)]
  IN IF bin # mps
     THEN WriteIfDue([f EXCEPT !.low = (@ + MPS) * 2 ^ n, !.range = LPS * 2 ^ n, !.bitsLeft = @ - n])
     ELSE IF MPS >= 256 THEN [f EXCEPT !.range = MPS]
     ELSE WriteIfDue([f EXCEPT !.low = @ * 2 ^ n, !.range = MPS * 2 ^ n, !.bitsLeft = @ - n])

encodeBinEP(e, bin) == WriteIfDue([e EXCEPT !.low = 2 * @ + bin * e.range, !.bitsLeft = @ - 1])
\* Groups of eight bins and a rest, at most; the group in the highest bits first.
\* s holds the encoder, the bins and how many of them are left.
PutGroup(s, n, range) ==
  LET bits == (s.bins \div 2 ^ (s.left - n)) % 2 ^ n
      e == [s.e EXCEPT !.low = @ * 2 ^ n + range * bits, !.bitsLeft = @ - n]
  IN [s EXCEPT !.e = WriteIfDue(e), !.left = @ - n]
BypassGroup(s, i) == IF s.left = 0 THEN s ELSE PutGroup(s, MinOf(8, s.left), s.e.range)
AlignedGroup(s, i) == IF s.left = 0 THEN s ELSE PutGroup(s, MinOf(8, s.left), 256)
encodeBinsEP(e, bins, numBins) ==
  LET s == [e |-> e, bins |-> bins, left |-> numBins]
      groups == <<1, 2, 3, 4>>
  IN IF e.range = 256 THEN FoldLeft(AlignedGroup, s, groups).e ELSE FoldLeft(BypassGroup, s, groups).e

encodeBinTrm(e, bin) ==
  LET range == e.range - 2
  IN IF bin = 1 THEN WriteIfDue([e EXCEPT !.low = (@ + range) * 128, !.range = 256, !.bitsLeft = @ - 7])
     ELSE IF range >= 256 THEN [e EXCEPT !.range = range]
     ELSE WriteIfDue([e EXCEPT !.low = 2 * @, !.range = 2 * range, !.bitsLeft = @ - 1])

\* A bug: a carry still in m_Low is dropped.
finishNoCarry(e) ==
  Put(PutBytes(IF e.numBuffered > 0 THEN Put(e, e.buffered, 8) ELSE e, 255, e.numBuffered - 1),
      (e.low % 2 ^ (32 - e.bitsLeft)) \div 256, 24 - e.bitsLeft)
finish(e) ==
  LET limit == 2 ^ (32 - e.bitsLeft)
      carried == PutBytes(Put(e, e.buffered + 1, 8), 0, e.numBuffered - 1)
      plain == PutBytes(IF e.numBuffered > 0 THEN Put(e, e.buffered, 8) ELSE e, 255, e.numBuffered - 1)
  IN Put(IF e.low >= limit THEN carried ELSE plain, (e.low % limit) \div 256, 24 - e.bitsLeft)

\* CABACWriter::pcm_data and end_of_slice; EncSlice aligns the latter.
pcm_data(e, samples, bits) ==
  LET aligned == [finish(encodeBinTrm(e, 1)) EXCEPT !.out = writeByteAlignment(@)]
  IN Restarted(FoldLeft(PutWord, aligned, [i \in DOMAIN samples |-> <<samples[i], bits>>]))
end_of_slice(e) == [finish(encodeBinTrm(e, 1)) EXCEPT !.out = writeByteAlignment(@)]
=============================================================================
