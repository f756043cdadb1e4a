----------------------------- MODULE CoderParts ------------------------------
(***************************************************************************)
(* What the encoder and the decoder of bins are built from: the            *)
(* probability model and the bit streams.                                  *)
(***************************************************************************)
EXTENDS Bins

\* BinProbModel_JMP: the probability of a one is the mean of two windows, in
\* 32768ths.  The table of the ranges of a zero (m_LPSTable_512_64) is the
\* range times the probability of a zero, kept away from both ends, and mps()
\* is always one.
m_Log2WindowSize0 == 4
m_Log2WindowSize1 == 8
Adapted(p, bin, window) == IF bin = 1 THEN p + (32768 - p) \div 2 ^ window ELSE p - p \div 2 ^ window
update(model, bin) == <<Adapted(model[1], bin, m_Log2WindowSize0), Adapted(model[2], bin, m_Log2WindowSize1)>>
mps == 1
getLPS(model, range) ==
  LET state == (model[1] + model[2]) \div 128
      low   == 4 * (range \div 4)
  IN Clip(3, low - 3, ((1023 - 2 * state) * low + 512) \div 1024)
\* m_RenormTable_128: the shift that brings a range back to 256 or more.
getRenormBits(range) == IF range < 4 THEN 7 ELSE MaxOf(0, 8 - FloorLog2(range))

-----------------------------------------------------------------------------
\* OutputBitstream and InputBitstream: whole bytes, and the bits of a byte
\* that is not complete (written) or not used up (read).
NoOutput == [bytes |-> <<>>, held |-> 0, num |-> 0]
\* n bits; a value of more bits is caught by a CHECK, here ok.
write(out, bits, n) ==
  LET total == out.num + n
      word  == out.held * 2 ^ n + bits
  IN [bytes |-> out.bytes \o [i \in 1 .. total \div 8 |-> (word \div 2 ^ (total - 8 * i)) % 256],
      held  |-> word % 2 ^ (total % 8),
      num   |-> total % 8]
Fits(bits, n) == bits < 2 ^ n
writeAlignZero(out) == IF out.num = 0 THEN out ELSE write(out, 0, 8 - out.num)
writeByteAlignment(out) == writeAlignZero(write(out, 1, 1))

\* idx bytes have been taken; the last num bits of the last are still to be read.
Input(bytes) == [bytes |-> bytes, idx |-> 0, num |-> 0, ok |-> TRUE]
\* Beyond the end a CHECK throws.
readByte(in) ==
  IF in.idx < Len(in.bytes) THEN [in EXCEPT !.idx = @ + 1] ELSE [in EXCEPT !.ok = FALSE]
LastByte(in) == IF in.idx = 0 THEN 0 ELSE in.bytes[in.idx]
BitsRead(in) == 8 * in.idx - in.num
read(in, n) ==
  LET first == BitsRead(in)
      bit(k) == (in.bytes[k \div 8 + 1] \div 2 ^ (7 - (k % 8))) % 2
      upTo[k \in 0 .. n] == IF k = 0 THEN 0 ELSE 2 * upTo[k - 1] + bit(first + k - 1)
      last  == first + n
  IN IF last > 8 * Len(in.bytes) THEN [v |-> 0, in |-> [in EXCEPT !.ok = FALSE]]
     ELSE [v |-> upTo[n], in |-> [in EXCEPT !.idx = (last + 7) \div 8, !.num = (8 - (last % 8)) % 8]]
=============================================================================
