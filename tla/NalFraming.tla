----------------------------- MODULE NalFraming -----------------------------
(***************************************************************************)
(* NAL units in a file: NALwrite and AnnexBwrite put them there, AnnexBread *)
(* and NALread take them out again.  A unit has a type and the bytes of its *)
(* payload; a slice may be followed by words of two zero bytes.  Positions  *)
(* in the file count the bytes before them.                                 *)
(***************************************************************************)
EXTENDS Integers, Sequences, SequencesExt

NAL_UNIT_SPS == 33
NAL_UNIT_PPS == 34
IsVcl(type) == type < 32
emulation_prevention_three_byte == 3

writeNalUnitHeader(u) == <<2 * u.type, 1>>
\* A bug: the count goes on over the byte that has been put in.
PreventNextOnce(s, v) ==
  [out |-> s.out \o (IF s.zeros = 2 /\ v <= 3 THEN <<emulation_prevention_three_byte, v>> ELSE <<v>>),
   zeros |-> IF v = 0 THEN s.zeros + 1 ELSE 0]
\* One byte of the payload: one of up to three after two zeros needs the byte.
PreventNext(s, v) ==
  LET owed == s.zeros = 2 /\ v <= 3
      z == IF owed THEN 0 ELSE s.zeros
  IN [out |-> s.out \o (IF owed THEN <<emulation_prevention_three_byte, v>> ELSE <<v>>),
      zeros |-> IF v = 0 THEN z + 1 ELSE 0]
\* A zero at the end needs the byte, too.
Prevented(rbsp) ==
  LET all == FoldLeft(PreventNext, [out |-> <<>>, zeros |-> 0], rbsp)
  IN all.out \o (IF all.zeros > 0 THEN <<emulation_prevention_three_byte>> ELSE <<>>)
cabac_zero_word_padding(words) == [i \in 1 .. 3 * words |-> IF i % 3 = 0 THEN 3 ELSE 0]
NalUnitData(u) == writeNalUnitHeader(u) \o Prevented(u.rbsp) \o cabac_zero_word_padding(u.words)
\* The first unit of the access unit and the parameter sets have a long start code.
StartCode(u, first) ==
  IF first \/ u.type \in {NAL_UNIT_SPS, NAL_UNIT_PPS} THEN <<0, 0, 0, 1>> ELSE <<0, 0, 1>>
WriteUnit(file, u) == file \o StartCode(u, file = <<>>) \o NalUnitData(u)
writeAnnexB(au) == FoldLeft(WriteUnit, <<>>, au)

Has(file, i, bytes) ==
  i + Len(bytes) <= Len(file) /\ \A k \in 1 .. Len(bytes) : file[i + k] = bytes[k]
AtStartCode(file, i) == Has(file, i, <<0, 0, 1>>) \/ Has(file, i, <<0, 0, 0, 1>>)
\* A bug: only three zeros end a unit.
AtEndZeros(file, i) == Has(file, i, <<0, 0, 0>>)
\* The next three bytes, of which there must be three, are at most two.
AtEnd(file, i) == \E v \in 0 .. 2 : Has(file, i, <<0, 0, v>>)
From(i, at(_), none) ==
  IF \E k \in i .. none : at(k) THEN CHOOSE k \in i .. none : at(k) /\ \A m \in i .. k - 1 : ~at(m) ELSE none
\* _byteStreamNALUnit from position i: the bytes of the unit, where the next
\* one starts, and how far the stream has been read.  A start code of three
\* bytes is recognised with three bytes of look-ahead, a longer one with four.
\* The end of the file is an exception, which byteStreamNALUnit reports as such;
\* ok falls where a byte is met that should be zero.
byteStreamNALUnit(file, i) ==
  LET len   == Len(file)
      code(k) == AtStartCode(file, k)
      end(k)  == AtEnd(file, k)
      start == From(i, code, len)
      body  == start + (IF Has(file, start, <<0, 0, 1>>) THEN 3 ELSE 4)
      stop  == From(body, end, len)
      next  == From(stop, code, len)
      zeros(a, b) == \A k \in a + 1 .. b : file[k] = 0
  IN [unit |-> SubSeq(file, body + 1, stop), next |-> next,
      told |-> next + (IF Has(file, next, <<0, 0, 1>>) THEN 3 ELSE 4),
      ok   |-> start < len /\ zeros(i, start) /\ zeros(stop, next)]

\* NALread: one byte of the unit; ok falls where a CHECK throws.
RbspNext(s, v) ==
  IF s.after THEN [out |-> Append(s.out, v), zeros |-> IF v = 0 THEN 1 ELSE 0, after |-> FALSE,
                   ok |-> s.ok /\ v <= 3]
  ELSE IF s.zeros = 2 /\ v = 3 THEN [s EXCEPT !.zeros = 0, !.after = TRUE]
  ELSE [s EXCEPT !.out = Append(@, v), !.zeros = IF v = 0 THEN @ + 1 ELSE 0,
                 !.ok = @ /\ ~(s.zeros >= 2 /\ v < 3)]
\* The bytes of the unit without those put in.
convertPayloadToRBSP(buf) ==
  LET all == FoldLeft(RbspNext, [out |-> <<>>, zeros |-> 0, after |-> FALSE, ok |-> TRUE], buf)
  IN [out |-> all.out, ok |-> all.ok /\ all.zeros = 0]
WithoutZeroWords(bytes) ==
  LET used == {i \in DOMAIN bytes : bytes[i] # 0}
  IN SubSeq(bytes, 1, IF used = {} THEN 0 ELSE CHOOSE i \in used : \A j \in used : j <= i)
ReadNal(buf) ==
  LET type == buf[1] \div 2
      c == convertPayloadToRBSP(buf)
      bytes == IF IsVcl(type) THEN WithoutZeroWords(c.out) ELSE c.out
  IN [type |-> type, rbsp |-> SubSeq(bytes, 3, Len(bytes)), ok |-> c.ok]
=============================================================================
