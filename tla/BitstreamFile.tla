--------------------------- MODULE BitstreamFile ----------------------------
(***************************************************************************)
(* The bins of a slice through TBinEncoder, the NAL units of an access     *)
(* unit into a file, out of the file as DecApp's loop takes them, and the  *)
(* slice through TBinDecoder.  The decoder, when it meets the first slice  *)
(* of a new picture, gives the unit back, and DecApp seeks in the file to  *)
(* read it once more.                                                      *)
(***************************************************************************)
EXTENDS BinEncoder, NalFraming

CONSTANTS Symbols,    \* what the encoder may be asked to code
          Openings,   \* sequences of symbols to begin a slice with
          MaxSyms,    \* symbols after these
          Models,     \* probabilities of the contexts at the start
          Companions, \* units before and after the slice
          Payloads    \* slices of arbitrary bytes

Dec == INSTANCE BinDecoder

\* What may be coded: <<"bin", context, bin>>, <<"ep", bin>>, <<"eps", bins, n>>,
\* <<"trm">> for a terminating bin of zero, <<"pcm", samples, bits>>.
Coding ==
  ({"bin"} \X (DOMAIN Models) \X {0, 1}) \cup ({"ep"} \X {0, 1}) \cup ({"eps"} \X Nat \X (1 .. 32))
  \cup {<<"trm">>} \cup ({"pcm"} \X Seq(Nat) \X (1 .. 16))

\* A payload ends with a stop bit.
Payload(bytes) == bytes \in Seq(0 .. 255) /\ bytes # <<>> /\ Last(bytes) # 0

ASSUME BitstreamFileAssumption ==
  /\ MaxSyms \in Nat
  /\ Models \in [DOMAIN Models -> Nat \X Nat]
  /\ Symbols \subseteq Coding
  /\ \A o \in Openings : o \in Seq(Coding)
  /\ \A u \in Companions : u.type \in 0 .. 63 /\ Payload(u.rbsp) /\ u.words = 0
  /\ \A p \in Payloads : Payload(p)

VARIABLES
  syms,    \* symbols coded
  e,       \* the encoder
  au,      \* the units of the access unit
  file,
  in,      \* where the file is read on, and how far it has been looked at
  location, \* in as it was before the last unit was read
  got,     \* units read
  coded,   \* whether the slice is the encoder's, or of arbitrary bytes
  d,       \* what the decoder returned for each symbol, and its end state
  stage
vars == <<syms, e, au, file, in, location, got, coded, d, stage>>

(***************************************************************************)
(* What the encoder and the decoder do with a symbol.                      *)
(***************************************************************************)
Encode(f, s) ==
  CASE s[1] = "bin" -> encodeBin(f, s[2], s[3])
    [] s[1] = "ep"  -> encodeBinEP(f, s[2])
    [] s[1] = "eps" -> encodeBinsEP(f, s[2], s[3])
    [] s[1] = "trm" -> encodeBinTrm(f, 0)
    [] s[1] = "pcm" -> pcm_data(f, s[2], s[3])
\* The reader knows what to ask for, not the answer.
Decode(g, s) ==
  CASE s[1] = "bin" -> Dec!decodeBin(g, s[2])
    [] s[1] = "ep"  -> Dec!decodeBinEP(g)
    [] s[1] = "eps" -> Dec!decodeBinsEP(g, s[3])
    [] s[1] = "trm" -> Dec!decodeBinTrm(g)
    [] s[1] = "pcm" -> LET t == Dec!decodeBinTrm(g)
                       IN IF t.v = 1 THEN Dec!pcm_samples(t, Len(s[2]), s[3]) ELSE [t EXCEPT !.v = <<>>]
Value(s) == CASE s[1] = "bin" -> s[3] [] s[1] \in {"ep", "eps", "pcm"} -> s[2] [] s[1] = "trm" -> 0

Init ==
  /\ syms \in Openings /\ e = FoldLeft(Encode, Started(Models), syms)
  /\ au = <<>> /\ file = <<>> /\ in = [next |-> 0, told |-> 0] /\ location = in
  /\ got = <<>> /\ coded = TRUE /\ d = <<>> /\ stage = "code"

Code ==
  /\ stage = "code" /\ \E o \in Openings : IsPrefix(o, syms) /\ Len(syms) < Len(o) + MaxSyms
  /\ \E s \in Symbols : syms' = Append(syms, s) /\ e' = Encode(e, s)
  /\ UNCHANGED <<au, file, in, location, got, coded, d, stage>>

Slice(bytes, words) == [type |-> 1, rbsp |-> bytes, words |-> words]
\* The access unit: the encoder's slice with a header of one byte alone, or one
\* of arbitrary bytes after another unit and perhaps before one.  The last slice
\* may be padded with words of zeros before a suffix follows.
EndSlice ==
  /\ stage = "code" /\ stage' = "write"
  /\ e' = end_of_slice(e)
  /\ \/ coded' = TRUE /\ au' = <<Slice(<<128>> \o e'.out.bytes, 0)>>
     \/ /\ syms = <<>> /\ coded' = FALSE
        /\ \E p \in Payloads, words \in 0 .. 2, c, last \in Companions :
             \/ au' = <<c, Slice(p, words)>>
             \/ au' = <<c, Slice(p, IF IsVcl(last.type) THEN 0 ELSE words), last>>
  /\ UNCHANGED <<syms, file, in, location, got, d>>

WriteFile ==
  /\ stage = "write" /\ stage' = "read"
  /\ file' = writeAnnexB(au)
  /\ UNCHANGED <<syms, e, au, in, location, got, coded, d>>

ReadUnit ==
  /\ stage = "read" /\ in.next < Len(file)
  /\ LET u == byteStreamNALUnit(file, in.next)
     IN /\ in' = [next |-> u.next, told |-> u.told]
        /\ location' = in
        /\ got' = Append(got, IF u.unit = <<>> THEN <<>> ELSE [ReadNal(u.unit) EXCEPT !.ok = @ /\ u.ok])
  /\ UNCHANGED <<syms, e, au, file, coded, d, stage>>
\* DecLib::decode has returned TRUE for a slice, which it does for a slice once
\* and never for the first unit of the file: not for a unit that was read
\* without anything looked ahead.
GiveBack ==
  /\ stage = "read" /\ got # <<>> /\ Last(got) # <<>> /\ IsVcl(Last(got).type)
  /\ location.told > location.next
  /\ in' = [next |-> location.told - 3, told |-> location.told - 3]
  /\ location' = in' /\ got' = Front(got)
  /\ UNCHANGED <<syms, e, au, file, coded, d, stage>>

\* The slice data follow the header.
DecodeSlice ==
  /\ stage = "read" /\ in.next >= Len(file) /\ coded /\ Len(got) = 1
  /\ LET bytes == got[1].rbsp
         next(s, sym) == LET g == Decode(s.g, sym) IN [g |-> g, values |-> Append(s.values, g.v)]
         all == FoldLeft(next, [g |-> Dec!Decoder(SubSeq(bytes, 2, Len(bytes)), Models), values |-> <<>>], syms)
         end == Dec!decodeBinTrm(all.g)
     IN d' = [values |-> all.values, ends |-> end.v = 1 /\ Dec!Stopped(end) /\ Dec!NothingLeft(end),
              ok |-> end.in.ok]
  /\ stage' = "done"
  /\ UNCHANGED <<syms, e, au, file, in, location, got, coded>>

Next == Code \/ EndSlice \/ WriteFile \/ ReadUnit \/ GiveBack \/ DecodeSlice
Spec == Init /\ [][Next]_vars

\* Every bin is decoded to what was coded, the end of the slice and its stop bit
\* are found where the decoder looks for them, and it takes no byte beyond them:
\* a carry reaches all the bytes held back (writeOut, finish), and groups of
\* bypass bins and aligned ones take the same bits as single ones (BinDecoder).
BinsDecoded ==
  /\ e.ok
  /\ stage = "done" => d.ok /\ d.ends /\ d.values = [i \in DOMAIN syms |-> Value(syms[i])]
\* The units come out of the file as they went in, without the words of zeros,
\* also those that are given back and read again from three bytes before the
\* place that the look-ahead had reached (DecApp's location).
UnitsFramed ==
  /\ \A i \in DOMAIN got : i <= Len(au) /\ got[i] = [type |-> au[i].type, rbsp |-> au[i].rbsp, ok |-> TRUE]
  /\ stage \in {"read", "done"} /\ in.next >= Len(file) => Len(got) = Len(au)
\* "Within the NAL unit, the following three-byte sequences shall not occur": two
\* zeros and a third, or a one or a two; no four bytes but those that put the
\* third byte in, and no zero at the end (NALwrite's write).
NoStartCodeInside ==
  stage = "write" =>
    \A i \in DOMAIN au :
      LET data == NalUnitData(au[i])
      IN /\ Last(data) # 0
         /\ \A k \in 3 .. Len(data) :
              data[k - 2] = 0 /\ data[k - 1] = 0 =>
                data[k] >= 3 /\ (data[k] = 3 /\ k < Len(data) => data[k + 1] <= 3)
=============================================================================
