----------------------------- MODULE HlsReader -----------------------------
(***************************************************************************)
(* HLSyntaxReader.  Of a slice header the reader's data d is the pilot     *)
(* slice: what the header does not carry keeps the value that the slice    *)
(* before left in it.  A part of the header is a list of elements in the   *)
(* order they are read; each has its condition, and what is assigned when  *)
(* it is absent.  Of a parameter set the data is the set as its            *)
(* constructor leaves it, and most of a set is a list of items, each with  *)
(* its code and what is added to the number that is read.  A condition     *)
(* that the code CHECKs, and that would stop the decoder, is kept with the *)
(* reader: it is out of step when one fails.                               *)
(***************************************************************************)
EXTENDS BinReader, HlsCoding

xReadCode(r, length) == decodeBinsPCM(r, length)
xReadFlag(r) == xReadCode(r, 1)
\* Zeros up to a one, and as many bits after it.
xReadUvlc(r) ==
  LET zeros[i \in 0 .. 24] ==
        IF i < 24 /\ ~Next1([r EXCEPT !.at = @ + i], PCM) /\ r.at + i < Len(r.bins) THEN zeros[i + 1] ELSE i
  IN Then(zeros[0], LAMBDA n : Then(xReadCode(xReadCode(r, n + 1), n), LAMBDA q : Plus(q, 2 ^ n - 1)))
xReadSvlc(r) ==
  Then(xReadUvlc(r), LAMBDA q : [q EXCEPT !.v = IF (@ + 1) % 2 = 1 THEN -((@ + 1) \div 2) ELSE (@ + 1) \div 2])

Set(r, f, v) == [r EXCEPT !.d[f] = v]
Take(r, f) == Set(r, f, r.v)
TakeFlag(r, f) == Then(xReadFlag(r), LAMBDA q : Set(q, f, q.v = 1))
\* read(q, i) for each i of a sequence: the values make a sequence.
ReadEach(r, items, read(_, _)) ==
  LET step(q, i) == Then(read(q, i), LAMBDA s : [s EXCEPT !.v = Append(q.v, s.v)])
  IN InTurn([r EXCEPT !.v = <<>>], items, step)
UpTo(n) == [i \in 1 .. n |-> i]

(***************************************************************************)
(* Reference pictures.                                                     *)
(***************************************************************************)
readIdc(r, j) ==
  Then(xReadFlag(r), LAMBDA q : IF q.v = 1 THEN q ELSE Then(xReadFlag(q), LAMBDA s : [s EXCEPT !.v = 2 * @]))
\* A set that is told by its difference to another: the pictures of that one,
\* and the picture it belongs to, moved by deltaRPS.
PredictedRps(ref, deltaRPS, idc) ==
  LET moved == [j \in 1 .. Len(idc) |-> <<deltaRPS + (IF j <= Len(ref.deltas) THEN ref.deltas[j] ELSE 0), idc[j]>>]
      kept  == sortDeltaPOC(SelectSeq(moved, LAMBDA m : m[2] # 0))
  IN Rps([k \in 1 .. Len(kept) |-> kept[k][1]], [k \in 1 .. Len(kept) |-> kept[k][2] = 1])
\* rpsList holds the sets before this one, of n that the sequence has: a slice
\* has all of them before it, and says which one it differs from.
readPredicted(rpsList, n, r) ==
  LET from(q, ref) ==
        Then(xReadFlag(q), LAMBDA sign : Then(xReadUvlc(sign), LAMBDA abs :
          Then(ReadEach(abs, UpTo(Len(ref.deltas) + 1), readIdc), LAMBDA s :
            [s EXCEPT !.v = PredictedRps(ref, (1 - 2 * sign.v) * (abs.v + 1), s.v)])))
  IN Then(ReadIf(Len(rpsList) = n, r, xReadUvlc), LAMBDA q : from(q, rpsList[Len(rpsList) - q.v]))
readPictures(r, neg, pos) ==
  LET picture(q, j) == Then(xReadUvlc(q), LAMBDA s : Then(xReadFlag(s), LAMBDA t : [t EXCEPT !.v = <<s.v + 1, t.v = 1>>]))
      total(steps, from, j) == FoldLeft(LAMBDA n, k : n + steps[k][1], 0, [k \in 1 .. j - from |-> from + k])
      delta(steps, j) == IF j <= neg THEN -total(steps, 0, j) ELSE total(steps, neg, j)
  IN Then(ReadEach(r, UpTo(neg + pos), picture), LAMBDA q :
       [q EXCEPT !.v = Rps([j \in 1 .. neg + pos |-> delta(q.v, j)], [j \in 1 .. neg + pos |-> q.v[j][2]])])
parseShortTermRefPicSet(rpsList, n, r) ==
  LET plain(q) == Then(xReadUvlc(q), LAMBDA neg : Then(xReadUvlc(neg), LAMBDA pos : readPictures(pos, neg.v, pos.v)))
  IN IF rpsList = <<>> THEN plain(r)
     ELSE Then(xReadFlag(r), LAMBDA q : IF q.v = 1 THEN readPredicted(rpsList, n, q) ELSE plain(q))

\* POC from its low bits: the value nearest to the POC before.
PocFromLsb(p, lsb) ==
  LET max  == 2 ^ p.bitsForPOC
      prev == p.prevTid0POC % max
      msb  == p.prevTid0POC - prev
  IN lsb + (IF lsb < prev /\ prev - lsb >= max \div 2 THEN msb + max
            ELSE IF lsb > prev /\ lsb - prev > max \div 2 THEN msb - max ELSE msb)
longTermPicture(p, r, i) ==
  Then(xReadCode(r, p.bitsForPOC), LAMBDA q : Then(xReadFlag(xReadFlag(q)), LAMBDA s : [s EXCEPT !.v = q.v]))
orderElements == <<"poc", "rps", "long term", "tmvp">>
orderElement(p, r, e) ==
  CASE e = "poc" -> Then(xReadCode(r, p.bitsForPOC), LAMBDA q : Set(q, "poc", PocFromLsb(p, q.v)))
    [] e = "rps" -> Then(xReadFlag(r), LAMBDA q :
         IF q.v = 0 THEN Take(parseShortTermRefPicSet(p.rpsList, Len(p.rpsList), q), "rps")
         ELSE Then(xReadCode(q, BitsFor(Len(p.rpsList))), LAMBDA s : Set(s, "rps", p.rpsList[s.v + 1])))
    [] e = "long term" ->
         IF ~p.longTerm THEN r
         ELSE Take(Then(xReadUvlc(r), LAMBDA q :
                ReadEach(q, UpTo(q.v), LAMBDA s, i : longTermPicture(p, s, i))), "lt")
    [] e = "tmvp" -> IF p.tmvpPresent THEN TakeFlag(r, "tmvp") ELSE Set(r, "tmvp", FALSE)

ReadNumRef(p, r) ==
  LET l1(q) == IF q.d.type # "B" THEN [q EXCEPT !.d.numRef[2] = 0]
               ELSE Then(xReadUvlc(q), LAMBDA s : [s EXCEPT !.d.numRef[2] = s.v + 1])
  IN Then(xReadFlag(r), LAMBDA q :
       IF q.v = 0 THEN Set(q, "numRef", <<p.numRefDefault[1], IF q.d.type = "B" THEN p.numRefDefault[2] ELSE 0>>)
       ELSE Then(xReadUvlc(q), LAMBDA s : l1([s EXCEPT !.d.numRef[1] = s.v + 1])))
referenceElements == <<"num ref", "mvd l1 zero", "cabac init", "col list", "col idx">>
referenceElement(p, r, e) ==
  CASE e = "num ref" -> IF r.d.type = "I" THEN r ELSE ReadNumRef(p, r)
    [] e = "mvd l1 zero" -> IF r.d.type = "B" THEN TakeFlag(r, "mvdL1Zero") ELSE r
    [] e = "cabac init" -> IF p.cabacInitPresent /\ r.d.type # "I" THEN TakeFlag(r, "cabacInit")
                           ELSE Set(r, "cabacInit", FALSE)
    [] e = "col list" -> IF ~r.d.tmvp THEN r
                         ELSE IF r.d.type = "B" THEN TakeFlag(r, "colFromL0") ELSE Set(r, "colFromL0", TRUE)
    [] e = "col idx" -> IF ~r.d.tmvp THEN r
                        ELSE IF r.d.type # "I" /\ ColChoice(r.d) THEN Take(xReadUvlc(r), "colRefIdx")
                        ELSE Set(r, "colRefIdx", 0)
\* initCtxModels: the flag changes the table for that of the other type.
ContextTable(p, d) ==
  IF p.cabacInitPresent /\ d.cabacInit THEN (IF d.type = "P" THEN "B" ELSE "P") ELSE d.type

parsePredWeightTable(p, r) ==
  LET flag(q, i) == Then(xReadFlag(q), LAMBDA s : [s EXCEPT !.v = s.v = 1])
      luma(q, dy) == Then(xReadSvlc(q), LAMBDA w : Then(xReadSvlc(w), LAMBDA o :
                       [o EXCEPT !.v = <<w.v + 2 ^ dy, o.v>>]))
      comp(q, dc) == Then(xReadSvlc(q), LAMBDA w : Then(xReadSvlc(w), LAMBDA o :
                       [o EXCEPT !.v = <<w.v + 2 ^ dc, Clip(-WpRange, WpRange - 1, o.v + WpPred(w.v + 2 ^ dc, dc))>>]))
      none(q, denom) == [q EXCEPT !.v = <<2 ^ denom, 0>>]
      entry(q, y, c, dy, dc) ==
        Then(IF y THEN luma(q, dy) ELSE none(q, dy), LAMBDA a :
          Then(IF c THEN comp(a, dc) ELSE none(a, dc), LAMBDA b :
            Then(IF c THEN comp(b, dc) ELSE none(b, dc), LAMBDA s :
              [s EXCEPT !.v = [y |-> y, c |-> c, w |-> <<a.v[1], b.v[1], s.v[1]>>, o |-> <<a.v[2], b.v[2], s.v[2]>>]])))
      list(q, l) ==
        Then(ReadEach(q, UpTo(q.d.numRef[l]), flag), LAMBDA ys :
          Then(IF p.chroma THEN ReadEach(ys, UpTo(q.d.numRef[l]), flag)
                           ELSE [ys EXCEPT !.v = [i \in 1 .. q.d.numRef[l] |-> FALSE]], LAMBDA cs :
            Then(ReadEach(cs, UpTo(q.d.numRef[l]),
                          LAMBDA s, i : entry(s, ys.v[i], cs.v[i], q.d.denomY, q.d.denomC)),
                 LAMBDA s : [s EXCEPT !.d.wp[l] = s.v])))
      denominators ==
        Then(Take(xReadUvlc(r), "denomY"), LAMBDA q :
          IF p.chroma THEN Then(xReadSvlc(q), LAMBDA s : Set(s, "denomC", s.v + s.d.denomY)) ELSE Set(q, "denomC", 0))
  IN IF ~Weighted(p, r.d) THEN r
     ELSE Then(list(denominators, 1), LAMBDA q : IF q.d.type = "B" THEN list(q, 2) ELSE q)

(***************************************************************************)
(* Adaptive loop filter.                                                   *)
(***************************************************************************)
TruncBin(r, max) ==
  LET thresh == FloorLog2(max)
      short  == 2 * 2 ^ thresh - max
  IN Then(xReadCode(r, thresh), LAMBDA q : IF q.v < short THEN q ELSE Plus(xReadFlag(q), 2 * q.v - short))
truncatedUnaryEqProb(r, max) == Unary(r, max, LAMBDA i : PCM)
alfGolombDecode(r, k) ==
  LET low(q) == ReadEach(q, UpTo(k), LAMBDA s, i : Then(xReadFlag(s), LAMBDA t : [t EXCEPT !.v = @ * 2 ^ (i - 1)]))
      sum(bits) == FoldLeft(LAMBDA n, b : n + b, 0, bits)
      signed(q) == IF q.v = 0 THEN q ELSE Then(xReadFlag(q), LAMBDA s : [s EXCEPT !.v = IF @ = 1 THEN q.v ELSE -q.v])
  IN Then(truncatedUnaryEqProb(r, 1000), LAMBDA q :
       Then(low(q), LAMBDA s : signed([s EXCEPT !.v = q.v * 2 ^ k + sum(@)])))
\* The number of filters is n; the result is the sequence of their coefficients.
readFilters(r, n, seven, some) ==
  LET size == Len(GolombIdx(seven))
      flag(q, i) == Then(xReadFlag(q), LAMBDA s : [s EXCEPT !.v = s.v = 1])
      orders(q) == Then(ReadEach(q, UpTo(MaxGolombIdx(seven)), LAMBDA s, i : xReadFlag(s)), LAMBDA s :
                     [s EXCEPT !.v = FoldLeft(LAMBDA t, b : Append(t, b + (IF t = <<>> THEN q.v + 1 ELSE Last(t))), <<>>, @)])
      filter(q, k) == ReadEach(q, UpTo(size), LAMBDA s, i : alfGolombDecode(s, k[GolombIdx(seven)[i]]))
      zero(q) == [q EXCEPT !.v = [i \in 1 .. size |-> 0]]
      flags(q) == IF some THEN Then(ReadEach(q, UpTo(n), flag), LAMBDA s : Take(s, "flags"))
                  ELSE [q EXCEPT !.v = [i \in 1 .. n |-> TRUE]]
  IN Then(orders(xReadUvlc(r)), LAMBDA k :
       Then(flags(k), LAMBDA f : ReadEach(f, UpTo(n), LAMBDA q, i : IF f.v[i] THEN filter(q, k.v) ELSE zero(q))))
alfElements == <<"chroma", "filters", "shape", "classes", "delta", "pred", "luma", "chroma filter">>
alfElement(r, e) ==
  LET n == r.d.filters
      chroma == r.d.cb \/ r.d.cr
  IN CASE e = "chroma" -> Then(truncatedUnaryEqProb(r, 3), LAMBDA q : Set(Set(q, "cb", q.v \div 2 = 1), "cr", q.v % 2 = 1))
       [] e = "filters" -> Then(TruncBin(r, MAX_NUM_ALF_CLASSES), LAMBDA q : Set(q, "filters", q.v + 1))
       [] e = "shape" -> Then(xReadFlag(r), LAMBDA q : Set(q, "seven", q.v = 0))
       [] e = "classes" -> IF n = 1 THEN Set(r, "deltaIdx", NoFilters)
                           ELSE Take(ReadEach(r, UpTo(MAX_NUM_ALF_CLASSES), LAMBDA q, i : TruncBin(q, n)), "deltaIdx")
       [] e = "delta" -> TakeFlag(r, "deltaFlag")
       [] e = "pred" -> IF ~r.d.deltaFlag /\ n > 1 THEN TakeFlag(r, "predMode") ELSE Set(r, "predMode", FALSE)
       [] e = "luma" -> Take(readFilters(r, n, r.d.seven, r.d.deltaFlag), "coeff")
       [] e = "chroma filter" ->
            IF chroma THEN Then(readFilters(TakeFlag(r, "ctbPresent"), 1, FALSE, FALSE),
                                LAMBDA q : Set(q, "chromaCoeff", q.v[1])) ELSE r
\* The slice's parameters are the reader's data for as long as they are read.
alf(r) ==
  LET inside(q) == Then(TakeFlag(q, "luma"), LAMBDA s :
                     IF s.d.luma THEN InTurn(s, alfElements, alfElement) ELSE Set(Set(s, "cb", FALSE), "cr", FALSE))
  IN Then(inside([r EXCEPT !.d = r.d.alf]), LAMBDA q : [q EXCEPT !.d = [r.d EXCEPT !.alf = q.d]])

(***************************************************************************)
(* The header.                                                             *)
(***************************************************************************)
ReadSigned(r, f, base) == Then(xReadSvlc(r), LAMBDA q : Set(q, f, base + q.v))
startElements == <<"address", "no output of prior", "pps", "type", "output">>
startElement(p, r, e) ==
  CASE e = "address" -> Then(xReadFlag(r), LAMBDA q : Set(q, "first", q.v = 1))
    [] e = "no output of prior" -> IF p.rap THEN TakeFlag(r, "noOutputPrior") ELSE r
    [] e = "pps" -> Then(Take(xReadUvlc(r), "ppsId"), LAMBDA q :
                      IF q.d.first THEN Set(q, "addr", 0) ELSE Take(xReadCode(q, BitsFor(p.numCtus)), "addr"))
    [] e = "type" -> Then(xReadUvlc(r), LAMBDA q : Set(q, "type", SliceTypes[q.v + 1]))
    [] e = "output" -> IF p.outputPresent THEN TakeFlag(r, "output") ELSE Set(r, "output", TRUE)
\* An IDR picture has POC 0 and no references.
pictureOrder(p, r) ==
  IF p.idr THEN Set(Set(Set(r, "poc", 0), "rps", NoRps), "tmvp", FALSE)
  ELSE InTurn(r, orderElements, LAMBDA q, e : orderElement(p, q, e))
filterElements == <<"sao luma", "sao chroma", "alf">>
filterElement(p, r, e) ==
  CASE e = "sao luma" -> IF p.useSAO THEN TakeFlag(r, "saoLuma") ELSE r
    [] e = "sao chroma" -> IF p.useSAO /\ p.chroma THEN TakeFlag(r, "saoChroma") ELSE r
    [] e = "alf" -> IF p.useALF THEN alf(r) ELSE r
toolElements == <<"lic", "quant", "sign", "bt", "merge", "qp", "cb", "cr", "adj">>
toolElement(p, r, e) ==
  LET inter == r.d.type # "I"
  IN CASE e = "lic" -> IF p.LIC /\ inter THEN TakeFlag(r, "useLIC") ELSE r
       [] e = "quant" -> TakeFlag(r, "depQuant")
       [] e = "sign" -> IF r.d.depQuant THEN r ELSE TakeFlag(r, "signHiding")
       [] e = "bt" -> IF inter THEN Then(xReadUvlc(r), LAMBDA q : Set(q, "maxBT", p.ctuLog2 - q.v))
                      ELSE Set(r, "maxBT", MAX_BT_LOG2)
       [] e = "merge" -> IF inter THEN Then(xReadUvlc(r), LAMBDA q : Set(q, "maxMerge", MaxMerge(p) - q.v)) ELSE r
       [] e = "qp" -> ReadSigned(r, "qp", p.initQP)
       [] e = "cb" -> IF p.chromaQpFlag THEN ReadSigned(r, "cbQp", 0) ELSE r
       [] e = "cr" -> IF p.chromaQpFlag THEN ReadSigned(r, "crQp", 0) ELSE r
       [] e = "adj" -> IF p.chromaAdjList THEN TakeFlag(r, "chromaAdj") ELSE Set(r, "chromaAdj", FALSE)
deblockingElements == <<"override", "offsets", "across">>
Offsets(r, disable, beta, tc) == Set(Set(Set(r, "dbDisable", disable), "beta", beta), "tc", tc)
deblockingElement(p, r, e) ==
  CASE e = "override" -> IF ~p.dbControl THEN r
                         ELSE IF p.dbOverrideEnabled THEN TakeFlag(r, "dbOverride") ELSE Set(r, "dbOverride", FALSE)
    [] e = "offsets" ->
         IF ~p.dbControl THEN Offsets(r, FALSE, 0, 0)
         ELSE IF ~r.d.dbOverride THEN Offsets(r, p.dbPps.disable, p.dbPps.beta, p.dbPps.tc)
         ELSE Then(TakeFlag(r, "dbDisable"), LAMBDA q :
                IF q.d.dbDisable THEN q ELSE ReadSigned(ReadSigned(q, "beta", 0), "tc", 0))
    [] e = "across" -> IF p.lfAcross /\ FiltersOn(p, r.d) THEN TakeFlag(r, "lfAcross") ELSE Set(r, "lfAcross", p.lfAcross)
\* Clipping ranges and the size of temporal subblocks are read with the first
\* slice of a picture.
ReadPair(p, r) ==
  LET one(q, i) == Then(xReadCode(q, p.bitDepth - p.clipQuant), LAMBDA s : [s EXCEPT !.v = @ * 2 ^ p.clipQuant])
  IN ReadEach(r, <<1, 2>>, one)
clipping(p, r) ==
  LET luma(q) == Then(ReadPair(p, q), LAMBDA s : [s EXCEPT !.d.clip.y = s.v])
      chroma(q) == Then(xReadFlag(q), LAMBDA s : [s EXCEPT !.d.clip.chroma = s.v = 1])
      pairs(q) == Then(ReadEach(q, <<2, 3>>, LAMBDA s, i : ReadPair(p, s)), LAMBDA s : [s EXCEPT !.d.clip.c = s.v])
      used(q) == IF ~q.d.clip.used THEN q ELSE Then(chroma(luma(q)), LAMBDA s : IF s.d.clip.chroma THEN pairs(s) ELSE s)
      start == Set(r, "clip", DefaultClip(p))
  IN IF ~r.d.first THEN r ELSE IF ~p.AClip THEN start
     ELSE Then(xReadFlag(start), LAMBDA f : used([f EXCEPT !.d.clip.used = f.v = 1]))
temporalSubblocks(p, r) ==
  IF ~r.d.first \/ ~p.SubPuMvp \/ r.d.type = "I" THEN r
  ELSE Then(TakeFlag(r, "subblkEnable"), LAMBDA q :
         IF q.d.subblkEnable THEN Then(xReadCode(q, 3), LAMBDA s : Set(s, "subblkLog2", s.v + MIN_CU_LOG2))
         ELSE Set(q, "subblkLog2", p.SubPuMvpLog2Size))
headerParts == <<"start", "order", "filters", "references", "weights", "tools", "deblocking", "clipping", "sub-PU">>
headerPart(p, r, part) ==
  CASE part = "start"      -> InTurn(r, startElements, LAMBDA q, e : startElement(p, q, e))
    [] part = "order"      -> pictureOrder(p, r)
    [] part = "filters"    -> InTurn(r, filterElements, LAMBDA q, e : filterElement(p, q, e))
    [] part = "references" -> InTurn(r, referenceElements, LAMBDA q, e : referenceElement(p, q, e))
    [] part = "weights"    -> parsePredWeightTable(p, r)
    [] part = "tools"      -> InTurn(r, toolElements, LAMBDA q, e : toolElement(p, q, e))
    [] part = "deblocking" -> InTurn(r, deblockingElements, LAMBDA q, e : deblockingElement(p, q, e))
    [] part = "clipping"   -> clipping(p, r)
    [] part = "sub-PU"     -> temporalSubblocks(p, r)
parseSliceHeader(p, r) == InTurn(r, headerParts, LAMBDA q, part : headerPart(p, q, part))

-----------------------------------------------------------------------------
(* Parameter sets.                                                         *)

F(f)         == [code |-> "flag", f |-> f, n |-> 1, add |-> 0]
U(f, n, add) == [code |-> "u", f |-> f, n |-> n, add |-> add]
M(f)         == U(f, 1, 0)
Ue(f, add)   == [code |-> "ue", f |-> f, n |-> 0, add |-> add]
Se(f)        == [code |-> "se", f |-> f, n |-> 0, add |-> 0]
ReadItem(r, i) ==
  CASE i.code = "flag" -> TakeFlag(r, i.f)
    [] i.code = "u"  -> Then(xReadCode(r, i.n), LAMBDA q : Set(q, i.f, q.v + i.add))
    [] i.code = "ue" -> Then(xReadUvlc(r), LAMBDA q : Set(q, i.f, q.v + i.add))
    [] i.code = "se" -> ReadSigned(r, i.f, 0)
ReadItems(r, items) == InTurn(r, items, ReadItem)
ItemsIf(r, cond, items) == IF cond THEN ReadItems(r, items) ELSE r

Check(r, cond) == IF cond THEN r ELSE [r EXCEPT !.inStep = FALSE]
CheckCode(r, n, code) == Then(xReadCode(r, n), LAMBDA q : Check(q, q.v = code))
\* A record of the set is the reader's data for as long as it is read.
Inside(r, f, read(_)) == Then(read([r EXCEPT !.d = r.d[f]]), LAMBDA q : [q EXCEPT !.d = [r.d EXCEPT ![f] = q.d]])
xReadRbspTrailingBits(r) ==
  Then(CheckCode(r, 1, 1), LAMBDA q : CheckCode(q, (8 - (q.at % 8)) % 8, 0))
readWindow(r, f, chroma) ==
  LET offset(q, i) == Then(xReadUvlc(q), LAMBDA s : [s EXCEPT !.v = @ * WinUnit(chroma)[i]])
  IN Then(xReadFlag(r), LAMBDA q :
       IF q.v = 0 THEN q
       ELSE Then(ReadEach(q, UpTo(4), offset), LAMBDA s : Set(s, f, [enabled |-> TRUE, offsets |-> s.v])))

(***************************************************************************)
(* Profile and level.                                                      *)
(***************************************************************************)
parseProfileTier(r) ==
  LET compatible(q) ==
        Then(ReadEach(q, UpTo(32), LAMBDA s, j : xReadFlag(s)), LAMBDA s :
          Set(s, "compatible", {j \in 0 .. 31 : s.v[j + 1] = 1}))
      reserved(q) == xReadFlag(xReadCode(xReadCode(xReadCode(q, 16), 16), 11))
  IN Then(ReadItems(xReadCode(r, 2), <<F("highTier"), U("profile", 5, 0)>>), LAMBDA q :
       reserved(ReadItems(compatible(q), <<F("progressive"), F("interlaced"), F("nonPacked"), F("frameOnly")>>)))
\* The flags of a sub-layer say that it has no profile and no level of its own.
parsePTL(r, maxNumSubLayersMinus1) ==
  LET absent(q, i)   == CheckCode(CheckCode(q, 1, 0), 1, 0)
      reserved(q, i) == CheckCode(q, 2, 0)
      layers(q) == InTurn(q, UpTo(maxNumSubLayersMinus1), absent)
  IN Then(layers(ReadItems(parseProfileTier(r), <<U("level", 8, 0)>>)), LAMBDA q :
       IF maxNumSubLayersMinus1 = 0 THEN q ELSE InTurn(q, UpTo(8 - maxNumSubLayersMinus1), reserved))

(***************************************************************************)
(* Usability information and the hypothetical decoder.                     *)
(***************************************************************************)
parseHrdParameters(r, maxNumSubLayersMinus1) ==
  LET common(q) ==
        Then(ReadItems(q, <<F("subPic")>>), LAMBDA s :
          ReadItems(
            ItemsIf(ReadItems(ItemsIf(s, s.d.subPic, <<U("tickDivisor", 8, 0), U("duRemovalLength", 5, 0),
                                                       F("subPicInSei"), U("duOutputLength", 5, 0)>>),
                              <<U("bitRateScale", 4, 0), U("cpbSizeScale", 4, 0)>>),
                    s.d.subPic, <<U("duCpbSizeScale", 4, 0)>>),
            <<U("initialLength", 5, 0), U("removalLength", 5, 0), U("outputLength", 5, 0)>>))
      \* The data of a buffer and of a layer are local to it.
      value(q) == [q EXCEPT !.v = q.d]
      buffer(q, subPic) ==
        Then(value(ReadItems(ItemsIf(ReadItems([q EXCEPT !.d = [bitRate |-> 0, cpbSize |-> 0, duCpbSize |-> 0, duBitRate |-> 0, cbr |-> FALSE]],
                                               <<Ue("bitRate", 0), Ue("cpbSize", 0)>>),
                                     subPic, <<Ue("duCpbSize", 0), Ue("duBitRate", 0)>>), <<F("cbr")>>)),
             LAMBDA s : [s EXCEPT !.d = q.d])
      buffers(q, f, present, subPic) ==
        IF ~present THEN q ELSE Take(ReadEach(q, UpTo(q.d.cpbCnt + 1), LAMBDA s, j : buffer(s, subPic)), f)
      start == [fixed |-> FALSE, within |-> TRUE, duration |-> 0, lowDelay |-> FALSE, cpbCnt |-> 0,
                nalCpb |-> <<>>, vclCpb |-> <<>>]
      rate(q) == Then(ReadItems(q, <<F("fixed")>>), LAMBDA a : Then(ItemsIf(a, ~a.d.fixed, <<F("within")>>), LAMBDA b :
                   Then(ReadItems(b, IF b.d.within THEN <<Ue("duration", 0)>> ELSE <<F("lowDelay")>>), LAMBDA c :
                     ItemsIf(c, ~c.d.lowDelay, <<Ue("cpbCnt", 0)>>))))
      layer(q, i) ==
        Then(value(buffers(buffers(rate([q EXCEPT !.d = start]), "nalCpb", q.d.nal, q.d.subPic),
                           "vclCpb", q.d.vcl, q.d.subPic)),
             LAMBDA s : [s EXCEPT !.d = q.d])
  IN Then(ReadItems(r, <<F("nal"), F("vcl")>>), LAMBDA q :
       Then(IF q.d.nal \/ q.d.vcl THEN common(q) ELSE q, LAMBDA s :
         Take(ReadEach(s, UpTo(maxNumSubLayersMinus1 + 1), layer), "layers")))
vuiElements == <<"aspect", "overscan", "signal", "chroma loc", "flags", "display", "timing", "restriction">>
vuiElement(r, e, chroma, maxTLayers) ==
  LET present(f, rest(_)) == Then(TakeFlag(r, f), LAMBDA q : IF q.d[f] THEN rest(q) ELSE q)
      aspect(q) == Then(ReadItems(q, <<U("aspectIdc", 8, 0)>>), LAMBDA s :
                     ItemsIf(s, s.d.aspectIdc = 255, <<U("sarWidth", 16, 0), U("sarHeight", 16, 0)>>))
      signal(q) == Then(ReadItems(q, <<U("videoFormat", 3, 0), F("fullRange"), F("colour")>>), LAMBDA s :
                     ItemsIf(s, s.d.colour, <<U("primaries", 8, 0), U("transfer", 8, 0), U("matrix", 8, 0)>>))
      hrd(q) == Then(TakeFlag(q, "hrdPresent"), LAMBDA s :
                  IF s.d.hrdPresent THEN Inside(s, "hrd", LAMBDA t : parseHrdParameters(t, maxTLayers - 1)) ELSE s)
      timing(q) ==
        Then(ReadItems(q, <<U("unitsInTick", 32, 0), U("timeScale", 32, 0), F("pocProportional")>>), LAMBDA s :
          hrd(ItemsIf(s, s.d.pocProportional, <<Ue("ticksPocDiffOne", 0)>>)))
      restriction(q) ==
        Then(ReadItems(q, <<F("mvOverPic"), F("restrictedLists"), Ue("minSpatial", 0), Ue("maxBytes", 0), Ue("maxBits", 0),
                            Ue("log2MvHor", 0), Ue("log2MvVer", 0)>>), LAMBDA s : Check(s, s.d.minSpatial < 4096))
  IN CASE e = "aspect" -> present("aspect", aspect)
       [] e = "overscan" -> present("overscan", LAMBDA q : ReadItems(q, <<F("overscanAppropriate")>>))
       [] e = "signal" -> present("signal", signal)
       [] e = "chroma loc" -> present("chromaLoc", LAMBDA q : ReadItems(q, <<Ue("locTop", 0), Ue("locBottom", 0)>>))
       [] e = "flags" -> ReadItems(r, <<F("neutralChroma"), F("fieldSeq"), F("frameField")>>)
       [] e = "display" -> readWindow(r, "display", chroma)
       [] e = "timing" -> present("timing", timing)
       [] e = "restriction" -> present("restriction", restriction)
parseVUI(r, chroma, maxTLayers) == InTurn(r, vuiElements, LAMBDA q, e : vuiElement(q, e, chroma, maxTLayers))

(***************************************************************************)
(* Sequences.                                                              *)
(***************************************************************************)
nextElements == <<"tools", "affine type", "more tools", "tree", "sub-PU", "modes", "obmc", "fruc", "clip", "pdpc">>
nextElement(r, e) ==
  LET \* The flag of a tool with modes has been read into its mode.
      mode(q, f) == ItemsIf(q, q.d[f] # 0, <<Ue(f, 1)>>)
      \* The tree's sizes take the place of those that were derived before.
      tree(q) ==
        Then(ReadItems(q, <<F("DualITree"), Ue("ctuLog2", MIN_CU_LOG2)>>), LAMBDA s :
          Then(ReadEach(Set(Set(s, "maxCodingDepth", s.d.ctuLog2 - MIN_CU_LOG2), "maxCUWidth", 2 ^ s.d.ctuLog2),
                        UpTo(IF s.d.DualITree THEN 6 ELSE 4), LAMBDA t, i : xReadUvlc(t)), LAMBDA t :
            LET code(i) == IF i \in DOMAIN t.v THEN t.v[i] ELSE 0
            IN Set(Set(t, "minQTLog2", <<code(1) + MIN_CU_LOG2, code(2) + MIN_CU_LOG2, code(5) + MIN_CU_LOG2>>),
                   "maxBTDepth", <<code(3), code(4), code(6)>>)))
  IN CASE e = "tools" ->
            ReadItems(r, <<M("QTBT"), M("NSST"), M("Intra4Tap"), M("LargeCTU"), M("IntraBoundaryFilter"),
                           M("SubPuMvpMode"), M("CABACEngineMode"), M("ImvMode"), M("BIO"), M("DisableMotCompress"),
                           M("LICMode"), M("IntraPDPCMode"), M("LMChroma"), M("IntraEMT"), M("InterEMT"), M("OBMC"),
                           M("FRUC"), M("Affine")>>)
       [] e = "affine type" -> ItemsIf(r, r.d.Affine # 0, <<M("AffineType")>>)
       [] e = "more tools" ->
            ReadItems(CheckCode(ReadItems(r, <<M("AClip"), M("CIPFMode"), M("BIF"), M("DMVR"), M("MDMS"), M("IBCMode"),
                                               M("GBi")>>), NumReservedFlags, 0), <<M("MTTMode"), M("NextDQP")>>)
       [] e = "tree" -> IF r.d.QTBT # 0 THEN tree(r) ELSE r
       [] e = "sub-PU" ->
            IF r.d.SubPuMvpMode = 0 THEN r
            ELSE Then(xReadFlag(ReadItems(r, <<U("SubPuMvpLog2Size", 3, MIN_CU_LOG2)>>)), LAMBDA atmvp :
                   Then(xReadFlag(atmvp), LAMBDA stmvp : Set(stmvp, "SubPuMvpMode", atmvp.v + 2 * stmvp.v)))
       [] e = "modes" -> InTurn(r, <<"CABACEngineMode", "ImvMode", "LICMode", "MTTMode">>, mode)
       [] e = "obmc" -> Then(ItemsIf(r, r.d.OBMC # 0, <<Ue("OBMCBlkSize", 0)>>), LAMBDA q :
                          Check(q, r.d.OBMC # 0 => q.d.OBMCBlkSize \in {4, 8}))
       [] e = "fruc" -> IF r.d.FRUC = 0 THEN r
                        ELSE Then(ReadItems(r, <<Ue("FRUCRefineFilter", 0), Ue("FRUCRefineRange", 0),
                                                 Ue("FRUCSmallBlkRefineDepth", 0)>>), LAMBDA q :
                               Set(q, "FRUCRefineRange", 16 * q.d.FRUCRefineRange))
       [] e = "clip" -> IF r.d.AClip = 0 THEN r
                        ELSE Then(xReadCode(r, 2), LAMBDA q : Set(q, "AClipQuant", 2 * q.v))
       [] e = "pdpc" -> ItemsIf(r, r.d.IntraPDPCMode # 0, <<U("IntraPDPCMode", 1, 1)>>)
parseSPSNext(r) == InTurn(r, nextElements, nextElement)

\* One set after the other; each may be told by the one before.
readRpsList(r) ==
  Then(xReadUvlc(r), LAMBDA q :
    InTurn(Check(Set(q, "rpsList", <<>>), q.v <= 64), UpTo(q.v), LAMBDA s, i :
      Then(parseShortTermRefPicSet(s.d.rpsList, q.v, s), LAMBDA t : Set(t, "rpsList", Append(t.d.rpsList, t.v)))))
\* What the parser derives from the sizes of blocks.
Sized(r) ==
  LET d == r.d
  IN [Check(r, d.level >= LEVEL5 => d.log2MinCb + d.log2DiffMaxMinCb >= 5) EXCEPT
        !.d.maxCUWidth = 2 ^ (d.log2MinCb + d.log2DiffMaxMinCb), !.d.maxTrSize = 2 ^ d.log2MaxTU,
        !.d.maxCodingDepth = d.log2DiffMaxMinCb + MaxOf(0, d.log2MinCb - d.log2MinTU)]
sizeElements == <<"layers", "format", "window", "depths", "dpb", "sizes">>
sizeElement(r, e) ==
  CASE e = "layers" ->
         Then(ReadItems(r, <<U("maxTLayers", 3, 1), F("nesting")>>), LAMBDA q :
           ReadItems(parsePTL(Check(q, q.d.maxTLayers <= 7 /\ (q.d.maxTLayers = 1 => q.d.nesting)), q.d.maxTLayers - 1),
                     <<Ue("spsId", 0), Ue("chroma", 0)>>))
    [] e = "format" ->
         Then(IF r.d.chroma = 3 THEN CheckCode(r, 1, 0) ELSE r, LAMBDA q :
           ReadItems(Check(q, q.d.spsId <= 15 /\ q.d.chroma \in {0, 1, 3}), <<Ue("width", 0), Ue("height", 0)>>))
    [] e = "window" -> readWindow(r, "window", r.d.chroma)
    [] e = "depths" ->
         Then(ReadItems(r, <<Ue("bitDepthY", 8), Ue("bitDepthC", 8), Ue("bitsForPOC", 4)>>), LAMBDA q :
           Set(Set(Check(q, q.d.bitDepthY <= 16 /\ q.d.bitDepthC <= 16 /\ q.d.bitsForPOC <= 16),
                   "qpBDOffsetY", 6 * (q.d.bitDepthY - 8)), "qpBDOffsetC", 6 * (q.d.bitDepthC - 8)))
    [] e = "dpb" -> \* without the flag, the first layer's numbers are those of all
         LET layer(q, i) == Then(ReadEach(q, UpTo(3), LAMBDA s, j : xReadUvlc(s)), LAMBDA s :
                              [s EXCEPT !.v = [buffering |-> @[1] + 1, reorder |-> @[2], latency |-> @[3]]])
         IN Then(xReadFlag(r), LAMBDA q :
              Then(ReadEach(q, UpTo(IF q.v = 1 THEN q.d.maxTLayers ELSE 1), layer), LAMBDA s :
                Set(s, "dpb", [i \in 1 .. s.d.maxTLayers |-> s.v[MinOf(i, Len(s.v))]])))
    [] e = "sizes" ->
         Then(ReadItems(r, <<Ue("log2MinCb", 3), Ue("log2DiffMaxMinCb", 0), Ue("log2MinTU", 2)>>), LAMBDA q :
           Sized(ReadItems(q, <<Ue("log2MaxTU", q.d.log2MinTU), Ue("depthInter", 1), Ue("depthIntra", 1)>>)))
sequenceElements == <<"tools", "pcm", "references", "long term", "vui", "extension", "end">>
sequenceElement(r, e) ==
  CASE e = "tools" -> ReadItems(r, <<F("useALF"), F("useAMP"), F("useSAO"), F("usePCM")>>)
    [] e = "pcm" ->
         IF ~r.d.usePCM THEN r
         ELSE Then(ReadItems(r, <<U("pcmDepthY", 4, 1), U("pcmDepthC", 4, 1), Ue("pcmLog2Min", 3)>>), LAMBDA q :
                ReadItems(q, <<Ue("pcmLog2Max", q.d.pcmLog2Min), F("pcmFilterDisable")>>))
    [] e = "references" -> readRpsList(r)
    [] e = "long term" ->
         Then(ReadItems(r, <<F("longTerm")>>), LAMBDA q :
           ReadItems(IF q.d.longTerm THEN Then(xReadUvlc(q), LAMBDA s : Check(s, s.v = 0)) ELSE q,
                     <<F("tmvp"), F("vuiPresent")>>))
    [] e = "vui" -> IF ~r.d.vuiPresent THEN r
                    ELSE Inside(r, "vui", LAMBDA q : parseVUI(q, r.d.chroma, r.d.maxTLayers))
    [] e = "extension" -> \* of the flags only that of SPSNext is set, and only in its profile
         Then(xReadFlag(r), LAMBDA q :
           IF q.v = 0 THEN q
           ELSE Then(CheckCode(q, NumExtensionFlags, 2 ^ (7 - SPS_EXT__NEXT)), LAMBDA s :
                  parseSPSNext(Check(s, s.d.profile = NEXT))))
    [] e = "end" -> xReadRbspTrailingBits(r)
parseSPS(r) == InTurn(InTurn(r, sizeElements, sizeElement), sequenceElements, sequenceElement)

(***************************************************************************)
(* Pictures.                                                               *)
(***************************************************************************)
readRange(r) ==
  LET offset(q, i) == Then(ReadEach(q, UpTo(2), LAMBDA s, j : xReadSvlc(s)), LAMBDA s :
                        Check(s, \A j \in 1 .. 2 : s.v[j] \in -12 .. 12))
      list(q) == IF q.v = 0 THEN Set(Set(q, "qpOffsetList", <<>>), "chromaQpDepth", 0)
                 ELSE Then(xReadUvlc(ReadItems(q, <<Ue("chromaQpDepth", 0)>>)), LAMBDA n :
                        Take(ReadEach(n, UpTo(n.v + 1), offset), "qpOffsetList"))
      scales(q) == Take(ReadEach(q, UpTo(2), LAMBDA s, j : xReadUvlc(s)), "saoScale")
  IN Then(ReadItems(ItemsIf(r, r.d.transformSkip, <<Ue("log2MaxTS", 2)>>), <<F("crossComponent")>>), LAMBDA q :
       scales(list(xReadFlag(q))))
ppsElements == <<"start", "qp", "offsets", "flags", "deblocking", "deblocking offsets", "merge", "extension", "end">>
ppsElement(r, e) ==
  CASE e = "start" ->
         Then(ReadItems(r, <<Ue("ppsId", 0), Ue("spsId", 0), F("outputPresent"), U("extraBits", 3, 0),
                             F("cabacInitPresent")>>), LAMBDA q :
           Take(ReadEach(Check(q, q.d.ppsId <= 63 /\ q.d.spsId <= 15), UpTo(2), LAMBDA s, i :
                  Then(xReadUvlc(s), LAMBDA t : Check(Plus(t, 1), t.v <= 14))), "numRef"))
    [] e = "qp" ->
         Then(ReadItems(r, <<Se("initQPMinus26"), F("constrainedIntra"), F("transformSkip"), F("useDQP")>>), LAMBDA q :
           IF q.d.useDQP THEN ReadItems(q, <<Ue("maxCuDQPDepth", 0)>>) ELSE Set(q, "maxCuDQPDepth", 0))
    [] e = "offsets" -> Then(ReadItems(r, <<Se("cbOffset"), Se("crOffset")>>), LAMBDA q :
                          Check(q, q.d.cbOffset \in -12 .. 12 /\ q.d.crOffset \in -12 .. 12))
    [] e = "flags" -> ReadItems(r, <<F("sliceChromaQp"), F("useWP"), F("WPBiPred"), F("transquantBypass"), F("lfAcross"),
                                     F("dbControl")>>)
    [] e = "deblocking" -> ItemsIf(r, r.d.dbControl, <<F("dbOverrideEnabled"), F("dbDisable")>>)
    [] e = "deblocking offsets" -> IF r.d.dbControl THEN ItemsIf(r, ~r.d.dbDisable, <<Se("beta"), Se("tc")>>) ELSE r
    [] e = "merge" -> ReadItems(r, <<F("listsModification"), Ue("log2ParMrgMinus2", 0), F("headerExtension")>>)
    [] e = "extension" ->
         Then(xReadFlag(r), LAMBDA q :
           IF q.v = 0 THEN q ELSE readRange(CheckCode(q, NumExtensionFlags, 2 ^ (7 - PPS_EXT__REXT))))
    [] e = "end" -> xReadRbspTrailingBits(r)
parsePPS(r) == InTurn(r, ppsElements, ppsElement)
=============================================================================
