---------------------------- MODULE SyntaxCoding ----------------------------
(***************************************************************************)
(* One coding unit, one transform block, the filter parameters of one      *)
(* picture, one slice header or one parameter set, through its writer and  *)
(* its reader.  The writer sees the whole unit; the reader only the bins,  *)
(* and the unit as far as it has filled it in, from which it derives what  *)
(* comes next: every condition, context and Rice parameter.                *)
(***************************************************************************)
EXTENDS Integers, Sequences

CONSTANTS Sizes, Levels, Extended,   \* of transform blocks: see UnitInputs
          Mvds, IntraModes,          \* of coding units: see UnitInputs
          AlfSlices,                 \* see FilterCoding
          SubPuAddresses             \* see HlsInputs

BlockOut == INSTANCE ResidualWriter
BlockBack == INSTANCE ResidualReader
UnitIn   == INSTANCE UnitInputs
UnitOut  == INSTANCE CuWriter
UnitBack == INSTANCE CuReader
PicIn    == INSTANCE FilterCoding
PicOut   == INSTANCE FilterWriter
PicBack  == INSTANCE FilterReader
HlsIn    == INSTANCE HlsInputs
HlsOut   == INSTANCE HlsWriter
HlsBack  == INSTANCE HlsReader

ASSUME SyntaxAssumption ==
  /\ Extended \subseteq BOOLEAN /\ Levels \subseteq Int
  /\ IntraModes \subseteq 0 .. 66
  /\ AlfSlices \subseteq Nat /\ SubPuAddresses \subseteq Nat

VARIABLES kind,  \* what is coded: the family of inputs it is from
          p,     \* parameters of the sequence and picture, and surroundings
          unit,  \* the writer's unit
          bins,  \* what it has written
          r,     \* the reader
          stage
vars == <<kind, p, unit, bins, r, stage>>

Blocks == {"levels", "tools"}
Parameters(k) ==
  CASE k = "levels" -> UnitIn!Quantisers  [] k = "tools" -> UnitIn!Tools
    [] k = "merge"  -> UnitIn!MergeParams  [] k = "vector" -> UnitIn!VectorParams
    [] k = "inter"  -> UnitIn!InterToolParams [] k = "intra" -> UnitIn!IntraParams
    [] k = "pcm"    -> UnitIn!PcmParams    [] k = "tree" -> UnitIn!TreeParams
    [] k = "filters" -> PicIn!FilterParams [] k = "header" -> HlsIn!HeaderParams
    [] k = "sps"    -> HlsIn!SpsParams     [] k = "pps" -> HlsIn!PpsParams
UnitsOf(k) ==
  CASE k = "levels" -> UNION {UnitIn!Blocks(p, s) : s \in Sizes}
    [] k = "tools"  -> UNION {UnitIn!ToolBlocks(p, s) : s \in Sizes}
    [] k = "merge"  -> UnitIn!MergeUnits(p)  [] k = "vector" -> UnitIn!VectorUnits(p)
    [] k = "inter"  -> UnitIn!InterToolUnits(p) [] k = "intra" -> UnitIn!IntraUnits(p)
    [] k = "pcm"    -> UnitIn!PcmUnits(p)    [] k = "tree" -> UnitIn!TreeUnits(p)
    [] k = "filters" -> PicIn!FilterUnits(p) [] k = "header" -> HlsIn!HeaderUnits(p)
    [] k = "sps"    -> HlsIn!SpsUnits(p)     [] k = "pps" -> HlsIn!PpsUnits(p)

Init ==
  /\ kind \in {"levels", "tools", "merge", "vector", "inter", "intra", "pcm", "tree", "filters", "header", "sps", "pps"}
  /\ p \in Parameters(kind)
  /\ unit = <<>> /\ bins = <<>> /\ r = <<>> /\ stage = "search"

\* The encoder's search, quantiser and filters settle the unit.
Search ==
  /\ stage = "search" /\ stage' = "write"
  /\ unit' \in UnitsOf(kind)
  /\ UNCHANGED <<kind, p, bins, r>>
Write ==
  /\ stage = "write" /\ stage' = "read"
  /\ bins' = CASE kind \in Blocks -> BlockOut!residual_coding(p, unit)
               [] kind = "filters" -> PicOut!encodeSlices(p, unit)
               [] kind = "header" -> HlsOut!codeSliceHeader(p, unit)
               [] kind = "sps" -> HlsOut!codeSPS(unit)
               [] kind = "pps" -> HlsOut!codePPS(unit)
               [] OTHER -> UnitOut!coding_unit(p, unit)
  /\ UNCHANGED <<kind, p, unit, r>>
\* The decoder brings the vectors to their precision when the unit has been read.
ReadUnit ==
  UnitBack!Then(UnitBack!coding_unit(p, UnitBack!Reader(bins, UnitBack!initData)),
                LAMBDA q : [q EXCEPT !.d = UnitBack!applyImv(p, @)])
Read ==
  /\ stage = "read" /\ stage' = "done"
  /\ r' = CASE kind \in Blocks -> BlockBack!residual_coding(p, BlockBack!Reader(bins, UnitIn!Known(unit)))
            [] kind = "filters" -> PicBack!decompressSlices(p, PicBack!Reader(bins, PicIn!Stale))
            [] kind = "header" -> HlsBack!parseSliceHeader(p, HlsBack!Reader(bins, HlsIn!PilotSlice(p, unit)))
            [] kind = "sps" -> HlsBack!parseSPS(HlsBack!Reader(bins, HlsIn!NewSps))
            [] kind = "pps" -> HlsBack!parsePPS(HlsBack!Reader(bins, HlsIn!NewPps))
            [] OTHER -> ReadUnit
  /\ UNCHANGED <<kind, p, unit, bins>>
Next == Search \/ Write \/ Read
Spec == Init /\ [][Next]_vars

\* The reader asks for every bin, in order, with the context it was written
\* with, and for no other: what it has decoded so far stands for the writer's
\* whole unit (sigCtxIdAbs, ctxOffsetAbs and GoRiceParAbs of a subblock;
\* conditions on merge, affine, fruc, vectors and coded block flags of a unit).
InStep == stage = "done" => UnitBack!AllRead(r)
\* The reader recovers the unit: modes, indices, vectors in full precision,
\* flags that are inferred and not sent, levels and hidden signs.  Only the
\* implicit RDPCM mode of an intra block, which the encoder keeps in the unit,
\* is not sent (explicit_rdpcm_mode).  Of a picture it recovers what its filters
\* do, whatever its arrays held before: a CTU that merges takes on what its
\* neighbour was completed to, and no slice undoes the SAO of another.  Of the
\* ALF flags that is not so: each slice with ALF resizes those of all CTUs
\* (DecSlice.cpp:117), so they are recovered where the ALF has one slice.
RoundTrip ==
  stage = "done" =>
    CASE kind \in Blocks -> r.d = IF unit.intra THEN [unit EXCEPT !.rdpcm = "OFF"] ELSE unit
      [] kind = "filters" -> PicIn!Applied(p, r.d) = PicIn!Applied(p, unit)
      [] kind = "header" ->
           HlsIn!Meaning(p, r.d, r.d.poc, HlsBack!ContextTable(p, r.d))
             = HlsIn!Meaning(p, unit, IF p.idr THEN 0 ELSE unit.poc - p.lastIDR, HlsOut!ContextTable(p, unit))
      [] kind = "sps" -> HlsIn!SpsMeaning(r.d) = HlsIn!SpsMeaning(unit)
      [] kind = "pps" -> HlsIn!PpsMeaning(r.d) = HlsIn!PpsMeaning(unit)
      [] OTHER -> r.d = unit
\* No offset leaves its context set (CtxSet::operator() checks it in debug
\* builds only; beyond it lies another syntax element's context).
ContextsInSets == \A i \in DOMAIN bins : UnitOut!InSet(bins[i][1])
=============================================================================
