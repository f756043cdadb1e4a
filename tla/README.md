# Verification of the BMS encoder and decoder

This directory holds TLA+ models of BMS (the benchmark set: a video codec of
the HM/JEM family, under `src/source`), configurations that check them with
TLC, and theorems about them checked by TLAPS.

Build options follow the repository's defaults: `BMS_TOOLS=1`, `JEM_TOOLS=1`,
`HEVC_TOOLS=0` (so `HEVC_VPS` is off).  `ENABLE_WPP_PARALLELISM` and
`ENABLE_SPLIT_PARALLELISM` are off by default and are options of the CMake
build; the WPP model is of a build with the first one on.  `CHECK(cond, msg)`
in the code throws when `cond` is true.

Contents:

1. The system
2. Modules, and how they correspond to the code
3. Runs
4. Fairness
5. Proofs
6. What is not modelled
7. Plan

## 1. The system

| Part | State it keeps | Operations | Talks to |
|---|---|---|---|
| WPP scheduler and CTU-row threads (`Picture.cpp` Scheduler, `EncSlice.cpp`) | first unfinished line, running threads, last CTU and processed flag of each line, one synchronisation value per line; saved CABAC contexts of each line | `init`, `wait`, `setReady`, `getNextCtu`; the rows' loop in `encodeCtus` | threads share the scheduler through a mutex and condition variables; the parallel loop of `compressSlice` has a barrier at its end |
| decoding loop (`DecApp.cpp`, `DecLib.cpp`) | slice pilot, picture being decoded, POC memory, random-access point, first-slice flags, `m_iPOCLastDisplay` | `decode`, `xDecodeSlice`, `finishPicture`, `xWriteOutput`, `xFlushOutput`, `checkNoOutputPriorPics` | reads NAL units; one that starts a new picture is put back and read again |
| decoded picture buffer (`DecLib.cpp`, `Slice.cpp`) | list of pictures with marks: referenced, reconstructed, needed for output | `xGetNewPicBuffer`, `applyReferencePictureSet`, `setRefPicList`, `sortPicList`, lost pictures | shared by decoding loop and output through a plain pointer to the list |
| parameter sets (`Slice.h` ParameterSetManager, `DecLib.cpp` xActivateParameterSets, `Picture.cpp` finalInit) | map of each kind with changed flags, active id, last active set; pcv of each PPS; pointers kept in each picture's CodingStructure | `storePS`, `activatePPS`, `clearSPSChangedFlag`, `finalInit` | pictures hold raw pointers to sets the manager owns |
| NAL unit framing (`NALwrite.cpp`, `NALread.cpp`, `AnnexBread.cpp`) | zero counters, the file's look-ahead | write and read a NAL unit, add and drop emulation prevention bytes, seek back to a unit | encoder and decoder application |
| arithmetic coder and bit streams (`BinEncoder.cpp`, `BinDecoder.cpp`, `Contexts.cpp`, `BitStream.cpp`) | low, range, bytes held back, probability states, held bits | encode and decode bins, bypass bins, remainders; PCM samples; finish | one coder for each slice or WPP line |
| syntax of coding units, transform trees and residuals (`CABACWriter.cpp`, `CABACReader.cpp`, `ContextModelling.cpp`) | the unit being filled in, the contexts of a coefficient group | `coding_unit`, `prediction_unit`, `transform_tree`, `residual_coding` | search and reconstruction, arithmetic coder |
| coding tree and block partitioning (`UnitPartitioner.cpp`, `EncCu.cpp`, `CABAC*.cpp`) | stack of splits, four depths, part index, quantisation group | `splitCurrArea`, `exitCurrSplit`, `nextPart`, `canSplit`, `coding_tree`, `xCheckDQP` | search, writer and reader walk the same tree |
| filter parameters (`CABAC*.cpp` SAO and ALF, `SampleAdaptiveOffset.cpp`) | offsets and flags of each CTU, kept with the picture | `sao`, `alf`, merging, completion of merged offsets | a CTU takes on its neighbour's |
| slice header (`VLCWriter.cpp`, `VLCReader.cpp`) | the slice pilot, an object that held an earlier slice | `codeSliceHeader`, `parseSliceHeader`, `initSlice`, `copySliceInfo` | parameter sets, decoding loop |
| syntax of parameter sets and SEI (`VLCWriter.cpp`, `VLCReader.cpp`, `SEI*.cpp`) | the parameter sets being filled | field-by-field writing and parsing | parameter sets, decoding loop |
| split-parallel search (`EncCu.cpp`, `EncModeCtrl.cpp`, the thread ids of `Picture.cpp`) | thread-local job ids, per-job caches, contexts and buffers | start jobs, choose the best, merge | threads of one CTU; nested in WPP threads |
| encoder control (`EncLib.cpp`, `EncGOP.cpp`, `Slice.cpp`) | picture list, coding order of the GOP, reference picture sets | `encode`, `xGetNewPicBuffer`, `compressGOP`, the reference picture set of each slice | must stay in step with the decoder's list |
| mode decision and motion search (`EncCu.cpp`, `InterSearch.cpp`, `IntraSearch.cpp`, ...) | best candidates so far | search | partitioner, prediction, rate distortion |
| rate control (`RateCtrl.cpp`) | bits left, lambda and QP models of sequence, picture and CTU | `initRCPic`, `updateAfterCTU`, `updateAfterPicture` | called from the CTU rows |
| prediction, transform, quantisation, reconstruction | sample buffers | pure arithmetic on samples | everything |
| in-loop filters | sample buffers, filter parameters | deblocking, SAO, ALF, bilateral | run at the end of a picture |
| coding structures and unit caches (`CodingStructure.cpp`, `Unit*.cpp`, `Buffer.cpp`) | units of a block, caches of free units | add, find, copy, release | search and coding |
| parcat (`parcat.cpp`) | POC base of the segment, counters | joins bitstreams, renumbers POCs | files only |
| SEI removal application | none | copies all NAL units but SEI | files only |
| encoder application and options | configuration | parse, check | encoder |
| video files, colour remapping, checksums, tracing | file positions | read, write | applications |
| cache model (`CacheModel.cpp`) | tags and replacement bits | hit, miss | interpolation, optional build |
| tables, SIMD kernels, build scripts | none | | |

What is hard in them, and what makes them correct:

* **WPP scheduler.**  Rows run on several threads; with extra lines more rows
  are begun than threads are available, and `setReady` passes a slot on.  A
  CTU must not be coded before its neighbours, contexts must be those of this
  picture, slots must be counted exactly, none may be lost or wasted, and the
  picture must end.
* **Decoding loop and picture buffer.**  A new picture is discovered by
  reading its first slice, after which that slice is parsed a second time: all
  state changed by the first reading must be right for the second.  A
  random-access point, an end of sequence, leading pictures, lost slices and
  bumping act on the same few fields.  Pictures must be whole, must find the
  references the encoder used, and must be shown once each and in order.
* **Parameter sets.**  Sets may be sent again anywhere, also between the
  slices of a picture and before the picture in hand is filtered; pictures
  read them by raw pointers.  Each must have one owner, none may be read after
  its deletion, and each slice must be decoded with the ones it names.
* **NAL framing and arithmetic coder.**  Boundary conditions on zeros, end of
  file, carries, held bits and groups of bypass bins: the reader must invert
  the writer, and no start code may arise inside a unit.
* **Syntax.**  The writer has the whole unit, the reader only what it has read
  so far: each condition, context and Rice parameter must come out the same,
  with values a unit, a picture's arrays or the slice pilot still hold from
  before.
* **Coding tree.**  Three walks of the same tree, by three pieces of code, must
  meet the same blocks; walking out of a split must restore what walking in
  changed; a unit that sends no QP must get the encoder's.
* **Split-parallel search.**  Jobs must not share data, and the result must
  not depend on the order they end in.
* **Encoder control.**  The encoder's list and the decoder's must hold the
  same references at every slice.
* **Rate control under WPP.**  Its counters are updated by all rows without a
  lock.
* **parcat.**  POCs must increase over the joined stream.

The `hazards` of `PROJECT.json` give the line of the code and the properties
for each of these.

## 2. Modules, and how they correspond to the code

### WppScheduler, Wavefront

`WppScheduler` has one thread for each CTU row (`phase`, `col`) and the
members of `Scheduler`.  Rows are tied to workers as the static OpenMP
schedule of `compressSlice` does: row y is handled by worker y mod D, and
begun when that worker has left row y - D (`BeginRow`, `WorkerFree`).

| Code | Model |
|---|---|
| `m_firstNonFinishedLine`, `m_numWppThreadsRunning`, `m_LineDone`, `m_LineProc`, `m_SyncObjs` | `first`, `running`, `lineDone`, `lineProc`, `sync` |
| `m_entropyCodingSyncContextStateVec` | `ctxVec`: the picture in which the row's entry was saved |
| `getNumWppThreads() > 1 \|\| getEnsureWppBitEqual()` | `SyncsContexts`; `wpp_serial_extra` has it false |
| `Scheduler::init` | `Init`, `NextPicture` |
| `Scheduler::wait` returns | `Ready`, in `BeginCtu` |
| body of the CTU loop | `BeginCtu` (contexts loaded), `EndCtu` (reconstructed, contexts saved) |
| `Scheduler::setReady`, `getNextCtu` | `SetReady`, with `Grant` or `Report`; `Runnable` |

`setReady` runs under `m_mutex` and is one atomic step; the coding of a CTU
lies between `BeginCtu` and `EndCtu` and interleaves with everything else.

`Wavefront` is the abstract specification: rows go from left to right, and a
CTU begins only when its above-right neighbour has been coded.

### PictureList, Decoder, OutputOrder, EncoderPictures, DecoderStreams

`PictureList` holds the operations on the decoded picture buffer as operators
on sequences of picture records: the choice of a buffer, the marks of a
reference picture set, sorting, looking up references, writing and flushing.

`Decoder` is the loop.  A round has the phases in which the statements of
`DecApp::decode` follow each other:

    read -> (decode) -> finish -> write -> prior -> flush -> bump -> read

`read` is `DecLib::decode` up to the decision to skip a slice, to announce a
new picture, or to go on; `decode` is the rest of `xDecodeSlice`; the other
phases are the conditional blocks after it.  The members of `DecLib` and the
locals of the loop are the fields of `dec`, under their own names without
`m_`.  A picture carries the number of the coded picture its slices came
from, the *frame*, which is what the properties compare.

`DecoderStreams` makes the bitstreams: rows of segments (an access point with
its leading pictures, a picture, a small GOP, an end of sequence, SEI,
reserved NAL units), numbered as an encoder numbers them.  Losses remove one
slice.  To these it joins what the modelled encoder writes, whole and cut at
each CRA picture, so that encoder and decoder are checked together.

`EncoderPictures` is that encoder, as functions of a configuration (GOP list,
intra period, decoding refresh type, number of frames): a single thread whose
order of steps the input fixes.

| Code | Model |
|---|---|
| GOP check of `EncAppCfg::xCheckParameter`, with the entries it adds | `CheckParameter`, `CheckGopEntry`, `ExtraEntry`; `Reorder`, `Buffering` |
| `EncLib::encode`, `xGetNewPicBuffer` | `EncodeFrame`, `AddFrame`, `FreePicture` |
| `EncGOP::compressGOP`, without what happens inside a picture | `CompressGOP`, `CodePicture` |
| `getNalUnitType`, the changes to `_N`, `TSA` and `STSA` types | `NalUnitType`, `NonReferenceType`, `LayerType` |
| `decodingRefreshMarking` | `RefreshMarking` |
| `selectReferencePictureSet`, `checkThatAllRefPicsAreAvailable`, `createExplicitReferencePictureSetFromReference` | `RpsIdx`, `SomeMissing`, `ExplicitRps` |
| `applyReferencePictureSet` and its checks, `sortPicList`, `getRefPic` | those of `PictureList`: the code is shared by both sides |

`OutputOrder` is the abstract specification of the output file: finished
pictures wait; pictures are shown in the order of (sequence, POC); a picture
never comes in behind one already shown.

### ParameterSetMap, ParameterSets, ParameterSetsMC

`ParameterSetMap` is `ParameterSetMap<T>` of `Slice.h` as operators on a
record, with the heap of the sets it allocates: an object is a number, `live`
the objects not deleted.  `StorePS` has the three ways of `storePS`: a new id,
a set that repeats the stored one (the new object is deleted), and a changed
one (`Replace`: the old object is deleted, or kept as the last active one when
it is active).

`ParameterSets` has two of these maps and the pictures with their pointers.
Each read of a set through a picture is guarded by whether the set is alive
(`MayFinish`, `MayFlush`, `PpsAlive`), and the alternative is the status
`fault`.  `FindNewPicture` and `TakePicture` are the two readings of the slice
that starts a picture.  The bitstream is the environment; `sent` is its
history, which the properties compare with, and `StreamAllows` limits it.

The model over-approximates the buffer: any free picture may be reused, any
picture of the list may be at its front, and a picture may be released from
output and reference at any moment; `Decoder` says when that really happens.

### Bins, BinWriter, BinReader

What the syntax modules have in common.  A bin is a pair `<<context, value>>`;
a bypass bin has the context `EP`.  `BinWriter` makes sequences of bins
(flags, truncated unary, truncated binary and exp-Golomb codes); `BinReader`
takes them off again.  A reader is a record: the bins, the position `at`, the
flag `inStep` (each bin was asked for with the context it was written with),
the value `v` last read and the data `d` read so far.  An operator of a
reader sees `d` and never the writer's unit.

### SyntaxCoding and the modules of its kinds

`SyntaxCoding` has three actions: `Search` chooses a unit an encoder can come
to, `Write` turns it into bins, `Read` reads them.  The unit is one of twelve
kinds:

| Kinds | Coding, Writer, Reader, Inputs | Code |
|---|---|---|
| `levels`, `tools` | `CoeffCoding`, `ResidualWriter`, `ResidualReader`, `UnitInputs` | `residual_coding` and all below it; sign hiding, dependent quantisation, transform skip, RDPCM, EMT and NSST indices, cross-component prediction |
| `merge`, `vector`, `inter`, `intra`, `pcm`, `tree` | `CuCoding`, `CuWriter`, `CuReader`, `UnitInputs` | `coding_unit`, `prediction_unit`, `merge_data`, `mvd_coding`, `imv_mode`, intra modes, `pcm_samples`, `transform_tree` with coded block flags, QP and chroma QP adjustment |
| `filters` | `FilterCoding`, `FilterWriter`, `FilterReader` (inputs in `FilterCoding`) | `sao`, `alf` of every CTU of a picture, in one or two slices, and `reconstructBlkSAOParams` |
| `header` | `HlsCoding`, `HlsWriter`, `HlsReader`, `HlsInputs` | `codeSliceHeader`, `parseSliceHeader`, `xCodeShortTermRefPicSet`, `parseShortTermRefPicSet`, `xCodePredWeightTable`, `parsePredWeightTable`, `alf`, the encoder's `xInitRPS` and `createExplicitReferencePictureSetFromReference` |
| `sps`, `pps` | the same four, in their second halves | `codeSPS` with `codeSPSNext`, `codePTL`, `codeVUI`, `codeHrdParameters`; `codePPS` with its range extension; the parsers of all of them, and the encoder's `xInitSPS`, `xInitPPS`, `xInitHrdParameters` |

The *Coding* module of a family has what both sides compute by the same
function of the code (context derivations, scans, tables); *Writer* and
*Reader* are the two classes' own functions, each translated from its own
text; *Inputs* says what units the encoder can come to, with the bounds, and
what the reader's objects hold before it begins.  `FilterCoding!Stale` is a
picture buffer that is used again; `HlsInputs!PilotSlice` is the slice pilot
after `initSlice` and, for a later slice of a picture, `copySliceInfo` from
the slice before (`EarlierSlice`), so that whatever the reader does not set is
an older slice's; `NewSps` and `NewPps` are the sets as their constructors leave
them.

A parameter set is compared by what it says (`SpsMeaning`, `PpsMeaning`): a
member counts in the cases in which it is looked at.  Some of them the parser
does not read but derives (`Sized`: the total depth of coding units from the
sizes of blocks, which the encoder computes in `EncAppCfg` from other
quantities, and which the sizes of the binary tree replace).  A condition that
the parser `CHECK`s is part of `inStep`, so no set of the encoder may fail one.
Two results of the reading: a level of 5 or more with CTUs of 16 samples is
refused (`VLCReader.cpp:1120`) and is left out of the inputs; mode 2 of taking the
contexts from an earlier picture arrives as mode 1, which the decoder only uses
as on or off.
`SPSNext` is read in the profile NEXT alone, the only one this build lets an
encoder choose; its flag for delta QPs in the binary tree exists with
`ENABLE_WPP_PARALLELISM`, which is on.

### Partitioner, CodingTree, CodingTreeMC

`Partitioner` is `QTBTPartitioner` as operators on a stack of levels: the
parts of each split, the four depths with their corrections, `canSplit`,
`getImplicitSplit`; its second half derives the contexts of the split flags
and the predicted QP from the units around, by either of the two rules (`nextDqp`).

`CodingTree` takes one CTU through three walks, one step for each node:
`SearchSplit`, `SearchLeaf`, `SearchEnd` (`xCompressCU` with `xCheckDQP`; any
split `canSplit` allows), `Write`, `WriteEnd` (`coding_tree` of the writer,
which finds its way from the search's units), and `Read`, `ReadEnd`
(`coding_tree` of the reader, from the bins).  What a unit holds is abstracted
to whether it has a residual.

### CoderParts, BinEncoder, BinDecoder, NalFraming, BitstreamFile

`BinEncoder` and `BinDecoder` are the arithmetic coder with its registers at
full width, `CoderParts` the two-window probability model and the bits of
`OutputBitstream` and `InputBitstream`.  `NalFraming` has emulation
prevention, start codes, zero words and `byteStreamNALUnit` with its
look-ahead.

`BitstreamFile` composes them: `Code` codes a symbol, `EndSlice` finishes the
slice, `WriteFile` writes the access unit, `ReadUnit` takes a NAL unit out of
the file, `GiveBack` seeks back to it as `DecApp` does when a unit starts a new
picture, and `DecodeSlice` decodes the symbols.

### Proof modules

`WppSchedulerProof` and `ParameterSetsProof` extend the two modules, and
`ActivationProof` extends the second of them.  `PictureListProof` has the
lemmas about the operators of `PictureList`, `DecoderProof` extends it and
`Decoder`, and `PocProof` extends that; `BitstreamFileProof` extends
`BitstreamFile`.  `FoldInduction` is instantiated for each operator that is folded
along the picture list or along a sequence of bytes, words, groups, symbols or
units.  Together they hold the theorems of section 5.

## 3. Runs

`PROJECT.json` pairs every property of a passing run with a mutant of the
model, a plausible bug in the code, under which the property fails.  A run
whose name is followed by **violates** shows a bug: what it prints is a
behaviour of the code that a comment or an option's text denies.

### WPP scheduler

| Run | Bounds | Shows |
|---|---|---|
| `wpp_extra` | 8 x 5 CTUs, 3 threads, 1 extra line, 2 pictures | order of the wavefront, contexts of this picture, exact counting, no slot lost or left idle, every picture ends, the refinement of `Wavefront` |
| `wpp_serial_extra` | 6 x 2 CTUs, 1 thread, 1 extra line | **violates** `PicturesComplete` |

Eight columns let the lead of four CTUs, and the quarter of the row, which
`setReady` asks for before it passes the slot down, come out both ways.  Five
rows with four data instances give a worker a second row.  A second picture is
what shows contexts that are left over.

`WorkConserving` and `GrantReachesWorker` hold only if every step of `setReady`
chooses the right row; they are what a test on a fast machine does not see.

With `ExtraLines = 0` the model is of the build in which rows wait for the row
above only; its properties are in the theorems.  Picture of one CTU column and
no extra lines: `DependenciesMet` fails (`W = 1`, `ExtraLines = 0`): `wait`
asks for the CTU above and to the right, and in the last column for nothing at
all (`Picture.cpp:343`), so that rows are not ordered.  The theorems exclude it
by `Wide`.

### Decoder

| Run | Streams | Shows |
|---|---|---|
| `dec_closed` | up to 3 segments of 13 kinds, from an IDR picture, and the encoder's bitstreams of 3 and 18 frames; buffer 5, reorder 2, POC of 4 bits | no check fails and no reference is lost, POCs and references are right, pictures are whole, bumping keeps the number waiting down, the buffer stays bounded, each picture is shown once, of the encoder's frames none is missing, output implements `OutputOrder` |
| `dec_random_access` | up to 5 segments of 6 kinds, from an IDR, CRA or BLA picture, with ends of sequence; buffer 4, POC of 3 bits | with POCs that wrap and leading pictures that cannot be decoded: POCs are right; in the bitstreams of `InPictures` what can be shown is shown (`AllWrittenInPictures`), in those that are of `InSequences` too the references are right (`RefsRightInSequences`) |
| `dec_lossy` | up to 3 segments of 8 kinds, one slice lost, reserved NAL units, SEI; buffer 3 | the loop ends and touches no picture that is gone |
| `dec_leading` | CRA picture with a RADL picture at the start | **violates** `WholePictures` |

Three segments are enough to have a picture before, during and after an access
point, with its leading pictures and two slices; five let a sequence that is
entered at a CRA or BLA picture go on, end, and be followed by another one whose
references have POCs that pictures of the first one have as well.  A CRA
picture at the start has POC 6 (`StartPoc = 3`), its leading pictures 4 and 5, and its
reference 3, which is not there.  Of the 3261 bitstreams of
`dec_random_access` 1077 begin with a CRA picture; 1700 are of `InPictures`, 284 of
these from a CRA picture; 1646 are of `InSequences` as well, and in 997 of them a
slice refers to a POC that a picture of an earlier sequence has.  The segments
`GOP4`, `HIER` and `ANCH` have as many pictures as the buffer holds, so that
it is full and the choice of a buffer and the marks matter.  POCs of 3
bits wrap upwards in `dec_random_access`; in `dec_closed` a leading picture at
POC -1 wraps downwards.  The encoder's GOP structures have four pictures: three
temporal layers, one layer, and a layer that is joined step by step; with
intra periods of one GOP, two and none, the three kinds of access points and
both settings of `EfficientFieldIRAPEnabled`.  18 frames are four GOPs and a
part of one, more than its list of 11 pictures holds, and wrap the POC; 3 are
less than a GOP.  All types
the encoder can write occur but `STSA_R`.  How POCs are coded is a definition,
`WellCoded`, and every run evaluates it for all its bitstreams
(`StreamsWellCoded`): POC 0 at an IDR picture, the POC in full where the
decoding starts, else its low bits, at a distance of at most half their range
from the last picture of temporal layer 0.

How they are cut into pictures is another one, `InPictures`, which
`StreamsInPictures` evaluates for `dec_closed`: a slice that is not the first of
its picture follows one of the same picture, and behind the POC of a CRA or BLA
picture that starts the decoding only RASL pictures go back.

How the sequences are told apart is a third, `InSequences`: a slice names by
its POC the picture of its own sequence that it means, and every sequence but
the first begins with an IDR or a BLA picture, before which the list of pictures
is emptied.  `StreamsInSequences` evaluates it, with losses as well, for the
runs whose sequences may begin with these only: `dec_closed` and `dec_lossy`.
`dec_random_access` has bitstreams outside both definitions, and two of its
properties name the ones they speak of.  On the others `AllWritten` and
`RefsRight` do fail, as the list below says: an IDR picture after the CRA or BLA
picture of higher POC that the decoding started with takes in the pictures after
it (`InPictures`), and a CRA picture after an end of sequence may find pictures of
the sequence before (`InSequences`).

A slice lost leaves a reference missing, and `xCreateLostPicture` makes a
picture up, but does not give it the POC (`DecLib.cpp:716` sets that of its
slice), so the loop around it does not find it and takes the next buffer.  It ends
because the picture made up is marked, and so not taken twice: the buffers that
may be reused are used up, and then a new picture, which has no slices, fails a
CHECK.  With a buffer of 3, the segment `P4` after a loss brings the loop to reuse a
buffer; without the marks it would go on for ever, which is the mutant of
`Terminates`.

The passing runs leave out some bitstreams, and the model shows what they do
when a constant is changed:

* a CRA picture with a RADL picture at the start: the run `dec_leading`;
* an IDR picture after the CRA picture of higher POC that started the decoding
  (`Kinds = {"CRAX", "IDR", "P2"}`, `StartPoc = 5` in a run like
  `dec_leading`): the same line, `DecLib.cpp:1091`, adds the slices after the IDR picture
  to the IDR picture, since `pocRandomAccess` is that of the CRA picture until
  the sequence ends (`WholePictures`);
* `LoneEnds = TRUE` in `dec_closed`: a sequence of one picture that ends the
  stream is not shown (`AllWritten`, which `EveryFrameShown` includes);
* a CRA picture of low POC after an end of sequence, with reorder 0: it is
  bumped too late (`BumpedEnough`);
* a CRA picture after an end of sequence does not empty the list, and
  `xGetRefPic` (`Slice.cpp:302`) compares POCs only, not the marks: with a buffer
  of 8 pictures, in `IDR GOP4 B EOS CRAX B` a picture of the second sequence takes
  the picture of POC 0 of the first one as its reference (`RefsRight`).  Two
  pictures of equal POC also change places whenever the list is sorted
  (`Slice.cpp:279`);
* after an end of sequence, `checkLeadingPictureRestrictions` compares with
  pictures of the sequence before, too: CRA pictures of POC 2, 4 and 6, an end of
  sequence, and CRA pictures of POC 0 and 2 fail a check (`NoError`);
* `LowCras = TRUE`: a CRA picture that starts a sequence and names references
  below POC 0 fails `checkCRA` (`NoError`);
* `RSV` after `SEI` in a run that checks `NoError`: for a reserved VCL NAL
  unit the front of the SEI queue is deleted and not removed
  (`DecLib.cpp:911`), so that it is deleted twice;
* `Losses = 1` with `NoError`: a lost reference of the first slice of a
  picture always ends in an exception, as the concealment comes to a new picture
  and its slice 0, which a new picture does not have;
* an IDR picture with `no_output_of_prior_pics_flag` keeps an older IDR
  picture: it has the same POC 0, which is how the picture that is not to be
  dropped is recognised (`DecLib.cpp:662`);
* `SkipFrames` counts slices, not pictures.

### Parameter sets

| Run | Bounds | Shows |
|---|---|---|
| `ps_sequences` | 2 SPS ids with 2 sizes, 2 PPS ids, 3 objects of a kind, 3 pictures; sets change once before an IDR picture | each set is owned once, the maps hold what was last sent, no deleted set is read, slices are decoded with the sets they name, pcv fits, the decoder gives up only when a set did change |
| `ps_repeat` | a changed PPS sent twice before a picture | **violates** `NoFault` |

Three objects of a kind are a set, its change, and a repetition of either;
three pictures are one held, one open and the next.  Other reachable
behaviour: an SPS of another size with an unchanged PPS (`SpsNals <-
TwoSizes`, `PpsFollowsSps = FALSE`) leaves the PPS with the pcv of the old
size (`PcvRight`); a PPS that changes before a `TRAIL` picture (`PpsChangeAt =
{"IDR", "TRAIL"}`, `SpsNals <- OneSps`) leaves pictures of the list with a
pointer to a PPS that a later change deletes, and `xGetNewPicBuffer`
(`DecLib.cpp:505`) reads its pcv (`NoFault`); an SPS that changes before a CRA
picture after an end of sequence (`SpsNals <- OneSpsOneSize`, changes at
`{"IDR", "CRA"}`) reuses a buffer whose CodingStructure keeps the old SPS
(`Picture.cpp:894`, `SlicesRight`).

### Syntax

| Run | Bounds | Shows |
|---|---|---|
| `syntax` | twelve kinds of units; blocks from 2x4 to 8x8, six levels, five vector differences, all intra modes, pictures of up to four CTUs, POCs of 4 bits; parameter sets with CTUs of 16 to 128, one or three layers, each tool off and on among none and among all | `InStep`: the reader asks for every bin with its context and for no other; `RoundTrip`: it recovers the unit; `ContextsInSets`: no context offset leaves its set |

Blocks of one, two and four coefficient groups of 4x4 and groups of 2x2 and
their last positions; levels on both sides of every threshold of the code (0,
1, 2, 4, the escape of the remainder, the largest level); vector differences
that are multiples of each precision and differences that are not.  Each
family of units varies one part of the syntax with all conditions it depends
on, and leaves the rest plain: the parts of a unit meet only through the
conditions, and a condition's operands are in one family.

Behaviour seen when a constant is changed:

* `AlfSlices = {1, 2}`: with two slices in a picture the second resizes the
  ALF flags of all CTUs (`DecSlice.cpp:117`), and the first slice's are lost
  (`RoundTrip`).
* `Extended = {TRUE}` (extended precision): the writer counts its limited
  prefix from `COEF_REMAIN_BIN_REDUCTION` (`BinEncoder.cpp:230`) and the
  reader from zero (`BinDecoder.cpp:221`) (`InStep`).
* `SubPuAddresses = {0, 2}`: the reader takes
  `slice_atmvp_subblk_size_enable_flag` only from the first slice of a picture
  (`VLCReader.cpp:1943`), the writer sends it with every inter slice
  (`VLCWriter.cpp:1450`) (`InStep`).

Observed on the way, outside the inputs the run enumerates: the distance of
long-term pictures' high POC bits is sent in full where the low bits differ
(`VLCWriter.cpp:1174`) and accumulated by the reader
(`VLCReader.cpp:1575`), which needs two long-term pictures and this encoder
has at most one; low bits of a long-term POC come from the full POC at one
place and from the POC since the last IDR picture at the other
(`EncLib.cpp:1782`, `VLCWriter.cpp:1075`); with dependent quantisation on, the
reader leaves `signDataHidingEnabledFlag` as an earlier slice had it
(`VLCReader.cpp:1817`).

### Coding tree

| Run | Bounds | Shows |
|---|---|---|
| `coding_tree` | CTUs of 64 and 128 inside the picture and at its right and lower borders, one tree and two, large CTUs, QP groups with QPs at the ends of their range and with both rules of prediction; up to 4 splits chosen by the search | `DepthsAgree`: the three walks have the same depths; `UnitsTile`: the units tile what lies in the picture; `UnitsRead`, `QpsRight`: the reader has the encoder's units and QPs; `EndFound`: it finds the end of the slice where the writer put it |
| `coding_tree_dqp` | QP groups of 64 in a CTU of 128 | **violates** `QpsRight` |

Minimum sizes are large, to keep trees small; borders force splits that do not
count against the bound.  With QP groups below the CTU, the passing run
would fail as `coding_tree_dqp` does, so its groups are CTUs.

### Bit stream

| Run | Bounds | Shows |
|---|---|---|
| `bit_stream` | up to 3 symbols of 18 after one of 4 openings, 3 contexts; all payloads of up to 5 bytes of {0, 1, 3, 128}, alone and with other units, up to 2 zero words | `BinsDecoded`: the decoder returns each symbol and ends where the encoder stopped; `UnitsFramed`: each NAL unit comes out of the file as it went in, also after it was given back; `NoStartCodeInside`: no unit holds a start code |

The openings bring the coder to where a carry runs through held bytes 0xff, or
may still; the four bytes are what framing tells apart.

## 4. Fairness

* `WppScheduler`: weak fairness of each row's thread (`Thread(y)`) and of
  `NextPicture`.  Threads run under the operating system's scheduler, and the
  condition variables are notified after each change of the value waited for;
  `NextPicture` is the main thread going on after the barrier.  Fairness of
  each row, not of `Next`, is what is assumed: no row is favoured.
* `Decoder`: weak fairness of `Next`.  The loop is one thread that goes on
  while it can.
* The other modules have no liveness property and no fairness: each ends after a
  bounded number of steps, or is a system the environment drives.

## 5. Proofs

### WppSchedulerProof

For all widths, heights, numbers of threads and extra lines and of pictures
(`WppAssumption`), under `Wide == W > 1 \/ Extra`:

| Theorem | States |
|---|---|
| `TypeCorrect` | `TypeOK`; with extra lines never more than `NumThreads` slots |
| `Dependencies` | `DependenciesMet` |
| `Fresh` | `ContextsFresh` |
| `Counting` | `RunningExact` |
| `Implementation` | every behaviour is one of `Wavefront` |
| `Conserving` | `WorkConserving`; needs no `Wide` |
| `Reaching` | `GrantReachesWorker`, for more than one thread |

The inductive invariant `IInv` is `TypeOK` with

* `Order`: a row that holds a CTU has its neighbours, and a row that has begun
  stays at least one CTU behind the row above until that one is finished;
* `Contexts`: a row past its second CTU has saved contexts of this picture;
* with extra lines `GrantState`: `lineDone` and `sync` follow the rows, a row
  granted may run *now*, and `running` counts the granted rows.
  `DependenciesMet` alone is not inductive: a grant is given in one step and
  used in another, and the second needs to know what the first had checked;
* without extra lines `ReportState`: `sync` is the last CTU reported.

`GrantGives` and `GrantInv` carry the case of `setReady`; cardinalities come
from the library's `FiniteSetTheorems`.  `StepImplements` maps each step to a
step of `Wavefront` or a stutter.

`WorkConserving` is not kept because it held before: `GrantConserves` shows that
one call of `setReady` establishes it from any state in which a slot is taken,
and the other steps do not touch what it reads.  `Reaching` adds `Window` to
`IInv`: the rows above `m_firstNonFinishedLine` are the finished ones, and no
row is granted `D` or more rows below it.  That is the distance at which the
parallel loop has one worker per row, so the worker of a granted row is free.
With one thread the window is wider than the one worker, which is the
counterexample of `wpp_serial_extra`, and why `NumThreads > 1` is assumed.

### ParameterSetsProof

For all sets of ids and NAL units and all bounds
(`ParameterSetsAssumption`), and so for every bitstream the environment allows
with or without its restrictions:

| Theorem | States |
|---|---|
| `TypeCorrect` | `TypeOK`, with at most one picture open |
| `Ownership` | `Owned`: each live set has one owner in the maps, and none that is deleted |
| `LatestHeld` | `Latest`: the maps hold for each id what was last sent |

`IInv` is `TypeOK /\ Owned /\ Latest /\ Waits`.  `Waits` says that a slice put
back to be read again finds its sets and no picture is open: without it
`TakePicture` could look up an id that is not there, and neither `TypeOK` nor
`Latest` would be kept.  `Owned` is inductive only together with the numbering
of objects: the lemmas `AllocateOK`, `ReplaceOK` and `StoreOK` say what the
three ways of `storePS` do to one map, for any map, and both the SPS and the
PPS step cite them.

### ActivationProof

What the decoder does with the sets it holds is right only for bitstreams that
keep to a discipline, which the standard asks for and no code checks.
`ChangesAtIdr` states it: a set changes at most once between two pictures
(`MaxUpdates <= 1`), and only before an IDR picture.  For these bitstreams, and
again for all sets of ids, NAL units, pictures and all bounds:

| Theorem | States |
|---|---|
| `Activated` | `AInv`, the inductive invariant |
| `NoneReadAfterDelete` | `NoFault`: no picture reads a set that was deleted |
| `SlicesDecodedRight` | `SlicesRight`: slices are decoded with the sets they name |
| `ExitsJustified` | `ExitJustified`: the decoder gives up within a picture only if a set of it did change |
| `PcvOfSps` | `PcvRight`: pcv of the open picture is that of its SPS; needs `PpsFollowsSps` as well |

`ps_sequences` is an instance of these hypotheses.  None can be dropped:
`ps_repeat` breaks the first half of `ChangesAtIdr`, and the "other reachable
behaviour" of section 3 the second half, once for the PPS and once for the SPS,
and `PpsFollowsSps`.

`AInv` says for each picture which object it points to.  The clauses need each
other:

* `LastSets`: the active ids are those of the last picture's slices, and the
  bitstream still has their contents as long as it sent no change.
* `SpsOfList`: *all* pictures of the list have the SPS of the last picture.  If
  that has not changed it is the stored one, otherwise the map keeps it as its
  last active set.  This holds because a picture with another SPS than the one
  before is an IDR picture, and the list is flushed before it.
* `PpsOfList`: a picture of the list has a stored PPS as long as that PPS was
  not sent again; after that it may dangle, and nothing reads it, because the
  next picture flushes the list.  This is where a change before a `TRAIL`
  picture would break `NoFault`.
* `PpsOfOpen`: the PPS of the open picture outlives its change, since the map
  keeps the last active set.  A second change would delete it.
* `NoChangeWaits`: a slice put back to be read again, unless it is of an IDR
  picture, has seen no change of a PPS, and has the SPS of the pictures of the
  list, or is not decoded.
* `Numbered`: a map holds each set under its own id.

`StoreDoes` says once, for any map, what `storePS` changes and what it leaves;
`TakeDoes` what activating two sets does.  `PInv` adds that a PPS which has a
pcv has that of the SPS it names (`PcvFits`): pcv is computed at the first
activation and never again (`DecLib.cpp:738`), so a PPS that survives a change
of its SPS would keep the old one.

### FoldInduction, PictureListProof

The list is sorted, written out and flushed by loops over it, which are folds
in the model.  The library's induction theorems take a predicate as their
parameter, which the provers cannot instantiate.  `FoldInduction` has the
operator of the fold and the predicate as its *constants* instead: its lemma `FoldKeeps`
says that what the base has for the empty sequence, and one element more
preserves, `FoldLeft` has for every sequence.  It rests on the definition of
`FoldLeft` in the community modules (the function that it chooses exists and is
unique) and on the well-foundedness of the naturals.  `PictureListProof`
instantiates it for `InsertPicture`, `WriteOne` and `FlushOne`.  Its theorem
`SortPicListSorts` says of `sortPicList`, for any list of pictures, that the list
it leaves is in the order of the POCs, whatever POCs repeat, and that it neither
loses nor doubles a picture: the loops that write frames go along the list and
rely on that for the output order.  Writing keeps the pictures in the list.  The
other lemmas say the same of `ApplyRps` and `DropPriorPics`, and that
`GetNewPicBuffer` gives out the one picture that may have no slice.

### DecoderProof

For every set of bitstreams of any length, whole or not, and all bounds
(`DecoderAssumption`, `PictureListAssumption`: the bitstreams are non-empty
sequences of NAL units, a picture is kept for reordering only if the buffer has
room for it):

| Theorem | States |
|---|---|
| `TypeCorrect` | `TypeOK` |
| `CurrentPictureHeld` | `PictureOpen`: where the code goes through `m_pcPic`, that picture is in the list |

The invariant `DInv` is `Types /\ ReadAgain /\ Held`.

* `Types` has, beyond `TypeOK`, that every picture of the list has a slice:
  `finishPicture`, the output and the checks on leading pictures look at slice
  0 of each.
* `Held` says when the current picture may be missing from the list: before
  the first picture of a sequence, after the last NAL unit, and between the flush
  before a new picture and its start.  `xFlushOutput` deletes all pictures, the
  current one too, and `m_pcPic` keeps pointing to it.  That is harmless only
  because the slice at hand is then the first of a picture.
* `ReadAgain` is why it is: a slice that announced a new picture is read a
  second time, will not be skipped then, and `m_bFirstSliceInPicture` is set as
  soon as the picture before it is finished.  The second reading goes through
  members that the first one changed (`prevTid0POC`, `pocRandomAccess`, the
  RASL flag); the lemmas `SlicePocAgain` and `SkippedAgain` show that it comes to
  the same decision.

### PocProof

| Theorem | States | Assumes |
|---|---|---|
| `PocsDerived` | `PocRight`: the POC of every slice is the one it was coded with | `WellCoded` for each bitstream, `NoneLost` throughout, `SkipFrames = 0` |
| `PicturesWhole` | `WholePictures`: a picture holds the slices of one coded picture, its first slice first | the same, and `InPictures` for the bitstream at hand |
| `ReferencesRight` | `RefsRightInSequences`: a slice was decoded with the pictures that the encoder referred to, in the bitstreams of `InPictures` and `InSequences` | the first three, as long as no CHECK fails |

`PocsDerived` holds for any number of low bits, so for POCs that wrap as often as they
like.  The hypotheses are where the code depends on its environment, and
each is checked by a run, or shown to be needed:

* `WellCoded` is what the standard demands of an encoder; TLC evaluates it for
  the bitstreams of all four runs, those of the modelled encoder included;
* `NoneLost`, no reference reported lost, is a part of `NoError`, which
  `dec_closed` checks.  The concealment of a lost picture goes back to the
  loop with an exception or another state of the members;
* with `SkipFrames > 0` slices are dropped before the POC memory is updated.

`PocInv` relates the members to the part of the bitstream that has been read:
`Anchored` (`prevTid0POC` is the POC of the last picture of temporal layer 0),
`Accessed` and `Sequenced` (`pocRandomAccess` and `m_bFirstSliceInSequence` are
those of a sequence that has or has not come to its first random access
point), `Flagged` (the RASL flag is left over from the first reading of a slice
only) and `Derived`.  "Has been read" moves on at the *first* reading of a
slice, so that at the second one `prevTid0POC` may already be its own POC:
`Derived` says that the POC comes out the same.  `PocFound` is the arithmetic:
of all numbers with given low bits, one is within half of their range of the
anchor, and the three cases of `parseSliceHeader` find it.

`PicturesWhole` is about every bitstream of `InPictures`, with losses as long
as the rest is one, and with whatever is skipped.  The loop learns only from
the slice of the next picture that one is over, and `xDecodeSlice` decides by
five members: `m_bFirstSliceInPicture`, `m_prevPOC`, `m_pocRandomAccess`,
`m_associatedIRAPType` and `m_pocCRA`.  `Whole` relates them to the bitstream:

* `LastTaken`: the last slice of the sequence was skipped, and would be
  skipped again by what the members hold now, or its picture is the one that
  is open.  So a slice that continues it is skipped as well or goes to the same
  picture: the decisions on the slices of one picture agree although each is
  made anew.  After an end of sequence there is no such slice, which is where
  `xWriteOutput` and `finishPicture` set the flag at different moments;
* `AfterAccess` and `AccessAt`: the random-access POC is `MAX_INT`, `-MAX_INT` or
  that of the access point the sequence starts with, and `m_prevPOC` is not below
  it, so that the test of line 1091 lets a new picture be found.  This is the
  clause that `dec_leading` breaks and that `InPictures` is needed for;
* `FirstAgain`: what is read twice is the first slice of a picture;
* `Ready`: a slice on its way to be decoded is a first slice if and only if no
  picture is open, and else belongs to the open one.

TLC checked `Whole` on the bitstreams of the runs before it was proved.

`ReferencesRight` is about the bitstreams that are, besides, of `InSequences`.
`xGetRefPic` returns the first picture of the list with the POC asked for, so
the theorem says that the list never holds a picture of an earlier sequence when
a slice looks for its references, although pictures of that sequence stay there until
they are written.  The invariant `Listed` follows the list:

* `AllCoded`: each picture of the list comes from a NAL unit with its POC and
  frame, and the list has not been emptied since.  `EmptiedFor` says up to which
  NAL unit: an IDR or BLA picture that has been noticed, at the first reading of its slice,
  is still to empty the list;
* `NoneListed` and `ListSet`: that flush does take place.  The application
  flushes when a new picture has been *found* and `pcListPic` is set; a slice
  that finds no picture open goes to the decoding at once, and so must find no
  list: before the first picture and after an end of sequence, where
  `m_bFirstSliceInPicture` is set on another path.  `pcListPic` is set where a
  picture is finished, so it is when the next one is found;
* `OwnRefs`: the reference picture set of the slice decoded is that of the NAL unit at hand,
  not one left over from the slice before;
* `AllNamed`: what was found for each slice in the list is what it named.

From `AllCoded` and `InSequences`, a picture of the list with the POC that a
reference names is the frame meant.  `NoError` stays a hypothesis: a failed
CHECK leaves the list as it was in the middle of a step.  `InSequences` cannot
be dropped: section 3 has the bitstream with a CRA picture after an end of
sequence.  The clauses of `Listed` too were checked by TLC on the runs'
bitstreams before they were proved.

### BitstreamFileProof

For every model of the contexts, every sequence of symbols that
`BitstreamFileAssumption` lets the encoder be asked for (bins with and without a
context, groups of up to 32 bins, terminating bins, PCM samples of up to 16
bits), every choice of units around the slice and every payload that ends with a
stop bit:

| Theorem | States |
|---|---|
| `UnitsComeBack` | `UnitsFramed`: every unit comes out of the file as it went in, in order, also when it is given back and read again, and none is missing at the end |
| `NoStartCodes` | `NoStartCodeInside`: no start code inside a unit, no reserved pattern but where the writer put it in, no zero at its end |

The argument has four parts.

* *Along a payload.*  `ReadAs(s, out, z)` says that the bytes `s` of a unit are read
  as `out`, hold no start code (`NoCode`) and end with `z` zeros; `PreventedOK` is the
  induction along the payload: the writer's count of zeros is that number, so
  the reader takes out exactly what the writer has put in.  The rewriting of the
  writer's counter after the byte (`NALwrite.cpp:99`) is the case on which the
  induction turns.  `PaddingOK` continues with the zero words behind a slice,
  which the reader takes off again up to the stop bit, and `UnitOK` is the
  whole unit.
* *Along the file.*  `Layout` places the units one after another; `FileOK` is the
  induction along `writeAnnexB`.  `UnitRead` shows that `_byteStreamNALUnit` stops at a
  unit's border: not sooner, since two zeros and a byte up to two neither lie
  inside a unit nor begin with its last byte, and not later, with start codes
  of three and of four bytes and at the end of the file.  `NextUnit` says where
  the look-ahead has reached, also from the byte behind the first zero of a long
  start code, which is where DecApp's seek by three bytes leads.
* *The encoder.*  A slice's payload must be bytes and end with a stop bit.
  `Encoder` is the invariant of the registers: 12 to 23 in `m_bitsLeft`, so that
  `finish` has bits to write, the range from 256 to 510, bytes in the bitstream
  and less than one byte held.  `Renormalised` shows that the table of shifts
  brings the range back without using up the bits; `EncodeOK` has a case for each
  kind of symbol; `AlignmentOK` shows that the stop bit ends in a byte
  of its own or with others, which is not zero.
* *The invariant.*  `FramingInv`: the encoder is one, the access unit consists of
  units, the file is laid out as they are, what has been read are the first of
  them, and the stream stands where the next begins or behind the first zero of
  its start code; so does the place to which a unit would be given back, one unit
  earlier.  `FramingStep` has a case for each action.

What the decoder makes of the bytes of the slice (`BinsDecoded`) is not
among the theorems: it needs the relation of the two coders' intervals along
the whole slice, with the bytes that are held back.

### Model-checked only

Liveness (`PicturesComplete`, `Terminates`), which the prover cannot treat; of
`Decoder` what depends on how many pictures a bitstream refers to and reorders
(`NoError`, `BumpedEnough`, `BufferBound`, `AllWrittenInPictures`, the output order); of
`DecoderStreams` what is composed with the encoder, whose check of the GOP list
is a recursion; of `BitstreamFile`, `BinsDecoded`; and all properties of the
syntax and the coding tree.  That a reader inverts a writer for inputs of every length is an
induction over the bins, through operators that are recursive; on the inputs of
the runs TLC evaluates it.

## 6. What is not modelled

* Of the decoder: sample data and loop filters, field coding, long-term
  references, the temporal-layer filter, `HandleCraAsBla`, the pending RASL
  initialisation, decoding with a checksum.  Parameter sets are in a model of
  their own; `Decoder` has one constant sequence parameter set.
* Of the parameter sets: the VPS map (another copy of the same class, off in
  this build), `allocatePS`, `setChangedFlag` and `getFirstPS`, which the
  decoder does not call.  Of their syntax: the range extension of an SPS, which
  the profile NEXT does not have, and what is compiled out (VPS, tiles, scaling
  lists).
* Of the scheduler: the coding inside a CTU, byte- and CTU-limited slices,
  which WPP does not allow (`EncSlice.cpp:1542`), and rate control.
* Of the syntax: dual-tree chroma units of slices with current-picture
  referencing, `align`, which this build does not call, and SEI messages.
* Of the slice header: more than one long-term picture, the high bits of its
  POC, long-term pictures in the SPS, list modification, sets predicted with
  given `idc`s in the configuration, field coding, composite references, header
  extensions and extra bits, windows of the probability model.  This encoder
  never sends the first three, and has no BLA pictures.
* Of the coding tree: the quad-tree partitioner with its residual tree, which
  is for the HEVC tools (off in this build), and what a unit holds: that is
  `SyntaxCoding`'s.
* Of the bit stream: the initial states of the contexts, the other probability
  models, bit estimation, entry points (one substream), layer and temporal
  ids.
* Split-parallel search: which buffers a job writes is spread over some twenty
  classes, and the hazard is only whether two jobs share one.
* Of encoder control: field coding, composite references, current picture
  referencing, recovery points, GOPs of one picture, sets predicted as a
  configuration gives it, SEI messages, the choice of QPs and lambdas.
* Arithmetic on samples (prediction, transform, quantisation, filters), and
  heuristics (mode decision, motion search, rate control): any choice of the
  search is a legal one, and the arithmetic has no state to explore.
* parcat and the SEI removal application, option parsing, files, checksums,
  tracing, tables and SIMD code.

Hazards seen in the code that no property covers: rate control's counters,
updated by all rows without a lock (`EncSlice.cpp:1893`); rows that wait for
ever after a byte-limited slice (`EncSlice.cpp:1831`, which a check excludes);
jobs of the split-parallel search with a common id (`EncCu.cpp:939`); a POC
equal to the random-access picture's (`DecLib.cpp:662`, above); the pcv of a
PPS read through a picture (`DecLib.cpp:505`, above); fixed bit
positions of the slice header in parcat (`parcat.cpp:339`, `parcat.cpp:346`).

The components of `PROJECT.json` give the reason for each.

## 7. Plan

1. SEI messages as another kind of `SyntaxCoding`, those that the decoder
   compares (the picture hash) first.
2. `SplitJobs`: the jobs of a block, their ids (theorem: no two running jobs
   share one), the merging of caches; to be composed with the WPP threads' ids.
3. `Parcat`: POCs of the joined stream increase.

Theorems to add: that pictures waiting for their output stand in the list in
the order of their POCs, and `BufferBound`;
for `Partitioner`, that `exitCurrSplit` undoes `splitCurrArea`; for
`BinEncoder`, that no number it hands to `OutputBitstream::write` is too large
for its bits (the first conjunct of `BinsDecoded`).
