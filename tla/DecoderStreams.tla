--------------------------- MODULE DecoderStreams ---------------------------
(***************************************************************************)
(* Bitstreams for the decoding loop.  A bitstream is a row of segments, a  *)
(* segment the NAL units of one access point, picture or small GOP, as an  *)
(* encoder writes them; POCs count on from one segment to the next and     *)
(* start again with a coded video sequence.                                *)
(***************************************************************************)
EXTENDS Decoder

CONSTANTS Starters,     \* the segments that may start a sequence
          Kinds,        \* all segments in use
          MaxSegments,  \* bound: segments of a bitstream
          StartPoc,     \* POC where a random access point is cut out
          Losses,       \* NAL units lost from a bitstream: 0 or 1
          LoneEnds,     \* may a last sequence after an EOS be one picture
          LowCras,      \* may a CRA picture that starts a sequence name
                        \* references below POC 0
          EncoderFrames \* frames of the videos the modelled encoder codes;
                        \* the empty set for none of its bitstreams

\* A coded picture at POC delta d from the segment's start; refs are its
\* references as <<delta, used>>, n is the number of its slices.
Pic(nut, d, refs, n) ==
  [nut |-> nut, d |-> d, refs |-> refs, n |-> n, tid |-> 0, noPrior |-> FALSE]
U(d) == <<d, TRUE>>
K(d) == <<d, FALSE>>

Segment(kind) ==
  CASE kind = "IDR"   -> <<Pic("IDR_N_LP", 0, <<>>, 1)>>
    [] kind = "IDR2"  -> <<Pic("IDR_N_LP", 0, <<>>, 2)>>
    [] kind = "IDRN"  -> <<[Pic("IDR_N_LP", 0, <<>>, 1) EXCEPT !.noPrior = TRUE]>>
    [] kind = "IDRL"  -> <<Pic("IDR_W_RADL", 0, <<>>, 1),
                           Pic("RADL_N", -1, <<U(1)>>, 1)>>
    [] kind = "P"     -> <<Pic("TRAIL_R", 1, <<U(-1)>>, 1)>>
    [] kind = "P2"    -> <<Pic("TRAIL_R", 1, <<U(-1)>>, 2)>>
    [] kind = "P4"    -> [i \in 1 .. 4 |-> Pic("TRAIL_R", i, <<U(-1)>>, 1)]
    [] kind = "T2"    -> <<Pic("TRAIL_R", 2, <<U(-2)>>, 1),
                           [Pic("TRAIL_R", 1, <<U(-1), U(1)>>, 1) EXCEPT !.tid = 1]>>
    [] kind = "B"     -> <<Pic("TRAIL_R", 2, <<U(-2)>>, 1),
                           Pic("TRAIL_N", 1, <<U(-1), U(1)>>, 1)>>
    [] kind = "GOP4"  -> <<Pic("TRAIL_R", 4, <<U(-4)>>, 1),
                           Pic("TRAIL_R", 2, <<U(-2), U(2)>>, 1),
                           Pic("TRAIL_N", 1, <<U(-1), U(1), K(3)>>, 1),
                           Pic("TRAIL_N", 3, <<U(-1), U(1)>>, 1)>>
    [] kind = "HIER"  -> <<Pic("TRAIL_R", 4, <<U(-4)>>, 1),
                           Pic("TRAIL_N", 3, <<U(-3), U(1)>>, 1),
                           Pic("TRAIL_R", 1, <<U(-1), U(3)>>, 1),
                           Pic("TRAIL_R", 2, <<U(-1), U(-2), U(2)>>, 1)>>
    [] kind = "ANCH"  -> <<Pic("TRAIL_R", 1, <<U(-1)>>, 1),
                           Pic("TRAIL_R", 2, <<U(-1), K(-2)>>, 1),
                           Pic("TRAIL_R", 3, <<U(-1), K(-3)>>, 1),
                           Pic("TRAIL_R", 4, <<U(-1), K(-4)>>, 1),
                           Pic("TRAIL_R", 5, <<U(-1), U(-5)>>, 1)>>
    [] kind = "CRA"   -> <<Pic("CRA", 2, <<K(-2)>>, 1),
                           Pic("RASL_N", 1, <<U(-1), U(1)>>, 1)>>
    [] kind = "CRA2"  -> <<Pic("CRA", 3, <<K(-3)>>, 2),
                           Pic("RASL_R", 2, <<U(-2), U(1)>>, 1),
                           Pic("RASL_N", 1, <<U(-1), K(1), U(2)>>, 1)>>
    [] kind = "CRAL"  -> <<Pic("CRA", 3, <<K(-3)>>, 1),
                           Pic("RASL_N", 1, <<U(-1), U(2)>>, 1),
                           Pic("RADL_N", 2, <<U(1)>>, 1)>>
    [] kind = "CRAX"  -> <<Pic("CRA", 2, <<>>, 1)>>
    [] kind = "CRAD"  -> <<Pic("CRA", 2, <<>>, 1),
                           Pic("RADL_N", 1, <<U(1)>>, 1)>>
    [] kind = "BLA"   -> <<Pic("BLA_W_LP", 2, <<>>, 1),
                           Pic("RASL_N", 1, <<U(-1), U(1)>>, 1)>>
    [] kind = "BLAN"  -> <<Pic("BLA_N_LP", 2, <<>>, 1)>>
    [] kind = "SEI"   -> <<Pic("PREFIX_SEI", 0, <<>>, 1)>>
    [] kind = "RSV"   -> <<Pic("RESERVED_VCL", 0, <<>>, 1)>>
    [] kind = "AUD"   -> <<Pic("NON_VCL", 0, <<>>, 1)>>
    [] kind = "EOS"   -> <<Pic("EOS", 0, <<>>, 1)>>

\* The state of the writer: the NAL units so far, the POC of the last
\* picture in output order, the sequence, and whether a CRA would start one.
Empty == [nals |-> <<>>, base |-> StartPoc, cvs |-> 0, frames |-> 0,
          cut |-> TRUE]

\* The frame with that POC in the current sequence, 0 when there is none.
FrameAt(w, poc) ==
  LET k == SelectLastInSeq(w.nals, LAMBDA n :
             n.nut \in SliceTypes /\ n.cvs = w.cvs /\ n.poc = poc)
  IN  IF k = 0 THEN 0 ELSE w.nals[k].frame

\* A picture is written: the slices, each with what its header carries, and
\* with the POC and frames that the encoder has in mind.
AddPicture(w, p, start) ==
  LET poc == start + p.d
      f   == IF p.nut \in SliceTypes THEN w.frames + 1 ELSE w.frames
      nal(j) ==
        [nut |-> p.nut, lsb |-> poc % MaxPocLsb, tid |-> p.tid, first |-> j = 1,
         refs |-> [i \in DOMAIN p.refs |->
                     [delta |-> p.refs[i][1], used |-> p.refs[i][2],
                      frame |-> FrameAt(w, poc + p.refs[i][1])]],
         out |-> TRUE, noPrior |-> p.noPrior,
         poc |-> poc, frame |-> f, cvs |-> w.cvs]
  IN  [w EXCEPT !.nals = @ \o [j \in 1 .. p.n |-> nal(j)], !.frames = f]

\* Where the POCs of a segment start, given its first picture.
Start(w, p) ==
  IF p.nut \in IdrTypes THEN 0
  ELSE IF p.nut \in BlaTypes \/ (p.nut = "CRA" /\ w.cut)
       THEN ((w.base + p.d) % MaxPocLsb) - p.d
       ELSE w.base

AddSegment(w, kind) ==
  LET s   == Segment(kind)
      new == s[1].nut \in IdrTypes \cup BlaTypes \/ (s[1].nut = "CRA" /\ w.cut)
      at  == Start(w, s[1])
      v   == [w EXCEPT !.cvs = IF new THEN @ + 1 ELSE @,
                       !.cut = kind = "EOS" \/ (@ /\ s[1].nut \notin SliceTypes)]
      end == CHOOSE d \in {s[i].d : i \in DOMAIN s} :
               \A i \in DOMAIN s : s[i].d <= d
  IN  [FoldLeft(LAMBDA a, p : AddPicture(a, p, at), v, s)
         EXCEPT !.base = at + end]

Legal(ks) ==
  /\ ks[1] \in Starters
  /\ \A i \in 1 .. Len(ks) - 1 : ks[i] = "EOS" => ks[i + 1] \in Starters

Rows == {ks \in UNION {[1 .. n -> Kinds] : n \in 1 .. MaxSegments} : Legal(ks)}

Bitstream(ks) == FoldLeft(AddSegment, Empty, ks).nals

\* The bitstreams, and with a loss those that lack a slice which is not of
\* a random access point.
Whole == {Bitstream(ks) : ks \in Rows}
Lossy ==
  UNION {{RemoveAt(s, i) : i \in {j \in DOMAIN s :
            s[j].nut \in SliceTypes \ RapTypes}} : s \in Whole}

\* The last sequence follows an end of sequence and has a single picture,
\* but for RASL pictures that are not decoded.
LoneEnd(s) ==
  \E i \in DOMAIN s :
    /\ s[i].nut = "EOS"
    /\ Cardinality({s[j].frame : j \in {m \in i + 1 .. Len(s) :
                     s[m].nut \in SliceTypes \ RaslTypes}}) = 1

-----------------------------------------------------------------------------
(* The bitstreams that the encoder writes.                                 *)
Enc == INSTANCE EncoderPictures

\* GOP structures: a hierarchy of three temporal layers that keeps pictures
\* of earlier GOPs, the same without layers, and one with a layer that can
\* only be joined step by step.
Layered ==
  <<Enc!Entry(4, 0, 2, <<-4, -6, -8>>), Enc!Entry(2, 1, 2, <<-2, -4, -6, 2>>),
    Enc!Entry(1, 2, 2, <<-1, 1, 3>>), Enc!Entry(3, 2, 2, <<-1, -3, 1>>)>>
Flat == [i \in DOMAIN Layered |-> [Layered[i] EXCEPT !.tid = 0]]
Stepwise ==
  <<Enc!Entry(4, 0, 2, <<-4, -5>>), Enc!Entry(3, 0, 2, <<-3, 1>>),
    Enc!Entry(1, 2, 2, <<-1, 2, 3>>), Enc!Entry(2, 1, 2, <<-1, -2, 1, 2>>)>>

Configs ==
  {c \in [gop : {Layered, Flat, Stepwise}, period : {4, 8, MaxInt},
          refresh : 0 .. 2, frames : EncoderFrames, fieldIrap : BOOLEAN] :
     /\ Enc!Valid(c)
     /\ Enc!Buffering(c.gop) = MaxDecPicBuffering
     /\ Enc!Reorder(c.gop) = NumReorderPics}

\* What it writes, whether it gets through, and the frames it was given.
Encoded ==
  {[nals |-> e.nals, error |-> e.error, frames |-> e.pocLast + 1] :
     e \in {Enc!Encode(c) : c \in Configs}}

\* The bitstream from its NAL unit i on, a CRA picture: the POCs of its
\* sequence are what a decoder that starts there can know of them.
CutAt(s, i) ==
  [j \in 1 .. Len(s) - i + 1 |->
     LET n == s[i + j - 1]
     IN  IF n.cvs = s[i].cvs THEN [n EXCEPT !.poc = @ - (s[i].poc - s[i].lsb)]
         ELSE n]

FromEncoder ==
  UNION {{e.nals} \cup {CutAt(e.nals, i) :
                           i \in {j \in DOMAIN e.nals : e.nals[j].nut = "CRA"}} :
           e \in Encoded}

-----------------------------------------------------------------------------
LowCra(s) ==
  \E i \in DOMAIN s :
    /\ s[i].nut = "CRA"
    /\ StartsIn(s, i)
    /\ \E j \in DOMAIN s[i].refs : s[i].poc + s[i].refs[j].delta < 0

MCStreams ==
  {s \in Whole \cup FromEncoder \cup (IF Losses = 0 THEN {} ELSE Lossy) :
     /\ LoneEnd(s) => LoneEnds
     /\ LowCra(s) => LowCras}

\* Their POCs are coded as a decoder derives them.
ASSUME StreamsWellCoded == \A s \in MCStreams : WellCoded(s)

\* Their pictures are whole where nothing is lost and sequences start with an
\* IDR picture, or a bitstream of the encoder is entered at a CRA picture.
ASSUME StreamsInPictures ==
  Losses = 0 /\ Starters \subseteq {"IDR", "IDRN", "IDRL", "IDR2"} =>
    \A s \in MCStreams : InPictures(s)

\* Their sequences are told apart where none but the first starts with a CRA
\* picture, with or without a loss.
ASSUME StreamsInSequences ==
  Starters \subseteq {"IDR", "IDRN", "IDRL", "IDR2", "BLA", "BLAN"} =>
    \A s \in MCStreams : InSequences(s)

-----------------------------------------------------------------------------
\* From the encoder's frames to the decoder's: the pictures that a decoder
\* must show are all shown, and those of a whole bitstream of the encoder
\* are as many as the frames it was given, with none of its CHECKs failed
\* and no reference missing (compressGOP, xGetNewPicBuffer, xWriteOutput).
EveryFrameShown ==
  /\ AllWritten
  /\ phase = "done" =>
       \A e \in Encoded :
         e.nals = stream => ~e.error /\ Len(written) = e.frames
=============================================================================
