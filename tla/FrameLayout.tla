----------------------------- MODULE FrameLayout -----------------------------
(***************************************************************************)
(* A frame from the encoder's entry points, where its header, its size     *)
(* table and its token partitions are laid out, to the decoder's, which    *)
(* reads them back: the tag, the coded header field by field, then the     *)
(* token partitions (PartitionCarving) and the rows in them.  Packets may  *)
(* lose bytes at their end, and packets of other writers, whose fields and *)
(* sizes are their own, come as well.                                      *)
(***************************************************************************)
EXTENDS HeaderSyntax, PartitionCarving

CONSTANTS
  Silent, Keys, Adaptive, Inters,  \* calls of the four entry points
  Foreign,     \* headers as other writers may write them
  Cuts,        \* bytes lost at the end of a packet
  MaxPixels,   \* max_pixels_per_frame
  FlushBytes   \* length of a partition without tokens

VARIABLES frame,    \* the call, and what the encoder laid out for it
          stage,    \* where its reader is
          at,       \* and at which bit of the first partition
          hdr,      \* the fields it has read
          row, left, rows_read  \* rows of macroblocks read from the partitions

frameVars == <<frame, stage, at, hdr, row, left, rows_read>>
allVars == <<frameVars, vars>>

NoFrame == [entry |-> "none"]
FrameInit ==
  /\ frame = NoFrame /\ stage = "idle" /\ at = 0 /\ hdr = [none |-> TRUE]
  /\ row = 0 /\ left = [k \in {} |-> 0] /\ rows_read = <<>>
  /\ num = 1 /\ section = 0 /\ declared = [k \in {} |-> 0]
  /\ pc = "idle" /\ i = 0 /\ sums = [k \in 0..0 |-> 0]
  /\ out = [k \in {} |-> 0] /\ error = NoError

-----------------------------------------------------------------------------
(* What each entry point writes, in its order.                              *)

Clamped(v, lo, hi) == IF v < lo THEN lo ELSE IF v > hi THEN hi ELSE v
fit_prob_l8(false_count, true_count) ==
  LET total == false_count + true_count
  IN IF total = 0 THEN 128 ELSE Clamped((256 * false_count) \div total, 1, 255)
(* The segment tree splits {0, 1} from {2, 3}, then each pair.              *)
SegmentTreeProbs(counts) ==
  <<fit_prob_l8(counts[1] + counts[2], counts[3] + counts[4]),
    fit_prob_l8(counts[1], counts[2]), fit_prob_l8(counts[3], counts[4])>>
Segments(seg, probs) ==
  [map |-> TRUE, absolute |-> FALSE,
   quantizer |-> [s \in 1..4 |-> Some(seg.quant_delta[s])],
   loop_filter |-> [s \in 1..4 |-> {d[s] : d \in seg.lf_delta}],
   probs |-> [s \in 1..3 |-> Some(probs[s])]]

encode_silent_keyframe(p) ==
  Flag(128, FALSE) \o Flag(128, FALSE) \o write_segment_update_flags
  \o write_loop_filter([p.filter EXCEPT !.simple = FALSE])
  \o write_token_partition_count(p.count) \o write_quant_indices(p.q, NoneOf(5))
  \o Flag(128, TRUE) \o write_no_token_prob_updates \o write_mb_no_skip_coeff(TRUE, 1)

(* Mutant: the table a key frame updates is kept, whatever it holds.        *)
KeyframeHeaderKept(p) ==
  Flag(128, FALSE) \o Flag(128, FALSE) \o write_segment_update_flags
  \o write_loop_filter(p.filter)
  \o write_token_partition_count(p.count) \o write_quant_indices(p.q, NoneOf(5))
  \o Flag(128, TRUE)
  \o write_token_prob_updates(p.tokens) \o write_mb_no_skip_coeff(TRUE, 128)

(* encode_keyframe_inner_lf: a table with updates does not outlive the key  *)
(* frame, because later frames are coded against the defaults.              *)
KeyframeHeader(p) ==
  Flag(128, FALSE) \o Flag(128, FALSE) \o write_segment_update_flags
  \o write_loop_filter(p.filter)
  \o write_token_partition_count(p.count) \o write_quant_indices(p.q, NoneOf(5))
  \o Flag(128, ~AnySome(p.tokens))
  \o write_token_prob_updates(p.tokens) \o write_mb_no_skip_coeff(TRUE, 128)

(* encode_keyframe_adaptive_quant_inner_lf                                  *)
AdaptiveHeader(p) ==
  Flag(128, FALSE) \o Flag(128, FALSE)
  \o write_update_segmentation(Segments(p, <<170, 170, 170>>))
  \o write_loop_filter(p.filter)
  \o write_token_partition_count(1) \o write_quant_indices(p.q, NoneOf(5))
  \o Flag(128, TRUE) \o write_no_token_prob_updates \o write_mb_no_skip_coeff(TRUE, 128)

(* encode_p_frame_multi_ref_inner_full                                      *)
InterHeader(p) ==
  (IF p.segments = None THEN write_segment_update_flags
   ELSE LET seg == The(p.segments)
        IN write_update_segmentation(Segments(seg, SegmentTreeProbs(seg.counts))))
  \o write_loop_filter_with_deltas(p.filter, p.deltas)
  \o write_token_partition_count(p.count) \o write_quant_indices(p.q, NoneOf(5))
  \o WriteRefresh(p.refresh)
  \o write_token_prob_updates(p.tokens) \o write_mb_no_skip_coeff(TRUE, 128)
  \o WriteModeProbs(IF p.pick_intra THEN fit_prob_l8(p.intra, p.inter) ELSE 255, p.prob_last, p.prob_gf)

(* The rows go round-robin into the partitions.                             *)
BytesBefore(rows, k, count) ==  \* of partition k, in front of each row
  Sums([r \in 0..Len(rows) - 1 |-> IF r % count = k THEN rows[r + 1] ELSE 0], Len(rows))
PartitionBytes(p, k, count) == FlushBytes + BytesBefore(p.rows, k, count)[Len(p.rows)]
Placed(p, count) == [k \in 0..count - 1 |-> PartitionBytes(p, k, count)]
SizeTable(sizes, count) == [k \in 0..count - 2 |-> Word(Bytes(sizes[k], 3), 0, 3)]

(* A call is refused before anything is coded, or when its first partition  *)
(* has grown past what the tag can say.                                     *)
Refused(p, key, count) ==
  \/ p.width \notin Unsigned(14) \ {0} \/ p.height \notin Unsigned(14) \ {0}
  \/ p.q \notin Unsigned(7) \/ p.filter.level \notin Unsigned(6) \/ p.filter.sharpness \notin Unsigned(3)
  \/ count \notin {1, 2, 4, 8}
  \/ p.first \notin Unsigned(19)

Coded(entry, p, key, show, bits, count) ==
  [entry |-> entry, p |-> p, key |-> key, show |-> show, bits |-> bits, count |-> count,
   tag |-> set_show_frame_bit(write_frame_tag(key, 0, TRUE, p.first, p.width, p.height, 0, 0), show),
   sizes |-> Placed(p, count)]

Emit(coded) == frame' = coded /\ stage' = "tag" /\ UNCHANGED <<at, hdr, row, left, rows_read>> /\ UNCHANGED vars
Refuse(entry) == frame' = [entry |-> entry] /\ stage' = "refused"
                 /\ UNCHANGED <<at, hdr, row, left, rows_read>> /\ UNCHANGED vars
Write(entry, p, key, show, count, bits) ==
  \/ Refused(p, key, count) /\ Refuse(entry)
  \/ ~Refused(p, key, count) /\ Emit(Coded(entry, p, key, show, bits, count))

WriteSilent ==
  /\ stage = "idle"
  /\ \E p \in Silent : Write("silent", p, TRUE, TRUE, p.count, encode_silent_keyframe(p))
WriteKeyframe ==
  /\ stage = "idle"
  /\ \E p \in Keys : Write("key", p, TRUE, TRUE, p.count, KeyframeHeader(p))
WriteAdaptive ==
  /\ stage = "idle"
  /\ \E p \in Adaptive : Write("adaptive", p, TRUE, TRUE, 1, AdaptiveHeader(p))
(* encode_invisible_altref_update clears the show bit of a finished frame.  *)
WriteInter ==
  /\ stage = "idle"
  /\ \E p \in Inters : Write("inter", p, FALSE, p.show, p.count, InterHeader(p))
(* A header whose bits and tag come from elsewhere.                         *)
WriteForeign ==
  /\ stage = "idle"
  /\ \E p \in Foreign :
       Emit([entry |-> "foreign", p |-> p, key |-> p.key, show |-> p.show, bits |-> p.bits,
             tag |-> p.tag, count |-> p.count, sizes |-> [k \in 0..p.count - 1 |-> 0]])

-----------------------------------------------------------------------------
(* Reading: decode_vp8 (key frames alone, behind a cap) or the stateful     *)
(* decoder; both parse the same header.                                     *)

Keep(reader) == UNCHANGED <<frame, row, left, rows_read>> /\ UNCHANGED vars
ReadTag ==
  /\ stage = "tag"
  /\ LET tag == parse_header(frame.tag)
         pixels == IF tag.key THEN The(tag.picture).width * The(tag.picture).height ELSE 0
     IN \E oneshot \in BOOLEAN, lost \in Cuts :
          LET answer ==
                CASE oneshot /\ ~tag.key -> "Unsupported"
                  [] tag.key /\ pixels = 0 -> "ZeroDimension"
                  [] tag.key /\ pixels > MaxPixels -> "FrameTooLarge"
                  [] lost > Sums(frame.sizes, frame.count)[frame.count] + 3 * (frame.count - 1)
                       -> "TruncatedFirstPartition"
                  [] OTHER -> "segmentation"
          IN /\ stage' = answer
             /\ hdr' = [tag |-> tag, oneshot |-> oneshot, lost |-> lost]
             /\ at' = 1
  /\ UNCHANGED <<frame, row, left, rows_read>> /\ UNCHANGED vars

(* One step per group of fields, in the order of parse_from_decoder.        *)
Key == hdr.tag.key
With(fields, h) ==
  [name \in DOMAIN fields \cup DOMAIN h |-> IF name \in DOMAIN fields THEN fields[name] ELSE h[name]]
Read(to, fields, next) ==
  /\ stage' = to
  /\ hdr' = With(fields, hdr)
  /\ at' = next
  /\ UNCHANGED <<frame, row, left, rows_read>> /\ UNCHANGED vars

ReadSegmentation ==
  /\ stage = "segmentation"
  /\ LET first == IF Key THEN at + 2 ELSE at
         segmentation == parse_update_segmentation(frame.bits, first + 1)
         enabled == Bit(frame.bits, first, 128)
     IN Read("filter",
             [space |-> IF Key THEN Some(<<Bit(frame.bits, at, 128), Bit(frame.bits, at + 1, 128)>>) ELSE None,
              segmentation |-> IF enabled THEN Some(segmentation.v) ELSE None],
             IF enabled THEN segmentation.at ELSE first + 1)

ReadLoopFilter ==
  /\ stage = "filter"
  /\ LET deltas == parse_mb_lf_adjustments(frame.bits, at + 10)
     IN Read("quant",
             [filter |-> [simple |-> Bit(frame.bits, at, 128), level |-> ReadLiteral(frame.bits, at + 1, 6).v,
                          sharpness |-> ReadLiteral(frame.bits, at + 7, 3).v],
              deltas |-> deltas.v],
             deltas.at)

ReadQuant ==
  /\ stage = "quant"
  /\ LET quant == parse_quant_indices(frame.bits, at + 2)
     IN Read("refresh",
             [count |-> 2^(ReadLiteral(frame.bits, at, 2).v), quant |-> quant.v], quant.at)

ReadRefresh ==
  /\ stage = "refresh"
  /\ LET refreshGolden == Bit(frame.bits, at, 128)
         refreshAltref == Bit(frame.bits, at + 1, 128)
         forAltref == IF refreshGolden THEN at + 2 ELSE at + 4
         biases == IF refreshAltref THEN forAltref ELSE forAltref + 2
         Copy(refreshed, from) == IF refreshed THEN None ELSE Some(ReadLiteral(frame.bits, from, 2).v)
     IN IF Key
        THEN Read("tokens", [entropy |-> Bit(frame.bits, at, 128), refresh |-> None], at + 1)
        ELSE Read("tokens",
                  [entropy |-> Bit(frame.bits, biases + 2, 128),
                   refresh |-> Some([golden |-> refreshGolden, altref |-> refreshAltref,
                                     copyGolden |-> Copy(refreshGolden, at + 2),
                                     copyAltref |-> Copy(refreshAltref, forAltref),
                                     biases |-> <<Bit(frame.bits, biases, 128), Bit(frame.bits, biases + 1, 128)>>,
                                     last |-> Bit(frame.bits, biases + 3, 128)])],
                  biases + 4)

ReadTokenProbs ==
  /\ stage = "tokens"
  /\ LET updates == parse_token_prob_update(frame.bits, at)
         skips == Bit(frame.bits, updates.at, 128)
     IN Read("modes",
             [tokens |-> updates.v,
              skip |-> IF skips THEN Some(ReadLiteral(frame.bits, updates.at + 1, 8).v) ELSE None],
             IF skips THEN updates.at + 9 ELSE updates.at + 1)

ReadModeProbs ==
  /\ stage = "modes"
  /\ LET Prob(k) == ReadLiteral(frame.bits, at + 8 * k, 8).v
         y == ReadModeTable(frame.bits, at + 24, 4)
         uv == ReadModeTable(frame.bits, y.at, 3)
         mv == parse_mv_prob_update(frame.bits, uv.at)
     IN IF Key
        THEN Read("carve", [modes |-> None], at)
        ELSE Read("carve",
                  [modes |-> Some([intra |-> Prob(0), last |-> Prob(1), gf |-> Prob(2),
                                   y |-> y.v, uv |-> uv.v, mv |-> mv.v])],
                  mv.at)

(* The section behind the first partition goes to carve_dct_partitions.     *)
StartCarving ==
  /\ stage = "carve" /\ pc = "idle"
  /\ num' = hdr.count
  /\ IF frame.entry = "foreign"
     THEN section' \in SectionLens /\ declared' \in [0..hdr.count - 2 -> Sizes]
     ELSE /\ section' = (3 * (frame.count - 1) - hdr.lost) + Sums(frame.sizes, frame.count)[frame.count]
          /\ declared' = SizeTable(frame.sizes, frame.count)
  /\ sums' = [k \in 0..hdr.count - 1 |-> 0]
  /\ pc' = "start"
  /\ UNCHANGED <<i, out, error>> /\ UNCHANGED frameVars

Carve == stage = "carve" /\ Next /\ UNCHANGED frameVars

(* decode_residuals: a decoder for each partition that some row needs, and  *)
(* the rows from them in turn.                                              *)
OpenPartitions ==
  /\ stage = "carve" /\ pc = "done" /\ frame.entry # "foreign"
  /\ stage' = "rows"
  /\ left' = [k \in {(r - 1) % num : r \in DOMAIN frame.p.rows} |-> out[k].start]
  /\ UNCHANGED <<frame, at, hdr, row, rows_read>> /\ UNCHANGED vars
ReadRow ==
  /\ stage = "rows" /\ row < Len(frame.p.rows)
  /\ LET part == row % num
     IN /\ rows_read' = Append(rows_read, left[part])
        /\ left' = [left EXCEPT ![part] = @ + frame.p.rows[row + 1]]
  /\ row' = row + 1
  /\ UNCHANGED <<frame, stage, at, hdr>> /\ UNCHANGED vars

FrameNext ==
  \/ WriteSilent \/ WriteKeyframe \/ WriteAdaptive \/ WriteInter \/ WriteForeign
  \/ ReadTag \/ ReadSegmentation \/ ReadLoopFilter \/ ReadQuant \/ ReadRefresh
  \/ ReadTokenProbs \/ ReadModeProbs \/ StartCarving \/ Carve \/ OpenPartitions \/ ReadRow
FrameSpec == FrameInit /\ [][FrameNext]_allVars
-----------------------------------------------------------------------------
(* The header that has the fields f, by the syntax of the format (RFC 6386,   *)
(* 19.2), whoever writes or reads it.                                        *)
Fields ==
  [space : Maybe(BOOLEAN \X BOOLEAN),
   segmentation : Maybe([map : BOOLEAN, data : BOOLEAN, absolute : BOOLEAN, quantizer : [1..4 -> Maybe(Signed(7))],
                         loop_filter : [1..4 -> Maybe(Signed(6))], probs : [1..3 -> Maybe(Unsigned(8))]]),
   filter : [simple : BOOLEAN, level : Unsigned(6), sharpness : Unsigned(3)],
   deltas : [enabled : BOOLEAN, update : BOOLEAN, ref : [1..4 -> Maybe(Signed(6))], mode : [1..4 -> Maybe(Signed(6))]],
   count : {1, 2, 4, 8},
   quant : [y_ac_qi : Unsigned(7), deltas : [1..5 -> Maybe(Signed(4))]],
   entropy : BOOLEAN,
   refresh : Maybe([golden : BOOLEAN, altref : BOOLEAN, copyGolden : Maybe(Unsigned(2)), copyAltref : Maybe(Unsigned(2)),
                    biases : BOOLEAN \X BOOLEAN, last : BOOLEAN]),
   tokens : [1..Len(CoeffUpdateProbs) -> Maybe(Unsigned(8))],
   skip : Maybe(Unsigned(8)),
   modes : Maybe([intra : Unsigned(8), last : Unsigned(8), gf : Unsigned(8),
                  y : Maybe([1..4 -> Unsigned(8)]), uv : Maybe([1..3 -> Unsigned(8)]),
                  mv : [1..Len(MvUpdateProbs) -> Maybe({1} \cup {2 * x : x \in 1..127})]])]

(* What a header leaves out has no value.                                    *)
NoDeltas == [enabled |-> FALSE, update |-> FALSE, ref |-> NoneOf(4), mode |-> NoneOf(4)]
LeftOut(f) ==
  /\ f.space = None <=> f.refresh # None
  /\ f.modes = None <=> f.refresh = None
  /\ \A s \in f.segmentation :
       /\ ~s.data => ~s.absolute /\ s.quantizer = NoneOf(4) /\ s.loop_filter = NoneOf(4)
       /\ ~s.map => s.probs = NoneOf(3)
  /\ ~f.deltas.enabled => f.deltas = NoDeltas
  /\ ~f.deltas.update => f.deltas.ref = NoneOf(4) /\ f.deltas.mode = NoneOf(4)
  /\ \A r \in f.refresh : (r.copyGolden = None <=> r.golden) /\ (r.copyAltref = None <=> r.altref)

SpaceSyntax(space) == When(space # None, Flag(128, The(space)[1]) \o Flag(128, The(space)[2]))
SegmentationSyntax(segmentation) ==
  LET s == The(segmentation)
  IN IF segmentation = None THEN Flag(128, FALSE)
     ELSE Flag(128, TRUE) \o Flag(128, s.map) \o Flag(128, s.data)
          \o When(s.data, Flag(128, s.absolute)
                          \o Optionals(s.quantizer, Even(4), 7, TRUE) \o Optionals(s.loop_filter, Even(4), 6, TRUE))
          \o When(s.map, Optionals(s.probs, Even(3), 8, FALSE))
RefreshSyntax(refresh, entropy) ==
  LET r == The(refresh)
  IN IF refresh = None THEN Flag(128, entropy)
     ELSE Flag(128, r.golden) \o Flag(128, r.altref)
          \o When(~r.golden, Literal(The(r.copyGolden), 2)) \o When(~r.altref, Literal(The(r.copyAltref), 2))
          \o Flag(128, r.biases[1]) \o Flag(128, r.biases[2]) \o Flag(128, entropy) \o Flag(128, r.last)
ModeTableSyntax(table) ==
  Flag(128, table # None)
  \o When(table # None, [k \in 1..8 * Len(The(table)) |-> Literal(The(table)[(k - 1) \div 8 + 1], 8)[((k - 1) % 8) + 1]])
ModesSyntax(modes) ==
  LET m == The(modes)
      Raw(x) == IF x = 1 THEN 0 ELSE x \div 2
  IN When(modes # None,
          Literal(m.intra, 8) \o Literal(m.last, 8) \o Literal(m.gf, 8)
          \o ModeTableSyntax(m.y) \o ModeTableSyntax(m.uv)
          \o Optionals([k \in DOMAIN m.mv |-> {Raw(x) : x \in m.mv[k]}], MvUpdateProbs, 7, FALSE))
Layout(f) ==
  SpaceSyntax(f.space) \o SegmentationSyntax(f.segmentation)
  \o write_loop_filter_with_deltas(f.filter, f.deltas)
  \o write_token_partition_count(f.count) \o write_quant_indices(f.quant.y_ac_qi, f.quant.deltas)
  \o RefreshSyntax(f.refresh, f.entropy)
  \o write_token_prob_updates(f.tokens) \o write_mb_no_skip_coeff(f.skip # None, The(f.skip))
  \o ModesSyntax(f.modes)

-----------------------------------------------------------------------------
(* What an entry point's caller gives it: the checks of the layers it writes  *)
(* (LoopFilterDeltas::validate, RefreshControls::validate) and the types of   *)
(* its parameters.  A quantiser delta of -128 has no magnitude of seven bits. *)
IsCall(p) ==
  /\ p.hscale = 0 /\ p.vscale = 0 /\ p.first \in Nat /\ p.rows \in Seq(Nat)
  /\ p.filter \in [simple : BOOLEAN, level : Nat, sharpness : Nat]
  /\ p.tokens \in [1..Len(CoeffUpdateProbs) -> Maybe(Unsigned(8))]
AreSegments(s) == s.quant_delta \in [1..4 -> Signed(7)] /\ s.lf_delta \in Maybe([1..4 -> Signed(6)])
IsInterCall(p) ==
  /\ IsCall(p) /\ p.show \in BOOLEAN
  /\ p.deltas \in [enabled : BOOLEAN, update : BOOLEAN,
                   ref : [1..4 -> Maybe(Signed(6))], mode : [1..4 -> Maybe(Signed(6))]]
  /\ p.refresh \in [refreshGolden : BOOLEAN, refreshAltref : BOOLEAN, refreshLast : BOOLEAN,
                    copyGolden : Unsigned(2), copyAltref : Unsigned(2)]
  /\ \A s, t \in p.segments : s = t
  /\ \A s \in p.segments : AreSegments(s) /\ s.counts \in [1..4 -> Nat]
  /\ p.pick_intra \in BOOLEAN /\ p.intra \in Nat /\ p.inter \in Nat
  /\ p.prob_last \in Unsigned(8) /\ p.prob_gf \in Unsigned(8)
IsPacket(p) ==
  /\ p.key \in BOOLEAN /\ p.show \in BOOLEAN /\ p.first \in Unsigned(19)
  /\ p.fields \in Fields /\ LeftOut(p.fields) /\ p.bits = Layout(p.fields)
  /\ p.count = p.fields.count /\ (p.key <=> p.fields.refresh = None)
  /\ \E version \in Unsigned(3) :
       IF p.key
       THEN /\ p.width \in Unsigned(14) /\ p.height \in Unsigned(14)
            /\ p.hscale \in Unsigned(2) /\ p.vscale \in Unsigned(2)
            /\ p.tag = write_frame_tag(TRUE, version, p.show, p.first, p.width, p.height, p.hscale, p.vscale)
       ELSE p.tag = write_frame_tag(FALSE, version, p.show, p.first, 0, 0, 0, 0)

ASSUME LayoutAssumption ==
  /\ CoeffUpdateProbs \in Seq(Nat) /\ MvUpdateProbs \in Seq(Nat)
  /\ FlushBytes \in Nat /\ Cuts \subseteq Nat
  /\ \A p \in Silent \cup Keys \cup Adaptive : IsCall(p)
  /\ \A p \in Adaptive : AreSegments(p)
  /\ \A p \in Inters : IsInterCall(p)
  /\ \A p \in Foreign : IsPacket(p)

-----------------------------------------------------------------------------
(* The fields an entry point's call means.                                   *)
SegmentsMeant(seg, probs) ==
  LET layer == Segments(seg, probs)
  IN Some([map |-> TRUE, data |-> TRUE, absolute |-> FALSE, quantizer |-> layer.quantizer,
           loop_filter |-> layer.loop_filter, probs |-> layer.probs])
KeyMeant(segmentation, filter, count, q, entropy, tokens, skip) ==
  [space |-> Some(<<FALSE, FALSE>>), segmentation |-> segmentation, filter |-> filter, deltas |-> NoDeltas,
   count |-> count, quant |-> [y_ac_qi |-> q, deltas |-> NoneOf(5)], entropy |-> entropy, refresh |-> None,
   tokens |-> tokens, skip |-> Some(skip), modes |-> None]
SilentMeant(p) == KeyMeant(None, [p.filter EXCEPT !.simple = FALSE], p.count, p.q, TRUE, NoTokenUpdates, 1)
KeyframeMeant(p) == KeyMeant(None, p.filter, p.count, p.q, ~AnySome(p.tokens), p.tokens, 128)
AdaptiveMeant(p) == KeyMeant(SegmentsMeant(p, <<170, 170, 170>>), p.filter, 1, p.q, TRUE, NoTokenUpdates, 128)
DeltasMeant(d) ==
  IF ~d.enabled THEN NoDeltas
  ELSE IF ~d.update THEN [enabled |-> TRUE, update |-> FALSE, ref |-> NoneOf(4), mode |-> NoneOf(4)] ELSE d
RefreshMeant(c) ==
  [golden |-> c.refreshGolden, altref |-> c.refreshAltref,
   copyGolden |-> {x \in {c.copyGolden} : ~c.refreshGolden}, copyAltref |-> {x \in {c.copyAltref} : ~c.refreshAltref},
   biases |-> <<FALSE, FALSE>>, last |-> c.refreshLast]
ModesMeant(intra, last, gf) ==
  [intra |-> intra, last |-> last, gf |-> gf, y |-> None, uv |-> None, mv |-> NoneOf(Len(MvUpdateProbs))]
InterMeant(p) ==
  [space |-> None,
   segmentation |-> UNION {SegmentsMeant(s, SegmentTreeProbs(s.counts)) : s \in p.segments},
   filter |-> p.filter, deltas |-> DeltasMeant(p.deltas), count |-> p.count,
   quant |-> [y_ac_qi |-> p.q, deltas |-> NoneOf(5)], entropy |-> FALSE, refresh |-> Some(RefreshMeant(p.refresh)),
   tokens |-> p.tokens, skip |-> Some(128),
   modes |-> Some(ModesMeant(IF p.pick_intra THEN fit_prob_l8(p.intra, p.inter) ELSE 255, p.prob_last, p.prob_gf))]
Meant(f) ==
  CASE f.entry = "silent" -> SilentMeant(f.p)
    [] f.entry = "key" -> KeyframeMeant(f.p)
    [] f.entry = "adaptive" -> AdaptiveMeant(f.p)
    [] f.entry = "inter" -> InterMeant(f.p)
    [] f.entry = "foreign" -> f.p.fields

Ours == frame.entry # "foreign"
Segmented == frame.entry = "adaptive" \/ (frame.entry = "inter" /\ frame.p.segments # None)
(* Both ends clamp the index of a segment for themselves.                   *)
SameSegmentIndexes ==
  \A deltas \in IF frame.entry = "adaptive" THEN {frame.p.quant_delta} ELSE {s.quant_delta : s \in frame.p.segments},
     read \in hdr.segmentation, s \in 1..4 : \A d \in read.quantizer[s] :
       Clamped(hdr.quant.y_ac_qi + d, 0, 127) = Clamped(frame.p.q + deltas[s], 0, 127)

(* Whatever entry point laid a frame out, the reader finds every field as it *)
(* was meant and stops at the bit where the macroblocks begin; no table that *)
(* later frames are not coded against outlives a frame; the partitions and   *)
(* rows are found where they were put, even when bytes are lost behind them  *)
(* (encoder.rs 10092-10238, 10568-10601; coded_header.rs 553-745).           *)
HeaderReadsBack ==
  stage \in {"carve", "rows"} =>
    /\ at = Len(frame.bits) + 1
    /\ LET meant == Meant(frame) IN \A f \in DOMAIN meant : hdr[f] = meant[f]
    /\ hdr.tag.key = frame.key /\ hdr.tag.show = frame.show /\ hdr.tag.size = frame.p.first
    /\ frame.key => hdr.tag.picture = Some([width |-> frame.p.width, hscale |-> frame.p.hscale,
                                            height |-> frame.p.height, vscale |-> frame.p.vscale])
    /\ Ours /\ hdr.entropy => hdr.tokens = NoTokenUpdates
    /\ Ours /\ Segmented => SameSegmentIndexes
PartitionsAreFound ==
  pc = "done" /\ Ours =>
    \A k \in 0..num - 1 :
      /\ out[k].start = Sums(frame.sizes, num)[k]
      /\ out[k].end = Sums(frame.sizes, num)[k + 1] - (IF k = num - 1 THEN hdr.lost ELSE 0)
RowsAreFound ==
  \A r \in DOMAIN rows_read :
    LET k == (r - 1) % num
    IN rows_read[r] = Sums(frame.sizes, num)[k] + BytesBefore(frame.p.rows, k, num)[r - 1]
FrameReadsBack == HeaderReadsBack /\ PartitionsAreFound /\ RowsAreFound
=============================================================================
