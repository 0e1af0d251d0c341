---------------------------- MODULE HeaderSyntax ----------------------------
(***************************************************************************)
(* The layout of a frame in front of its macroblocks: the frame tag in     *)
(* bytes, then the fields of the first partition bit by bit, as encoder.rs *)
(* writes them and as frame_header.rs and coded_header.rs read them.  A    *)
(* bit goes with the probability it is coded with.  An optional field is a *)
(* set of at most one value, and a table of them a sequence of such sets.  *)
(***************************************************************************)
EXTENDS Integers, Sequences

CONSTANTS
  CoeffUpdateProbs,  \* COEFF_UPDATE_PROBS: one per token probability, a few here
  MvUpdateProbs      \* MV_UPDATE_PROBS: one per vector probability, likewise

None == {}
Some(v) == {v}
The(slot) == CHOOSE v \in slot : TRUE
Maybe(S) == {s \in SUBSET S : \A a, b \in s : a = b}
(* What n bits can say, and n bits with a sign.                             *)
Unsigned(n) == 0..2^n - 1
Signed(n) == -(2^n - 1)..2^n - 1

AnySome(table) == \E i \in DOMAIN table : table[i] # None
NoneOf(n) == [i \in 1..n |-> None]
(* The sums of the first terms of f, which are numbered from 0.              *)
Sums(f, n) == LET sum[k \in 0..n] == IF k = 0 THEN 0 ELSE sum[k - 1] + f[k - 1] IN sum
Even(n) == [i \in 1..n |-> 128]

-----------------------------------------------------------------------------
(* Writing.                                                                 *)
Flag(p, b) == <<[p |-> p, b |-> b]>>
Literal(value, n) == [i \in 1..n |-> [p |-> 128, b |-> (value \div 2^(n - i)) % 2 = 1]]
SignedLiteral(value, n) == Literal(IF value < 0 THEN -value ELSE value, n) \o Flag(128, value < 0)
When(condition, bits) == IF condition THEN bits ELSE <<>>

(* A table of optional fields, each of them n bits and maybe a sign after a *)
(* flag of its own probability.                                             *)
Field(v, n, signed) == IF signed THEN SignedLiteral(v, n) ELSE Literal(v, n)
Entry(slot, p, n, signed) ==
  Flag(p, slot # None) \o When(slot # None, Field(The(slot), n, signed))
FirstEntries(table, probs, n, signed) ==
  LET upto[i \in 0..Len(table)] ==
        IF i = 0 THEN <<>> ELSE upto[i - 1] \o Entry(table[i], probs[i], n, signed)
  IN upto
Optionals(table, probs, n, signed) == FirstEntries(table, probs, n, signed)[Len(table)]

write_segment_update_flags == Flag(128, FALSE)
write_update_segmentation(layer) ==
  LET data == AnySome(layer.quantizer) \/ AnySome(layer.loop_filter)
  IN Flag(128, TRUE) \o Flag(128, layer.map) \o Flag(128, data)
     \o When(data, Flag(128, layer.absolute)
                   \o Optionals(layer.quantizer, Even(4), 7, TRUE)
                   \o Optionals(layer.loop_filter, Even(4), 6, TRUE))
     \o When(layer.map, Optionals(layer.probs, Even(3), 8, FALSE))

write_loop_filter(filter) ==
  Flag(128, filter.simple) \o Literal(filter.level, 6) \o Literal(filter.sharpness, 3) \o Flag(128, FALSE)
write_loop_filter_with_deltas(filter, deltas) ==
  Flag(128, filter.simple) \o Literal(filter.level, 6) \o Literal(filter.sharpness, 3)
  \o Flag(128, deltas.enabled)
  \o When(deltas.enabled,
          Flag(128, deltas.update)
          \o When(deltas.update, Optionals(deltas.ref, Even(4), 6, TRUE)
                                 \o Optionals(deltas.mode, Even(4), 6, TRUE)))

Log2(count) == CHOOSE k \in 0..3 : 2^k = count
write_token_partition_count(count) == Literal(Log2(count), 2)
write_quant_indices(y_ac_qi, deltas) == Literal(y_ac_qi, 7) \o Optionals(deltas, Even(5), 4, TRUE)
write_token_prob_updates(updates) == Optionals(updates, CoeffUpdateProbs, 8, FALSE)
NoTokenUpdates == NoneOf(Len(CoeffUpdateProbs))
write_no_token_prob_updates == [i \in DOMAIN CoeffUpdateProbs |-> [p |-> CoeffUpdateProbs[i], b |-> FALSE]]
write_mb_no_skip_coeff(enabled, prob) == Flag(128, enabled) \o When(enabled, Literal(prob, 8))

(* Copy selectors travel only for the slots that are not refreshed.         *)
WriteRefresh(refresh) ==
  Flag(128, refresh.refreshGolden) \o Flag(128, refresh.refreshAltref)
  \o When(~refresh.refreshGolden, Literal(refresh.copyGolden, 2))
  \o When(~refresh.refreshAltref, Literal(refresh.copyAltref, 2))
  \o Flag(128, FALSE) \o Flag(128, FALSE)  \* sign biases
  \o Flag(128, FALSE)                      \* refresh_entropy_probs
  \o Flag(128, refresh.refreshLast)
WriteModeProbs(intra, last, gf) ==
  Literal(intra, 8) \o Literal(last, 8) \o Literal(gf, 8) \o Flag(128, FALSE) \o Flag(128, FALSE)
  \o [i \in DOMAIN MvUpdateProbs |-> [p |-> MvUpdateProbs[i], b |-> FALSE]]

-----------------------------------------------------------------------------
(* Reading.  A reader is a place in the bits; what it reads is [v, at], the *)
(* value and the place after it.  A bit read with another probability than  *)
(* its own, or past the end, is 0 here.                                     *)
Bit(wire, at, p) == at <= Len(wire) /\ wire[at].p = p /\ wire[at].b
LeadingBits(wire, at, n) ==
  LET value[i \in 0..n] == IF i = 0 THEN 0
                           ELSE 2 * value[i - 1] + (IF Bit(wire, at + i - 1, 128) THEN 1 ELSE 0)
  IN value
ReadLiteral(wire, at, n) == [v |-> LeadingBits(wire, at, n)[n], at |-> at + n]
read_signed_delta(wire, at, n) ==
  LET m == ReadLiteral(wire, at, n).v
  IN [v |-> IF Bit(wire, at + n, 128) THEN -m ELSE m, at |-> at + n + 1]

ReadField(wire, at, n, signed) ==
  IF signed THEN read_signed_delta(wire, at, n) ELSE ReadLiteral(wire, at, n)
ReadEntry(wire, before, p, n, signed) ==
  LET field == ReadField(wire, before.at + 1, n, signed)
  IN IF Bit(wire, before.at, p)
     THEN [v |-> Append(before.v, Some(field.v)), at |-> field.at]
     ELSE [v |-> Append(before.v, None), at |-> before.at + 1]
EntriesRead(wire, start, probs, n, signed) ==
  LET read[i \in 0..Len(probs)] ==
        IF i = 0 THEN [v |-> <<>>, at |-> start] ELSE ReadEntry(wire, read[i - 1], probs[i], n, signed)
  IN read
ReadOptionals(wire, start, probs, n, signed) == EntriesRead(wire, start, probs, n, signed)[Len(probs)]

parse_update_segmentation(wire, at) ==
  LET map == Bit(wire, at, 128)
      data == Bit(wire, at + 1, 128)
      quantizer == ReadOptionals(wire, at + 3, Even(4), 7, TRUE)
      loop_filter == ReadOptionals(wire, quantizer.at, Even(4), 6, TRUE)
      features == IF data THEN loop_filter.at ELSE at + 2
      probs == ReadOptionals(wire, features, Even(3), 8, FALSE)
  IN [v |-> [map |-> map, data |-> data, absolute |-> data /\ Bit(wire, at + 2, 128),
             quantizer |-> IF data THEN quantizer.v ELSE NoneOf(4),
             loop_filter |-> IF data THEN loop_filter.v ELSE NoneOf(4),
             probs |-> IF map THEN probs.v ELSE NoneOf(3)],
      at |-> IF map THEN probs.at ELSE features]

parse_mb_lf_adjustments(wire, at) ==
  LET enabled == Bit(wire, at, 128)
      update == enabled /\ Bit(wire, at + 1, 128)
      ref == ReadOptionals(wire, at + 2, Even(4), 6, TRUE)
      mode == ReadOptionals(wire, ref.at, Even(4), 6, TRUE)
  IN [v |-> [enabled |-> enabled, update |-> update,
             ref |-> IF update THEN ref.v ELSE NoneOf(4), mode |-> IF update THEN mode.v ELSE NoneOf(4)],
      at |-> IF update THEN mode.at ELSE IF enabled THEN at + 2 ELSE at + 1]

parse_quant_indices(wire, at) ==
  LET deltas == ReadOptionals(wire, at + 7, Even(5), 4, TRUE)
  IN [v |-> [y_ac_qi |-> ReadLiteral(wire, at, 7).v, deltas |-> deltas.v], at |-> deltas.at]
parse_token_prob_update(wire, at) == ReadOptionals(wire, at, CoeffUpdateProbs, 8, FALSE)

(* Seven bits, doubled, and never 0.                                        *)
parse_mv_prob_update(wire, at) ==
  LET raw == ReadOptionals(wire, at, MvUpdateProbs, 7, FALSE)
  IN [v |-> [i \in DOMAIN raw.v |-> {IF x = 0 THEN 1 ELSE 2 * x : x \in raw.v[i]}], at |-> raw.at]

(* Optional tables of mode probabilities share one flag.                    *)
ReadModeTable(wire, at, n) ==
  IF Bit(wire, at, 128)
  THEN [v |-> Some([i \in 1..n |-> ReadLiteral(wire, at + 1 + 8 * (i - 1), 8).v]), at |-> at + 1 + 8 * n]
  ELSE [v |-> None, at |-> at + 1]

-----------------------------------------------------------------------------
(* The frame tag, as a 24-bit word over its three bytes, and what follows   *)
(* it in a key frame.                                                       *)
Byte(word, k) == (word \div 256^k) % 256
Bytes(word, n) == [k \in 1..n |-> Byte(word, k - 1)]
TagWord(key, version, show, size) ==
  (IF key THEN 0 ELSE 1) + 2 * (version % 8) + (IF show THEN 16 ELSE 0) + 32 * (size % 2^19)
StartCode == <<157, 1, 42>>
write_frame_tag(key, version, show, size, width, height, hscale, vscale) ==
  Bytes(TagWord(key, version, show, size), 3)
  \o When(key, StartCode \o Bytes(hscale * 2^14 + (width % 2^14), 2)
                         \o Bytes(vscale * 2^14 + (height % 2^14), 2))

(* The encoder patches the bit of a finished frame.                         *)
set_show_frame_bit(tag, show) ==
  [tag EXCEPT ![1] = (@ - (16 * ((@ \div 16) % 2))) + (IF show THEN 16 ELSE 0)]

decode_version(version) ==
  CASE version = 0 -> <<"bicubic", "normal">>
    [] version = 1 -> <<"bilinear", "simple">>
    [] version = 2 -> <<"bilinear", "none">>
    [] version = 3 -> <<"none", "none">>
    [] OTHER -> <<"reserved", "reserved">>

Word(bytes, at, n) == Sums([k \in 0..n - 1 |-> bytes[at + k + 1] * 256^k], n)[n]
parse_header(bytes) ==
  LET tag == Word(bytes, 0, 3)
      key == tag % 2 = 0
      h == Word(bytes, 6, 2)
      v == Word(bytes, 8, 2)
  IN [key |-> key, version |-> (tag \div 2) % 8, filters |-> decode_version((tag \div 2) % 8),
      show |-> (tag \div 16) % 2 = 1, size |-> (tag \div 32) % 2^19,
      picture |-> IF key THEN Some([width |-> h % 2^14, hscale |-> h \div 2^14,
                                    height |-> v % 2^14, vscale |-> v \div 2^14]) ELSE None,
      consumed |-> IF key THEN 10 ELSE 3]
=============================================================================
