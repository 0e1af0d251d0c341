----------------------------- MODULE Transforms -----------------------------
(* The 4x4 transforms (forward_transform.rs, inverse_transform.rs), the       *)
(* quantiser on both sides (encoder.rs, dequant.rs), and the reconstruction   *)
(* of a block from its quantised coefficients as the decoder does it and as   *)
(* the encoder does it for itself.  A block of coefficients or of residue is  *)
(* a function on 0..15 in raster order.                                       *)
EXTENDS Pixels

DC_QLOOKUP == <<
    4, 5, 6, 7, 8, 9, 10, 10, 11, 12, 13, 14, 15, 16, 17, 17, 18, 19, 20, 20, 21, 21, 22,
    22, 23, 23, 24, 25, 25, 26, 27, 28, 29, 30, 31, 32, 33, 34, 35, 36, 37, 37, 38, 39, 40,
    41, 42, 43, 44, 45, 46, 46, 47, 48, 49, 50, 51, 52, 53, 54, 55, 56, 57, 58, 59, 60, 61,
    62, 63, 64, 65, 66, 67, 68, 69, 70, 71, 72, 73, 74, 75, 76, 76, 77, 78, 79, 80, 81, 82,
    83, 84, 85, 86, 87, 88, 89, 91, 93, 95, 96, 98, 100, 101, 102, 104, 106, 108, 110, 112,
    114, 116, 118, 122, 124, 126, 128, 130, 132, 134, 136, 138, 140, 143, 145, 148, 151,
    154, 157 >>
AC_QLOOKUP == <<
    4, 5, 6, 7, 8, 9, 10, 11, 12, 13, 14, 15, 16, 17, 18, 19, 20, 21, 22, 23, 24, 25, 26,
    27, 28, 29, 30, 31, 32, 33, 34, 35, 36, 37, 38, 39, 40, 41, 42, 43, 44, 45, 46, 47, 48,
    49, 50, 51, 52, 53, 54, 55, 56, 57, 58, 60, 62, 64, 66, 68, 70, 72, 74, 76, 78, 80, 82,
    84, 86, 88, 90, 92, 94, 96, 98, 100, 102, 104, 106, 108, 110, 112, 114, 116, 119, 122,
    125, 128, 131, 134, 137, 140, 143, 146, 149, 152, 155, 158, 161, 164, 167, 170, 173,
    177, 181, 185, 189, 193, 197, 201, 205, 209, 213, 217, 221, 225, 229, 234, 239, 245,
    249, 254, 259, 264, 269, 274, 279, 284 >>

Zigzag == <<0, 1, 4, 8, 5, 2, 3, 6, 9, 12, 13, 10, 7, 11, 14, 15>>
Block(Value(_)) == [k \in 0..15 |-> Value(k)]
Int16Of(v) == ((v + 32768) % 65536) - 32768

(* A separable transform: a butterfly of four values down each column, then   *)
(* along each row, and a rounding of the result.  The passes go through       *)
(* tuples, so that each value is worked out once.                             *)
Separable(Butterfly(_, _, _, _), Round(_), x) ==
  LET Column(c) == Butterfly(x[c], x[4 + c], x[8 + c], x[12 + c])
      down == <<Column(0), Column(1), Column(2), Column(3)>>
      Row(r) == Butterfly(down[1][r], down[2][r], down[3][r], down[4][r])
      rows == <<Row(1), Row(2), Row(3), Row(4)>>
  IN Block(LAMBDA k : Round(rows[(k \div 4) + 1][(k % 4) + 1]))

(* sqrt(2) cos(pi/8) and sqrt(2) sin(pi/8) in 16-bit fixed point.             *)
c_mul(i) == i + ((i * 20091) \div 65536)
s_mul(i) == (i * 35468) \div 65536
HalfAway(v) == IF v >= 0 THEN (v + 1) \div 2 ELSE -((1 - v) \div 2)
round_div2(v) == Clamp(HalfAway(v), -32768, 32767)

Hadamard(i0, i1, i2, i3) ==
  LET a == i0 + i3  b == i1 + i2  c == i1 - i2  d == i0 - i3
  IN <<a + b, c + d, a - b, d - c>>
ForwardCosine(i0, i1, i2, i3) ==
  LET a == i0 + i3  b == i1 + i2
      c == (c_mul(i0) - c_mul(i3)) + (s_mul(i1) - s_mul(i2))
      d == (s_mul(i0) - s_mul(i3)) - (c_mul(i1) - c_mul(i2))
  IN <<a + b, c, a - b, d>>
InverseCosine(i0, i1, i2, i3) ==
  LET a == i0 + i2  b == i0 - i2
      c == s_mul(i1) - c_mul(i3)
      d == c_mul(i1) + s_mul(i3)
  IN <<a + d, b + c, b - c, a - d>>

forward_wht_4x4(x) == Separable(Hadamard, round_div2, x)
forward_dct_4x4(x) == Separable(ForwardCosine, round_div2, x)
inverse_wht_4x4(x) == Separable(Hadamard, LAMBDA v : Int16Of((v + 3) \div 8), x)
inverse_dct_4x4(x) == Separable(InverseCosine, LAMBDA v : Int16Of((v + 4) \div 8), x)

(* The same four at a time: a lane holds a column in the first pass and, once *)
(* transposed, a row in the second, whose values are then stored with a stride *)
(* of four.                                                                   *)
Transposed(v) ==
  LET Lane(i) == <<v[1][i], v[2][i], v[3][i], v[4][i]>> IN <<Lane(1), Lane(2), Lane(3), Lane(4)>>
Lanewise(Butterfly(_, _, _, _), rows) ==
  LET Of(lane) == Butterfly(rows[1][lane], rows[2][lane], rows[3][lane], rows[4][lane])
  IN Transposed(<<Of(1), Of(2), Of(3), Of(4)>>)
SeparableInLanes(Butterfly(_, _, _, _), Round(_), x) ==
  LET Row(i) == <<x[4 * i], x[4 * i + 1], x[4 * i + 2], x[4 * i + 3]>>
      down == Lanewise(Butterfly, <<Row(0), Row(1), Row(2), Row(3)>>)
      o == Lanewise(Butterfly, Transposed(down))
  IN Block(LAMBDA k : Round(o[(k % 4) + 1][(k \div 4) + 1]))
HalfAwayOrNegated(v) == IF v >= 0 THEN (v + 1) \div 2 ELSE 0 - (((0 - v) + 1) \div 2)
round_div2_simd(v) == Clamp(HalfAwayOrNegated(v), -32768, 32767)

forward_wht_4x4_simd(x) == SeparableInLanes(Hadamard, round_div2_simd, x)
forward_dct_4x4_simd(x) == SeparableInLanes(ForwardCosine, round_div2_simd, x)
inverse_wht_4x4_simd(x) == SeparableInLanes(Hadamard, LAMBDA v : Int16Of((v + 3) \div 8), x)
inverse_dct_4x4_simd(x) == SeparableInLanes(InverseCosine, LAMBDA v : Int16Of((v + 4) \div 8), x)
(* This one adds what it gets to the prediction before it is narrowed.        *)
inverse_dct_4x4_add_into_simd(x, pred) ==
  LET res == SeparableInLanes(InverseCosine, LAMBDA v : (v + 4) \div 8, x)
  IN Block(LAMBDA k : clamp255(pred[k] + res[k]))
inverse_wht_4x4_dc_only(dc) == Block(LAMBDA k : Int16Of((dc + 3) \div 8))

-----------------------------------------------------------------------------
(* Quantisation and its inverse; factors is [dc, ac].                         *)

(* The steps of a macroblock: a base index, of the frame or of a segment, and *)
(* the deltas of the frame, which shift the index before the tables are read. *)
dc_q(q) == DC_QLOOKUP[Clamp(q, 0, 127) + 1]
ac_q(q) == AC_QLOOKUP[Clamp(q, 0, 127) + 1]
AtLeast(v, lo) == IF v < lo THEN lo ELSE v
from_base_and_deltas(q, delta) ==
  [y1 |-> [dc |-> dc_q(q + delta.y_dc), ac |-> ac_q(q)],
   y2 |-> [dc |-> 2 * dc_q(q + delta.y2_dc), ac |-> AtLeast((ac_q(q + delta.y2_ac) * 155) \div 100, 8)],
   uv |-> [dc |-> AtMost(dc_q(q + delta.uv_dc), 132), ac |-> ac_q(q + delta.uv_ac)]]
for_segment(y_ac_qi, segment_quant, absolute, delta) ==
  from_base_and_deltas(IF absolute THEN segment_quant ELSE y_ac_qi + segment_quant, delta)

enc_round_div(num, den) ==
  Int16Of(IF num >= 0 THEN (num + den \div 2) \div den ELSE -((den \div 2 - num) \div den))
enc_quantize_block(block, factors) ==
  Block(LAMBDA k : enc_round_div(block[k], IF k = 0 THEN factors.dc ELSE factors.ac))
dequant_block(block, factors) ==
  Block(LAMBDA k : Int16Of(block[k] * (IF k = 0 THEN factors.dc ELSE factors.ac)))

(* Sixteen products at once, by a vector of the steps.                        *)
dequant_block_simd(block, factors) ==
  LET factor_v == Block(LAMBDA k : IF k = 0 THEN factors.dc ELSE factors.ac)
  IN Block(LAMBDA k : Int16Of(block[k] * factor_v[k]))

add_residue_4x4(pred, residue) == Block(LAMBDA k : clamp255(pred[k] + residue[k]))
OnlyDc(block) == \A k \in 1..15 : block[k] = 0

(* Mutant: the shortcut for a lone DC does not round.                       *)
inverse_dct_4x4_add_truncated(block, pred) ==
  IF OnlyDc(block)
  THEN LET dc == block[0] \div 8
       IN IF dc = 0 THEN pred ELSE Block(LAMBDA k : clamp255(pred[k] + dc))
  ELSE add_residue_4x4(pred, inverse_dct_4x4(block))

(* Decoder, one block: a block without AC adds the same value everywhere.     *)
inverse_dct_4x4_add_into(block, pred) ==
  IF OnlyDc(block)
  THEN LET dc == (block[0] + 4) \div 8
       IN IF dc = 0 THEN pred ELSE Block(LAMBDA k : clamp255(pred[k] + dc))
  ELSE add_residue_4x4(pred, inverse_dct_4x4(block))

(* Encoder, one block with a DC of its own.                                   *)
reconstruct_block_4x4(pred, quant, factors) ==
  LET dq == dequant_block(quant, factors)
      d == (dq[0] + 4) \div 8
  IN IF OnlyDc(dq)
     THEN IF d = 0 THEN pred ELSE Block(LAMBDA k : clamp255(pred[k] + d))
     ELSE add_residue_4x4(pred, inverse_dct_4x4(dq))

(* A macroblock whose sixteen DCs travel in a block of their own: y and pred  *)
(* are its blocks, factors has y1 and y2.  The encoder quantises first the    *)
(* DCs and then the rest.                                                     *)
WithDc(block, dc) == [block EXCEPT ![0] = dc]
transform_whole_block_luma(residual, factors) ==
  LET y == [b \in 0..15 |-> forward_dct_4x4(residual[b])]
      y2 == forward_wht_4x4(Block(LAMBDA b : y[b][0]))
  IN [y |-> [b \in 0..15 |-> enc_quantize_block(WithDc(y[b], 0), factors.y1)],
      y2 |-> enc_quantize_block(y2, factors.y2)]
reconstruct_whole_block_luma(pred, quant, factors) ==
  LET dcs == inverse_wht_4x4(dequant_block(quant.y2, factors.y2))
  IN [b \in 0..15 |->
       add_residue_4x4(pred[b], inverse_dct_4x4(WithDc(dequant_block(quant.y[b], factors.y1), dcs[b])))]

(* Decoder, the same macroblock from its dequantised coefficients; a skipped  *)
(* one keeps its prediction.                                                  *)
decode_keyframe_mb_non_bpred(pred, skip, coeffs) ==
  LET dcs == inverse_wht_4x4(coeffs.y2)
  IN IF skip THEN pred
     ELSE [b \in 0..15 |-> add_residue_4x4(pred[b], inverse_dct_4x4(WithDc(coeffs.y[b], dcs[b])))]
dequantize_mb(quant, factors) ==
  [y |-> [b \in 0..15 |-> dequant_block(quant.y[b], factors.y1)],
   y2 |-> dequant_block(quant.y2, factors.y2),
   uv |-> [b \in 0..3 |-> dequant_block(quant.uv[b], factors.uv)]]

(* What the decoder really does: it scales each level as it reads it, in scan *)
(* order and from the first position that is sent; the rest stays 0.          *)
NoBlock == Block(LAMBDA k : 0)
Written(block, slot, level, factors) ==
  IF level = 0 THEN block
  ELSE [block EXCEPT ![slot] = Int16Of(level * (IF slot = 0 THEN factors.dc ELSE factors.ac))]
decode_block_core(quant, first, factors) ==
  LET read[i \in first..16] ==
        IF i = first THEN NoBlock ELSE Written(read[i - 1], Zigzag[i], quant[Zigzag[i]], factors)
  IN read[16]
decode_and_dequantize_mb(quant, has_y2, factors) ==
  [y |-> [b \in 0..15 |-> decode_block_core(quant.y[b], IF has_y2 THEN 1 ELSE 0, factors.y1)],
   y2 |-> IF has_y2 THEN decode_block_core(quant.y2, 0, factors.y2) ELSE NoBlock,
   uv |-> [b \in 0..3 |-> decode_block_core(quant.uv[b], 0, factors.uv)]]

(* An inter macroblock takes the shortcut in every block.  One with a vector  *)
(* for each block has no block of DCs.                                        *)
AddedTo(pred, blocks) == [b \in DOMAIN pred |-> inverse_dct_4x4_add_into(blocks[b], pred[b])]
reconstruct_inter_mb(pred, skip, coeffs) ==
  LET dcs == inverse_wht_4x4(coeffs.y2)
  IN IF skip THEN pred
     ELSE [y |-> AddedTo(pred.y, [b \in 0..15 |-> WithDc(coeffs.y[b], dcs[b])]),
           uv |-> AddedTo(pred.uv, coeffs.uv)]
reconstruct_split_mv_mb(pred, skip, coeffs) ==
  IF skip THEN pred ELSE [y |-> AddedTo(pred.y, coeffs.y), uv |-> AddedTo(pred.uv, coeffs.uv)]

(* The encoder's side of these blocks, without the trellis: chroma, and luma  *)
(* without a block of DCs.                                                    *)
transform_chroma_plane(residual, factors) ==
  [b \in 0..3 |-> enc_quantize_block(forward_dct_4x4(residual[b]), factors.uv)]
reconstruct_chroma_plane(pred, quant, factors) ==
  [b \in 0..3 |-> reconstruct_block_4x4(pred[b], quant[b], factors.uv)]
transform_split_mv_mb(residual, chroma, factors) ==
  [y |-> [b \in 0..15 |-> enc_quantize_block(forward_dct_4x4(residual[b]), factors.y1)],
   y2 |-> NoBlock,
   uv |-> transform_chroma_plane(chroma, factors)]
(* A macroblock of an inter frame as it is coded: it can be skipped when no    *)
(* level is left that would be sent, and what is kept of it is what the        *)
(* decoder's own functions make of its levels.                                 *)
mb_skip_coeff(raw, use_bpred) ==
  \A k \in 0..15 :
    /\ use_bpred \/ raw.y2[k] = 0
    /\ \A b \in 0..15 : raw.y[b][k] = 0 \/ (k = 0 /\ ~use_bpred)
    /\ \A b \in 0..3 : raw.uv[b][k] = 0
transform_whole_mb(residual, chroma, factors) ==
  LET luma == transform_whole_block_luma(residual, factors)
  IN [y |-> luma.y, y2 |-> luma.y2, uv |-> transform_chroma_plane(chroma, factors)]
AsWhole(pred, raw, factors) ==
  [raw |-> raw, skip |-> mb_skip_coeff(raw, FALSE),
   recon |-> reconstruct_inter_mb(pred, mb_skip_coeff(raw, FALSE), dequantize_mb(raw, factors))]
AsSplit(pred, raw, factors) ==
  [raw |-> raw, skip |-> mb_skip_coeff(raw, TRUE),
   recon |-> reconstruct_split_mv_mb(pred, mb_skip_coeff(raw, TRUE), dequantize_mb(raw, factors))]
=============================================================================
