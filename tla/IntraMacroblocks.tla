-------------------------- MODULE IntraMacroblocks --------------------------
(* Intra macroblocks at both ends.  First, prediction from the pixels around  *)
(* a macroblock: what is gathered from the picture under construction         *)
(* (frame.rs), the buffer in which the sixteen subblocks of a B_PRED          *)
(* macroblock are predicted one after the other (reconstruct.rs, and the      *)
(* encoder's own copy of it), and the predictors (intra_predict.rs).  Then    *)
(* how the encoder codes one (encoder.rs): whole, in one of four modes, or in *)
(* sixteen subblocks that each have a mode of ten and are predicted from each *)
(* other; and how the decoder rebuilds it (reconstruct.rs).  Coefficients are *)
(* quantised by rounding, as with the trellis off; EncoderChoices has the     *)
(* trellis.  The price of tokens and of modes in bits is the constants'.      *)
EXTENDS Pixels, Sequences
CONSTANTS
  TokenBits(_, _, _),         \* of a block: its type, the context, the block
  YModeBits(_), UvModeBits(_),
  SubblockModeBits(_, _, _),  \* of a mode below and to the right of two others
  InterYModeBits(_), InterUvModeBits(_)  \* the same in an inter frame
LOCAL Coding == INSTANCE Transforms

DEFAULT_ABOVE_PIXEL == 127
DEFAULT_LEFT_PIXEL == 129
DEFAULT_TOPLEFT_DC == 128

(* An edge outside the picture is the empty function.                         *)
Absent == << >>
OrElse(edge, n, pixel) == IF edge = Absent THEN [k \in 0..n - 1 |-> pixel] ELSE edge

(* The edges of the n by n block of the macroblock at (row, col).             *)
AboveEdge(plane, n, row, col) ==
  IF row > 0 THEN [c \in 0..n - 1 |-> plane.px[n * row - 1][n * col + c]] ELSE Absent
LeftEdge(plane, n, row, col) ==
  IF col > 0 THEN [r \in 0..n - 1 |-> plane.px[n * row + r][n * col - 1]] ELSE Absent
TopLeft(plane, n, row, col) ==
  CASE row = 0 -> DEFAULT_ABOVE_PIXEL
    [] row > 0 /\ col = 0 -> DEFAULT_LEFT_PIXEL
    [] OTHER -> plane.px[n * row - 1][n * col - 1]
AboveRight(plane, row, col) ==
  IF row = 0 THEN Absent
  ELSE [k \in 0..3 |-> LET next == 16 * col + 16
                       IN plane.px[16 * row - 1][IF next = plane.w THEN next - 1 ELSE next + k]]
gather_neighbors(plane, row, col) ==
  [above |-> AboveEdge(plane, 16, row, col), left |-> LeftEdge(plane, 16, row, col),
   topleft |-> TopLeft(plane, 16, row, col), above_right |-> AboveRight(plane, row, col)]

write_mb(plane, row, col, recon) ==
  [plane EXCEPT !.px = [r \in 0..plane.h - 1 |-> [c \in 0..plane.w - 1 |->
     IF r \div 16 = row /\ c \div 16 = col THEN recon[r % 16][c % 16] ELSE plane.px[r][c]]]]

-----------------------------------------------------------------------------
(* B_PRED.  The buffer has a border row and a border column before the        *)
(* macroblock and four more columns after it, which stay 0 but for the copies *)
(* of the pixels above and to the right.                                      *)

(* Mutant: the pixels above and to the right stand one row too high.         *)
build_bpred_work_buffer_shifted(nb) ==
  LET above == OrElse(nb.above, 16, DEFAULT_ABOVE_PIXEL)
      above_right == OrElse(nb.above_right, 4, DEFAULT_ABOVE_PIXEL)
      left == OrElse(nb.left, 16, DEFAULT_LEFT_PIXEL)
  IN [r \in 0..16 |-> [c \in 0..20 |->
       CASE r = 0 /\ c = 0 -> nb.topleft
         [] r = 0 /\ c \in 1..16 -> above[c - 1]
         [] r > 0 /\ c = 0 -> left[r - 1]
         [] c > 16 /\ r \in {0, 3, 7, 11} -> above_right[c - 17]
         [] OTHER -> 0]]

build_bpred_work_buffer(nb) ==
  LET above == OrElse(nb.above, 16, DEFAULT_ABOVE_PIXEL)
      above_right == OrElse(nb.above_right, 4, DEFAULT_ABOVE_PIXEL)
      left == OrElse(nb.left, 16, DEFAULT_LEFT_PIXEL)
  IN [r \in 0..16 |-> [c \in 0..20 |->
       CASE r = 0 /\ c = 0 -> nb.topleft
         [] r = 0 /\ c \in 1..16 -> above[c - 1]
         [] r > 0 /\ c = 0 -> left[r - 1]
         [] c > 16 /\ r \in {0, 4, 8, 12} -> above_right[c - 17]
         [] OTHER -> 0]]
build_enc_bpred_buffer(nb) ==
  LET above == OrElse(nb.above, 16, DEFAULT_ABOVE_PIXEL)
      extra == OrElse(nb.above_right, 4, DEFAULT_ABOVE_PIXEL)
      left == OrElse(nb.left, 16, DEFAULT_LEFT_PIXEL)
      border == [c \in 0..20 |-> IF c = 0 THEN nb.topleft
                                 ELSE IF c <= 16 THEN above[c - 1] ELSE extra[c - 17]]
  IN [r \in 0..16 |-> IF r = 0 THEN border
       ELSE [c \in 0..20 |-> IF c = 0 THEN left[r - 1]
                             ELSE IF c > 16 /\ r - 1 \in {3, 7, 11} THEN extra[c - 17] ELSE 0]]

(* What the predictor of subblock b is given, and the buffer with it decoded. *)
SubblockNeighbors(buf, b) ==
  LET i == b \div 4  j == b % 4
  IN [above |-> [k \in 0..7 |-> buf[4 * i][4 * j + 1 + k]],
      left |-> [r \in 0..3 |-> buf[4 * i + 1 + r][4 * j]],
      topleft |-> buf[4 * i][4 * j]]
WithSubblock(buf, b, recon) ==
  [r \in 0..16 |-> [c \in 0..20 |->
    IF r > 0 /\ c \in 1..16 /\ (r - 1) \div 4 = b \div 4 /\ (c - 1) \div 4 = b % 4
    THEN recon[(r - 1) % 4][(c - 1) % 4] ELSE buf[r][c]]]
ReconstructionArea(buf) == [r \in 0..15 |-> [c \in 0..15 |-> buf[r + 1][c + 1]]]

-----------------------------------------------------------------------------
(* The predictors.                                                            *)

avg2(x, y) == (x + y + 1) \div 2
avg3(x, y, z) == (x + y + y + z + 2) \div 4

EdgeSum(edge, n) == SumBelow(n, LAMBDA k : edge[k])
predict_dc_with_optional_edges(n, above, left) ==
  CASE above # Absent /\ left # Absent -> (EdgeSum(above, n) + EdgeSum(left, n) + n) \div (2 * n)
    [] above # Absent /\ left = Absent -> (EdgeSum(above, n) + n \div 2) \div n
    [] above = Absent /\ left # Absent -> (EdgeSum(left, n) + n \div 2) \div n
    [] OTHER -> DEFAULT_TOPLEFT_DC

(* The four modes of a whole luma or chroma block.                            *)
PredictWhole(n, mode, above, left, p) ==
  LET a == OrElse(above, n, DEFAULT_ABOVE_PIXEL)
      l == OrElse(left, n, DEFAULT_LEFT_PIXEL)
      Flat(r, c) == predict_dc_with_optional_edges(n, above, left)
      Down(r, c) == a[c]
      Across(r, c) == l[r]
      TrueMotion(r, c) == clamp255(l[r] + a[c] - p)
  IN CASE mode = "dc" -> Square(n, Flat)
       [] mode = "v" -> Square(n, Down)
       [] mode = "h" -> Square(n, Across)
       [] mode = "tm" -> Square(n, TrueMotion)

(* True motion by rows, from the row above less the corner.                   *)
predict_tm_simd(n, above, left, p) ==
  LET a_minus_p == [c \in 0..n - 1 |-> above[c] - p]
      Px(r, c) == clamp255(left[r] + a_minus_p[c])
  IN Square(n, Px)

(* The diagonal subblock modes average two or three neighbours of an edge:    *)
(* the table of a mode names the place and number for each of its pixels.     *)
Two(k) == [at |-> k, taps |-> 2]
Three(k) == [at |-> k, taps |-> 3]
Last(k) == [at |-> k, taps |-> 1]
LdTable == <<<<Three(1), Three(2), Three(3), Three(4)>>, <<Three(2), Three(3), Three(4), Three(5)>>,
             <<Three(3), Three(4), Three(5), Three(6)>>, <<Three(4), Three(5), Three(6), Last(6)>>>>
RdTable == <<<<Three(4), Three(5), Three(6), Three(7)>>, <<Three(3), Three(4), Three(5), Three(6)>>,
             <<Three(2), Three(3), Three(4), Three(5)>>, <<Three(1), Three(2), Three(3), Three(4)>>>>
(* Mutant: the last row of VR begins with the wrong average.                 *)
VrTableShifted == <<<<Two(4), Two(5), Two(6), Two(7)>>, <<Three(4), Three(5), Three(6), Three(7)>>,
             <<Three(3), Two(4), Two(5), Two(6)>>, <<Three(3), Three(4), Three(5), Three(6)>>>>

VrTable == <<<<Two(4), Two(5), Two(6), Two(7)>>, <<Three(4), Three(5), Three(6), Three(7)>>,
             <<Three(3), Two(4), Two(5), Two(6)>>, <<Three(2), Three(4), Three(5), Three(6)>>>>
VlTable == <<<<Two(0), Two(1), Two(2), Two(3)>>, <<Three(1), Three(2), Three(3), Three(4)>>,
             <<Two(1), Two(2), Two(3), Three(5)>>, <<Three(2), Three(3), Three(4), Three(6)>>>>
HdTable == <<<<Two(3), Three(4), Three(5), Three(6)>>, <<Two(2), Three(3), Two(3), Three(4)>>,
             <<Two(1), Three(2), Two(2), Three(3)>>, <<Two(0), Three(1), Two(1), Three(2)>>>>
HuTable == <<<<Two(0), Three(1), Two(1), Three(2)>>, <<Two(1), Three(2), Two(2), Last(2)>>,
             <<Two(2), Last(2), Two(3), Two(3)>>, <<Two(3), Two(3), Two(3), Two(3)>>>>
(* Last(k) doubles the edge's final pixel, which follows place k.             *)
Averaged(edge, entry) ==
  CASE entry.taps = 1 -> avg3(edge[entry.at], edge[entry.at + 1], edge[entry.at + 1])
    [] entry.taps = 2 -> avg2(edge[entry.at], edge[entry.at + 1])
    [] entry.taps = 3 -> avg3(edge[entry.at - 1], edge[entry.at], edge[entry.at + 1])
Tabled(edge, table) ==
  LET Px(r, c) == Averaged(edge, table[r + 1][c + 1]) IN Square(4, Px)

(* Edges as the code lays them out: around the corner from the bottom left    *)
(* (E), the row above and its extension, and the column to the left; HU reads *)
(* the last pixel of the column alone, as if it were repeated.                *)
CornerEdge(nb) ==
  [k \in 0..8 |-> IF k < 4 THEN nb.left[3 - k] ELSE IF k = 4 THEN nb.topleft ELSE nb.above[k - 5]]
LeftRepeated(nb) == [k \in 0..4 |-> nb.left[AtMost(k, 3)]]

predict_b4x4(mode, nb) ==
  LET above == nb.above  left == nb.left  p == nb.topleft
      Flat(r, c) == (SumBelow(4, LAMBDA k : above[k] + left[k]) + 4) \div 8
      TrueMotion(r, c) == clamp255(left[r] + above[c] - p)
      Down(r, c) == avg3(IF c = 0 THEN p ELSE above[c - 1], above[c], above[c + 1])
      Across(r, c) == avg3(IF r = 0 THEN p ELSE left[r - 1], left[r], left[AtMost(r + 1, 3)])
  IN CASE mode = "dc" -> Square(4, Flat)
       [] mode = "tm" -> Square(4, TrueMotion)
       [] mode = "ve" -> Square(4, Down)
       [] mode = "he" -> Square(4, Across)
       [] mode = "ld" -> Tabled(above, LdTable)
       [] mode = "rd" -> Tabled(CornerEdge(nb), RdTable)
       [] mode = "vr" -> Tabled(CornerEdge(nb), VrTable)
       [] mode = "vl" -> Tabled(above, VlTable)
       [] mode = "hd" -> Tabled(CornerEdge(nb), HdTable)
       [] mode = "hu" -> Tabled(LeftRepeated(nb), HuTable)

-----------------------------------------------------------------------------
WholeModes == <<"dc", "v", "h", "tm">>
SubblockModes == <<"dc", "tm", "ve", "he", "ld", "rd", "vr", "vl", "hd", "hu">>

(* A square of pixels as 4x4 blocks in raster order, and what is left of it.  *)
Raster(px, b, across) ==
  Coding!Block(LAMBDA k : px[4 * (b \div across) + (k \div 4)][4 * (b % across) + (k % 4)])
InBlocks(px, across) == [b \in 0..across * across - 1 |-> Raster(px, b, across)]
Residual(src, pred) == Coding!Block(LAMBDA k : src[k] - pred[k])
Residuals(src, pred) == [b \in DOMAIN src |-> Residual(src[b], pred[b])]

(* Cost is distortion plus lambda times bits, lambda being in 32nds.          *)
block_ssd(recon, src) == SumBelow(16, LAMBDA k : (recon[k] - src[k]) * (recon[k] - src[k]))
Distortion(recon, src, blocks) == SumBelow(blocks, LAMBDA b : block_ssd(recon[b], src[b]))
rd_lambda(factors) == factors.y1.ac * factors.y1.ac
Cost(distortion, bits, factors) == 32 * distortion + rd_lambda(factors) * bits

(* The first of the cheapest candidates, in the order they are tried.         *)
FirstCheapest(modes, Coded(_)) ==
  LET best[n \in 1..Len(modes)] ==
        LET candidate == Coded(modes[n])  before == best[n - 1]
        IN IF n = 1 THEN candidate ELSE IF candidate.cost < before.cost THEN candidate ELSE before
  IN best[Len(modes)]

-----------------------------------------------------------------------------
(* Bits of the blocks of an isolated macroblock: a block's context is how     *)
(* many of the blocks above and to the left of it, in the macroblock, have    *)
(* coefficients.  first is 1 where the DC travels elsewhere.                  *)
HasCoefficients(block, first) == \E k \in first..15 : block[k] # 0
Bit(b) == IF b THEN 1 ELSE 0
ContextIn(blocks, b, across, first) ==
  Bit(b >= across /\ HasCoefficients(blocks[b - across], first))
  + Bit(b % across > 0 /\ HasCoefficients(blocks[b - 1], first))
estimate_whole_block_luma_bits(quant) ==
  TokenBits("Y2", 0, quant.y2)
  + SumBelow(16, LAMBDA b : TokenBits("YAfterY2", ContextIn(quant.y, b, 4, 1), quant.y[b]))
ChromaBits(quant) == SumBelow(4, LAMBDA b : TokenBits("UV", ContextIn(quant, b, 2, 0), quant[b]))

WholeLuma(src, nb, mode, factors) ==
  LET pred == InBlocks(PredictWhole(16, mode, nb.above, nb.left, nb.topleft), 4)
      quant == Coding!transform_whole_block_luma(Residuals(src, pred), factors)
      recon == Coding!reconstruct_whole_block_luma(pred, quant, factors)
  IN [mode |-> mode, y |-> quant.y, y2 |-> quant.y2, recon |-> recon,
      cost |-> Cost(Distortion(recon, src, 16),
                    estimate_whole_block_luma_bits(quant) + YModeBits(mode), factors)]
pick_y16x16_mode(src, nb, factors) ==
  FirstCheapest(WholeModes, LAMBDA mode : WholeLuma(src, nb, mode, factors))

(* Both chroma planes share a mode; u and v are [src, above, left, topleft].  *)
ChromaPrediction(plane, mode) == InBlocks(PredictWhole(8, mode, plane.above, plane.left, plane.topleft), 2)
ChromaPlane(plane, mode, factors) ==
  LET pred == ChromaPrediction(plane, mode)
      quant == Coding!transform_chroma_plane(Residuals(plane.src, pred), factors)
      recon == Coding!reconstruct_chroma_plane(pred, quant, factors)
  IN [quant |-> quant, recon |-> recon, ssd |-> Distortion(recon, plane.src, 4), bits |-> ChromaBits(quant)]
ChromaCoded(u, v, mode, factors) ==
  LET cu == ChromaPlane(u, mode, factors)  cv == ChromaPlane(v, mode, factors)
  IN [mode |-> mode, u |-> cu.quant, v |-> cv.quant, recon |-> [u |-> cu.recon, v |-> cv.recon],
      cost |-> Cost(cu.ssd + cv.ssd, cu.bits + cv.bits + UvModeBits(mode), factors)]
pick_uv8x8_mode(u, v, factors) == FirstCheapest(WholeModes, LAMBDA mode : ChromaCoded(u, v, mode, factors))

-----------------------------------------------------------------------------
(* The sixteen subblocks: coding has the buffer they are predicted in, the    *)
(* next of them, and the modes, coefficients and cost so far.                 *)
StartSubblocks(nb) ==
  [buf |-> build_enc_bpred_buffer(nb), next |-> 0, cost |-> 0,
   modes |-> [b \in 0..15 |-> "dc"], y |-> [b \in 0..15 |-> Coding!Block(LAMBDA k : 0)]]
AboveMode(modes, b) == IF b < 4 THEN "dc" ELSE modes[b - 4]
LeftMode(modes, b) == IF b % 4 = 0 THEN "dc" ELSE modes[b - 1]

Subblock(src, coding, mode, factors) ==
  LET b == coding.next
      pred == Raster(predict_b4x4(mode, SubblockNeighbors(coding.buf, b)), 0, 1)
      quant == Coding!enc_quantize_block(Coding!forward_dct_4x4(Residual(src[b], pred)), factors.y1)
      recon == Coding!reconstruct_block_4x4(pred, quant, factors.y1)
      bits == TokenBits("YNoY2", ContextIn(coding.y, b, 4, 0), quant)
              + SubblockModeBits(AboveMode(coding.modes, b), LeftMode(coding.modes, b), mode)
  IN [mode |-> mode, quant |-> quant, recon |-> recon, cost |-> Cost(block_ssd(recon, src[b]), bits, factors)]
SubblockOf(block) == Square(4, LAMBDA r, c : block[4 * r + c])
encode_bpred_luma(src, coding, factors) ==
  LET b == coding.next
      best == FirstCheapest(SubblockModes, LAMBDA mode : Subblock(src, coding, mode, factors))
  IN [coding EXCEPT !.next = b + 1, !.cost = @ + best.cost, !.modes[b] = best.mode, !.y[b] = best.quant,
                    !.buf = WithSubblock(@, b, SubblockOf(best.recon))]

(* The macroblock: in subblocks if that is cheaper, the price of saying so    *)
(* included.                                                                  *)
encode_mb_block_set(whole, coding, uv, factors) ==
  LET in_subblocks == coding.cost + rd_lambda(factors) * YModeBits("b")
      use_bpred == in_subblocks < whole.cost
  IN [y_mode |-> IF use_bpred THEN "b" ELSE whole.mode, uv_mode |-> uv.mode, modes |-> coding.modes,
      y |-> IF use_bpred THEN coding.y ELSE whole.y,
      y2 |-> IF use_bpred THEN Coding!Block(LAMBDA k : 0) ELSE whole.y2,
      u |-> uv.u, v |-> uv.v, cost |-> IF use_bpred THEN in_subblocks ELSE whole.cost]

(* Nothing left to send: the luma's DCs count where they travel with it.      *)
NothingToSend(mb) ==
  LET first == IF mb.y_mode = "b" THEN 0 ELSE 1
  IN /\ ~HasCoefficients(mb.y2, 0) /\ \A b \in 0..15 : ~HasCoefficients(mb.y[b], first)
     /\ \A b \in 0..3 : ~HasCoefficients(mb.u[b], 0) /\ ~HasCoefficients(mb.v[b], 0)
Dequantised(mb, factors) ==
  LET dq == Coding!dequantize_mb([y |-> mb.y, y2 |-> mb.y2, uv |-> mb.u], factors)
  IN [y |-> dq.y, y2 |-> dq.y2, u |-> dq.uv, v |-> [b \in 0..3 |-> Coding!dequant_block(mb.v[b], factors.uv)]]

-----------------------------------------------------------------------------
(* The decoder: a subblock from the buffer so far, and a whole macroblock.    *)
Added(pred, skip, coeffs) ==
  IF skip THEN pred ELSE Coding!add_residue_4x4(pred, Coding!inverse_dct_4x4(coeffs))
decode_keyframe_mb_bpred(buf, b, mode, skip, coeffs) ==
  LET pred == Raster(predict_b4x4(mode, SubblockNeighbors(buf, b)), 0, 1)
  IN WithSubblock(buf, b, SubblockOf(Added(pred, skip, coeffs)))
DecodedWhole(nb, mode, skip, coeffs) ==
  Coding!decode_keyframe_mb_non_bpred(InBlocks(PredictWhole(16, mode, nb.above, nb.left, nb.topleft), 4),
                                      skip, coeffs)
DecodedChroma(plane, mode, skip, coeffs) ==
  LET pred == ChromaPrediction(plane, mode) IN [b \in 0..3 |-> Added(pred[b], skip, coeffs[b])]

-----------------------------------------------------------------------------
(* In an inter frame: whole modes only, by what the prediction leaves of the  *)
(* luma, and the bits of both modes.                                          *)
Sad(src, pred) ==
  SumBelow(16, LAMBDA b : SumBelow(16, LAMBDA k :
    IF src[b][k] < pred[b][k] THEN pred[b][k] - src[b][k] ELSE src[b][k] - pred[b][k]))
IntraScore(src, nb, modes, factors) ==
  LET pred == InBlocks(PredictWhole(16, modes[1], nb.above, nb.left, nb.topleft), 4)
  IN [modes |-> modes,
      cost |-> Cost(Sad(src, pred), InterYModeBits(modes[1]) + InterUvModeBits(modes[2]), factors)]
Candidate(modes, luma, u, v) ==
  [y_mode |-> modes[1], uv_mode |-> modes[2], y |-> luma.y, y2 |-> luma.y2, u |-> u.quant, v |-> v.quant]
Rebuilt(mb, nb, u, v, skip, dq) ==
  [y |-> DecodedWhole(nb, mb.y_mode, skip, dq), u |-> DecodedChroma(u, mb.uv_mode, skip, dq.u),
   v |-> DecodedChroma(v, mb.uv_mode, skip, dq.v)]
Scored(mb, nb, u, v, cost, factors) ==
  [mb |-> mb, cost |-> cost, skip |-> NothingToSend(mb),
   recon |-> Rebuilt(mb, nb, u, v, NothingToSend(mb), Dequantised(mb, factors))]
score_intra_mb_candidate(src, nb, u, v, best, factors) ==
  Scored(Candidate(best.modes, WholeLuma(src, nb, best.modes[1], factors),
                   ChromaPlane(u, best.modes[2], factors), ChromaPlane(v, best.modes[2], factors)),
         nb, u, v, best.cost, factors)
ModePairs == [n \in 1..16 |-> <<WholeModes[((n - 1) \div 4) + 1], WholeModes[((n - 1) % 4) + 1]>>]
pick_intra_mb_all(src, nb, u, v, factors) ==
  score_intra_mb_candidate(src, nb, u, v,
    FirstCheapest(ModePairs, LAMBDA modes : IntraScore(src, nb, modes, factors)), factors)
=============================================================================
