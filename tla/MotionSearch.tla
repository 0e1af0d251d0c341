---------------------------- MODULE MotionSearch ----------------------------
(* The encoder's motion searches: whole pixels on a diamond, then half and    *)
(* quarter pixels around the result (motion_search.rs), and the diamond that  *)
(* looks for the vector of one part of a split macroblock (encoder.rs).  Each *)
(* weighs a vector by the difference between the source block and what that   *)
(* vector predicts from the reference plane.  Last, the search that aligns    *)
(* the frames around an altref anchor, and their blend (arnr.rs).             *)
EXTENDS InterPrediction, Sequences
LOCAL Layout == INSTANCE MotionVectors

WHOLE_PIXEL_STEP == 4
HALF_PIXEL_STEP == 2
QUARTER_PIXEL_STEP == 1
MV_MAX == 1023
MV_MIN == -1023

Difference(a, b) == IF a > b THEN a - b ELSE b - a

(* Sum of absolute differences over the chosen 4x4 blocks of a macroblock.    *)
Sad(blocks, A(_, _), B(_, _)) ==
  SumBelow(16, LAMBDA b :
    IF b \in blocks
    THEN SumBelow(16, LAMBDA p : LET r == 4 * (b \div 4) + (p \div 4)
                                     c == 4 * (b % 4) + (p % 4)
                                 IN Difference(A(r, c), B(r, c)))
    ELSE 0)

(* The source is a plane too; at is the macroblock's row and column.          *)
SadOfBlock(src, at, block) ==
  Sad(0..15, LAMBDA r, c : src.px[16 * at.row + r][16 * at.col + c], LAMBDA r, c : block[r][c])

mb_luma_sad_at_whole_mv(reference, src, at, mv) ==
  SadOfBlock(src, at, fetch_luma_mb_whole_pixel(reference, 16 * at.row, 16 * at.col, stored_luma_mv(mv)))
mb_luma_sad_at_mv(reference, src, at, mv) ==
  SadOfBlock(src, at, PredictedLuma(reference, 16 * at.row, 16 * at.col, stored_luma_mv(mv),
                                    filter_set_for_version(0)))

(* A search keeps the first of the cheapest candidates it has tried.          *)
Better(best, mv, sad) == IF mv # best.mv /\ sad < best.sad THEN [mv |-> mv, sad |-> sad] ELSE best

clamp_component(v) == Clamp(v, MV_MIN, MV_MAX)
Truncated(v) == IF v < 0 THEN -(((-v) \div 4) * 4) ELSE (v \div 4) * 4
(* Mutant: clamps after the grid, off which the bounds lie.                 *)
OnGridThenClamped(mv) ==
  [row |-> clamp_component(Truncated(mv.row)), col |-> clamp_component(Truncated(mv.col))]

OnGrid(mv) == [row |-> Truncated(clamp_component(mv.row)), col |-> Truncated(clamp_component(mv.col))]
InRange(mv) == [row |-> clamp_component(mv.row), col |-> clamp_component(mv.col)]
Moved(mv, step) == [row |-> mv.row + step[1], col |-> mv.col + step[2]]

Diamond == <<<<-4, 0>>, <<4, 0>>, <<0, -4>>, <<0, 4>>>>
Ring(s) == <<<<-s, -s>>, <<-s, 0>>, <<-s, s>>, <<0, -s>>, <<0, s>>, <<s, -s>>, <<s, 0>>, <<s, s>>>>

(* A round of the diamond moves on with every step that improves; Legal turns *)
(* a candidate into one that the search may try.                              *)
DiamondRound(best, Cost(_), Legal(_)) ==
  LET tried[i \in 0..4] ==
        IF i = 0 THEN best
        ELSE LET from == tried[i - 1]
                 mv == Legal(Moved(from.mv, Diamond[i]))
             IN Better(from, mv, Cost(mv))
  IN tried[4]

(* The search for a macroblock goes on until a round changes nothing.         *)
small_diamond_start(reference, src, at, center) ==
  [mv |-> OnGrid(center), sad |-> mb_luma_sad_at_whole_mv(reference, src, at, OnGrid(center))]
small_diamond_search_luma(reference, src, at, best) ==
  LET Cost(mv) == mb_luma_sad_at_whole_mv(reference, src, at, mv)
  IN DiamondRound(best, Cost, OnGrid)

(* The eight vectors around a fixed center.                                   *)
Refined(reference, src, at, center, s) ==
  LET Cost(mv) == mb_luma_sad_at_mv(reference, src, at, mv)
      tried[i \in 0..8] ==
        IF i = 0 THEN [mv |-> center, sad |-> Cost(center)]
        ELSE LET mv == InRange(Moved(center, Ring(s)[i])) IN Better(tried[i - 1], mv, Cost(mv))
  IN tried[8]
half_pixel_refine_luma(reference, src, at, center) ==
  Refined(reference, src, at, center, HALF_PIXEL_STEP)
quarter_pixel_refine_luma(reference, src, at, center) ==
  Refined(reference, src, at, center, QUARTER_PIXEL_STEP)

-----------------------------------------------------------------------------
(* One group of a split macroblock: a set of 4x4 blocks that share a vector   *)
(* and their rectangle, in pixels.  The rectangle is compared row by row if   *)
(* the whole moved macroblock lies inside the plane, and otherwise the        *)
(* blocks, one by one.                                                        *)
Least(S) == CHOOSE x \in S : \A y \in S : x <= y
Greatest(S) == CHOOSE x \in S : \A y \in S : x >= y
GroupShape(members) ==
  LET rows == {b \div 4 : b \in members}
      cols == {b % 4 : b \in members}
  IN [row0 |-> 4 * Least(rows), col0 |-> 4 * Least(cols),
      h |-> 4 * (Greatest(rows) + 1 - Least(rows)), w |-> 4 * (Greatest(cols) + 1 - Least(cols))]
PartitionGroup(layout, g) ==
  [members |-> Layout!Members(layout, g), shape |-> GroupShape(Layout!Members(layout, g))]

group_sad_at_whole_mv(reference, src, at, blocks, mv) ==
  LET stored == stored_luma_mv(mv)
      row == 16 * at.row + WholePart(stored.row)
      col == 16 * at.col + WholePart(stored.col)
      Source(r, c) == src.px[16 * at.row + r][16 * at.col + c]
      Straight(r, c) == reference.px[row + r][col + c]
      ByBlock(r, c) ==
        fetch_block_whole_pixel(reference, 16 * at.row + 4 * (r \div 4), 16 * at.col + 4 * (c \div 4), stored)
          [r % 4][c % 4]
  IN IF Inside(reference, row, col, 16)
     THEN Sad(blocks, Source, Straight)
     ELSE Sad(blocks, Source, ByBlock)

group_sad_at_whole_mv_shaped(reference, src, at, group, mv) ==
  LET stored == stored_luma_mv(mv)
      row == 16 * at.row + WholePart(stored.row)
      col == 16 * at.col + WholePart(stored.col)
      shape == group.shape
      InRow(r) == SumBelow(shape.w, LAMBDA i :
        Difference(src.px[16 * at.row + r][16 * at.col + shape.col0 + i], reference.px[row + r][col + shape.col0 + i]))
  IN IF Inside(reference, row, col, 16) THEN SumBelow(shape.h, LAMBDA k : InRow(shape.row0 + k))
     ELSE group_sad_at_whole_mv(reference, src, at, group.members, mv)

(* Unlike the search for a macroblock, this one snaps before it clamps and    *)
(* does not snap its candidates.  Rounds after one that changes nothing would *)
(* change nothing either; the code leaves them out.                           *)
SnappedThenClamped(mv) ==
  [row |-> clamp_component(Truncated(mv.row)), col |-> clamp_component(Truncated(mv.col))]
group_small_diamond_search(reference, src, at, group, center, max_iters) ==
  LET Cost(mv) == group_sad_at_whole_mv_shaped(reference, src, at, group, mv)
      start == SnappedThenClamped(center)
      after[k \in 0..max_iters] ==
        IF k = 0 THEN [mv |-> start, sad |-> Cost(start)] ELSE DiamondRound(after[k - 1], Cost, InRange)
  IN after[max_iters]

-----------------------------------------------------------------------------
(* The frames around an anchor, [y, u, v] planes each, are aligned with it    *)
(* block by block: a block is [row, col, h, w], inside the anchor.            *)

W_MAX == 16
BLOCK_SAD_PER_PIXEL_CUTOFF == 12

pel(plane, r, c) == plane.px[Clamp(r, 0, plane.h - 1)][Clamp(c, 0, plane.w - 1)]
LiesIn(plane, row, col, h, w) == row >= 0 /\ col >= 0 /\ row + h <= plane.h /\ col + w <= plane.w
(* Straight from the plane where the moved block lies in it.                  *)
Aligned(plane, blk, mv, straight, r, c) ==
  IF straight THEN plane.px[blk.row + mv.row + r][blk.col + mv.col + c]
  ELSE pel(plane, blk.row + mv.row + r, blk.col + mv.col + c)

(* The difference, given up after the row that makes it reach bound.          *)
block_sad(src, other, blk, mv, bound) ==
  LET straight == LiesIn(other, blk.row + mv.row, blk.col + mv.col, blk.h, blk.w)
      InRow(r) == SumBelow(blk.w, LAMBDA c :
        Difference(src.px[blk.row + r][blk.col + c], Aligned(other, blk, mv, straight, r, c)))
      after[r \in 0..blk.h] ==
        CASE r = 0 -> 0
          [] r > 1 /\ after[r - 1] >= bound -> after[r - 1]
          [] OTHER -> after[r - 1] + InRow(r - 1)
  IN after[blk.h]

(* Rounds of ever smaller steps, each around the best vector of the last; no  *)
(* step in all leads further than one less than twice the first.              *)
Reach(steps) == 2 * steps[1] - 1
InReach(mv, steps) == mv.row \in -Reach(steps)..Reach(steps) /\ mv.col \in -Reach(steps)..Reach(steps)
RefineRound(src, other, blk, from, s, steps) ==
  LET tried[i \in 0..8] ==
        IF i = 0 THEN from
        ELSE LET mv == Moved(from.mv, Ring(s)[i])
                 best == tried[i - 1]
             IN IF InReach(mv, steps) THEN Better(best, mv, block_sad(src, other, blk, mv, best.sad)) ELSE best
  IN tried[8]
refine_search(src, other, blk, steps) ==
  LET zero == [row |-> 0, col |-> 0]
      Unbounded == 256 * blk.h * blk.w
      best[k \in 0..Len(steps)] ==
        IF k = 0 THEN [mv |-> zero, sad |-> block_sad(src, other, blk, zero, Unbounded)]
        ELSE RefineRound(src, other, blk, best[k - 1], steps[k], steps)
  IN best[Len(steps)]

pixel_weight(d, s_scale) == (W_MAX * s_scale) \div (s_scale + d * d)
weight_table(strength) ==
  LET s_scale == 8 * 2^AtMost(strength, 6) IN [d \in 0..255 |-> pixel_weight(d, s_scale)]

(* An accumulator has, for each pixel, the weighted sum and its weight.       *)
accumulate_center(plane) ==
  [r \in 0..plane.h - 1 |-> [c \in 0..plane.w - 1 |-> [sum |-> W_MAX * plane.px[r][c], weight |-> W_MAX]]]
Weighed(at, ctr, px, table, times) ==
  LET wt == times * table[Difference(px, ctr)]
  IN [sum |-> at.sum + wt * px, weight |-> at.weight + wt]
(* The moved block's pixel at each place, as often as the block covers it.    *)
Accumulated(acc, ctr, other, blk, mv, table, Covers(_, _)) ==
  LET straight == LiesIn(other, blk.row + mv.row, blk.col + mv.col, blk.h, blk.w) /\ LiesIn(ctr, blk.row, blk.col, blk.h, blk.w)
  IN [r \in DOMAIN acc |-> [c \in DOMAIN acc[r] |->
        IF Covers(r, c) = 0 THEN acc[r][c]
        ELSE Weighed(acc[r][c], ctr.px[r][c], Aligned(other, blk, mv, straight, r - blk.row, c - blk.col), table,
                     Covers(r, c))]]
accumulate_luma_block(acc, ctr, other, blk, mv, table) ==
  Accumulated(acc, ctr, other, blk, mv, table,
    LAMBDA r, c : IF r \in blk.row..blk.row + blk.h - 1 /\ c \in blk.col..blk.col + blk.w - 1 THEN 1 ELSE 0)
(* What hangs over the edge of a chroma plane counts for its last pixels.     *)
accumulate_chroma_block(acc, ctr, other, blk, mv, table) ==
  LET Times(p, at, n, size) == SumBelow(n, LAMBDA k : IF AtMost(at + k, size - 1) = p THEN 1 ELSE 0)
  IN Accumulated(acc, ctr, other, blk, mv, table,
       LAMBDA r, c : Times(r, blk.row, blk.h, ctr.h) * Times(c, blk.col, blk.w, ctr.w))

BlocksOf(plane, n) ==
  LET across == (plane.w + n - 1) \div n
      Block(row, col) == [row |-> row, col |-> col, h |-> AtMost(plane.h - row, n), w |-> AtMost(plane.w - col, n)]
  IN [k \in 1..across * ((plane.h + n - 1) \div n) |-> Block(n * ((k - 1) \div across), n * ((k - 1) % across))]
TowardsZero(v) == IF v < 0 THEN -((-v) \div 2) ELSE v \div 2
(* Mutant: leaves the last column and row of an odd plane out.                *)
InChromaRoundedDown(blk) ==
  [row |-> blk.row \div 2, col |-> blk.col \div 2, h |-> blk.h \div 2, w |-> blk.w \div 2]
InChroma(blk) == [row |-> blk.row \div 2, col |-> blk.col \div 2, h |-> (blk.h + 1) \div 2, w |-> (blk.w + 1) \div 2]

(* One block of one frame joins the blend, unless it is too unlike.           *)
Matches(blk, found) == found.sad \div (blk.h * blk.w) <= BLOCK_SAD_PER_PIXEL_CUTOFF
Blend(acc, ctr, other, blk, found, table) ==
  LET mv == [row |-> TowardsZero(found.mv.row), col |-> TowardsZero(found.mv.col)]
  IN IF Matches(blk, found)
     THEN [y |-> accumulate_luma_block(acc.y, ctr.y, other.y, blk, found.mv, table),
           u |-> accumulate_chroma_block(acc.u, ctr.u, other.u, InChroma(blk), mv, table),
           v |-> accumulate_chroma_block(acc.v, ctr.v, other.v, InChroma(blk), mv, table)]
     ELSE acc
resolve_plane(plane, acc) ==
  [plane EXCEPT !.px = [r \in DOMAIN acc |-> [c \in DOMAIN acc[r] |->
                          (acc[r][c].sum + acc[r][c].weight \div 2) \div acc[r][c].weight]]]
=============================================================================
