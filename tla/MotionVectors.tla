--------------------------- MODULE MotionVectors ---------------------------
(***************************************************************************)
(* Motion vector prediction (near_mv.rs): the census of the three          *)
(* neighbours that both ends run before a macroblock's mode is coded, the  *)
(* clamp of its candidates, and the vectors of a split macroblock's        *)
(* sub-blocks.  Vectors are pairs of 16-bit integers in quarter pixels.    *)
(***************************************************************************)
EXTENDS Integers, FiniteSets

Width16 == 65536
Int16 == -(Width16 \div 2) .. (Width16 \div 2) - 1
Wrap16(x) == ((x + Width16 \div 2) % Width16) - Width16 \div 2

Mv == [row : Int16, col : Int16]
ZeroMv == [row |-> 0, col |-> 0]
Plus(v, w) == [row |-> Wrap16(v.row + w.row), col |-> Wrap16(v.col + w.col)]
Minus(v, w) == [row |-> Wrap16(v.row - w.row), col |-> Wrap16(v.col - w.col)]

RefFrames == {"last", "golden", "altref"}
Intra == "intra"  \* ref_frame = None

(* What a macroblock leaves for the ones after it; split_mvs is consulted   *)
(* only when is_split.                                                      *)
Whole(ref, mv) ==
  [ref |-> ref, mv |-> mv, is_split |-> FALSE, split_mvs |-> [b \in 0..15 |-> mv]]
SplitInto(ref, mvs) == [ref |-> ref, mv |-> mvs[15], is_split |-> TRUE, split_mvs |-> mvs]
Border == Whole(Intra, ZeroMv)

-----------------------------------------------------------------------------
(* The census.  bias is the set of reference frames whose sign bias is set. *)

Biased(nb, ref, bias) ==
  IF (nb.ref \in bias) # (ref \in bias) THEN Minus(ZeroMv, nb.mv) ELSE nb.mv

(* near_mvs, the cursor mv_idx into it, which cnt_idx always equals, and    *)
(* cnt.                                                                     *)
NoneFound == [mvs |-> [i \in 0..3 |-> ZeroMv], idx |-> 0, cnt |-> [i \in 0..3 |-> 0]]

(* One neighbour: it votes for the candidate it repeats, for a new one, or, *)
(* with a zero vector, for slot 0.                                          *)
Surveyed(s, nb, weight, ref, bias) ==
  LET this == Biased(nb, ref, bias)
      fresh == nb.mv # ZeroMv /\ this # s.mvs[s.idx]
      idx == IF fresh THEN s.idx + 1 ELSE s.idx
      vote == IF nb.mv = ZeroMv THEN 0 ELSE idx
  IN IF nb.ref = Intra THEN s
     ELSE [mvs |-> IF fresh THEN [s.mvs EXCEPT ![idx] = this] ELSE s.mvs,
           idx |-> idx,
           cnt |-> [s.cnt EXCEPT ![vote] = @ + weight]]

(* Three distinct vectors, the last of which repeats the first.             *)
Merged(s) ==
  IF s.cnt[3] # 0 /\ s.mvs[s.idx] = s.mvs[1]
  THEN [s EXCEPT !.cnt[1] = @ + 1] ELSE s

SplitVotes(above, left, aboveleft) ==
  LET flag(nb) == IF nb.is_split THEN 1 ELSE 0
  IN 2 * (flag(above) + flag(left)) + flag(aboveleft)

Swapped(f) == [f EXCEPT ![1] = f[2], ![2] = f[1]]
Ranked(s) ==
  IF s.cnt[2] > s.cnt[1]
  THEN [s EXCEPT !.cnt = Swapped(@), !.mvs = Swapped(@)] ELSE s

BestFirst(s) ==
  IF s.cnt[1] >= s.cnt[0] THEN [s EXCEPT !.mvs[0] = s.mvs[1]] ELSE s

SurveyedAll(above, left, aboveleft, ref, bias) ==
  Surveyed(Surveyed(Surveyed(NoneFound, above, 2, ref, bias),
                    left, 2, ref, bias),
           aboveleft, 1, ref, bias)

find_near_mvs(above, left, aboveleft, ref, bias) ==
  LET merged == Merged(SurveyedAll(above, left, aboveleft, ref, bias))
      votes == SplitVotes(above, left, aboveleft)
  IN BestFirst(Ranked([merged EXCEPT !.cnt[3] = votes]))

(* The candidates of a census.                                              *)
Best(near) == near.mvs[0]
Nearest(near) == near.mvs[1]
Near(near) == near.mvs[2]

-----------------------------------------------------------------------------
(* The clamp rectangle of macroblock (row, col), one macroblock around the  *)
(* frame.                                                                   *)
MvClampRect(row, col, rows, cols) ==
  [to_left |-> -((col + 1) * 64), to_right |-> (cols - col) * 64,
   to_top |-> -((row + 1) * 64), to_bottom |-> (rows - row) * 64]

Clamped(x, lo, hi) == IF x < lo THEN lo ELSE IF x > hi THEN hi ELSE x

clamp_mv(mv, bounds) ==
  [row |-> Clamped(mv.row, bounds.to_top, bounds.to_bottom),
   col |-> Clamped(mv.col, bounds.to_left, bounds.to_right)]

-----------------------------------------------------------------------------
(* Split macroblocks: which group each sub-block belongs to.                *)

Layouts == {"top_bottom", "left_right", "quarters", "mv16"}
Group(layout, b) ==
  LET row == b \div 4  col == b % 4
  IN CASE layout = "top_bottom" -> row \div 2
       [] layout = "left_right" -> col \div 2
       [] layout = "quarters"   -> 2 * (row \div 2) + col \div 2
       [] layout = "mv16"       -> b
Members(layout, g) == { b \in 0..15 : Group(layout, b) = g }
Groups(layout) == { Group(layout, b) : b \in 0..15 }
Anchor(layout, g) == CHOOSE b \in Members(layout, g) : \A c \in Members(layout, g) : b <= c

(* The vector a neighbouring macroblock shows at its sub-block b.           *)
BlockMv(nb, b) ==
  IF nb.ref = Intra THEN ZeroMv
  ELSE IF nb.is_split THEN nb.split_mvs[b] ELSE nb.mv

above_block_mv(this, above, b) == IF b < 4 THEN BlockMv(above, b + 12) ELSE this[b - 4]
left_block_mv(this, left, b) == IF b % 4 = 0 THEN BlockMv(left, b + 3) ELSE this[b - 1]

(* Which of the five rows of SUBMV_REF_PROBS a sub-mode is coded against.   *)
submv_ref_context(left, above) ==
  CASE left = above /\ left = ZeroMv -> 4
    [] left = above /\ left # ZeroMv -> 3
    [] left # above /\ above = ZeroMv -> 2
    [] left # above /\ left = ZeroMv -> 1
    [] OTHER -> 0

Filled(this, layout, g, mv) ==
  [b \in 0..15 |-> IF Group(layout, b) = g THEN mv ELSE this[b]]
=============================================================================
