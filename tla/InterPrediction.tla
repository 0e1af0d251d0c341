-------------------------- MODULE InterPrediction --------------------------
(* Motion-compensated prediction as motion_comp.rs computes it: blocks are    *)
(* fetched from the reference plane on one of several paths, and interpolated *)
(* with as few filter passes as the fractions allow.                          *)
EXTENDS Pixels
LOCAL Vectors == INSTANCE MotionVectors

(* Sub-pixel filters: six taps of weight 128 in all, by eighths of a pixel.   *)
SixtapFilters ==
  <<<<0, 0, 128, 0, 0, 0>>, <<0, -6, 123, 12, -1, 0>>, <<2, -11, 108, 36, -8, 1>>,
    <<0, -9, 93, 50, -6, 0>>, <<3, -16, 77, 77, -16, 3>>, <<0, -6, 50, 93, -9, 0>>,
    <<1, -8, 36, 108, -11, 2>>, <<0, -1, 12, 123, -6, 0>>>>
BilinearFilters == [f \in 1..8 |-> <<0, 0, 128 - 16 * (f - 1), 16 * (f - 1), 0, 0>>]
filter_set_for_version(version) == IF version = 0 THEN SixtapFilters ELSE BilinearFilters

(* One filtered pixel, from the six that the taps weigh.                      *)
interp(t, px) ==
  clamp255((t[1] * px[1] + t[2] * px[2] + t[3] * px[3] + t[4] * px[4] + t[5] * px[5] + t[6] * px[6] + 64)
             \div 128)
DownFrom(px, r, c) == <<px[r][c], px[r + 1][c], px[r + 2][c], px[r + 3][c], px[r + 4][c], px[r + 5][c]>>
AlongFrom(row, c) == <<row[c], row[c + 1], row[c + 2], row[c + 3], row[c + 4], row[c + 5]>>
IdentityTaps == <<0, 0, 128, 0, 0, 0>>

(* Luma vectors are stored in eighths, in 16 bits; chroma planes are half as  *)
(* large, so a chroma vector is an average in the same units.                 *)
stored_luma_mv(mv) == Vectors!Plus(mv, mv)
OneEighth(sum) == IF sum >= 0 THEN (sum + 4) \div 8 ELSE -((4 - sum) \div 8)
chroma_mv(mv) == [row |-> OneEighth(4 * mv.row), col |-> OneEighth(4 * mv.col)]
apply_full_pixel(mv) == [row |-> mv.row - (mv.row % 8), col |-> mv.col - (mv.col % 8)]
FullPixelOf(mv, full_pixel) == IF full_pixel THEN apply_full_pixel(mv) ELSE mv
WholePart(v) == v \div 8
Fraction(v) == v % 8
(* Mutant: a vector with one whole component is taken for a whole one.      *)
HasFractionInBoth(mv) == Fraction(mv.row) # 0 /\ Fraction(mv.col) # 0

HasFraction(mv) == Fraction(mv.row) # 0 \/ Fraction(mv.col) # 0

(* An n by n block whose corner is at (row, col): straight from the plane     *)
(* where it lies inside, pixel by pixel with the edges repeated elsewhere.    *)
Inside(plane, row, col, n) ==
  row >= 0 /\ col >= 0 /\ row + n <= plane.h /\ col + n <= plane.w
Fetched(plane, row, col, n) ==
  IF Inside(plane, row, col, n)
  THEN LET Px(r, c) == plane.px[row + r][col + c] IN Square(n, Px)
  ELSE LET Px(r, c) == plane.px[Clamp(row + r, 0, plane.h - 1)][Clamp(col + c, 0, plane.w - 1)]
       IN Square(n, Px)
FetchedWhole(plane, row, col, n, mv) == Fetched(plane, row + WholePart(mv.row), col + WholePart(mv.col), n)
(* The filters reach two pixels before the block and three after it.          *)
FetchedHalo(plane, row, col, n, mv) ==
  Fetched(plane, row + WholePart(mv.row) - 2, col + WholePart(mv.col) - 2, n + 5)

(* The blocks the code fetches: 4x4, a macroblock of luma or one of chroma.   *)
fetch_block_halo(plane, row, col, mv) == FetchedHalo(plane, row, col, 4, mv)
fetch_luma_mb_halo(plane, row, col, mv) == FetchedHalo(plane, row, col, 16, mv)
fetch_chroma_mb_halo(plane, row, col, mv) == FetchedHalo(plane, row, col, 8, mv)
fetch_block_whole_pixel(plane, row, col, mv) == FetchedWhole(plane, row, col, 4, mv)
fetch_luma_mb_whole_pixel(plane, row, col, mv) == FetchedWhole(plane, row, col, 16, mv)
fetch_chroma_mb_whole_pixel(plane, row, col, mv) == FetchedWhole(plane, row, col, 8, mv)

-----------------------------------------------------------------------------
(* The two filter passes over a halo for fractions mx and my, first along     *)
(* rows, five more than the block has, then along columns.                    *)

sixtap_horiz(reference, rows, cols, taps) ==
  [r \in 0..rows - 1 |-> [c \in 0..cols - 1 |-> interp(taps, AlongFrom(reference[r], c))]]
sixtap_vert(reference, rows, cols, taps) ==
  [r \in 0..rows - 1 |-> [c \in 0..cols - 1 |-> interp(taps, DownFrom(reference, r, c))]]
BothPasses(halo, n, mx, my, filters) ==
  sixtap_vert(sixtap_horiz(halo, n + 5, n, filters[mx + 1]), n, n, filters[my + 1])
sixtap_2d_scalar(halo, mx, my, filters) == BothPasses(halo, 4, mx, my, filters)
sixtap_mb_luma_scalar(halo, mx, my, filters) == BothPasses(halo, 16, mx, my, filters)
sixtap_mb_chroma_scalar(halo, mx, my, filters) == BothPasses(halo, 8, mx, my, filters)

(* A pass whose taps are the identity is left out; <<>> when neither is.      *)
sixtap_identity_elide(halo, n, mx, my, filters) ==
  LET horizontal == filters[mx + 1]
      vertical == filters[my + 1]
      Copied(r, c) == halo[r + 2][c + 2]
      Down(r, c) == interp(vertical, DownFrom(halo, r, c + 2))
      Along(r, c) == interp(horizontal, AlongFrom(halo[r + 2], c))
  IN CASE horizontal = IdentityTaps /\ vertical = IdentityTaps -> Square(n, Copied)
       [] horizontal = IdentityTaps /\ vertical # IdentityTaps -> Square(n, Down)
       [] horizontal # IdentityTaps /\ vertical = IdentityTaps -> Square(n, Along)
       [] OTHER -> <<>>

(* A row of n pixels at a time, and no pass left out: the rows of the halo,   *)
(* shifted by one pixel after another, are weighed as they are; then the rows *)
(* that makes.                                                                *)
WeighedRow(n, taps, rows) ==
  [lane \in 0..n - 1 |->
     clamp255((64 + taps[1] * rows[1][lane] + taps[2] * rows[2][lane] + taps[3] * rows[3][lane]
                  + taps[4] * rows[4][lane] + taps[5] * rows[5][lane] + taps[6] * rows[6][lane]) \div 128)]
SixtapInRows(halo, n, mx, my, filters) ==
  LET Shifted(r) == [k \in 1..6 |-> [lane \in 0..n - 1 |-> halo[r][lane + k - 1]]]
      temp == [r \in 0..n + 4 |-> WeighedRow(n, filters[mx + 1], Shifted(r))]
  IN [r \in 0..n - 1 |-> WeighedRow(n, filters[my + 1], [k \in 1..6 |-> temp[r + k - 1]])]
sixtap_2d_simd(halo, mx, my, filters) == SixtapInRows(halo, 4, mx, my, filters)
sixtap_mb_luma_simd(halo, mx, my, filters) == SixtapInRows(halo, 16, mx, my, filters)
sixtap_mb_chroma_simd(halo, mx, my, filters) == SixtapInRows(halo, 8, mx, my, filters)

(* The plain build, which the rest of this module follows; a build with the   *)
(* "simd" feature uses the rows.                                              *)
OrBothPasses(elided, passes) == IF elided = <<>> THEN passes ELSE elided
sixtap_2d(halo, mx, my, filters) ==
  OrBothPasses(sixtap_identity_elide(halo, 4, mx, my, filters), sixtap_2d_scalar(halo, mx, my, filters))
sixtap_mb_luma(halo, mx, my, filters) ==
  OrBothPasses(sixtap_identity_elide(halo, 16, mx, my, filters), sixtap_mb_luma_scalar(halo, mx, my, filters))
sixtap_mb_chroma(halo, mx, my, filters) ==
  OrBothPasses(sixtap_identity_elide(halo, 8, mx, my, filters), sixtap_mb_chroma_scalar(halo, mx, my, filters))

filter_block_4x4(plane, row, col, mv, filters) ==
  IF HasFraction(mv)
  THEN sixtap_2d(fetch_block_halo(plane, row, col, mv), Fraction(mv.col), Fraction(mv.row), filters)
  ELSE fetch_block_whole_pixel(plane, row, col, mv)
PredictedLuma(plane, row, col, mv, filters) ==
  IF HasFraction(mv)
  THEN sixtap_mb_luma(fetch_luma_mb_halo(plane, row, col, mv), Fraction(mv.col), Fraction(mv.row), filters)
  ELSE fetch_luma_mb_whole_pixel(plane, row, col, mv)
PredictedChroma(plane, row, col, mv, filters) ==
  IF HasFraction(mv)
  THEN sixtap_mb_chroma(fetch_chroma_mb_halo(plane, row, col, mv), Fraction(mv.col), Fraction(mv.row), filters)
  ELSE fetch_chroma_mb_whole_pixel(plane, row, col, mv)

(* A macroblock with one vector: a 16x16 luma block and an 8x8 chroma block   *)
(* (u and v alike) at its place.                                              *)
predict_inter_mb(reference, at, luma_mv, full_pixel, filters) ==
  LET stored == stored_luma_mv(luma_mv)
      ymv == FullPixelOf(stored, full_pixel)
      uvmv == FullPixelOf(chroma_mv(stored), full_pixel)
  IN [y |-> PredictedLuma(reference.y, 16 * at.row, 16 * at.col, ymv, filters),
      uv |-> PredictedChroma(reference.uv, 8 * at.row, 8 * at.col, uvmv, filters)]

(* A split macroblock: sixteen 4x4 luma blocks, and four chroma blocks whose  *)
(* vectors average those of the four luma blocks over them, unwrapped.        *)
split_chroma_mvs(mvs) ==
  [b \in 0..3 |->
    LET first == 8 * (b \div 2) + 2 * (b % 2)
        Sum(f) == 2 * (mvs[first][f] + mvs[first + 1][f] + mvs[first + 4][f] + mvs[first + 5][f])
    IN [row |-> OneEighth(Sum("row")), col |-> OneEighth(Sum("col"))]]

Tiled(n, Block(_, _)) ==
  LET Px(r, c) == Block(r \div 4, c \div 4)[r % 4][c % 4] IN Square(n, Px)

(* The predictor for whole vectors only, which fetches in 4x4 blocks; <<>> is *)
(* its refusal of a vector with a fraction.                                   *)
predict_inter_mb_whole_pixel(reference, at, luma_mv, full_pixel) ==
  LET stored == stored_luma_mv(luma_mv)
      ymv == FullPixelOf(stored, full_pixel)
      uvmv == FullPixelOf(chroma_mv(stored), full_pixel)
      Luma(i, j) == fetch_block_whole_pixel(reference.y, 16 * at.row + 4 * i, 16 * at.col + 4 * j, ymv)
      Chroma(i, j) == fetch_block_whole_pixel(reference.uv, 8 * at.row + 4 * i, 8 * at.col + 4 * j, uvmv)
  IN IF HasFraction(ymv) \/ HasFraction(uvmv) THEN <<>> ELSE [y |-> Tiled(16, Luma), uv |-> Tiled(8, Chroma)]
predict_split_mv(reference, at, mvs, full_pixel, filters) ==
  LET Luma(i, j) ==
        filter_block_4x4(reference.y, 16 * at.row + 4 * i, 16 * at.col + 4 * j,
                         FullPixelOf(stored_luma_mv(mvs[4 * i + j]), full_pixel), filters)
      chroma == split_chroma_mvs(mvs)
      Chroma(i, j) ==
        filter_block_4x4(reference.uv, 8 * at.row + 4 * i, 8 * at.col + 4 * j,
                         FullPixelOf(chroma[2 * i + j], full_pixel), filters)
  IN [y |-> Tiled(16, Luma), uv |-> Tiled(8, Chroma)]
=============================================================================
