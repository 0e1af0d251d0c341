------------------------------ MODULE MCKernels ------------------------------
(* Inputs for the kernels: small pictures with texture, vectors of every kind *)
(* (whole, half, quarter and odd; inside, across and far outside the picture; *)
(* so long that doubling them wraps), and costs with ties and near ties.      *)
EXTENDS Kernels

Texture(r, c, k) == (r * r * 7 + c * 13 + r * c * 3 + k * 29 + (r \div 3) * (c \div 5) * 11) % 256
Picture(h, w, k) == [h |-> h, w |-> w, px |-> [r \in 0..h - 1 |-> [c \in 0..w - 1 |-> Texture(r, c, k)]]]
MCReferences == <<[y |-> Picture(32, 32, 1), uv |-> Picture(16, 16, 2)]>>

(* The first reference moved by whole and by part pixels.                     *)
Slid(plane, dr, dc) ==
  [plane EXCEPT !.px = [r \in 0..31 |-> [c \in 0..31 |->
     plane.px[Inter!Clamp(r + dr, 0, 31)][Inter!Clamp(c + dc, 0, 31)]]]]
Halved(plane) ==
  [plane EXCEPT !.px = [r \in 0..31 |-> [c \in 0..31 |->
     (plane.px[r][c] + plane.px[r][Inter!AtMost(c + 1, 31)] + 1) \div 2]]]
MCSources == <<Slid(Picture(32, 32, 1), 1, -2), Halved(Picture(32, 32, 1))>>

Vector(row, col) == [row |-> row, col |-> col]
MCPlaces == {Vector(0, 1), Vector(1, 0)}
MCMotionVectors ==
  {Vector(0, 0), Vector(-4, 8), Vector(2, 0), Vector(0, -3), Vector(-5, 7), Vector(-1020, 300), Vector(16385, -2)}
MCStarts == {Vector(0, 0), Vector(3, -7), Vector(-1023, 1023), Vector(40, -1024)}
(* Windows for an anchor: frames that slide, differ in noise, or are of       *)
(* another scene, of odd sizes.                                               *)
Scene(h, w, k, dr, dc, noise) ==
  [h |-> h, w |-> w, px |-> [r \in 0..h - 1 |-> [c \in 0..w - 1 |->
     ((r + dr) * (r + dr) * 3 + (c + dc) * 9 + k + noise * ((r * 5 + c * 3) % 3)) % 256]]]
FrameOf(k, dr, dc, noise) ==
  [y |-> Scene(5, 7, k, dr, dc, noise), u |-> Scene(3, 4, k + 40, dr, 0, noise), v |-> Scene(3, 4, 90 - k, 0, dc, noise)]
MCWindows == <<<<FrameOf(20, 0, 0, 0), FrameOf(20, 1, 2, 2), FrameOf(20, 0, -1, 5)>>,
               <<FrameOf(20, 0, 0, 3), FrameOf(140, 0, 0, 0)>>, <<FrameOf(20, 3, 3, 0)>>,
               <<FrameOf(9, 0, 0, 0), FrameOf(9, 0, 0, 0)>>>>
MCSteps == <<2, 1>>
MCBlockGroups == {<<"quarters", 2>>, <<"mv16", 6>>, <<"left_right", 1>>, <<"top_bottom", 0>>}

MCPredictions == {[k \in 0..15 |-> 16 * k], [k \in 0..15 |-> 128], [k \in 0..15 |-> IF k % 2 = 0 THEN 3 ELSE 252]}
MCResidues ==
  {[k \in 0..15 |-> 0], [k \in 0..15 |-> 20], [k \in 0..15 |-> IF k \div 4 < 2 THEN 37 ELSE -41],
   [k \in 0..15 |-> ((k * k * 13) % 61) - 30], [k \in 0..15 |-> IF k = 6 THEN 200 ELSE -3]}
(* The finest and the coarsest steps, and some that the deltas and a segment  *)
(* move to and past the ends of the tables.                                   *)
NoDelta == [y_dc |-> 0, y2_dc |-> 0, y2_ac |-> 0, uv_dc |-> 0, uv_ac |-> 0]
MCFactors == {Coding!for_segment(0, 0, FALSE, NoDelta), Coding!for_segment(100, 60, FALSE, NoDelta),
              Coding!for_segment(90, 30, TRUE, [NoDelta EXCEPT !.y_dc = -15, !.y2_ac = 15, !.uv_ac = -15])}
MCFractions == {0, 2, 3}

(* Trellis: four positions, prices that depend on everything they can.        *)
MCBlocks == {[k \in 0..3 |-> CASE k = 0 -> a [] k = 1 -> b [] k = 2 -> c [] k = 3 -> d] :
               a \in {-21, 3}, b \in {0, 9}, c \in {-6, 14}, d \in {0, 5, -13}}
MCRate(k, ctx, after_zero, level) ==
  (IF level = 0 THEN 1 + ctx ELSE 2 + 2 * level - ctx) + (IF after_zero THEN 0 ELSE 1) + (k % 2)
MCEob(k, ctx) == 1 + 2 * ctx + (k % 2)
MCSpecs == {[first |-> f, entry |-> e, dc |-> 6, ac |-> 5, lambda |-> l, norm |-> [k \in 0..3 |-> 1 + (k % 3)]] :
              f \in {0, 1}, e \in {0, 2}, l \in {0, 2, 9}}

(* -log2(p / 256) for p = 1, 2 ..., in 1/256 bits.                           *)
MCBitCost == <<
  2048, 1792, 1642, 1536, 1454, 1386, 1329, 1280, 1236, 1198, 1162, 1130,
    1101, 1073, 1048, 1024, 1002, 980, 961, 942, 924, 906, 890, 874, 859,
    845, 831, 817, 804, 792, 780, 768, 757, 746, 735, 724, 714, 705, 695,
    686, 676, 668, 659, 650, 642, 634, 626, 618, 611, 603, 596, 589, 582,
    575, 568, 561, 555, 548, 542, 536, 530, 524, 518, 512, 506, 501, 495,
    490, 484, 479, 474, 468, 463, 458, 453, 449, 444, 439, 434, 430, 425,
    420, 416, 412, 407, 403, 399, 394, 390, 386, 382, 378, 374, 370, 366,
    362, 358, 355, 351, 347, 343, 340, 336, 333, 329, 326, 322, 319, 315,
    312, 309, 305, 302, 299, 296, 292, 289, 286, 283, 280, 277, 274, 271,
    268, 265, 262, 259, 256, 253, 250, 247, 245, 242, 239, 236, 234, 231,
    228, 226, 223, 220, 218, 215, 212, 210, 207, 205, 202, 200, 197, 195,
    193, 190, 188, 185, 183, 181, 178, 176, 174, 171, 169, 167, 164, 162,
    160, 158, 156, 153, 151, 149, 147, 145, 143, 140, 138, 136, 134, 132,
    130, 128, 126, 124, 122, 120, 118, 116, 114, 112, 110, 108, 106, 104,
    102, 101, 99, 97, 95, 93, 91, 89, 87, 86, 84, 82, 80, 78, 77, 75, 73, 71,
    70, 68, 66, 64, 63, 61, 59, 58, 56, 54, 53, 51, 49, 48, 46, 44, 43, 41,
    40, 38, 36, 35, 33, 32, 30, 28, 27, 25, 24, 22, 21, 19, 18, 16, 15, 13,
    12, 10, 9, 7, 6, 4, 3, 1 >>
MCBranchCounts == {<<a, b>> : a \in {0, 1, 7, 40, 1000, 30000}, b \in {0, 1, 3, 41, 900, 20000}}
MCDefaults == {[old |-> o, update |-> u] : o \in {1, 90, 128, 253, 255}, u \in {255, 186, 1}}

(* Two references, with and without predicted vectors and split layouts.      *)
NoSplit == [p \in {} |-> 0]
MCWholes == {[zero |-> 20, new |-> 12], [zero |-> 9, nearest |-> 11, near |-> 9, new |-> 10],
             [zero |-> 15, nearest |-> 8, new |-> 14]}
MCSplits == {NoSplit, [left_right |-> 6], [top_bottom |-> 6, quarters |-> 3, mv16 |-> 4],
             [top_bottom |-> 4, left_right |-> 5, mv16 |-> 1]}
MCOffers ==
  {[refs |-> refs, pick_intra |-> i, intra |-> 7, intra_bits |-> 3, inter_bits |-> 1,
    of |-> [last |-> [whole |-> w, split |-> s, split_bits |-> 2, ref_bits |-> 0],
            golden |-> [whole |-> v, split |-> s, split_bits |-> 2, ref_bits |-> 1]]] :
     refs \in {<<"last">>, <<"last", "golden">>}, i \in BOOLEAN,
     w \in MCWholes, v \in MCWholes, s \in MCSplits}
(* Runs: flat, stepped by little and by much, ramped, and at both ends of a   *)
(* byte; pictures with weak, strong and unfiltered macroblocks.               *)
MCRuns == {<<a, a, a, a + d, b - d, b, b, b>> : a \in {2, 100, 250}, b \in {4, 103, 110, 253}, d \in {-2, 0, 1}}
          \cup {<<s, s + t, s + (2 * t), s + (3 * t), s + (4 * t), s + (5 * t), s + (6 * t), s + (7 * t)>> :
                   s \in {30, 120}, t \in {1, 3, 12}}
          \cup {<<0, 255, 0, 255, 0, 255, 0, 255>>, <<90, 97, 92, 95, 101, 99, 104, 98>>}
MCFilterParams == {Strength!derive(level, sharpness, key) : level \in {1, 16, 63}, sharpness \in {0, 5}, key \in BOOLEAN}
Wide(i, j) == [level |-> i, inner |-> j]
MCPlans ==
  {[size |-> 16, sharpness |-> 0, simple |-> s, mbs |-> mbs] : s \in BOOLEAN,
     mbs \in {<<Wide(63, TRUE), Wide(40, FALSE), Wide(0, FALSE), Wide(63, TRUE)>>,
              <<Wide(0, FALSE), Wide(63, FALSE), Wide(30, TRUE), Wide(0, FALSE)>>}}
  \cup {[size |-> 8, sharpness |-> 3, simple |-> FALSE, mbs |-> [k \in 1..16 |-> Wide((k * 23) % 64, k % 3 # 0)]]}
Curve(f, g) == [l \in 0..63, s \in 0..7 |-> IF l = 0 THEN f[0] ELSE f[l] + g[s]]
MCScores ==
  {Curve([l \in 0..63 |-> 3 * Deblock!Far(l, m) + 10], [s \in 0..7 |-> Deblock!Far(s, t)]) :
     m \in {0, 1, 6, 27, 61, 63}, t \in {0, 2, 7}}
  \cup {Curve([l \in 0..63 |-> (l * 37) % 50], [s \in 0..7 |-> 0]),
        Curve([l \in 0..63 |-> 20], [s \in 0..7 |-> 0])}
MCEdges ==
  {[above |-> [k \in 0..7 |-> (17 * k * k + a) % 256], left |-> [k \in 0..3 |-> (91 * k + 5 * b) % 256],
    topleft |-> t] : a \in {0, 200}, b \in {3, 44}, t \in {0, 129}}
(* Prices of tokens and modes: more for more and larger levels, less for what *)
(* the neighbours make likely.                                                *)
MCTokenBits(type, ctx, block) ==
  LET first == IF type = "YAfterY2" THEN 1 ELSE 0
      Price(k) == IF block[k] = 0 THEN 0 ELSE 4 + Intra!AtMost(Picks!Magnitude(block[k]), 20)
  IN 3 - ctx + MapThenSumSet(Price, first..15)
MCYModeBits(mode) == CASE mode = "b" -> 1 [] mode = "tm" -> 4 [] OTHER -> 3
MCUvModeBits(mode) == CASE mode = "dc" -> 1 [] mode = "v" -> 2 [] OTHER -> 3
MCSubblockModeBits(above, left, mode) == IF mode \in {above, left} THEN 1 ELSE 4
MCInterYModeBits(mode) == IF mode = "dc" THEN 1 ELSE 4
=============================================================================
