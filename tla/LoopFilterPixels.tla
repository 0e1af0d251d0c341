-------------------------- MODULE LoopFilterPixels --------------------------
(* What the loop filter does to pixels (loop_filter.rs): the kernels that     *)
(* work on one run of pixels across an edge, as written for one run and as    *)
(* written for four at a time; the edges of a macroblock in the order they    *)
(* are filtered; and the encoder's choice of level and sharpness.  How strong *)
(* the filter is comes from LoopFilterLevels.                                 *)
EXTENDS Pixels, Sequences

(* A run is <<p3, p2, p1, p0, q0, q1, q2, q3>>, the edge between p0 and q0.   *)
clamp_s8(v) == Clamp(v, -128, 127)
u2s(v) == v - 128
s2u(v) == clamp_s8(v) + 128
Far(a, b) == IF a < b THEN b - a ELSE a - b

(* The adjustment of the two pixels at an edge; p1 .. q1 are signed.          *)
common_adjust(use_outer_taps, p1, p0, q0, q1) ==
  LET a == clamp_s8((IF use_outer_taps THEN clamp_s8(p1 - q1) ELSE 0) + 3 * (q0 - p0))
      b == clamp_s8(a + 3) \div 8
      c == clamp_s8(a + 4) \div 8
  IN [a |-> c, p0 |-> p0 + b, q0 |-> q0 - c]

EdgeMetric(seg) == Far(seg[4], seg[5]) * 2 + Far(seg[3], seg[6]) \div 2
simple_segment(limit, seg) ==
  LET adjusted == common_adjust(TRUE, u2s(seg[3]), u2s(seg[4]), u2s(seg[5]), u2s(seg[6]))
  IN IF EdgeMetric(seg) <= limit
     THEN [seg EXCEPT ![4] = s2u(adjusted.p0), ![5] = s2u(adjusted.q0)] ELSE seg

filter_yes(interior, limit, seg) ==
  EdgeMetric(seg) <= limit /\ \A k \in {1, 2, 3, 5, 6, 7} : Far(seg[k], seg[k + 1]) <= interior
hev(threshold, seg) == Far(seg[3], seg[4]) > threshold \/ Far(seg[6], seg[5]) > threshold

subblock_filter(params, limit, seg) ==
  LET hv == hev(params.hev_threshold, seg)
      p1 == u2s(seg[3])  p0 == u2s(seg[4])  q0 == u2s(seg[5])  q1 == u2s(seg[6])
      adjusted == common_adjust(hv, p1, p0, q0, q1)
      a == (adjusted.a + 1) \div 2
      inner == [seg EXCEPT ![4] = s2u(adjusted.p0), ![5] = s2u(adjusted.q0)]
  IN CASE ~filter_yes(params.interior_limit, limit, seg) -> seg
       [] filter_yes(params.interior_limit, limit, seg) /\ hv -> inner
       [] OTHER -> [inner EXCEPT ![3] = s2u(p1 + a), ![6] = s2u(q1 - a)]

WideAdjustment(p1, p0, q0, q1) ==
  LET w == clamp_s8(clamp_s8(p1 - q1) + 3 * (q0 - p0))
  IN [k \in 1..3 |-> clamp_s8((9 * (4 - k) * w + 63) \div 128)]
mb_filter(params, limit, seg) ==
  LET p1 == u2s(seg[3])  p0 == u2s(seg[4])  q0 == u2s(seg[5])  q1 == u2s(seg[6])
      a == WideAdjustment(p1, p0, q0, q1)
      adjusted == common_adjust(TRUE, p1, p0, q0, q1)
  IN CASE ~filter_yes(params.interior_limit, limit, seg) -> seg
       [] filter_yes(params.interior_limit, limit, seg) /\ hev(params.hev_threshold, seg) ->
            [seg EXCEPT ![4] = s2u(adjusted.p0), ![5] = s2u(adjusted.q0)]
       [] OTHER ->
            [seg EXCEPT ![2] = s2u(u2s(@) + a[3]), ![3] = s2u(p1 + a[2]), ![4] = s2u(p0 + a[1]),
                        ![5] = s2u(q0 - a[1]), ![6] = s2u(q1 - a[2]), ![7] = s2u(u2s(@) - a[3])]

-----------------------------------------------------------------------------
(* The same for one lane of four: both outcomes are worked out, on signed     *)
(* pixels that are clamped at once, and a mask chooses.                       *)
Select(mask, a, b) == IF mask THEN a ELSE b
common_adjust_v(use_outer_taps, p1, p0, q0, q1) ==
  LET c == common_adjust(use_outer_taps, p1, p0, q0, q1)
  IN [a |-> c.a, p0 |-> clamp_s8(c.p0), q0 |-> clamp_s8(c.q0)]

(* Mutant: the outer pixels move by what the outer taps would have moved.     *)
subblock_filter_v_outer(params, limit, s) ==
  LET hv == hev(params.hev_threshold, s)
      outer == common_adjust_v(TRUE, s[3], s[4], s[5], s[6])
      inner == common_adjust_v(FALSE, s[3], s[4], s[5], s[6])
      a == (outer.a + 1) \div 2
      new == <<s[1], s[2], Select(~hv, clamp_s8(s[3] + a), s[3]), Select(hv, outer.p0, inner.p0),
               Select(hv, outer.q0, inner.q0), Select(~hv, clamp_s8(s[6] - a), s[6]), s[7], s[8]>>
  IN Select(filter_yes(params.interior_limit, limit, s), new, s)
subblock_filter_v(params, limit, s) ==
  LET hv == hev(params.hev_threshold, s)
      outer == common_adjust_v(TRUE, s[3], s[4], s[5], s[6])
      inner == common_adjust_v(FALSE, s[3], s[4], s[5], s[6])
      a == (inner.a + 1) \div 2
      new == <<s[1], s[2], Select(~hv, clamp_s8(s[3] + a), s[3]), Select(hv, outer.p0, inner.p0),
               Select(hv, outer.q0, inner.q0), Select(~hv, clamp_s8(s[6] - a), s[6]), s[7], s[8]>>
  IN Select(filter_yes(params.interior_limit, limit, s), new, s)

mb_filter_v(params, limit, s) ==
  LET hv == hev(params.hev_threshold, s)
      a == WideAdjustment(s[3], s[4], s[5], s[6])
      narrow == common_adjust_v(TRUE, s[3], s[4], s[5], s[6])
      new == <<s[1], Select(~hv, clamp_s8(s[2] + a[3]), s[2]), Select(~hv, clamp_s8(s[3] + a[2]), s[3]),
               Select(hv, narrow.p0, clamp_s8(s[4] + a[1])), Select(hv, narrow.q0, clamp_s8(s[5] - a[1])),
               Select(~hv, clamp_s8(s[6] - a[2]), s[6]), Select(~hv, clamp_s8(s[7] - a[3]), s[7]), s[8]>>
  IN Select(filter_yes(params.interior_limit, limit, s), new, s)

(* This one has unsigned lanes.                                               *)
simple_segment_v(limit, s) ==
  LET adjusted == common_adjust_v(TRUE, s[3] - 128, s[4] - 128, s[5] - 128, s[6] - 128)
      mask == EdgeMetric(s) <= limit
  IN [s EXCEPT ![4] = Select(mask, adjusted.p0 + 128, @), ![5] = Select(mask, adjusted.q0 + 128, @)]

-----------------------------------------------------------------------------
(* Edges.  An edge is [down, at, from, len, mb, simple]: a vertical or        *)
(* horizontal line of len runs, on the border of a macroblock or inside it.   *)

Run(px, edge, k) ==
  [i \in 1..8 |-> LET across == edge.at - 5 + i  along == edge.from + k
                  IN IF edge.down THEN px[along][across] ELSE px[across][along]]
Limit(edge, params) == IF edge.mb THEN params.mbedge_limit ELSE params.sub_bedge_limit

FilteredRun(edge, params, seg) ==
  CASE edge.simple             -> simple_segment(Limit(edge, params), seg)
    [] ~edge.simple /\ edge.mb -> mb_filter(params, Limit(edge, params), seg)
    [] OTHER                   -> subblock_filter(params, Limit(edge, params), seg)

(* Writes the runs back, run k to the pixels it came from.                    *)
Scattered(px, edge, runs) ==
  [r \in DOMAIN px |-> [c \in DOMAIN px[r] |->
     LET across == IF edge.down THEN c ELSE r
         along == IF edge.down THEN r ELSE c
     IN IF across \in edge.at - 4..edge.at + 3 /\ along \in edge.from..edge.from + edge.len - 1
        THEN runs[along - edge.from][across - edge.at + 5] ELSE px[r][c]]]

filter_edge(px, edge, params) ==
  Scattered(px, edge, [k \in 0..edge.len - 1 |-> FilteredRun(edge, params, Run(px, edge, k))])

FilteredLane(edge, params, seg) ==
  LET Signed(s) == [i \in 1..8 |-> s[i] - 128]
      Unsigned(s) == [i \in 1..8 |-> s[i] + 128]
  IN CASE edge.simple             -> simple_segment_v(Limit(edge, params), seg)
       [] ~edge.simple /\ edge.mb -> Unsigned(mb_filter_v(params, Limit(edge, params), Signed(seg)))
       [] OTHER -> Unsigned(subblock_filter_v(params, Limit(edge, params), Signed(seg)))

(* Four runs at a time; lane i of the group that starts at run g is run g + i. *)
filter_edge_simd(px, edge, params) ==
  LET Group(g) == [lane \in 0..3 |-> FilteredLane(edge, params, Run(px, edge, g + lane))]
  IN Scattered(px, edge, [k \in 0..edge.len - 1 |-> Group(4 * (k \div 4))[k % 4]])

(* filter_frame_flags and filter_inter_frame_flags: one macroblock's edges,   *)
(* left, inside, top, inside, in a plane of its size of macroblocks.          *)
MacroblockEdges(row, col, size, inner, simple) ==
  LET Edge(down, at, from, mb) ==
        [down |-> down, at |-> at, from |-> from, len |-> size, mb |-> mb, simple |-> simple]
      Outer(down, n, at, from) == IF n > 0 THEN <<Edge(down, at, from, TRUE)>> ELSE <<>>
      Inner(down, at, from) ==
        IF inner THEN [q \in 1..size \div 4 - 1 |-> Edge(down, at + 4 * q, from, FALSE)] ELSE <<>>
      y == size * row
      x == size * col
  IN Outer(TRUE, col, x, y) \o Inner(TRUE, x, y) \o Outer(FALSE, row, y, x) \o Inner(FALSE, y, x)

-----------------------------------------------------------------------------
(* The encoder's level and sharpness: every fourth level at the sharpness it  *)
(* was given, the levels around the best of these, then every sharpness.      *)
(* score[level, sharpness] is the error of the filtered picture; level 0 does *)
(* not filter, whatever the sharpness.                                        *)
Better(best, candidate, Score(_)) ==
  IF Score(candidate) < Score(best) THEN candidate ELSE best
Sweep(start, candidates, Score(_)) ==
  LET best[n \in 0..Len(candidates)] ==
        IF n = 0 THEN start ELSE Better(best[n - 1], candidates[n], Score)
  IN best[Len(candidates)]

select_filter_params(score, base_sharpness) ==
  LET Score(level) == score[level, base_sharpness]
      coarse == Sweep(0, [n \in 1..15 |-> 4 * n] \o <<63>>, Score)
      near == [n \in 1..7 |-> Clamp(coarse - 4 + n, 0, 63)]
      level == Sweep(coarse, near, Score)
      Sharp(sharpness) == score[level, sharpness]
  IN IF level = 0 THEN [level |-> 0, sharpness |-> base_sharpness]
     ELSE [level |-> level, sharpness |-> Sweep(base_sharpness, [n \in 1..8 |-> n - 1], Sharp)]
=============================================================================
