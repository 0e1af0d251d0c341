--------------------------- MODULE TwoPassEncoder ----------------------------
(* Vp8TwoPassEncoder and a caller of it.  The caller studies a clip, with the *)
(* encoder's own first pass or with the free function, and codes its frames   *)
(* in order, each with its complexity; a frame that fails is given up.  The   *)
(* encoder keeps a chain of pictures, the byte account of the clip, and the   *)
(* quantiser index it centres on.  A player decodes what comes out.  A picture *)
(* is kept in whole macroblocks; its size in pixels is in the packet of a key *)
(* frame, and in no other.                                                    *)
EXTENDS Integers, Sequences, FiniteSetsExt

CONSTANTS Shrink,    \* Shrink[q]: bits at index q, in hundredths of those at 50
          Configs,   \* encoder configurations
          Clips,     \* sequences of frames a caller may code
          Coded,     \* Coded[key, q]: the bytes a frame may come out as
          None,
          Err,       \* what a function answers that refuses its arguments
          MaxFrames, \* bound on the frames coded
          MaxClips   \* bound on the clips studied

ASSUME TwoPassAssumption ==
  /\ \A c \in Configs :
       {c.golden_interval, c.qindex, c.lf_level, c.target_bitrate_bps, c.overshoot_ratio, c.fps_num, c.fps_den} \subseteq Nat
  /\ Clips \subseteq Seq([width : Nat, height : Nat, stride : Nat, luma : Seq(Nat)])
  /\ \A q \in 0..127 : Shrink[q] \in Nat /\ \A finer \in 0..q : Shrink[q] <= Shrink[finer]
  /\ \A key \in BOOLEAN, q \in 0..127 : Coded[<<key, q>>] \subseteq Nat
  /\ MaxFrames \in Nat /\ MaxClips \in Nat /\ None \notin Nat \cup Clips \cup {<<>>} \cup [sum : Nat, count : Nat]

-----------------------------------------------------------------------------
(* What the encoder works out before it codes a frame: a measure of each      *)
(* frame from its luma, the bytes a byte rate allows a group of frames, the   *)
(* bytes it predicts for them at a quantiser index, and the index each frame  *)
(* is given.  Numbers are whole: a logarithm is cut, a mean is a pair         *)
(* [sum, count], a ratio is in hundredths.                                    *)

DEFAULT_AQ_QINDEX_RANGE == 8
DEFAULT_SCENE_CUT_QUANT_BOOST == 8
DEFAULT_SCENE_CUT_THRESHOLD == 4096
SCENE_CUT_ABS_FLOOR == 32
RATE_MODEL_MB_FLOOR_BITS == 6

Least(a, b) == IF a < b THEN a ELSE b
Most(a, b) == IF a < b THEN b ELSE a
Clamped(x, lo, hi) == Most(lo, Least(hi, x))
UpDiv(a, b) == (a + b - 1) \div b
Magnitude(x) == IF x < 0 THEN -x ELSE x
(* To the nearest whole number, a half away from zero.                        *)
Nearest(a, b) ==
  LET m == (2 * Magnitude(a) + b) \div (2 * b) IN IF a < 0 THEN -m ELSE m
Log2(x) == Cardinality({k \in 1..16 : 2^k <= x})

-----------------------------------------------------------------------------
(* A frame is [width, height, stride, luma]; the places of its pixels that    *)
(* the first n bytes of luma hold.                                            *)
Places(frame, n) ==
  LET stride == Most(frame.stride, frame.width)
  IN {r * stride + c : r \in 0..frame.height - 1, c \in 0..frame.width - 1} \cap 0..n - 1
SumOver(S, F(_)) == MapThenSumSet(F, S)

luma_variance(frame) ==
  LET places == Places(frame, Len(frame.luma))
      n == Cardinality(places)
      sum == SumOver(places, LAMBDA p : frame.luma[p + 1])
      squares == SumOver(places, LAMBDA p : frame.luma[p + 1] * frame.luma[p + 1])
  IN IF n = 0 THEN 0 ELSE Most(0, (n * squares - sum * sum) \div (n * n))

(* The copy that is kept of a frame has a whole number of rows.               *)
Snapshot(frame) ==
  [p \in 1..frame.height * frame.stride |-> IF p <= Len(frame.luma) THEN frame.luma[p] ELSE 0]
luma_mad_x1024(frame, prev) ==
  LET places == Places(frame, Least(Len(frame.luma), Len(prev)))
      n == Cardinality(places)
  IN IF n = 0 THEN 0
     ELSE (1024 * SumOver(places, LAMBDA p : Magnitude(frame.luma[p + 1] - prev[p + 1]))) \div n

SameSize(f, g) == f.width = g.width /\ f.height = g.height
first_pass_analyze(frames) ==
  [i \in DOMAIN frames |->
     LET mad == IF i > 1 /\ SameSize(frames[i], frames[i - 1])
                THEN luma_mad_x1024(frames[i], Snapshot(frames[i - 1])) ELSE 0
         before == IF i > 1 THEN luma_variance(frames[i - 1]) ELSE 0
     IN [ frame_index |-> i - 1,
          bits_per_mb |-> 30 * Log2(1 + (mad \div 1024)) + 25 * Log2(1 + luma_variance(frames[i])),
          scene_cut |-> /\ i > 1 /\ mad >= SCENE_CUT_ABS_FLOOR
                        /\ mad \div (before + 1) >= DEFAULT_SCENE_CUT_THRESHOLD ]]

(* The terms of a sequence, added one after the other.                        *)
Running(terms) ==
  LET upto[n \in 0..Len(terms)] == IF n = 0 THEN 0 ELSE upto[n - 1] + terms[n] IN upto
Total(terms) == Running(terms)[Len(terms)]

mean_complexity_cost(stats) ==
  IF stats = <<>> THEN [sum |-> 0, count |-> 1]
  ELSE [sum |-> Total([i \in DOMAIN stats |-> stats[i].bits_per_mb]), count |-> Len(stats)]

-----------------------------------------------------------------------------
(* A frame that costs more than the mean is given a finer index, and one      *)
(* after a cut a finer one still.                                             *)
qindex_from_complexity(base, complexity, mean) ==
  LET off == mean.sum - mean.count * complexity.bits_per_mb
      delta == IF mean.sum > mean.count THEN Nearest(off * DEFAULT_AQ_QINDEX_RANGE, mean.sum) ELSE 0
      boost == IF complexity.scene_cut THEN DEFAULT_SCENE_CUT_QUANT_BOOST ELSE 0
  IN Clamped(base + Clamped(delta, -DEFAULT_AQ_QINDEX_RANGE, DEFAULT_AQ_QINDEX_RANGE) - boost, 0, 127)

bitrate_targeted(config) == config.target_bitrate_bps > 0 /\ config.fps_num # 0
(* The bytes of n frames at the target rate.                                  *)
gop_byte_budget(config, n) ==
  (config.target_bitrate_bps * n * Most(config.fps_den, 1)) \div (8 * config.fps_num)

estimate_bits_per_mb(bits, q) == (bits * Shrink[q]) \div 100 + RATE_MODEL_MB_FLOOR_BITS
estimate_frame_bytes(bits, q, width, height) ==
  UpDiv(estimate_bits_per_mb(bits, q) * UpDiv(width, 16) * UpDiv(height, 16), 8)
predict_gop_bytes_at_qindex(stats, width, height, q) ==
  Total([i \in DOMAIN stats |-> estimate_frame_bytes(stats[i].bits_per_mb, q, width, height)])

ceiling_bytes(config, n) == (gop_byte_budget(config, n) * Most(config.overshoot_ratio, 100)) \div 100

(* The finest index at which the group fits, by bisection, because the        *)
(* prediction never grows with the index: of lo and hi, hi fits and lo does   *)
(* not.  A round halves what is between them; after seven the loop is over.   *)
Fitting(config, stats, width, height) ==
  {q \in 0..127 : predict_gop_bytes_at_qindex(stats, width, height, q) <= ceiling_bytes(config, Len(stats))}
Halved(b, fitting) ==
  LET mid == (b.lo + b.hi) \div 2
  IN IF b.hi - b.lo <= 1 THEN b ELSE IF mid \in fitting THEN [b EXCEPT !.hi = mid] ELSE [b EXCEPT !.lo = mid]
Bisected(fitting) ==
  LET after[round \in 0..7] ==
        IF round = 0 THEN [lo |-> 0, hi |-> 127] ELSE Halved(after[round - 1], fitting)
  IN after
solve_base_qindex_for_budget(config, stats, width, height) ==
  LET fitting == Fitting(config, stats, width, height)
  IN IF ~bitrate_targeted(config) \/ stats = <<>> THEN Least(config.qindex, 127)
     ELSE IF 127 \notin fitting THEN 127 ELSE IF 0 \in fitting THEN 0 ELSE Bisected(fitting)[7].hi

(* A frame seen alone is its own mean.  These three refuse an index that is   *)
(* out of range; the encoder does not.                                        *)
Own(complexity) == [sum |-> complexity.bits_per_mb, count |-> 1]
two_pass_qindex_for_frame(config, complexity) ==
  IF config.qindex > 127 THEN Err
  ELSE qindex_from_complexity(config.qindex, complexity, Own(complexity))

(* The whole schedule of a group, without and with a byte rate.               *)
two_pass_qindices(config, stats) ==
  IF config.qindex > 127 THEN Err
  ELSE [i \in DOMAIN stats |-> qindex_from_complexity(config.qindex, stats[i], mean_complexity_cost(stats))]
two_pass_qindices_for_bitrate(config, stats, width, height) ==
  IF config.qindex > 127 THEN Err
  ELSE [i \in DOMAIN stats |->
          qindex_from_complexity(solve_base_qindex_for_budget(config, stats, width, height),
                                 stats[i], mean_complexity_cost(stats))]

-----------------------------------------------------------------------------
VARIABLES config,
          global_mean_cost, last_reconstruction, frame_count, last_keyframe_index,
          solved_base_qindex, frame_byte_budget, rate_debt_bytes,
          clip, stats, next, \* the caller's clip, its complexities, next frame
          clips,     \* clips studied so far
          packet,    \* the last packet
          shown,     \* the picture the player holds, and its size in pixels
          paid,      \* history: bytes and frames since the last first pass, and its
                     \* clip while the caller codes no other
          run        \* history: frames coded since the last key frame

account == <<global_mean_cost, solved_base_qindex, frame_byte_budget>>
chain == <<last_reconstruction, frame_count, last_keyframe_index>>
caller == <<clip, stats, clips>>
vars == <<config, account, chain, rate_debt_bytes, caller, next, packet, shown, paid, run>>

Init ==
  /\ config \in Configs
  /\ global_mean_cost = None /\ solved_base_qindex = None /\ frame_byte_budget = None
  /\ last_reconstruction = None /\ frame_count = 0 /\ last_keyframe_index = None
  /\ rate_debt_bytes = 0
  /\ clip = <<>> /\ stats = <<>> /\ next = 1 /\ clips = 0
  /\ packet = None /\ shown = [planes |-> None, size |-> None] /\ paid = [clip |-> None, bytes |-> 0, frames |-> 0] /\ run = 0

-----------------------------------------------------------------------------
Opens(c) ==
  /\ clips < MaxClips /\ clips' = clips + 1
  /\ clip' = c /\ stats' = first_pass_analyze(c) /\ next' = 1

(* Mutant: the debt of the clip before goes on.                               *)
KeepsDebt(c) ==
  /\ Opens(c)
  /\ global_mean_cost' = mean_complexity_cost(stats')
  /\ solved_base_qindex' = IF bitrate_targeted(config) /\ c # <<>>
       THEN solve_base_qindex_for_budget(config, stats', c[1].width, c[1].height) ELSE None
  /\ frame_byte_budget' = IF bitrate_targeted(config) /\ c # <<>>
       THEN gop_byte_budget(config, Len(c)) \div Len(c) ELSE None
  /\ paid' = [clip |-> c, bytes |-> 0, frames |-> 0]
  /\ UNCHANGED <<config, chain, rate_debt_bytes, packet, shown, run>>

(* The method: the mean, and under a byte rate the index to centre on and the *)
(* allotment of a frame.  The account starts afresh; the chain goes on.       *)
FirstPass(c) ==
  /\ Opens(c)
  /\ global_mean_cost' = mean_complexity_cost(stats')
  /\ IF bitrate_targeted(config) /\ stats' # <<>>
     THEN /\ solved_base_qindex' = solve_base_qindex_for_budget(config, stats', c[1].width, c[1].height)
          /\ frame_byte_budget' = gop_byte_budget(config, Len(stats')) \div Len(stats')
     ELSE solved_base_qindex' = None /\ frame_byte_budget' = None
  /\ rate_debt_bytes' = 0 /\ paid' = [clip |-> c, bytes |-> 0, frames |-> 0]
  /\ UNCHANGED <<config, chain, packet, shown, run>>

(* The free function tells the encoder nothing.                               *)
Study(c) ==
  /\ Opens(c) /\ paid' = [paid EXCEPT !.clip = None]
  /\ UNCHANGED <<config, account, chain, rate_debt_bytes, packet, shown, run>>

-----------------------------------------------------------------------------
RATE_FEEDBACK_QSTEP_PER_FRAME == 4
RATE_FEEDBACK_MAX_QSTEP == 24

(* Mutant: a clip over its bytes is coded finer.                              *)
AgainstTheDebt(debt, budget) ==
  IF budget \in {None, 0} THEN 0
  ELSE Clamped(Nearest(-(debt * RATE_FEEDBACK_QSTEP_PER_FRAME), budget),
               -RATE_FEEDBACK_MAX_QSTEP, RATE_FEEDBACK_MAX_QSTEP)
rate_feedback_delta(debt, budget) ==
  IF budget \in {None, 0} THEN 0
  ELSE Clamped(Nearest(debt * RATE_FEEDBACK_QSTEP_PER_FRAME, budget),
               -RATE_FEEDBACK_MAX_QSTEP, RATE_FEEDBACK_MAX_QSTEP)

Reference(complexity) == IF global_mean_cost = None THEN Own(complexity) ELSE global_mean_cost
Centred(complexity) ==
  qindex_from_complexity(IF solved_base_qindex = None THEN config.qindex ELSE solved_base_qindex,
                         complexity, Reference(complexity))
qindex_for(complexity) ==
  IF solved_base_qindex = None THEN Centred(complexity)
  ELSE Clamped(Centred(complexity) + rate_feedback_delta(rate_debt_bytes, frame_byte_budget), 0, 127)

(* Mutant: the golden interval is counted past its end.                       *)
KeyedLate(complexity) ==
  \/ last_reconstruction = None \/ complexity.scene_cut
  \/ last_keyframe_index # None /\ frame_count - last_keyframe_index > Most(config.golden_interval, 1)
force_key(complexity) ==
  \/ last_reconstruction = None \/ complexity.scene_cut
  \/ last_keyframe_index # None /\ frame_count - last_keyframe_index >= Most(config.golden_interval, 1)

Size(frame) == [width |-> frame.width, height |-> frame.height]
Grid(size) == [mb_cols |-> UpDiv(size.width, 16), mb_rows |-> UpDiv(size.height, 16)]
Planes(frame) == [id |-> frame_count, grid |-> Grid(frame)]

(* What a frame header can hold.                                              *)
Writable(frame) == {frame.width, frame.height} \subseteq 1..16383 /\ config.lf_level <= 63

(* Mutant: the grid of the reference is not looked at.                        *)
CodableOnAnyGrid(frame, keyed) == Writable(frame)
(* An interframe has the grid of macroblocks of the picture it is coded from; *)
(* pixels are not compared.                                                   *)
Codable(frame, keyed) ==
  Writable(frame) /\ (~keyed => Grid(frame) = last_reconstruction.grid)

(* The player rebuilds a picture from the one it holds; from any other it     *)
(* gets a picture that is not the encoder's.  An interframe is shown at the   *)
(* size there was before.                                                     *)
Plays(p) ==
  [ planes |-> IF p.key \/ p.from = shown.planes THEN p.planes ELSE [p.planes EXCEPT !.id = None],
    size |-> IF p.key THEN p.size ELSE shown.size ]

EncodeFrame ==
  /\ next <= Len(clip) /\ frame_count < MaxFrames
  /\ LET frame == clip[next]
         keyed == force_key(stats[next])
         q == qindex_for(stats[next])
         out == [key |-> keyed, from |-> IF keyed THEN None ELSE last_reconstruction,
                 planes |-> Planes(frame), size |-> Size(frame), qindex |-> q, cut |-> stats[next].scene_cut]
     IN /\ Codable(frame, keyed)
        /\ packet' = out /\ shown' = Plays(out)
        /\ last_reconstruction' = Planes(frame)
        /\ last_keyframe_index' = IF keyed THEN frame_count ELSE last_keyframe_index
        /\ run' = IF keyed THEN 1 ELSE run + 1
        /\ \E n \in Coded[<<keyed, q>>] :
             /\ rate_debt_bytes' = IF frame_byte_budget = None THEN rate_debt_bytes
                                   ELSE rate_debt_bytes + n - frame_byte_budget
             /\ paid' = [paid EXCEPT !.bytes = @ + n, !.frames = @ + 1]
  /\ frame_count' = frame_count + 1
  /\ next' = next + 1
  /\ UNCHANGED <<config, account, caller>>

(* A frame without pixels or too large, and an interframe on another grid, is *)
(* refused, and nothing changes.                                              *)
EncodeRefused ==
  /\ next <= Len(clip)
  /\ ~Codable(clip[next], force_key(stats[next]))
  /\ next' = next + 1
  /\ UNCHANGED <<config, account, chain, rate_debt_bytes, caller, packet, shown, paid, run>>

Next == \/ \E c \in Clips : FirstPass(c) \/ Study(c)
        \/ EncodeFrame \/ EncodeRefused

Spec == Init /\ [][Next]_vars

-----------------------------------------------------------------------------
(* The packets are a chain a player can follow, across clips, frames of other *)
(* sizes and refused ones: it holds the picture the encoder predicts from and *)
(* shows it at a size of its grid; an interframe is coded from a picture of   *)
(* its grid, a cut is a key frame, and no more frames than the golden         *)
(* interval hang on one key frame (encoder.rs 11996-12006).                   *)
ChainDecodes ==
  /\ shown.planes = last_reconstruction
  /\ packet # None =>
       /\ Grid(shown.size) = shown.planes.grid
       /\ packet.key \/ (packet.from # None /\ packet.from.grid = packet.planes.grid)
       /\ packet.cut => packet.key
       /\ run \in 1..Most(config.golden_interval, 1)


(* What frames of the clip may come to when they are coded so many steps off   *)
(* their schedule; and whether the steps the feedback has are enough for it.  *)
Sizes(steps) ==
  UNION {Coded[<<key, Clamped(Centred(stats[i]) + s, 0, 127)>>] : key \in BOOLEAN, i \in DOMAIN stats, s \in steps}
Affordable ==
  /\ paid.clip = clip /\ clip # <<>> /\ frame_byte_budget > 0
  /\ \A n \in Sizes({RATE_FEEDBACK_MAX_QSTEP}) : n <= frame_byte_budget

(* The debt is what the clip has cost beyond its allotments, from its first   *)
(* pass on, across refused frames and clips the encoder was not told of.      *)
AccountIsExact ==
  rate_debt_bytes = IF frame_byte_budget = None THEN 0 ELSE paid.bytes - paid.frames * frame_byte_budget

(* Where 24 steps are enough, the feedback keeps the debt to one frame, or to *)
(* five allotments and a frame coded no finer than its schedule says, however *)
(* long the clip.                                                             *)
DebtStaysSmall ==
  frame_byte_budget # None /\ Affordable =>
    \/ rate_debt_bytes <= 0
    \/ \E n \in Sizes(-RATE_FEEDBACK_MAX_QSTEP..0) : rate_debt_bytes + frame_byte_budget <= n
    \/ \E n \in Sizes(0..RATE_FEEDBACK_MAX_QSTEP) : rate_debt_bytes <= 5 * frame_byte_budget + n

(* The index centred on is the finest whose prediction fits the ceiling.      *)
CentresOnFinest ==
  solved_base_qindex # None /\ paid.clip = clip =>
    LET fitting == Fitting(config, stats, clip[1].width, clip[1].height)
    IN /\ solved_base_qindex \in fitting \/ (fitting = {} /\ solved_base_qindex = 127)
       /\ \A q \in fitting : solved_base_qindex <= q

(* A frame with no debt behind it is coded as the free functions schedule it, *)
(* where they answer: the encoder codes on with an index they refuse.         *)
FollowsTheSchedule ==
  \A i \in DOMAIN stats :
    /\ solved_base_qindex # None /\ paid.clip = clip /\ paid.frames = 0 =>
         LET answer == two_pass_qindices_for_bitrate(config, stats, clip[1].width, clip[1].height)
         IN answer # Err => qindex_for(stats[i]) = answer[i]
    /\ solved_base_qindex = None /\ global_mean_cost = None =>
         two_pass_qindex_for_frame(config, stats[i]) \in {Err, qindex_for(stats[i])}
    /\ solved_base_qindex = None /\ paid.clip = clip =>
         LET answer == two_pass_qindices(config, stats)
         IN answer # Err => qindex_for(stats[i]) = answer[i]

(* The rate control, together: the account, the feedback, the solver and the  *)
(* schedule (encoder.rs 12055-12106, "agree on the formula"; 12311-12352,     *)
(* "predicted(qindex) is monotone non-increasing").                           *)
RateIsHeld == AccountIsExact /\ DebtStaysSmall /\ CentresOnFinest /\ FollowsTheSchedule
==============================================================================
