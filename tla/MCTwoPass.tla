------------------------------ MODULE MCTwoPass ------------------------------
(* Frames of four pixels: flat, busy, the two in turn, and with padding       *)
(* between their rows; of another size in the same macroblock, in another     *)
(* number of them, and without a pixel.                                       *)
EXTENDS TwoPassEncoder

Frame(w, h, stride, luma) == [width |-> w, height |-> h, stride |-> stride, luma |-> luma]
Flat == Frame(2, 2, 2, <<10, 10, 10, 10>>)
Busy == Frame(2, 2, 2, <<10, 60, 90, 20>>)
Bright == Frame(2, 2, 2, <<200, 200, 200, 200>>)
Padded == Frame(2, 2, 3, <<10, 60, 0, 90, 20>>)
Wide == Frame(3, 1, 3, <<9, 90, 200>>)
Tall == Frame(1, 17, 1, [r \in 1..17 |-> 8 * r])
Hollow == Frame(0, 2, 0, <<>>)
MCClips ==
  { <<>>, <<Flat, Busy, Busy, Bright, Flat>>, <<Busy, Padded, Busy, Busy, Busy, Busy, Busy, Busy>>,
    <<Wide, Tall>>, <<Flat, Wide, Hollow, Tall>> }

Config(q, golden, bps, num) ==
  [qindex |-> q, lf_level |-> 20, golden_interval |-> golden, target_bitrate_bps |-> bps,
   overshoot_ratio |-> 120, fps_num |-> num, fps_den |-> 1]
MCConfigs ==
  { Config(50, 3, 0, 0), Config(200, 0, 8000, 0), Config(50, 4, 3200, 25), Config(50, 9, 4000, 25),
    [Config(50, 3, 0, 0) EXCEPT !.lf_level = 64] }
MCShrink == [q \in 0..127 |-> 5400 \div (4 + q)]
MCCoded == [key \in BOOLEAN, q \in 0..127 |->
              IF key THEN {Most(8, 218 - 2 * q)} ELSE {Most(6, 218 - 2 * q), 4 + 400 \div (40 + q)}]
==============================================================================
