-------------------------- MODULE LoopFilterLevels --------------------------
(***************************************************************************)
(* How strongly, and where, the loop filter works on one macroblock        *)
(* (loop_filter.rs), and how each end comes by the frame's configuration:  *)
(* the encoder from the deltas it is about to write, the decoder from the  *)
(* header it has parsed.                                                   *)
(***************************************************************************)
EXTENDS Integers

Segments == 0..3
DeltaRefs == {"intra", "last", "golden", "altref"}
DeltaModes == {"bpred", "zero", "other", "split"}

(* An update that leaves a slot out keeps what the slot held.               *)
NoUpdate == [slot \in {} |-> 0]
Overlaid(carried, update) ==
  [s \in DOMAIN carried |-> IF s \in DOMAIN update THEN update[s] ELSE carried[s]]
ZeroDeltas == [ref |-> [r \in DeltaRefs |-> 0], mode |-> [m \in DeltaModes |-> 0]]

(* A FrameFilterConfig; segment_level is 0 for a slot the header leaves out. *)
Config(level, segmentation, abs, segment_level, delta_enabled, deltas) ==
  [level |-> level, segmentation |-> segmentation, segment_abs |-> abs,
   segment_level |-> Overlaid([s \in Segments |-> 0], segment_level),
   delta_enabled |-> delta_enabled, ref_delta |-> deltas.ref, mode_delta |-> deltas.mode]

-----------------------------------------------------------------------------
(* The encoder's side.  deltas is its LoopFilterDeltas; lf_delta the loop    *)
(* filter deltas of its segments, empty when it sends none.                 *)

(* Mutant: without an update the encoder filters with no deltas.            *)
effective_forgets_carried(deltas, carried) ==
  IF ~deltas.enabled \/ ~deltas.update THEN ZeroDeltas
  ELSE [ref |-> Overlaid(carried.ref, deltas.ref), mode |-> Overlaid(carried.mode, deltas.mode)]
effective(deltas, carried) ==
  IF ~deltas.enabled THEN ZeroDeltas
  ELSE IF ~deltas.update THEN carried
  ELSE [ref |-> Overlaid(carried.ref, deltas.ref), mode |-> Overlaid(carried.mode, deltas.mode)]

InterConfig(level, segmented, lf_delta, deltas, carried) ==
  Config(level, segmented, FALSE, lf_delta, deltas.enabled, effective(deltas, carried))

KeyConfig(level, lf_delta) ==
  Config(level, lf_delta # NoUpdate, FALSE, lf_delta, FALSE, ZeroDeltas)

(* What it writes: the update flag gates the eight presence flags.          *)
LoopFilterHeader(level, segmented, lf_delta, deltas) ==
  [level |-> level, segmentation |-> segmented, abs |-> FALSE, loop_filter_update |-> lf_delta,
   adj_enable |-> deltas.enabled,
   ref_update |-> IF deltas.enabled /\ deltas.update THEN deltas.ref ELSE NoUpdate,
   mode_update |-> IF deltas.enabled /\ deltas.update THEN deltas.mode ELSE NoUpdate]

-----------------------------------------------------------------------------
(* The decoder's side.                                                      *)

interframe(header, carried) ==
  Config(header.level, header.segmentation, header.abs, header.loop_filter_update,
         header.adj_enable,
         IF header.adj_enable
         THEN [ref |-> Overlaid(carried.ref, header.ref_update),
               mode |-> Overlaid(carried.mode, header.mode_update)]
         ELSE carried)

(* A key frame keeps only the current-frame and B_PRED slots.               *)
keyframe(header) ==
  LET Only(update, slot) == [s \in DOMAIN update \cap {slot} |-> update[s]]
  IN Config(header.level, header.segmentation, header.abs, header.loop_filter_update,
            header.adj_enable,
            IF header.adj_enable
            THEN [ref |-> Overlaid(ZeroDeltas.ref, Only(header.ref_update, "intra")),
                  mode |-> Overlaid(ZeroDeltas.mode, Only(header.mode_update, "bpred"))]
            ELSE ZeroDeltas)

-----------------------------------------------------------------------------
(* The strength of one macroblock.                                          *)

AsLevel(x) == IF x < 0 THEN 0 ELSE IF x > 63 THEN 63 ELSE x

SegmentLevel(config, segment) ==
  AsLevel(IF ~config.segmentation THEN config.level
          ELSE IF config.segment_abs THEN config.segment_level[segment]
          ELSE config.level + config.segment_level[segment])

(* y_mode is the luma mode recorded for the filter; mode the inter mode.    *)
ModeDelta(config, ref, y_mode, mode) ==
  CASE ref = "intra" -> IF y_mode = "b" THEN config.mode_delta["bpred"] ELSE 0
    [] ref # "intra" /\ mode \in {"zero", "split"} -> config.mode_delta[mode]
    [] OTHER -> config.mode_delta["other"]

calculate_mb_filter_level(config, segment, ref, y_mode, mode) ==
  AsLevel(SegmentLevel(config, segment)
          + (IF config.delta_enabled
             THEN config.ref_delta[ref] + ModeDelta(config, ref, y_mode, mode) ELSE 0))

(* A level of 0 leaves the macroblock alone; the edges inside it are        *)
(* filtered if it was predicted in pieces or has any coefficient.           *)
FilterPlan(config, segment, ref, y_mode, mode, has_coeffs) ==
  LET level == calculate_mb_filter_level(config, segment, ref, y_mode, mode)
  IN [level |-> level, inner |-> level # 0 /\ (y_mode = "b" \/ has_coeffs)]

(* LoopFilterParams::derive.                                                *)
InteriorLimit(level, sharpness) ==
  LET shift == IF sharpness > 4 THEN 2 ELSE IF sharpness > 0 THEN 1 ELSE 0
      cut == level \div (2 ^ shift)
      capped == IF sharpness > 0 /\ cut > 9 - sharpness THEN 9 - sharpness ELSE cut
  IN IF capped = 0 THEN 1 ELSE capped

HevThreshold(level, key_frame) ==
  IF key_frame THEN (IF level >= 40 THEN 2 ELSE IF level >= 15 THEN 1 ELSE 0)
  ELSE IF level >= 40 THEN 3 ELSE IF level >= 20 THEN 2 ELSE IF level >= 15 THEN 1 ELSE 0

derive(level, sharpness, key_frame) ==
  LET interior == InteriorLimit(level, sharpness)
  IN [interior_limit |-> interior,
      hev_threshold |-> HevThreshold(level, key_frame),
      mbedge_limit |-> (level + 2) * 2 + interior,
      sub_bedge_limit |-> level * 2 + interior]
=============================================================================
