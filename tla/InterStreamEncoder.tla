------------------------- MODULE InterStreamEncoder -------------------------
(***************************************************************************)
(* Vp8InterStreamEncoder: key frames on a cadence, interframes in between, *)
(* and entry points that let the caller rotate the slots, set loop-filter  *)
(* deltas, and replace or fit token probabilities; and the smaller         *)
(* Vp8KeyframeStreamEncoder.  The entry points share the slots and the     *)
(* carried deltas and may be mixed in any order; each frame then travels   *)
(* to the decoder.                                                         *)
(***************************************************************************)
EXTENDS StreamPeer

CONSTANTS KeyframeInterval, GoldenInterval,
          NoKeyframe,   \* last_keyframe_index before any key frame
          NoDimensions,
          Dimensions,   \* the frame sizes callers pass
          Refresh,      \* RefreshControls values callers pass, illegal ones too
          Deltas,       \* LoopFilterDeltas values callers pass, all in range
          Tokens,       \* token_prob_update payloads, given or fitted
          MaxFrames,    \* bound on the frames of a stream
          InFlight      \* bound on the frames between the two ends

ASSUME StreamAssumption ==
  /\ KeyframeInterval \in Nat \ {0} /\ GoldenInterval \in Nat
  /\ MaxFrames \in Nat /\ InFlight \in Nat
  /\ NoKeyframe \notin Nat /\ NoPicture \notin Nat /\ Drifted \notin Nat
  /\ NoPicture # Drifted /\ NoDimensions \notin Dimensions
  /\ Refresh \subseteq [ refreshGolden : BOOLEAN, refreshAltref : BOOLEAN,
                         copyGolden : Nat, copyAltref : Nat, refreshLast : BOOLEAN ]
  /\ Deltas \subseteq [ enabled : BOOLEAN, update : BOOLEAN,
                        ref : DeltaUpdate, mode : DeltaUpdate ]
  /\ NoUpdates(CoeffCell) \in Tokens /\ Tokens \subseteq Update(CoeffCell)

VARIABLES driver, \* which of the two stream encoders this is
          dimensions, frame_count, last_keyframe_index, slots,
          carried_ref_deltas, carried_mode_deltas, p_frames_since_keyframe,
          outcome \* of the last call: its entry point and what it answered

encoder == <<driver, dimensions, frame_count, last_keyframe_index, slots,
             carried_ref_deltas, carried_mode_deltas, p_frames_since_keyframe>>
vars == <<encoder, outcome, wire, peer>>

Init ==
  /\ driver \in {"inter", "key"}
  /\ dimensions = NoDimensions /\ frame_count = 0
  /\ last_keyframe_index = NoKeyframe
  /\ slots = AllSlots(NoPicture)
  /\ carried_ref_deltas = ZeroDeltas /\ carried_mode_deltas = ZeroDeltas
  /\ p_frames_since_keyframe = 0
  /\ outcome = [entry |-> "none", answer |-> "none"]
  /\ PeerInit

Carried == [slots |-> slots, refDeltas |-> carried_ref_deltas,
            modeDeltas |-> carried_mode_deltas]

CanCall == frame_count < MaxFrames /\ Len(wire) < InFlight
DimensionsFit(d) == dimensions \in {NoDimensions, d}

-----------------------------------------------------------------------------
NextFrameIsKeyframe ==
  last_keyframe_index # NoKeyframe =>
    frame_count - last_keyframe_index >= KeyframeInterval

(* next_p_frame_refreshes_golden                                           *)
NextPFrameRefreshesGolden ==
  /\ GoldenInterval # 0 /\ ~NextFrameIsKeyframe
  /\ (p_frames_since_keyframe + 1) % GoldenInterval = 0

EmitKey(force) == NextFrameIsKeyframe \/ force \/ slots["last"] = NoPicture

(* RefreshControls::validate.                                              *)
Legal(c) == /\ c.copyGolden \in 0..2 /\ c.copyAltref \in 0..2
            /\ c.refreshGolden => c.copyGolden = 0
            /\ c.refreshAltref => c.copyAltref = 0

(* The clone-based walk of the encoder's slots, copies before refreshes.   *)
EncoderSlots(s, current, c) ==
  [ last   |-> IF c.refreshLast THEN current ELSE s["last"],
    golden |-> IF c.refreshGolden THEN current
               ELSE CASE c.copyGolden = 1 -> s["last"]
                      [] c.copyGolden = 2 -> s["altref"]
                      [] OTHER            -> s["golden"],
    altref |-> IF c.refreshAltref THEN current
               ELSE CASE c.copyAltref = 1 -> s["last"]
                      [] c.copyAltref = 2 -> s["golden"]
                      [] OTHER            -> s["altref"] ]

(* What every accepted frame does.                                         *)
Emit(entry, coded, d) ==
  /\ wire' = Append(wire, coded)
  /\ dimensions' = d
  /\ frame_count' = frame_count + 1
  /\ outcome' = [entry |-> entry, answer |-> "ok"]
  /\ UNCHANGED <<driver, peer>>

(* Mutant: a key frame leaves the ALTREF slot alone.                        *)
InstallKeyFrameWithoutAltref(picture) ==
  /\ slots' = [AllSlots(picture) EXCEPT !["altref"] = slots["altref"]]
  /\ last_keyframe_index' = frame_count
  /\ carried_ref_deltas' = ZeroDeltas /\ carried_mode_deltas' = ZeroDeltas

InstallKeyFrame(picture) ==
  /\ slots' = AllSlots(picture)
  /\ last_keyframe_index' = frame_count
  /\ carried_ref_deltas' = ZeroDeltas /\ carried_mode_deltas' = ZeroDeltas

RefreshLastAndGolden == [refreshGolden |-> TRUE, refreshAltref |-> FALSE,
                         copyGolden |-> 0, copyAltref |-> 0, refreshLast |-> TRUE]

(* Mutant: the golden refresh counts from this frame, not the next.         *)
ScheduledRefreshOffByOne ==
  IF GoldenInterval # 0 /\ p_frames_since_keyframe % GoldenInterval = 0
  THEN RefreshLastAndGolden ELSE RefreshLastOnly

(* The refresh ladder encode_frame asks for.                               *)
ScheduledRefresh ==
  IF GoldenInterval # 0 /\ (p_frames_since_keyframe + 1) % GoldenInterval = 0
  THEN RefreshLastAndGolden ELSE RefreshLastOnly

-----------------------------------------------------------------------------
(* What a frame is coded to: a picture, and the token updates it is sent    *)
(* with.  Pictures are numbered in pairs, one for each pass over a frame.   *)

FirstPass == [picture |-> 2 * frame_count, kept |-> 2 * frame_count,
              tokens |-> NoUpdates(CoeffCell)]
SecondPicture == 2 * frame_count + 1
Fitted(tokens, grew) == Shipped(FirstPass.picture, SecondPicture, tokens, grew)

encode_keyframe_with_reconstruction == FirstPass
encode_keyframe_with_fitted_updates(fitted, grew) == Fitted(fitted, grew)
encode_p_frame_multi_ref == FirstPass
encode_p_frame_with_intra_pick == FirstPass
encode_p_frame_with_token_updates(given) ==
  IF AnyUpdate(given)
  THEN [picture |-> SecondPicture, kept |-> SecondPicture, tokens |-> given]
  ELSE FirstPass
encode_p_frame_with_fitted_updates(fitted, grew) == Fitted(fitted, grew)
encode_p_frame_with_intra_pick_and_fitted_updates(fitted, grew) == Fitted(fitted, grew)

-----------------------------------------------------------------------------
Key(entry, coded, d) ==
  /\ InstallKeyFrame(coded.kept)
  /\ Emit(entry, CodedKey(coded.picture, Carried, coded.tokens), d)

Inter(entry, coded, refresh, deltas, d) ==
  /\ slots' = EncoderSlots(slots, coded.kept, refresh)
  /\ Emit(entry, CodedInter(coded.picture, Carried, TRUE, refresh, deltas, coded.tokens), d)
  /\ UNCHANGED last_keyframe_index

CanEncode(d) == driver = "inter" /\ CanCall /\ DimensionsFit(d)
KeepCarried == UNCHANGED <<carried_ref_deltas, carried_mode_deltas>>

(* encode_frame and encode_frame_with_force.                               *)
EncodeFrame(d, force) ==
  /\ CanEncode(d)
  /\ \/ /\ EmitKey(force)
        /\ Key(IF force THEN "other" ELSE "scheduled", encode_keyframe_with_reconstruction, d)
        /\ p_frames_since_keyframe' = 0
     \/ /\ ~EmitKey(force)
        /\ Inter("scheduled", encode_p_frame_multi_ref, ScheduledRefresh, LoopFilterDeltasOff, d)
        /\ p_frames_since_keyframe' = p_frames_since_keyframe + 1
        /\ KeepCarried

(* The other scheduled entry points refresh LAST alone and count nothing.   *)
EncodeFrameVariant(d, force, key, inter) ==
  /\ CanEncode(d)
  /\ \/ EmitKey(force) /\ Key("other", key, d)
     \/ ~EmitKey(force) /\ Inter("other", inter, RefreshLastOnly, LoopFilterDeltasOff, d) /\ KeepCarried
  /\ UNCHANGED p_frames_since_keyframe
EncodeFrameWithIntraPick(d, force) ==
  EncodeFrameVariant(d, force, encode_keyframe_with_reconstruction, encode_p_frame_with_intra_pick)
EncodeFrameFitted(d, force, fitted, grew) ==
  EncodeFrameVariant(d, force, encode_keyframe_with_fitted_updates(fitted, grew),
                     encode_p_frame_with_fitted_updates(fitted, grew))

(* A frame whose delta layer is off leaves the carried deltas alone.       *)
Carry(deltas) ==
  IF deltas.enabled
  THEN /\ carried_ref_deltas' = Effective(deltas, carried_ref_deltas, deltas.ref)
       /\ carried_mode_deltas' = Effective(deltas, carried_mode_deltas, deltas.mode)
  ELSE KeepCarried

(* The encode_p_frame_with_refresh family bypasses the key-frame cadence.   *)
PFrame(d, refresh, deltas, coded) ==
  /\ CanEncode(d) /\ slots["last"] # NoPicture /\ Legal(refresh)
  /\ Inter("other", coded, refresh, deltas, d)
  /\ Carry(deltas)
  /\ UNCHANGED p_frames_since_keyframe
EncodePFrameWithRefresh(d, refresh) == PFrame(d, refresh, LoopFilterDeltasOff, encode_p_frame_multi_ref)
EncodePFrameWithIntraPick(d, refresh) ==
  PFrame(d, refresh, LoopFilterDeltasOff, encode_p_frame_with_intra_pick)
EncodePFrameWithLfDeltas(d, refresh, deltas) == PFrame(d, refresh, deltas, encode_p_frame_multi_ref)
EncodePFrameWithTokenUpdates(d, refresh, deltas, given) ==
  PFrame(d, refresh, deltas, encode_p_frame_with_token_updates(given))
EncodePFrameWithLfDeltasAndIntraPick(d, refresh, deltas) ==
  PFrame(d, refresh, deltas, encode_p_frame_with_intra_pick)
EncodePFrameFitted(d, refresh, deltas, fitted, grew) ==
  PFrame(d, refresh, deltas, encode_p_frame_with_fitted_updates(fitted, grew))
EncodePFrameWithIntraPickFitted(d, refresh, deltas, fitted, grew) ==
  PFrame(d, refresh, deltas, encode_p_frame_with_intra_pick_and_fitted_updates(fitted, grew))

(* Vp8KeyframeStreamEncoder: the same slots and dimensions, key frames only. *)
EncodeKeyframe(d, coded) ==
  /\ driver = "key" /\ CanCall /\ DimensionsFit(d)
  /\ Key("other", coded, d)
  /\ UNCHANGED p_frames_since_keyframe
EncodeKeyframeOnly(d) == EncodeKeyframe(d, encode_keyframe_with_reconstruction)
EncodeKeyframeFitted(d, fitted, grew) ==
  EncodeKeyframe(d, encode_keyframe_with_fitted_updates(fitted, grew))

(* A refused call returns before the first assignment.                     *)
Refuse(answer) ==
  /\ outcome' = [entry |-> "refused", answer |-> answer]
  /\ UNCHANGED <<encoder, wire, peer>>

RefuseDimensions(d) == CanCall /\ ~DimensionsFit(d) /\ Refuse("DimensionsChanged")

RefusePFrame(d, refresh) ==
  /\ CanEncode(d)
  /\ \/ slots["last"] = NoPicture /\ Refuse("NoLastReference")
     \/ /\ slots["last"] # NoPicture /\ ~Legal(refresh)
        /\ Refuse("InvalidCopyBufferSelector")

(* The frame itself cannot be coded, its first partition is too large say. *)
RefuseFrame == CanCall /\ Refuse("Frame")

Deliver == DecodeNext /\ UNCHANGED <<encoder, outcome>>

Next ==
  \/ \E d \in Dimensions :
       \/ \E force \in BOOLEAN : EncodeFrame(d, force) \/ EncodeFrameWithIntraPick(d, force)
       \/ \E force, grew \in BOOLEAN, t \in Tokens : EncodeFrameFitted(d, force, t, grew)
       \/ \E c \in Refresh : EncodePFrameWithRefresh(d, c) \/ EncodePFrameWithIntraPick(d, c)
       \/ \E c \in Refresh, l \in Deltas :
            EncodePFrameWithLfDeltas(d, c, l) \/ EncodePFrameWithLfDeltasAndIntraPick(d, c, l)
       \/ \E c \in Refresh, l \in Deltas, t \in Tokens : EncodePFrameWithTokenUpdates(d, c, l, t)
       \/ \E c \in Refresh, l \in Deltas, t \in Tokens, grew \in BOOLEAN :
            EncodePFrameFitted(d, c, l, t, grew) \/ EncodePFrameWithIntraPickFitted(d, c, l, t, grew)
       \/ EncodeKeyframeOnly(d)
       \/ \E t \in Tokens, grew \in BOOLEAN : EncodeKeyframeFitted(d, t, grew)
       \/ RefuseDimensions(d)
       \/ \E c \in Refresh : RefusePFrame(d, c)
  \/ RefuseFrame
  \/ Deliver

Spec == Init /\ [][Next]_vars

-----------------------------------------------------------------------------

(* However the entry points are mixed, the decoder never reconstructs from  *)
(* a reference, a token table or a loop-filter delta other than the one the *)
(* encoder coded the frame against, and whenever it has caught up both ends *)
(* carry the same slots, deltas and table (encoder.rs 5558-5569 tells of    *)
(* the drift a kept key-frame table caused; stream.rs 1313-1329).           *)
NoDrift ==
  /\ NextDecodesAsCoded
  /\ wire = <<>> => /\ peer.slots = slots
                    /\ peer.refDeltas = carried_ref_deltas
                    /\ peer.modeDeltas = carried_mode_deltas
                    /\ peer.coeff = DefaultTable(CoeffCell)

(* A key frame is an access point: no slot, through any chain of copies,    *)
(* holds a picture from before it (stream.rs 781-787).                      *)
KeyframeIsAccessPoint ==
  \A s \in Slot : /\ slots[s] = NoPicture <=> last_keyframe_index = NoKeyframe
                  /\ slots[s] # NoPicture => slots[s] \div 2 >= last_keyframe_index

(* What next_frame_is_keyframe and next_p_frame_refreshes_golden foretell   *)
(* is what the next unforced encode_frame emits (stream.rs 609-657).        *)
PreviewsHold ==
  [][outcome'.entry = "scheduled" /\ frame_count' # frame_count =>
       LET packet == wire'[Len(wire')].packet IN
         /\ packet.key <=> NextFrameIsKeyframe
         /\ packet.refresh.refreshGolden <=> NextPFrameRefreshesGolden]_vars

=============================================================================
