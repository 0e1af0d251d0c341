---------------------------- MODULE DecoderState ----------------------------
(***************************************************************************)
(* Vp8DecoderState: one decode_frame call after another, with everything   *)
(* that outlives a call as variables.  A key frame is decoded and          *)
(* committed in one step, since nothing is assigned before its last        *)
(* fallible call.  An interframe parses its headers, then walks the        *)
(* macroblocks while reading the carried slots, then commits; its bytes    *)
(* may run out at any macroblock.  Pixels are left out: a picture is the   *)
(* position of its frame since the key frame and the grid it covers.       *)
(***************************************************************************)
EXTENDS FrameHeader, Sequences

CONSTANTS NoPicture,  \* an empty slot
          NoFormat,   \* visible_width and its siblings before any key frame
          NoPacket,   \* no call in progress
          NoShow,     \* last_frame_shown before any frame
          MaxPixels,  \* max_pixels_per_frame
          MaxLog      \* bound on the frames after (and with) a key frame

PictureOf(n, f) == [frame |-> n, cols |-> MbCols(f), rows |-> MbRows(f)]
Picture == { PictureOf(n, f) : n \in 1..MaxLog, f \in Format }

ASSUME DecoderAssumption ==
  /\ MaxPixels \in Nat
  /\ MaxLog \in Nat \ {0}
  /\ NoFormat \notin Format /\ NoPacket \notin Packet
  /\ NoShow \notin BOOLEAN
  /\ NoPicture \notin Picture

VARIABLES slots, coeff_probs, intra_probs, mv_contexts, sign_bias,
          ref_lf_deltas, mode_lf_deltas, format, last_frame_shown,
          pc,      \* where the current call is
          packet,  \* the bytes of the current call
          frame,   \* the tables in force for the current interframe
          mb,      \* macroblocks decoded so far
          result,  \* what the last call returned
          before,  \* history: the carried state when the call began
          log      \* history: the frames accepted since the last key frame

Carried == <<slots, coeff_probs, intra_probs, mv_contexts, sign_bias,
             ref_lf_deltas, mode_lf_deltas, format, last_frame_shown>>
vars == <<Carried, pc, packet, frame, mb, result, before, log>>

Error == {"FrameHeader", "ZeroDimension", "FrameTooLarge", "Unsupported",
          "TruncatedFirstPartition", "CodedHeader", "Macroblock", "Partitions"}
Idle == pc = "idle"
NoBias == [golden |-> FALSE, altref |-> FALSE]
EmptyFrame == [coeff |-> DefaultTable(CoeffCell), mv |-> DefaultTable(MvCell),
               intra |-> DefaultTable(IntraCell)]

Init ==
  /\ slots = AllSlots(NoPicture)
  /\ coeff_probs = DefaultTable(CoeffCell)
  /\ intra_probs = DefaultTable(IntraCell)
  /\ mv_contexts = DefaultTable(MvCell)
  /\ sign_bias = NoBias
  /\ ref_lf_deltas = ZeroDeltas /\ mode_lf_deltas = ZeroDeltas
  /\ format = NoFormat
  /\ last_frame_shown = NoShow
  /\ pc = "idle" /\ packet = NoPacket /\ frame = EmptyFrame /\ mb = 0
  /\ result = "none" /\ before = Carried /\ log = <<>>

(* A caller hands over one compressed frame; MaxLog bounds the interframes. *)
Call(p) ==
  /\ Idle
  /\ p.key \/ Len(log) < MaxLog
  /\ pc' = "parse" /\ packet' = p /\ result' = "pending"
  /\ before' = Carried
  /\ UNCHANGED <<Carried, frame, mb, log>>

(* The call returns and its locals go.                                     *)
Return(answer) ==
  /\ pc' = "idle" /\ result' = answer
  /\ packet' = NoPacket /\ frame' = EmptyFrame /\ mb' = 0
  /\ UNCHANGED before

(* Mutant: show_frame is recorded before the outcome is known.              *)
RefuseRecordsShow(error) ==
  /\ Return(error)
  /\ last_frame_shown' = packet.show
  /\ UNCHANGED <<slots, coeff_probs, intra_probs, mv_contexts, sign_bias,
                 ref_lf_deltas, mode_lf_deltas, format, log>>

Refuse(error) == Return(error) /\ UNCHANGED <<Carried, log>>

-----------------------------------------------------------------------------
(* The first error of decode_frame and decode_key_frame, in their order.   *)
KeyFrameError(p) ==
  IF p.fault = "FrameHeader" THEN "FrameHeader"
  ELSE IF p.format.width = 0 \/ p.format.height = 0 THEN "ZeroDimension"
  ELSE IF p.format.width * p.format.height > MaxPixels THEN "FrameTooLarge"
  ELSE p.fault

RefuseKeyFrame ==
  /\ pc = "parse" /\ packet.key
  /\ KeyFrameError(packet) # "none"
  /\ Refuse(KeyFrameError(packet))

(* Mutant: a key frame does not reach ALTREF.                               *)
KeySlotsWithoutAltref(p) ==
  [AllSlots(PictureOf(1, p.format)) EXCEPT !["altref"] = slots["altref"]]

KeySlots(p) == AllSlots(PictureOf(1, p.format))

DecodeKeyFrame ==
  /\ pc = "parse" /\ packet.key
  /\ KeyFrameError(packet) = "none"
  /\ slots' = KeySlots(packet)
  /\ coeff_probs' = KeyCoeff(packet)
  /\ intra_probs' = DefaultTable(IntraCell)
  /\ mv_contexts' = DefaultTable(MvCell)
  /\ sign_bias' = NoBias
  /\ ref_lf_deltas' = KeyDeltas(packet, packet.refDelta)
  /\ mode_lf_deltas' = KeyDeltas(packet, packet.modeDelta)
  /\ format' = packet.format
  /\ last_frame_shown' = packet.show
  /\ log' = <<packet>>
  /\ Return("ok")

-----------------------------------------------------------------------------
(* The first error of decode_inter_frame before its macroblock loop.       *)
InterFrameError(p) ==
  IF p.fault = "FrameHeader" THEN "FrameHeader"
  ELSE IF slots["last"] = NoPicture THEN "Unsupported"
  ELSE IF p.fault = "Macroblock" THEN "none"
  ELSE p.fault

RefuseInterFrame ==
  /\ pc = "parse" /\ ~packet.key
  /\ InterFrameError(packet) # "none"
  /\ Refuse(InterFrameError(packet))

(* Mutant: the frame's token table is overlaid in the carried one, to be    *)
(* rolled back at the end of the frame.                                     *)
StartInterFrameInPlace ==
  /\ pc = "parse" /\ ~packet.key
  /\ InterFrameError(packet) = "none"
  /\ coeff_probs' = Overlay(coeff_probs, packet.coeff)
  /\ frame' = [coeff |-> coeff_probs', mv |-> mv_contexts, intra |-> intra_probs]
  /\ mb' = 0
  /\ pc' = "macroblocks"
  /\ UNCHANGED <<slots, intra_probs, mv_contexts, sign_bias, ref_lf_deltas,
                 mode_lf_deltas, format, last_frame_shown,
                 packet, result, before, log>>

StartInterFrame ==
  /\ pc = "parse" /\ ~packet.key
  /\ InterFrameError(packet) = "none"
  /\ frame' = [coeff |-> Overlay(coeff_probs, packet.coeff),
               mv    |-> Overlay(mv_contexts, packet.mv),
               intra |-> Overlay(intra_probs, packet.intra)]
  /\ mb' = 0
  /\ pc' = "macroblocks"
  /\ UNCHANGED <<Carried, packet, result, before, log>>

(* The grid an interframe walks is that of the LAST slot.                  *)
MbCount == slots["last"].cols * slots["last"].rows

(* The bytes of the current frame run out in this macroblock.              *)
FaultHere == packet.fault = "Macroblock" /\ packet.faultMb = mb

NextMacroblock ==
  /\ mb' = mb + 1
  /\ UNCHANGED <<Carried, pc, packet, frame, result, before, log>>

DecodeIntraMacroblock ==
  /\ pc = "macroblocks" /\ mb < MbCount /\ ~FaultHere
  /\ NextMacroblock

(* slot_for_ref may answer None, which decode_inter_frame refuses.         *)
DecodeInterMacroblock(ref) ==
  /\ pc = "macroblocks" /\ mb < MbCount /\ ~FaultHere
  /\ IF slots[ref] = NoPicture THEN Refuse("Unsupported") ELSE NextMacroblock

FailMacroblock ==
  /\ pc = "macroblocks" /\ mb < MbCount /\ FaultHere
  /\ Refuse("Macroblock")

CommitInterFrame ==
  /\ pc = "macroblocks" /\ mb = MbCount
  /\ ref_lf_deltas' = InterDeltas(packet, ref_lf_deltas, packet.refDelta)
  /\ mode_lf_deltas' = InterDeltas(packet, mode_lf_deltas, packet.modeDelta)
  /\ \/ /\ packet.refreshEntropy
        /\ coeff_probs' = frame.coeff
        /\ mv_contexts' = frame.mv
        /\ intra_probs' = frame.intra
     \/ /\ ~packet.refreshEntropy
        /\ UNCHANGED <<coeff_probs, mv_contexts, intra_probs>>
  /\ sign_bias' = packet.bias
  /\ slots' = Rotated(slots,
                      [slots["last"] EXCEPT !.frame = Len(log) + 1],
                      packet.refresh)
  /\ last_frame_shown' = packet.show
  /\ log' = Append(log, packet)
  /\ Return("ok") /\ UNCHANGED format

Next ==
  \/ \E p \in Packet : Call(p)
  \/ RefuseKeyFrame \/ DecodeKeyFrame
  \/ RefuseInterFrame \/ StartInterFrame
  \/ DecodeIntraMacroblock \/ (\E ref \in Slot : DecodeInterMacroblock(ref))
  \/ FailMacroblock \/ CommitInterFrame

Spec == Init /\ [][Next]_vars

-----------------------------------------------------------------------------
TypeOK ==
  /\ slots \in [Slot -> Picture \cup {NoPicture}]
  /\ coeff_probs \in Table(CoeffCell)
  /\ intra_probs \in Table(IntraCell)
  /\ mv_contexts \in Table(MvCell)
  /\ sign_bias \in Bias
  /\ ref_lf_deltas \in [DeltaIndex -> Delta]
  /\ mode_lf_deltas \in [DeltaIndex -> Delta]
  /\ format \in Format \cup {NoFormat}
  /\ last_frame_shown \in BOOLEAN \cup {NoShow}
  /\ pc \in {"idle", "parse", "macroblocks"}
  /\ packet \in Packet \cup {NoPacket}
  /\ frame \in [coeff : Table(CoeffCell), mv : Table(MvCell),
                intra : Table(IntraCell)]
  /\ mb \in Nat
  /\ result \in Error \cup {"none", "pending", "ok"}
  /\ log \in Seq(Packet) /\ Len(log) <= MaxLog

(* A call that is still running or that failed has changed nothing a later  *)
(* call can see, not even after some of its macroblocks were decoded        *)
(* (state.rs 463-466, "a failed decode leaves the previous frame's          *)
(* visibility (like every other piece of carried state)").                  *)
FailureIsInvisible == result # "ok" => Carried = before

(* The three slots are filled together and cover the grid of the carried    *)
(* size, with a picture decoded since the last key frame: motion            *)
(* compensation of any macroblock from any slot stays inside its planes     *)
(* (state.rs 627-628 and 688-696 size the planes by the LAST slot alone).   *)
SlotsMatchFormat ==
  \/ /\ slots = AllSlots(NoPicture) /\ format = NoFormat /\ log = <<>>
  \/ /\ log # <<>> /\ format = log[1].format
     /\ \A s \in Slot : \E n \in 1..Len(log) : slots[s] = PictureOf(n, format)

(* "Unsupported" is answered only before the first key frame: the per       *)
(* macroblock slot lookup never finds an empty slot (state.rs 846-851).     *)
UnsupportedOnlyBeforeKeyFrame == result = "Unsupported" => log = <<>>

(* The value is the latest of the writes, the default if there is none.     *)
LastWrite(value, default, writes) ==
  \/ /\ value = default
     /\ \A i \in DOMAIN writes : writes[i] = NoUpdate
  \/ \E i \in DOMAIN writes :
       /\ writes[i] = value
       /\ \A j \in DOMAIN writes : j > i => writes[j] = NoUpdate

CoeffWrites(c) == [i \in 1..Len(log) |->
  IF log[i].refreshEntropy THEN log[i].coeff[c] ELSE NoUpdate]
MvWrites(c) == [i \in 1..Len(log) |->
  IF log[i].refreshEntropy /\ ~log[i].key THEN log[i].mv[c] ELSE NoUpdate]
IntraWrites(c) == [i \in 1..Len(log) |->
  IF log[i].refreshEntropy /\ ~log[i].key THEN log[i].intra[c] ELSE NoUpdate]
RefDeltaWrites(d) == [i \in 1..Len(log) |-> log[i].refDelta[d]]
ModeDeltaWrites(d) == [i \in 1..Len(log) |-> log[i].modeDelta[d]]

(* Every position of the three probability tables holds what the latest     *)
(* frame since the key frame wrote there and kept: a frame with             *)
(* refresh_entropy_probs = 0 leaves no trace, a key frame forgets           *)
(* everything before it (state.rs 1091-1106, 594-600).                      *)
EntropyIsLastKeptUpdate ==
  /\ \A c \in CoeffCell : LastWrite(coeff_probs[c], DefaultProb, CoeffWrites(c))
  /\ \A c \in MvCell : LastWrite(mv_contexts[c], DefaultProb, MvWrites(c))
  /\ \A c \in IntraCell : LastWrite(intra_probs[c], DefaultProb, IntraWrites(c))

(* Loop-filter deltas persist until a later header updates that very delta  *)
(* or a key frame zeroes them, whether or not the entropy tables are kept   *)
(* (state.rs 1072-1079, 553-572).                                           *)
DeltasAreLastUpdate ==
  \A d \in DeltaIndex :
    /\ LastWrite(ref_lf_deltas[d], 0, RefDeltaWrites(d))
    /\ LastWrite(mode_lf_deltas[d], 0, ModeDeltaWrites(d))

(* The picture the current call would install: an interframe takes its      *)
(* grid from LAST.                                                          *)
PictureToCome ==
  IF packet.key THEN PictureOf(1, packet.format)
  ELSE IF slots["last"] = NoPicture THEN NoPicture
  ELSE [slots["last"] EXCEPT !.frame = Len(log) + 1]

(* Every call moves the slots as SlotLadder says for its own picture and    *)
(* refresh fields, or, when it fails, not at all (state.rs 1109-1140).      *)
Ladder == INSTANCE SlotLadder
            WITH calls <- IF Idle THEN {}
                          ELSE {[key |-> packet.key, current |-> PictureToCome,
                                 refresh |-> packet.refresh]}
ImplementsLadder == Ladder!Spec

(* Every call keeps the contract the framework adapter relies on: it        *)
(* accepts the frame it was given or changes nothing, and the macroblock    *)
(* loop is invisible from outside (state.rs 455-471).                       *)
Contract == INSTANCE DecoderContract
              WITH calls <- IF Idle THEN {}
                            ELSE {[key |-> packet.key, show |-> packet.show,
                                   format |-> packet.format]}
ImplementsContract == Contract!Spec
=============================================================================
