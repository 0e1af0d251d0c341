------------------------ MODULE DecoderState_proofs ------------------------
(***************************************************************************)
(* Vp8DecoderState is correct for every set of frames, tables and sizes:   *)
(* a failed call leaves no trace, the slots always match the carried size, *)
(* the carried tables are those the accepted frames wrote and kept, and    *)
(* one call is one step of DecoderContract.                                *)
(***************************************************************************)
EXTENDS DecoderState, SequenceTheorems, TLAPS

(* The frame being decoded, and the tables in force for it.                *)
CallIsWellFormed ==
  /\ pc # "idle" => /\ packet \in Packet
                    /\ result = "pending"
                    /\ packet.key \/ Len(log) < MaxLog
  /\ pc = "macroblocks" =>
       /\ ~packet.key /\ log # <<>>
       /\ frame.coeff = Overlay(coeff_probs, packet.coeff)
       /\ frame.mv = Overlay(mv_contexts, packet.mv)
       /\ frame.intra = Overlay(intra_probs, packet.intra)

(* The log starts with its only key frame.                                 *)
LogIsWellFormed ==
  log # <<>> => log[1].key /\ \A i \in 2..Len(log) : ~log[i].key

IInv == /\ TypeOK
        /\ CallIsWellFormed
        /\ LogIsWellFormed
        /\ SlotsMatchFormat
        /\ FailureIsInvisible
        /\ UnsupportedOnlyBeforeKeyFrame

-----------------------------------------------------------------------------
(* Tables and deltas keep their type under an overlay.                     *)
LEMMA OverlayTable ==
  ASSUME NEW cells, NEW values,
         NEW t \in [cells -> values],
         NEW u \in [cells -> values \cup {NoUpdate}]
  PROVE  /\ Overlay(t, u) \in [cells -> values]
         /\ \A c \in cells :
              Overlay(t, u)[c] = IF u[c] = NoUpdate THEN t[c] ELSE u[c]
BY DEF Overlay

LEMMA DefaultTableType ==
  ASSUME NEW cells
  PROVE  DefaultTable(cells) \in Table(cells)
BY ValueAssumption DEF DefaultTable, Table

LEMMA ZeroDeltasType == ZeroDeltas \in [DeltaIndex -> Delta]
BY ValueAssumption DEF ZeroDeltas

LEMMA PacketFields ==
  ASSUME NEW p \in Packet
  PROVE  /\ p.key \in BOOLEAN /\ p.show \in BOOLEAN
         /\ p.format \in Format /\ p.fault \in Fault
         /\ p.refreshEntropy \in BOOLEAN /\ p.adjEnable \in BOOLEAN
         /\ p.coeff \in [CoeffCell -> Prob \cup {NoUpdate}]
         /\ p.mv \in [MvCell -> Prob \cup {NoUpdate}]
         /\ p.intra \in [IntraCell -> Prob \cup {NoUpdate}]
         /\ p.refDelta \in [DeltaIndex -> Delta \cup {NoUpdate}]
         /\ p.modeDelta \in [DeltaIndex -> Delta \cup {NoUpdate}]
         /\ p.bias \in Bias /\ p.refresh \in RefreshFields
         /\ ~p.adjEnable => p.refDelta = NoDelta /\ p.modeDelta = NoDelta
BY PacketAssumption DEF PacketType, Update, DeltaUpdate, DeltasNeedAdjEnable

LEMMA KeyDeltasType ==
  ASSUME NEW p \in Packet,
         NEW u \in [DeltaIndex -> Delta \cup {NoUpdate}]
  PROVE  KeyDeltas(p, u) \in [DeltaIndex -> Delta]
BY OverlayTable, ZeroDeltasType DEF KeyDeltas

LEMMA InterDeltasType ==
  ASSUME NEW p \in Packet,
         NEW t \in [DeltaIndex -> Delta],
         NEW u \in [DeltaIndex -> Delta \cup {NoUpdate}]
  PROVE  InterDeltas(p, t, u) \in [DeltaIndex -> Delta]
BY OverlayTable DEF InterDeltas

LEMMA KeyCoeffType ==
  ASSUME NEW p \in Packet
  PROVE  KeyCoeff(p) \in Table(CoeffCell)
<1>1. DefaultTable(CoeffCell) \in [CoeffCell -> Prob]
  BY DefaultTableType DEF Table
<1> QED
  BY <1>1, OverlayTable, PacketFields DEF KeyCoeff, Table

(* A rotated slot holds an entry slot or the current picture.              *)
LEMMA RotatedSelects ==
  ASSUME NEW s, NEW current, NEW c \in RefreshFields, NEW t \in Slot
  PROVE  Rotated(s, current, c)[t] \in {current} \cup { s[r] : r \in Slot }
<1>1. SourceOf(c)[t] \in RotationSource
  BY DEF SourceOf, LastSource, GoldenSource, AltrefSource, Slot, RotationSource
<1>2. \A src \in RotationSource :
        Held(s, current)[src] \in {current} \cup { s[r] : r \in Slot }
  BY DEF Held, RotationSource, Slot
<1> QED
  BY <1>1, <1>2 DEF Rotated

-----------------------------------------------------------------------------
(* While a call is under way or after it failed, nothing carried has moved. *)
LEMMA RefusePreserves ==
  ASSUME IInv, NEW error \in Error, pc # "idle", Refuse(error),
         error = "Unsupported" => log = <<>>
  PROVE  IInv'
<1>1. UNCHANGED <<slots, coeff_probs, intra_probs, mv_contexts, sign_bias,
                 ref_lf_deltas, mode_lf_deltas, format, last_frame_shown, log>>
  BY DEF Refuse, Carried
<1>2. /\ pc' = "idle" /\ result' = error /\ packet' = NoPacket
      /\ frame' = EmptyFrame /\ mb' = 0 /\ before' = before
  BY DEF Refuse, Return
<1>3. EmptyFrame \in [coeff : Table(CoeffCell), mv : Table(MvCell), intra : Table(IntraCell)]
  BY DefaultTableType DEF EmptyFrame
<1>4. TypeOK'
  BY <1>1, <1>2, <1>3 DEF IInv, TypeOK
<1>5. Carried = before
  BY DEF IInv, CallIsWellFormed, FailureIsInvisible
<1>6. FailureIsInvisible'
  BY <1>1, <1>2, <1>5 DEF FailureIsInvisible, Carried
<1>7. CallIsWellFormed' /\ LogIsWellFormed' /\ UnsupportedOnlyBeforeKeyFrame'
  BY <1>1, <1>2 DEF IInv, CallIsWellFormed, LogIsWellFormed, UnsupportedOnlyBeforeKeyFrame
<1>8. SlotsMatchFormat'
  BY <1>1 DEF IInv, SlotsMatchFormat
<1> QED
  BY <1>4, <1>6, <1>7, <1>8 DEF IInv

LEMMA CallPreserves ==
  ASSUME IInv, NEW p \in Packet, Call(p)
  PROVE  IInv'
<1>1. /\ UNCHANGED <<slots, coeff_probs, intra_probs, mv_contexts, sign_bias,
                 ref_lf_deltas, mode_lf_deltas, format, last_frame_shown, log,
                 frame, mb>>
      /\ pc' = "parse" /\ packet' = p /\ result' = "pending" /\ before' = Carried
      /\ p.key \/ Len(log) < MaxLog
  BY DEF Call, Carried
<1>2. TypeOK'
  BY <1>1 DEF IInv, TypeOK
<1>3. CallIsWellFormed' /\ LogIsWellFormed' /\ UnsupportedOnlyBeforeKeyFrame'
  BY <1>1 DEF IInv, CallIsWellFormed, LogIsWellFormed, UnsupportedOnlyBeforeKeyFrame
<1>4. FailureIsInvisible' /\ SlotsMatchFormat'
  BY <1>1 DEF IInv, FailureIsInvisible, SlotsMatchFormat, Carried
<1> QED
  BY <1>2, <1>3, <1>4 DEF IInv

LEMMA DecodeKeyFramePreserves ==
  ASSUME IInv, DecodeKeyFrame
  PROVE  IInv'
<1>1. packet \in Packet /\ packet.key
  BY DEF IInv, CallIsWellFormed, DecodeKeyFrame
<1> DEFINE f == packet.format
<1>2. f \in Format /\ packet.show \in BOOLEAN
  BY <1>1, PacketFields
<1>3. /\ slots' = AllSlots(PictureOf(1, f))
      /\ coeff_probs' = KeyCoeff(packet)
      /\ intra_probs' = DefaultTable(IntraCell)
      /\ mv_contexts' = DefaultTable(MvCell)
      /\ sign_bias' = NoBias
      /\ ref_lf_deltas' = KeyDeltas(packet, packet.refDelta)
      /\ mode_lf_deltas' = KeyDeltas(packet, packet.modeDelta)
      /\ format' = f /\ last_frame_shown' = packet.show
      /\ log' = <<packet>>
  BY DEF DecodeKeyFrame, KeySlots
<1>4. /\ pc' = "idle" /\ result' = "ok" /\ packet' = NoPacket
      /\ frame' = EmptyFrame /\ mb' = 0
  BY DEF DecodeKeyFrame, Return
<1>5. EmptyFrame \in [coeff : Table(CoeffCell), mv : Table(MvCell), intra : Table(IntraCell)]
  BY DefaultTableType DEF EmptyFrame
<1>6. slots' \in [Slot -> Picture \cup {NoPicture}]
  BY <1>2, <1>3, DecoderAssumption DEF AllSlots, Picture
<1>7. log' \in Seq(Packet) /\ Len(log') = 1 /\ Len(log') <= MaxLog /\ log'[1] = packet
  BY <1>1, <1>3, DecoderAssumption
<1>8. /\ coeff_probs' \in Table(CoeffCell)
      /\ ref_lf_deltas' \in [DeltaIndex -> Delta]
      /\ mode_lf_deltas' \in [DeltaIndex -> Delta]
      /\ intra_probs' \in Table(IntraCell) /\ mv_contexts' \in Table(MvCell)
  BY <1>1, <1>3, PacketFields, KeyCoeffType, KeyDeltasType, DefaultTableType
<1>9. TypeOK'
  BY <1>2, <1>3, <1>4, <1>5, <1>6, <1>7, <1>8 DEF TypeOK, NoBias, Bias
<1>10. SlotsMatchFormat'
  <2>1. \A s \in Slot : slots'[s] = PictureOf(1, format')
    BY <1>3 DEF AllSlots
  <2> QED
    BY <1>3, <1>7, <2>1 DEF SlotsMatchFormat
<1>11. LogIsWellFormed' /\ CallIsWellFormed'
  BY <1>1, <1>4, <1>7 DEF LogIsWellFormed, CallIsWellFormed
<1>12. FailureIsInvisible' /\ UnsupportedOnlyBeforeKeyFrame'
  BY <1>4 DEF FailureIsInvisible, UnsupportedOnlyBeforeKeyFrame
<1> QED
  BY <1>9, <1>10, <1>11, <1>12 DEF IInv

LEMMA StartInterFramePreserves ==
  ASSUME IInv, StartInterFrame
  PROVE  IInv'
<1>1. packet \in Packet /\ ~packet.key /\ result = "pending"
  BY DEF IInv, CallIsWellFormed, StartInterFrame
<1>2. UNCHANGED <<slots, coeff_probs, intra_probs, mv_contexts, sign_bias,
                 ref_lf_deltas, mode_lf_deltas, format, last_frame_shown,
                 packet, result, before, log>>
  BY DEF StartInterFrame, Carried
<1>3. /\ frame' = [coeff |-> Overlay(coeff_probs, packet.coeff),
                   mv    |-> Overlay(mv_contexts, packet.mv),
                   intra |-> Overlay(intra_probs, packet.intra)]
      /\ mb' = 0 /\ pc' = "macroblocks"
  BY DEF StartInterFrame
<1>4. frame' \in [coeff : Table(CoeffCell), mv : Table(MvCell), intra : Table(IntraCell)]
  BY <1>1, <1>3, PacketFields, OverlayTable DEF IInv, TypeOK, Table
<1>5. TypeOK'
  BY <1>2, <1>3, <1>4 DEF IInv, TypeOK
<1>6. slots["last"] # NoPicture
  BY DEF StartInterFrame, InterFrameError
<1>7. log # <<>>
  BY <1>6 DEF IInv, SlotsMatchFormat, AllSlots, Slot
<1>8. CallIsWellFormed'
  BY <1>1, <1>2, <1>3, <1>7 DEF IInv, CallIsWellFormed, StartInterFrame
<1>9. FailureIsInvisible' /\ SlotsMatchFormat' /\ LogIsWellFormed'
      /\ UnsupportedOnlyBeforeKeyFrame'
  BY <1>2 DEF IInv, FailureIsInvisible, SlotsMatchFormat, LogIsWellFormed,
              UnsupportedOnlyBeforeKeyFrame, Carried
<1> QED
  BY <1>5, <1>8, <1>9 DEF IInv

LEMMA NextMacroblockPreserves ==
  ASSUME IInv, pc = "macroblocks", NextMacroblock
  PROVE  IInv'
<1>1. UNCHANGED <<slots, coeff_probs, intra_probs, mv_contexts, sign_bias,
                 ref_lf_deltas, mode_lf_deltas, format, last_frame_shown,
                 pc, packet, frame, result, before, log>>
      /\ mb' = mb + 1
  BY DEF NextMacroblock, Carried
<1>2. TypeOK'
  BY <1>1 DEF IInv, TypeOK
<1>3. CallIsWellFormed' /\ LogIsWellFormed' /\ UnsupportedOnlyBeforeKeyFrame'
  BY <1>1 DEF IInv, CallIsWellFormed, LogIsWellFormed, UnsupportedOnlyBeforeKeyFrame
<1>4. FailureIsInvisible' /\ SlotsMatchFormat'
  BY <1>1 DEF IInv, FailureIsInvisible, SlotsMatchFormat, Carried
<1> QED
  BY <1>2, <1>3, <1>4 DEF IInv

(* With a key frame behind it no slot is empty.                            *)
LEMMA NoSlotIsEmpty ==
  ASSUME IInv, log # <<>>, NEW s \in Slot
  PROVE  /\ slots[s] # NoPicture
         /\ \E n \in 1..Len(log) : slots[s] = PictureOf(n, format)
         /\ format \in Format
<1>1. format \in Format
  <2>1. log \in Seq(Packet) /\ format = log[1].format
    BY DEF IInv, TypeOK, SlotsMatchFormat
  <2>2. log[1] \in Packet
    BY <2>1
  <2> QED
    BY <2>1, <2>2, PacketFields
<1>2. PICK n \in 1..Len(log) : slots[s] = PictureOf(n, format)
  BY DEF IInv, SlotsMatchFormat
<1>3. n \in 1..MaxLog
  BY <1>2, DecoderAssumption DEF IInv, TypeOK
<1> QED
  BY <1>1, <1>2, <1>3, DecoderAssumption DEF Picture

LEMMA DecodeInterMacroblockPreserves ==
  ASSUME IInv, NEW ref \in Slot, DecodeInterMacroblock(ref)
  PROVE  IInv'
<1>1. pc = "macroblocks" /\ log # <<>>
  BY DEF DecodeInterMacroblock, IInv, CallIsWellFormed
<1>2. slots[ref] # NoPicture
  BY <1>1, NoSlotIsEmpty
<1> QED
  BY <1>1, <1>2, NextMacroblockPreserves DEF DecodeInterMacroblock

LEMMA RefusalsPreserve ==
  ASSUME IInv, RefuseKeyFrame \/ RefuseInterFrame \/ FailMacroblock
  PROVE  IInv'
<1>1. pc # "idle"
  BY DEF RefuseKeyFrame, RefuseInterFrame, FailMacroblock
<1>2. packet \in Packet /\ packet.fault \in Fault
  BY <1>1, PacketFields DEF IInv, CallIsWellFormed
<1>3. CASE RefuseKeyFrame
  <2>1. KeyFrameError(packet) \in Error \ {"Unsupported"}
    BY <1>2, <1>3 DEF RefuseKeyFrame, KeyFrameError, Error, Fault
  <2> QED
    BY <1>1, <1>3, <2>1, RefusePreserves DEF RefuseKeyFrame
<1>4. CASE RefuseInterFrame
  <2>1. InterFrameError(packet) \in Error
    BY <1>2, <1>4 DEF RefuseInterFrame, InterFrameError, Error, Fault
  <2>2. InterFrameError(packet) = "Unsupported" => slots["last"] = NoPicture
    BY <1>2 DEF InterFrameError, Fault
  <2>3. slots["last"] = NoPicture => log = <<>>
    BY NoSlotIsEmpty DEF Slot
  <2> QED
    BY <1>1, <1>4, <2>1, <2>2, <2>3, RefusePreserves DEF RefuseInterFrame
<1>5. CASE FailMacroblock
  BY <1>1, <1>5, RefusePreserves DEF FailMacroblock, Error
<1> QED
  BY <1>3, <1>4, <1>5

LEMMA CommitInterFramePreserves ==
  ASSUME IInv, CommitInterFrame
  PROVE  IInv'
<1>1. /\ packet \in Packet /\ ~packet.key /\ log # <<>> /\ Len(log) < MaxLog
  BY DEF IInv, CallIsWellFormed, CommitInterFrame
<1>2. format' = format
  BY DEF CommitInterFrame
<1>3. /\ pc' = "idle" /\ result' = "ok" /\ packet' = NoPacket
      /\ frame' = EmptyFrame /\ mb' = 0
  BY DEF CommitInterFrame, Return
<1>4. EmptyFrame \in [coeff : Table(CoeffCell), mv : Table(MvCell), intra : Table(IntraCell)]
  BY DefaultTableType DEF EmptyFrame
<1> DEFINE L == Len(log)
<1>5. /\ log' \in Seq(Packet) /\ Len(log') = L + 1 /\ log'[L + 1] = packet
      /\ \A i \in 1..L : log'[i] = log[i]
      /\ L \in Nat \ {0} /\ log' # <<>>
  BY <1>1 DEF CommitInterFrame, IInv, TypeOK
<1>6. /\ coeff_probs' \in Table(CoeffCell)
      /\ mv_contexts' \in Table(MvCell)
      /\ intra_probs' \in Table(IntraCell)
  BY DEF CommitInterFrame, IInv, TypeOK
<1>7. /\ ref_lf_deltas' \in [DeltaIndex -> Delta]
      /\ mode_lf_deltas' \in [DeltaIndex -> Delta]
  BY <1>1, PacketFields, InterDeltasType DEF CommitInterFrame, IInv, TypeOK
<1>8. sign_bias' \in Bias /\ last_frame_shown' \in BOOLEAN
  BY <1>1, PacketFields DEF CommitInterFrame
<1> DEFINE new == [slots["last"] EXCEPT !.frame = L + 1]
<1>9. new = PictureOf(L + 1, format)
  <2>1. PICK n \in 1..L : slots["last"] = PictureOf(n, format)
    BY <1>1, NoSlotIsEmpty DEF Slot
  <2> QED
    BY <2>1 DEF PictureOf
<1>10. \A s \in Slot : \E n \in 1..(L + 1) : slots'[s] = PictureOf(n, format)
  <2> SUFFICES ASSUME NEW s \in Slot
               PROVE  \E n \in 1..(L + 1) : slots'[s] = PictureOf(n, format)
    OBVIOUS
  <2>1. slots' = Rotated(slots, new, packet.refresh)
    BY DEF CommitInterFrame
  <2>2. slots'[s] \in {new} \cup { slots[r] : r \in Slot }
    BY <1>1, <2>1, PacketFields, RotatedSelects
  <2>3. \A r \in Slot : \E n \in 1..L : slots[r] = PictureOf(n, format)
    BY <1>1, NoSlotIsEmpty
  <2> QED
    BY <1>5, <1>9, <2>2, <2>3
<1>11. slots' \in [Slot -> Picture \cup {NoPicture}]
  <2>1. slots' = [s \in Slot |-> slots'[s]]
    BY DEF CommitInterFrame, Rotated
  <2>2. format \in Format
    BY <1>1, NoSlotIsEmpty DEF Slot
  <2> QED
    BY <1>1, <1>5, <1>10, <2>1, <2>2, DecoderAssumption DEF Picture
<1>12. TypeOK'
  BY <1>1, <1>2, <1>3, <1>4, <1>5, <1>6, <1>7, <1>8, <1>11, DecoderAssumption
     DEF IInv, TypeOK
<1>13. log'[1] = log[1]
  BY <1>5
<1>14. SlotsMatchFormat'
  <2>1. format = log[1].format
    BY <1>1 DEF IInv, SlotsMatchFormat
  <2> QED
    BY <1>2, <1>5, <1>10, <1>13, <2>1 DEF SlotsMatchFormat
<1>15. LogIsWellFormed'
  <2>1. log'[1].key
    BY <1>1, <1>13 DEF IInv, LogIsWellFormed
  <2>2. \A i \in 2..(L + 1) : ~log'[i].key
    BY <1>1, <1>5 DEF IInv, LogIsWellFormed
  <2> QED
    BY <1>5, <2>1, <2>2 DEF LogIsWellFormed
<1>16. CallIsWellFormed' /\ FailureIsInvisible' /\ UnsupportedOnlyBeforeKeyFrame'
  BY <1>3 DEF CallIsWellFormed, FailureIsInvisible, UnsupportedOnlyBeforeKeyFrame
<1> QED
  BY <1>12, <1>14, <1>15, <1>16 DEF IInv

-----------------------------------------------------------------------------
LEMMA InitInvariant == Init => IInv
<1> SUFFICES ASSUME Init PROVE IInv
  OBVIOUS
<1>1. TypeOK
  BY DefaultTableType, ZeroDeltasType, DecoderAssumption
     DEF Init, TypeOK, AllSlots, NoBias, Bias, EmptyFrame
<1>2. SlotsMatchFormat
  BY DEF Init, SlotsMatchFormat
<1> QED
  BY <1>1, <1>2 DEF Init, IInv, CallIsWellFormed, LogIsWellFormed, FailureIsInvisible,
                    UnsupportedOnlyBeforeKeyFrame

LEMMA StepPreservesInvariant == IInv /\ [Next]_vars => IInv'
<1> SUFFICES ASSUME IInv, [Next]_vars PROVE IInv'
  OBVIOUS
<1>1. CASE \E p \in Packet : Call(p)
  BY <1>1, CallPreserves
<1>2. CASE DecodeKeyFrame
  BY <1>2, DecodeKeyFramePreserves
<1>3. CASE StartInterFrame
  BY <1>3, StartInterFramePreserves
<1>4. CASE DecodeIntraMacroblock
  BY <1>4, NextMacroblockPreserves DEF DecodeIntraMacroblock
<1>5. CASE \E ref \in Slot : DecodeInterMacroblock(ref)
  BY <1>5, DecodeInterMacroblockPreserves
<1>6. CASE RefuseKeyFrame \/ RefuseInterFrame \/ FailMacroblock
  BY <1>6, RefusalsPreserve
<1>7. CASE CommitInterFrame
  BY <1>7, CommitInterFramePreserves
<1>8. CASE UNCHANGED vars
  BY <1>8 DEF vars, Carried, IInv, TypeOK, CallIsWellFormed, LogIsWellFormed,
              SlotsMatchFormat, FailureIsInvisible, UnsupportedOnlyBeforeKeyFrame
<1> QED
  BY <1>1, <1>2, <1>3, <1>4, <1>5, <1>6, <1>7, <1>8 DEF Next

(* The inductive invariant of Vp8DecoderState (state.rs 455-1143).         *)
THEOREM InductiveInvariant == Spec => []IInv
BY InitInvariant, StepPreservesInvariant, PTL DEF Spec

(* The carried state keeps its type across every call (state.rs 305-384).  *)
THEOREM DecoderTypeOK == Spec => []TypeOK
BY InductiveInvariant, PTL DEF IInv

(* A decode_frame call that fails, at whichever macroblock, leaves every    *)
(* piece of carried state as it was (state.rs 463-466).                     *)
THEOREM FailedCallsAreInvisible == Spec => []FailureIsInvisible
BY InductiveInvariant, PTL DEF IInv

(* Prediction from any slot stays inside planes of the current size         *)
(* (state.rs 627-628, 688-696, 846-851).                                   *)
THEOREM SlotsAlwaysMatchFormat == Spec => []SlotsMatchFormat
BY InductiveInvariant, PTL DEF IInv

(* The empty-slot error of the macroblock loop is unreachable               *)
(* (state.rs 846-851).                                                      *)
THEOREM NoEmptyReference == Spec => []UnsupportedOnlyBeforeKeyFrame
BY InductiveInvariant, PTL DEF IInv

-----------------------------------------------------------------------------
(* Appending one write to the log: it takes effect if it is an update.     *)
LEMMA LastWriteExtends ==
  ASSUME NEW n \in Nat, NEW old, NEW new, NEW value, NEW default,
         DOMAIN old = 1..n, DOMAIN new = 1..(n + 1),
         \A i \in 1..n : new[i] = old[i],
         LastWrite(value, default, old)
  PROVE  LastWrite(IF new[n + 1] = NoUpdate THEN value ELSE new[n + 1], default, new)
<1>1. CASE new[n + 1] # NoUpdate
  BY <1>1 DEF LastWrite
<1>2. CASE new[n + 1] = NoUpdate
  <2>1. CASE value = default /\ \A i \in DOMAIN old : old[i] = NoUpdate
    <3>1. \A i \in 1..(n + 1) : new[i] = NoUpdate
      BY <1>2, <2>1
    <3> QED
      BY <1>2, <2>1, <3>1 DEF LastWrite
  <2>2. CASE \E i \in DOMAIN old : /\ old[i] = value
                                  /\ \A j \in DOMAIN old : j > i => old[j] = NoUpdate
    <3>1. PICK i \in 1..n : /\ old[i] = value
                            /\ \A j \in 1..n : j > i => old[j] = NoUpdate
      BY <2>2
    <3>2. i \in 1..(n + 1) /\ new[i] = value
      BY <3>1
    <3>3. \A j \in 1..(n + 1) : j > i => new[j] = NoUpdate
      BY <1>2, <3>1
    <3> QED
      BY <1>2, <3>2, <3>3 DEF LastWrite
  <2> QED
    BY <2>1, <2>2 DEF LastWrite
<1> QED
  BY <1>1, <1>2

(* The log of one frame: its write or the default.                         *)
LEMMA LastWriteOfOne ==
  ASSUME NEW writes, NEW default, DOMAIN writes = 1..1
  PROVE  LastWrite(IF writes[1] = NoUpdate THEN default ELSE writes[1], default, writes)
<1>1. CASE writes[1] = NoUpdate
  BY <1>1 DEF LastWrite
<1>2. CASE writes[1] # NoUpdate
  <2>1. 1 \in DOMAIN writes /\ \A j \in DOMAIN writes : ~(j > 1)
    OBVIOUS
  <2> QED
    BY <1>2, <2>1 DEF LastWrite
<1> QED
  BY <1>1, <1>2

(* What a key frame leaves in the five tables is its own writes.           *)
LEMMA KeyFrameWrites ==
  ASSUME IInv, DecodeKeyFrame
  PROVE  EntropyIsLastKeptUpdate' /\ DeltasAreLastUpdate'
<1>1. packet \in Packet /\ packet.key
  BY DEF IInv, CallIsWellFormed, DecodeKeyFrame
<1>2. log' = <<packet>> /\ Len(log') = 1 /\ log'[1] = packet
  BY DEF DecodeKeyFrame
<1>3. ASSUME NEW c \in CoeffCell
      PROVE  LastWrite(coeff_probs[c], DefaultProb, CoeffWrites(c))'
  <2> DEFINE w == CoeffWrites(c)'
  <2>1. /\ DOMAIN w = 1..1
        /\ w[1] = IF packet.refreshEntropy THEN packet.coeff[c] ELSE NoUpdate
    BY <1>2 DEF CoeffWrites
  <2>2. coeff_probs' = KeyCoeff(packet)
    BY DEF DecodeKeyFrame
  <2>3. coeff_probs'[c] = IF w[1] = NoUpdate THEN DefaultProb ELSE w[1]
    BY <2>1, <2>2 DEF KeyCoeff, Overlay, DefaultTable
  <2>4. LastWrite(coeff_probs'[c], DefaultProb, w)
    BY <2>1, <2>3, LastWriteOfOne
  <2> QED
    BY <2>4 DEF LastWrite
<1>4. ASSUME NEW c \in MvCell
      PROVE  LastWrite(mv_contexts[c], DefaultProb, MvWrites(c))'
  BY <1>1, <1>2 DEF LastWrite, MvWrites, DecodeKeyFrame, DefaultTable
<1>5. ASSUME NEW c \in IntraCell
      PROVE  LastWrite(intra_probs[c], DefaultProb, IntraWrites(c))'
  BY <1>1, <1>2 DEF LastWrite, IntraWrites, DecodeKeyFrame, DefaultTable
<1>6. ASSUME NEW d \in DeltaIndex
      PROVE  /\ LastWrite(ref_lf_deltas[d], 0, RefDeltaWrites(d))'
             /\ LastWrite(mode_lf_deltas[d], 0, ModeDeltaWrites(d))'
  <2> DEFINE r == RefDeltaWrites(d)'
             m == ModeDeltaWrites(d)'
  <2>1. /\ DOMAIN r = 1..1 /\ r[1] = packet.refDelta[d]
        /\ DOMAIN m = 1..1 /\ m[1] = packet.modeDelta[d]
    BY <1>2 DEF RefDeltaWrites, ModeDeltaWrites
  <2>2. /\ ref_lf_deltas' = KeyDeltas(packet, packet.refDelta)
        /\ mode_lf_deltas' = KeyDeltas(packet, packet.modeDelta)
    BY DEF DecodeKeyFrame
  <2>3. ~packet.adjEnable => packet.refDelta = NoDelta /\ packet.modeDelta = NoDelta
    BY <1>1, PacketFields
  <2>4. /\ ref_lf_deltas'[d] = IF r[1] = NoUpdate THEN 0 ELSE r[1]
        /\ mode_lf_deltas'[d] = IF m[1] = NoUpdate THEN 0 ELSE m[1]
    BY <2>1, <2>2, <2>3 DEF KeyDeltas, Overlay, ZeroDeltas, NoDelta
  <2>5. LastWrite(ref_lf_deltas'[d], 0, r) /\ LastWrite(mode_lf_deltas'[d], 0, m)
    BY <2>1, <2>4, LastWriteOfOne
  <2> QED
    BY <2>5 DEF LastWrite
<1>7. EntropyIsLastKeptUpdate'
  BY <1>3, <1>4, <1>5 DEF EntropyIsLastKeptUpdate
<1>8. DeltasAreLastUpdate'
  BY <1>6 DEF DeltasAreLastUpdate
<1> QED
  BY <1>7, <1>8

(* What an interframe leaves in the five tables is what was there, under   *)
(* its own writes.                                                         *)
LEMMA InterFrameWrites ==
  ASSUME IInv, EntropyIsLastKeptUpdate, DeltasAreLastUpdate, CommitInterFrame
  PROVE  EntropyIsLastKeptUpdate' /\ DeltasAreLastUpdate'
<1> DEFINE L == Len(log)
<1>1. /\ packet \in Packet /\ ~packet.key
      /\ frame.coeff = Overlay(coeff_probs, packet.coeff)
      /\ frame.mv = Overlay(mv_contexts, packet.mv)
      /\ frame.intra = Overlay(intra_probs, packet.intra)
  BY DEF IInv, CallIsWellFormed, CommitInterFrame
<1>2. /\ L \in Nat /\ Len(log') = L + 1 /\ log'[L + 1] = packet
      /\ \A i \in 1..L : log'[i] = log[i]
  BY <1>1 DEF CommitInterFrame, IInv, TypeOK
<1>3. /\ coeff_probs' = IF packet.refreshEntropy THEN frame.coeff ELSE coeff_probs
      /\ mv_contexts' = IF packet.refreshEntropy THEN frame.mv ELSE mv_contexts
      /\ intra_probs' = IF packet.refreshEntropy THEN frame.intra ELSE intra_probs
  BY DEF CommitInterFrame
<1>4. /\ DOMAIN coeff_probs = CoeffCell /\ DOMAIN mv_contexts = MvCell
      /\ DOMAIN intra_probs = IntraCell
      /\ DOMAIN ref_lf_deltas = DeltaIndex /\ DOMAIN mode_lf_deltas = DeltaIndex
  BY DEF IInv, TypeOK, Table
<1>5. ASSUME NEW c \in CoeffCell
      PROVE  LastWrite(coeff_probs[c], DefaultProb, CoeffWrites(c))'
  <2> DEFINE w == CoeffWrites(c)'
  <2>1. /\ DOMAIN w = 1..(L + 1) /\ DOMAIN CoeffWrites(c) = 1..L
        /\ \A i \in 1..L : w[i] = CoeffWrites(c)[i]
        /\ w[L + 1] = IF packet.refreshEntropy THEN packet.coeff[c] ELSE NoUpdate
    BY <1>2 DEF CoeffWrites
  <2>2. coeff_probs'[c] = IF w[L + 1] = NoUpdate THEN coeff_probs[c] ELSE w[L + 1]
    BY <1>1, <1>3, <1>4, <2>1 DEF Overlay
  <2>3. LastWrite(coeff_probs[c], DefaultProb, CoeffWrites(c))
    BY DEF EntropyIsLastKeptUpdate
  <2>4. LastWrite(coeff_probs'[c], DefaultProb, w)
    <3> HIDE DEF w
    <3> QED BY <1>2, <2>1, <2>2, <2>3, LastWriteExtends
  <2> QED
    BY <2>4 DEF LastWrite
<1>6. ASSUME NEW c \in MvCell
      PROVE  LastWrite(mv_contexts[c], DefaultProb, MvWrites(c))'
  <2> DEFINE w == MvWrites(c)'
  <2>1. /\ DOMAIN w = 1..(L + 1) /\ DOMAIN MvWrites(c) = 1..L
        /\ \A i \in 1..L : w[i] = MvWrites(c)[i]
        /\ w[L + 1] = IF packet.refreshEntropy THEN packet.mv[c] ELSE NoUpdate
    BY <1>1, <1>2 DEF MvWrites
  <2>2. mv_contexts'[c] = IF w[L + 1] = NoUpdate THEN mv_contexts[c] ELSE w[L + 1]
    BY <1>1, <1>3, <1>4, <2>1 DEF Overlay
  <2>3. LastWrite(mv_contexts[c], DefaultProb, MvWrites(c))
    BY DEF EntropyIsLastKeptUpdate
  <2>4. LastWrite(mv_contexts'[c], DefaultProb, w)
    <3> HIDE DEF w
    <3> QED BY <1>2, <2>1, <2>2, <2>3, LastWriteExtends
  <2> QED
    BY <2>4 DEF LastWrite
<1>7. ASSUME NEW c \in IntraCell
      PROVE  LastWrite(intra_probs[c], DefaultProb, IntraWrites(c))'
  <2> DEFINE w == IntraWrites(c)'
  <2>1. /\ DOMAIN w = 1..(L + 1) /\ DOMAIN IntraWrites(c) = 1..L
        /\ \A i \in 1..L : w[i] = IntraWrites(c)[i]
        /\ w[L + 1] = IF packet.refreshEntropy THEN packet.intra[c] ELSE NoUpdate
    BY <1>1, <1>2 DEF IntraWrites
  <2>2. intra_probs'[c] = IF w[L + 1] = NoUpdate THEN intra_probs[c] ELSE w[L + 1]
    BY <1>1, <1>3, <1>4, <2>1 DEF Overlay
  <2>3. LastWrite(intra_probs[c], DefaultProb, IntraWrites(c))
    BY DEF EntropyIsLastKeptUpdate
  <2>4. LastWrite(intra_probs'[c], DefaultProb, w)
    <3> HIDE DEF w
    <3> QED BY <1>2, <2>1, <2>2, <2>3, LastWriteExtends
  <2> QED
    BY <2>4 DEF LastWrite
<1>8. ASSUME NEW d \in DeltaIndex
      PROVE  /\ LastWrite(ref_lf_deltas[d], 0, RefDeltaWrites(d))'
             /\ LastWrite(mode_lf_deltas[d], 0, ModeDeltaWrites(d))'
  <2> DEFINE r == RefDeltaWrites(d)'
             m == ModeDeltaWrites(d)'
  <2>1. /\ DOMAIN r = 1..(L + 1) /\ DOMAIN RefDeltaWrites(d) = 1..L
        /\ \A i \in 1..L : r[i] = RefDeltaWrites(d)[i]
        /\ r[L + 1] = packet.refDelta[d]
        /\ DOMAIN m = 1..(L + 1) /\ DOMAIN ModeDeltaWrites(d) = 1..L
        /\ \A i \in 1..L : m[i] = ModeDeltaWrites(d)[i]
        /\ m[L + 1] = packet.modeDelta[d]
    BY <1>2 DEF RefDeltaWrites, ModeDeltaWrites
  <2>2. ~packet.adjEnable => packet.refDelta = NoDelta /\ packet.modeDelta = NoDelta
    BY <1>1, PacketFields
  <2>3. /\ ref_lf_deltas'[d] = IF r[L + 1] = NoUpdate THEN ref_lf_deltas[d] ELSE r[L + 1]
        /\ mode_lf_deltas'[d] = IF m[L + 1] = NoUpdate THEN mode_lf_deltas[d] ELSE m[L + 1]
    BY <1>4, <2>1, <2>2 DEF CommitInterFrame, InterDeltas, Overlay, NoDelta
  <2>4. /\ LastWrite(ref_lf_deltas[d], 0, RefDeltaWrites(d))
        /\ LastWrite(mode_lf_deltas[d], 0, ModeDeltaWrites(d))
    BY DEF DeltasAreLastUpdate
  <2>5. LastWrite(ref_lf_deltas'[d], 0, r) /\ LastWrite(mode_lf_deltas'[d], 0, m)
    <3> HIDE DEF r, m
    <3> QED BY <1>2, <2>1, <2>3, <2>4, LastWriteExtends
  <2> QED
    BY <2>5 DEF LastWrite
<1>9. EntropyIsLastKeptUpdate'
  BY <1>5, <1>6, <1>7 DEF EntropyIsLastKeptUpdate
<1>10. DeltasAreLastUpdate'
  BY <1>8 DEF DeltasAreLastUpdate
<1> QED
  BY <1>9, <1>10

(* The carried tables and the log move only when a frame is accepted.      *)
LEMMA TablesMoveOnlyOnAccept ==
  ASSUME IInv, [Next]_vars
  PROVE  \/ DecodeKeyFrame
         \/ CommitInterFrame
         \/ UNCHANGED <<slots, coeff_probs, intra_probs, mv_contexts, ref_lf_deltas,
                       mode_lf_deltas, format, last_frame_shown, log>>
<1>1. CASE \E p \in Packet : Call(p)
  BY <1>1 DEF Call, Carried
<1>2. CASE RefuseKeyFrame \/ RefuseInterFrame \/ FailMacroblock
  BY <1>2 DEF RefuseKeyFrame, RefuseInterFrame, FailMacroblock, Refuse, Carried
<1>3. CASE StartInterFrame \/ DecodeIntraMacroblock
  BY <1>3 DEF StartInterFrame, DecodeIntraMacroblock, NextMacroblock, Carried
<1>4. CASE \E ref \in Slot : DecodeInterMacroblock(ref)
  BY <1>4 DEF DecodeInterMacroblock, NextMacroblock, Refuse, Carried
<1>5. CASE UNCHANGED vars
  BY <1>5 DEF vars, Carried
<1> QED
  BY <1>1, <1>2, <1>3, <1>4, <1>5 DEF Next

LEMMA TablesStep ==
  IInv /\ EntropyIsLastKeptUpdate /\ DeltasAreLastUpdate /\ [Next]_vars
    => EntropyIsLastKeptUpdate' /\ DeltasAreLastUpdate'
<1> SUFFICES ASSUME IInv, EntropyIsLastKeptUpdate, DeltasAreLastUpdate, [Next]_vars
             PROVE  EntropyIsLastKeptUpdate' /\ DeltasAreLastUpdate'
  OBVIOUS
<1>1. CASE UNCHANGED <<slots, coeff_probs, intra_probs, mv_contexts, ref_lf_deltas,
                       mode_lf_deltas, format, last_frame_shown, log>>
  BY <1>1 DEF EntropyIsLastKeptUpdate, DeltasAreLastUpdate, LastWrite, CoeffWrites,
              MvWrites, IntraWrites, RefDeltaWrites, ModeDeltaWrites
<1> QED
  BY <1>1, TablesMoveOnlyOnAccept, KeyFrameWrites, InterFrameWrites

LEMMA TablesInit == Init => EntropyIsLastKeptUpdate /\ DeltasAreLastUpdate
<1> SUFFICES ASSUME Init PROVE EntropyIsLastKeptUpdate /\ DeltasAreLastUpdate
  OBVIOUS
<1>1. Len(log) = 0
  BY DEF Init
<1>2. EntropyIsLastKeptUpdate
  BY <1>1 DEF Init, EntropyIsLastKeptUpdate, LastWrite, DefaultTable,
              CoeffWrites, MvWrites, IntraWrites
<1>3. DeltasAreLastUpdate
  BY <1>1 DEF Init, DeltasAreLastUpdate, LastWrite, ZeroDeltas,
              RefDeltaWrites, ModeDeltaWrites
<1> QED
  BY <1>2, <1>3

(* Every probability is the latest kept update of its position, whatever   *)
(* failed in between (state.rs 1091-1106).                                 *)
THEOREM EntropyTracksKeptUpdates == Spec => []EntropyIsLastKeptUpdate
BY InductiveInvariant, TablesInit, TablesStep, PTL DEF Spec

(* Every loop-filter delta is its latest update (state.rs 1072-1079).      *)
THEOREM DeltasTrackUpdates == Spec => []DeltasAreLastUpdate
BY InductiveInvariant, TablesInit, TablesStep, PTL DEF Spec

-----------------------------------------------------------------------------
(* What a step is to an observer of whole calls.                           *)
LEMMA StepOfCall ==
  ASSUME IInv, [Next]_vars
  PROVE  \/ \E p \in Packet : Call(p)
         \/ DecodeKeyFrame
         \/ CommitInterFrame
         \/ ~Idle /\ \E error : Refuse(error)
         \/ UNCHANGED <<slots, format, last_frame_shown, log, packet>> /\ Idle' = Idle
<1> DEFINE inside == UNCHANGED <<slots, format, last_frame_shown, log, packet>>
                     /\ Idle' = Idle
           refused == ~Idle /\ \E error : Refuse(error)
<1>1. RefuseKeyFrame \/ RefuseInterFrame \/ FailMacroblock => refused
  BY DEF RefuseKeyFrame, RefuseInterFrame, FailMacroblock, Idle
<1>2. StartInterFrame \/ DecodeIntraMacroblock => inside
  BY DEF StartInterFrame, DecodeIntraMacroblock, NextMacroblock, Carried, Idle
<1>3. ASSUME NEW ref \in Slot, DecodeInterMacroblock(ref)
      PROVE  refused \/ inside
  <2>1. CASE slots[ref] = NoPicture
    BY <1>3, <2>1 DEF DecodeInterMacroblock, Idle
  <2>2. CASE slots[ref] # NoPicture
    BY <1>3, <2>2 DEF DecodeInterMacroblock, NextMacroblock, Carried, Idle
  <2> QED
    BY <2>1, <2>2
<1>4. UNCHANGED vars => inside
  BY DEF vars, Carried, Idle
<1> HIDE DEF inside, refused
<1>5. \/ \E p \in Packet : Call(p)
      \/ DecodeKeyFrame \/ CommitInterFrame \/ refused \/ inside
  BY <1>1, <1>2, <1>3, <1>4 DEF Next
<1> QED
  BY <1>5 DEF inside, refused

LEMMA StepImplementsContract ==
  IInv /\ [Next]_vars =>
    [Contract!Next]_<<format, last_frame_shown,
                      IF Idle THEN {}
                      ELSE {[key |-> packet.key, show |-> packet.show,
                             format |-> packet.format]}>>
<1> DEFINE asked == IF Idle THEN {}
                    ELSE {[key |-> packet.key, show |-> packet.show,
                           format |-> packet.format]}
           c == [key |-> packet.key, show |-> packet.show, format |-> packet.format]
<1> SUFFICES ASSUME IInv, [Next]_vars
             PROVE  [Contract!Next]_<<format, last_frame_shown, asked>>
  OBVIOUS
<1>1. ASSUME NEW p \in Packet, Call(p)
      PROVE  Contract!Request
  <2>1. asked = {} /\ asked' = {c'} /\ c' \in Contract!Call
    BY <1>1, PacketFields DEF Call, Idle, Contract!Call
  <2>2. UNCHANGED <<format, last_frame_shown>>
    BY <1>1 DEF Call, Carried
  <2> QED
    BY <2>1, <2>2 DEF Contract!Request
<1>2. CASE DecodeKeyFrame
  <2>1. asked = {c} /\ asked' = {} /\ c.key
    BY <1>2 DEF DecodeKeyFrame, Return, Idle
  <2>2. format' = c.format /\ last_frame_shown' = c.show
    BY <1>2 DEF DecodeKeyFrame
  <2> QED
    BY <2>1, <2>2 DEF Contract!Accept, Contract!AcceptFrame, Contract!Next
<1>3. CASE CommitInterFrame
  <2>1. log # <<>> /\ ~packet.key
    BY <1>3 DEF IInv, CallIsWellFormed, CommitInterFrame
  <2>2. format # NoFormat
    BY <2>1, NoSlotIsEmpty, DecoderAssumption DEF Slot
  <2>3. asked = {c} /\ asked' = {} /\ ~c.key
    BY <1>3, <2>1 DEF CommitInterFrame, Return, Idle
  <2>4. format' = format /\ last_frame_shown' = c.show
    BY <1>3 DEF CommitInterFrame
  <2> QED
    BY <2>2, <2>3, <2>4 DEF Contract!Accept, Contract!AcceptFrame, Contract!Next
<1>4. CASE ~Idle /\ \E error : Refuse(error)
  <2>1. asked # {} /\ asked' = {}
    BY <1>4 DEF Refuse, Return, Idle
  <2>2. UNCHANGED <<format, last_frame_shown>>
    BY <1>4 DEF Refuse, Carried
  <2> QED
    BY <2>1, <2>2 DEF Contract!Refuse, Contract!Next
<1>5. CASE UNCHANGED <<slots, format, last_frame_shown, log, packet>> /\ Idle' = Idle
  BY <1>5
<1> QED
  BY <1>1, <1>2, <1>3, <1>4, <1>5, StepOfCall DEF Contract!Next

(* Every decode_frame call accepts the frame it was given or changes        *)
(* nothing the adapter sees (state.rs 455-471).                             *)
THEOREM DecoderImplementsContract == Spec => ImplementsContract
<1>1. Init => Contract!Init
  BY DEF Init, Contract!Init, Idle
<1> QED
  BY <1>1, InductiveInvariant, StepImplementsContract, PTL
     DEF Spec, ImplementsContract, Contract!Spec

(* Selecting every slot's source first moves the same pictures as staging. *)
LEMMA RotatedIsStaged ==
  ASSUME NEW s, NEW current, NEW c \in RefreshFields
  PROVE  Rotated(s, current, c) = Ladder!StagedRotation(s, current, c)
<1> DEFINE staged == Ladder!StagedRotation(s, current, c)
<1>0. /\ c.refreshGolden \in BOOLEAN /\ c.refreshAltref \in BOOLEAN
      /\ c.refreshLast \in BOOLEAN
      /\ c.copyGolden \in 0..3 /\ c.copyAltref \in 0..3
  BY DEF RefreshFields
<1>1. Rotated(s, current, c)["last"] = staged["last"]
  BY <1>0 DEF Rotated, Held, SourceOf, LastSource, Slot, RotationSource,
              Ladder!StagedRotation, Ladder!Slot
<1>2. Rotated(s, current, c)["golden"] = staged["golden"]
  BY <1>0 DEF Rotated, Held, SourceOf, GoldenSource, Slot, RotationSource,
              Ladder!StagedRotation, Ladder!Slot, Ladder!StagedGolden
<1>3. Rotated(s, current, c)["altref"] = staged["altref"]
  BY <1>0 DEF Rotated, Held, SourceOf, AltrefSource, Slot, RotationSource,
              Ladder!StagedRotation, Ladder!Slot, Ladder!StagedAltref
<1> QED
  BY <1>1, <1>2, <1>3 DEF Rotated, Slot, Ladder!StagedRotation, Ladder!Slot

LEMMA StepImplementsLadder ==
  IInv /\ [Next]_vars =>
    [Ladder!Next]_<<slots, IF Idle THEN {}
                           ELSE {[key |-> packet.key, current |-> PictureToCome,
                                  refresh |-> packet.refresh]}>>
<1> DEFINE asked == IF Idle THEN {}
                    ELSE {[key |-> packet.key, current |-> PictureToCome,
                           refresh |-> packet.refresh]}
           c == [key |-> packet.key, current |-> PictureToCome,
                 refresh |-> packet.refresh]
           L == Len(log)
<1> SUFFICES ASSUME IInv, [Next]_vars
             PROVE  [Ladder!Next]_<<slots, asked>>
  OBVIOUS
<1>1. ASSUME L \in Nat, L < MaxLog, log # <<>>
      PROVE  /\ slots["last"] # NoPicture
             /\ [slots["last"] EXCEPT !.frame = L + 1] \in Picture
  <2>1. format \in Format /\ \E n \in 1..L : slots["last"] = PictureOf(n, format)
    BY <1>1, NoSlotIsEmpty DEF Slot
  <2>2. [slots["last"] EXCEPT !.frame = L + 1] = PictureOf(L + 1, format)
    BY <2>1 DEF PictureOf
  <2>3. L + 1 \in 1..MaxLog /\ 1..L \subseteq 1..MaxLog
    BY <1>1, DecoderAssumption
  <2> QED
    BY <2>1, <2>2, <2>3, DecoderAssumption DEF Picture
<1>2. ASSUME NEW p \in Packet, Call(p)
      PROVE  Ladder!Request
  <2>1. /\ pc' = "parse" /\ Idle /\ packet' = p /\ slots' = slots /\ log' = log
        /\ p.key \/ L < MaxLog
    BY <1>2 DEF Call, Carried
  <2>2. PictureOf(1, p.format) \in Picture
    BY PacketFields, DecoderAssumption DEF Picture
  <2>3. PictureToCome' \in Picture \cup {NoPicture}
    <3>1. CASE p.key
      BY <2>1, <2>2, <3>1 DEF PictureToCome
    <3>2. CASE ~p.key /\ slots["last"] = NoPicture
      BY <2>1, <3>2 DEF PictureToCome
    <3>3. CASE ~p.key /\ slots["last"] # NoPicture
      <4>1. log # <<>> /\ L \in Nat
        BY <3>3 DEF IInv, SlotsMatchFormat, TypeOK, AllSlots, Slot
      <4> QED
        BY <2>1, <3>3, <4>1, <1>1 DEF PictureToCome
    <3> QED
      BY <3>1, <3>2, <3>3
  <2>4. asked = {} /\ asked' = {c'}
    BY <2>1 DEF Idle
  <2>5. c' \in Ladder!Call
    BY <2>1, <2>3, PacketFields DEF Ladder!Call, Ladder!RefreshFields, RefreshFields
  <2> QED
    BY <2>1, <2>4, <2>5 DEF Ladder!Request
<1>3. CASE DecodeKeyFrame
  <2>1. packet \in Packet /\ packet.key
    BY <1>3 DEF IInv, CallIsWellFormed, DecodeKeyFrame
  <2>2. c.current = PictureOf(1, packet.format) /\ c.current \in Picture
    BY <2>1, PacketFields, DecoderAssumption DEF Picture, PictureToCome
  <2>3. asked = {c} /\ asked' = {} /\ c.key
    BY <1>3, <2>1 DEF DecodeKeyFrame, Return, Idle
  <2>4. slots' = Ladder!AllSlots(c.current)
    BY <1>3, <2>2 DEF DecodeKeyFrame, KeySlots, AllSlots, Ladder!AllSlots,
                      Slot, Ladder!Slot
  <2> QED
    BY <2>2, <2>3, <2>4 DEF Ladder!InstallKeyFrame, Ladder!Next
<1>4. CASE CommitInterFrame
  <2>1. packet \in Packet /\ ~packet.key /\ log # <<>> /\ L < MaxLog /\ L \in Nat
    BY <1>4 DEF IInv, TypeOK, CallIsWellFormed, CommitInterFrame
  <2>2. /\ c.current = [slots["last"] EXCEPT !.frame = L + 1]
        /\ c.current \in Picture
    BY <2>1, <1>1 DEF PictureToCome
  <2>3. asked = {c} /\ asked' = {} /\ ~c.key
    BY <1>4, <2>1 DEF CommitInterFrame, Return, Idle
  <2>4. slots' = Rotated(slots, c.current, c.refresh)
    BY <1>4, <2>2 DEF CommitInterFrame
  <2>5. slots' = Ladder!StagedRotation(slots, c.current, c.refresh)
    BY <2>1, <2>4, PacketFields, RotatedIsStaged
  <2> QED
    BY <2>2, <2>3, <2>5 DEF Ladder!Rotate, Ladder!Next
<1>5. CASE ~Idle /\ \E error : Refuse(error)
  <2>1. asked # {} /\ asked' = {} /\ slots' = slots
    BY <1>5 DEF Refuse, Return, Idle, Carried
  <2> QED
    BY <2>1 DEF Ladder!Abort, Ladder!Next
<1>6. CASE UNCHANGED <<slots, format, last_frame_shown, log, packet>> /\ Idle' = Idle
  BY <1>6 DEF PictureToCome
<1> QED
  BY <1>2, <1>3, <1>4, <1>5, <1>6, StepOfCall DEF Ladder!Next

(* Through failed calls and key frames alike, the slots move exactly as    *)
(* the staged ladder says (state.rs 1109-1140, test 1431-1470).            *)
THEOREM DecoderImplementsLadder == Spec => ImplementsLadder
<1>1. Init => Ladder!Init
  BY DEF Init, Ladder!Init, AllSlots, Slot, Ladder!Slot, Idle
<1> QED
  BY <1>1, InductiveInvariant, StepImplementsLadder, PTL
     DEF Spec, ImplementsLadder, Ladder!Spec
=============================================================================
