---------------------- MODULE InterStreamEncoder_proofs ----------------------
(***************************************************************************)
(* The stream encoder's promises hold for any intervals, frame sizes,      *)
(* refresh ladders, deltas and token updates, and any number of frames     *)
(* between the two ends: the decoder has what each frame was coded         *)
(* against, a key frame cuts every dependence on the past, and the         *)
(* previews foretell the next frame.                                       *)
(***************************************************************************)
EXTENDS InterStreamEncoder, SequenceTheorems, TLAPS

DeltaTable == [DeltaIndex -> Delta]
Layer == Deltas \cup {LoopFilterDeltasOff}

(* The ladders an interframe may carry: legal ones, the scheduled included. *)
Ladders == { c \in [ refreshGolden : BOOLEAN, refreshAltref : BOOLEAN,
                     copyGolden : Nat, copyAltref : Nat, refreshLast : BOOLEAN ] : Legal(c) }

(* What both ends carry between two frames, and the frames the encoder     *)
(* emits: an interframe always has a LAST picture to predict from.         *)
CarriedType == [ slots : [Slot -> Nat \cup {NoPicture}], refDeltas : DeltaTable, modeDeltas : DeltaTable ]
KeyFrames == { CodedKey(p, c, t) : p \in Nat, c \in CarriedType, t \in Tokens }
Predictable == { c \in CarriedType : c.slots["last"] # NoPicture }
Coding == [ picture : Nat, carried : Predictable, ladder : Ladders, deltas : Layer, tokens : Tokens ]
InterFrames == { CodedInter(x.picture, x.carried, TRUE, x.ladder, x.deltas, x.tokens) : x \in Coding }
Frames == KeyFrames \cup InterFrames

(* What the encoder carries once it has coded frame f.                     *)
Left(f) ==
  IF f.packet.key
  THEN [slots |-> AllSlots(f.picture), refDeltas |-> ZeroDeltas, modeDeltas |-> ZeroDeltas]
  ELSE [slots |-> Rotated(f.carried.slots, f.picture, f.packet.refresh),
        refDeltas |-> InterDeltas(f.packet, f.carried.refDeltas, f.packet.refDelta),
        modeDeltas |-> InterDeltas(f.packet, f.carried.modeDeltas, f.packet.modeDelta)]

(* A decoder in step with an encoder that carries c: the token table is    *)
(* always the default one between frames.                                  *)
Holding(c) == [ slots |-> c.slots, coeff |-> DefaultTable(CoeffCell),
                refDeltas |-> c.refDeltas, modeDeltas |-> c.modeDeltas ]

TypeOK ==
  /\ frame_count \in Nat
  /\ last_keyframe_index \in Nat \cup {NoKeyframe}
  /\ slots \in [Slot -> Nat \cup {NoPicture}]
  /\ carried_ref_deltas \in DeltaTable /\ carried_mode_deltas \in DeltaTable
  /\ wire \in Seq(Frames)

(* The frames between the two ends form a chain: the decoder holds what    *)
(* the first was coded against, each leaves what the next was coded        *)
(* against, and the last what the encoder carries now.                     *)
Chain ==
  /\ wire = <<>> => peer = Holding(Carried)
  /\ wire # <<>> => peer = Holding(wire[1].carried) /\ Left(wire[Len(wire)]) = Carried
  /\ \A i \in 1..Len(wire) - 1 : Left(wire[i]) = wire[i + 1].carried

(* No slot is older than the last key frame.                               *)
Accessible ==
  /\ last_keyframe_index # NoKeyframe => last_keyframe_index <= frame_count
  /\ \A s \in Slot : /\ slots[s] = NoPicture <=> last_keyframe_index = NoKeyframe
                     /\ slots[s] # NoPicture => slots[s] >= 2 * last_keyframe_index

Inv == TypeOK /\ Chain /\ Accessible

-----------------------------------------------------------------------------
LEMMA OverlayNothing ==
  ASSUME NEW T, T \in DeltaTable
  PROVE  Overlay(T, NoDelta) = T
BY DEF Overlay, NoDelta, DeltaTable

LEMMA OverlayType ==
  ASSUME NEW T \in DeltaTable, NEW u \in DeltaUpdate
  PROVE  Overlay(T, u) \in DeltaTable
BY DEF Overlay, DeltaUpdate, DeltaTable

LEMMA ZeroType == ZeroDeltas \in DeltaTable
BY ValueAssumption DEF ZeroDeltas, DeltaTable

LEMMA NoDeltaType == NoDelta \in DeltaUpdate
BY DEF NoDelta, DeltaUpdate

LEMMA LayerType ==
  ASSUME NEW d \in Layer
  PROVE  /\ d.enabled \in BOOLEAN /\ d.update \in BOOLEAN
         /\ d.ref \in DeltaUpdate /\ d.mode \in DeltaUpdate
<1>1. CASE d \in Deltas
  BY <1>1, StreamAssumption
<1>2. CASE d = LoopFilterDeltasOff
  BY <1>2, NoDeltaType DEF LoopFilterDeltasOff
<1> QED BY <1>1, <1>2 DEF Layer

(* What a header says of one table of deltas, and what the decoder makes   *)
(* of it, is what the encoder coded the frame with and goes on with.       *)
LEMMA DeltasMeet ==
  ASSUME NEW d, d.enabled \in BOOLEAN, d.update \in BOOLEAN,
         NEW T \in DeltaTable, NEW u \in DeltaUpdate,
         NEW p, p.adjEnable = d.enabled
  PROVE  /\ Applied(p, T, OnWire(d, u)) = Effective(d, T, u)
         /\ d.enabled => InterDeltas(p, T, OnWire(d, u)) = Effective(d, T, u)
         /\ ~d.enabled => InterDeltas(p, T, OnWire(d, u)) = T
         /\ Effective(d, T, u) \in DeltaTable
         /\ InterDeltas(p, T, OnWire(d, u)) \in DeltaTable
<1>1. OnWire(d, u) \in DeltaUpdate
  BY NoDeltaType DEF OnWire
<1>2. d.enabled /\ ~d.update => Overlay(T, OnWire(d, u)) = T
  BY OverlayNothing DEF OnWire
<1>3. d.enabled /\ d.update => OnWire(d, u) = u
  BY DEF OnWire
<1> QED
  BY <1>1, <1>2, <1>3, OverlayType, ZeroType DEF Applied, Effective, InterDeltas

(* The encoder's clones rotate as the header's ladder says.                *)
LEMMA ClonesRotate ==
  ASSUME NEW s, NEW current, NEW c \in Ladders
  PROVE  EncoderSlots(s, current, c) = Rotated(s, current, c)
<1>1. c.copyGolden \in 0..2 /\ c.copyAltref \in 0..2
  BY DEF Ladders, Legal
<1>2. c.refreshGolden \in BOOLEAN /\ c.refreshAltref \in BOOLEAN /\ c.refreshLast \in BOOLEAN
  BY DEF Ladders
<1>3. EncoderSlots(s, current, c)["last"] = Rotated(s, current, c)["last"]
  BY <1>2 DEF EncoderSlots, Rotated, Held, SourceOf, LastSource, Slot, RotationSource
<1>4. EncoderSlots(s, current, c)["golden"] = Rotated(s, current, c)["golden"]
  BY <1>1, <1>2 DEF EncoderSlots, Rotated, Held, SourceOf, GoldenSource, Slot, RotationSource
<1>5. EncoderSlots(s, current, c)["altref"] = Rotated(s, current, c)["altref"]
  BY <1>1, <1>2 DEF EncoderSlots, Rotated, Held, SourceOf, AltrefSource, Slot, RotationSource
<1>6. EncoderSlots(s, current, c) = [x \in Slot |-> EncoderSlots(s, current, c)[x]]
  BY DEF EncoderSlots, Slot
<1>7. Rotated(s, current, c) = [x \in Slot |-> Rotated(s, current, c)[x]]
  BY DEF Rotated
<1> QED
  BY <1>3, <1>4, <1>5, <1>6, <1>7 DEF Slot

LEMMA RotatedType ==
  ASSUME NEW s \in [Slot -> Nat \cup {NoPicture}], NEW current \in Nat, NEW c
  PROVE  Rotated(s, current, c) \in [Slot -> Nat \cup {NoPicture}]
BY DEF Rotated, Held, SourceOf, LastSource, GoldenSource, AltrefSource, Slot, RotationSource

-----------------------------------------------------------------------------
(* A decoder in step with what a key frame or an interframe was coded      *)
(* against decodes it as coded, and is in step afterwards.                 *)
LEMMA TokensForgotten ==
  ASSUME NEW t \in Tokens
  PROVE  KeyCoeff(KeyPacket(t)) = DefaultTable(CoeffCell)
BY StreamAssumption, ValueAssumption
   DEF KeyCoeff, KeyPacket, AnyUpdate, Overlay, DefaultTable

LEMMA KeyDecodes ==
  ASSUME NEW f \in KeyFrames
  PROVE  /\ f.packet.key /\ CodedAgainst(f)
         /\ AfterKey(f) = Holding(Left(f))
         /\ Left(f) \in CarriedType /\ f.carried \in CarriedType
<1>1. PICK p \in Nat, c \in CarriedType, t \in Tokens : f = CodedKey(p, c, t)
  BY DEF KeyFrames
<1>2. /\ f.packet = KeyPacket(t) /\ f.picture = p /\ f.carried = c
      /\ f.coeff = Overlay(DefaultTable(CoeffCell), t)
  BY <1>1 DEF CodedKey
<1>3. f.packet.key /\ ~f.packet.adjEnable /\ f.packet.coeff = t
  BY <1>2 DEF KeyPacket
<1>4. CodedAgainst(f)
  BY <1>2, <1>3 DEF CodedAgainst
<1>5. AfterKey(f) = Holding(Left(f))
  BY <1>2, <1>3, <1>4, TokensForgotten DEF AfterKey, Holding, Left, Decoded, KeyDeltas
<1>6. Left(f) \in CarriedType
  BY <1>2, <1>3, ZeroType DEF Left, CarriedType, AllSlots
<1> QED BY <1>2, <1>3, <1>4, <1>5, <1>6

LEMMA InterDecodes ==
  ASSUME NEW f \in InterFrames
  PROVE  /\ ~f.packet.key /\ f.carried \in CarriedType /\ f.carried.slots["last"] # NoPicture
         /\ Left(f) \in CarriedType
         /\ peer = Holding(f.carried) => CodedAgainst(f) /\ AfterInter(f) = Holding(Left(f))
<1>1. PICK p \in Nat, c \in Predictable, r \in Ladders, d \in Layer, t \in Tokens :
        f = CodedInter(p, c, TRUE, r, d, t)
  <2>1. PICK x \in Coding : f = CodedInter(x.picture, x.carried, TRUE, x.ladder, x.deltas, x.tokens)
    BY DEF InterFrames
  <2> QED BY <2>1 DEF Coding
<1>2. /\ f.packet = InterPacket(TRUE, r, d, t) /\ f.picture = p /\ f.carried = c
      /\ f.coeff = Overlay(DefaultTable(CoeffCell), t)
      /\ f.refDeltas = Effective(d, c.refDeltas, d.ref)
      /\ f.modeDeltas = Effective(d, c.modeDeltas, d.mode)
  BY <1>1 DEF CodedInter
<1>3. /\ ~f.packet.key /\ f.packet.adjEnable = d.enabled /\ f.packet.coeff = t
      /\ ~f.packet.refreshEntropy /\ f.packet.refresh = r
      /\ f.packet.refDelta = OnWire(d, d.ref) /\ f.packet.modeDelta = OnWire(d, d.mode)
  BY <1>2 DEF InterPacket
<1>4. c.refDeltas \in DeltaTable /\ c.modeDeltas \in DeltaTable /\ c.slots \in [Slot -> Nat \cup {NoPicture}]
      /\ c \in CarriedType /\ c.slots["last"] # NoPicture
  BY DEF Predictable, CarriedType
<1>5. /\ d.enabled \in BOOLEAN /\ d.update \in BOOLEAN
      /\ d.ref \in DeltaUpdate /\ d.mode \in DeltaUpdate
  BY LayerType
<1>6. /\ Applied(f.packet, c.refDeltas, OnWire(d, d.ref)) = Effective(d, c.refDeltas, d.ref)
      /\ InterDeltas(f.packet, c.refDeltas, OnWire(d, d.ref)) \in DeltaTable
  BY <1>3, <1>4, <1>5, DeltasMeet
<1>7. /\ Applied(f.packet, c.modeDeltas, OnWire(d, d.mode)) = Effective(d, c.modeDeltas, d.mode)
      /\ InterDeltas(f.packet, c.modeDeltas, OnWire(d, d.mode)) \in DeltaTable
  BY <1>3, <1>4, <1>5, DeltasMeet
<1>8. /\ Applied(f.packet, c.refDeltas, f.packet.refDelta) = f.refDeltas
      /\ Applied(f.packet, c.modeDeltas, f.packet.modeDelta) = f.modeDeltas
      /\ InterDeltas(f.packet, c.refDeltas, f.packet.refDelta) \in DeltaTable
      /\ InterDeltas(f.packet, c.modeDeltas, f.packet.modeDelta) \in DeltaTable
  BY <1>2, <1>3, <1>6, <1>7
<1>9. Left(f) \in CarriedType
  BY <1>2, <1>3, <1>4, <1>8, RotatedType DEF Left, CarriedType
<1>10. ASSUME peer = Holding(f.carried)
      PROVE  CodedAgainst(f) /\ AfterInter(f) = Holding(Left(f))
  <2>1. /\ peer.slots = c.slots /\ peer.coeff = DefaultTable(CoeffCell)
        /\ peer.refDeltas = c.refDeltas /\ peer.modeDeltas = c.modeDeltas
    BY <1>2, <1>10 DEF Holding
  <2>2. CodedAgainst(f)
    BY <1>2, <1>3, <1>8, <2>1 DEF CodedAgainst
  <2> QED
    BY <1>2, <1>3, <2>1, <2>2 DEF AfterInter, Holding, Left, Decoded
<1> QED BY <1>2, <1>3, <1>4, <1>9, <1>10

-----------------------------------------------------------------------------
(* A frame joins the chain at its end ...                                  *)
LEMMA FrameJoins ==
  ASSUME TypeOK, Chain, NEW f \in Frames, f.carried = Carried,
         wire' = Append(wire, f), Left(f) = Carried', peer' = peer
  PROVE  wire' \in Seq(Frames) /\ Chain'
<1>1. wire' \in Seq(Frames) /\ Len(wire') = Len(wire) + 1 /\ wire'[Len(wire) + 1] = f
      /\ \A i \in 1..Len(wire) : wire'[i] = wire[i]
  BY AppendProperties DEF TypeOK
<1>2. wire' # <<>> /\ Len(wire) \in Nat
  BY <1>1, EmptySeq, LenProperties DEF TypeOK
<1>3. wire = <<>> => Len(wire) = 0
  BY EmptySeq
<1>4. wire # <<>> => Len(wire) > 0
  BY EmptySeq, LenProperties DEF TypeOK
<1>5. peer' = Holding(wire'[1].carried)
  BY <1>1, <1>3, <1>4, <1>2 DEF Chain
<1>6. Left(wire'[Len(wire')]) = Carried'
  BY <1>1
<1>7. ASSUME NEW i \in 1..Len(wire') - 1 PROVE Left(wire'[i]) = wire'[i + 1].carried
  <2>1. CASE i = Len(wire)
    BY <1>1, <1>2, <1>3, <2>1 DEF Chain
  <2>2. CASE i < Len(wire)
    BY <1>1, <1>2, <2>2 DEF Chain
  <2> QED BY <1>1, <1>2, <2>1, <2>2
<1> QED BY <1>1, <1>2, <1>5, <1>6, <1>7 DEF Chain

(* ... and leaves it at its head, decoded.                                 *)
LEMMA FrameLeaves ==
  ASSUME TypeOK, Chain, Deliver
  PROVE  wire' \in Seq(Frames) /\ Chain'
<1> DEFINE f == Head(wire)
<1>1. /\ wire # <<>> /\ Len(wire) \in Nat \ {0} /\ f = wire[1] /\ f \in Frames
      /\ wire' \in Seq(Frames) /\ Len(wire') = Len(wire) - 1
      /\ \A i \in 1..Len(wire') : wire'[i] = wire[i + 1]
  BY HeadTailProperties, EmptySeq, LenProperties, ElementOfSeq DEF Deliver, DecodeNext, TypeOK
<1>2. peer = Holding(f.carried)
  BY <1>1 DEF Chain
<1>3. peer' = Holding(Left(f))
  <2>1. CASE f \in KeyFrames
    BY <2>1, KeyDecodes DEF Deliver, DecodeNext
  <2>2. CASE f \in InterFrames
    <3>1. ~f.packet.key /\ AfterInter(f) = Holding(Left(f)) /\ peer.slots["last"] # NoPicture
      BY <1>2, <2>2, InterDecodes DEF Holding
    <3> QED BY <3>1 DEF Deliver, DecodeNext
  <2> QED BY <1>1, <2>1, <2>2 DEF Frames
<1>4. Carried' = Carried
  BY DEF Deliver, encoder, Carried
<1>5. CASE Len(wire) = 1
  <2>1. wire' = <<>>
    BY <1>1, <1>5, EmptySeq, LenProperties
  <2> QED BY <1>1, <1>3, <1>4, <1>5, <2>1 DEF Chain
<1>6. CASE Len(wire) > 1
  <2>1. wire' # <<>> /\ wire'[1] = wire[2] /\ wire'[Len(wire')] = wire[Len(wire)]
    BY <1>1, <1>6, EmptySeq
  <2>2. Left(f) = wire[2].carried
    BY <1>1, <1>6 DEF Chain
  <2>3. \A i \in 1..Len(wire') - 1 : Left(wire'[i]) = wire'[i + 1].carried
    BY <1>1, <1>6 DEF Chain
  <2> QED BY <1>1, <1>3, <1>4, <2>1, <2>2, <2>3 DEF Chain
<1> QED BY <1>1, <1>5, <1>6

-----------------------------------------------------------------------------
(* What each pass leaves: the picture the encoder keeps is the one the     *)
(* bytes decode to, and it belongs to the frame being coded.               *)
CodedWell(coded) ==
  /\ coded.kept = coded.picture /\ coded.tokens \in Tokens
  /\ coded.picture \in {2 * frame_count, 2 * frame_count + 1}

LEMMA PassesCodeWell ==
  ASSUME NEW t \in Tokens, NEW grew \in BOOLEAN
  PROVE  CodedWell(FirstPass) /\ CodedWell(Fitted(t, grew)) /\ CodedWell(encode_p_frame_with_token_updates(t))
BY StreamAssumption
   DEF CodedWell, FirstPass, Fitted, Shipped, SecondPicture, encode_p_frame_with_token_updates

LEMMA CarriedHasType ==
  ASSUME TypeOK
  PROVE  Carried \in CarriedType
BY DEF TypeOK, Carried, CarriedType

LEMMA KeyKeepsInvariant ==
  ASSUME Inv, NEW entry, NEW coded, CodedWell(coded), NEW d, Key(entry, coded, d)
  PROVE  Inv'
<1> DEFINE f == CodedKey(coded.picture, Carried, coded.tokens)
<1>1. coded.picture \in Nat /\ coded.tokens \in Tokens
  BY DEF CodedWell, Inv, TypeOK
<1>2. f \in Frames
  BY <1>1, CarriedHasType DEF Frames, KeyFrames, Inv
<1>3. f \in Frames /\ f.carried = Carried /\ f.packet.key /\ f.picture = coded.picture
  BY <1>2 DEF CodedKey, KeyPacket
<1>4. Left(f) = Carried'
  BY <1>3 DEF Left, Carried, Key, InstallKeyFrame, CodedWell
<1>5. wire' \in Seq(Frames) /\ Chain'
  BY <1>3, <1>4, FrameJoins DEF Key, Emit, Inv
<1>6. TypeOK'
  BY <1>1, <1>5, ZeroType DEF Key, InstallKeyFrame, Emit, Inv, TypeOK, AllSlots, CodedWell
<1>7. Accessible'
  BY <1>1, StreamAssumption DEF Key, InstallKeyFrame, Emit, Inv, TypeOK, AllSlots, CodedWell, Accessible
<1> QED BY <1>5, <1>6, <1>7 DEF Inv

LEMMA InterKeepsInvariant ==
  ASSUME Inv, NEW entry, NEW coded, CodedWell(coded), NEW c \in Ladders, NEW l \in Layer, NEW d,
         slots["last"] # NoPicture, Inter(entry, coded, c, l, d), Carry(l)
  PROVE  Inv'
<1> DEFINE f == CodedInter(coded.picture, Carried, TRUE, c, l, coded.tokens)
<1>1. coded.picture \in Nat /\ coded.tokens \in Tokens
  BY DEF CodedWell, Inv, TypeOK
<1>2. Carried \in CarriedType /\ Carried.slots = slots
      /\ Carried.refDeltas = carried_ref_deltas /\ Carried.modeDeltas = carried_mode_deltas
  BY CarriedHasType DEF Inv, Carried
<1>3. Carried \in Predictable
  BY <1>2 DEF Predictable
<1>4. f \in Frames
  <2> DEFINE x == [picture |-> coded.picture, carried |-> Carried, ladder |-> c,
                  deltas |-> l, tokens |-> coded.tokens]
  <2>1. x \in Coding
    BY <1>1, <1>3 DEF Coding
  <2>2. f = CodedInter(x.picture, x.carried, TRUE, x.ladder, x.deltas, x.tokens)
    OBVIOUS
  <2> QED BY <2>1, <2>2 DEF Frames, InterFrames
<1>5. /\ f.carried = Carried /\ ~f.packet.key /\ f.picture = coded.picture
      /\ f.packet.refresh = c /\ f.packet.adjEnable = l.enabled
      /\ f.packet.refDelta = OnWire(l, l.ref) /\ f.packet.modeDelta = OnWire(l, l.mode)
  BY DEF CodedInter, InterPacket
<1>6. slots' = Rotated(slots, coded.picture, c)
  BY ClonesRotate DEF Inter, CodedWell
<1>7. /\ l.enabled \in BOOLEAN /\ l.update \in BOOLEAN
      /\ l.ref \in DeltaUpdate /\ l.mode \in DeltaUpdate
  BY LayerType
<1>8. carried_ref_deltas \in DeltaTable /\ carried_mode_deltas \in DeltaTable
      /\ slots \in [Slot -> Nat \cup {NoPicture}]
  BY DEF Inv, TypeOK
<1> HIDE DEF f
<1>9. /\ InterDeltas(f.packet, carried_ref_deltas, OnWire(l, l.ref)) \in DeltaTable
      /\ l.enabled => InterDeltas(f.packet, carried_ref_deltas, OnWire(l, l.ref))
                         = Effective(l, carried_ref_deltas, l.ref)
      /\ ~l.enabled => InterDeltas(f.packet, carried_ref_deltas, OnWire(l, l.ref)) = carried_ref_deltas
  BY <1>5, <1>7, <1>8, DeltasMeet
<1>10. /\ InterDeltas(f.packet, carried_mode_deltas, OnWire(l, l.mode)) \in DeltaTable
       /\ l.enabled => InterDeltas(f.packet, carried_mode_deltas, OnWire(l, l.mode))
                          = Effective(l, carried_mode_deltas, l.mode)
       /\ ~l.enabled => InterDeltas(f.packet, carried_mode_deltas, OnWire(l, l.mode)) = carried_mode_deltas
  BY <1>5, <1>7, <1>8, DeltasMeet
<1>11. /\ carried_ref_deltas' = InterDeltas(f.packet, carried_ref_deltas, OnWire(l, l.ref))
       /\ carried_ref_deltas' \in DeltaTable
  <2>1. CASE l.enabled
    BY <1>9, <2>1 DEF Carry
  <2>2. CASE ~l.enabled
    BY <1>9, <2>2 DEF Carry, KeepCarried
  <2> QED BY <1>7, <2>1, <2>2
<1>12. /\ carried_mode_deltas' = InterDeltas(f.packet, carried_mode_deltas, OnWire(l, l.mode))
       /\ carried_mode_deltas' \in DeltaTable
  <2>1. CASE l.enabled
    BY <1>10, <2>1 DEF Carry
  <2>2. CASE ~l.enabled
    BY <1>10, <2>2 DEF Carry, KeepCarried
  <2> QED BY <1>7, <2>1, <2>2
<1>13. Left(f) = Carried'
  BY <1>2, <1>5, <1>6, <1>11, <1>12 DEF Left, Carried
<1>14. wire' = Append(wire, f) /\ peer' = peer
  BY DEF Inter, Emit, f
<1>15. wire' \in Seq(Frames) /\ Chain'
  BY <1>4, <1>5, <1>13, <1>14, FrameJoins DEF Inv
<1>16. slots' \in [Slot -> Nat \cup {NoPicture}]
  BY <1>1, <1>6, <1>8, RotatedType
<1>17. TypeOK'
  <2>1. frame_count' \in Nat /\ last_keyframe_index' = last_keyframe_index
    BY DEF Inter, Emit, Inv, TypeOK
  <2> QED BY <1>11, <1>12, <1>15, <1>16, <2>1 DEF Inv, TypeOK
<1>18. \A s \in Slot : slots'[s] \in {slots["last"], slots["golden"], slots["altref"], coded.picture}
  BY <1>6 DEF Rotated, Held, SourceOf, LastSource, GoldenSource, AltrefSource, Slot, RotationSource
<1>19. last_keyframe_index \in Nat /\ last_keyframe_index <= frame_count
  BY StreamAssumption DEF Inv, TypeOK, Accessible, Slot
<1>20. /\ coded.picture >= 2 * last_keyframe_index
       /\ \A s \in Slot : slots[s] \in Nat /\ slots[s] >= 2 * last_keyframe_index
  BY <1>1, <1>8, <1>19, StreamAssumption DEF Inv, TypeOK, Accessible, CodedWell
<1>21. Accessible'
  BY <1>1, <1>18, <1>19, <1>20, StreamAssumption DEF Inter, Emit, Inv, TypeOK, Accessible, Slot
<1> QED BY <1>15, <1>17, <1>21 DEF Inv

-----------------------------------------------------------------------------
LEMMA ScheduledLadders ==
  ScheduledRefresh \in Ladders /\ RefreshLastOnly \in Ladders /\ LoopFilterDeltasOff \in Layer
<1>1. RefreshLastOnly \in Ladders
  BY DEF RefreshLastOnly, Ladders, Legal
<1>2. RefreshLastAndGolden \in Ladders
  BY DEF RefreshLastAndGolden, Ladders, Legal
<1>3. ScheduledRefresh \in Ladders
  BY <1>1, <1>2 DEF ScheduledRefresh
<1> QED BY <1>1, <1>3 DEF Layer

LEMMA CalledLadders ==
  ASSUME NEW c \in Refresh, Legal(c)
  PROVE  c \in Ladders
BY StreamAssumption DEF Ladders

LEMMA PassesByName ==
  /\ encode_keyframe_with_reconstruction = FirstPass
  /\ encode_p_frame_multi_ref = FirstPass
  /\ encode_p_frame_with_intra_pick = FirstPass
  /\ \A t, grew :
       /\ encode_keyframe_with_fitted_updates(t, grew) = Fitted(t, grew)
       /\ encode_p_frame_with_fitted_updates(t, grew) = Fitted(t, grew)
       /\ encode_p_frame_with_intra_pick_and_fitted_updates(t, grew) = Fitted(t, grew)
BY DEF encode_keyframe_with_reconstruction, encode_p_frame_multi_ref, encode_p_frame_with_intra_pick,
       encode_keyframe_with_fitted_updates, encode_p_frame_with_fitted_updates,
       encode_p_frame_with_intra_pick_and_fitted_updates

LEMMA FirstPassCodesWell == CodedWell(FirstPass)
BY PassesCodeWell, StreamAssumption

LEMMA OffCarries ==
  ASSUME KeepCarried
  PROVE  Carry(LoopFilterDeltasOff)
BY DEF Carry, LoopFilterDeltasOff

LEMMA VariantKeepsInvariant ==
  ASSUME Inv, NEW d, NEW force, NEW key, NEW inter, CodedWell(key), CodedWell(inter),
         EncodeFrameVariant(d, force, key, inter)
  PROVE  Inv'
<1>1. CASE EmitKey(force) /\ Key("other", key, d)
  BY <1>1, KeyKeepsInvariant
<1>2. CASE ~EmitKey(force) /\ Inter("other", inter, RefreshLastOnly, LoopFilterDeltasOff, d) /\ KeepCarried
  BY <1>2, InterKeepsInvariant, ScheduledLadders, OffCarries DEF EmitKey
<1> QED BY <1>1, <1>2 DEF EncodeFrameVariant

LEMMA PFrameKeepsInvariant ==
  ASSUME Inv, NEW d, NEW c \in Refresh, NEW l \in Layer, NEW coded, CodedWell(coded),
         PFrame(d, c, l, coded)
  PROVE  Inv'
BY InterKeepsInvariant, CalledLadders DEF PFrame

LEMMA StutterKeepsInvariant ==
  ASSUME Inv, UNCHANGED <<encoder, wire, peer>>
  PROVE  Inv'
BY DEF Inv, TypeOK, Chain, Accessible, Carried, encoder

LEMMA DeliverKeepsInvariant ==
  ASSUME Inv, Deliver
  PROVE  Inv'
<1>1. wire' \in Seq(Frames) /\ Chain'
  BY FrameLeaves DEF Inv
<1> QED BY <1>1 DEF Inv, TypeOK, Accessible, Deliver, encoder

LEMMA StepKeepsInvariant ==
  ASSUME Inv, Next
  PROVE  Inv'
<1> USE DEF Layer
<1>1. ASSUME NEW d \in Dimensions, NEW force \in BOOLEAN, EncodeFrame(d, force)
      PROVE  Inv'
  <2>1. CASE EmitKey(force)
    BY <1>1, <2>1, PassesByName, FirstPassCodesWell, KeyKeepsInvariant DEF EncodeFrame
  <2>2. CASE ~EmitKey(force)
    BY <1>1, <2>2, PassesByName, FirstPassCodesWell, InterKeepsInvariant, ScheduledLadders, OffCarries
       DEF EncodeFrame, EmitKey
  <2> QED BY <2>1, <2>2
<1>2. ASSUME NEW d \in Dimensions, NEW force \in BOOLEAN, EncodeFrameWithIntraPick(d, force)
      PROVE  Inv'
  BY <1>2, PassesByName, FirstPassCodesWell, VariantKeepsInvariant DEF EncodeFrameWithIntraPick
<1>3. ASSUME NEW d \in Dimensions, NEW force \in BOOLEAN, NEW grew \in BOOLEAN, NEW t \in Tokens,
             EncodeFrameFitted(d, force, t, grew)
      PROVE  Inv'
  BY <1>3, PassesCodeWell, PassesByName, VariantKeepsInvariant DEF EncodeFrameFitted
<1>4. ASSUME NEW d \in Dimensions, NEW c \in Refresh,
             EncodePFrameWithRefresh(d, c) \/ EncodePFrameWithIntraPick(d, c)
      PROVE  Inv'
  BY <1>4, PassesByName, FirstPassCodesWell, PFrameKeepsInvariant, ScheduledLadders
     DEF EncodePFrameWithRefresh, EncodePFrameWithIntraPick
<1>5. ASSUME NEW d \in Dimensions, NEW c \in Refresh, NEW l \in Deltas,
             EncodePFrameWithLfDeltas(d, c, l) \/ EncodePFrameWithLfDeltasAndIntraPick(d, c, l)
      PROVE  Inv'
  BY <1>5, PassesByName, FirstPassCodesWell, PFrameKeepsInvariant
     DEF EncodePFrameWithLfDeltas, EncodePFrameWithLfDeltasAndIntraPick
<1>6. ASSUME NEW d \in Dimensions, NEW c \in Refresh, NEW l \in Deltas, NEW t \in Tokens,
             EncodePFrameWithTokenUpdates(d, c, l, t)
      PROVE  Inv'
  BY <1>6, PassesCodeWell, PFrameKeepsInvariant DEF EncodePFrameWithTokenUpdates
<1>7. ASSUME NEW d \in Dimensions, NEW c \in Refresh, NEW l \in Deltas, NEW t \in Tokens, NEW grew \in BOOLEAN,
             EncodePFrameFitted(d, c, l, t, grew) \/ EncodePFrameWithIntraPickFitted(d, c, l, t, grew)
      PROVE  Inv'
  BY <1>7, PassesCodeWell, PassesByName, PFrameKeepsInvariant
     DEF EncodePFrameFitted, EncodePFrameWithIntraPickFitted
<1>8. ASSUME NEW d \in Dimensions, EncodeKeyframeOnly(d)
      PROVE  Inv'
  BY <1>8, PassesByName, FirstPassCodesWell, KeyKeepsInvariant DEF EncodeKeyframeOnly, EncodeKeyframe
<1>9. ASSUME NEW d \in Dimensions, NEW t \in Tokens, NEW grew \in BOOLEAN, EncodeKeyframeFitted(d, t, grew)
      PROVE  Inv'
  BY <1>9, PassesCodeWell, PassesByName, KeyKeepsInvariant DEF EncodeKeyframeFitted, EncodeKeyframe
<1>10. ASSUME \/ RefuseFrame
              \/ \E d \in Dimensions : RefuseDimensions(d) \/ \E c \in Refresh : RefusePFrame(d, c)
       PROVE  Inv'
  BY <1>10, StutterKeepsInvariant DEF RefuseFrame, RefuseDimensions, RefusePFrame, Refuse
<1> QED
  BY <1>1, <1>2, <1>3, <1>4, <1>5, <1>6, <1>7, <1>8, <1>9, <1>10, DeliverKeepsInvariant DEF Next

LEMMA InitKeepsInvariant == Init => Inv
<1> SUFFICES ASSUME Init PROVE Inv
  OBVIOUS
<1>1. TypeOK
  BY ZeroType, EmptySeq DEF Init, TypeOK, AllSlots, PeerInit
<1>2. Chain
  BY EmptySeq DEF Init, Chain, PeerInit, EmptyPeer, Holding, Carried
<1>3. Accessible
  BY DEF Init, Accessible, AllSlots
<1> QED BY <1>1, <1>2, <1>3 DEF Inv

(* The frames in flight always form a chain from what the decoder holds to *)
(* what the encoder carries.                                               *)
THEOREM InductiveInvariant == Spec => []Inv
<1>1. Inv /\ [Next]_vars => Inv'
  BY StepKeepsInvariant, StutterKeepsInvariant DEF vars
<1> QED
  BY InitKeepsInvariant, <1>1, PTL DEF Spec

-----------------------------------------------------------------------------
(* However the entry points are mixed, and however many frames travel, the *)
(* decoder rebuilds every frame from what it was coded against.            *)
THEOREM StreamsNeverDrift == Spec => []NoDrift
<1>1. Inv => NoDrift
  <2> SUFFICES ASSUME Inv PROVE NoDrift
    OBVIOUS
  <2>1. ASSUME wire # <<>> PROVE CodedAgainst(Head(wire))
    <3>1. Head(wire) = wire[1] /\ Head(wire) \in Frames
      BY <2>1, HeadTailProperties, ElementOfSeq DEF Inv, TypeOK
    <3>2. peer = Holding(Head(wire).carried)
      BY <2>1, <3>1 DEF Inv, Chain
    <3> QED BY <3>1, <3>2, KeyDecodes, InterDecodes DEF Frames
  <2>2. ASSUME wire = <<>> PROVE peer = Holding(Carried)
    BY <2>2 DEF Inv, Chain
  <2> QED BY <2>1, <2>2 DEF NoDrift, NextDecodesAsCoded, Holding, Carried
<1> QED BY <1>1, InductiveInvariant, PTL

(* No slot ever holds a picture from before the last key frame.            *)
THEOREM KeyframesCutThePast == Spec => []KeyframeIsAccessPoint
<1>1. Inv => KeyframeIsAccessPoint
  <2> SUFFICES ASSUME Inv, NEW s \in Slot
               PROVE  /\ slots[s] = NoPicture <=> last_keyframe_index = NoKeyframe
                      /\ slots[s] # NoPicture => slots[s] \div 2 >= last_keyframe_index
    BY DEF KeyframeIsAccessPoint
  <2>1. slots[s] \in Nat \cup {NoPicture} /\ last_keyframe_index \in Nat \cup {NoKeyframe}
    BY DEF Inv, TypeOK
  <2>2. slots[s] = NoPicture <=> last_keyframe_index = NoKeyframe
    BY DEF Inv, Accessible
  <2>3. slots[s] # NoPicture => slots[s] >= 2 * last_keyframe_index
    BY DEF Inv, Accessible
  <2> QED BY <2>1, <2>2, <2>3
<1> QED BY <1>1, InductiveInvariant, PTL

LEMMA LastOfLonger ==
  ASSUME NEW S, NEW x \in Seq(S), NEW e
  PROVE  Append(x, e)[Len(Append(x, e))] = e
<1>1. x \in Seq(S \cup {e}) /\ e \in S \cup {e}
  BY SeqDef
<1> QED BY <1>1, AppendProperties

LEMMA OnlyEncodeFrameIsScheduled ==
  ASSUME [Next]_vars, outcome'.entry = "scheduled", frame_count' # frame_count
  PROVE  \E d \in Dimensions, force \in BOOLEAN : EncodeFrame(d, force)
<1>1. ASSUME NEW entry, NEW f, NEW d, Emit(entry, f, d) PROVE entry = "scheduled"
  BY <1>1 DEF Emit
<1>2. ASSUME NEW d, NEW c, NEW l, NEW coded, PFrame(d, c, l, coded) PROVE FALSE
  BY <1>1, <1>2 DEF PFrame, Inter
<1>3. ASSUME NEW d, NEW force, NEW key, NEW inter, EncodeFrameVariant(d, force, key, inter) PROVE FALSE
  BY <1>1, <1>3 DEF EncodeFrameVariant, Key, Inter
<1>4. ASSUME NEW d, NEW coded, EncodeKeyframe(d, coded) PROVE FALSE
  BY <1>1, <1>4 DEF EncodeKeyframe, Key
<1>5. ASSUME NEW answer, Refuse(answer) PROVE FALSE
  BY <1>5 DEF Refuse, encoder
<1>6. ~Deliver /\ ~UNCHANGED vars
  BY DEF Deliver, encoder, vars
<1> QED
  BY <1>2, <1>3, <1>4, <1>5, <1>6
     DEF Next, EncodeFrameWithIntraPick, EncodeFrameFitted, EncodePFrameWithRefresh, EncodePFrameWithIntraPick,
         EncodePFrameWithLfDeltas, EncodePFrameWithLfDeltasAndIntraPick, EncodePFrameWithTokenUpdates,
         EncodePFrameFitted, EncodePFrameWithIntraPickFitted, EncodeKeyframeOnly, EncodeKeyframeFitted,
         RefuseDimensions, RefusePFrame, RefuseFrame

(* The two previews tell what the next unforced encode_frame emits, also   *)
(* after any of the calls that do not count themselves.                    *)
THEOREM PreviewsForetell == Spec => PreviewsHold
<1>1. ASSUME Inv, [Next]_vars, outcome'.entry = "scheduled", frame_count' # frame_count
      PROVE  LET packet == wire'[Len(wire')].packet IN
               /\ packet.key <=> NextFrameIsKeyframe
               /\ packet.refresh.refreshGolden <=> NextPFrameRefreshesGolden
  <2>1. PICK d \in Dimensions, force \in BOOLEAN : EncodeFrame(d, force)
    BY <1>1, OnlyEncodeFrameIsScheduled
  <2>2. ~force
    <3> SUFFICES ASSUME force PROVE FALSE
      OBVIOUS
    <3>1. Key("other", encode_keyframe_with_reconstruction, d)
      BY <2>1 DEF EncodeFrame, EmitKey
    <3> QED BY <1>1, <3>1 DEF Key, Emit
  <2>3. EmitKey(force) <=> NextFrameIsKeyframe
    BY <1>1, <2>2 DEF EmitKey, NextFrameIsKeyframe, Inv, Accessible, Slot
  <2>4. CASE EmitKey(force)
    <3>1. wire'[Len(wire')] = CodedKey(FirstPass.picture, Carried, FirstPass.tokens)
      BY <1>1, <2>1, <2>4, PassesByName, LastOfLonger DEF EncodeFrame, Key, Emit, Inv, TypeOK
    <3>2. wire'[Len(wire')].packet.key /\ ~wire'[Len(wire')].packet.refresh.refreshGolden
      BY <3>1 DEF CodedKey, KeyPacket, RefreshLastOnly
    <3> QED BY <2>3, <2>4, <3>2 DEF NextPFrameRefreshesGolden
  <2>5. CASE ~EmitKey(force)
    <3>1. wire'[Len(wire')] =
            CodedInter(FirstPass.picture, Carried, TRUE, ScheduledRefresh, LoopFilterDeltasOff, FirstPass.tokens)
      <4>1. Inter("scheduled", FirstPass, ScheduledRefresh, LoopFilterDeltasOff, d)
        BY <2>1, <2>5, PassesByName DEF EncodeFrame
      <4> QED BY <1>1, <4>1, LastOfLonger DEF Inter, Emit, Inv, TypeOK
    <3>2. ~wire'[Len(wire')].packet.key /\ wire'[Len(wire')].packet.refresh = ScheduledRefresh
      BY <3>1 DEF CodedInter, InterPacket
    <3>3. ScheduledRefresh.refreshGolden <=> NextPFrameRefreshesGolden
      BY <2>3, <2>5 DEF ScheduledRefresh, RefreshLastAndGolden, RefreshLastOnly, NextPFrameRefreshesGolden
    <3> QED BY <2>3, <2>5, <3>2, <3>3
  <2> QED BY <2>4, <2>5
<1> QED BY <1>1, InductiveInvariant, PTL DEF Spec, PreviewsHold
=============================================================================
