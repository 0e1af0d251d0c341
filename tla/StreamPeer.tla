----------------------------- MODULE StreamPeer -----------------------------
(***************************************************************************)
(* What an encoder and the decoder at the other end of the stream must     *)
(* agree on, and the two ends of one frame: how the encoder codes it, and  *)
(* what the decoder makes of it.  Both ends carry three reference slots    *)
(* and the loop-filter deltas; the decoder also carries a token table the  *)
(* encoder has no variable for, it assumes the defaults.  A frame decoded  *)
(* against anything but what it was coded against still decodes, to a      *)
(* picture the encoder never saw: Drifted.                                 *)
(***************************************************************************)
EXTENDS FrameHeader, Sequences

CONSTANTS NoPicture, Drifted, \* an empty slot; a picture the encoder never saw
          Shape               \* the format of the stream

VARIABLES wire, \* frames emitted, not yet decoded, oldest first
          peer  \* what the receiving Vp8DecoderState carries

NoUpdates(cells) == [c \in cells |-> NoUpdate]
AnyUpdate(tokens) == \E c \in CoeffCell : tokens[c] # NoUpdate

(* LoopFilterDeltas::effective.                                            *)
Effective(d, carried, updates) ==
  IF ~d.enabled THEN ZeroDeltas
  ELSE IF ~d.update THEN carried
  ELSE Overlay(carried, updates)

LoopFilterDeltasOff ==
  [enabled |-> FALSE, update |-> FALSE, ref |-> NoDelta, mode |-> NoDelta]

RefreshLastOnly == [refreshGolden |-> FALSE, refreshAltref |-> FALSE,
                    copyGolden |-> 0, copyAltref |-> 0, refreshLast |-> TRUE]

(* What the decoder reads back from the delta layer of a header.           *)
OnWire(d, updates) == IF d.enabled /\ d.update THEN updates ELSE NoDelta

-----------------------------------------------------------------------------
(* A key frame that carries token updates is written with                  *)
(* refresh_entropy_probs = 0.                                              *)
KeyPacket(tokens) ==
  [ key |-> TRUE, show |-> TRUE, format |-> Shape, fault |-> "none", faultMb |-> 0,
    refreshEntropy |-> ~AnyUpdate(tokens),
    coeff |-> tokens, mv |-> NoUpdates(MvCell), intra |-> NoUpdates(IntraCell),
    adjEnable |-> FALSE, refDelta |-> NoDelta, modeDelta |-> NoDelta,
    bias |-> [golden |-> FALSE, altref |-> FALSE], refresh |-> RefreshLastOnly ]

(* An interframe never keeps its token updates and updates nothing else.    *)
InterPacket(show, refresh, d, tokens) ==
  [ key |-> FALSE, show |-> show, format |-> Shape, fault |-> "none", faultMb |-> 0,
    refreshEntropy |-> FALSE,
    coeff |-> tokens, mv |-> NoUpdates(MvCell), intra |-> NoUpdates(IntraCell),
    adjEnable |-> d.enabled,
    refDelta |-> OnWire(d, d.ref), modeDelta |-> OnWire(d, d.mode),
    bias |-> [golden |-> FALSE, altref |-> FALSE], refresh |-> refresh ]

(* A frame with what it was coded against: the encoder's carried state, the *)
(* token table and the loop-filter deltas in force.                         *)
CodedKey(picture, carried, tokens) ==
  [ packet |-> KeyPacket(tokens), picture |-> picture, carried |-> carried,
    coeff |-> Overlay(DefaultTable(CoeffCell), tokens),
    refDeltas |-> ZeroDeltas, modeDeltas |-> ZeroDeltas ]

CodedInter(picture, carried, show, refresh, d, tokens) ==
  [ packet |-> InterPacket(show, refresh, d, tokens),
    picture |-> picture, carried |-> carried,
    coeff |-> Overlay(DefaultTable(CoeffCell), tokens),
    refDeltas |-> Effective(d, carried.refDeltas, d.ref),
    modeDeltas |-> Effective(d, carried.modeDeltas, d.mode) ]

(* A frame coded twice: once with the default probabilities, and again, when *)
(* the first pass shows any that are worth an update, with those.  The       *)
(* second pass picks anew and reconstructs another picture.  "picture" is    *)
(* what the bytes sent decode to, "kept" the planes the encoder goes on with. *)
(* Mutant: keeps the picture of the last pass, whichever pass is sent.      *)
ShippedWithLastPicture(first, second, fitted, grew) ==
  IF AnyUpdate(fitted)
  THEN [picture |-> IF grew THEN first ELSE second, kept |-> second,
        tokens |-> IF grew THEN NoUpdates(CoeffCell) ELSE fitted]
  ELSE [picture |-> first, kept |-> first, tokens |-> NoUpdates(CoeffCell)]
Shipped(first, second, fitted, grew) ==
  IF AnyUpdate(fitted) /\ ~grew
  THEN [picture |-> second, kept |-> second, tokens |-> fitted]
  ELSE [picture |-> first, kept |-> first, tokens |-> NoUpdates(CoeffCell)]

-----------------------------------------------------------------------------
EmptyPeer == [ slots |-> AllSlots(NoPicture), coeff |-> DefaultTable(CoeffCell),
               refDeltas |-> ZeroDeltas, modeDeltas |-> ZeroDeltas ]

(* The deltas the decoder's loop filter applies.                           *)
Applied(p, carried, update) ==
  IF p.adjEnable THEN InterDeltas(p, carried, update) ELSE ZeroDeltas

(* The decoder has what the encoder had when it coded this frame.          *)
CodedAgainst(f) ==
  IF f.packet.key
  THEN Overlay(DefaultTable(CoeffCell), f.packet.coeff) = f.coeff
  ELSE /\ peer.slots = f.carried.slots
       /\ Overlay(peer.coeff, f.packet.coeff) = f.coeff
       /\ Applied(f.packet, peer.refDeltas, f.packet.refDelta) = f.refDeltas
       /\ Applied(f.packet, peer.modeDeltas, f.packet.modeDelta) = f.modeDeltas

(* The frame about to be decoded is decoded in lockstep.                   *)
NextDecodesAsCoded == wire # <<>> => CodedAgainst(Head(wire))

Decoded(f) == IF CodedAgainst(f) THEN f.picture ELSE Drifted

(* What decode_key_frame and decode_inter_frame leave (DecoderState).      *)
AfterKey(f) ==
  [ slots |-> AllSlots(Decoded(f)), coeff |-> KeyCoeff(f.packet),
    refDeltas |-> KeyDeltas(f.packet, f.packet.refDelta),
    modeDeltas |-> KeyDeltas(f.packet, f.packet.modeDelta) ]

AfterInter(f) ==
  [ slots |-> Rotated(peer.slots, Decoded(f), f.packet.refresh),
    coeff |-> IF f.packet.refreshEntropy THEN Overlay(peer.coeff, f.packet.coeff)
                                         ELSE peer.coeff,
    refDeltas |-> InterDeltas(f.packet, peer.refDeltas, f.packet.refDelta),
    modeDeltas |-> InterDeltas(f.packet, peer.modeDeltas, f.packet.modeDelta) ]

(* The decoder takes the next frame.  Its bytes are sound, so the only      *)
(* refusal left is an interframe before any key frame.                     *)
DecodeNext ==
  /\ wire # <<>>
  /\ peer' = CASE Head(wire).packet.key            -> AfterKey(Head(wire))
               [] /\ ~Head(wire).packet.key
                  /\ peer.slots["last"] = NoPicture -> peer
               [] OTHER                            -> AfterInter(Head(wire))
  /\ wire' = Tail(wire)

PeerInit == wire = <<>> /\ peer = EmptyPeer
=============================================================================
