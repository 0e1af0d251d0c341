--------------------------- MODULE MCDecoderState ---------------------------
(***************************************************************************)
(* A small stream grammar for DecoderState: key frames of two sizes, of a  *)
(* zero size and of one above the cap, interframes that exercise each      *)
(* carried table and every kind of slot rotation, and one frame for every  *)
(* way a frame can be broken.                                              *)
(***************************************************************************)
EXTENDS DecoderState, TLC

CONSTANTS c1, c2, m1, dflt, hi, none

MCCoeffCell == {c1, c2}
MCMvCell == {m1}
MCProb == {dflt, hi}
MCDelta == {0, 5}

Fmt(w, h) == [width |-> w, height |-> h, display |-> "plain"]
OneMb == Fmt(16, 10)
TwoMb == Fmt(17, 16)
Hollow == Fmt(0, 16)
TooLarge == Fmt(16, 18)
MCFormat == {OneMb, TwoMb, Hollow, TooLarge}

NoRefresh == [refreshGolden |-> FALSE, refreshAltref |-> FALSE,
              copyGolden |-> 0, copyAltref |-> 0, refreshLast |-> FALSE]
RefreshLast == [NoRefresh EXCEPT !.refreshLast = TRUE]

(* A sound interframe that only replaces LAST. *)
Plain ==
  [ key |-> FALSE, show |-> TRUE, format |-> OneMb, fault |-> "none", faultMb |-> 0,
    refreshEntropy |-> TRUE,
    coeff |-> [c \in MCCoeffCell |-> none], mv |-> [c \in MCMvCell |-> none],
    intra |-> [c \in IntraCell |-> none],
    adjEnable |-> FALSE, refDelta |-> [i \in DeltaIndex |-> none],
    modeDelta |-> [i \in DeltaIndex |-> none],
    bias |-> [golden |-> FALSE, altref |-> FALSE], refresh |-> RefreshLast ]

Key(f) == [Plain EXCEPT !.key = TRUE, !.format = f, !.refresh = NoRefresh]

SetHi(update) == [c \in DOMAIN update |-> hi]

KeyFrames ==
  { Key(OneMb), Key(Hollow), Key(TooLarge),
    [Key(TwoMb) EXCEPT !.show = FALSE, !.coeff = SetHi(@)],
    [Key(OneMb) EXCEPT !.refreshEntropy = FALSE, !.coeff = SetHi(@),
                       !.adjEnable = TRUE, !.refDelta[1] = 5, !.modeDelta[0] = 5] }

InterFrames ==
  { [Plain EXCEPT !.refreshEntropy = keep, !.coeff[c1] = hi, !.mv = SetHi(@),
                  !.intra["y"] = hi, !.bias.golden = keep] : keep \in BOOLEAN }
  \cup
  { [Plain EXCEPT !.adjEnable = TRUE, !.refDelta[1] = 0, !.modeDelta[2] = 5,
                  !.coeff[c2] = dflt],
    [Plain EXCEPT !.refresh = [NoRefresh EXCEPT !.copyGolden = 2, !.copyAltref = 2]],
    [Plain EXCEPT !.refresh = [NoRefresh EXCEPT !.refreshGolden = TRUE,
                                                !.copyAltref = 1]],
    [Plain EXCEPT !.show = FALSE,
                  !.refresh = [RefreshLast EXCEPT !.refreshAltref = TRUE,
                                                  !.copyGolden = 1]] }

Broken ==
  { [Key(OneMb) EXCEPT !.fault = f] : f \in Fault \ {"none"} }
  \cup { [Plain EXCEPT !.fault = f, !.faultMb = 1, !.coeff = SetHi(@),
                       !.adjEnable = TRUE, !.refDelta[3] = 5]
           : f \in Fault \ {"none"} }

MCPacket == KeyFrames \cup InterFrames \cup Broken
=============================================================================
