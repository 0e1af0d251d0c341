----------------------- MODULE MCAltrefStreamEncoder -----------------------
(***************************************************************************)
(* Groups of up to three frames, a key frame every fourth source frame,    *)
(* cuts anywhere, one failing frame, a fitter that may find an update.     *)
(***************************************************************************)
EXTENDS AltrefStreamEncoder

CONSTANTS c1, dflt, hi, none, small, large

MCCoeffCell == {c1}
MCMvCell == {}
MCProb == {dflt, hi}
MCDelta == {0}
MCShape == [width |-> 16, height |-> 16]
MCFormat == {MCShape}
MCDimensions == {small, large}
MCTokens == {[c \in MCCoeffCell |-> none], [c \in MCCoeffCell |-> hi]}

(* The frames this encoder can put on the wire. *)
MCPacket ==
  { KeyPacket(t) : t \in MCTokens } \cup
  { InterPacket(FALSE, AnchorRefresh, LoopFilterDeltasOff, t) : t \in MCTokens } \cup
  { InterPacket(TRUE, c, LoopFilterDeltasOff, t) :
      c \in {RefreshLastOnly, PromotionRefresh}, t \in MCTokens }
=============================================================================
