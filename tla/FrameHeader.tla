----------------------------- MODULE FrameHeader -----------------------------
(***************************************************************************)
(* A compressed frame as the decoder sees it: the fields of its headers    *)
(* that outlive the frame, and where, if anywhere, its bytes stop making   *)
(* sense.  Probability tables and loop-filter deltas are functions from    *)
(* positions to values; a header overlays some positions and leaves the    *)
(* others, exactly one Option per position in the code.                    *)
(***************************************************************************)
EXTENDS Integers, RefSlots

CONSTANTS CoeffCell,   \* positions of the DCT token probability table
          MvCell,      \* positions of the motion-vector contexts
          Prob,        \* probability values
          DefaultProb, \* the default probability of every position
          NoUpdate,    \* an update entry that is absent (None)
          Delta,       \* loop-filter delta values
          Format,      \* what only a key frame carries: size, colour space,
                       \*   and (display) the scale codes and clamping type
          Packet       \* the compressed frames the decoder may be fed

IntraCell == {"y", "uv"}  \* the two intra-mode tables are replaced whole
DeltaIndex == 0..3

(* The first error a frame's own bytes cause, "none" for a sound frame.    *)
Fault == {"none", "FrameHeader", "TruncatedFirstPartition", "CodedHeader",
          "Partitions", "Macroblock"}

Table(cells) == [cells -> Prob]
Update(cells) == [cells -> Prob \cup {NoUpdate}]
DeltaUpdate == [DeltaIndex -> Delta \cup {NoUpdate}]
Bias == [golden : BOOLEAN, altref : BOOLEAN]

PacketType ==
  [ key : BOOLEAN, show : BOOLEAN, format : Format,
    fault : Fault, faultMb : Nat,
    refreshEntropy : BOOLEAN,
    coeff : Update(CoeffCell), mv : Update(MvCell), intra : Update(IntraCell),
    adjEnable : BOOLEAN, refDelta : DeltaUpdate, modeDelta : DeltaUpdate,
    bias : Bias, refresh : RefreshFields ]

NoDelta == [i \in DeltaIndex |-> NoUpdate]

(* The parser reads delta updates only under loop_filter_adj_enable.       *)
DeltasNeedAdjEnable(p) ==
  ~p.adjEnable => p.refDelta = NoDelta /\ p.modeDelta = NoDelta

ASSUME ValueAssumption ==
  /\ DefaultProb \in Prob
  /\ NoUpdate \notin Prob
  /\ Delta \subseteq Int /\ 0 \in Delta /\ NoUpdate \notin Delta

ASSUME FormatAssumption ==
  \A f \in Format : f.width \in Nat /\ f.height \in Nat

ASSUME PacketAssumption ==
  /\ Packet \subseteq PacketType
  /\ \A p \in Packet : DeltasNeedAdjEnable(p)

Overlay(table, update) ==
  [c \in DOMAIN table |-> IF update[c] = NoUpdate THEN table[c] ELSE update[c]]

DefaultTable(cells) == [c \in cells |-> DefaultProb]
ZeroDeltas == [i \in DeltaIndex |-> 0]

(* The macroblock grid that covers a visible size.                         *)
MbCols(f) == (f.width + 15) \div 16
MbRows(f) == (f.height + 15) \div 16

(* Mutant: the deltas are stored without unwrapping the options.           *)
KeyDeltasUnwrapped(p, update) ==
  IF p.adjEnable THEN update ELSE ZeroDeltas

(* FrameFilterConfig::keyframe and the overlay after it: a key frame starts *)
(* from zero deltas.                                                        *)
KeyDeltas(p, update) ==
  IF p.adjEnable THEN Overlay(ZeroDeltas, update) ELSE ZeroDeltas

(* Mutant: the key frame's table survives refresh_entropy_probs = 0.        *)
KeyCoeffAlwaysKept(p) == Overlay(DefaultTable(CoeffCell), p.coeff)

KeyCoeff(p) == IF p.refreshEntropy THEN Overlay(DefaultTable(CoeffCell), p.coeff)
                                   ELSE DefaultTable(CoeffCell)

(* Mutant: the deltas restart from zero at every frame.                     *)
InterDeltasFromZero(p, carried, update) ==
  IF p.adjEnable THEN Overlay(ZeroDeltas, update) ELSE carried

(* FrameFilterConfig::interframe: overlay on the carried deltas.           *)
InterDeltas(p, carried, update) ==
  IF p.adjEnable THEN Overlay(carried, update) ELSE carried
=============================================================================
