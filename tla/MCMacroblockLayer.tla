------------------------- MODULE MCMacroblockLayer -------------------------
(* Frames of two to four macroblocks, each menu aimed at one kind of context: *)
(* the census and its clamps, sign of the references, split macroblocks, the  *)
(* residual contexts over two partitions, key-frame sub-block modes, segments *)
(* and filter deltas.  The picture of a decoded frame then goes to the        *)
(* reference slots: after the frame of one macroblock they are rotated, from  *)
(* empty ones on, by any picture and any header, again and again.             *)
EXTENDS MacroblockLayer, RefRotation

V(r, c) == [row |-> r, col |-> c]
NoDeltas == [enabled |-> FALSE, update |-> FALSE, ref |-> NoUpdate, mode |-> NoUpdate]
Flat == [levels |-> {20}, lf_delta |-> NoUpdate, deltas |-> NoDeltas, carried |-> ZeroDeltas]

Plain == [key |-> FALSE, rows |-> 2, cols |-> 2, partitions |-> 1, segments |-> {},
          refs |-> {"last"}, news |-> {}, splits |-> {}, intra |-> {}, uv |-> {"dc"},
          bmodes |-> {}, residuals |-> {{}}, base_q |-> 40,
          quant_delta |-> [s \in Segments |-> 0], filter |-> Flat]

Choice(mode, v) == [mode |-> mode, mv |-> v]
L == Choice("left4x4", ZeroMv)
A == Choice("above4x4", ZeroMv)
Z == Choice("zero4x4", ZeroMv)
N == Choice("new4x4", V(-4, 12))

TopNew == [layout |-> "top_bottom", choices |-> <<N, A>>]
SideLeft == [layout |-> "left_right", choices |-> <<L, N>>]
Quartered == [layout |-> "quarters", choices |-> <<A, N, Z, L>>]
Sixteen == [layout |-> "mv16", choices |-> <<N, L, A, Z, L, A, N, L, A, A, L, Z, L, N, A, A>>]

(* News past the clamp rectangle, and past a 16-bit sum from it.            *)
Motion == [Plain EXCEPT !.news = {V(-200, 12), V(8, -4)}, !.intra = {"dc"}]
References == [Plain EXCEPT !.rows = 1, !.cols = 3, !.refs = {"last", "golden"}, !.news = {V(8, -4)}]
Splits == [Plain EXCEPT !.news = {V(8, -4)}, !.splits = {Quartered, Sixteen}]
Sides == [Plain EXCEPT !.rows = 1, !.cols = 3, !.splits = {SideLeft, Quartered}, !.intra = {"v"},
                       !.news = {V(-4, 12)}]
Residuals == [Plain EXCEPT !.partitions = 2, !.splits = {TopNew},
                           !.residuals = {{}, {24}, {3, 12, 17, 22}}]
Rows == [Plain EXCEPT !.rows = 3, !.cols = 1, !.partitions = 2, !.intra = {"h"},
                      !.splits = {TopNew}, !.residuals = {{}, {0, 24}, {15, 19, 23}}]
Columns == [Rows EXCEPT !.rows = 1, !.cols = 3]

Checkered == [b \in 0..15 |-> IF b % 3 = 0 THEN "b_tm" ELSE "b_hu"]
Uneven == [b \in 0..15 |-> IF b \in {3, 12} THEN "b_dc" ELSE IF b > 8 THEN "b_ld" ELSE "b_he"]
Key == [Plain EXCEPT !.key = TRUE, !.intra = {"v", "b"}, !.bmodes = {Checkered, Uneven},
                     !.residuals = {{}, {24}, {0, 19}}, !.partitions = 2]
KeyRow == [Key EXCEPT !.rows = 1, !.cols = 3, !.partitions = 1, !.filter.levels = {0, 20}]
KeySegments == [Plain EXCEPT !.key = TRUE, !.rows = 1, !.cols = 2, !.segments = {0, 1, 3},
                             !.intra = {"dc", "tm", "b"}, !.uv = {"dc", "h"}, !.bmodes = {Checkered},
                             !.residuals = {{}, {7}},
                             !.quant_delta = [s \in Segments |-> 40 * s - 50],
                             !.filter.lf_delta = [s \in Segments |-> 30 * s - 25]]

(* Reference and mode deltas: carried over, replaced in part, or switched    *)
(* off, on frames with segments and without.                                *)
Earlier == [ref |-> [r \in DeltaRefs |-> IF r = "intra" THEN 9 ELSE -6],
            mode |-> [m \in DeltaModes |-> IF m = "split" THEN 40 ELSE -3]]
Some == [enabled |-> TRUE, update |-> TRUE,
         ref |-> [r \in {"altref"} |-> -63], mode |-> [m \in {"zero", "other"} |-> 7]]
Filtered(levels, deltas, segments) ==
  [Plain EXCEPT !.rows = 1, !.segments = segments, !.refs = {"last", "altref"}, !.intra = {"tm"},
                !.news = {V(8, -4)}, !.splits = {TopNew}, !.residuals = {{}, {7}},
                !.quant_delta = [s \in Segments |-> 30 * s - 20],
                !.filter = [levels |-> levels,
                            lf_delta |-> IF segments = {} THEN NoUpdate
                                         ELSE [s \in Segments |-> 20 * s - 30],
                            deltas |-> deltas, carried |-> Earlier]]

Lone == [Plain EXCEPT !.rows = 1, !.cols = 1]

MCMenus ==
  {Lone, Motion, References, Splits, Sides, Residuals, Rows, Columns, Key, KeyRow,
   KeySegments,
   Filtered({20}, Some, {0, 2}), Filtered({63}, [Some EXCEPT !.update = FALSE], {}),
   Filtered({0}, Some, {1}), [Filtered({0, 33}, NoDeltas, {3}) EXCEPT !.news = {}]}

PictureInit == Init /\ RotationInit /\ slots = Empty

PictureNext ==
  \/ PickKeyMb /\ UNCHANGED rotation_vars
  \/ PickAdaptiveKeyMb /\ UNCHANGED rotation_vars
  \/ PickInterMb /\ UNCHANGED rotation_vars
  \/ FilterKeyPicture /\ UNCHANGED rotation_vars
  \/ FilterInterPicture /\ UNCHANGED rotation_vars
  \/ WriteHeader /\ UNCHANGED rotation_vars
  \/ WriteModes /\ UNCHANGED rotation_vars
  \/ FinishControl /\ UNCHANGED rotation_vars
  \/ WriteTokens /\ UNCHANGED rotation_vars
  \/ Assemble /\ UNCHANGED rotation_vars
  \/ Carve /\ UNCHANGED rotation_vars
  \/ ParseKeyMode /\ UNCHANGED rotation_vars
  \/ StartResidual /\ UNCHANGED rotation_vars
  \/ ReadKeyResidual /\ UNCHANGED rotation_vars
  \/ DecodeInterMb /\ UNCHANGED rotation_vars
  \/ Finish /\ UNCHANGED rotation_vars
  \/ /\ phase = "done" /\ menu = Lone
     /\ \E current \in Picture, c \in RefreshFields : Call(current, c)
     /\ UNCHANGED vars
  \/ TakeFor /\ UNCHANGED vars
  \/ Return /\ UNCHANGED vars

PictureSpec == PictureInit /\ [][PictureNext]_<<vars, rotation_vars>>
=============================================================================
