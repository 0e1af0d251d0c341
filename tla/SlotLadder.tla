----------------------------- MODULE SlotLadder -----------------------------
(***************************************************************************)
(* What the slot rotation promises, as the staged clone-everything         *)
(* reference the repository's own test compares with: stage ALTREF, stage  *)
(* GOLDEN from the pre-rotation slots, then let the refresh bits override. *)
(* One atomic step per interframe; no picture is ever lost on the way.  A  *)
(* key frame installs its picture everywhere, and a frame that does not    *)
(* decode moves nothing.                                                   *)
(***************************************************************************)
EXTENDS RefSlots

CONSTANTS Picture,  \* the pictures a slot can hold
          NoPicture \* an empty slot (Option::None)

VARIABLES slots,
          calls  \* the frame being decoded: no element or one

StagedAltref(s, c) ==
  IF c.copyAltref = 1 THEN s["last"]
  ELSE IF c.copyAltref = 2 THEN s["golden"] ELSE s["altref"]

StagedGolden(s, c) ==
  IF c.copyGolden = 1 THEN s["last"]
  ELSE IF c.copyGolden = 2 THEN s["altref"] ELSE s["golden"]

StagedRotation(s, current, c) ==
  [t \in Slot |->
     CASE t = "last"   -> IF c.refreshLast THEN current ELSE s["last"]
       [] t = "golden" -> IF c.refreshGolden THEN current ELSE StagedGolden(s, c)
       [] t = "altref" -> IF c.refreshAltref THEN current ELSE StagedAltref(s, c)]

(* What a call asks for; an interframe without a LAST slot has no picture. *)
Call == [key : BOOLEAN, current : Picture \cup {NoPicture},
         refresh : RefreshFields]

Init == slots \in [Slot -> Picture \cup {NoPicture}] /\ calls = {}

Request ==
  /\ calls = {}
  /\ \E c \in calls' : c \in Call /\ calls' = {c}
  /\ UNCHANGED slots

Rotate ==
  \E c \in calls :
    /\ ~c.key /\ c.current \in Picture
    /\ slots' = StagedRotation(slots, c.current, c.refresh)
    /\ calls' = {}

InstallKeyFrame ==
  \E c \in calls :
    /\ c.key /\ c.current \in Picture
    /\ slots' = AllSlots(c.current)
    /\ calls' = {}

Abort == calls # {} /\ calls' = {} /\ UNCHANGED slots

Next == Request \/ Rotate \/ InstallKeyFrame \/ Abort

Spec == Init /\ [][Next]_<<slots, calls>>
=============================================================================
