--------------------------- MODULE DecoderContract ---------------------------
(***************************************************************************)
(* What the framework adapter relies on from Vp8DecoderState: a call is    *)
(* either refused and changes nothing, or accepts the frame it was given.  *)
(* Only a key frame changes the format, an interframe needs one, and every *)
(* accepted frame records whether it is shown.                             *)
(***************************************************************************)
CONSTANTS Format, NoFormat, NoShow

VARIABLES format, last_frame_shown,
          calls  \* the frame being decoded: no element or one

Call == [key : BOOLEAN, show : BOOLEAN, format : Format]

Init == format = NoFormat /\ last_frame_shown = NoShow /\ calls = {}

Request ==
  /\ calls = {}
  /\ \E c \in calls' : c \in Call /\ calls' = {c}
  /\ UNCHANGED <<format, last_frame_shown>>

(* What accepting a frame does to the carried state.                       *)
AcceptFrame(c) ==
  /\ c.key \/ format # NoFormat
  /\ format' = IF c.key THEN c.format ELSE format
  /\ last_frame_shown' = c.show

Accept == \E c \in calls : AcceptFrame(c) /\ calls' = {}

Refuse == calls # {} /\ calls' = {} /\ UNCHANGED <<format, last_frame_shown>>

Next == Request \/ Accept \/ Refuse

Spec == Init /\ [][Next]_<<format, last_frame_shown, calls>>
=============================================================================
