------------------------------ MODULE RefSlots ------------------------------
(***************************************************************************)
(* The three reference-frame slots of VP8 and the refresh ladder that      *)
(* rotates them after every interframe.  The decoder resolves each slot's  *)
(* next content to a symbolic source first and only then moves pictures,   *)
(* so the ladder is pure selection: SourceOf picks, Rotated reads.         *)
(***************************************************************************)
EXTENDS Naturals

Slot == {"last", "golden", "altref"}

RotationSource == {"PreLast", "PreGolden", "PreAltRef", "Current"}

(***************************************************************************)
(* The refresh fields of an interframe header.  The two-bit copy codes are *)
(* 0 = none, 1 = LAST, 2 = the other buffer, 3 = unused; the header omits  *)
(* a copy code when the matching refresh bit is set, which selects like 0. *)
(***************************************************************************)
RefreshFields ==
  { c \in [ refreshGolden : BOOLEAN, refreshAltref : BOOLEAN,
            copyGolden : 0..3, copyAltref : 0..3, refreshLast : BOOLEAN ] :
      /\ c.refreshGolden => c.copyGolden = 0
      /\ c.refreshAltref => c.copyAltref = 0 }

LastSource(c) == IF c.refreshLast THEN "Current" ELSE "PreLast"

(* Mutant: code 2 read as for the ALTREF buffer, where it names GOLDEN. *)
GoldenSourceReadsCode2AsGolden(c) ==
  CASE c.refreshGolden                         -> "Current"
    [] ~c.refreshGolden /\ c.copyGolden = 1    -> "PreLast"
    [] OTHER                                   -> "PreGolden"

GoldenSource(c) ==
  CASE c.refreshGolden                         -> "Current"
    [] ~c.refreshGolden /\ c.copyGolden = 1    -> "PreLast"
    [] ~c.refreshGolden /\ c.copyGolden = 2    -> "PreAltRef"
    [] OTHER                                   -> "PreGolden"

AltrefSource(c) ==
  CASE c.refreshAltref                         -> "Current"
    [] ~c.refreshAltref /\ c.copyAltref = 1    -> "PreLast"
    [] ~c.refreshAltref /\ c.copyAltref = 2    -> "PreGolden"
    [] OTHER                                   -> "PreAltRef"

SourceOf(c) ==
  [s \in Slot |-> CASE s = "last"   -> LastSource(c)
                    [] s = "golden" -> GoldenSource(c)
                    [] s = "altref" -> AltrefSource(c)]

(* What each source holds: the entry slots and the just-decoded picture. *)
Held(slots, current) ==
  [src \in RotationSource |-> CASE src = "PreLast"   -> slots["last"]
                                [] src = "PreGolden" -> slots["golden"]
                                [] src = "PreAltRef" -> slots["altref"]
                                [] src = "Current"   -> current]

(* The slots after the ladder: every copy reads the pre-rotation slots. *)
Rotated(slots, current, c) ==
  [s \in Slot |-> Held(slots, current)[SourceOf(c)[s]]]

(* A key frame installs its picture in all three slots. *)
AllSlots(picture) == [s \in Slot |-> picture]
=============================================================================
