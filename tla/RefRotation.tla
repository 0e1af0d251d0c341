----------------------------- MODULE RefRotation -----------------------------
(***************************************************************************)
(* rotate_reference_slots: the ladder carried out with moves.  The entry   *)
(* slots are taken out of the decoder, the destinations are filled in the  *)
(* order LAST, GOLDEN, ALTREF, and a source is cloned unless this is the   *)
(* last destination that selects it, in which case it is moved out.        *)
(* Moving a source that a later destination still selects would silently   *)
(* empty a reference slot.                                                 *)
(***************************************************************************)
EXTENDS RefSlots, Sequences, FiniteSets

CONSTANTS Picture,  \* the pictures a slot can hold
          NoPicture \* an empty slot (Option::None)

ASSUME NoPictureAssumption == NoPicture \notin Picture

VARIABLES slots,   \* Vp8DecoderState.{last, golden, altref}
          which,   \* 0 between calls, else the destination being filled
          sources, \* the resolved source of each destination
          owned,   \* the by-value inputs of the call, emptied by moves
          new,     \* the destinations filled so far
          clones,  \* plane copies made by this call
          entry    \* history: the slots and the arguments this call began with

rotation_vars == <<slots, which, sources, owned, new, clones, entry>>

Content == Picture \cup {NoPicture}
Empty == [s \in Slot |-> NoPicture]

(* A header that refreshes nothing. *)
KeepAll == [refreshGolden |-> FALSE, refreshAltref |-> FALSE,
            copyGolden |-> 0, copyAltref |-> 0, refreshLast |-> FALSE]

Destinations == <<"last", "golden", "altref">>

RotationInit ==
  /\ slots \in [Slot -> Content]
  /\ which = 0
  /\ sources = [s \in Slot |-> "Current"]
  /\ owned = [src \in RotationSource |-> NoPicture]
  /\ new = Empty
  /\ clones = 0
  /\ entry = [slots |-> slots, current |-> NoPicture, refresh |-> KeepAll]

(* self.last.take() and its two siblings hand the entry slots over. *)
Call(current, c) ==
  /\ which = 0
  /\ which' = 1
  /\ sources' = SourceOf(c)
  /\ owned' = Held(slots, current)
  /\ entry' = [slots |-> slots, current |-> current, refresh |-> c]
  /\ slots' = Empty
  /\ new' = Empty
  /\ clones' = 0

(* Mutant: the scan starts one destination late. *)
LastUseScanStartsLate(k) ==
  \A j \in 1..3 : j > k + 1 => sources[Destinations[j]] # sources[Destinations[k]]

(* Mutant: never move. *)
NeverLastUse(k) == k > 3

(* sources[which + 1..].contains(&tok), negated *)
LastUse(k) == \A j \in 1..3 : j > k =>
                sources[Destinations[j]] # sources[Destinations[k]]

TakeFor ==
  /\ which \in 1..3
  /\ LET tok == sources[Destinations[which]] IN
       /\ new' = [new EXCEPT ![Destinations[which]] = owned[tok]]
       /\ \/ /\ LastUse(which)
             /\ owned' = [owned EXCEPT ![tok] = NoPicture]
             /\ UNCHANGED clones
          \/ /\ ~LastUse(which)
             /\ clones' = IF owned[tok] = NoPicture THEN clones ELSE clones + 1
             /\ UNCHANGED owned
  /\ which' = which + 1
  /\ UNCHANGED <<slots, sources, entry>>

Return ==
  /\ which = 4
  /\ which' = 0
  /\ slots' = new
  /\ UNCHANGED <<sources, owned, new, clones, entry>>

RotationNext == (\E current \in Picture, c \in RefreshFields : Call(current, c))
        \/ TakeFor \/ Return

RotationSpec == RotationInit /\ [][RotationNext]_rotation_vars

-----------------------------------------------------------------------------
TypeOK ==
  /\ slots \in [Slot -> Content]
  /\ which \in 0..4
  /\ sources \in [Slot -> RotationSource]
  /\ owned \in [RotationSource -> Content]
  /\ new \in [Slot -> Content]
  /\ clones \in 0..2
  /\ entry \in [slots : [Slot -> Content], current : Content,
                refresh : RefreshFields]

(* A source some unfilled destination still selects has not been moved out  *)
(* (state.rs 207-222): use after move would leave that slot empty.          *)
PendingSourceStillOwned ==
  \A k \in 1..3 : which \in 1..k =>
    LET tok == sources[Destinations[k]] IN
      owned[tok] = Held(entry.slots, entry.current)[tok]

(* The number of plane copies is the least possible one: a picture is       *)
(* cloned once for each destination beyond the first that receives it       *)
(* (state.rs 138, "the fewest possible plane copies").                      *)
FewestCopies ==
  which = 4 =>
    LET filled == { s \in Slot : new[s] # NoPicture } IN
      clones = Cardinality(filled) - Cardinality({ sources[s] : s \in filled })

(* The moves implement the staged reference: seen from outside a call, one  *)
(* call is one atomic rotation of the slots it took, by the picture and the *)
(* refresh fields it was given (state.rs 147, the test                      *)
(* rotation_matches_clone_everything_reference).                            *)
Ladder == INSTANCE SlotLadder
            WITH slots <- IF which = 0 THEN slots ELSE entry.slots,
                 calls <- IF which = 0 THEN {}
                          ELSE {[key |-> FALSE, current |-> entry.current,
                                 refresh |-> entry.refresh]}
ImplementsLadder == Ladder!Spec
=============================================================================
