--------------------------- MODULE AltrefContract ---------------------------
(***************************************************************************)
(* What the lagged adapter relies on from Vp8AltrefStreamEncoder: a call   *)
(* returns nothing, or one whole group of the buffered frames, coded as    *)
(* [key frame] [anchor] [interframes]; a call that fails returns nothing   *)
(* and loses the group it was coding.  Frames are their source indices.    *)
(***************************************************************************)
EXTENDS Naturals, Sequences

CONSTANT AltrefWindow

VARIABLES input_count, \* frames accepted so far
          buffered,    \* those whose group is not complete
          shipped      \* history: the packets returned, oldest first

stream == <<input_count, buffered, shipped>>

Init == input_count = 0 /\ buffered = <<>> /\ shipped = <<>>

(* The packets of one group; a group of one frame gets no anchor.          *)
GroupPackets(frames, keyed) ==
  LET n == Len(frames)
      visible == [i \in 1..n |-> [kind |-> IF keyed /\ i = 1 THEN "key" ELSE "inter",
                                  index |-> frames[i]]]
      keys == IF keyed THEN 1 ELSE 0
  IN IF n < 2 THEN visible
     ELSE SubSeq(visible, 1, keys) \o <<[kind |-> "anchor", index |-> frames[n]]>>
          \o SubSeq(visible, keys + 1, n)

(* Whether a later group is keyed is up to the schedule and the content.   *)
Groups(frames) ==
  IF frames = <<>> THEN {}
  ELSE { GroupPackets(frames, keyed) :
           keyed \in { k \in BOOLEAN : frames[1] = 0 => k } }

Arrived == Append(buffered, input_count)
PushBatches == {<<>>} \cup Groups(buffered) \cup Groups(Arrived)
FinishBatches == IF buffered = <<>> THEN {<<>>} ELSE Groups(buffered)

Push(batch) ==
  /\ \/ /\ batch = <<>> /\ buffered' = Arrived
        /\ Len(Arrived) < AltrefWindow
     \/ /\ batch \in Groups(buffered) /\ buffered' = <<input_count>>
        /\ AltrefWindow > 1
     \/ /\ batch \in Groups(Arrived) /\ buffered' = <<>>
        /\ Len(Arrived) = AltrefWindow
  /\ input_count' = input_count + 1
  /\ shipped' = shipped \o batch

(* The arriving frame is lost too, or was never accepted.                  *)
PushFails ==
  /\ \/ buffered # <<>> /\ UNCHANGED input_count
     \/ Len(Arrived) = AltrefWindow /\ input_count' = input_count + 1
  /\ buffered' = <<>>
  /\ UNCHANGED shipped

Finish(batch) ==
  /\ batch \in FinishBatches
  /\ buffered' = <<>> /\ shipped' = shipped \o batch
  /\ UNCHANGED input_count

FinishFails ==
  buffered # <<>> /\ buffered' = <<>> /\ UNCHANGED <<input_count, shipped>>

Next ==
  \/ \E batch \in PushBatches : Push(batch)
  \/ \E batch \in FinishBatches : Finish(batch)
  \/ PushFails \/ FinishFails

Spec == Init /\ [][Next]_stream
=============================================================================
