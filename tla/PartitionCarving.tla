-------------------------- MODULE PartitionCarving --------------------------
(***************************************************************************)
(* carve_dct_partitions (decoder.rs): cutting the bytes that follow the    *)
(* first partition into the token partitions.  The section and the sizes   *)
(* in its table are whatever the packet says; the last partition takes     *)
(* what is left.                                                           *)
(***************************************************************************)
EXTENDS Integers

CONSTANTS Counts,      \* partition counts of the header
          Sizes,       \* what a 3-byte size word can say
          SectionLens  \* lengths of the section

ASSUME CarvingAssumption ==
  /\ Counts \subseteq Nat \ {0}
  /\ Sizes \subseteq Nat
  /\ SectionLens \subseteq Nat

VARIABLES num,       \* num_partitions
          section,   \* section.len()
          declared,  \* the size table
          pc,        \* which loop is running
          i,         \* its index
          sums,      \* sums[k]: the first k sizes together
          out,       \* the slices cut so far, as [start, end]
          error      \* the DecodeError, if any

vars == <<num, section, declared, pc, i, sums, out, error>>

TableLen == (num - 1) * 3
Body == section - TableLen
NoError == [kind |-> "none", index |-> 0, available |-> 0, declared |-> 0]
Truncated(k, available, size) ==
  [kind |-> "TruncatedDctPartition", index |-> k, available |-> available, declared |-> size]

(* available: saturating_sub.                                               *)
Remaining(k) == IF Body > sums[k] THEN Body - sums[k] ELSE 0

(* The size of partition k, once the table is read.                         *)
SizeOf(k) == IF k = num - 1 THEN Body - sums[k] ELSE declared[k]

Init ==
  /\ num \in Counts
  /\ section \in SectionLens
  /\ declared \in [0..num - 2 -> Sizes]
  /\ pc = "start" /\ i = 0
  /\ sums = [k \in 0..num - 1 |-> 0]
  /\ out = [k \in {} |-> 0]
  /\ error = NoError

NoRoomForTable ==
  /\ pc = "start" /\ section < TableLen
  /\ pc' = "failed"
  /\ error' = [NoError EXCEPT !.kind = "TruncatedPartitionSizes"]
  /\ UNCHANGED <<num, section, declared, i, sums, out>>

SplitOffTable ==
  /\ pc = "start" /\ section >= TableLen
  /\ pc' = "table"
  /\ UNCHANGED <<num, section, declared, i, sums, out, error>>

(* Mutant: a size overwrites the sum of those before it.                    *)
ReadSizeWithoutSum ==
  /\ pc = "table" /\ i < num - 1
  /\ sums' = [sums EXCEPT ![i + 1] = declared[i]]
  /\ i' = i + 1
  /\ UNCHANGED <<num, section, declared, pc, out, error>>

ReadSize ==
  /\ pc = "table" /\ i < num - 1
  /\ sums' = [sums EXCEPT ![i + 1] = sums[i] + declared[i]]
  /\ i' = i + 1
  /\ UNCHANGED <<num, section, declared, pc, out, error>>

(* consumed against the body.                                               *)
CompareWithBody ==
  /\ pc = "table" /\ i = num - 1
  /\ pc' = IF sums[num - 1] > Body THEN "offender" ELSE "slice"
  /\ i' = 0
  /\ UNCHANGED <<num, section, declared, sums, out, error>>

NameOffender ==
  /\ pc = "offender" /\ sums[i] + declared[i] > Body
  /\ error' = Truncated(i, Remaining(i), declared[i])
  /\ pc' = "failed"
  /\ UNCHANGED <<num, section, declared, i, sums, out>>

(* Mutant: the walk may pass the size that overshot.                        *)
NotThisOneUnchecked ==
  /\ pc = "offender"
  /\ i' = i + 1
  /\ pc' = IF i + 1 = num - 1 THEN "underflow" ELSE "offender"
  /\ UNCHANGED <<num, section, declared, sums, out, error>>

(* After the last size the loop falls through to body.len() - consumed,     *)
(* with consumed > body.len().                                              *)
NotThisOne ==
  /\ pc = "offender" /\ sums[i] + declared[i] <= Body
  /\ i' = i + 1
  /\ pc' = IF i + 1 = num - 1 THEN "underflow" ELSE "offender"
  /\ UNCHANGED <<num, section, declared, sums, out, error>>

CutSlice ==
  /\ pc = "slice" /\ i < num
  /\ LET end == sums[i] + SizeOf(i)
     IN IF end > Body
        THEN /\ error' = Truncated(i, Remaining(i), SizeOf(i))
             /\ pc' = "failed"
             /\ UNCHANGED <<i, out>>
        ELSE /\ out' = [k \in 0..i |-> IF k = i THEN [start |-> sums[i], end |-> end]
                                      ELSE out[k]]
             /\ i' = i + 1
             /\ UNCHANGED <<pc, error>>
  /\ UNCHANGED <<num, section, declared, sums>>

Return ==
  /\ pc = "slice" /\ i = num
  /\ pc' = "done"
  /\ UNCHANGED <<num, section, declared, i, sums, out, error>>

Next ==
  \/ NoRoomForTable \/ SplitOffTable \/ ReadSize \/ CompareWithBody
  \/ NameOffender \/ NotThisOne \/ CutSlice \/ Return

Spec == Init /\ [][Next]_vars

-----------------------------------------------------------------------------
(* The partitions handed out lie end to end in the body, each as long as    *)
(* its size word says, and together they are all of it: no byte is read by  *)
(* two decoders, none is skipped (decoder.rs 405-409).                      *)
SlicesTileTheBody ==
  /\ \A k \in DOMAIN out :
       /\ out[k].start = IF k = 0 THEN 0 ELSE out[k - 1].end
       /\ out[k].end = out[k].start + SizeOf(k)
       /\ out[k].start <= out[k].end /\ out[k].end <= Body
  /\ pc = "done" => DOMAIN out = 0..num - 1 /\ out[num - 1].end = Body

(* The walk for the size that overshot always finds one, the first whose    *)
(* partition would end past the body, so the length of the last partition   *)
(* is never computed as a difference below zero (decoder.rs 428-442).       *)
OvershootIsNamed ==
  /\ pc # "underflow"
  /\ pc = "failed" /\ error.kind = "TruncatedDctPartition" =>
       /\ error.index < num - 1 /\ error.declared = declared[error.index]
       /\ error.available = Body - sums[error.index]
       /\ error.available < error.declared
       /\ \A k \in 0..error.index - 1 : sums[k] + declared[k] <= Body
=============================================================================
