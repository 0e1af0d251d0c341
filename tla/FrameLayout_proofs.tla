-------------------------- MODULE FrameLayout_proofs --------------------------
(***************************************************************************)
(* A frame is read back as it was laid out, whatever its caller asked for: *)
(* every header the entry points write is the layout of the fields its     *)
(* call means, every layout is read back field by field, and the carving   *)
(* of the token partitions, which is right for any packet, gives back the  *)
(* slices that were joined.                                                *)
(***************************************************************************)
EXTENDS FrameLayout, WellFoundedInduction, TLAPS

-----------------------------------------------------------------------------
(* The carving.                                                              *)
TypeOK ==
  /\ num \in Nat \ {0} /\ section \in Nat
  /\ declared \in [0..num - 2 -> Nat]
  /\ pc \in {"start", "table", "offender", "slice", "done", "failed", "underflow"}
  /\ i \in 0..num
  /\ sums \in [0..num - 1 -> Nat]
  /\ error \in [kind : {"none", "TruncatedPartitionSizes", "TruncatedDctPartition"},
                index : Nat, available : Nat, declared : Nat]

(* How many of the partial sums are computed.                               *)
Summed ==
  IF pc = "start" \/ error.kind = "TruncatedPartitionSizes" THEN 0 ELSE IF pc = "table" THEN i ELSE num - 1

SumsRight ==
  /\ sums[0] = 0
  /\ \A k \in 0..Summed - 1 : sums[k + 1] = sums[k] + declared[k]
  /\ \A k, l \in 0..Summed : k <= l => sums[k] <= sums[l]

TableFits == pc \notin {"start", "failed"} => Body >= 0
EarlyError == error.kind # "none" => pc = "failed"
TableIndex == /\ pc \in {"start", "table"} => i < num
              /\ pc = "start" => i = 0

(* While an offender is sought there is one, and it is not behind.          *)
OffenderAhead ==
  pc = "offender" =>
    /\ sums[num - 1] > Body /\ i < num - 1
    /\ \A k \in 0..i - 1 : sums[k] + declared[k] <= Body

FailedRight ==
  pc = "failed" /\ error.kind = "TruncatedDctPartition" =>
    /\ error.index \in 0..num - 2 /\ error.declared = declared[error.index]
    /\ error.available = Body - sums[error.index]
    /\ error.available < error.declared
    /\ \A k \in 0..error.index - 1 : sums[k] + declared[k] <= Body

SlicesRight ==
  /\ pc \in {"start", "table", "offender"} => out = [k \in {} |-> 0]
  /\ pc \in {"slice", "done"} => sums[num - 1] <= Body /\ DOMAIN out = 0..i - 1
  /\ pc = "done" => i = num
  /\ \A k \in DOMAIN out :
       /\ k \in 0..num - 1
       /\ out[k] = [start |-> sums[k], end |-> sums[k] + SizeOf(k)]
  /\ DOMAIN out # {} => pc \in {"slice", "done"}

Inv ==
  /\ TypeOK /\ SumsRight /\ TableFits /\ TableIndex /\ EarlyError
  /\ OffenderAhead /\ FailedRight /\ SlicesRight /\ pc # "underflow"

(* The carving has just begun, on a packet of any section and sizes.          *)
Started ==
  /\ num \in Nat \ {0} /\ section \in Nat /\ declared \in [0..num - 2 -> Nat]
  /\ pc = "start" /\ i = 0 /\ sums = [k \in 0..num - 1 |-> 0]
  /\ out = [k \in {} |-> 0] /\ error = NoError

LEMMA StartedInvariant == Started => Inv
<1> SUFFICES ASSUME Started PROVE Inv
  OBVIOUS
<1>1. TypeOK
  BY DEF Started, NoError, TypeOK
<1>2. SumsRight
  BY DEF Started, NoError, SumsRight, Summed
<1>3. TableFits
  BY DEF Started, NoError, TableFits, Body, TableLen
<1>4. TableIndex
  BY DEF Started, NoError, TableIndex
<1>5. EarlyError
  BY DEF Started, NoError, EarlyError
<1>6. OffenderAhead
  BY DEF Started, NoError, OffenderAhead, Body, TableLen
<1>7. FailedRight
  BY DEF Started, NoError, FailedRight, Body, TableLen
<1>8. SlicesRight
  BY DEF Started, NoError, SlicesRight, SizeOf, Body, TableLen
<1> QED
  BY <1>1, <1>2, <1>3, <1>4, <1>5, <1>6, <1>7, <1>8 DEF Inv, Started

LEMMA StartedNext == Started' => Inv'
BY StartedInvariant, PTL

LEMMA InitInvariant == Init => Inv
<1> SUFFICES ASSUME Init PROVE Started
  BY StartedInvariant
<1>1. num \in Nat \ {0} /\ section \in Nat
  BY CarvingAssumption DEF Init
<1>2. declared \in [0..num - 2 -> Nat]
  <2>1. declared \in [0..num - 2 -> Sizes] /\ Sizes \subseteq Nat
    BY CarvingAssumption DEF Init
  <2> QED BY <2>1
<1> QED BY <1>1, <1>2 DEF Init, Started

LEMMA NoRoomForTablePreserves == Inv /\ NoRoomForTable => Inv'
<1> SUFFICES ASSUME Inv, NoRoomForTable PROVE Inv'
  OBVIOUS
<1>0. TypeOK /\ SumsRight /\ TableFits /\ TableIndex /\ EarlyError
  BY DEF Inv
<1>00. OffenderAhead /\ FailedRight /\ SlicesRight /\ pc # "underflow"
  BY DEF Inv
<1>1. TypeOK'
  BY <1>0, <1>00 DEF NoRoomForTable, NoError, TypeOK, TableIndex
<1>2. SumsRight'
  BY <1>0, <1>00 DEF NoRoomForTable, NoError, TypeOK, SumsRight, Summed, EarlyError, TableIndex
<1>3. TableFits'
  BY <1>0, <1>00 DEF NoRoomForTable, NoError, TypeOK, TableFits, Body, TableLen
<1>4. TableIndex'
  BY <1>0, <1>00 DEF NoRoomForTable, NoError, TypeOK, TableIndex
<1>5. EarlyError'
  BY <1>0, <1>00 DEF NoRoomForTable, NoError, TypeOK, EarlyError
<1>6. OffenderAhead'
  BY <1>0, <1>00 DEF NoRoomForTable, NoError, TypeOK, OffenderAhead, EarlyError, TableFits, Body, TableLen
<1>7. FailedRight'
  BY <1>0, <1>00 DEF NoRoomForTable, NoError, TypeOK, FailedRight, EarlyError, Body, TableLen
<1>8. SlicesRight'
  BY <1>0, <1>00 DEF NoRoomForTable, NoError, TypeOK, SlicesRight, SizeOf, Body, TableLen
<1>9. pc' # "underflow"
  BY <1>0, <1>00 DEF NoRoomForTable, TypeOK, SumsRight, Summed, TableFits, OffenderAhead, Body, TableLen
<1> QED
  BY <1>1, <1>2, <1>3, <1>4, <1>5, <1>6, <1>7, <1>8, <1>9 DEF Inv

LEMMA SplitOffTablePreserves == Inv /\ SplitOffTable => Inv'
<1> SUFFICES ASSUME Inv, SplitOffTable PROVE Inv'
  OBVIOUS
<1>0. TypeOK /\ SumsRight /\ TableFits /\ TableIndex /\ EarlyError
  BY DEF Inv
<1>00. OffenderAhead /\ FailedRight /\ SlicesRight /\ pc # "underflow"
  BY DEF Inv
<1>1. TypeOK'
  BY <1>0, <1>00 DEF SplitOffTable, TypeOK, TableIndex
<1>2. SumsRight'
  <2>1. Summed = 0 /\ Summed' = 0 /\ sums' = sums
    BY <1>0 DEF SplitOffTable, Summed, EarlyError, TableIndex, TypeOK
  <2> QED
    BY <1>0, <2>1 DEF SumsRight, SplitOffTable, TypeOK
<1>3. TableFits'
  BY <1>0, <1>00 DEF SplitOffTable, TypeOK, TableFits, Body, TableLen
<1>4. TableIndex'
  BY <1>0, <1>00 DEF SplitOffTable, TypeOK, TableIndex
<1>5. EarlyError'
  BY <1>0, <1>00 DEF SplitOffTable, TypeOK, EarlyError
<1>6. OffenderAhead'
  BY <1>0, <1>00 DEF SplitOffTable, TypeOK, OffenderAhead, EarlyError, TableFits, Body, TableLen
<1>7. FailedRight'
  BY <1>0, <1>00 DEF SplitOffTable, TypeOK, FailedRight, EarlyError, Body, TableLen
<1>8. SlicesRight'
  BY <1>0, <1>00 DEF SplitOffTable, TypeOK, SlicesRight, SizeOf, Body, TableLen
<1>9. pc' # "underflow"
  BY <1>0, <1>00 DEF SplitOffTable, TypeOK, SumsRight, Summed, TableFits, OffenderAhead, Body, TableLen
<1> QED
  BY <1>1, <1>2, <1>3, <1>4, <1>5, <1>6, <1>7, <1>8, <1>9 DEF Inv

LEMMA ReadSizePreserves == Inv /\ ReadSize => Inv'
<1> SUFFICES ASSUME Inv, ReadSize PROVE Inv'
  OBVIOUS
<1>0. TypeOK /\ SumsRight /\ TableFits /\ TableIndex /\ EarlyError
  BY DEF Inv
<1>00. OffenderAhead /\ FailedRight /\ SlicesRight /\ pc # "underflow"
  BY DEF Inv
<1>1. TypeOK'
  <2>1. /\ i + 1 \in 0..num - 1 /\ declared[i] \in Nat /\ sums[i] + declared[i] \in Nat
    BY <1>0 DEF ReadSize, TypeOK, TableIndex
  <2>2. sums' \in [0..num - 1 -> Nat]
    BY <1>0, <2>1 DEF ReadSize, TypeOK
  <2> QED
    BY <1>0, <2>1, <2>2 DEF ReadSize, TypeOK
<1>2. SumsRight'
  <2>1. i + 1 \in 0..num - 1 /\ Summed = i /\ Summed' = i + 1 /\ error.kind = "none"
    BY <1>0 DEF ReadSize, TypeOK, Summed, TableIndex, EarlyError
  <2>2. sums'[i + 1] = sums[i] + declared[i] /\ declared[i] \in Nat /\ sums[i] \in Nat
    BY <1>0 DEF ReadSize, TypeOK
  <2>3. \A k \in 0..i : sums'[k] = sums[k] /\ sums[k] \in Nat
    BY <1>0 DEF ReadSize, TypeOK
  <2>4. sums'[0] = 0
    BY <1>0, <2>3 DEF SumsRight, TypeOK
  <2>5. \A k \in 0..i : sums'[k + 1] = sums'[k] + declared[k]
    <3>1. \A k \in 0..i - 1 : k + 1 \in 0..i /\ sums[k + 1] = sums[k] + declared[k]
      BY <1>0, <2>1 DEF SumsRight, TypeOK
    <3>2. \A k \in 0..i : k = i \/ k \in 0..i - 1
      BY <1>0 DEF TypeOK
    <3> QED
      BY <1>0, <2>2, <2>3, <3>1, <3>2 DEF TypeOK
  <2>6. \A k, l \in 0..i + 1 : k <= l => sums'[k] <= sums'[l]
    <3>1. \A k \in 0..i : sums[k] <= sums[i]
      BY <1>0, <2>1 DEF SumsRight, TypeOK
    <3>2. \A k, l \in 0..i : k <= l => sums[k] <= sums[l]
      BY <1>0, <2>1 DEF SumsRight
    <3>3. \A k \in 0..i : sums'[k] <= sums'[i + 1]
      <4> SUFFICES ASSUME NEW k \in 0..i PROVE sums'[k] <= sums'[i + 1]
        OBVIOUS
      <4>1. sums'[k] <= sums[i] /\ sums'[k] \in Nat
        BY <2>3, <3>1
      <4> QED
        BY <2>2, <4>1
    <3>4. sums'[i + 1] \in Nat
      BY <2>2
    <3>5. \A k \in 0..i + 1 : k = i + 1 \/ k \in 0..i
      BY <1>0 DEF TypeOK
    <3> SUFFICES ASSUME NEW k \in 0..i + 1, NEW l \in 0..i + 1, k <= l
                 PROVE  sums'[k] <= sums'[l]
      OBVIOUS
    <3>6. CASE l = i + 1
      BY <3>3, <3>4, <3>5, <3>6
    <3>7. CASE l \in 0..i
      <4>1. k \in 0..i
        BY <3>7, <1>0 DEF TypeOK
      <4> QED
        BY <2>3, <3>2, <3>7, <4>1
    <3> QED
      BY <3>5, <3>6, <3>7
  <2>7. declared' = declared
    BY DEF ReadSize
  <2> QED
    BY <2>1, <2>4, <2>5, <2>6, <2>7, <1>0 DEF SumsRight, TypeOK
<1>3. TableFits'
  BY <1>0, <1>00 DEF ReadSize, TypeOK, TableFits, Body, TableLen
<1>4. TableIndex'
  BY <1>0, <1>00 DEF ReadSize, TypeOK, TableIndex
<1>5. EarlyError'
  BY <1>0, <1>00 DEF ReadSize, TypeOK, EarlyError
<1>6. OffenderAhead'
  BY <1>0, <1>00 DEF ReadSize, TypeOK, OffenderAhead, EarlyError, TableFits, Body, TableLen
<1>7. FailedRight'
  BY <1>0, <1>00 DEF ReadSize, TypeOK, FailedRight, EarlyError, Body, TableLen
<1>8. SlicesRight'
  BY <1>0, <1>00 DEF ReadSize, TypeOK, SlicesRight, SizeOf, Body, TableLen
<1>9. pc' # "underflow"
  BY <1>0, <1>00 DEF ReadSize, TypeOK, SumsRight, Summed, TableFits, OffenderAhead, Body, TableLen
<1> QED
  BY <1>1, <1>2, <1>3, <1>4, <1>5, <1>6, <1>7, <1>8, <1>9 DEF Inv

LEMMA CompareWithBodyPreserves == Inv /\ CompareWithBody => Inv'
<1> SUFFICES ASSUME Inv, CompareWithBody PROVE Inv'
  OBVIOUS
<1>0. TypeOK /\ SumsRight /\ TableFits /\ TableIndex /\ EarlyError
  BY DEF Inv
<1>00. OffenderAhead /\ FailedRight /\ SlicesRight /\ pc # "underflow"
  BY DEF Inv
<1>1. TypeOK'
  BY <1>0, <1>00 DEF CompareWithBody, TypeOK, TableIndex
<1>2. SumsRight'
  BY <1>0, <1>00 DEF CompareWithBody, TypeOK, SumsRight, Summed, EarlyError, TableIndex
<1>3. TableFits'
  BY <1>0, <1>00 DEF CompareWithBody, TypeOK, TableFits, Body, TableLen
<1>4. TableIndex'
  BY <1>0, <1>00 DEF CompareWithBody, TypeOK, TableIndex
<1>5. EarlyError'
  BY <1>0, <1>00 DEF CompareWithBody, TypeOK, EarlyError
<1>6. OffenderAhead'
  <2>1. pc' = "offender" => i' = 0 /\ sums[num - 1] > Body /\ num - 1 # 0
    BY <1>0 DEF CompareWithBody, TypeOK, SumsRight, Summed, TableFits, Body, TableLen
  <2> QED
    BY <1>0, <2>1 DEF CompareWithBody, OffenderAhead, TypeOK, Body, TableLen
<1>7. FailedRight'
  BY <1>0, <1>00 DEF CompareWithBody, TypeOK, FailedRight, EarlyError, Body, TableLen
<1>8. SlicesRight'
  BY <1>0, <1>00 DEF CompareWithBody, TypeOK, SlicesRight, SizeOf, Body, TableLen
<1>9. pc' # "underflow"
  BY <1>0, <1>00 DEF CompareWithBody, TypeOK, SumsRight, Summed, TableFits, OffenderAhead, Body, TableLen
<1> QED
  BY <1>1, <1>2, <1>3, <1>4, <1>5, <1>6, <1>7, <1>8, <1>9 DEF Inv

LEMMA NameOffenderPreserves == Inv /\ NameOffender => Inv'
<1> SUFFICES ASSUME Inv, NameOffender PROVE Inv'
  OBVIOUS
<1>0. TypeOK /\ SumsRight /\ TableFits /\ TableIndex /\ EarlyError
  BY DEF Inv
<1>00. OffenderAhead /\ FailedRight /\ SlicesRight /\ pc # "underflow"
  BY DEF Inv
<1>1. TypeOK'
  <2>1. i \in 0..num - 2 /\ sums[i] \in Nat /\ declared[i] \in Nat /\ Body \in Int
    BY <1>0, <1>00 DEF NameOffender, OffenderAhead, TypeOK, Body, TableLen
  <2>2. Remaining(i) \in Nat
    BY <2>1 DEF Remaining
  <2>3. error' = [kind |-> "TruncatedDctPartition", index |-> i,
                  available |-> Remaining(i), declared |-> declared[i]] /\ i \in Nat
    BY <2>1 DEF NameOffender, Truncated
  <2>4. error' \in [kind : {"none", "TruncatedPartitionSizes", "TruncatedDctPartition"},
                    index : Nat, available : Nat, declared : Nat]
    BY <2>1, <2>2, <2>3
  <2> QED
    BY <1>0, <2>4 DEF NameOffender, TypeOK
<1>2. SumsRight'
  BY <1>0, <1>00 DEF NameOffender, Truncated, Remaining, TypeOK, SumsRight, Summed, EarlyError, TableIndex
<1>3. TableFits'
  BY <1>0, <1>00 DEF NameOffender, Truncated, Remaining, TypeOK, TableFits, Body, TableLen
<1>4. TableIndex'
  BY DEF NameOffender, TableIndex
<1>5. EarlyError'
  BY <1>0, <1>00 DEF NameOffender, Truncated, Remaining, TypeOK, EarlyError
<1>6. OffenderAhead'
  BY <1>0, <1>00 DEF NameOffender, Truncated, Remaining, TypeOK, OffenderAhead, EarlyError, TableFits, Body, TableLen
<1>7. FailedRight'
  <2>1. i \in 0..num - 2 /\ sums[i] \in Nat /\ declared[i] \in Nat /\ Body \in Int
    BY <1>0, <1>00 DEF NameOffender, OffenderAhead, TypeOK, Body, TableLen
  <2>2. sums[i] <= Body
    <3>1. CASE i = 0
      BY <1>0, <3>1 DEF NameOffender, SumsRight, TableFits, TypeOK
    <3>2. CASE i # 0
      <4>1. i - 1 \in 0..i - 1 /\ i - 1 \in 0..Summed - 1 /\ (i - 1) + 1 = i
        BY <1>0, <2>1, <3>2 DEF NameOffender, Summed, EarlyError, TypeOK
      <4>2. sums[i] = sums[i - 1] + declared[i - 1]
        BY <1>0, <4>1 DEF SumsRight
      <4> QED
        BY <1>00, <4>1, <4>2 DEF NameOffender, OffenderAhead
    <3> QED
      BY <3>1, <3>2
  <2>3. error' = [kind |-> "TruncatedDctPartition", index |-> i,
                  available |-> Body - sums[i], declared |-> declared[i]]
    BY <2>1, <2>2 DEF NameOffender, Truncated, Remaining
  <2>4. \A k \in 0..i - 1 : sums[k] + declared[k] <= Body
    BY <1>00 DEF NameOffender, OffenderAhead
  <2>5. sums' = sums /\ declared' = declared /\ num' = num /\ Body' = Body
    BY DEF NameOffender, Body, TableLen
  <2>6. sums[i] + declared[i] > Body
    BY DEF NameOffender
  <2> QED
    BY <2>1, <2>2, <2>3, <2>4, <2>5, <2>6 DEF FailedRight
<1>8. SlicesRight'
  BY <1>0, <1>00 DEF NameOffender, Truncated, Remaining, TypeOK, SlicesRight, SizeOf, Body, TableLen
<1>9. pc' # "underflow"
  BY <1>0, <1>00 DEF NameOffender, TypeOK, SumsRight, Summed, TableFits, OffenderAhead, Body, TableLen
<1> QED
  BY <1>1, <1>2, <1>3, <1>4, <1>5, <1>6, <1>7, <1>8, <1>9 DEF Inv

LEMMA NotThisOnePreserves == Inv /\ NotThisOne => Inv'
<1> SUFFICES ASSUME Inv, NotThisOne PROVE Inv'
  OBVIOUS
<1>0. TypeOK /\ SumsRight /\ TableFits /\ TableIndex /\ EarlyError
  BY DEF Inv
<1>00. OffenderAhead /\ FailedRight /\ SlicesRight /\ pc # "underflow"
  BY DEF Inv
<1>000. i + 1 \in 0..num - 2
  <2>1. i \in 0..num - 2 /\ Summed = num - 1
    BY <1>0, <1>00 DEF NotThisOne, OffenderAhead, TypeOK, Summed, EarlyError
  <2>2. sums[i + 1] <= Body
    BY <1>0, <2>1 DEF NotThisOne, SumsRight, TypeOK
  <2>3. i + 1 # num - 1
    BY <1>0, <1>00, <2>2 DEF NotThisOne, OffenderAhead, TypeOK, Body, TableLen
  <2> QED
    BY <1>0, <2>1, <2>3 DEF TypeOK
<1>1. TypeOK'
  BY <1>0, <1>00, <1>000 DEF NotThisOne, TypeOK, TableIndex
<1>2. SumsRight'
  <2>1. Summed' = Summed /\ sums' = sums /\ declared' = declared
    BY <1>0 DEF NotThisOne, Summed, EarlyError, TypeOK
  <2> QED
    BY <1>0, <2>1 DEF SumsRight
<1>3. TableFits'
  BY <1>0, <1>00, <1>000 DEF NotThisOne, TypeOK, TableFits, Body, TableLen
<1>4. TableIndex'
  BY <1>0, <1>00, <1>000 DEF NotThisOne, TypeOK, TableIndex
<1>5. EarlyError'
  BY <1>0, <1>00, <1>000 DEF NotThisOne, TypeOK, EarlyError
<1>6. OffenderAhead'
  <2>1. \A k \in 0..(i + 1) - 1 : k = i \/ k \in 0..i - 1
    BY <1>0 DEF TypeOK
  <2>2. \A k \in 0..(i + 1) - 1 : sums[k] + declared[k] <= Body
    BY <1>00, <2>1 DEF NotThisOne, OffenderAhead
  <2>3. i + 1 < num - 1 /\ sums[num - 1] > Body
    BY <1>0, <1>00, <1>000 DEF NotThisOne, OffenderAhead, TypeOK
  <2>4. sums' = sums /\ declared' = declared /\ num' = num /\ Body' = Body /\ i' = i + 1
    BY DEF NotThisOne, Body, TableLen
  <2> QED
    BY <2>2, <2>3, <2>4 DEF OffenderAhead
<1>7. FailedRight'
  BY <1>0, <1>00, <1>000 DEF NotThisOne, TypeOK, FailedRight, EarlyError, Body, TableLen
<1>8. SlicesRight'
  BY <1>0, <1>00, <1>000 DEF NotThisOne, TypeOK, SlicesRight, SizeOf, Body, TableLen
<1>9. pc' # "underflow"
  BY <1>0, <1>00, <1>000 DEF NotThisOne, TypeOK, SumsRight, Summed, TableFits, OffenderAhead, Body, TableLen
<1> QED
  BY <1>1, <1>2, <1>3, <1>4, <1>5, <1>6, <1>7, <1>8, <1>9 DEF Inv

LEMMA CutSlicePreserves == Inv /\ CutSlice => Inv'
<1> SUFFICES ASSUME Inv, CutSlice PROVE Inv'
  OBVIOUS
<1>0. TypeOK /\ SumsRight /\ TableFits /\ TableIndex /\ EarlyError
  BY DEF Inv
<1>00. OffenderAhead /\ FailedRight /\ SlicesRight /\ pc # "underflow"
  BY DEF Inv
<1>000. /\ sums[i] \in Nat /\ SizeOf(i) \in Nat /\ Body \in Int
        /\ sums[i] + SizeOf(i) <= Body
  <2>1. i \in 0..num - 1 /\ Summed = num - 1 /\ Body \in Int /\ sums[num - 1] <= Body
    BY <1>0, <1>00 DEF CutSlice, SlicesRight, TypeOK, Summed, EarlyError, Body, TableLen
  <2>2. sums[i] \in Nat /\ sums[num - 1] \in Nat
    BY <1>0, <2>1 DEF TypeOK
  <2>3. CASE i = num - 1
    BY <2>1, <2>2, <2>3 DEF SizeOf
  <2>4. CASE i # num - 1
    <3>1. i \in 0..Summed - 1 /\ i + 1 \in 0..num - 1 /\ i + 1 <= num - 1
      BY <1>0, <2>1, <2>4 DEF TypeOK
    <3>2. sums[i + 1] = sums[i] + declared[i] /\ sums[i + 1] <= sums[num - 1]
      BY <1>0, <2>1, <3>1 DEF SumsRight, TypeOK
    <3>3. declared[i] \in Nat /\ sums[i + 1] \in Nat
      BY <1>0, <2>1, <3>1 DEF TypeOK
    <3> QED
      BY <2>1, <2>2, <2>4, <3>2, <3>3 DEF SizeOf
  <2> QED
    BY <2>1, <2>2, <2>3, <2>4
<1>0000. /\ i' = i + 1 /\ pc' = pc /\ error' = error /\ i \in 0..num - 1 /\ pc = "slice"
         /\ out' = [k \in 0..i |-> IF k = i THEN [start |-> sums[i], end |-> sums[i] + SizeOf(i)]
                                  ELSE out[k]]
         /\ num' = num /\ section' = section /\ declared' = declared /\ sums' = sums
  BY <1>0, <1>000 DEF CutSlice, TypeOK
<1>1. TypeOK'
  BY <1>0, <1>0000 DEF TypeOK
<1>2. SumsRight'
  BY <1>0, <1>0000 DEF SumsRight, Summed
<1>3. TableFits'
  BY <1>0, <1>0000 DEF TableFits, Body, TableLen
<1>4. TableIndex'
  BY <1>0000 DEF TableIndex
<1>5. EarlyError'
  BY <1>0, <1>0000 DEF EarlyError
<1>6. OffenderAhead'
  BY <1>0000 DEF OffenderAhead
<1>7. FailedRight'
  BY <1>0000 DEF FailedRight
<1>8. SlicesRight'
  <2>1. /\ DOMAIN out = 0..i - 1 /\ sums[num - 1] <= Body
        /\ \A k \in DOMAIN out : out[k] = [start |-> sums[k], end |-> sums[k] + SizeOf(k)]
    BY <1>00, <1>0000 DEF SlicesRight
  <2>2. \A k \in 0..i : k = i \/ k \in 0..i - 1
    BY <1>0000
  <2>3. \A k \in 0..i : out'[k] = [start |-> sums[k], end |-> sums[k] + SizeOf(k)]
    BY <1>0000, <2>1, <2>2
  <2>4. \A k : SizeOf(k)' = SizeOf(k)
    BY <1>0000 DEF SizeOf, Body, TableLen
  <2>5. DOMAIN out' = 0..i /\ 0..i = 0..i' - 1 /\ 0..i \subseteq 0..num - 1 /\ Body' = Body
    BY <1>0, <1>0000 DEF TypeOK, Body, TableLen
  <2> QED
    BY <1>0000, <2>1, <2>3, <2>4, <2>5 DEF SlicesRight
<1>9. pc' # "underflow"
  BY <1>0, <1>00 DEF CutSlice, TypeOK, SumsRight, Summed, TableFits, OffenderAhead, Body, TableLen
<1> QED
  BY <1>1, <1>2, <1>3, <1>4, <1>5, <1>6, <1>7, <1>8, <1>9 DEF Inv

LEMMA ReturnPreserves == Inv /\ Return => Inv'
<1> SUFFICES ASSUME Inv, Return PROVE Inv'
  OBVIOUS
<1>0. TypeOK /\ SumsRight /\ TableFits /\ TableIndex /\ EarlyError
  BY DEF Inv
<1>00. OffenderAhead /\ FailedRight /\ SlicesRight /\ pc # "underflow"
  BY DEF Inv
<1>1. TypeOK'
  BY <1>0, <1>00 DEF Return, TypeOK, TableIndex
<1>2. SumsRight'
  BY <1>0, <1>00 DEF Return, TypeOK, SumsRight, Summed, EarlyError, TableIndex
<1>3. TableFits'
  BY <1>0, <1>00 DEF Return, TypeOK, TableFits, Body, TableLen
<1>4. TableIndex'
  BY <1>0, <1>00 DEF Return, TypeOK, TableIndex
<1>5. EarlyError'
  BY <1>0, <1>00 DEF Return, TypeOK, EarlyError
<1>6. OffenderAhead'
  BY <1>0, <1>00 DEF Return, TypeOK, OffenderAhead, EarlyError, TableFits, Body, TableLen
<1>7. FailedRight'
  BY <1>0, <1>00 DEF Return, TypeOK, FailedRight, EarlyError, Body, TableLen
<1>8. SlicesRight'
  BY <1>0, <1>00 DEF Return, TypeOK, SlicesRight, SizeOf, Body, TableLen
<1>9. pc' # "underflow"
  BY <1>0, <1>00 DEF Return, TypeOK, SumsRight, Summed, TableFits, OffenderAhead, Body, TableLen
<1> QED
  BY <1>1, <1>2, <1>3, <1>4, <1>5, <1>6, <1>7, <1>8, <1>9 DEF Inv

LEMMA NextPreserves == Inv /\ [Next]_vars => Inv'
<1> SUFFICES ASSUME Inv, [Next]_vars PROVE Inv'
  OBVIOUS
<1>1. CASE UNCHANGED vars
  BY <1>1 DEF vars, Inv, TypeOK, SumsRight, Summed, TableFits, TableIndex, EarlyError,
     OffenderAhead, FailedRight, SlicesRight, SizeOf, Body, TableLen
<1>2. CASE Next
  BY <1>2, NoRoomForTablePreserves, SplitOffTablePreserves, ReadSizePreserves,
     CompareWithBodyPreserves, NameOffenderPreserves, NotThisOnePreserves,
     CutSlicePreserves, ReturnPreserves DEF Next
<1> QED
  BY <1>1, <1>2

(* The inductive invariant: what is summed, cut and reported so far.        *)
THEOREM InductiveInvariant == Spec => []Inv
BY InitInvariant, NextPreserves, PTL DEF Spec

LEMMA InvTiles == Inv => SlicesTileTheBody
<1> SUFFICES ASSUME Inv PROVE SlicesTileTheBody
  OBVIOUS
<1>0. TypeOK /\ SumsRight /\ TableFits /\ EarlyError /\ SlicesRight
  BY DEF Inv
<1>1. ASSUME NEW k \in DOMAIN out
      PROVE  /\ out[k].start = IF k = 0 THEN 0 ELSE out[k - 1].end
             /\ out[k].end = out[k].start + SizeOf(k)
             /\ out[k].start <= out[k].end /\ out[k].end <= Body
  <2>1. /\ pc \in {"slice", "done"} /\ DOMAIN out = 0..i - 1 /\ k \in 0..num - 1
        /\ Summed = num - 1 /\ sums[num - 1] <= Body /\ Body \in Int
        /\ num \in Nat \ {0} /\ i \in 0..num
    BY <1>0, <1>1 DEF SlicesRight, Summed, EarlyError, TypeOK, Body, TableLen
  <2>2. out[k] = [start |-> sums[k], end |-> sums[k] + SizeOf(k)]
    BY <1>0, <1>1 DEF SlicesRight
  <2>3. sums[k] \in Nat /\ sums[num - 1] \in Nat /\ sums[k] <= sums[num - 1]
    BY <1>0, <2>1 DEF TypeOK, SumsRight
  <2>4. sums[k] + SizeOf(k) <= Body /\ sums[k] <= sums[k] + SizeOf(k)
    <3>1. CASE k = num - 1
      BY <2>1, <2>3, <3>1 DEF SizeOf
    <3>2. CASE k # num - 1
      <4>1. k \in 0..Summed - 1 /\ k + 1 \in 0..Summed /\ k + 1 <= num - 1
        BY <2>1, <3>2
      <4>2. sums[k + 1] = sums[k] + declared[k] /\ sums[k + 1] <= sums[num - 1]
        BY <1>0, <2>1, <4>1 DEF SumsRight, TypeOK
      <4>3. declared[k] \in Nat /\ sums[k + 1] \in Nat
        BY <1>0, <2>1, <4>1 DEF TypeOK
      <4> QED
        BY <2>1, <2>3, <3>2, <4>2, <4>3 DEF SizeOf
    <3> QED
      BY <3>1, <3>2
  <2>5. out[k].start = IF k = 0 THEN 0 ELSE out[k - 1].end
    <3>1. CASE k = 0
      BY <1>0, <2>2, <3>1 DEF SumsRight
    <3>2. CASE k # 0
      <4>1. /\ k - 1 \in DOMAIN out /\ k - 1 \in 0..Summed - 1 /\ (k - 1) + 1 = k
            /\ k - 1 # num - 1
        <5>1. k \in 0..i - 1 /\ k - 1 \in 0..i - 1
          BY <1>1, <2>1, <3>2
        <5> QED
          BY <2>1, <5>1
      <4>2. out[k - 1].end = sums[k - 1] + declared[k - 1]
        BY <1>0, <4>1 DEF SlicesRight, SizeOf
      <4>3. sums[k] = sums[k - 1] + declared[k - 1]
        BY <1>0, <4>1 DEF SumsRight
      <4> QED
        BY <2>2, <3>2, <4>2, <4>3
    <3> QED
      BY <3>1, <3>2
  <2> QED
    BY <2>2, <2>4, <2>5
<1>2. pc = "done" => DOMAIN out = 0..num - 1 /\ out[num - 1].end = Body
  <2>1. num - 1 \in 0..num - 1 /\ Body \in Int /\ sums[num - 1] \in Nat
    BY <1>0 DEF TypeOK, Body, TableLen
  <2>2. pc = "done" => DOMAIN out = 0..num - 1
    BY <1>0 DEF SlicesRight
  <2>3. pc = "done" => out[num - 1].end = sums[num - 1] + SizeOf(num - 1)
    BY <1>0, <2>1, <2>2 DEF SlicesRight
  <2> QED
    BY <2>1, <2>2, <2>3 DEF SizeOf
<1> QED
  BY <1>1, <1>2 DEF SlicesTileTheBody

(* The partitions lie end to end in the body, as long as declared, and the  *)
(* last one ends where the body does, for every packet.                     *)
THEOREM CarvedSlicesTile == Spec => []SlicesTileTheBody
BY InductiveInvariant, InvTiles, PTL

LEMMA InvNames == Inv => OvershootIsNamed
BY DEF Inv, FailedRight, OvershootIsNamed, TypeOK

(* A table that overshoots the body is reported at the first size that      *)
(* does; the subtraction after that loop never goes below zero.             *)
THEOREM OvershootAlwaysNamed == Spec => []OvershootIsNamed
BY InductiveInvariant, InvNames, PTL

-----------------------------------------------------------------------------
(* Induction, as the least natural number outside of a set.                   *)
LEMMA NaturalInduction ==
  ASSUME NEW S, 0 \in S, \A n \in Nat : n \in S => n + 1 \in S
  PROVE  \A n \in Nat : n \in S
<1> DEFINE T == Nat \ S
<1> SUFFICES ASSUME T # {} PROVE FALSE
  OBVIOUS
<1>1. PICK m \in T : \A y \in T : ~(<<y, m>> \in OpToRel(<, Nat))
  <2>1. T \subseteq Nat
    OBVIOUS
  <2> HIDE DEF T
  <2> QED BY <2>1, NatLessThanWellFounded, WFMin
<1>2. m # 0 /\ m - 1 \in Nat
  OBVIOUS
<1>3. m - 1 \in T
  BY <1>2
<1>4. <<m - 1, m>> \in OpToRel(<, Nat)
  BY <1>2 DEF OpToRel
<1> QED BY <1>1, <1>3, <1>4

(* The values, all in X, that begin with a and follow each other by step.     *)
StepsFrom(f, N, X, a, step) ==
  f \in [0..N -> X] /\ f[0] = a /\ \A n \in 1..N : f[n] = step[<<n, f[n - 1]>>]
Iterated(N, X, a, step) == CHOOSE f : StepsFrom(f, N, X, a, step)

LEMMA StepByStep ==
  ASSUME NEW N \in Nat, NEW X, NEW a \in X, NEW step,
         \A n \in 1..N, x \in X : step[<<n, x>>] \in X
  PROVE  StepsFrom(Iterated(N, X, a, step), N, X, a, step)
<1> DEFINE Rec(f, m) == f \in [0..m -> X] /\ f[0] = a /\ \A n \in 1..m : f[n] = step[<<n, f[n - 1]>>]
           S == {m \in Nat : m <= N => \E f : Rec(f, m)}
<1>1. 0 \in S
  <2>1. Rec([n \in 0..0 |-> a], 0)
    OBVIOUS
  <2>2. \E f : Rec(f, 0)
    BY <2>1
  <2> HIDE DEF Rec
  <2> QED BY <2>2
<1>2. ASSUME NEW m \in Nat, m \in S PROVE m + 1 \in S
  <2> SUFFICES ASSUME m + 1 <= N PROVE \E f : Rec(f, m + 1)
    OBVIOUS
  <2>1. PICK f : Rec(f, m)
    <3> HIDE DEF Rec
    <3> QED BY <1>2
  <2> DEFINE last == step[<<m + 1, f[m]>>]
             g == [n \in 0..m + 1 |-> IF n = m + 1 THEN last ELSE f[n]]
  <2>2. last \in X /\ f[m] \in X
    BY <2>1
  <2>3. g \in [0..m + 1 -> X] /\ g[0] = a
    <3> HIDE DEF last
    <3> QED BY <2>1, <2>2
  <2>4. ASSUME NEW n \in 1..m + 1 PROVE g[n] = step[<<n, g[n - 1]>>]
    <3>1. CASE n = m + 1
      <4>1. n - 1 = m /\ g[m] = f[m] /\ g[n] = last
        BY <3>1
      <4> HIDE DEF g
      <4> QED BY <4>1, <3>1
    <3>2. CASE n # m + 1
      <4>1. n \in 1..m /\ g[n] = f[n] /\ g[n - 1] = f[n - 1]
        BY <3>2
      <4> HIDE DEF g
      <4> QED BY <4>1, <2>1
    <3> QED BY <3>1, <3>2
  <2>5. Rec(g, m + 1)
    <3> HIDE DEF g
    <3> QED BY <2>3, <2>4
  <2> HIDE DEF Rec
  <2> QED BY <2>5
<1>3. N \in S
  <2> HIDE DEF S
  <2> QED BY <1>1, <1>2, NaturalInduction
<1>4. \E f : StepsFrom(f, N, X, a, step)
  BY <1>3 DEF StepsFrom
<1> QED BY <1>4 DEF Iterated

-----------------------------------------------------------------------------
(* Bits and where they stand.                                                *)
Wire == Seq([p : Nat, b : BOOLEAN])
Place == Nat \ {0}
(* The bits stand in the wire from a place on.                               *)
Stands(wire, from, bits) ==
  /\ from + Len(bits) <= Len(wire) + 1
  /\ \A k \in 1..Len(bits) : wire[from + k - 1] = bits[k]

LEMMA Joined ==
  ASSUME NEW a \in Wire, NEW b \in Wire
  PROVE  a \o b \in Wire /\ Len(a \o b) = Len(a) + Len(b)
BY DEF Wire

LEMMA StandsJoined ==
  ASSUME NEW wire \in Wire, NEW from \in Place, NEW a \in Wire, NEW b \in Wire,
         Stands(wire, from, a \o b)
  PROVE  Stands(wire, from, a) /\ Stands(wire, from + Len(a), b)
<1>1. /\ Len(a \o b) = Len(a) + Len(b) /\ Len(a) \in Nat /\ Len(b) \in Nat /\ Len(wire) \in Nat
      /\ \A k \in 1..Len(a) : (a \o b)[k] = a[k]
      /\ \A k \in 1..Len(b) : (a \o b)[Len(a) + k] = b[k]
  BY DEF Wire
<1>2. Stands(wire, from, a)
  <2>1. ASSUME NEW k \in 1..Len(a) PROVE wire[from + k - 1] = a[k]
    <3>1. k \in 1..Len(a \o b)
      BY <1>1
    <3> QED BY <1>1, <3>1 DEF Stands
  <2>2. from + Len(a) <= Len(wire) + 1
    BY <1>1 DEF Stands, Place
  <2> QED BY <2>1, <2>2 DEF Stands
<1>3. Stands(wire, from + Len(a), b)
  <2>1. ASSUME NEW k \in 1..Len(b) PROVE wire[from + Len(a) + k - 1] = b[k]
    <3>1. Len(a) + k \in 1..Len(a \o b)
      BY <1>1
    <3>2. wire[from + (Len(a) + k) - 1] = (a \o b)[Len(a) + k]
      BY <3>1 DEF Stands
    <3>3. from + (Len(a) + k) - 1 = from + Len(a) + k - 1
      BY <1>1 DEF Place
    <3> QED BY <1>1, <3>2, <3>3
  <2>2. from + Len(a) + Len(b) <= Len(wire) + 1
    BY <1>1 DEF Stands, Place
  <2> QED BY <2>1, <2>2 DEF Stands
<1> QED BY <1>2, <1>3

LEMMA StandsWhole ==
  ASSUME NEW wire \in Wire PROVE Stands(wire, 1, wire)
BY DEF Stands, Wire

LEMMA NothingJoined ==
  ASSUME NEW a \in Wire
  PROVE  a \o <<>> = a /\ <<>> \o a = a /\ <<>> \in Wire /\ Len(<<>>) = 0
BY DEF Wire

(* A flag is read as it was written.                                         *)
LEMMA FlagIsWire ==
  ASSUME NEW p \in Nat, NEW b \in BOOLEAN
  PROVE  Flag(p, b) \in Wire /\ Len(Flag(p, b)) = 1
BY DEF Flag, Wire

LEMMA FlagReads ==
  ASSUME NEW wire \in Wire, NEW from \in Place, NEW p \in Nat, NEW b \in BOOLEAN,
         Stands(wire, from, Flag(p, b))
  PROVE  Bit(wire, from, p) = b
<1>1. from <= Len(wire) /\ wire[from] = [p |-> p, b |-> b]
  <2>1. Len(Flag(p, b)) = 1 /\ Flag(p, b)[1] = [p |-> p, b |-> b] /\ Len(wire) \in Nat
    BY DEF Flag, Wire
  <2>2. from + 1 - 1 = from
    BY DEF Place
  <2> QED BY <2>1, <2>2 DEF Stands, Place
<1>2. wire[from].p = p /\ wire[from].b = b
  BY <1>1
<1>3. CASE b = TRUE
  <2>1. Bit(wire, from, p)
    BY <1>1, <1>2, <1>3 DEF Bit
  <2> QED BY <1>3, <2>1 DEF Bit
<1>4. CASE b = FALSE
  <2>1. ~Bit(wire, from, p)
    BY <1>1, <1>2, <1>4 DEF Bit
  <2> QED BY <1>4, <2>1 DEF Bit
<1> QED BY <1>3, <1>4
-----------------------------------------------------------------------------
(* Literals.                                                                 *)
LEMMA PowersOfTwo ==
  ASSUME NEW k \in 0..7
  PROVE  2^k \in Nat /\ 2^k > 0 /\ 2^(k + 1) = 2 * 2^k
<1>1. /\ 2^0 = 1 /\ 2^1 = 2 /\ 2^2 = 4 /\ 2^3 = 8 /\ 2^4 = 16 /\ 2^5 = 32 /\ 2^6 = 64
      /\ 2^7 = 128 /\ 2^8 = 256
  OBVIOUS
<1>2. \/ (k = 0 /\ k + 1 = 1) \/ (k = 1 /\ k + 1 = 2) \/ (k = 2 /\ k + 1 = 3) \/ (k = 3 /\ k + 1 = 4)
      \/ (k = 4 /\ k + 1 = 5) \/ (k = 5 /\ k + 1 = 6) \/ (k = 6 /\ k + 1 = 7) \/ (k = 7 /\ k + 1 = 8)
  OBVIOUS
<1>3. CASE k = 0 /\ k + 1 = 1
  BY <1>1, <1>3
<1>4. CASE k = 1 /\ k + 1 = 2
  BY <1>1, <1>4
<1>5. CASE k = 2 /\ k + 1 = 3
  BY <1>1, <1>5
<1>6. CASE k = 3 /\ k + 1 = 4
  BY <1>1, <1>6
<1>7. CASE k = 4 /\ k + 1 = 5
  BY <1>1, <1>7
<1>8. CASE k = 5 /\ k + 1 = 6
  BY <1>1, <1>8
<1>9. CASE k = 6 /\ k + 1 = 7
  BY <1>1, <1>9
<1>10. CASE k = 7 /\ k + 1 = 8
  BY <1>1, <1>10
<1> QED BY <1>2, <1>3, <1>4, <1>5, <1>6, <1>7, <1>8, <1>9, <1>10

(* A quotient by d is twice the one by 2 * d and one bit more.               *)
LEMMA QuotientBit ==
  ASSUME NEW v \in Nat, NEW d \in Nat, d > 0
  PROVE  v \div d = 2 * (v \div (2 * d)) + ((v \div d) % 2)
<1> DEFINE q == v \div d
           r == v % d
           h == q \div 2
           e == q % 2
<1>1. q \in Nat /\ r \in 0..d - 1 /\ v = d * q + r
  OBVIOUS
<1>2. h \in Nat /\ e \in 0..1 /\ q = 2 * h + e
  <2> HIDE DEF q
  <2> QED BY <1>1
<1>3. v \div (2 * d) = h
  <2> HIDE DEF q, r, h, e
  <2>1. d * q = d * (2 * h) + d * e
    BY <1>1, <1>2
  <2>2. d * (2 * h) = (2 * d) * h
    BY <1>2
  <2>3. d * e \in 0..d
    BY <1>2
  <2> DEFINE D == 2 * d
             rest == d * e + r
  <2>4. rest \in 0..D - 1 /\ D \in Nat /\ D > 0
    <3>1. e = 0 \/ e = 1
      BY <1>2
    <3>2. CASE e = 0
      BY <3>2, <1>1
    <3>3. CASE e = 1
      BY <3>3, <1>1
    <3> QED BY <3>1, <3>2, <3>3
  <2>5. v = D * h + rest
    <3>1. d * q \in Int /\ d * e \in Int /\ d * (2 * h) \in Int
      BY <1>1, <1>2
    <3> QED BY <1>1, <2>1, <2>2, <3>1
  <2>6. v \div D = h
    <3> HIDE DEF D, rest
    <3>1. h \in Nat
      BY <1>2
    <3> QED BY <2>4, <2>5, <3>1
  <2> QED BY <2>6
<1> QED BY <1>2, <1>3

Widths == 1..8

(* What one bit of a literal is: the binary digit of its place, at evens.   *)
BitOf(v, n, k) ==
  /\ 2^(n - k) \in Nat /\ 2^(n - k) > 0
  /\ Literal(v, n)[k].p = 128
  /\ Literal(v, n)[k].b \in BOOLEAN
  /\ (v \div 2^(n - k)) % 2 = 1 => Literal(v, n)[k].b = TRUE
  /\ (v \div 2^(n - k)) % 2 # 1 => Literal(v, n)[k].b = FALSE

LEMMA LiteralBit ==
  ASSUME NEW v \in Nat, NEW n \in Widths, NEW k \in 1..n
  PROVE  BitOf(v, n, k)
<1>1. n - k \in 0..7
  BY DEF Widths
<1>2. 2^(n - k) \in Nat /\ 2^(n - k) > 0
  BY <1>1, PowersOfTwo
<1>3. Literal(v, n)[k] = [p |-> 128, b |-> (v \div 2^(n - k)) % 2 = 1]
  BY DEF Literal
<1>4. CASE (v \div 2^(n - k)) % 2 = 1
  <2>1. Literal(v, n)[k] = [p |-> 128, b |-> TRUE]
    BY <1>3, <1>4
  <2> QED BY <1>2, <1>4, <2>1 DEF BitOf
<1>5. CASE ~((v \div 2^(n - k)) % 2 = 1)
  <2>1. Literal(v, n)[k] = [p |-> 128, b |-> FALSE]
    BY <1>3, <1>5
  <2> QED BY <1>2, <1>5, <2>1 DEF BitOf
<1> QED BY <1>4, <1>5

LEMMA LiteralIsWire ==
  ASSUME NEW v \in Nat, NEW n \in Widths
  PROVE  Literal(v, n) \in Wire /\ Len(Literal(v, n)) = n
<1>1. n \in Nat /\ \E F : Literal(v, n) = [k \in 1..n |-> F[k]]
  <2>1. Literal(v, n) = [k \in 1..n |-> Literal(v, n)[k]]
    BY DEF Literal
  <2> QED BY <2>1 DEF Widths
<1>2. \A k \in 1..n : Literal(v, n)[k] \in [p : Nat, b : BOOLEAN]
  <2> SUFFICES ASSUME NEW k \in 1..n PROVE Literal(v, n)[k] \in [p : Nat, b : BOOLEAN]
    OBVIOUS
  <2>1. Literal(v, n)[k].p = 128 /\ Literal(v, n)[k].b \in BOOLEAN
    <3>1. BitOf(v, n, k)
      BY LiteralBit, Zenon
    <3> QED BY <3>1 DEF BitOf
  <2>2. \E b \in BOOLEAN : Literal(v, n)[k] = [p |-> 128, b |-> b]
    <3>1. Literal(v, n)[k] = [p |-> 128, b |-> Literal(v, n)[k].b]
      BY DEF Literal
    <3> QED BY <2>1, <3>1
  <2> QED BY <2>2
<1> QED BY <1>1, <1>2 DEF Wire

LEMMA LeadingBitsDefined ==
  ASSUME NEW wire, NEW from, NEW n \in Nat
  PROVE  /\ LeadingBits(wire, from, n) =
           [k \in 0..n |-> IF k = 0 THEN 0
                           ELSE 2 * LeadingBits(wire, from, n)[k - 1] + (IF Bit(wire, from + k - 1, 128) THEN 1 ELSE 0)]
         /\ LeadingBits(wire, from, n) \in [0..n -> Nat]
<1> DEFINE digit(k) == IF Bit(wire, from + k - 1, 128) THEN 1 ELSE 0
           digits == [k \in 1..n |-> digit(k)]
           Rule(f) == f = [k \in 0..n |-> IF k = 0 THEN 0 ELSE 2 * f[k - 1] + digit(k)]
           step == [x \in (1..n) \X Nat |-> 2 * x[2] + digits[x[1]]]
           f == Iterated(n, Nat, 0, step)
<1>0. \A k \in 1..n : digits[k] = digit(k) /\ digits[k] \in Nat
  OBVIOUS
<1>1. \A k \in 1..n, x \in Nat : step[<<k, x>>] = 2 * x + digits[k] /\ 2 * x + digits[k] \in Nat
  <2> HIDE DEF digits
  <2> QED BY <1>0
<1>2. StepsFrom(f, n, Nat, 0, step)
  <2>1. \A k \in 1..n, x \in Nat : step[<<k, x>>] \in Nat
    BY <1>1
  <2>2. 0 \in Nat
    OBVIOUS
  <2> HIDE DEF step
  <2> QED BY ONLY <2>1, <2>2, StepByStep, n \in Nat
<1>3. Rule(f)
  <2>1. ASSUME NEW k \in 1..n PROVE f[k] = 2 * f[k - 1] + digit(k)
    <3> HIDE DEF step, f, digit
    <3>1. f[k - 1] \in Nat /\ f[k] = step[<<k, f[k - 1]>>]
      BY <1>2 DEF StepsFrom
    <3> HIDE DEF digits
    <3> QED BY <3>1, <1>0, <1>1
  <2> HIDE DEF step, f, digit
  <2> QED BY <1>2, <2>1 DEF StepsFrom
<1>4. \E g : Rule(g)
  <2> HIDE DEF f, Rule
  <2> QED BY <1>3
<1>5. LeadingBits(wire, from, n) = CHOOSE g : Rule(g)
  BY DEF LeadingBits
<1>6. Rule(LeadingBits(wire, from, n))
  <2> HIDE DEF Rule
  <2> QED BY <1>4, <1>5
<1>7. ASSUME NEW g, Rule(g) PROVE g \in [0..n -> Nat]
  <2> DEFINE S == {k \in Nat : k <= n => g[k] \in Nat}
  <2>1. 0 \in S
    BY <1>7
  <2>2. ASSUME NEW k \in Nat, k \in S PROVE k + 1 \in S
    <3> HIDE DEF digit
    <3> SUFFICES ASSUME k + 1 <= n PROVE g[k + 1] \in Nat
      OBVIOUS
    <3>1. k + 1 \in 0..n /\ k + 1 \in 1..n /\ k + 1 # 0 /\ (k + 1) - 1 = k /\ g[k] \in Nat
      BY <2>2
    <3>2. g[k + 1] = 2 * g[k] + digit(k + 1) /\ digit(k + 1) \in Nat
      <4>1. digits[k + 1] = digit(k + 1) /\ digits[k + 1] \in Nat
        <5> HIDE DEF digits
        <5> QED BY <1>0, <3>1
      <4> QED BY <1>7, <3>1, <4>1
    <3> HIDE DEF digit, digits
    <3> QED BY <3>1, <3>2
  <2>3. \A k \in Nat : k \in S
    <3> HIDE DEF S
    <3> QED BY <2>1, <2>2, NaturalInduction
  <2>4. \A k \in 0..n : g[k] \in Nat
    BY <2>3
  <2> HIDE DEF digit
  <2> QED BY <1>7, <2>4
<1> HIDE DEF Rule
<1>8. LeadingBits(wire, from, n) \in [0..n -> Nat]
  BY <1>6, <1>7
<1> QED BY <1>6, <1>8 DEF Rule

LEMMA LiteralReads ==
  ASSUME NEW wire \in Wire, NEW from \in Place, NEW n \in Widths, NEW v \in 0..2^n - 1,
         Stands(wire, from, Literal(v, n))
  PROVE  ReadLiteral(wire, from, n) = [v |-> v, at |-> from + n]
<1> DEFINE bits == LeadingBits(wire, from, n)
           S == {k \in Nat : k <= n => bits[k] = v \div 2^(n - k)}
<1>0. v \in Nat /\ n \in Nat /\ 2^n \in Nat /\ 2^n > 0 /\ v < 2^n
  <2>1. n - 1 \in 0..7 /\ (n - 1) + 1 = n
    BY DEF Widths
  <2>2. 2^(n - 1) \in Nat /\ 2^(n - 1) > 0 /\ 2^n = 2 * 2^(n - 1)
    BY <2>1, PowersOfTwo
  <2>3. 2^n \in Nat /\ 2^n > 0
    BY <2>2
  <2> QED BY <2>3 DEF Widths
<1>1. 0 \in S
  <2>1. bits[0] = 0
    BY <1>0, LeadingBitsDefined
  <2>2. v \div 2^n = 0 /\ n - 0 = n
    BY <1>0
  <2> QED BY <2>1, <2>2
<1>2. ASSUME NEW k \in Nat, k \in S PROVE k + 1 \in S
  <2> SUFFICES ASSUME k + 1 <= n PROVE bits[k + 1] = v \div 2^(n - (k + 1))
    OBVIOUS
  <2> DEFINE d == 2^(n - (k + 1))
             digit == IF Bit(wire, from + (k + 1) - 1, 128) THEN 1 ELSE 0
  <2>1. /\ k + 1 \in 1..n /\ k + 1 \in 0..n /\ k + 1 # 0 /\ (k + 1) - 1 = k /\ k <= n
        /\ n - (k + 1) \in 0..7 /\ (n - (k + 1)) + 1 = n - k
    BY <1>0 DEF Widths
  <2>2. d \in Nat /\ d > 0 /\ 2^(n - k) = 2 * d
    BY <2>1, PowersOfTwo
  <2>3. bits[k + 1] = 2 * bits[k] + digit
    BY <1>0, <2>1, LeadingBitsDefined
  <2>4. bits[k] = v \div (2 * d)
    BY <1>2, <2>1, <2>2
  <2>5. digit = (v \div d) % 2
    <3>1. /\ Literal(v, n)[k + 1].p = 128 /\ Literal(v, n)[k + 1].b \in BOOLEAN
          /\ (v \div d) % 2 = 1 => Literal(v, n)[k + 1].b = TRUE
          /\ (v \div d) % 2 # 1 => Literal(v, n)[k + 1].b = FALSE
      <4>1. v \in Nat /\ k + 1 \in 1..n
        BY <1>0, <2>1
      <4>2. BitOf(v, n, k + 1)
        BY <1>0, <4>1, LiteralBit, Zenon
      <4> QED BY <4>2, Zenon DEF BitOf, d
    <3>2. /\ wire[from + (k + 1) - 1] = Literal(v, n)[k + 1]
          /\ from + (k + 1) - 1 <= Len(wire)
      <4>1. Len(Literal(v, n)) = n /\ Len(wire) \in Nat
        BY <1>0, LiteralIsWire DEF Wire
      <4>2. wire[from + (k + 1) - 1] = Literal(v, n)[k + 1] /\ from + n <= Len(wire) + 1
        BY <2>1, <4>1 DEF Stands
      <4> QED BY <1>0, <2>1, <4>1, <4>2 DEF Place
    <3>3. (v \div d) % 2 \in 0..1
      <4>1. v \div d \in Nat
        BY <1>0, <2>2
      <4> HIDE DEF d
      <4> QED BY <4>1
    <3> HIDE DEF d
    <3>4. CASE (v \div d) % 2 = 1
      <4>1. Bit(wire, from + (k + 1) - 1, 128)
        BY <3>1, <3>2, <3>4 DEF Bit
      <4> QED BY <3>4, <4>1
    <3>5. CASE (v \div d) % 2 = 0
      <4>1. ~Bit(wire, from + (k + 1) - 1, 128)
        BY <3>1, <3>2, <3>5 DEF Bit
      <4> QED BY <3>5, <4>1
    <3> QED BY <3>3, <3>4, <3>5
  <2>6. v \div d = 2 * (v \div (2 * d)) + ((v \div d) % 2)
    BY <1>0, <2>2, QuotientBit
  <2> HIDE DEF digit, bits
  <2> QED BY <2>3, <2>4, <2>5, <2>6
<1>3. n \in S
  <2> HIDE DEF S
  <2> QED BY <1>0, <1>1, <1>2, NaturalInduction
<1>4. bits[n] = v
  <2>1. bits[n] = v \div 2^(n - n) /\ n - n = 0 /\ 2^0 = 1
    BY <1>0, <1>3
  <2> QED BY <1>0, <2>1
<1> QED BY <1>4 DEF ReadLiteral

Fitting(n, signed) == IF signed THEN Signed(n) ELSE Unsigned(n)

LEMMA FieldIsWire ==
  ASSUME NEW n \in Widths, NEW signed \in BOOLEAN, NEW v \in Fitting(n, signed)
  PROVE  Field(v, n, signed) \in Wire /\ Len(Field(v, n, signed)) = n + (IF signed THEN 1 ELSE 0)
<1>1. CASE signed
  <2> DEFINE m == IF v < 0 THEN -v ELSE v
             sign == v < 0
  <2>1. m \in Nat /\ sign \in BOOLEAN
    BY <1>1 DEF Fitting, Signed
  <2>2. Field(v, n, signed) = Literal(m, n) \o Flag(128, sign)
    BY <1>1 DEF Field, SignedLiteral
  <2> HIDE DEF m, sign
  <2>3. Literal(m, n) \in Wire /\ Len(Literal(m, n)) = n
    BY <2>1, LiteralIsWire
  <2>4. Flag(128, sign) \in Wire /\ Len(Flag(128, sign)) = 1
    BY <2>1, FlagIsWire
  <2>5. Literal(m, n) \o Flag(128, sign) \in Wire /\ Len(Literal(m, n) \o Flag(128, sign)) = n + 1
    <3>1. /\ Literal(m, n) \o Flag(128, sign) \in Wire
          /\ Len(Literal(m, n) \o Flag(128, sign)) = Len(Literal(m, n)) + Len(Flag(128, sign))
      BY <2>3, <2>4, Joined, Zenon
    <3> QED BY <2>3, <2>4, <3>1
  <2> QED BY <1>1, <2>2, <2>5
<1>2. CASE ~signed
  <2>1. v \in Nat /\ Field(v, n, signed) = Literal(v, n)
    BY <1>2 DEF Field, Fitting, Unsigned
  <2>2. n + 0 = n
    BY DEF Widths
  <2> QED BY <1>2, <2>1, <2>2, LiteralIsWire
<1> QED BY <1>1, <1>2

LEMMA FieldReads ==
  ASSUME NEW wire \in Wire, NEW from \in Place, NEW n \in Widths, NEW signed \in BOOLEAN,
         NEW v \in Fitting(n, signed), Stands(wire, from, Field(v, n, signed))
  PROVE  ReadField(wire, from, n, signed) = [v |-> v, at |-> from + Len(Field(v, n, signed))]
<1>1. CASE signed
  <2> DEFINE m == IF v < 0 THEN -v ELSE v
             sign == v < 0
  <2>1. m \in 0..2^n - 1 /\ m \in Nat /\ sign \in BOOLEAN
    <3>1. ASSUME NEW top, NEW x \in -top..top, top \in Int PROVE (IF x < 0 THEN -x ELSE x) \in 0..top
      BY <3>1
    <3>2. 2^n - 1 \in Int
      <4>1. n - 1 \in 0..7 /\ (n - 1) + 1 = n
        BY DEF Widths
      <4>2. 2^(n - 1) \in Nat /\ 2^n = 2 * 2^(n - 1)
        BY <4>1, PowersOfTwo
      <4> QED BY <4>2
    <3>3. v \in -(2^n - 1)..2^n - 1
      BY <1>1 DEF Fitting, Signed
    <3> QED BY <3>1, <3>2, <3>3
  <2>2. Field(v, n, signed) = Literal(m, n) \o Flag(128, sign)
    BY <1>1 DEF Field, SignedLiteral
  <2>3. v = (IF sign THEN -m ELSE m) /\ v \in Int
    BY <1>1 DEF Fitting, Signed
  <2> HIDE DEF m, sign
  <2>4. Literal(m, n) \in Wire /\ Len(Literal(m, n)) = n /\ Flag(128, sign) \in Wire
    BY <2>1, LiteralIsWire, FlagIsWire
  <2>5. Stands(wire, from, Literal(m, n)) /\ Stands(wire, from + n, Flag(128, sign))
    BY <2>2, <2>4, StandsJoined
  <2>6. ReadLiteral(wire, from, n) = [v |-> m, at |-> from + n]
    BY <2>1, <2>5, LiteralReads
  <2>7. Bit(wire, from + n, 128) = sign
    <3>1. from + n \in Place
      BY DEF Place, Widths
    <3> QED BY <2>1, <2>5, <3>1, FlagReads
  <2>8. Len(Field(v, n, signed)) = n + 1 /\ from + n + 1 = from + (n + 1)
    <3>1. Len(Field(v, n, signed)) = n + (IF signed THEN 1 ELSE 0)
      BY FieldIsWire
    <3>2. from + n + 1 = from + (n + 1)
      BY DEF Place, Widths
    <3> QED BY <1>1, <3>1, <3>2
  <2>9. ReadLiteral(wire, from, n).v = m
    BY <2>6
  <2>10. ReadField(wire, from, n, signed) = [v |-> IF Bit(wire, from + n, 128) THEN -m ELSE m, at |-> from + n + 1]
    BY <1>1, <2>9 DEF ReadField, read_signed_delta
  <2>11. (IF Bit(wire, from + n, 128) THEN -m ELSE m) = v
    BY <2>1, <2>3, <2>7
  <2> QED BY <2>8, <2>10, <2>11
<1>2. CASE ~signed
  <2>1. /\ v \in 0..2^n - 1 /\ Field(v, n, signed) = Literal(v, n)
        /\ ReadField(wire, from, n, signed) = ReadLiteral(wire, from, n)
    BY <1>2 DEF Field, Fitting, Unsigned, ReadField
  <2>2. Len(Literal(v, n)) = n
    <3>1. v \in Nat
      BY <1>2 DEF Fitting, Unsigned
    <3> QED BY <3>1, LiteralIsWire
  <2> QED BY <2>1, <2>2, LiteralReads
<1> QED BY <1>1, <1>2

-----------------------------------------------------------------------------
(* Optional fields and tables of them.                                       *)
LEMMA Farther ==
  ASSUME NEW from \in Place, NEW a \in Nat, NEW b \in Nat
  PROVE  from + a \in Place /\ (from + a) + b = from + (a + b)
BY DEF Place

LEMMA LenIsNat ==
  ASSUME NEW a \in Wire PROVE Len(a) \in Nat
BY DEF Wire

LEMMA MaybeIs ==
  ASSUME NEW S, NEW slot \in Maybe(S), slot # None
  PROVE  The(slot) \in S /\ slot = Some(The(slot))
<1>1. slot \in SUBSET S /\ \A a, b \in slot : a = b
  BY DEF Maybe
<1>2. PICK x : x \in slot
  BY DEF None
<1>3. The(slot) \in slot
  BY <1>2 DEF The
<1> QED BY <1>1, <1>3 DEF Some

LEMMA WhenIs ==
  ASSUME NEW c, NEW bits
  PROVE  (c => When(c, bits) = bits) /\ (~c => When(c, bits) = <<>>)
BY DEF When

LEMMA EntryIsWire ==
  ASSUME NEW n \in Widths, NEW signed \in BOOLEAN, NEW slot \in Maybe(Fitting(n, signed)), NEW p \in Nat
  PROVE  Entry(slot, p, n, signed) \in Wire /\ Len(Entry(slot, p, n, signed)) \in Nat
<1>1. Entry(slot, p, n, signed) \in Wire
  <2>1. Flag(p, slot # None) \in Wire
    BY FlagIsWire
  <2>2. When(slot # None, Field(The(slot), n, signed)) \in Wire
    <3>1. CASE slot # None
      <4>1. Field(The(slot), n, signed) \in Wire
        BY <3>1, MaybeIs, FieldIsWire
      <4> QED BY <3>1, <4>1 DEF When
    <3>2. CASE slot = None
      BY <3>2 DEF When, Wire
    <3> QED BY <3>1, <3>2
  <2> QED BY <2>1, <2>2, Joined DEF Entry
<1> QED BY <1>1 DEF Wire

(* The entry at from appends slot to what was read and ends where it ends.   *)
EntryIsRead(wire, from, t, slot, p, n, signed) ==
  ReadEntry(wire, [v |-> t, at |-> from], p, n, signed)
    = [v |-> Append(t, slot), at |-> from + Len(Entry(slot, p, n, signed))]

LEMMA EntryReads ==
  ASSUME NEW wire \in Wire, NEW from \in Place, NEW n \in Widths, NEW signed \in BOOLEAN,
         NEW slot \in Maybe(Fitting(n, signed)), NEW p \in Nat, NEW t,
         Stands(wire, from, Entry(slot, p, n, signed))
  PROVE  EntryIsRead(wire, from, t, slot, p, n, signed)
<1>1. Flag(p, slot # None) \in Wire /\ Len(Flag(p, slot # None)) = 1
  BY FlagIsWire
<1>2. CASE slot = None
  <2>1. Entry(slot, p, n, signed) = Flag(p, FALSE)
    <3>1. Entry(slot, p, n, signed) = Flag(p, slot # None) \o <<>>
      BY <1>2 DEF Entry, When
    <3>2. Flag(p, slot # None) \o <<>> = Flag(p, slot # None)
      BY <1>1, NothingJoined
    <3> QED BY <1>2, <3>1, <3>2
  <2>2. Bit(wire, from, p) = FALSE
    BY <2>1, FlagReads
  <2>3. Len(Entry(slot, p, n, signed)) = 1
    BY <2>1, FlagIsWire
  <2> QED BY <1>2, <2>2, <2>3 DEF ReadEntry, EntryIsRead
<1>3. CASE slot # None
  <2> DEFINE x == The(slot)
             field == Field(x, n, signed)
  <2>1. x \in Fitting(n, signed) /\ slot = Some(x)
    BY <1>3, MaybeIs
  <2>2. Entry(slot, p, n, signed) = Flag(p, TRUE) \o field
    BY <1>3 DEF Entry, When
  <2> HIDE DEF x, field
  <2>3. field \in Wire /\ Len(field) \in Nat /\ Flag(p, TRUE) \in Wire /\ Len(Flag(p, TRUE)) = 1
    <3>1. field \in Wire
      BY <2>1, FieldIsWire DEF field
    <3>2. Flag(p, TRUE) \in Wire /\ Len(Flag(p, TRUE)) = 1
      BY FlagIsWire
    <3> QED BY <3>1, <3>2, LenIsNat
  <2>4. Stands(wire, from, Flag(p, TRUE)) /\ Stands(wire, from + 1, field)
    <3>1. Stands(wire, from, Flag(p, TRUE) \o field)
      BY <2>2
    <3>2. Stands(wire, from, Flag(p, TRUE)) /\ Stands(wire, from + Len(Flag(p, TRUE)), field)
      BY <2>3, <3>1, StandsJoined
    <3> QED BY <2>3, <3>2
  <2>5. Bit(wire, from, p) = TRUE
    BY <2>4, FlagReads
  <2>6. ReadField(wire, from + 1, n, signed) = [v |-> x, at |-> (from + 1) + Len(field)]
    <3>1. from + 1 \in Place
      BY DEF Place
    <3> QED BY <2>1, <2>4, <3>1, FieldReads DEF field
  <2>7. Len(Entry(slot, p, n, signed)) = 1 + Len(field)
    BY <2>2, <2>3, Joined
  <2>8. (from + 1) + Len(field) = from + (1 + Len(field))
    BY <2>3 DEF Place
  <2>9. ReadEntry(wire, [v |-> t, at |-> from], p, n, signed)
          = [v |-> Append(t, Some(ReadField(wire, from + 1, n, signed).v)), at |-> ReadField(wire, from + 1, n, signed).at]
    BY <2>5 DEF ReadEntry
  <2>10. ReadField(wire, from + 1, n, signed).v = x /\ ReadField(wire, from + 1, n, signed).at = from + (1 + Len(field))
    BY <2>6, <2>8
  <2> QED BY <2>1, <2>7, <2>9, <2>10 DEF EntryIsRead
<1> QED BY <1>2, <1>3

LEMMA FirstEntriesDefined ==
  ASSUME NEW N \in Nat, NEW n \in Widths, NEW signed \in BOOLEAN, NEW table \in [1..N -> Maybe(Fitting(n, signed))],
         NEW probs \in Seq(Nat), Len(probs) = N
  PROVE  /\ FirstEntries(table, probs, n, signed)[0] = <<>>
         /\ \A k \in 1..N : FirstEntries(table, probs, n, signed)[k] = FirstEntries(table, probs, n, signed)[k - 1] \o Entry(table[k], probs[k], n, signed)
<1> DEFINE next(k, x) == x \o Entry(table[k], probs[k], n, signed)
           Rule(f, m) == f = [k \in 0..m |-> IF k = 0 THEN <<>> ELSE next(k, f[k - 1])]
           S == {m \in Nat : \E f : Rule(f, m)}
<1>1. 0 \in S
  <2> HIDE DEF next
  <2>1. Rule([k \in 0..0 |-> <<>>], 0)
    OBVIOUS
  <2> HIDE DEF Rule
  <2> QED BY <2>1
<1>2. ASSUME NEW m \in Nat, m \in S PROVE m + 1 \in S
  <2>1. PICK f : Rule(f, m)
    <3> HIDE DEF Rule
    <3> QED BY <1>2
  <2> DEFINE last == next(m + 1, f[m])
             g == [k \in 0..m + 1 |-> IF k = m + 1 THEN last ELSE f[k]]
  <2> HIDE DEF next, last
  <2>2. g[0] = <<>>
    BY <2>1
  <2>3. ASSUME NEW k \in 1..m + 1 PROVE g[k] = next(k, g[k - 1])
    <3>1. CASE k = m + 1
      <4>1. k - 1 = m /\ g[m] = f[m] /\ g[k] = last
        BY <3>1
      <4> HIDE DEF g
      <4> QED BY <4>1, <3>1 DEF last
    <3>2. CASE k # m + 1
      <4>1. k \in 1..m /\ g[k] = f[k] /\ g[k - 1] = f[k - 1]
        BY <3>2
      <4>2. k \in 0..m /\ k # 0
        BY <4>1
      <4>3. f[k] = next(k, f[k - 1])
        BY <2>1, <4>2
      <4> HIDE DEF g
      <4> QED BY <4>1, <4>3
    <3> QED BY <3>1, <3>2
  <2>4. g = [k \in 0..m + 1 |-> g[k]]
    OBVIOUS
  <2>5. \A k \in 0..m + 1 : k = 0 \/ k \in 1..m + 1
    OBVIOUS
  <2> HIDE DEF g
  <2>6. Rule(g, m + 1)
    BY <2>2, <2>3, <2>4, <2>5
  <2> HIDE DEF Rule
  <2> QED BY <2>6
<1>3. N \in S
  <2> HIDE DEF S
  <2> QED BY <1>1, <1>2, NaturalInduction
<1>4. FirstEntries(table, probs, n, signed) = CHOOSE f : Rule(f, N)
  <2>1. Len(table) = N
    OBVIOUS
  <2> QED BY <2>1 DEF FirstEntries
<1> HIDE DEF Rule
<1>5. Rule(FirstEntries(table, probs, n, signed), N)
  BY <1>3, <1>4
<1>6. FirstEntries(table, probs, n, signed) = [k \in 0..N |-> IF k = 0 THEN <<>> ELSE next(k, FirstEntries(table, probs, n, signed)[k - 1])]
  BY <1>5 DEF Rule
<1> HIDE DEF next
<1>7. FirstEntries(table, probs, n, signed)[0] = <<>>
  BY <1>6
<1>8. \A k \in 1..N : FirstEntries(table, probs, n, signed)[k] = next(k, FirstEntries(table, probs, n, signed)[k - 1])
  <2>1. \A k \in 1..N : k \in 0..N /\ k # 0
    OBVIOUS
  <2> QED BY <1>6, <2>1
<1> QED BY <1>7, <1>8 DEF next

(* The entries read one after the other.                                     *)
Successive(read, N, probs, wire, start, n, signed) ==
  /\ read[0] = [v |-> <<>>, at |-> start]
  /\ \A k \in 1..N : read[k] = ReadEntry(wire, read[k - 1], probs[k], n, signed)

LEMMA EntriesReadDefined ==
  ASSUME NEW N \in Nat, NEW n \in Widths, NEW signed \in BOOLEAN, NEW probs \in Seq(Nat), Len(probs) = N,
         NEW wire \in Wire, NEW start \in Place
  PROVE  Successive(EntriesRead(wire, start, probs, n, signed), N, probs, wire, start, n, signed)
<1> DEFINE first == [v |-> <<>>, at |-> start]
           next(k, x) == ReadEntry(wire, x, probs[k], n, signed)
           Rule(f, m) == f = [k \in 0..m |-> IF k = 0 THEN first ELSE next(k, f[k - 1])]
           S == {m \in Nat : \E f : Rule(f, m)}
<1>1. 0 \in S
  <2> HIDE DEF next, first
  <2>1. Rule([k \in 0..0 |-> first], 0)
    OBVIOUS
  <2> HIDE DEF Rule
  <2> QED BY <2>1
<1>2. ASSUME NEW m \in Nat, m \in S PROVE m + 1 \in S
  <2>1. PICK f : Rule(f, m)
    <3> HIDE DEF Rule
    <3> QED BY <1>2
  <2> DEFINE last == next(m + 1, f[m])
             g == [k \in 0..m + 1 |-> IF k = m + 1 THEN last ELSE f[k]]
  <2> HIDE DEF next, last, first
  <2>2. g[0] = first
    BY <2>1
  <2>3. ASSUME NEW k \in 1..m + 1 PROVE g[k] = next(k, g[k - 1])
    <3>1. CASE k = m + 1
      <4>1. k - 1 = m /\ g[m] = f[m] /\ g[k] = last
        BY <3>1
      <4> HIDE DEF g
      <4> QED BY <4>1, <3>1 DEF last
    <3>2. CASE k # m + 1
      <4>1. k \in 1..m /\ g[k] = f[k] /\ g[k - 1] = f[k - 1]
        BY <3>2
      <4>2. k \in 0..m /\ k # 0
        BY <4>1
      <4>3. f[k] = next(k, f[k - 1])
        BY <2>1, <4>2
      <4> HIDE DEF g
      <4> QED BY <4>1, <4>3
    <3> QED BY <3>1, <3>2
  <2>4. g = [k \in 0..m + 1 |-> g[k]]
    OBVIOUS
  <2>5. \A k \in 0..m + 1 : k = 0 \/ k \in 1..m + 1
    OBVIOUS
  <2> HIDE DEF g
  <2>6. Rule(g, m + 1)
    BY <2>2, <2>3, <2>4, <2>5
  <2> HIDE DEF Rule
  <2> QED BY <2>6
<1>3. N \in S
  <2> HIDE DEF S
  <2> QED BY <1>1, <1>2, NaturalInduction
<1>4. EntriesRead(wire, start, probs, n, signed) = CHOOSE f : Rule(f, N)
  BY DEF EntriesRead
<1> HIDE DEF Rule
<1>5. Rule(EntriesRead(wire, start, probs, n, signed), N)
  BY <1>3, <1>4
<1>6. EntriesRead(wire, start, probs, n, signed) = [k \in 0..N |-> IF k = 0 THEN first ELSE next(k, EntriesRead(wire, start, probs, n, signed)[k - 1])]
  BY <1>5 DEF Rule
<1> HIDE DEF next, first
<1>7. EntriesRead(wire, start, probs, n, signed)[0] = first
  BY <1>6
<1>8. \A k \in 1..N : EntriesRead(wire, start, probs, n, signed)[k] = next(k, EntriesRead(wire, start, probs, n, signed)[k - 1])
  <2>1. \A k \in 1..N : k \in 0..N /\ k # 0
    OBVIOUS
  <2> QED BY <1>6, <2>1
<1> QED BY <1>7, <1>8 DEF next, first, Successive

LEMMA TableIsWire ==
  ASSUME NEW N \in Nat, NEW n \in Widths, NEW signed \in BOOLEAN, NEW table \in [1..N -> Maybe(Fitting(n, signed))],
         NEW probs \in Seq(Nat), Len(probs) = N
  PROVE  /\ Len(table) = N
         /\ FirstEntries(table, probs, n, signed)[0] = <<>>
         /\ \A k \in 1..N : FirstEntries(table, probs, n, signed)[k]
                              = FirstEntries(table, probs, n, signed)[k - 1] \o Entry(table[k], probs[k], n, signed)
         /\ \A k \in 0..N : FirstEntries(table, probs, n, signed)[k] \in Wire
<1> DEFINE upto == FirstEntries(table, probs, n, signed)
           entry(k) == Entry(table[k], probs[k], n, signed)
           S == {k \in Nat : k <= N => upto[k] \in Wire}
<1>1. Len(table) = N
  OBVIOUS
<1>3. \A k \in 1..N : entry(k) \in Wire
  <2> SUFFICES ASSUME NEW k \in 1..N PROVE entry(k) \in Wire
    OBVIOUS
  <2>1. table[k] \in Maybe(Fitting(n, signed)) /\ probs[k] \in Nat
    OBVIOUS
  <2> QED BY <2>1, EntryIsWire
<1> HIDE DEF upto, entry
<1>4. upto[0] = <<>> /\ \A k \in 1..N : upto[k] = upto[k - 1] \o entry(k)
  <2>1. N \in Nat
    OBVIOUS
  <2>2. upto[0] = <<>>
    BY <1>1, <2>1, FirstEntriesDefined DEF upto
  <2>3. \A k \in 1..N : upto[k] = upto[k - 1] \o entry(k)
    BY <1>1, <2>1, FirstEntriesDefined DEF upto, entry
  <2> QED BY <2>2, <2>3
<1>5. 0 \in S
  <2>1. <<>> \in Wire
    BY DEF Wire
  <2> QED BY <1>4, <2>1
<1>6. ASSUME NEW k \in Nat, k \in S PROVE k + 1 \in S
  <2> SUFFICES ASSUME k + 1 <= N PROVE upto[k + 1] \in Wire
    OBVIOUS
  <2>1. k + 1 \in 1..N /\ (k + 1) - 1 = k /\ upto[k] \in Wire
    BY <1>6
  <2>2. upto[k + 1] = upto[k] \o entry(k + 1) /\ entry(k + 1) \in Wire
    BY <1>3, <1>4, <2>1
  <2> HIDE DEF S
  <2> QED BY <2>1, <2>2, Joined
<1>7. \A k \in Nat : k \in S
  <2> HIDE DEF S
  <2> QED BY <1>5, <1>6, NaturalInduction
<1>8. \A k \in 0..N : upto[k] \in Wire
  BY <1>7
<1> QED BY <1>1, <1>4, <1>8 DEF upto, entry

LEMMA OptionalsIsWire ==
  ASSUME NEW N \in Nat, NEW n \in Widths, NEW signed \in BOOLEAN, NEW table \in [1..N -> Maybe(Fitting(n, signed))],
         NEW probs \in Seq(Nat), Len(probs) = N
  PROVE  Optionals(table, probs, n, signed) \in Wire
<1>1. Len(table) = N /\ \A k \in 0..N : FirstEntries(table, probs, n, signed)[k] \in Wire
  BY TableIsWire
<1> QED BY <1>1 DEF Optionals

LEMMA OptionalsReads ==
  ASSUME NEW wire \in Wire, NEW start \in Place, NEW N \in Nat, NEW n \in Widths, NEW signed \in BOOLEAN,
         NEW table \in [1..N -> Maybe(Fitting(n, signed))], NEW probs \in Seq(Nat), Len(probs) = N,
         Stands(wire, start, Optionals(table, probs, n, signed))
  PROVE  ReadOptionals(wire, start, probs, n, signed)
           = [v |-> table, at |-> start + Len(Optionals(table, probs, n, signed))]
<1> DEFINE upto == FirstEntries(table, probs, n, signed)
           read == EntriesRead(wire, start, probs, n, signed)
           entry(k) == Entry(table[k], probs[k], n, signed)
           upper(k) == [j \in 1..k |-> table[j]]
           S == {k \in Nat : k <= N => Stands(wire, start, upto[N - k])}
           T == {k \in Nat : k <= N => read[k] = [v |-> upper(k), at |-> start + Len(upto[k])]}
<1>1. /\ Len(table) = N /\ upto[0] = <<>>
      /\ \A k \in 1..N : upto[k] = upto[k - 1] \o entry(k)
      /\ \A k \in 0..N : upto[k] \in Wire
  BY TableIsWire, ZenonT(60)
<1>2. \A k \in 1..N : table[k] \in Maybe(Fitting(n, signed)) /\ probs[k] \in Nat
  OBVIOUS
<1>3. \A k \in 1..N : entry(k) \in Wire
  BY <1>2, EntryIsWire
<1>4. Successive(read, N, probs, wire, start, n, signed)
  BY EntriesReadDefined
<1>5. Stands(wire, start, upto[N])
  BY <1>1 DEF Optionals
<1> HIDE DEF upto, entry
<1>6. \A k \in 0..N : Stands(wire, start, upto[k])
  <2>1. 0 \in S
    BY <1>5
  <2>2. ASSUME NEW k \in Nat, k \in S PROVE k + 1 \in S
    <3> SUFFICES ASSUME k + 1 <= N PROVE Stands(wire, start, upto[N - (k + 1)])
      OBVIOUS
    <3>1. N - k \in 1..N /\ (N - k) - 1 = N - (k + 1) /\ N - (k + 1) \in 0..N
      OBVIOUS
    <3>2. upto[N - k] = upto[N - (k + 1)] \o entry(N - k) /\ upto[N - (k + 1)] \in Wire /\ entry(N - k) \in Wire
      BY <1>1, <1>3, <3>1
    <3>3. Stands(wire, start, upto[N - (k + 1)] \o entry(N - k))
      <4>1. N - k = N - k /\ k <= N /\ Stands(wire, start, upto[N - k])
        BY <2>2
      <4> QED BY <3>2, <4>1
    <3> QED BY <3>2, <3>3, StandsJoined
  <2>3. \A k \in Nat : k \in S
    <3> HIDE DEF S
    <3> QED BY <2>1, <2>2, NaturalInduction
  <2> SUFFICES ASSUME NEW k \in 0..N PROVE Stands(wire, start, upto[k])
    OBVIOUS
  <2>4. N - k \in Nat /\ N - k \in S /\ N - k <= N /\ N - (N - k) = k
    <3>1. N - k \in Nat
      OBVIOUS
    <3> HIDE DEF S
    <3> QED BY <2>3, <3>1
  <2> QED BY <2>4
<1>7. ASSUME NEW k \in 1..N
      PROVE  /\ Stands(wire, start + Len(upto[k - 1]), entry(k)) /\ start + Len(upto[k - 1]) \in Place
             /\ Len(upto[k]) = Len(upto[k - 1]) + Len(entry(k)) /\ Len(upto[k - 1]) \in Nat /\ Len(entry(k)) \in Nat
  <2>1. k \in 0..N /\ k - 1 \in 0..N
    OBVIOUS
  <2>2. upto[k] = upto[k - 1] \o entry(k) /\ upto[k - 1] \in Wire /\ entry(k) \in Wire
    BY <1>1, <1>3, <2>1
  <2>3. Stands(wire, start, upto[k - 1] \o entry(k))
    BY <1>6, <2>1, <2>2
  <2>4. Stands(wire, start + Len(upto[k - 1]), entry(k))
    BY <2>2, <2>3, StandsJoined
  <2>5. Len(upto[k]) = Len(upto[k - 1]) + Len(entry(k))
    BY <2>2, Joined
  <2>6. Len(upto[k - 1]) \in Nat /\ Len(entry(k)) \in Nat
    BY <2>2, LenIsNat
  <2>7. start + Len(upto[k - 1]) \in Place
    BY <2>6 DEF Place
  <2> QED BY <2>4, <2>5, <2>6, <2>7
<1> HIDE DEF read
<1>8. 0 \in T
  <2>1. read[0] = [v |-> <<>>, at |-> start]
    BY <1>4 DEF Successive
  <2>2. Len(upto[0]) = 0 /\ start + 0 = start
    BY <1>1 DEF Place
  <2>3. upper(0) = <<>>
    OBVIOUS
  <2> HIDE DEF upper
  <2> QED BY <2>1, <2>2, <2>3
<1>9. ASSUME NEW k \in Nat, k \in T PROVE k + 1 \in T
  <2> SUFFICES ASSUME k + 1 <= N PROVE read[k + 1] = [v |-> upper(k + 1), at |-> start + Len(upto[k + 1])]
    <3> HIDE DEF upper
    <3> QED OBVIOUS
  <2>1. k + 1 \in 1..N /\ k + 1 \in 0..N /\ k + 1 # 0 /\ (k + 1) - 1 = k /\ k <= N
    OBVIOUS
  <2> DEFINE from == start + Len(upto[k])
  <2>2. read[k + 1] = ReadEntry(wire, [v |-> upper(k), at |-> from], probs[k + 1], n, signed)
    <3>1. read[k + 1] = ReadEntry(wire, read[k], probs[k + 1], n, signed)
      BY <1>4, <2>1 DEF Successive
    <3>2. read[k] = [v |-> upper(k), at |-> from]
      BY <1>9, <2>1
    <3> QED BY <3>1, <3>2
  <2>3. /\ Stands(wire, from, entry(k + 1)) /\ from \in Place
        /\ Len(upto[k + 1]) = Len(upto[k]) + Len(entry(k + 1)) /\ Len(upto[k]) \in Nat /\ Len(entry(k + 1)) \in Nat
    BY <1>7, <2>1
  <2>4. Append(upper(k), table[k + 1]) = upper(k + 1)
    OBVIOUS
  <2>5. from + Len(entry(k + 1)) = start + Len(upto[k + 1])
    <3>1. (start + Len(upto[k])) + Len(entry(k + 1)) = start + (Len(upto[k]) + Len(entry(k + 1)))
      BY <2>3, Farther
    <3>2. Len(upto[k + 1]) = Len(upto[k]) + Len(entry(k + 1))
      BY <2>3
    <3> QED BY <3>1, <3>2
  <2> HIDE DEF from, upper
  <2>6. ReadEntry(wire, [v |-> upper(k), at |-> from], probs[k + 1], n, signed)
          = [v |-> Append(upper(k), table[k + 1]), at |-> from + Len(Entry(table[k + 1], probs[k + 1], n, signed))]
    <3>1. EntryIsRead(wire, from, upper(k), table[k + 1], probs[k + 1], n, signed)
      <4>1. table[k + 1] \in Maybe(Fitting(n, signed)) /\ probs[k + 1] \in Nat
        BY <1>2, <2>1
      <4>2. Stands(wire, from, Entry(table[k + 1], probs[k + 1], n, signed)) /\ from \in Place
        BY <2>3 DEF entry
      <4> QED BY <4>1, <4>2, EntryReads, Zenon
    <3> QED BY <3>1 DEF EntryIsRead
  <2> QED BY <2>2, <2>4, <2>5, <2>6 DEF entry
<1>10. N \in T
  <2> HIDE DEF T
  <2> QED BY <1>8, <1>9, NaturalInduction
<1>11. upper(N) = table
  OBVIOUS
<1> HIDE DEF upper
<1> QED BY <1>1, <1>10, <1>11 DEF ReadOptionals, Optionals, read, upto

-----------------------------------------------------------------------------
(* The groups of fields, one after the other.                                *)
LEMMA EvenProbs ==
  ASSUME NEW n \in Nat PROVE Even(n) \in Seq(Nat) /\ Len(Even(n)) = n
BY DEF Even

LEMMA Fits ==
  ASSUME NEW n \in Nat PROVE Fitting(n, TRUE) = Signed(n) /\ Fitting(n, FALSE) = Unsigned(n)
BY DEF Fitting

(* Two flags in front.                                                        *)
LEMMA TwoFlags ==
  ASSUME NEW wire \in Wire, NEW from \in Place, NEW b \in BOOLEAN, NEW c \in BOOLEAN
  PROVE  /\ Flag(128, b) \o Flag(128, c) \in Wire
         /\ Len(Flag(128, b) \o Flag(128, c)) = 2
         /\ Stands(wire, from, Flag(128, b) \o Flag(128, c)) =>
              Bit(wire, from, 128) = b /\ Bit(wire, from + 1, 128) = c
<1> DEFINE x == Flag(128, b)
           y == Flag(128, c)
<1>1. x \in Wire /\ Len(x) = 1
  BY FlagIsWire
<1>2. y \in Wire /\ Len(y) = 1
  BY FlagIsWire
<1>3. x \o y \in Wire /\ Len(x \o y) = 2
  <2> HIDE DEF x, y
  <2>1. x \o y \in Wire /\ Len(x \o y) = Len(x) + Len(y)
    BY <1>1, <1>2, Joined
  <2> QED BY <1>1, <1>2, <2>1
<1>4. ASSUME Stands(wire, from, Flag(128, b) \o Flag(128, c))
      PROVE  Bit(wire, from, 128) = b /\ Bit(wire, from + 1, 128) = c
  <2>1. Stands(wire, from, Flag(128, b)) /\ Stands(wire, from + Len(Flag(128, b)), Flag(128, c))
    BY <1>1, <1>2, <1>4, StandsJoined
  <2>2. from + 1 \in Place /\ Stands(wire, from + 1, Flag(128, c))
    BY <1>1, <2>1, Farther
  <2>3. Bit(wire, from, 128) = b
    BY <2>1, FlagReads
  <2>4. Bit(wire, from + 1, 128) = c
    BY <2>2, FlagReads
  <2> QED BY <2>3, <2>4
<1> QED BY <1>3, <1>4

(* What Stands in a concatenation, with the places and lengths it needs.      *)
Follows(wire, from, a, b) ==
  /\ Stands(wire, from, a) /\ Stands(wire, from + Len(a), b)
  /\ from + Len(a) \in Place
  /\ from + Len(a \o b) = (from + Len(a)) + Len(b)

LEMMA Following ==
  ASSUME NEW wire \in Wire, NEW from \in Place, NEW a \in Wire, NEW b \in Wire,
         Stands(wire, from, a \o b)
  PROVE  Follows(wire, from, a, b)
<1>1. Stands(wire, from, a) /\ Stands(wire, from + Len(a), b)
  BY StandsJoined
<1>2. Len(a) \in Nat /\ Len(b) \in Nat
  BY LenIsNat
<1>3. Len(a \o b) = Len(a) + Len(b)
  BY Joined
<1>4. from + Len(a) \in Place /\ (from + Len(a)) + Len(b) = from + (Len(a) + Len(b))
  BY <1>2, Farther
<1> QED BY <1>1, <1>3, <1>4 DEF Follows

LEMMA SpaceReads ==
  ASSUME NEW wire \in Wire, NEW from \in Place, NEW space \in Maybe(BOOLEAN \X BOOLEAN)
  PROVE  /\ SpaceSyntax(space) \in Wire
         /\ Len(SpaceSyntax(space)) = IF space = None THEN 0 ELSE 2
         /\ Stands(wire, from, SpaceSyntax(space)) /\ space # None =>
              Some(<<Bit(wire, from, 128), Bit(wire, from + 1, 128)>>) = space
<1>1. CASE space = None
  <2>1. SpaceSyntax(space) = <<>>
    BY <1>1 DEF SpaceSyntax, When
  <2> QED BY <1>1, <2>1 DEF Wire
<1>2. CASE space # None
  <2>1. The(space) \in BOOLEAN \X BOOLEAN /\ space = Some(The(space))
    BY <1>2, MaybeIs
  <2>2. PICK b \in BOOLEAN, c \in BOOLEAN : The(space) = <<b, c>>
    BY <2>1
  <2>3. The(space)[1] = b /\ The(space)[2] = c
    BY <2>2
  <2>4. SpaceSyntax(space) = Flag(128, b) \o Flag(128, c)
    BY <1>2, <2>3 DEF SpaceSyntax, When
  <2>5. SpaceSyntax(space) \in Wire /\ Len(SpaceSyntax(space)) = 2
    BY <2>4, TwoFlags
  <2>6. ASSUME Stands(wire, from, SpaceSyntax(space))
        PROVE  Some(<<Bit(wire, from, 128), Bit(wire, from + 1, 128)>>) = space
    <3>1. Bit(wire, from, 128) = b /\ Bit(wire, from + 1, 128) = c
      BY <2>4, <2>6, TwoFlags
    <3> QED BY <2>1, <2>2, <3>1
  <2> QED BY <1>2, <2>5, <2>6
<1> QED BY <1>1, <1>2

LEMMA WhenIsWire ==
  ASSUME NEW c \in BOOLEAN, NEW bits \in Wire
  PROVE  When(c, bits) \in Wire
<1>1. <<>> \in Wire
  BY DEF Wire
<1> QED BY <1>1 DEF When

ThreeFlagsRead(wire, from, a, b, c) ==
  /\ Flag(128, a) \o Flag(128, b) \o Flag(128, c) \in Wire
  /\ Len(Flag(128, a) \o Flag(128, b) \o Flag(128, c)) = 3
  /\ Stands(wire, from, Flag(128, a) \o Flag(128, b) \o Flag(128, c)) =>
       Bit(wire, from, 128) = a /\ Bit(wire, from + 1, 128) = b /\ Bit(wire, from + 2, 128) = c

LEMMA ThreeFlags ==
  ASSUME NEW wire \in Wire, NEW from \in Place, NEW a \in BOOLEAN, NEW b \in BOOLEAN, NEW c \in BOOLEAN
  PROVE  ThreeFlagsRead(wire, from, a, b, c)
<1> DEFINE x == Flag(128, a) \o Flag(128, b)
           y == Flag(128, c)
<1>1. x \in Wire /\ Len(x) = 2
  BY TwoFlags
<1>2. y \in Wire /\ Len(y) = 1
  BY FlagIsWire
<1>3. Stands(wire, from, x) => Bit(wire, from, 128) = a /\ Bit(wire, from + 1, 128) = b
  BY TwoFlags
<1>4. ASSUME from + 2 \in Place PROVE Stands(wire, from + 2, y) => Bit(wire, from + 2, 128) = c
  BY <1>4, FlagReads
<1> HIDE DEF x, y
<1>5. x \o y \in Wire /\ Len(x \o y) = 3
  <2>1. x \o y \in Wire /\ Len(x \o y) = Len(x) + Len(y)
    BY <1>1, <1>2, Joined
  <2> QED BY <1>1, <1>2, <2>1
<1>6. ASSUME Stands(wire, from, x \o y)
      PROVE  Bit(wire, from, 128) = a /\ Bit(wire, from + 1, 128) = b /\ Bit(wire, from + 2, 128) = c
  <2>1. Stands(wire, from, x) /\ Stands(wire, from + 2, y) /\ from + 2 \in Place
    <3>1. Stands(wire, from, x) /\ Stands(wire, from + Len(x), y) /\ from + Len(x) \in Place
      BY <1>1, <1>2, <1>6, Following DEF Follows
    <3> QED BY <1>1, <3>1
  <2> QED BY <1>3, <1>4, <2>1
<1> QED BY <1>5, <1>6 DEF x, y, ThreeFlagsRead

Layers ==
  [map : BOOLEAN, data : BOOLEAN, absolute : BOOLEAN, quantizer : [1..4 -> Maybe(Signed(7))],
   loop_filter : [1..4 -> Maybe(Signed(6))], probs : [1..3 -> Maybe(Unsigned(8))]]
LayerLeftOut(s) ==
  /\ ~s.data => ~s.absolute /\ s.quantizer = NoneOf(4) /\ s.loop_filter = NoneOf(4)
  /\ ~s.map => s.probs = NoneOf(3)

(* A table of optional fields is read as it was written.                     *)
Reads(wire, from, table, probs, n, signed) ==
  /\ Optionals(table, probs, n, signed) \in Wire
  /\ Stands(wire, from, Optionals(table, probs, n, signed)) =>
       ReadOptionals(wire, from, probs, n, signed)
         = [v |-> table, at |-> from + Len(Optionals(table, probs, n, signed))]

LEMMA TableReads ==
  ASSUME NEW wire \in Wire, NEW from \in Place, NEW N \in Nat, NEW n \in Widths, NEW signed \in BOOLEAN,
         NEW table \in [1..N -> Maybe(Fitting(n, signed))], NEW probs \in Seq(Nat), Len(probs) = N
  PROVE  Reads(wire, from, table, probs, n, signed)
<1>1. Optionals(table, probs, n, signed) \in Wire
  BY OptionalsIsWire
<1>2. ASSUME Stands(wire, from, Optionals(table, probs, n, signed))
      PROVE  ReadOptionals(wire, from, probs, n, signed)
               = [v |-> table, at |-> from + Len(Optionals(table, probs, n, signed))]
  BY <1>2, OptionalsReads
<1> QED BY <1>1, <1>2 DEF Reads

LEMMA SegmentTables ==
  ASSUME NEW wire \in Wire, NEW from \in Place
  PROVE  /\ \A q \in [1..4 -> Maybe(Signed(7))] : Reads(wire, from, q, Even(4), 7, TRUE)
         /\ \A q \in [1..4 -> Maybe(Signed(6))] : Reads(wire, from, q, Even(4), 6, TRUE)
         /\ \A q \in [1..3 -> Maybe(Unsigned(8))] : Reads(wire, from, q, Even(3), 8, FALSE)
<1>1. 6 \in Widths /\ 7 \in Widths /\ 8 \in Widths /\ TRUE \in BOOLEAN /\ FALSE \in BOOLEAN
  BY DEF Widths
<1>2. Even(4) \in Seq(Nat) /\ Len(Even(4)) = 4 /\ Even(3) \in Seq(Nat) /\ Len(Even(3)) = 3
  <2>1. Even(4) \in Seq(Nat) /\ Len(Even(4)) = 4
    BY EvenProbs
  <2>2. Even(3) \in Seq(Nat) /\ Len(Even(3)) = 3
    BY EvenProbs
  <2> QED BY <2>1, <2>2
<1>3. Fitting(7, TRUE) = Signed(7) /\ Fitting(6, TRUE) = Signed(6) /\ Fitting(8, FALSE) = Unsigned(8)
  BY DEF Fitting
<1>4. ASSUME NEW q \in [1..4 -> Maybe(Signed(7))] PROVE Reads(wire, from, q, Even(4), 7, TRUE)
  <2>1. q \in [1..4 -> Maybe(Fitting(7, TRUE))]
    BY <1>3
  <2> QED BY <1>1, <1>2, <2>1, TableReads
<1>5. ASSUME NEW q \in [1..4 -> Maybe(Signed(6))] PROVE Reads(wire, from, q, Even(4), 6, TRUE)
  <2>1. q \in [1..4 -> Maybe(Fitting(6, TRUE))]
    BY <1>3
  <2> QED BY <1>1, <1>2, <2>1, TableReads
<1>6. ASSUME NEW q \in [1..3 -> Maybe(Unsigned(8))] PROVE Reads(wire, from, q, Even(3), 8, FALSE)
  <2>1. q \in [1..3 -> Maybe(Fitting(8, FALSE))]
    BY <1>3
  <2> QED BY <1>1, <1>2, <2>1, TableReads
<1> QED BY <1>4, <1>5, <1>6

LayerSyntax(s) ==
  Flag(128, TRUE) \o Flag(128, s.map) \o Flag(128, s.data)
  \o When(s.data, Flag(128, s.absolute)
                  \o Optionals(s.quantizer, Even(4), 7, TRUE) \o Optionals(s.loop_filter, Even(4), 6, TRUE))
  \o When(s.map, Optionals(s.probs, Even(3), 8, FALSE))

LEMMA LayerReads ==
  ASSUME NEW wire \in Wire, NEW from \in Place, NEW s \in Layers, LayerLeftOut(s)
  PROVE  /\ LayerSyntax(s) \in Wire
         /\ Stands(wire, from, LayerSyntax(s)) =>
              /\ Bit(wire, from, 128) = TRUE
              /\ parse_update_segmentation(wire, from + 1) = [v |-> s, at |-> from + Len(LayerSyntax(s))]
<1> DEFINE H == Flag(128, TRUE) \o Flag(128, s.map) \o Flag(128, s.data)
           A == Flag(128, s.absolute)
           Q == Optionals(s.quantizer, Even(4), 7, TRUE)
           L == Optionals(s.loop_filter, Even(4), 6, TRUE)
           D == When(s.data, (A \o Q) \o L)
           P == Optionals(s.probs, Even(3), 8, FALSE)
           M == When(s.map, P)
<1>1. /\ s.map \in BOOLEAN /\ s.data \in BOOLEAN /\ s.absolute \in BOOLEAN
      /\ s.quantizer \in [1..4 -> Maybe(Signed(7))] /\ s.loop_filter \in [1..4 -> Maybe(Signed(6))]
      /\ s.probs \in [1..3 -> Maybe(Unsigned(8))]
  BY DEF Layers
<1>0. ThreeFlagsRead(wire, from, TRUE, s.map, s.data)
  BY <1>1, ThreeFlags
<1>2. H \in Wire /\ Len(H) = 3 /\ A \in Wire /\ Len(A) = 1
  <2>1. H \in Wire /\ Len(H) = 3
    BY <1>0 DEF ThreeFlagsRead
  <2>2. A \in Wire /\ Len(A) = 1
    BY <1>1, FlagIsWire
  <2> QED BY <2>1, <2>2
<1>3. Q \in Wire /\ L \in Wire /\ P \in Wire
  <2>1. 1 \in Place
    BY DEF Place
  <2>2. Reads(wire, 1, s.quantizer, Even(4), 7, TRUE)
    BY <1>1, <2>1, SegmentTables
  <2>3. Reads(wire, 1, s.loop_filter, Even(4), 6, TRUE)
    BY <1>1, <2>1, SegmentTables
  <2>4. Reads(wire, 1, s.probs, Even(3), 8, FALSE)
    BY <1>1, <2>1, SegmentTables
  <2> QED BY <2>2, <2>3, <2>4 DEF Reads
<1>4. LayerSyntax(s) = (H \o D) \o M
  BY DEF LayerSyntax
<1>5. ASSUME Stands(wire, from, H)
      PROVE  Bit(wire, from, 128) = TRUE /\ Bit(wire, from + 1, 128) = s.map /\ Bit(wire, from + 2, 128) = s.data
  BY <1>0, <1>5 DEF ThreeFlagsRead
<1>6. ASSUME NEW x \in Place, Stands(wire, x, A) PROVE Bit(wire, x, 128) = s.absolute
  BY <1>1, <1>6, FlagReads
<1>7. ASSUME NEW x \in Place, Stands(wire, x, Q)
      PROVE  ReadOptionals(wire, x, Even(4), 7, TRUE) = [v |-> s.quantizer, at |-> x + Len(Q)]
  <2>1. Reads(wire, x, s.quantizer, Even(4), 7, TRUE)
    BY <1>1, SegmentTables
  <2> QED BY <1>7, <2>1 DEF Reads
<1>8. ASSUME NEW x \in Place, Stands(wire, x, L)
      PROVE  ReadOptionals(wire, x, Even(4), 6, TRUE) = [v |-> s.loop_filter, at |-> x + Len(L)]
  <2>1. Reads(wire, x, s.loop_filter, Even(4), 6, TRUE)
    BY <1>1, SegmentTables
  <2> QED BY <1>8, <2>1 DEF Reads
<1>9. ASSUME NEW x \in Place, Stands(wire, x, P)
      PROVE  ReadOptionals(wire, x, Even(3), 8, FALSE) = [v |-> s.probs, at |-> x + Len(P)]
  <2>1. Reads(wire, x, s.probs, Even(3), 8, FALSE)
    BY <1>1, SegmentTables
  <2> QED BY <1>9, <2>1 DEF Reads
<1>10. (A \o Q) \in Wire /\ ((A \o Q) \o L) \in Wire
  <2> HIDE DEF A, Q, L
  <2> QED BY <1>2, <1>3, Joined
<1>11. D \in Wire /\ M \in Wire
  <2> HIDE DEF A, Q, L, P
  <2> QED BY <1>1, <1>3, <1>10, WhenIsWire
<1>12. (H \o D) \in Wire /\ ((H \o D) \o M) \in Wire
  <2> HIDE DEF H, D, M
  <2> QED BY <1>2, <1>11, Joined
<1>13. ASSUME Stands(wire, from, LayerSyntax(s))
       PROVE  /\ Bit(wire, from, 128) = TRUE
              /\ parse_update_segmentation(wire, from + 1) = [v |-> s, at |-> from + Len(LayerSyntax(s))]
  <2> DEFINE at3 == from + 3
             after == at3 + Len(D)
             q == ReadOptionals(wire, (from + 1) + 3, Even(4), 7, TRUE)
             l == ReadOptionals(wire, q.at, Even(4), 6, TRUE)
             features == IF Bit(wire, (from + 1) + 1, 128) THEN l.at ELSE (from + 1) + 2
             probs == ReadOptionals(wire, features, Even(3), 8, FALSE)
  <2>1. /\ Stands(wire, from, H) /\ Stands(wire, at3, D) /\ Stands(wire, after, M)
        /\ at3 \in Place /\ after \in Place
        /\ from + Len(LayerSyntax(s)) = after + Len(M)
    <3> HIDE DEF H, D, M
    <3>1. Stands(wire, from, (H \o D) \o M)
      BY <1>4, <1>13
    <3>2. /\ Stands(wire, from, H \o D) /\ Stands(wire, from + Len(H \o D), M)
          /\ from + Len(H \o D) \in Place /\ from + Len((H \o D) \o M) = (from + Len(H \o D)) + Len(M)
      <4>1. Follows(wire, from, H \o D, M)
        BY <1>11, <1>12, <3>1, Following
      <4> QED BY <4>1 DEF Follows
    <3>3. /\ Stands(wire, from, H) /\ Stands(wire, from + Len(H), D)
          /\ from + Len(H) \in Place /\ from + Len(H \o D) = (from + Len(H)) + Len(D)
      <4>1. Follows(wire, from, H, D)
        BY <1>2, <1>11, <3>2, Following
      <4> QED BY <4>1 DEF Follows
    <3> QED BY <1>2, <1>4, <3>2, <3>3
  <2>2. Bit(wire, from, 128) = TRUE /\ Bit(wire, from + 1, 128) = s.map /\ Bit(wire, from + 2, 128) = s.data
    BY <1>5, <2>1
  <2>3. /\ (from + 1) + 1 = from + 2 /\ (from + 1) + 2 = at3 /\ (from + 1) + 3 = at3 + 1
    BY DEF Place
  <2>4. /\ s.data /\ Bit(wire, at3, 128) <=> s.absolute
        /\ (IF s.data THEN q.v ELSE NoneOf(4)) = s.quantizer
        /\ (IF s.data THEN l.v ELSE NoneOf(4)) = s.loop_filter
        /\ features = after
    <3>1. CASE s.data
      <4>1. D = (A \o Q) \o L
        BY <3>1 DEF When
      <4> HIDE DEF A, Q, L, D
      <4>2. /\ Stands(wire, at3, A \o Q) /\ Stands(wire, at3 + Len(A \o Q), L)
            /\ at3 + Len(A \o Q) \in Place /\ at3 + Len((A \o Q) \o L) = (at3 + Len(A \o Q)) + Len(L)
        <5>1. Follows(wire, at3, A \o Q, L)
          BY <1>3, <1>10, <2>1, <4>1, Following
        <5> QED BY <5>1 DEF Follows
      <4>3. /\ Stands(wire, at3, A) /\ Stands(wire, at3 + Len(A), Q)
            /\ at3 + Len(A) \in Place /\ at3 + Len(A \o Q) = (at3 + Len(A)) + Len(Q)
        <5>1. Follows(wire, at3, A, Q)
          BY <1>2, <1>3, <2>1, <4>2, Following
        <5> QED BY <5>1 DEF Follows
      <4>4. Len(A) = 1 /\ at3 + Len(A) = (from + 1) + 3
        BY <1>2, <2>3
      <4>5. Bit(wire, at3, 128) = s.absolute
        BY <1>6, <2>1, <4>3
      <4>6. q = [v |-> s.quantizer, at |-> at3 + Len(A \o Q)]
        <5>1. (from + 1) + 3 \in Place /\ Stands(wire, (from + 1) + 3, Q)
          BY <4>3, <4>4
        <5>2. q = [v |-> s.quantizer, at |-> ((from + 1) + 3) + Len(Q)]
          BY <1>7, <5>1
        <5> QED BY <4>3, <4>4, <5>2
      <4> HIDE DEF q
      <4>7. q.v = s.quantizer /\ q.at = at3 + Len(A \o Q)
        BY <4>6
      <4>8. l = [v |-> s.loop_filter, at |-> after]
        BY <1>8, <4>1, <4>2, <4>7
      <4> HIDE DEF l, after
      <4>9. l.v = s.loop_filter /\ l.at = after
        BY <4>8
      <4>10. features = after
        BY <2>2, <2>3, <3>1, <4>9
      <4> HIDE DEF features
      <4> QED BY <3>1, <4>5, <4>7, <4>9, <4>10
    <3>2. CASE ~s.data
      <4>1. D = <<>> /\ Len(D) = 0 /\ after = at3
        <5>1. D = <<>> /\ Len(<<>>) = 0
          BY <3>2 DEF When
        <5> HIDE DEF D
        <5>2. at3 + 0 = at3
          BY <2>1 DEF Place
        <5> QED BY <5>1, <5>2
      <4>2. features = after
        BY <2>2, <2>3, <3>2, <4>1
      <4> HIDE DEF q, l, features
      <4>3. ~s.absolute /\ s.quantizer = NoneOf(4) /\ s.loop_filter = NoneOf(4)
        BY <3>2 DEF LayerLeftOut
      <4> QED BY <3>2, <4>2, <4>3
    <3> QED BY <3>1, <3>2
  <2>5. /\ (IF s.map THEN probs.v ELSE NoneOf(3)) = s.probs
        /\ (IF s.map THEN probs.at ELSE features) = from + Len(LayerSyntax(s))
    <3>1. CASE s.map
      <4>1. M = P
        BY <3>1 DEF When
      <4> HIDE DEF M, P, D
      <4>2. ReadOptionals(wire, after, Even(3), 8, FALSE) = [v |-> s.probs, at |-> after + Len(P)]
        BY <1>9, <2>1, <4>1
      <4>3. probs = [v |-> s.probs, at |-> after + Len(P)]
        BY <2>4, <4>2
      <4> HIDE DEF probs
      <4> QED BY <2>1, <3>1, <4>1, <4>3
    <3>2. CASE ~s.map
      <4>1. M = <<>> /\ Len(M) = 0 /\ after + Len(M) = after
        <5>1. M = <<>> /\ Len(<<>>) = 0
          BY <3>2 DEF When
        <5> HIDE DEF M, D
        <5>2. after + 0 = after
          BY <2>1 DEF Place
        <5> QED BY <5>1, <5>2
      <4>2. s.probs = NoneOf(3)
        BY <3>2 DEF LayerLeftOut
      <4> HIDE DEF probs, M, features
      <4> QED BY <2>1, <2>4, <3>2, <4>1, <4>2
    <3> QED BY <3>1, <3>2
  <2>6. parse_update_segmentation(wire, from + 1)
          = [v |-> [map |-> Bit(wire, from + 1, 128), data |-> Bit(wire, (from + 1) + 1, 128),
                    absolute |-> Bit(wire, (from + 1) + 1, 128) /\ Bit(wire, (from + 1) + 2, 128),
                    quantizer |-> IF Bit(wire, (from + 1) + 1, 128) THEN q.v ELSE NoneOf(4),
                    loop_filter |-> IF Bit(wire, (from + 1) + 1, 128) THEN l.v ELSE NoneOf(4),
                    probs |-> IF Bit(wire, from + 1, 128) THEN probs.v ELSE NoneOf(3)],
             at |-> IF Bit(wire, from + 1, 128) THEN probs.at ELSE features]
    BY DEF parse_update_segmentation
  <2> HIDE DEF q, l, probs, features
  <2>7. s = [map |-> s.map, data |-> s.data, absolute |-> s.absolute, quantizer |-> s.quantizer,
             loop_filter |-> s.loop_filter, probs |-> s.probs]
    BY DEF Layers
  <2>9. parse_update_segmentation(wire, from + 1)
          = [v |-> [map |-> s.map, data |-> s.data, absolute |-> s.absolute, quantizer |-> s.quantizer,
                    loop_filter |-> s.loop_filter, probs |-> s.probs],
             at |-> from + Len(LayerSyntax(s))]
    <3> DEFINE m == Bit(wire, from + 1, 128)
               d == Bit(wire, (from + 1) + 1, 128)
               a == d /\ Bit(wire, (from + 1) + 2, 128)
               qv == IF d THEN q.v ELSE NoneOf(4)
               lv == IF d THEN l.v ELSE NoneOf(4)
               pv == IF m THEN probs.v ELSE NoneOf(3)
               e == IF m THEN probs.at ELSE features
    <3>1. m = s.map /\ d = s.data
      BY <2>2, <2>3
    <3>2. a = s.absolute
      <4>1. a <=> s.absolute
        BY <2>3, <2>4, <3>1
      <4>2. a \in BOOLEAN /\ s.absolute \in BOOLEAN
        BY <1>1
      <4> HIDE DEF a
      <4> QED BY <4>1, <4>2
    <3>3. qv = s.quantizer /\ lv = s.loop_filter
      BY <2>4, <3>1
    <3>4. pv = s.probs /\ e = from + Len(LayerSyntax(s))
      BY <2>5, <3>1
    <3>5. parse_update_segmentation(wire, from + 1)
            = [v |-> [map |-> m, data |-> d, absolute |-> a, quantizer |-> qv, loop_filter |-> lv, probs |-> pv],
               at |-> e]
      BY <2>6
    <3> HIDE DEF m, d, a, qv, lv, pv, e
    <3> QED BY <3>1, <3>2, <3>3, <3>4, <3>5
  <2> QED BY <2>2, <2>7, <2>9
<1> QED BY <1>4, <1>12, <1>13

Chain3(wire, from, a, b, c) ==
  /\ Stands(wire, from, a)
  /\ Stands(wire, from + Len(a), b) /\ from + Len(a) \in Place
  /\ Stands(wire, (from + Len(a)) + Len(b), c) /\ (from + Len(a)) + Len(b) \in Place
  /\ from + Len((a \o b) \o c) = ((from + Len(a)) + Len(b)) + Len(c)

LEMMA Chaining3 ==
  ASSUME NEW wire \in Wire, NEW from \in Place, NEW a \in Wire, NEW b \in Wire, NEW c \in Wire,
         Stands(wire, from, (a \o b) \o c)
  PROVE  Chain3(wire, from, a, b, c)
<1> DEFINE x == a \o b
<1>1. x \in Wire
  BY Joined
<1>2. Stands(wire, from, x \o c)
  OBVIOUS
<1>3. Follows(wire, from, x, c)
  <2> HIDE DEF x
  <2> QED BY <1>1, <1>2, Following
<1>4. Follows(wire, from, a, b)
  BY <1>3, Following DEF Follows
<1> QED BY <1>3, <1>4 DEF Follows, Chain3

Chain4(wire, from, a, b, c, d) ==
  /\ Stands(wire, from, a)
  /\ Stands(wire, from + Len(a), b) /\ from + Len(a) \in Place
  /\ Stands(wire, (from + Len(a)) + Len(b), c) /\ (from + Len(a)) + Len(b) \in Place
  /\ Stands(wire, ((from + Len(a)) + Len(b)) + Len(c), d) /\ ((from + Len(a)) + Len(b)) + Len(c) \in Place
  /\ from + Len(((a \o b) \o c) \o d) = (((from + Len(a)) + Len(b)) + Len(c)) + Len(d)

LEMMA Chaining4 ==
  ASSUME NEW wire \in Wire, NEW from \in Place, NEW a \in Wire, NEW b \in Wire, NEW c \in Wire, NEW d \in Wire,
         Stands(wire, from, ((a \o b) \o c) \o d)
  PROVE  Chain4(wire, from, a, b, c, d)
<1> DEFINE x == (a \o b) \o c
<1>1. x \in Wire
  BY Joined
<1>2. Stands(wire, from, x \o d)
  OBVIOUS
<1>3. Follows(wire, from, x, d)
  <2> HIDE DEF x
  <2> QED BY <1>1, <1>2, Following
<1>4. Chain3(wire, from, a, b, c)
  BY <1>3, Chaining3 DEF Follows
<1> QED BY <1>3, <1>4 DEF Follows, Chain3, Chain4

Chain5(wire, from, a, b, c, d, e) ==
  /\ Stands(wire, from, a)
  /\ Stands(wire, from + Len(a), b) /\ from + Len(a) \in Place
  /\ Stands(wire, (from + Len(a)) + Len(b), c) /\ (from + Len(a)) + Len(b) \in Place
  /\ Stands(wire, ((from + Len(a)) + Len(b)) + Len(c), d) /\ ((from + Len(a)) + Len(b)) + Len(c) \in Place
  /\ Stands(wire, (((from + Len(a)) + Len(b)) + Len(c)) + Len(d), e) /\ (((from + Len(a)) + Len(b)) + Len(c)) + Len(d) \in Place
  /\ from + Len((((a \o b) \o c) \o d) \o e) = ((((from + Len(a)) + Len(b)) + Len(c)) + Len(d)) + Len(e)

LEMMA Chaining5 ==
  ASSUME NEW wire \in Wire, NEW from \in Place, NEW a \in Wire, NEW b \in Wire, NEW c \in Wire, NEW d \in Wire, NEW e \in Wire,
         Stands(wire, from, (((a \o b) \o c) \o d) \o e)
  PROVE  Chain5(wire, from, a, b, c, d, e)
<1> DEFINE x == ((a \o b) \o c) \o d
<1>1. x \in Wire
  BY Joined
<1>2. Stands(wire, from, x \o e)
  OBVIOUS
<1>3. Follows(wire, from, x, e)
  <2> HIDE DEF x
  <2> QED BY <1>1, <1>2, Following
<1>4. Chain4(wire, from, a, b, c, d)
  BY <1>3, Chaining4 DEF Follows
<1> QED BY <1>3, <1>4 DEF Follows, Chain4, Chain5

Chain6(wire, from, a, b, c, d, e, f) ==
  /\ Stands(wire, from, a)
  /\ Stands(wire, from + Len(a), b) /\ from + Len(a) \in Place
  /\ Stands(wire, (from + Len(a)) + Len(b), c) /\ (from + Len(a)) + Len(b) \in Place
  /\ Stands(wire, ((from + Len(a)) + Len(b)) + Len(c), d) /\ ((from + Len(a)) + Len(b)) + Len(c) \in Place
  /\ Stands(wire, (((from + Len(a)) + Len(b)) + Len(c)) + Len(d), e) /\ (((from + Len(a)) + Len(b)) + Len(c)) + Len(d) \in Place
  /\ Stands(wire, ((((from + Len(a)) + Len(b)) + Len(c)) + Len(d)) + Len(e), f) /\ ((((from + Len(a)) + Len(b)) + Len(c)) + Len(d)) + Len(e) \in Place
  /\ from + Len(((((a \o b) \o c) \o d) \o e) \o f) = (((((from + Len(a)) + Len(b)) + Len(c)) + Len(d)) + Len(e)) + Len(f)

LEMMA Chaining6 ==
  ASSUME NEW wire \in Wire, NEW from \in Place, NEW a \in Wire, NEW b \in Wire, NEW c \in Wire, NEW d \in Wire, NEW e \in Wire, NEW f \in Wire,
         Stands(wire, from, ((((a \o b) \o c) \o d) \o e) \o f)
  PROVE  Chain6(wire, from, a, b, c, d, e, f)
<1> DEFINE x == (((a \o b) \o c) \o d) \o e
<1>1. x \in Wire
  BY Joined
<1>2. Stands(wire, from, x \o f)
  OBVIOUS
<1>3. Follows(wire, from, x, f)
  <2> HIDE DEF x
  <2> QED BY <1>1, <1>2, Following
<1>4. Chain5(wire, from, a, b, c, d, e)
  BY <1>3, Chaining5 DEF Follows
<1> QED BY <1>3, <1>4 DEF Follows, Chain5, Chain6

Chain7(wire, from, a, b, c, d, e, f, g) ==
  /\ Stands(wire, from, a)
  /\ Stands(wire, from + Len(a), b) /\ from + Len(a) \in Place
  /\ Stands(wire, (from + Len(a)) + Len(b), c) /\ (from + Len(a)) + Len(b) \in Place
  /\ Stands(wire, ((from + Len(a)) + Len(b)) + Len(c), d) /\ ((from + Len(a)) + Len(b)) + Len(c) \in Place
  /\ Stands(wire, (((from + Len(a)) + Len(b)) + Len(c)) + Len(d), e) /\ (((from + Len(a)) + Len(b)) + Len(c)) + Len(d) \in Place
  /\ Stands(wire, ((((from + Len(a)) + Len(b)) + Len(c)) + Len(d)) + Len(e), f) /\ ((((from + Len(a)) + Len(b)) + Len(c)) + Len(d)) + Len(e) \in Place
  /\ Stands(wire, (((((from + Len(a)) + Len(b)) + Len(c)) + Len(d)) + Len(e)) + Len(f), g) /\ (((((from + Len(a)) + Len(b)) + Len(c)) + Len(d)) + Len(e)) + Len(f) \in Place
  /\ from + Len((((((a \o b) \o c) \o d) \o e) \o f) \o g) = ((((((from + Len(a)) + Len(b)) + Len(c)) + Len(d)) + Len(e)) + Len(f)) + Len(g)

LEMMA Chaining7 ==
  ASSUME NEW wire \in Wire, NEW from \in Place, NEW a \in Wire, NEW b \in Wire, NEW c \in Wire, NEW d \in Wire, NEW e \in Wire, NEW f \in Wire, NEW g \in Wire,
         Stands(wire, from, (((((a \o b) \o c) \o d) \o e) \o f) \o g)
  PROVE  Chain7(wire, from, a, b, c, d, e, f, g)
<1> DEFINE x == ((((a \o b) \o c) \o d) \o e) \o f
<1>1. x \in Wire
  BY Joined
<1>2. Stands(wire, from, x \o g)
  OBVIOUS
<1>3. Follows(wire, from, x, g)
  <2> HIDE DEF x
  <2> QED BY <1>1, <1>2, Following
<1>4. Chain6(wire, from, a, b, c, d, e, f)
  BY <1>3, Chaining6 DEF Follows
<1> QED BY <1>3, <1>4 DEF Follows, Chain6, Chain7

Chain8(wire, from, a, b, c, d, e, f, g, h) ==
  /\ Stands(wire, from, a)
  /\ Stands(wire, from + Len(a), b) /\ from + Len(a) \in Place
  /\ Stands(wire, (from + Len(a)) + Len(b), c) /\ (from + Len(a)) + Len(b) \in Place
  /\ Stands(wire, ((from + Len(a)) + Len(b)) + Len(c), d) /\ ((from + Len(a)) + Len(b)) + Len(c) \in Place
  /\ Stands(wire, (((from + Len(a)) + Len(b)) + Len(c)) + Len(d), e) /\ (((from + Len(a)) + Len(b)) + Len(c)) + Len(d) \in Place
  /\ Stands(wire, ((((from + Len(a)) + Len(b)) + Len(c)) + Len(d)) + Len(e), f) /\ ((((from + Len(a)) + Len(b)) + Len(c)) + Len(d)) + Len(e) \in Place
  /\ Stands(wire, (((((from + Len(a)) + Len(b)) + Len(c)) + Len(d)) + Len(e)) + Len(f), g) /\ (((((from + Len(a)) + Len(b)) + Len(c)) + Len(d)) + Len(e)) + Len(f) \in Place
  /\ Stands(wire, ((((((from + Len(a)) + Len(b)) + Len(c)) + Len(d)) + Len(e)) + Len(f)) + Len(g), h) /\ ((((((from + Len(a)) + Len(b)) + Len(c)) + Len(d)) + Len(e)) + Len(f)) + Len(g) \in Place
  /\ from + Len(((((((a \o b) \o c) \o d) \o e) \o f) \o g) \o h) = (((((((from + Len(a)) + Len(b)) + Len(c)) + Len(d)) + Len(e)) + Len(f)) + Len(g)) + Len(h)

LEMMA Chaining8 ==
  ASSUME NEW wire \in Wire, NEW from \in Place, NEW a \in Wire, NEW b \in Wire, NEW c \in Wire, NEW d \in Wire, NEW e \in Wire, NEW f \in Wire, NEW g \in Wire, NEW h \in Wire,
         Stands(wire, from, ((((((a \o b) \o c) \o d) \o e) \o f) \o g) \o h)
  PROVE  Chain8(wire, from, a, b, c, d, e, f, g, h)
<1> DEFINE x == (((((a \o b) \o c) \o d) \o e) \o f) \o g
<1>1. x \in Wire
  BY Joined
<1>2. Stands(wire, from, x \o h)
  OBVIOUS
<1>3. Follows(wire, from, x, h)
  <2> HIDE DEF x
  <2> QED BY <1>1, <1>2, Following
<1>4. Chain7(wire, from, a, b, c, d, e, f, g)
  BY <1>3, Chaining7 DEF Follows
<1> QED BY <1>3, <1>4 DEF Follows, Chain7, Chain8

Chain9(wire, from, a, b, c, d, e, f, g, h, j) ==
  /\ Stands(wire, from, a)
  /\ Stands(wire, from + Len(a), b) /\ from + Len(a) \in Place
  /\ Stands(wire, (from + Len(a)) + Len(b), c) /\ (from + Len(a)) + Len(b) \in Place
  /\ Stands(wire, ((from + Len(a)) + Len(b)) + Len(c), d) /\ ((from + Len(a)) + Len(b)) + Len(c) \in Place
  /\ Stands(wire, (((from + Len(a)) + Len(b)) + Len(c)) + Len(d), e) /\ (((from + Len(a)) + Len(b)) + Len(c)) + Len(d) \in Place
  /\ Stands(wire, ((((from + Len(a)) + Len(b)) + Len(c)) + Len(d)) + Len(e), f) /\ ((((from + Len(a)) + Len(b)) + Len(c)) + Len(d)) + Len(e) \in Place
  /\ Stands(wire, (((((from + Len(a)) + Len(b)) + Len(c)) + Len(d)) + Len(e)) + Len(f), g) /\ (((((from + Len(a)) + Len(b)) + Len(c)) + Len(d)) + Len(e)) + Len(f) \in Place
  /\ Stands(wire, ((((((from + Len(a)) + Len(b)) + Len(c)) + Len(d)) + Len(e)) + Len(f)) + Len(g), h) /\ ((((((from + Len(a)) + Len(b)) + Len(c)) + Len(d)) + Len(e)) + Len(f)) + Len(g) \in Place
  /\ Stands(wire, (((((((from + Len(a)) + Len(b)) + Len(c)) + Len(d)) + Len(e)) + Len(f)) + Len(g)) + Len(h), j) /\ (((((((from + Len(a)) + Len(b)) + Len(c)) + Len(d)) + Len(e)) + Len(f)) + Len(g)) + Len(h) \in Place
  /\ from + Len((((((((a \o b) \o c) \o d) \o e) \o f) \o g) \o h) \o j) = ((((((((from + Len(a)) + Len(b)) + Len(c)) + Len(d)) + Len(e)) + Len(f)) + Len(g)) + Len(h)) + Len(j)

LEMMA Chaining9 ==
  ASSUME NEW wire \in Wire, NEW from \in Place, NEW a \in Wire, NEW b \in Wire, NEW c \in Wire, NEW d \in Wire, NEW e \in Wire, NEW f \in Wire, NEW g \in Wire, NEW h \in Wire, NEW j \in Wire,
         Stands(wire, from, (((((((a \o b) \o c) \o d) \o e) \o f) \o g) \o h) \o j)
  PROVE  Chain9(wire, from, a, b, c, d, e, f, g, h, j)
<1> DEFINE x == ((((((a \o b) \o c) \o d) \o e) \o f) \o g) \o h
<1>1. x \in Wire
  BY Joined
<1>2. Stands(wire, from, x \o j)
  OBVIOUS
<1>3. Follows(wire, from, x, j)
  <2> HIDE DEF x
  <2> QED BY <1>1, <1>2, Following
<1>4. Chain8(wire, from, a, b, c, d, e, f, g, h)
  BY <1>3, Chaining8 DEF Follows
<1> QED BY <1>3, <1>4 DEF Follows, Chain8, Chain9

LEMMA SegmentationReads ==
  ASSUME NEW wire \in Wire, NEW from \in Place, NEW layer \in Maybe(Layers), \A s \in layer : LayerLeftOut(s)
  PROVE  /\ SegmentationSyntax(layer) \in Wire
         /\ Stands(wire, from, SegmentationSyntax(layer)) =>
              /\ (IF Bit(wire, from, 128) THEN Some(parse_update_segmentation(wire, from + 1).v) ELSE None) = layer
              /\ (IF Bit(wire, from, 128) THEN parse_update_segmentation(wire, from + 1).at ELSE from + 1)
                   = from + Len(SegmentationSyntax(layer))
<1>1. CASE layer = None
  <2>1. SegmentationSyntax(layer) = Flag(128, FALSE)
    BY <1>1 DEF SegmentationSyntax
  <2>2. Flag(128, FALSE) \in Wire /\ Len(Flag(128, FALSE)) = 1
    BY FlagIsWire
  <2>3. ASSUME Stands(wire, from, Flag(128, FALSE)) PROVE ~Bit(wire, from, 128)
    <3>1. Bit(wire, from, 128) = FALSE
      BY <2>3, FlagReads
    <3> QED BY <3>1 DEF Bit
  <2> QED BY <1>1, <2>1, <2>2, <2>3
<1>2. CASE layer # None
  <2> DEFINE s == The(layer)
             read == parse_update_segmentation(wire, from + 1)
  <2>1. s \in Layers /\ layer = Some(s)
    BY <1>2, MaybeIs
  <2>2. LayerLeftOut(s)
    BY <2>1 DEF Some
  <2>3. SegmentationSyntax(layer) = LayerSyntax(s)
    BY <1>2 DEF SegmentationSyntax, LayerSyntax
  <2> HIDE DEF s
  <2>4. LayerSyntax(s) \in Wire
    BY <2>1, <2>2, LayerReads
  <2>5. ASSUME Stands(wire, from, LayerSyntax(s))
        PROVE  Bit(wire, from, 128) = TRUE /\ read = [v |-> s, at |-> from + Len(LayerSyntax(s))]
    BY <2>1, <2>2, <2>5, LayerReads
  <2> HIDE DEF read
  <2>6. ASSUME Stands(wire, from, LayerSyntax(s))
        PROVE  Bit(wire, from, 128) /\ read.v = s /\ read.at = from + Len(LayerSyntax(s))
    <3>1. Bit(wire, from, 128) = TRUE /\ read = [v |-> s, at |-> from + Len(LayerSyntax(s))]
      BY <2>5, <2>6
    <3>2. Bit(wire, from, 128)
      BY <3>1 DEF Bit
    <3>3. read.v = s /\ read.at = from + Len(LayerSyntax(s))
      BY <3>1
    <3> QED BY <3>2, <3>3
  <2> QED BY <2>1, <2>3, <2>4, <2>6 DEF read
<1> QED BY <1>1, <1>2

DeltaSets ==
  [enabled : BOOLEAN, update : BOOLEAN, ref : [1..4 -> Maybe(Signed(6))], mode : [1..4 -> Maybe(Signed(6))]]
DeltasLeftOut(d) ==
  /\ ~d.enabled => d = NoDeltas
  /\ ~d.update => d.ref = NoneOf(4) /\ d.mode = NoneOf(4)
DeltaSyntax(d) ==
  When(d.enabled, Flag(128, d.update)
                  \o When(d.update, Optionals(d.ref, Even(4), 6, TRUE) \o Optionals(d.mode, Even(4), 6, TRUE)))

LEMMA DeltasRead ==
  ASSUME NEW wire \in Wire, NEW x \in Place, NEW d \in DeltaSets
  PROVE  /\ DeltaSyntax(d) \in Wire
         /\ /\ DeltasLeftOut(d)
            /\ Stands(wire, x, Flag(128, d.enabled)) /\ Stands(wire, x + 1, DeltaSyntax(d))
            => parse_mb_lf_adjustments(wire, x) = [v |-> d, at |-> (x + 1) + Len(DeltaSyntax(d))]
<1> DEFINE U == Flag(128, d.update)
           R == Optionals(d.ref, Even(4), 6, TRUE)
           M == Optionals(d.mode, Even(4), 6, TRUE)
           T == When(d.update, R \o M)
<1>1. /\ d.enabled \in BOOLEAN /\ d.update \in BOOLEAN
      /\ d.ref \in [1..4 -> Maybe(Signed(6))] /\ d.mode \in [1..4 -> Maybe(Signed(6))]
  BY DEF DeltaSets
<1>2. ASSUME NEW y \in Place
      PROVE  Reads(wire, y, d.ref, Even(4), 6, TRUE) /\ Reads(wire, y, d.mode, Even(4), 6, TRUE)
  BY <1>1, SegmentTables
<1>3. U \in Wire /\ Len(U) = 1
  BY <1>1, FlagIsWire
<1>4. R \in Wire /\ M \in Wire
  BY <1>2 DEF Reads
<1>5. T \in Wire /\ R \o M \in Wire
  <2> HIDE DEF R, M
  <2>1. R \o M \in Wire
    BY <1>4, Joined
  <2> QED BY <1>1, <2>1, WhenIsWire
<1>6. DeltaSyntax(d) \in Wire
  <2> HIDE DEF U, T
  <2>1. U \o T \in Wire
    BY <1>3, <1>5, Joined
  <2>2. When(d.enabled, U \o T) \in Wire
    BY <1>1, <2>1, WhenIsWire
  <2> QED BY <2>2 DEF DeltaSyntax, U, T, R, M
<1>7. ASSUME DeltasLeftOut(d), Stands(wire, x, Flag(128, d.enabled)), Stands(wire, x + 1, DeltaSyntax(d))
      PROVE  parse_mb_lf_adjustments(wire, x) = [v |-> d, at |-> (x + 1) + Len(DeltaSyntax(d))]
  <2> DEFINE ref == ReadOptionals(wire, x + 2, Even(4), 6, TRUE)
             mode == ReadOptionals(wire, ref.at, Even(4), 6, TRUE)
             update == Bit(wire, x, 128) /\ Bit(wire, x + 1, 128)
  <2>1. Bit(wire, x, 128) = d.enabled
    BY <1>1, <1>7, FlagReads
  <2>2. parse_mb_lf_adjustments(wire, x)
          = [v |-> [enabled |-> Bit(wire, x, 128), update |-> Bit(wire, x, 128) /\ Bit(wire, x + 1, 128),
                    ref |-> IF update THEN ref.v ELSE NoneOf(4), mode |-> IF update THEN mode.v ELSE NoneOf(4)],
             at |-> IF update THEN mode.at ELSE IF Bit(wire, x, 128) THEN x + 2 ELSE x + 1]
    BY DEF parse_mb_lf_adjustments
  <2>3. d = [enabled |-> d.enabled, update |-> d.update, ref |-> d.ref, mode |-> d.mode]
    BY DEF DeltaSets
  <2>4. (x + 1) + 1 = x + 2 /\ x + 1 \in Place /\ x + 2 \in Place /\ (x + 1) + 0 = x + 1 /\ (x + 2) + 0 = x + 2
    BY DEF Place
  <2>5. CASE d.enabled = FALSE
    <3>1. d = NoDeltas /\ d.update = FALSE /\ d.ref = NoneOf(4) /\ d.mode = NoneOf(4)
      BY <1>7, <2>5 DEF DeltasLeftOut, NoDeltas
    <3>2. DeltaSyntax(d) = <<>> /\ Len(<<>>) = 0
      BY <2>5 DEF DeltaSyntax, When
    <3>3. Bit(wire, x, 128) = FALSE /\ ~update
      BY <2>1, <2>5 DEF Bit
    <3> HIDE DEF ref, mode
    <3>4. parse_mb_lf_adjustments(wire, x)
          = [v |-> [enabled |-> FALSE, update |-> FALSE, ref |-> NoneOf(4), mode |-> NoneOf(4)], at |-> x + 1]
      BY <2>2, <3>3
    <3> QED BY <2>3, <2>4, <2>5, <3>1, <3>2, <3>4
  <2>6. CASE d.enabled = TRUE /\ d.update = FALSE
    <3>1. d.ref = NoneOf(4) /\ d.mode = NoneOf(4)
      BY <1>7, <2>6 DEF DeltasLeftOut
    <3>2. DeltaSyntax(d) = U
      <4>1. DeltaSyntax(d) = U \o <<>>
        BY <2>6 DEF DeltaSyntax, When
      <4> HIDE DEF U
      <4> QED BY <1>3, <4>1, NothingJoined
    <3>3. Bit(wire, x, 128) = TRUE /\ Bit(wire, x + 1, 128) = FALSE
      <4>1. Bit(wire, x + 1, 128) = d.update
        BY <1>1, <1>7, <2>4, <3>2, FlagReads
      <4> QED BY <2>1, <2>6, <4>1
    <3> HIDE DEF ref, mode
    <3>4. parse_mb_lf_adjustments(wire, x)
          = [v |-> [enabled |-> TRUE, update |-> FALSE, ref |-> NoneOf(4), mode |-> NoneOf(4)], at |-> x + 2]
      BY <2>2, <3>3
    <3>5. (x + 1) + Len(DeltaSyntax(d)) = x + 2
      BY <1>3, <2>4, <3>2
    <3> QED BY <2>3, <2>6, <3>1, <3>4, <3>5
  <2>7. CASE d.enabled = TRUE /\ d.update = TRUE
    <3>1. DeltaSyntax(d) = U \o (R \o M)
      BY <2>7 DEF DeltaSyntax, When
    <3> DEFINE y == (x + 2) + Len(R)
    <3>2. /\ Stands(wire, x + 1, U) /\ Stands(wire, x + 2, R) /\ Stands(wire, y, M) /\ y \in Place
          /\ (x + 1) + Len(DeltaSyntax(d)) = y + Len(M)
      <4> HIDE DEF U, R, M
      <4>1. Stands(wire, x + 1, U \o (R \o M))
        BY <1>7, <3>1
      <4>2. Follows(wire, x + 1, U, R \o M)
        BY <1>3, <1>5, <2>4, <4>1, Following
      <4>3. (x + 1) + Len(U) = x + 2
        BY <1>3, <2>4
      <4>4. Stands(wire, x + 2, R \o M)
        BY <4>2, <4>3 DEF Follows
      <4>5. Follows(wire, x + 2, R, M)
        BY <1>4, <2>4, <4>4, Following
      <4> QED BY <3>1, <4>2, <4>3, <4>5 DEF Follows
    <3>3. Bit(wire, x, 128) = TRUE /\ Bit(wire, x + 1, 128) = TRUE
      <4>1. Bit(wire, x + 1, 128) = d.update
        BY <1>1, <2>4, <3>2, FlagReads
      <4> QED BY <2>1, <2>7, <4>1
    <3>4. ref = [v |-> d.ref, at |-> y]
      <4>1. Reads(wire, x + 2, d.ref, Even(4), 6, TRUE)
        BY <1>2, <2>4
      <4> QED BY <3>2, <4>1 DEF Reads
    <3>5. ref.v = d.ref /\ ref.at = y
      <4> HIDE DEF ref, y
      <4> QED BY <3>4
    <3>6. mode = [v |-> d.mode, at |-> y + Len(M)]
      <4>1. Reads(wire, y, d.mode, Even(4), 6, TRUE)
        BY <1>2, <3>2
      <4>2. ReadOptionals(wire, y, Even(4), 6, TRUE) = [v |-> d.mode, at |-> y + Len(M)]
        BY <3>2, <4>1 DEF Reads
      <4> HIDE DEF ref, y, M
      <4> QED BY <3>5, <4>2
    <3> HIDE DEF ref, mode, y
    <3>7. mode.v = d.mode /\ mode.at = y + Len(M)
      <4> HIDE DEF M
      <4> QED BY <3>6
    <3>8. update
      BY <3>3 DEF Bit
    <3>9. parse_mb_lf_adjustments(wire, x)
            = [v |-> [enabled |-> TRUE, update |-> TRUE, ref |-> d.ref, mode |-> d.mode], at |-> y + Len(M)]
      BY <2>2, <3>3, <3>5, <3>7, <3>8
    <3> QED BY <2>3, <2>7, <3>2, <3>9
  <2> QED BY <1>1, <2>5, <2>6, <2>7
<1> QED BY <1>6, <1>7

LEMMA UnsignedIsWire ==
  ASSUME NEW n \in Widths, NEW v \in Unsigned(n)
  PROVE  Literal(v, n) \in Wire /\ Len(Literal(v, n)) = n
<1>1. v \in Nat
  BY DEF Unsigned
<1> QED BY <1>1, LiteralIsWire

LEMMA UnsignedReads ==
  ASSUME NEW wire \in Wire, NEW from \in Place, NEW n \in Widths, NEW v \in Unsigned(n)
  PROVE  Stands(wire, from, Literal(v, n)) =>
           ReadLiteral(wire, from, n).v = v /\ ReadLiteral(wire, from, n).at = from + n
<1>1. v \in 0..2^n - 1 /\ v \in Nat
  BY DEF Unsigned
<1>2. ASSUME Stands(wire, from, Literal(v, n))
      PROVE  ReadLiteral(wire, from, n).v = v /\ ReadLiteral(wire, from, n).at = from + n
  <2>1. ReadLiteral(wire, from, n) = [v |-> v, at |-> from + n]
    BY <1>1, <1>2, LiteralReads
  <2> DEFINE read == ReadLiteral(wire, from, n)
  <2>2. read = [v |-> v, at |-> from + n]
    BY <2>1
  <2> HIDE DEF read
  <2>3. read.v = v /\ read.at = from + n
    BY <2>2
  <2> QED BY <2>3 DEF read
<1> QED BY <1>2

LEMMA LoopFilterReads ==
  ASSUME NEW wire \in Wire, NEW from \in Place,
         NEW f \in [simple : BOOLEAN, level : Unsigned(6), sharpness : Unsigned(3)],
         NEW d \in DeltaSets
  PROVE  /\ write_loop_filter_with_deltas(f, d) \in Wire
         /\ DeltasLeftOut(d) /\ Stands(wire, from, write_loop_filter_with_deltas(f, d)) =>
              /\ [simple |-> Bit(wire, from, 128), level |-> ReadLiteral(wire, from + 1, 6).v,
                  sharpness |-> ReadLiteral(wire, from + 7, 3).v] = f
              /\ parse_mb_lf_adjustments(wire, from + 10)
                   = [v |-> d, at |-> from + Len(write_loop_filter_with_deltas(f, d))]
<1> DEFINE S == Flag(128, f.simple)
           L == Literal(f.level, 6)
           H == Literal(f.sharpness, 3)
           E == Flag(128, d.enabled)
           D == DeltaSyntax(d)
<1>1. /\ f.simple \in BOOLEAN /\ f.level \in Unsigned(6) /\ f.sharpness \in Unsigned(3) /\ d.enabled \in BOOLEAN
      /\ f = [simple |-> f.simple, level |-> f.level, sharpness |-> f.sharpness]
      /\ 6 \in Widths /\ 3 \in Widths /\ 1 \in Place
  BY DEF DeltaSets, Widths, Place
<1>2. S \in Wire /\ Len(S) = 1
  BY <1>1, FlagIsWire
<1>3. L \in Wire /\ Len(L) = 6
  BY <1>1, UnsignedIsWire
<1>4. H \in Wire /\ Len(H) = 3
  BY <1>1, UnsignedIsWire
<1>5. E \in Wire /\ Len(E) = 1
  BY <1>1, FlagIsWire
<1>6. D \in Wire
  BY <1>1, DeltasRead
<1>7. write_loop_filter_with_deltas(f, d) = (((S \o L) \o H) \o E) \o D
  BY DEF write_loop_filter_with_deltas, DeltaSyntax
<1>8. (((S \o L) \o H) \o E) \o D \in Wire
  <2> HIDE DEF S, L, H, E, D
  <2>1. (S \o L) \o H \in Wire
    BY <1>2, <1>3, <1>4, Joined
  <2>2. ((S \o L) \o H) \o E \in Wire
    BY <1>5, <2>1, Joined
  <2> QED BY <1>6, <2>2, Joined
<1>9. ASSUME DeltasLeftOut(d), Stands(wire, from, write_loop_filter_with_deltas(f, d))
      PROVE  /\ [simple |-> Bit(wire, from, 128), level |-> ReadLiteral(wire, from + 1, 6).v,
                 sharpness |-> ReadLiteral(wire, from + 7, 3).v] = f
             /\ parse_mb_lf_adjustments(wire, from + 10)
                  = [v |-> d, at |-> from + Len(write_loop_filter_with_deltas(f, d))]
  <2>1. /\ from + 1 \in Place /\ (from + 1) + 6 = from + 7 /\ from + 7 \in Place /\ (from + 7) + 3 = from + 10
        /\ from + 10 \in Place /\ (from + 10) + 1 = from + 11
    BY DEF Place
  <2>2. /\ Stands(wire, from, S) /\ Stands(wire, from + 1, L) /\ Stands(wire, from + 7, H)
        /\ Stands(wire, from + 10, E) /\ Stands(wire, from + 11, D)
        /\ from + Len((((S \o L) \o H) \o E) \o D) = (from + 11) + Len(D)
    <3> HIDE DEF S, L, H, E, D
    <3>1. Chain5(wire, from, S, L, H, E, D)
      <4>1. Stands(wire, from, (((S \o L) \o H) \o E) \o D)
        BY <1>7, <1>9
      <4> QED BY <1>2, <1>3, <1>4, <1>5, <1>6, <4>1, Chaining5
    <3>2. /\ from + Len(S) = from + 1 /\ (from + Len(S)) + Len(L) = from + 7
          /\ ((from + Len(S)) + Len(L)) + Len(H) = from + 10
          /\ (((from + Len(S)) + Len(L)) + Len(H)) + Len(E) = from + 11
      BY <1>2, <1>3, <1>4, <1>5, <2>1
    <3> QED BY <3>1, <3>2 DEF Chain5
  <2>3. Bit(wire, from, 128) = f.simple
    BY <1>1, <2>2, FlagReads
  <2>4. ReadLiteral(wire, from + 1, 6).v = f.level
    BY <1>1, <2>1, <2>2, UnsignedReads
  <2>5. ReadLiteral(wire, from + 7, 3).v = f.sharpness
    BY <1>1, <2>1, <2>2, UnsignedReads
  <2>6. parse_mb_lf_adjustments(wire, from + 10) = [v |-> d, at |-> (from + 11) + Len(D)]
    BY <1>9, <2>1, <2>2, DeltasRead
  <2> QED BY <1>1, <1>7, <2>2, <2>3, <2>4, <2>5, <2>6
<1> QED BY <1>7, <1>8, <1>9

(* The number of partitions travels as its logarithm.                        *)
LEMMA CountReads ==
  ASSUME NEW wire \in Wire, NEW from \in Place, NEW count \in {1, 2, 4, 8}
  PROVE  /\ write_token_partition_count(count) \in Wire /\ Len(write_token_partition_count(count)) = 2
         /\ Stands(wire, from, write_token_partition_count(count)) => 2^(ReadLiteral(wire, from, 2).v) = count
<1>1. /\ 2^0 = 1 /\ 2^1 = 2 /\ 2^2 = 4 /\ 2^3 = 8
  OBVIOUS
<1>2. \E k \in 0..3 : 2^k = count
  <2>1. CASE count = 1
    BY <1>1, <2>1
  <2>2. CASE count = 2
    BY <1>1, <2>2
  <2>3. CASE count = 4
    BY <1>1, <2>3
  <2>4. CASE count = 8
    BY <1>1, <2>4
  <2> QED BY <2>1, <2>2, <2>3, <2>4
<1>3. Log2(count) \in 0..3 /\ 2^Log2(count) = count
  BY <1>2 DEF Log2
<1> DEFINE k == Log2(count)
<1> HIDE DEF k
<1>4. k \in Unsigned(2) /\ 2 \in Widths /\ 2^k = count
  BY <1>3 DEF Unsigned, Widths, k
<1>5. write_token_partition_count(count) = Literal(k, 2)
  BY DEF write_token_partition_count, k
<1>6. Literal(k, 2) \in Wire /\ Len(Literal(k, 2)) = 2
  BY <1>4, UnsignedIsWire
<1>7. ASSUME Stands(wire, from, Literal(k, 2)) PROVE ReadLiteral(wire, from, 2).v = k
  BY <1>4, <1>7, UnsignedReads
<1> QED BY <1>4, <1>5, <1>6, <1>7

LEMMA QuantReads ==
  ASSUME NEW wire \in Wire, NEW from \in Place, NEW q \in [y_ac_qi : Unsigned(7), deltas : [1..5 -> Maybe(Signed(4))]]
  PROVE  /\ write_quant_indices(q.y_ac_qi, q.deltas) \in Wire
         /\ Stands(wire, from, write_quant_indices(q.y_ac_qi, q.deltas)) =>
              parse_quant_indices(wire, from)
                = [v |-> q, at |-> from + Len(write_quant_indices(q.y_ac_qi, q.deltas))]
<1> DEFINE L == Literal(q.y_ac_qi, 7)
           O == Optionals(q.deltas, Even(5), 4, TRUE)
<1>1. /\ q.y_ac_qi \in Unsigned(7) /\ q.deltas \in [1..5 -> Maybe(Signed(4))]
      /\ q = [y_ac_qi |-> q.y_ac_qi, deltas |-> q.deltas]
      /\ 7 \in Widths /\ 4 \in Widths /\ 1 \in Place /\ TRUE \in BOOLEAN
  BY DEF Widths, Place
<1>2. L \in Wire /\ Len(L) = 7
  BY <1>1, UnsignedIsWire
<1>3. ASSUME NEW x \in Place PROVE Reads(wire, x, q.deltas, Even(5), 4, TRUE)
  <2>1. Even(5) \in Seq(Nat) /\ Len(Even(5)) = 5
    BY EvenProbs
  <2>2. q.deltas \in [1..5 -> Maybe(Fitting(4, TRUE))]
    BY <1>1 DEF Fitting
  <2> QED BY <1>1, <2>1, <2>2, TableReads
<1>4. O \in Wire
  BY <1>1, <1>3 DEF Reads
<1>5. write_quant_indices(q.y_ac_qi, q.deltas) = L \o O
  BY DEF write_quant_indices
<1>6. L \o O \in Wire
  <2> HIDE DEF L, O
  <2> QED BY <1>2, <1>4, Joined
<1>7. ASSUME Stands(wire, from, L \o O)
      PROVE  parse_quant_indices(wire, from) = [v |-> q, at |-> from + Len(L \o O)]
  <2> DEFINE table == ReadOptionals(wire, from + 7, Even(5), 4, TRUE)
  <2>1. /\ Stands(wire, from, L) /\ Stands(wire, from + 7, O) /\ from + 7 \in Place
        /\ from + Len(L \o O) = (from + 7) + Len(O)
    <3> HIDE DEF L, O
    <3>1. Follows(wire, from, L, O)
      BY <1>2, <1>4, <1>7, Following
    <3> QED BY <1>2, <3>1 DEF Follows
  <2>2. ReadLiteral(wire, from, 7).v = q.y_ac_qi
    BY <1>1, <2>1, UnsignedReads
  <2>3. table = [v |-> q.deltas, at |-> (from + 7) + Len(O)]
    BY <1>3, <2>1 DEF Reads
  <2>4. parse_quant_indices(wire, from)
          = [v |-> [y_ac_qi |-> ReadLiteral(wire, from, 7).v, deltas |-> table.v], at |-> table.at]
    BY DEF parse_quant_indices
  <2> HIDE DEF table, O, L
  <2>5. table.v = q.deltas /\ table.at = (from + 7) + Len(O)
    BY <2>3
  <2> QED BY <1>1, <2>1, <2>2, <2>4, <2>5
<1> QED BY <1>5, <1>6, <1>7

(* Where the second copy selector and the sign biases of a header begin.      *)
AltrefPlace(wire, from) == IF Bit(wire, from, 128) THEN from + 2 ELSE from + 4
BiasPlace(wire, from) ==
  IF Bit(wire, from + 1, 128) THEN AltrefPlace(wire, from) ELSE AltrefPlace(wire, from) + 2
Selector(wire, refreshed, from) == IF refreshed THEN None ELSE Some(ReadLiteral(wire, from, 2).v)
RefreshRead(wire, from) ==
  [golden |-> Bit(wire, from, 128), altref |-> Bit(wire, from + 1, 128),
   copyGolden |-> Selector(wire, Bit(wire, from, 128), from + 2),
   copyAltref |-> Selector(wire, Bit(wire, from + 1, 128), AltrefPlace(wire, from)),
   biases |-> <<Bit(wire, BiasPlace(wire, from), 128), Bit(wire, BiasPlace(wire, from) + 1, 128)>>,
   last |-> Bit(wire, BiasPlace(wire, from) + 3, 128)]
Refreshings ==
  [golden : BOOLEAN, altref : BOOLEAN, copyGolden : Maybe(Unsigned(2)), copyAltref : Maybe(Unsigned(2)),
   biases : BOOLEAN \X BOOLEAN, last : BOOLEAN]
Selected(r) == (r.copyGolden = None <=> r.golden) /\ (r.copyAltref = None <=> r.altref)

LEMMA SelectorReads ==
  ASSUME NEW wire \in Wire, NEW from \in Place, NEW refreshed \in BOOLEAN, NEW copy \in Maybe(Unsigned(2)),
         copy = None <=> refreshed
  PROVE  /\ When(~refreshed, Literal(The(copy), 2)) \in Wire
         /\ Len(When(~refreshed, Literal(The(copy), 2))) = IF refreshed THEN 0 ELSE 2
         /\ Stands(wire, from, When(~refreshed, Literal(The(copy), 2))) => Selector(wire, refreshed, from) = copy
<1> DEFINE bits == When(~refreshed, Literal(The(copy), 2))
<1>1. CASE refreshed
  <2>1. bits = <<>> /\ Len(<<>>) = 0 /\ <<>> \in Wire
    BY <1>1 DEF When, Wire
  <2> HIDE DEF bits
  <2> QED BY <1>1, <2>1 DEF Selector, bits
<1>2. CASE ~refreshed
  <2> DEFINE c == The(copy)
  <2>1. c \in Unsigned(2) /\ copy = Some(c) /\ 2 \in Widths
    BY <1>2, MaybeIs DEF Widths
  <2>2. bits = Literal(c, 2)
    BY <1>2 DEF When
  <2> HIDE DEF c
  <2>3. Literal(c, 2) \in Wire /\ Len(Literal(c, 2)) = 2
    BY <2>1, UnsignedIsWire
  <2>4. ASSUME Stands(wire, from, Literal(c, 2)) PROVE Selector(wire, refreshed, from) = copy
    <3>1. ReadLiteral(wire, from, 2).v = c
      BY <2>1, <2>4, UnsignedReads
    <3> QED BY <1>2, <2>1, <3>1 DEF Selector
  <2> HIDE DEF bits
  <2> QED BY <1>2, <2>2, <2>3, <2>4 DEF bits
<1> QED BY <1>1, <1>2

LEMMA RefreshReads ==
  ASSUME NEW wire \in Wire, NEW from \in Place, NEW refresh \in Maybe(Refreshings), refresh # None,
         Selected(The(refresh)), NEW entropy \in BOOLEAN
  PROVE  /\ RefreshSyntax(refresh, entropy) \in Wire
         /\ Stands(wire, from, RefreshSyntax(refresh, entropy)) =>
              /\ RefreshRead(wire, from) = The(refresh)
              /\ Bit(wire, BiasPlace(wire, from) + 2, 128) = entropy
              /\ BiasPlace(wire, from) + 4 = from + Len(RefreshSyntax(refresh, entropy))
<1> DEFINE r == The(refresh)
<1>0. r \in Refreshings /\ Selected(r)
  BY MaybeIs
<1> DEFINE g == r.golden
           a == r.altref
           G == Flag(128, g)
           A == Flag(128, a)
           C == When(~g, Literal(The(r.copyGolden), 2))
           D == When(~a, Literal(The(r.copyAltref), 2))
           B1 == Flag(128, r.biases[1])
           B2 == Flag(128, r.biases[2])
           E == Flag(128, entropy)
           L == Flag(128, r.last)
           all == ((((((G \o A) \o C) \o D) \o B1) \o B2) \o E) \o L
<1>1. RefreshSyntax(refresh, entropy) = all
  BY DEF RefreshSyntax
<1> HIDE DEF r
<1>2. /\ g \in BOOLEAN /\ a \in BOOLEAN /\ r.copyGolden \in Maybe(Unsigned(2)) /\ r.copyAltref \in Maybe(Unsigned(2))
      /\ r.biases \in BOOLEAN \X BOOLEAN /\ r.last \in BOOLEAN /\ r.biases[1] \in BOOLEAN /\ r.biases[2] \in BOOLEAN
      /\ r = [golden |-> r.golden, altref |-> r.altref, copyGolden |-> r.copyGolden, copyAltref |-> r.copyAltref,
              biases |-> r.biases, last |-> r.last]
      /\ r.biases = <<r.biases[1], r.biases[2]>>
      /\ (r.copyGolden = None <=> g) /\ (r.copyAltref = None <=> a)
  BY <1>0 DEF Refreshings, Selected
<1>3. G \in Wire /\ Len(G) = 1
  BY <1>2, FlagIsWire
<1>4. A \in Wire /\ Len(A) = 1
  BY <1>2, FlagIsWire
<1>5. C \in Wire /\ Len(C) = IF g THEN 0 ELSE 2
  BY <1>2, SelectorReads
<1>6. D \in Wire /\ Len(D) = IF a THEN 0 ELSE 2
  BY <1>2, SelectorReads
<1>7. B1 \in Wire /\ Len(B1) = 1
  BY <1>2, FlagIsWire
<1>8. B2 \in Wire /\ Len(B2) = 1
  BY <1>2, FlagIsWire
<1>9. E \in Wire /\ Len(E) = 1
  BY <1>2, FlagIsWire
<1>10. L \in Wire /\ Len(L) = 1
  BY <1>2, FlagIsWire
<1>11. all \in Wire
  <2> HIDE DEF G, A, C, D, B1, B2, E, L
  <2>1. ((G \o A) \o C) \o D \in Wire
    BY <1>3, <1>4, <1>5, <1>6, Joined
  <2>2. ((((G \o A) \o C) \o D) \o B1) \o B2 \in Wire
    BY <1>7, <1>8, <2>1, Joined
  <2> QED BY <1>9, <1>10, <2>2, Joined
<1>12. ASSUME Stands(wire, from, all)
       PROVE  /\ RefreshRead(wire, from) = r
              /\ Bit(wire, BiasPlace(wire, from) + 2, 128) = entropy
              /\ BiasPlace(wire, from) + 4 = from + Len(all)
  <2> DEFINE pa == IF g THEN from + 2 ELSE from + 4
             pb == IF a THEN pa ELSE pa + 2
  <2>1. /\ Stands(wire, from, G) /\ Stands(wire, from + 1, A) /\ Stands(wire, from + 2, C)
        /\ Stands(wire, pa, D) /\ Stands(wire, pb, B1) /\ Stands(wire, pb + 1, B2) /\ Stands(wire, pb + 2, E)
        /\ Stands(wire, pb + 3, L) /\ from + Len(all) = pb + 4
    <3> HIDE DEF G, A, C, D, B1, B2, E, L
    <3>1. Chain8(wire, from, G, A, C, D, B1, B2, E, L)
      BY <1>3, <1>4, <1>5, <1>6, <1>7, <1>8, <1>9, <1>10, <1>12, Chaining8
    <3>2. from \in Nat
      BY DEF Place
    <3>3. from + Len(G) = from + 1 /\ (from + Len(G)) + Len(A) = from + 2
      BY <1>3, <1>4, <3>2
    <3>4. ((from + Len(G)) + Len(A)) + Len(C) = pa
      BY <1>2, <1>5, <3>2, <3>3
    <3>5. (((from + Len(G)) + Len(A)) + Len(C)) + Len(D) = pb /\ pb \in Nat
      BY <1>2, <1>6, <3>2, <3>4
    <3> HIDE DEF pa, pb
    <3>6. /\ ((((from + Len(G)) + Len(A)) + Len(C)) + Len(D)) + Len(B1) = pb + 1
          /\ (((((from + Len(G)) + Len(A)) + Len(C)) + Len(D)) + Len(B1)) + Len(B2) = pb + 2
          /\ ((((((from + Len(G)) + Len(A)) + Len(C)) + Len(D)) + Len(B1)) + Len(B2)) + Len(E) = pb + 3
          /\ (((((((from + Len(G)) + Len(A)) + Len(C)) + Len(D)) + Len(B1)) + Len(B2)) + Len(E)) + Len(L) = pb + 4
      BY <1>7, <1>8, <1>9, <1>10, <3>5
    <3> QED BY <3>1, <3>3, <3>4, <3>5, <3>6 DEF Chain8
  <2>2. /\ from + 1 \in Place /\ from + 2 \in Place /\ pa \in Place /\ pb \in Place /\ pb + 1 \in Place
        /\ pb + 2 \in Place /\ pb + 3 \in Place
    <3>1. from + 2 \in Place /\ from + 4 \in Place /\ (from + 2) + 2 \in Place /\ (from + 4) + 2 \in Place
      BY DEF Place
    <3>2. pb \in Place /\ pa \in Place
      BY <3>1
    <3> HIDE DEF pa, pb
    <3> QED BY <3>2 DEF Place
  <2> HIDE DEF pa, pb
  <2>3. Bit(wire, from, 128) = g
    BY <1>2, <2>1, FlagReads
  <2>4. Bit(wire, from + 1, 128) = a
    BY <1>2, <2>1, <2>2, FlagReads
  <2>5. AltrefPlace(wire, from) = pa
    BY <2>3 DEF AltrefPlace, pa
  <2>6. BiasPlace(wire, from) = pb
    BY <2>4, <2>5 DEF BiasPlace, pb
  <2>7. Selector(wire, g, from + 2) = r.copyGolden
    BY <1>2, <2>1, <2>2, SelectorReads
  <2>8. Selector(wire, a, pa) = r.copyAltref
    BY <1>2, <2>1, <2>2, SelectorReads
  <2>9. Bit(wire, pb, 128) = r.biases[1]
    BY <1>2, <2>1, <2>2, FlagReads
  <2>10. Bit(wire, pb + 1, 128) = r.biases[2]
    BY <1>2, <2>1, <2>2, FlagReads
  <2>11. Bit(wire, pb + 2, 128) = entropy
    BY <1>2, <2>1, <2>2, FlagReads
  <2>12. Bit(wire, pb + 3, 128) = r.last
    BY <1>2, <2>1, <2>2, FlagReads
  <2>13. RefreshRead(wire, from) = r
    BY <1>2, <2>3, <2>4, <2>5, <2>6, <2>7, <2>8, <2>9, <2>10, <2>12 DEF RefreshRead
  <2> QED BY <2>1, <2>6, <2>11, <2>13
<1> HIDE DEF all
<1> QED BY <1>1, <1>11, <1>12 DEF r

SkipRead(wire, from) == IF Bit(wire, from, 128) THEN Some(ReadLiteral(wire, from + 1, 8).v) ELSE None

LEMMA SkipReads ==
  ASSUME NEW wire \in Wire, NEW from \in Place, NEW skip \in Maybe(Unsigned(8))
  PROVE  /\ write_mb_no_skip_coeff(skip # None, The(skip)) \in Wire
         /\ Stands(wire, from, write_mb_no_skip_coeff(skip # None, The(skip))) =>
              /\ SkipRead(wire, from) = skip
              /\ (IF Bit(wire, from, 128) THEN from + 9 ELSE from + 1)
                   = from + Len(write_mb_no_skip_coeff(skip # None, The(skip)))
<1>1. CASE skip = None
  <2>1. write_mb_no_skip_coeff(skip # None, The(skip)) = Flag(128, FALSE) \o <<>>
    BY <1>1 DEF write_mb_no_skip_coeff, When
  <2>2. Flag(128, FALSE) \in Wire /\ Len(Flag(128, FALSE)) = 1
    BY FlagIsWire
  <2>3. Flag(128, FALSE) \o <<>> = Flag(128, FALSE)
    BY <2>2, NothingJoined
  <2>4. ASSUME Stands(wire, from, Flag(128, FALSE)) PROVE ~Bit(wire, from, 128)
    <3>1. Bit(wire, from, 128) = FALSE
      BY <2>4, FlagReads
    <3> QED BY <3>1 DEF Bit
  <2> QED BY <1>1, <2>1, <2>2, <2>3, <2>4 DEF SkipRead
<1>2. CASE skip # None
  <2> DEFINE c == The(skip)
             F == Flag(128, TRUE)
             L == Literal(c, 8)
  <2>1. c \in Unsigned(8) /\ skip = Some(c) /\ 8 \in Widths
    BY <1>2, MaybeIs DEF Widths
  <2>2. write_mb_no_skip_coeff(skip # None, The(skip)) = F \o L
    BY <1>2 DEF write_mb_no_skip_coeff, When
  <2> HIDE DEF c
  <2>3. F \in Wire /\ Len(F) = 1
    BY FlagIsWire
  <2>4. L \in Wire /\ Len(L) = 8
    BY <2>1, UnsignedIsWire
  <2>5. F \o L \in Wire
    <3> HIDE DEF F, L
    <3> QED BY <2>3, <2>4, Joined
  <2>6. ASSUME Stands(wire, from, F \o L)
        PROVE  SkipRead(wire, from) = skip /\ Bit(wire, from, 128) /\ from + 9 = from + Len(F \o L)
    <3>1. Stands(wire, from, F) /\ Stands(wire, from + 1, L) /\ from + 1 \in Place /\ from + 9 = from + Len(F \o L)
      <4> HIDE DEF F, L
      <4>1. Follows(wire, from, F, L)
        BY <2>3, <2>4, <2>6, Following
      <4>2. (from + 1) + 8 = from + 9
        BY DEF Place
      <4> QED BY <2>3, <2>4, <4>1, <4>2 DEF Follows
    <3>2. Bit(wire, from, 128) = TRUE
      BY <3>1, FlagReads
    <3>3. Bit(wire, from, 128)
      BY <3>2 DEF Bit
    <3>4. ReadLiteral(wire, from + 1, 8).v = c
      BY <2>1, <3>1, UnsignedReads
    <3> QED BY <2>1, <3>1, <3>3, <3>4 DEF SkipRead
  <2> HIDE DEF F, L
  <2> QED BY <2>2, <2>5, <2>6
<1> QED BY <1>1, <1>2

LEMMA ElementOf ==
  ASSUME NEW R, NEW x \in Seq(R), NEW k \in 1..Len(x) PROVE x[k] \in R
OBVIOUS

LEMMA SequenceOf ==
  ASSUME NEW R, NEW N \in Nat, NEW x \in [1..N -> R]
  PROVE  x \in Seq(R) /\ Len(x) = N
OBVIOUS

(* A table of mode probabilities: eight bits each.                           *)
TableBits(t, n) == [k \in 1..8 * n |-> Literal(t[(k - 1) \div 8 + 1], 8)[((k - 1) % 8) + 1]]

LEMMA TableBitsStand ==
  ASSUME NEW wire \in Wire, NEW from \in Place, NEW n \in Nat, NEW t \in [1..n -> Unsigned(8)]
  PROVE  /\ TableBits(t, n) \in Wire /\ Len(TableBits(t, n)) = 8 * n
         /\ \A j \in 1..n : from + 8 * (j - 1) \in Place
         /\ Stands(wire, from, TableBits(t, n)) =>
              \A j \in 1..n : Stands(wire, from + 8 * (j - 1), Literal(t[j], 8))
<1>0. 8 \in Widths
  BY DEF Widths
<1>1. ASSUME NEW j \in 1..n, NEW k \in 1..8
      PROVE  /\ 8 * (j - 1) + k \in 1..8 * n
             /\ TableBits(t, n)[8 * (j - 1) + k] = Literal(t[j], 8)[k]
  <2>1. 8 * (j - 1) + k \in 1..8 * n
    OBVIOUS
  <2>2. ((8 * (j - 1) + k) - 1) \div 8 = j - 1 /\ ((8 * (j - 1) + k) - 1) % 8 = k - 1
    OBVIOUS
  <2>3. (j - 1) + 1 = j /\ (k - 1) + 1 = k
    OBVIOUS
  <2> QED BY <2>1, <2>2, <2>3 DEF TableBits
<1>2. \A j \in 1..n : Literal(t[j], 8) \in Wire /\ Len(Literal(t[j], 8)) = 8
  <2> SUFFICES ASSUME NEW j \in 1..n PROVE Literal(t[j], 8) \in Wire /\ Len(Literal(t[j], 8)) = 8
    OBVIOUS
  <2>1. t[j] \in Unsigned(8)
    OBVIOUS
  <2> QED BY <1>0, <2>1, UnsignedIsWire
<1>3. TableBits(t, n) \in Wire /\ Len(TableBits(t, n)) = 8 * n
  <2>1. ASSUME NEW m \in 1..8 * n PROVE TableBits(t, n)[m] \in [p : Nat, b : BOOLEAN]
    <3> DEFINE j == (m - 1) \div 8 + 1
               k == ((m - 1) % 8) + 1
    <3>1. j \in 1..n /\ k \in 1..8
      OBVIOUS
    <3>2. TableBits(t, n)[m] = Literal(t[j], 8)[k]
      BY DEF TableBits
    <3> HIDE DEF j, k
    <3>3. Literal(t[j], 8) \in Seq([p : Nat, b : BOOLEAN]) /\ Len(Literal(t[j], 8)) = 8
      BY <1>2, <3>1 DEF Wire
    <3>4. Literal(t[j], 8)[k] \in [p : Nat, b : BOOLEAN]
      <4> DEFINE x == Literal(t[j], 8)
      <4> HIDE DEF x
      <4>1. x \in Seq([p : Nat, b : BOOLEAN]) /\ Len(x) = 8
        BY <3>3 DEF x
      <4>2. x[k] \in [p : Nat, b : BOOLEAN]
        BY <3>1, <4>1, ElementOf
      <4> QED BY <4>2 DEF x
    <3> QED BY <3>2, <3>4
  <2>2. 8 * n \in Nat /\ TableBits(t, n) = [m \in 1..8 * n |-> TableBits(t, n)[m]]
    BY DEF TableBits
  <2> DEFINE T == TableBits(t, n)
             N == 8 * n
  <2> HIDE DEF T, N
  <2>3. N \in Nat /\ T = [m \in 1..N |-> T[m]] /\ \A m \in 1..N : T[m] \in [p : Nat, b : BOOLEAN]
    BY <2>1, <2>2 DEF T, N
  <2>4. T \in Wire /\ Len(T) = N
    <3>1. T \in [1..N -> [p : Nat, b : BOOLEAN]]
      BY <2>3
    <3> QED BY <2>3, <3>1, SequenceOf DEF Wire
  <2> QED BY <2>4 DEF T, N
<1>4. ASSUME Stands(wire, from, TableBits(t, n)), NEW j \in 1..n
      PROVE  Stands(wire, from + 8 * (j - 1), Literal(t[j], 8))
  <2> DEFINE T == TableBits(t, n)
             x == Literal(t[j], 8)
  <2>1. Len(x) = 8 /\ Len(T) = 8 * n /\ Len(wire) \in Nat
    BY <1>2, <1>3, LenIsNat
  <2>2. \A k \in 1..8 : 8 * (j - 1) + k \in 1..8 * n /\ T[8 * (j - 1) + k] = x[k]
    BY <1>1
  <2>3. from + 8 * n <= Len(wire) + 1 /\ \A m \in 1..8 * n : wire[from + m - 1] = T[m]
    BY <1>4, <2>1 DEF Stands
  <2> HIDE DEF T, x
  <2>4. (from + 8 * (j - 1)) + 8 <= Len(wire) + 1
    BY <2>1, <2>3 DEF Place
  <2>5. \A k \in 1..8 : wire[(from + 8 * (j - 1)) + k - 1] = x[k]
    <3> SUFFICES ASSUME NEW k \in 1..8 PROVE wire[(from + 8 * (j - 1)) + k - 1] = x[k]
      OBVIOUS
    <3>1. from + (8 * (j - 1) + k) - 1 = (from + 8 * (j - 1)) + k - 1
      BY DEF Place
    <3> QED BY <2>2, <2>3, <3>1
  <2> QED BY <2>1, <2>4, <2>5 DEF Stands, x
<1>5. \A j \in 1..n : from + 8 * (j - 1) \in Place
  BY DEF Place
<1> QED BY <1>3, <1>4, <1>5

LEMMA ModeTableReads ==
  ASSUME NEW wire \in Wire, NEW from \in Place, NEW n \in Nat, NEW table \in Maybe([1..n -> Unsigned(8)])
  PROVE  /\ ModeTableSyntax(table) \in Wire
         /\ Stands(wire, from, ModeTableSyntax(table)) =>
              ReadModeTable(wire, from, n) = [v |-> table, at |-> from + Len(ModeTableSyntax(table))]
<1>1. CASE table = None
  <2>1. ModeTableSyntax(table) = Flag(128, FALSE) \o <<>>
    BY <1>1 DEF ModeTableSyntax, When
  <2>2. Flag(128, FALSE) \in Wire /\ Len(Flag(128, FALSE)) = 1
    BY FlagIsWire
  <2>3. Flag(128, FALSE) \o <<>> = Flag(128, FALSE)
    BY <2>2, NothingJoined
  <2>4. ASSUME Stands(wire, from, Flag(128, FALSE)) PROVE ~Bit(wire, from, 128)
    <3>1. Bit(wire, from, 128) = FALSE
      BY <2>4, FlagReads
    <3> QED BY <3>1 DEF Bit
  <2> QED BY <1>1, <2>1, <2>2, <2>3, <2>4 DEF ReadModeTable
<1>2. CASE table # None
  <2> DEFINE t == The(table)
             F == Flag(128, TRUE)
             T == TableBits(t, n)
  <2>1. t \in [1..n -> Unsigned(8)] /\ table = Some(t) /\ 8 \in Widths
    BY <1>2, MaybeIs DEF Widths
  <2>2. ModeTableSyntax(table) = F \o T
    <3>1. Len(The(table)) = n
      BY <2>1
    <3> QED BY <1>2, <3>1 DEF ModeTableSyntax, When, TableBits
  <2> HIDE DEF t
  <2>3. F \in Wire /\ Len(F) = 1
    BY FlagIsWire
  <2>4. T \in Wire /\ Len(T) = 8 * n
    BY <2>1, TableBitsStand
  <2>5. F \o T \in Wire
    <3> HIDE DEF F, T
    <3> QED BY <2>3, <2>4, Joined
  <2>6. ASSUME Stands(wire, from, F \o T)
        PROVE  ReadModeTable(wire, from, n) = [v |-> table, at |-> from + Len(F \o T)]
    <3>1. /\ Stands(wire, from, F) /\ Stands(wire, from + 1, T) /\ from + 1 \in Place
          /\ (from + 1) + 8 * n = from + Len(F \o T)
      <4> HIDE DEF F, T
      <4>1. Follows(wire, from, F, T)
        BY <2>3, <2>4, <2>6, Following
      <4> QED BY <2>3, <2>4, <4>1 DEF Follows
    <3>2. Bit(wire, from, 128) = TRUE
      BY <3>1, FlagReads
    <3>3. Bit(wire, from, 128)
      BY <3>2 DEF Bit
    <3>4. ASSUME NEW j \in 1..n PROVE ReadLiteral(wire, (from + 1) + 8 * (j - 1), 8).v = t[j]
      <4>1. (from + 1) + 8 * (j - 1) \in Place /\ Stands(wire, (from + 1) + 8 * (j - 1), Literal(t[j], 8))
        BY <2>1, <3>1, TableBitsStand
      <4>2. t[j] \in Unsigned(8)
        BY <2>1
      <4> QED BY <2>1, <4>1, <4>2, UnsignedReads
    <3>5. t = [j \in 1..n |-> ReadLiteral(wire, (from + 1) + 8 * (j - 1), 8).v]
      BY <2>1, <3>4
    <3> HIDE DEF F, T
    <3>6. ReadModeTable(wire, from, n)
            = [v |-> Some([j \in 1..n |-> ReadLiteral(wire, (from + 1) + 8 * (j - 1), 8).v]), at |-> (from + 1) + 8 * n]
      BY <3>3 DEF ReadModeTable
    <3> QED BY <2>1, <3>1, <3>5, <3>6
  <2> HIDE DEF F, T
  <2> QED BY <2>2, <2>5, <2>6
<1> QED BY <1>1, <1>2

(* Vector probabilities travel as their upper seven bits.                    *)
RawProbs(mv) == [k \in DOMAIN mv |-> {IF x = 1 THEN 0 ELSE x \div 2 : x \in mv[k]}]
VectorProbs == {1} \cup {2 * x : x \in 1..127}

LEMMA RawIsSmall ==
  ASSUME NEW slot \in Maybe(VectorProbs)
  PROVE  /\ {IF x = 1 THEN 0 ELSE x \div 2 : x \in slot} \in Maybe(Unsigned(7))
         /\ {IF y = 0 THEN 1 ELSE 2 * y : y \in {IF x = 1 THEN 0 ELSE x \div 2 : x \in slot}} = slot
<1> DEFINE raw(x) == IF x = 1 THEN 0 ELSE x \div 2
           back(y) == IF y = 0 THEN 1 ELSE 2 * y
<1>1. slot \in SUBSET VectorProbs /\ \A a, b \in slot : a = b
  BY DEF Maybe
<1>2. Unsigned(7) = 0..127
  <2>1. 2^7 = 128
    OBVIOUS
  <2> QED BY <2>1 DEF Unsigned
<1>3. ASSUME NEW x \in VectorProbs PROVE raw(x) \in 0..127 /\ back(raw(x)) = x
  <2>1. CASE x = 1
    BY <2>1
  <2>2. CASE x # 1
    <3>1. PICK h \in 1..127 : x = 2 * h
      BY <2>2 DEF VectorProbs
    <3> QED BY <3>1
  <2> QED BY <2>1, <2>2
<1> HIDE DEF raw, back
<1>4. {raw(x) : x \in slot} \in Maybe(Unsigned(7))
  BY <1>1, <1>2, <1>3 DEF Maybe
<1>5. {back(y) : y \in {raw(x) : x \in slot}} = slot
  BY <1>1, <1>3
<1> QED BY <1>4, <1>5 DEF raw, back

LEMMA VectorProbsRead ==
  ASSUME NEW wire \in Wire, NEW from \in Place, MvUpdateProbs \in Seq(Nat),
         NEW mv \in [1..Len(MvUpdateProbs) -> Maybe(VectorProbs)]
  PROVE  /\ Optionals(RawProbs(mv), MvUpdateProbs, 7, FALSE) \in Wire
         /\ Stands(wire, from, Optionals(RawProbs(mv), MvUpdateProbs, 7, FALSE)) =>
              parse_mv_prob_update(wire, from)
                = [v |-> mv, at |-> from + Len(Optionals(RawProbs(mv), MvUpdateProbs, 7, FALSE))]
<1> DEFINE N == Len(MvUpdateProbs)
           raw == RawProbs(mv)
<1>1. N \in Nat /\ 7 \in Widths /\ FALSE \in BOOLEAN
  BY DEF Widths
<1>2. raw \in [1..N -> Maybe(Unsigned(7))]
  <2>1. \A k \in 1..N : mv[k] \in Maybe(VectorProbs)
    OBVIOUS
  <2>2. \A k \in 1..N : {IF x = 1 THEN 0 ELSE x \div 2 : x \in mv[k]} \in Maybe(Unsigned(7))
    BY <2>1, RawIsSmall
  <2> QED BY <2>2 DEF RawProbs
<1>3. raw \in [1..N -> Maybe(Fitting(7, FALSE))]
  BY <1>2 DEF Fitting
<1>4. [k \in DOMAIN raw |-> {IF y = 0 THEN 1 ELSE 2 * y : y \in raw[k]}] = mv
  <2>1. DOMAIN raw = 1..N
    BY <1>2
  <2>2. ASSUME NEW k \in 1..N PROVE {IF y = 0 THEN 1 ELSE 2 * y : y \in raw[k]} = mv[k]
    <3>1. mv[k] \in Maybe(VectorProbs)
      OBVIOUS
    <3>2. raw[k] = {IF x = 1 THEN 0 ELSE x \div 2 : x \in mv[k]}
      BY DEF RawProbs
    <3> QED BY <3>1, <3>2, RawIsSmall
  <2> HIDE DEF raw
  <2> QED BY <2>1, <2>2
<1> HIDE DEF raw, N
<1>5. Reads(wire, from, raw, MvUpdateProbs, 7, FALSE)
  BY <1>1, <1>3, TableReads DEF N
<1>6. ASSUME Stands(wire, from, Optionals(raw, MvUpdateProbs, 7, FALSE))
      PROVE  parse_mv_prob_update(wire, from)
                = [v |-> mv, at |-> from + Len(Optionals(raw, MvUpdateProbs, 7, FALSE))]
  <2> DEFINE read == ReadOptionals(wire, from, MvUpdateProbs, 7, FALSE)
             end == from + Len(Optionals(raw, MvUpdateProbs, 7, FALSE))
  <2>1. read = [v |-> raw, at |-> end]
    BY <1>5, <1>6 DEF Reads
  <2>2. parse_mv_prob_update(wire, from)
          = [v |-> [k \in DOMAIN read.v |-> {IF y = 0 THEN 1 ELSE 2 * y : y \in read.v[k]}], at |-> read.at]
    BY DEF parse_mv_prob_update
  <2> HIDE DEF read, end
  <2>3. read.v = raw /\ read.at = end
    BY <2>1
  <2>4. parse_mv_prob_update(wire, from)
          = [v |-> [k \in DOMAIN raw |-> {IF y = 0 THEN 1 ELSE 2 * y : y \in raw[k]}], at |-> end]
    BY <2>2, <2>3
  <2>5. parse_mv_prob_update(wire, from) = [v |-> mv, at |-> end]
    BY <1>4, <2>4
  <2> QED BY <2>5 DEF end
<1> QED BY <1>5, <1>6 DEF Reads, raw

ModesRead(wire, from) ==
  LET y == ReadModeTable(wire, from + 24, 4)
      uv == ReadModeTable(wire, y.at, 3)
      mv == parse_mv_prob_update(wire, uv.at)
  IN [v |-> [intra |-> ReadLiteral(wire, from, 8).v, last |-> ReadLiteral(wire, from + 8, 8).v,
             gf |-> ReadLiteral(wire, from + 16, 8).v, y |-> y.v, uv |-> uv.v, mv |-> mv.v],
      at |-> mv.at]
ModeProbs ==
  [intra : Unsigned(8), last : Unsigned(8), gf : Unsigned(8), y : Maybe([1..4 -> Unsigned(8)]),
   uv : Maybe([1..3 -> Unsigned(8)]), mv : [1..Len(MvUpdateProbs) -> Maybe(VectorProbs)]]

LEMMA ModesReads ==
  ASSUME NEW wire \in Wire, NEW from \in Place, MvUpdateProbs \in Seq(Nat),
         NEW modes \in Maybe(ModeProbs), modes # None
  PROVE  /\ ModesSyntax(modes) \in Wire
         /\ Stands(wire, from, ModesSyntax(modes)) =>
              ModesRead(wire, from) = [v |-> The(modes), at |-> from + Len(ModesSyntax(modes))]
<1> DEFINE m == The(modes)
<1>1. m \in ModeProbs /\ 8 \in Widths /\ 3 \in Nat /\ 4 \in Nat /\ 1 \in Place
  BY MaybeIs DEF Widths, Place
<1> DEFINE A == Literal(m.intra, 8)
           B == Literal(m.last, 8)
           C == Literal(m.gf, 8)
           Y == ModeTableSyntax(m.y)
           U == ModeTableSyntax(m.uv)
           V == Optionals(RawProbs(m.mv), MvUpdateProbs, 7, FALSE)
           all == ((((A \o B) \o C) \o Y) \o U) \o V
<1>2. ModesSyntax(modes) = all
  BY DEF ModesSyntax, When, RawProbs
<1> HIDE DEF m
<1>3. /\ m.intra \in Unsigned(8) /\ m.last \in Unsigned(8) /\ m.gf \in Unsigned(8)
      /\ m.y \in Maybe([1..4 -> Unsigned(8)]) /\ m.uv \in Maybe([1..3 -> Unsigned(8)])
      /\ m.mv \in [1..Len(MvUpdateProbs) -> Maybe(VectorProbs)]
      /\ m = [intra |-> m.intra, last |-> m.last, gf |-> m.gf, y |-> m.y, uv |-> m.uv, mv |-> m.mv]
  BY <1>1 DEF ModeProbs
<1>4. A \in Wire /\ Len(A) = 8
  BY <1>1, <1>3, UnsignedIsWire
<1>5. B \in Wire /\ Len(B) = 8
  BY <1>1, <1>3, UnsignedIsWire
<1>6. C \in Wire /\ Len(C) = 8
  BY <1>1, <1>3, UnsignedIsWire
<1>7. Y \in Wire
  BY <1>1, <1>3, ModeTableReads
<1>8. U \in Wire
  BY <1>1, <1>3, ModeTableReads
<1>9. V \in Wire
  BY <1>1, <1>3, VectorProbsRead
<1>10. all \in Wire
  <2> HIDE DEF A, B, C, Y, U, V
  <2>1. (A \o B) \o C \in Wire
    BY <1>4, <1>5, <1>6, Joined
  <2>2. ((A \o B) \o C) \o Y \in Wire
    BY <1>7, <2>1, Joined
  <2> QED BY <1>8, <1>9, <2>2, Joined
<1>11. ASSUME Stands(wire, from, all)
       PROVE  ModesRead(wire, from) = [v |-> m, at |-> from + Len(all)]
  <2> DEFINE p1 == from + 8
             p2 == from + 16
             p3 == from + 24
             p4 == p3 + Len(Y)
             p5 == p4 + Len(U)
             y == ReadModeTable(wire, p3, 4)
             uv == ReadModeTable(wire, y.at, 3)
             mv == parse_mv_prob_update(wire, uv.at)
  <2>1. /\ Stands(wire, from, A) /\ Stands(wire, p1, B) /\ Stands(wire, p2, C)
        /\ Stands(wire, p3, Y) /\ Stands(wire, p4, U) /\ Stands(wire, p5, V)
        /\ p1 \in Place /\ p2 \in Place /\ p3 \in Place /\ p4 \in Place /\ p5 \in Place
        /\ from + Len(all) = p5 + Len(V)
    <3> HIDE DEF A, B, C, Y, U, V
    <3>1. Chain6(wire, from, A, B, C, Y, U, V)
      BY <1>4, <1>5, <1>6, <1>7, <1>8, <1>9, <1>11, Chaining6
    <3>2. from + Len(A) = p1 /\ (from + Len(A)) + Len(B) = p2 /\ ((from + Len(A)) + Len(B)) + Len(C) = p3
      <4>1. from \in Nat
        BY DEF Place
      <4> QED BY <1>4, <1>5, <1>6, <4>1
    <3> QED BY <3>1, <3>2 DEF Chain6
  <2> HIDE DEF p1, p2, p3, p4, p5
  <2>2. ReadLiteral(wire, from, 8).v = m.intra
    BY <1>1, <1>3, <2>1, UnsignedReads
  <2>3. ReadLiteral(wire, p1, 8).v = m.last
    BY <1>1, <1>3, <2>1, UnsignedReads
  <2>4. ReadLiteral(wire, p2, 8).v = m.gf
    BY <1>1, <1>3, <2>1, UnsignedReads
  <2>5. y = [v |-> m.y, at |-> p4]
    BY <1>1, <1>3, <2>1, ModeTableReads DEF p4
  <2> HIDE DEF y
  <2>6. y.v = m.y /\ y.at = p4
    BY <2>5
  <2>7. uv = [v |-> m.uv, at |-> p5]
    <3>1. ReadModeTable(wire, p4, 3) = [v |-> m.uv, at |-> p5]
      BY <1>1, <1>3, <2>1, ModeTableReads DEF p5
    <3> QED BY <2>6, <3>1
  <2> HIDE DEF uv
  <2>8. uv.v = m.uv /\ uv.at = p5
    BY <2>7
  <2>9. mv = [v |-> m.mv, at |-> from + Len(all)]
    <3>1. parse_mv_prob_update(wire, p5) = [v |-> m.mv, at |-> p5 + Len(V)]
      BY <1>1, <1>3, <2>1, VectorProbsRead
    <3> QED BY <2>1, <2>8, <3>1
  <2> HIDE DEF mv
  <2>10. mv.v = m.mv /\ mv.at = from + Len(all)
    <3> HIDE DEF all
    <3> QED BY <2>9
  <2>11. ModesRead(wire, from)
           = [v |-> [intra |-> ReadLiteral(wire, from, 8).v, last |-> ReadLiteral(wire, p1, 8).v,
                     gf |-> ReadLiteral(wire, p2, 8).v, y |-> y.v, uv |-> uv.v, mv |-> mv.v],
              at |-> mv.at]
    BY DEF ModesRead, p1, p2, p3, y, uv, mv
  <2> HIDE DEF all
  <2> QED BY <1>3, <2>2, <2>3, <2>4, <2>6, <2>8, <2>10, <2>11
<1> HIDE DEF all
<1> QED BY <1>2, <1>10, <1>11 DEF m

-----------------------------------------------------------------------------
(* The places in the layout of a header where its groups of fields begin.     *)
FlagAt(f) == 1 + Len(SpaceSyntax(f.space))
FilterAt(f) == FlagAt(f) + Len(SegmentationSyntax(f.segmentation))
CountAt(f) == FilterAt(f) + Len(write_loop_filter_with_deltas(f.filter, f.deltas))
QuantAt(f) == CountAt(f) + Len(write_token_partition_count(f.count))
RefreshAt(f) == QuantAt(f) + Len(write_quant_indices(f.quant.y_ac_qi, f.quant.deltas))
TokensAt(f) == RefreshAt(f) + Len(RefreshSyntax(f.refresh, f.entropy))
SkipAt(f) == TokensAt(f) + Len(write_token_prob_updates(f.tokens))
ModesAt(f) == SkipAt(f) + Len(write_mb_no_skip_coeff(f.skip # None, The(f.skip)))
EndAt(f) == ModesAt(f) + Len(ModesSyntax(f.modes))

LaidOut(f, wire) ==
  /\ wire \in Wire /\ EndAt(f) = Len(wire) + 1
  /\ Stands(wire, 1, SpaceSyntax(f.space))
  /\ Stands(wire, FlagAt(f), SegmentationSyntax(f.segmentation))
  /\ Stands(wire, FilterAt(f), write_loop_filter_with_deltas(f.filter, f.deltas))
  /\ Stands(wire, CountAt(f), write_token_partition_count(f.count))
  /\ Stands(wire, QuantAt(f), write_quant_indices(f.quant.y_ac_qi, f.quant.deltas))
  /\ Stands(wire, RefreshAt(f), RefreshSyntax(f.refresh, f.entropy))
  /\ Stands(wire, TokensAt(f), write_token_prob_updates(f.tokens))
  /\ Stands(wire, SkipAt(f), write_mb_no_skip_coeff(f.skip # None, The(f.skip)))
  /\ Stands(wire, ModesAt(f), ModesSyntax(f.modes))
  /\ FlagAt(f) \in Place /\ FilterAt(f) \in Place /\ CountAt(f) \in Place /\ QuantAt(f) \in Place
  /\ RefreshAt(f) \in Place /\ TokensAt(f) \in Place /\ SkipAt(f) \in Place /\ ModesAt(f) \in Place

LEMMA FieldTypes ==
  ASSUME NEW f \in Fields
  PROVE  /\ f.space \in Maybe(BOOLEAN \X BOOLEAN) /\ f.segmentation \in Maybe(Layers)
         /\ f.filter \in [simple : BOOLEAN, level : Unsigned(6), sharpness : Unsigned(3)]
         /\ f.deltas \in DeltaSets /\ f.count \in {1, 2, 4, 8}
         /\ f.quant \in [y_ac_qi : Unsigned(7), deltas : [1..5 -> Maybe(Signed(4))]]
         /\ f.entropy \in BOOLEAN /\ f.refresh \in Maybe(Refreshings)
         /\ f.tokens \in [1..Len(CoeffUpdateProbs) -> Maybe(Unsigned(8))]
         /\ f.skip \in Maybe(Unsigned(8)) /\ f.modes \in Maybe(ModeProbs)
BY DEF Fields, Layers, DeltaSets, Refreshings, ModeProbs, VectorProbs

LEMMA LeftOutParts ==
  ASSUME NEW f \in Fields, LeftOut(f)
  PROVE  /\ f.space = None <=> f.refresh # None
         /\ f.modes = None <=> f.refresh = None
         /\ \A s \in f.segmentation : LayerLeftOut(s)
         /\ DeltasLeftOut(f.deltas)
         /\ f.refresh # None => Selected(The(f.refresh))
<1>1. f.refresh # None => Selected(The(f.refresh))
  <2> SUFFICES ASSUME f.refresh # None PROVE Selected(The(f.refresh))
    OBVIOUS
  <2>1. f.refresh = Some(The(f.refresh))
    BY FieldTypes, MaybeIs
  <2>2. The(f.refresh) \in f.refresh
    BY <2>1 DEF Some
  <2> QED BY <2>2 DEF LeftOut, Selected
<1> QED BY <1>1 DEF LeftOut, LayerLeftOut, DeltasLeftOut

(* The layout up to the probabilities of the modes.                           *)
Front(f) ==
  SpaceSyntax(f.space) \o SegmentationSyntax(f.segmentation)
  \o write_loop_filter_with_deltas(f.filter, f.deltas)
  \o write_token_partition_count(f.count) \o write_quant_indices(f.quant.y_ac_qi, f.quant.deltas)
  \o RefreshSyntax(f.refresh, f.entropy)
  \o write_token_prob_updates(f.tokens) \o write_mb_no_skip_coeff(f.skip # None, The(f.skip))

LEMMA LayoutStands ==
  ASSUME NEW f \in Fields, LeftOut(f)
  PROVE  LaidOut(f, Layout(f)) /\ Front(f) \in Wire
<1> DEFINE S == SpaceSyntax(f.space)
           G == SegmentationSyntax(f.segmentation)
           L == write_loop_filter_with_deltas(f.filter, f.deltas)
           C == write_token_partition_count(f.count)
           Q == write_quant_indices(f.quant.y_ac_qi, f.quant.deltas)
           R == RefreshSyntax(f.refresh, f.entropy)
           T == write_token_prob_updates(f.tokens)
           K == write_mb_no_skip_coeff(f.skip # None, The(f.skip))
           M == ModesSyntax(f.modes)
           wire == Layout(f)
<1>1. <<>> \in Wire /\ 1 \in Place /\ CoeffUpdateProbs \in Seq(Nat) /\ MvUpdateProbs \in Seq(Nat)
  BY LayoutAssumption DEF Wire, Place
<1>2. S \in Wire
  BY <1>1, FieldTypes, SpaceReads
<1>3. G \in Wire
  BY <1>1, FieldTypes, LeftOutParts, SegmentationReads
<1>4. L \in Wire
  BY <1>1, FieldTypes, LoopFilterReads
<1>5. C \in Wire
  BY <1>1, FieldTypes, CountReads
<1>6. Q \in Wire
  BY <1>1, FieldTypes, QuantReads
<1>7. R \in Wire
  <2>1. f.entropy \in BOOLEAN
    BY FieldTypes
  <2>2. CASE f.refresh = None
    <3>1. R = Flag(128, f.entropy)
      BY <2>2 DEF RefreshSyntax
    <3> QED BY <2>1, <3>1, FlagIsWire
  <2>3. CASE f.refresh # None
    BY <1>1, <2>1, <2>3, FieldTypes, LeftOutParts, RefreshReads
  <2> QED BY <2>2, <2>3
<1>8. T \in Wire
  <2>1. 8 \in Widths /\ Fitting(8, FALSE) = Unsigned(8) /\ Len(CoeffUpdateProbs) \in Nat /\ FALSE \in BOOLEAN
    BY <1>1 DEF Widths, Fitting
  <2>2. f.tokens \in [1..Len(CoeffUpdateProbs) -> Maybe(Fitting(8, FALSE))]
    BY <2>1, FieldTypes
  <2>3. Optionals(f.tokens, CoeffUpdateProbs, 8, FALSE) \in Wire
    BY <1>1, <2>1, <2>2, OptionalsIsWire
  <2> QED BY <2>3 DEF write_token_prob_updates
<1>9. K \in Wire
  BY <1>1, FieldTypes, SkipReads
<1>10. M \in Wire
  <2>1. CASE f.modes = None
    BY <1>1, <2>1 DEF ModesSyntax, When
  <2>2. CASE f.modes # None
    BY <1>1, <2>2, FieldTypes, ModesReads
  <2> QED BY <2>1, <2>2
<1>11. wire = (((((((S \o G) \o L) \o C) \o Q) \o R) \o T) \o K) \o M
  BY DEF Layout
<1>11a. Front(f) = ((((((S \o G) \o L) \o C) \o Q) \o R) \o T) \o K
  BY DEF Front
<1>12. /\ Chain9(wire, 1, S, G, L, C, Q, R, T, K, M) /\ wire \in Wire /\ Len(wire) \in Nat
       /\ Front(f) \in Wire
  <2> HIDE DEF S, G, L, C, Q, R, T, K, M, wire
  <2>1. ((S \o G) \o L) \o C \in Wire
    BY <1>2, <1>3, <1>4, <1>5, Joined
  <2>2. ((((S \o G) \o L) \o C) \o Q) \o R \in Wire
    BY <1>6, <1>7, <2>1, Joined
  <2>3. ((((((S \o G) \o L) \o C) \o Q) \o R) \o T) \o K \in Wire
    BY <1>8, <1>9, <2>2, Joined
  <2>4. wire \in Wire
    BY <1>10, <1>11, <2>3, Joined
  <2>5. Stands(wire, 1, (((((((S \o G) \o L) \o C) \o Q) \o R) \o T) \o K) \o M)
    BY <1>11, <2>4, StandsWhole
  <2>6. Chain9(wire, 1, S, G, L, C, Q, R, T, K, M)
    BY <1>1, <1>2, <1>3, <1>4, <1>5, <1>6, <1>7, <1>8, <1>9, <1>10, <2>4, <2>5, Chaining9
  <2> QED BY <1>11a, <2>3, <2>4, <2>6, LenIsNat
<1>13. /\ FlagAt(f) = 1 + Len(S) /\ FilterAt(f) = FlagAt(f) + Len(G) /\ CountAt(f) = FilterAt(f) + Len(L)
       /\ QuantAt(f) = CountAt(f) + Len(C) /\ RefreshAt(f) = QuantAt(f) + Len(Q)
       /\ TokensAt(f) = RefreshAt(f) + Len(R) /\ SkipAt(f) = TokensAt(f) + Len(T)
       /\ ModesAt(f) = SkipAt(f) + Len(K) /\ EndAt(f) = ModesAt(f) + Len(M)
  BY DEF FlagAt, FilterAt, CountAt, QuantAt, RefreshAt, TokensAt, SkipAt, ModesAt, EndAt
<1>14. EndAt(f) = Len(wire) + 1
  <2> HIDE DEF S, G, L, C, Q, R, T, K, M
  <2>1. 1 + Len(wire) = EndAt(f)
    BY <1>11, <1>12, <1>13 DEF Chain9
  <2> HIDE DEF wire
  <2> QED BY <1>12, <2>1
<1> HIDE DEF wire
<1>15. Chain9(wire, 1, S, G, L, C, Q, R, T, K, M)
  BY <1>12
<1> HIDE DEF S, G, L, C, Q, R, T, K, M
<1>16. /\ Stands(wire, 1, S) /\ Stands(wire, FlagAt(f), G) /\ Stands(wire, FilterAt(f), L)
       /\ Stands(wire, CountAt(f), C) /\ Stands(wire, QuantAt(f), Q) /\ Stands(wire, RefreshAt(f), R)
       /\ Stands(wire, TokensAt(f), T) /\ Stands(wire, SkipAt(f), K) /\ Stands(wire, ModesAt(f), M)
       /\ FlagAt(f) \in Place /\ FilterAt(f) \in Place /\ CountAt(f) \in Place /\ QuantAt(f) \in Place
       /\ RefreshAt(f) \in Place /\ TokensAt(f) \in Place /\ SkipAt(f) \in Place /\ ModesAt(f) \in Place
  BY <1>13, <1>15 DEF Chain9
<1> QED BY <1>12, <1>14, <1>16 DEF LaidOut, wire, S, G, L, C, Q, R, T, K, M

-----------------------------------------------------------------------------
(* Sums of the first terms, which sizes, rows and words are made of.          *)
SumsOf(f, n, sum) ==
  /\ sum \in [0..n -> Nat] /\ sum[0] = 0
  /\ \A k \in 1..n : sum[k] = sum[k - 1] + f[k - 1]

LEMMA SumsDefined ==
  ASSUME NEW n \in Nat, NEW f, \A k \in 0..n - 1 : f[k] \in Nat
  PROVE  SumsOf(f, n, Sums(f, n))
<1> DEFINE Rule(g, m) == g = [k \in 0..m |-> IF k = 0 THEN 0 ELSE g[k - 1] + f[k - 1]]
           step == [x \in (1..n) \X Nat |-> x[2] + f[x[1] - 1]]
           sum == Iterated(n, Nat, 0, step)
<1>1. \A k \in 1..n, x \in Nat : step[<<k, x>>] = x + f[k - 1] /\ f[k - 1] \in Nat
  OBVIOUS
<1> HIDE DEF step
<1>2. \A k \in 1..n, x \in Nat : step[<<k, x>>] \in Nat
  <2> SUFFICES ASSUME NEW k \in 1..n, NEW x \in Nat PROVE step[<<k, x>>] \in Nat
    OBVIOUS
  <2>1. step[<<k, x>>] = x + f[k - 1] /\ f[k - 1] \in Nat
    BY <1>1
  <2> QED BY <2>1
<1>3. StepsFrom(sum, n, Nat, 0, step)
  BY <1>2, StepByStep
<1> HIDE DEF sum
<1>4. SumsOf(f, n, sum)
  <2>1. ASSUME NEW k \in 1..n PROVE sum[k] = sum[k - 1] + f[k - 1]
    <3>1. sum[k - 1] \in Nat /\ sum[k] = step[<<k, sum[k - 1]>>]
      BY <1>3 DEF StepsFrom
    <3> QED BY <1>1, <3>1
  <2> QED BY <1>3, <2>1 DEF SumsOf, StepsFrom
<1>5. Rule(sum, n)
  <2>1. \A k \in 0..n : k = 0 \/ k \in 1..n
    OBVIOUS
  <2>2. sum = [k \in 0..n |-> sum[k]]
    BY <1>4 DEF SumsOf
  <2> QED BY <1>4, <2>1, <2>2 DEF SumsOf
<1>6. Sums(f, n) = CHOOSE g : Rule(g, n)
  BY DEF Sums
<1> HIDE DEF Rule
<1>7. Rule(Sums(f, n), n)
  BY <1>5, <1>6
<1> DEFINE S == Sums(f, n)
<1>8. S = [k \in 0..n |-> IF k = 0 THEN 0 ELSE S[k - 1] + f[k - 1]]
  BY <1>7 DEF Rule
<1> HIDE DEF S
<1>9. S[0] = 0 /\ \A k \in 1..n : S[k] = S[k - 1] + f[k - 1]
  <2>1. \A k \in 1..n : k \in 0..n /\ k # 0
    OBVIOUS
  <2> QED BY <1>8, <2>1
<1>10. \A k \in 0..n : S[k] \in Nat
  <2> DEFINE T == {k \in Nat : k <= n => S[k] \in Nat}
  <2>1. 0 \in T
    BY <1>9
  <2>2. ASSUME NEW k \in Nat, k \in T PROVE k + 1 \in T
    <3> SUFFICES ASSUME k + 1 <= n PROVE S[k + 1] \in Nat
      OBVIOUS
    <3>1. k + 1 \in 1..n /\ (k + 1) - 1 = k /\ k \in 0..n - 1 /\ S[k] \in Nat
      BY <2>2
    <3> QED BY <1>9, <3>1
  <2>3. \A k \in Nat : k \in T
    <3> HIDE DEF T
    <3> QED BY <2>1, <2>2, NaturalInduction
  <2> QED BY <2>3
<1>11. S \in [0..n -> Nat]
  BY <1>8, <1>10
<1> QED BY <1>9, <1>11 DEF SumsOf, S

(* Words of three and of two bytes.                                           *)
LEMMA WordOfThree ==
  ASSUME NEW bytes, NEW from \in Nat, bytes[from + 1] \in Nat, bytes[from + 2] \in Nat, bytes[from + 3] \in Nat
  PROVE  Word(bytes, from, 3) = bytes[from + 1] + 256 * bytes[from + 2] + 65536 * bytes[from + 3]
<1> DEFINE f == [k \in 0..3 - 1 |-> bytes[from + k + 1] * 256^k]
<1>1. 256^0 = 1 /\ 256^1 = 256 /\ 256^2 = 65536
  OBVIOUS
<1>2. f[0] = bytes[from + 1] /\ f[1] = 256 * bytes[from + 2] /\ f[2] = 65536 * bytes[from + 3]
  <2>1. from + 0 + 1 = from + 1 /\ from + 1 + 1 = from + 2 /\ from + 2 + 1 = from + 3
    OBVIOUS
  <2>2. f[0] = bytes[from + 0 + 1] * 256^0 /\ f[1] = bytes[from + 1 + 1] * 256^1 /\ f[2] = bytes[from + 2 + 1] * 256^2
    OBVIOUS
  <2> HIDE DEF f
  <2> QED BY <1>1, <2>1, <2>2
<1>3. Word(bytes, from, 3) = Sums(f, 3)[3]
  BY DEF Word
<1> HIDE DEF f
<1>4. \A k \in 0..2 : f[k] \in Nat
  BY <1>2
<1>5. SumsOf(f, 3, Sums(f, 3))
  BY <1>4, SumsDefined
<1> DEFINE s == Sums(f, 3)
<1> HIDE DEF s
<1>6. s[0] = 0 /\ s[1] = s[0] + f[0] /\ s[2] = s[1] + f[1] /\ s[3] = s[2] + f[2]
  <2>1. SumsOf(f, 3, s)
    BY <1>5 DEF s
  <2>2. 1 \in 1..3 /\ 2 \in 1..3 /\ 3 \in 1..3 /\ 1 - 1 = 0 /\ 2 - 1 = 1 /\ 3 - 1 = 2
    OBVIOUS
  <2> QED BY <2>1, <2>2 DEF SumsOf
<1>7. s[3] = f[0] + f[1] + f[2]
  BY <1>2, <1>6
<1> QED BY <1>2, <1>3, <1>7, SMT DEF s

LEMMA WordOfTwo ==
  ASSUME NEW bytes, NEW from \in Nat, bytes[from + 1] \in Nat, bytes[from + 2] \in Nat
  PROVE  Word(bytes, from, 2) = bytes[from + 1] + 256 * bytes[from + 2]
<1> DEFINE f == [k \in 0..2 - 1 |-> bytes[from + k + 1] * 256^k]
<1>1. 256^0 = 1 /\ 256^1 = 256
  OBVIOUS
<1>2. f[0] = bytes[from + 1] /\ f[1] = 256 * bytes[from + 2]
  <2>1. from + 0 + 1 = from + 1 /\ from + 1 + 1 = from + 2
    OBVIOUS
  <2>2. f[0] = bytes[from + 0 + 1] * 256^0 /\ f[1] = bytes[from + 1 + 1] * 256^1
    OBVIOUS
  <2> HIDE DEF f
  <2> QED BY <1>1, <2>1, <2>2
<1>3. Word(bytes, from, 2) = Sums(f, 2)[2]
  BY DEF Word
<1> HIDE DEF f
<1>4. \A k \in 0..1 : f[k] \in Nat
  BY <1>2
<1>5. SumsOf(f, 2, Sums(f, 2))
  BY <1>4, SumsDefined
<1> DEFINE s == Sums(f, 2)
<1> HIDE DEF s
<1>6. s[0] = 0 /\ s[1] = s[0] + f[0] /\ s[2] = s[1] + f[1]
  <2>1. SumsOf(f, 2, s)
    BY <1>5 DEF s
  <2>2. 1 \in 1..2 /\ 2 \in 1..2 /\ 1 - 1 = 0 /\ 2 - 1 = 1
    OBVIOUS
  <2> QED BY <2>1, <2>2 DEF SumsOf
<1>7. s[2] = f[0] + f[1]
  BY <1>2, <1>6
<1> QED BY <1>2, <1>3, <1>7, SMT DEF s

(* Bytes of a word, and the word of its bytes.                                *)
LEMMA ByteOf ==
  ASSUME NEW w \in Nat
  PROVE  Byte(w, 0) = w % 256 /\ Byte(w, 1) = (w \div 256) % 256 /\ Byte(w, 2) = (w \div 65536) % 256
<1>1. 256^0 = 1 /\ 256^1 = 256 /\ 256^2 = 65536
  BY SMT
<1> QED BY <1>1, SMT DEF Byte

LEMMA BytesAreNat ==
  ASSUME NEW w \in Nat
  PROVE  Byte(w, 0) \in Nat /\ Byte(w, 1) \in Nat /\ Byte(w, 2) \in Nat
BY ByteOf, SMT

LEMMA FirstThree ==
  ASSUME NEW bytes, bytes[1] \in Nat, bytes[2] \in Nat, bytes[3] \in Nat
  PROVE  Word(bytes, 0, 3) = bytes[1] + 256 * bytes[2] + 65536 * bytes[3]
<1>1. 0 \in Nat /\ 0 + 1 = 1 /\ 0 + 2 = 2 /\ 0 + 3 = 3
  OBVIOUS
<1> QED BY <1>1, WordOfThree, SMT

LEMMA Divided ==
  ASSUME NEW w \in Nat
  PROVE  w \div 256 \in Nat /\ w % 256 \in Nat /\ w % 256 < 256 /\ w = 256 * (w \div 256) + (w % 256)
BY SMT

LEMMA ThreeBytes ==
  ASSUME NEW w \in Nat, w < 256 * 65536
  PROVE  (w % 256) + 256 * ((w \div 256) % 256) + 65536 * ((w \div 65536) % 256) = w
<1> DEFINE q == w \div 256
           p == q \div 256
<1>1. w = 256 * q + (w % 256) /\ q \in Nat /\ w % 256 \in Nat /\ w % 256 < 256
  BY Divided
<1>2. w \div 65536 = p
  BY SMT
<1>3. q < 65536
  BY SMT
<1> HIDE DEF q
<1>4. q = 256 * p + (q % 256) /\ p \in Nat /\ q % 256 \in Nat /\ q % 256 < 256
  BY <1>1, Divided
<1>5. p < 256
  BY <1>1, <1>3, SMT
<1> HIDE DEF p
<1>6. p % 256 = p
  BY <1>4, <1>5, SMT
<1>7. (w % 256) + 256 * (q % 256) + 65536 * (p % 256) = w
  BY <1>1, <1>4, <1>6, SMT
<1> QED BY <1>2, <1>7, SMT DEF q

LEMMA TwoBytes ==
  ASSUME NEW w \in Nat, w < 65536
  PROVE  (w % 256) + 256 * ((w \div 256) % 256) = w
<1>1. w = 256 * (w \div 256) + (w % 256) /\ w \div 256 \in Nat
  BY Divided
<1>2. w \div 256 < 256
  BY SMT
<1>3. (w \div 256) % 256 = w \div 256
  BY <1>1, <1>2, SMT
<1> QED BY <1>1, <1>3, SMT

(* A size that fits its three bytes is read as it was.                        *)
LEMMA SizeWordReads ==
  ASSUME NEW w \in Nat, w < 2^24
  PROVE  Word(Bytes(w, 3), 0, 3) = w
<1> DEFINE b == Bytes(w, 3)
<1>0. 2^24 = 256 * 65536
  BY SMT
<1>1. b[1] = Byte(w, 0) /\ b[2] = Byte(w, 1) /\ b[3] = Byte(w, 2)
  BY DEF Bytes
<1> HIDE DEF b
<1>3. b[1] \in Nat /\ b[2] \in Nat /\ b[3] \in Nat
  BY <1>1, BytesAreNat, Zenon
<1>4. Word(b, 0, 3) = b[1] + 256 * b[2] + 65536 * b[3]
  BY <1>3, FirstThree, SMT
<1>42. Word(b, 0, 3) = Byte(w, 0) + 256 * Byte(w, 1) + 65536 * Byte(w, 2)
  BY <1>1, <1>4, SMT
<1>5. Word(b, 0, 3) = (w % 256) + 256 * ((w \div 256) % 256) + 65536 * ((w \div 65536) % 256)
  <2>1. Byte(w, 0) = w % 256 /\ Byte(w, 1) = (w \div 256) % 256 /\ Byte(w, 2) = (w \div 65536) % 256
    <3>1. 256^0 = 1 /\ 256^1 = 256 /\ 256^2 = 65536
      BY SMT
    <3> QED BY <3>1, SMT DEF Byte
  <2> QED BY <1>42, <2>1, SMT
<1>6. w < 256 * 65536
  BY <1>0, SMT
<1> QED BY <1>5, <1>6, ThreeBytes, SMT DEF b

-----------------------------------------------------------------------------
(* The frame tag, by its bytes.                                              *)
TagBytes(tag, key, word, h, v) ==
  /\ tag \in Seq(Nat) /\ Len(tag) = IF key THEN 10 ELSE 3
  /\ tag[1] = Byte(word, 0) /\ tag[2] = Byte(word, 1) /\ tag[3] = Byte(word, 2)
  /\ key => tag[7] = Byte(h, 0) /\ tag[8] = Byte(h, 1) /\ tag[9] = Byte(v, 0) /\ tag[10] = Byte(v, 1)

LEMMA BytesJoined ==
  ASSUME NEW a \in Seq(Nat), NEW b \in Seq(Nat)
  PROVE  /\ a \o b \in Seq(Nat) /\ Len(a \o b) = Len(a) + Len(b) /\ Len(a) \in Nat /\ Len(b) \in Nat
         /\ \A k \in 1..Len(a) : (a \o b)[k] = a[k]
         /\ \A k \in 1..Len(b) : (a \o b)[Len(a) + k] = b[k]
OBVIOUS

LEMMA BytesAre ==
  ASSUME NEW w \in Nat
  PROVE  /\ Bytes(w, 2) \in Seq(Nat) /\ Len(Bytes(w, 2)) = 2
         /\ Bytes(w, 2)[1] = Byte(w, 0) /\ Bytes(w, 2)[2] = Byte(w, 1)
         /\ Bytes(w, 3) \in Seq(Nat) /\ Len(Bytes(w, 3)) = 3
         /\ Bytes(w, 3)[1] = Byte(w, 0) /\ Bytes(w, 3)[2] = Byte(w, 1) /\ Bytes(w, 3)[3] = Byte(w, 2)
<1>1. Byte(w, 0) \in Nat /\ Byte(w, 1) \in Nat /\ Byte(w, 2) \in Nat
  <2>1. 256^0 = 1 /\ 256^1 = 256 /\ 256^2 = 65536
    BY SMT
  <2> QED BY <2>1, SMT DEF Byte
<1>2. \A k \in 1..3 : Byte(w, k - 1) \in Nat
  <2>1. \A k \in 1..3 : k - 1 = 0 \/ k - 1 = 1 \/ k - 1 = 2
    OBVIOUS
  <2> QED BY <1>1, <2>1
<1> QED BY <1>2 DEF Bytes

LEMMA TagIsWritten ==
  ASSUME NEW key \in BOOLEAN, NEW version, NEW show, NEW size, NEW width, NEW height, NEW hscale, NEW vscale,
         NEW word \in Nat, NEW h \in Nat, NEW v \in Nat,
         word = TagWord(key, version, show, size),
         h = hscale * 2^14 + (width % 2^14), v = vscale * 2^14 + (height % 2^14)
  PROVE  TagBytes(write_frame_tag(key, version, show, size, width, height, hscale, vscale), key, word, h, v)
<1> DEFINE A == Bytes(word, 3)
           H == Bytes(h, 2)
           V == Bytes(v, 2)
           tag == write_frame_tag(key, version, show, size, width, height, hscale, vscale)
<1>1. tag = A \o (IF key THEN (StartCode \o H) \o V ELSE <<>>)
  BY Zenon DEF write_frame_tag, When
<1>2. A \in Seq(Nat) /\ Len(A) = 3 /\ A[1] = Byte(word, 0) /\ A[2] = Byte(word, 1) /\ A[3] = Byte(word, 2)
  BY BytesAre
<1>3. H \in Seq(Nat) /\ Len(H) = 2 /\ H[1] = Byte(h, 0) /\ H[2] = Byte(h, 1)
  BY BytesAre
<1>4. V \in Seq(Nat) /\ Len(V) = 2 /\ V[1] = Byte(v, 0) /\ V[2] = Byte(v, 1)
  BY BytesAre
<1>5. StartCode \in Seq(Nat) /\ Len(StartCode) = 3
  BY DEF StartCode
<1> HIDE DEF A, H, V, tag
<1>6. CASE ~key
  <2>1. tag = A \o <<>>
    BY <1>1, <1>6
  <2>2. tag = A
    BY <1>2, <2>1
  <2> QED BY <1>2, <1>6, <2>2 DEF TagBytes, tag
<1>7. CASE key
  <2> DEFINE X == StartCode \o H
             Y == X \o V
  <2>1. X \in Seq(Nat) /\ Len(X) = 5 /\ X[4] = H[1] /\ X[5] = H[2]
    <3>1. /\ X \in Seq(Nat) /\ Len(X) = Len(StartCode) + Len(H)
          /\ \A k \in 1..Len(H) : X[Len(StartCode) + k] = H[k]
      BY <1>3, <1>5, BytesJoined
    <3>2. 3 + 1 = 4 /\ 3 + 2 = 5 /\ 3 + 2 = 5 /\ 1 \in 1..2 /\ 2 \in 1..2
      OBVIOUS
    <3> HIDE DEF X
    <3> QED BY <1>3, <1>5, <3>1, <3>2
  <2>2. tag = A \o Y
    BY <1>1, <1>7
  <2> HIDE DEF X
  <2>3. Y \in Seq(Nat) /\ Len(Y) = 7 /\ Y[4] = X[4] /\ Y[5] = X[5] /\ Y[6] = V[1] /\ Y[7] = V[2]
    <3>1. /\ Y \in Seq(Nat) /\ Len(Y) = Len(X) + Len(V)
          /\ \A k \in 1..Len(X) : Y[k] = X[k]
          /\ \A k \in 1..Len(V) : Y[Len(X) + k] = V[k]
      BY <1>4, <2>1, BytesJoined
    <3>2. 5 + 1 = 6 /\ 5 + 2 = 7 /\ 1 \in 1..2 /\ 2 \in 1..2 /\ 4 \in 1..5 /\ 5 \in 1..5
      OBVIOUS
    <3> HIDE DEF Y
    <3> QED BY <1>4, <2>1, <3>1, <3>2
  <2> HIDE DEF Y
  <2>4. /\ tag \in Seq(Nat) /\ Len(tag) = 10 /\ tag[1] = A[1] /\ tag[2] = A[2] /\ tag[3] = A[3]
        /\ tag[7] = Y[4] /\ tag[8] = Y[5] /\ tag[9] = Y[6] /\ tag[10] = Y[7]
    <3>1. /\ tag \in Seq(Nat) /\ Len(tag) = Len(A) + Len(Y)
          /\ \A k \in 1..Len(A) : tag[k] = A[k]
          /\ \A k \in 1..Len(Y) : tag[Len(A) + k] = Y[k]
      BY <1>2, <2>2, <2>3, BytesJoined
    <3>2. /\ 3 + 7 = 10 /\ 3 + 4 = 7 /\ 3 + 5 = 8 /\ 3 + 6 = 9 /\ 1 \in 1..3 /\ 2 \in 1..3 /\ 3 \in 1..3
          /\ 4 \in 1..7 /\ 5 \in 1..7 /\ 6 \in 1..7 /\ 7 \in 1..7
      OBVIOUS
    <3> QED BY <1>2, <2>3, <3>1, <3>2, SMTT(30)
  <2> QED BY <1>2, <1>3, <1>4, <1>7, <2>1, <2>3, <2>4 DEF TagBytes, tag
<1> QED BY <1>6, <1>7

(* What the bits of the word are.                                             *)
Packed(word, key, version, show, size) ==
  /\ word \in Nat /\ word < 256 * 65536
  /\ word % 2 = (IF key THEN 0 ELSE 1)
  /\ (word \div 2) % 8 = version
  /\ (word \div 16) % 2 = (IF show THEN 1 ELSE 0)
  /\ (word \div 32) % 2^19 = size

LEMMA TagWordParts ==
  ASSUME NEW key \in BOOLEAN, NEW version \in 0..7, NEW show \in BOOLEAN, NEW size \in Nat, size < 2^19
  PROVE  Packed(TagWord(key, version, show, size), key, version, show, size)
<1>0. 2^19 = 8 * 65536
  BY SMT
<1> DEFINE k == IF key THEN 0 ELSE 1
           s == IF show THEN 1 ELSE 0
           w == TagWord(key, version, show, size)
<1>1. k \in 0..1 /\ s \in 0..1 /\ version % 8 = version
  BY SMT
<1>2. size % 2^19 = size
  BY <1>0, SMT
<1>3. w = k + 2 * version + 16 * s + 32 * size
  BY <1>1, <1>2, SMT DEF TagWord
<1> HIDE DEF k, s, w
<1>4. w \in Nat /\ w < 256 * 65536 /\ w % 2 = k
  BY <1>0, <1>1, <1>3, SMT
<1>5. w \div 2 = version + 8 * s + 16 * size
  BY <1>1, <1>3, SMT
<1>6. (w \div 2) % 8 = version
  BY <1>1, <1>5, SMT
<1>7. w \div 16 = s + 2 * size
  BY <1>1, <1>3, SMT
<1>8. (w \div 16) % 2 = s
  BY <1>1, <1>7, SMT
<1>9. w \div 32 = size
  BY <1>1, <1>3, SMT
<1> QED BY <1>2, <1>4, <1>6, <1>8, <1>9, SMT DEF Packed, w, k, s

(* The bytes of a tag of version 0, whichever its show bit is.                *)
LowBytes(word, key, show, size) ==
  /\ Byte(word, 0) = (IF key THEN 0 ELSE 1) + (IF show THEN 16 ELSE 0) + 32 * (size % 8)
  /\ Byte(word, 1) = (size \div 8) % 256
  /\ Byte(word, 2) = (size \div 2048) % 256

LEMMA TagWordBytes ==
  ASSUME NEW key \in BOOLEAN, NEW show \in BOOLEAN, NEW size \in Nat, size < 2^19
  PROVE  LowBytes(TagWord(key, 0, show, size), key, show, size)
<1>0. 2^19 = 8 * 65536 /\ 256^0 = 1 /\ 256^1 = 256 /\ 256^2 = 65536
  BY SMT
<1> DEFINE k == IF key THEN 0 ELSE 1
           s == IF show THEN 16 ELSE 0
           w == TagWord(key, 0, show, size)
           a == size \div 8
           r == size % 8
<1>1. k \in 0..1 /\ s \in {0, 16} /\ a \in Nat /\ r \in 0..7 /\ size = 8 * a + r
  BY SMT
<1>2. size % 2^19 = size
  BY <1>0, SMT
<1>3. w = k + s + 32 * size
  BY <1>1, <1>2, SMT DEF TagWord
<1>4. size \div 2048 = a \div 256
  BY SMT
<1> HIDE DEF k, s, w, a, r
<1>5. w = (k + s + 32 * r) + 256 * a
  BY <1>1, <1>3, SMT
<1>6. k + s + 32 * r \in 0..255
  BY <1>1, SMT
<1>7. w % 256 = k + s + 32 * r /\ w \div 256 = a /\ w \in Nat
  BY <1>1, <1>5, <1>6, SMT
<1>8. w \div 65536 = a \div 256
  BY <1>7, SMT
<1>9. Byte(w, 0) = w % 256 /\ Byte(w, 1) = (w \div 256) % 256 /\ Byte(w, 2) = (w \div 65536) % 256
  BY <1>0, <1>7, SMT DEF Byte
<1> QED BY <1>4, <1>7, <1>8, <1>9, SMT DEF LowBytes, k, s, w, a, r

LEMMA ShowBitSet ==
  ASSUME NEW tag, NEW key \in BOOLEAN, NEW show \in BOOLEAN, NEW size \in Nat, size < 2^19, NEW h, NEW v,
         TagBytes(tag, key, TagWord(key, 0, TRUE, size), h, v)
  PROVE  TagBytes(set_show_frame_bit(tag, show), key, TagWord(key, 0, show, size), h, v)
<1> DEFINE k == IF key THEN 0 ELSE 1
           s == IF show THEN 16 ELSE 0
           r == size % 8
           b == tag[1]
           set == set_show_frame_bit(tag, show)
           shown == TagWord(key, 0, TRUE, size)
           word == TagWord(key, 0, show, size)
<1>0. LowBytes(shown, key, TRUE, size) /\ LowBytes(word, key, show, size) /\ TagBytes(tag, key, shown, h, v)
  BY TagWordBytes, Zenon
<1> HIDE DEF shown, word
<1>1. b = k + 16 + 32 * r
  <2>1. b = Byte(shown, 0)
    BY <1>0 DEF TagBytes
  <2>2. Byte(shown, 0) = (IF key THEN 0 ELSE 1) + 16 + 32 * (size % 8)
    BY <1>0 DEF LowBytes
  <2> QED BY <2>1, <2>2
<1>2. k \in 0..1 /\ s \in {0, 16} /\ r \in 0..7
  BY SMT
<1>3. set = [tag EXCEPT ![1] = (b - (16 * ((b \div 16) % 2))) + s]
  BY DEF set_show_frame_bit
<1> HIDE DEF k, r, b, s
<1>4. (b - (16 * ((b \div 16) % 2))) + s = k + s + 32 * r
  <2>1. b \div 16 = 1 + 2 * r
    BY <1>1, <1>2, SMT
  <2>2. (b \div 16) % 2 = 1
    BY <1>2, <2>1, SMT
  <2> QED BY <1>1, <1>2, <2>2, SMT
<1>5. k + s + 32 * r \in Nat
  BY <1>2, SMT
<1>6. set = [tag EXCEPT ![1] = k + s + 32 * r]
  BY <1>3, <1>4
<1> HIDE DEF set
<1>7. tag \in Seq(Nat) /\ Len(tag) = IF key THEN 10 ELSE 3
  BY DEF TagBytes
<1>8. /\ set \in Seq(Nat) /\ Len(set) = Len(tag) /\ set[1] = k + s + 32 * r
      /\ \A n \in 2..Len(tag) : set[n] = tag[n]
  <2>1. Len(tag) \in Nat /\ 1 \in 1..Len(tag)
    BY <1>7
  <2> QED BY <1>5, <1>6, <1>7, <2>1
<1>9. Byte(word, 0) = k + s + 32 * r
  BY <1>0, SMT DEF LowBytes, k, s, r
<1>10. /\ Byte(word, 1) = Byte(shown, 1)
       /\ Byte(word, 2) = Byte(shown, 2)
  BY <1>0, SMT DEF LowBytes
<1>11. set[2] = tag[2] /\ set[3] = tag[3]
  BY <1>7, <1>8
<1>12. key => set[7] = tag[7] /\ set[8] = tag[8] /\ set[9] = tag[9] /\ set[10] = tag[10]
  BY <1>7, <1>8
<1> QED BY <1>0, <1>7, <1>8, <1>9, <1>10, <1>11, <1>12 DEF TagBytes, set, word

(* A picture's side and its scale in one word of two bytes.                   *)
LEMMA SideReads ==
  ASSUME NEW bytes, NEW from \in Nat, NEW side \in Nat, side < 2^14, NEW scale \in 0..3,
         bytes[from + 1] = Byte(scale * 2^14 + side, 0), bytes[from + 2] = Byte(scale * 2^14 + side, 1)
  PROVE  Word(bytes, from, 2) % 2^14 = side /\ Word(bytes, from, 2) \div 2^14 = scale
<1> DEFINE w == scale * 2^14 + side
<1>0. 2^14 = 16384 /\ 256^0 = 1 /\ 256^1 = 256
  BY SMT
<1>1. w = scale * 16384 + side
  BY <1>0
<1>2. bytes[from + 1] = Byte(w, 0) /\ bytes[from + 2] = Byte(w, 1)
  OBVIOUS
<1> HIDE DEF w
<1>3. w \in Nat /\ w < 65536 /\ w % 16384 = side /\ w \div 16384 = scale
  BY <1>0, <1>1, SMT
<1>4. Byte(w, 0) = w % 256 /\ Byte(w, 1) = (w \div 256) % 256 /\ Byte(w, 0) \in Nat /\ Byte(w, 1) \in Nat
  BY <1>0, <1>3, SMT DEF Byte
<1>5. Word(bytes, from, 2) = bytes[from + 1] + 256 * bytes[from + 2]
  <2>1. bytes[from + 1] \in Nat /\ bytes[from + 2] \in Nat
    BY <1>2, <1>4
  <2> QED BY <2>1, WordOfTwo
<1>6. Word(bytes, from, 2) = (w % 256) + 256 * ((w \div 256) % 256)
  BY <1>2, <1>4, <1>5
<1>7. Word(bytes, from, 2) = w
  BY <1>3, <1>6, TwoBytes
<1> QED BY <1>0, <1>3, <1>7

(* What a reader of a tag finds in it.                                        *)
TagSays(tag, key, show, size) == tag.key = key /\ tag.show = show /\ tag.size = size
PictureSays(tag, width, hscale, height, vscale) ==
  tag.picture = Some([width |-> width, hscale |-> hscale, height |-> height, vscale |-> vscale])

LEMMA TagReads ==
  ASSUME NEW tag, NEW key \in BOOLEAN, NEW version \in 0..7, NEW show \in BOOLEAN, NEW size \in Nat, size < 2^19,
         NEW h, NEW v, TagBytes(tag, key, TagWord(key, version, show, size), h, v)
  PROVE  TagSays(parse_header(tag), key, show, size)
<1> DEFINE w == TagWord(key, version, show, size)
<1>0. 256^0 = 1 /\ 256^1 = 256 /\ 256^2 = 65536 /\ 0 + 1 = 1 /\ 0 + 2 = 2 /\ 0 + 3 = 3
  BY SMT
<1>1. /\ w \in Nat /\ w < 256 * 65536 /\ w % 2 = (IF key THEN 0 ELSE 1)
      /\ (w \div 16) % 2 = (IF show THEN 1 ELSE 0) /\ (w \div 32) % 2^19 = size
  <2>1. Packed(w, key, version, show, size)
    BY TagWordParts, Zenon
  <2> HIDE DEF w
  <2> QED BY <2>1, SMT DEF Packed
<1>2. tag[1] = Byte(w, 0) /\ tag[2] = Byte(w, 1) /\ tag[3] = Byte(w, 2)
  BY DEF TagBytes
<1> HIDE DEF w
<1>3. /\ Byte(w, 0) = w % 256 /\ Byte(w, 1) = (w \div 256) % 256 /\ Byte(w, 2) = (w \div 65536) % 256
      /\ Byte(w, 0) \in Nat /\ Byte(w, 1) \in Nat /\ Byte(w, 2) \in Nat
  BY <1>0, <1>1, SMT DEF Byte
<1>4. Word(tag, 0, 3) = tag[0 + 1] + 256 * tag[0 + 2] + 65536 * tag[0 + 3]
  <2>1. tag[0 + 1] \in Nat /\ tag[0 + 2] \in Nat /\ tag[0 + 3] \in Nat
    BY <1>0, <1>2, <1>3, SMT
  <2> QED BY <2>1, WordOfThree, SMT
<1>5. Word(tag, 0, 3) = (w % 256) + 256 * ((w \div 256) % 256) + 65536 * ((w \div 65536) % 256)
  BY <1>0, <1>2, <1>3, <1>4, SMT
<1>6. Word(tag, 0, 3) = w
  BY <1>1, <1>5, ThreeBytes, SMT
<1> DEFINE header == parse_header(tag)
<1>7. header.key = (w % 2 = 0) /\ header.show = ((w \div 16) % 2 = 1) /\ header.size = (w \div 32) % 2^19
  BY <1>6, SMT DEF parse_header
<1> HIDE DEF header
<1>8. (w % 2 = 0) = key /\ ((w \div 16) % 2 = 1) = show
  BY <1>1, SMT
<1>9. (w \div 32) % 2^19 = size
  BY <1>1, SMT
<1> QED BY <1>7, <1>8, <1>9, Zenon DEF TagSays, header

LEMMA PictureReads ==
  ASSUME NEW tag, NEW version \in 0..7, NEW show \in BOOLEAN, NEW size \in Nat, size < 2^19,
         NEW width \in Nat, width < 2^14, NEW height \in Nat, height < 2^14, NEW hscale \in 0..3, NEW vscale \in 0..3,
         TagBytes(tag, TRUE, TagWord(TRUE, version, show, size), hscale * 2^14 + width, vscale * 2^14 + height)
  PROVE  PictureSays(parse_header(tag), width, hscale, height, vscale)
<1>1. TagSays(parse_header(tag), TRUE, show, size)
  BY TagReads, Zenon
<1>2. parse_header(tag).key = (Word(tag, 0, 3) % 2 = 0)
  BY DEF parse_header
<1>3. Word(tag, 0, 3) % 2 = 0
  BY <1>1, <1>2 DEF TagSays
<1>4. 6 + 1 = 7 /\ 6 + 2 = 8 /\ 8 + 1 = 9 /\ 8 + 2 = 10
  OBVIOUS
<1>5. Word(tag, 6, 2) % 2^14 = width /\ Word(tag, 6, 2) \div 2^14 = hscale
  <2>1. tag[6 + 1] = Byte(hscale * 2^14 + width, 0) /\ tag[6 + 2] = Byte(hscale * 2^14 + width, 1) /\ 6 \in Nat
    BY <1>4 DEF TagBytes
  <2> QED BY <2>1, SideReads
<1>6. Word(tag, 8, 2) % 2^14 = height /\ Word(tag, 8, 2) \div 2^14 = vscale
  <2>1. tag[8 + 1] = Byte(vscale * 2^14 + height, 0) /\ tag[8 + 2] = Byte(vscale * 2^14 + height, 1) /\ 8 \in Nat
    BY <1>4 DEF TagBytes
  <2> QED BY <2>1, SideReads
<1>7. parse_header(tag).picture
        = (IF Word(tag, 0, 3) % 2 = 0
           THEN Some([width |-> Word(tag, 6, 2) % 2^14, hscale |-> Word(tag, 6, 2) \div 2^14,
                      height |-> Word(tag, 8, 2) % 2^14, vscale |-> Word(tag, 8, 2) \div 2^14])
           ELSE None)
  BY DEF parse_header
<1> QED BY <1>3, <1>5, <1>6, <1>7 DEF PictureSays

-----------------------------------------------------------------------------
(* What the encoder's writers write, in the syntax of the format.            *)
LEMMA BitsJoined ==
  ASSUME NEW a \in Wire, NEW b \in Wire
  PROVE  /\ a \o b \in Wire /\ Len(a \o b) = Len(a) + Len(b)
         /\ \A k \in 1..Len(a) : (a \o b)[k] = a[k]
         /\ \A k \in 1..Len(b) : (a \o b)[Len(a) + k] = b[k]
BY DEF Wire

LEMMA SameBits ==
  ASSUME NEW a \in Wire, NEW b \in Wire, Len(a) = Len(b), \A k \in 1..Len(a) : a[k] = b[k]
  PROVE  a = b
<1>1. a = [k \in 1..Len(a) |-> a[k]] /\ b = [k \in 1..Len(b) |-> b[k]]
  BY DEF Wire
<1> QED BY <1>1

(* A table without a value is a flag for each of its entries.                 *)
LEMMA NothingInTable ==
  ASSUME NEW probs \in Seq(Nat), NEW n \in Widths
  PROVE  Optionals(NoneOf(Len(probs)), probs, n, FALSE) = [k \in DOMAIN probs |-> [p |-> probs[k], b |-> FALSE]]
<1> DEFINE N == Len(probs)
           table == NoneOf(N)
           upto == FirstEntries(table, probs, n, FALSE)
           flags(m) == [k \in 1..m |-> [p |-> probs[k], b |-> FALSE]]
           S == {m \in Nat : m <= N => upto[m] = flags(m)}
<1>1. N \in Nat /\ DOMAIN probs = 1..N /\ FALSE \in BOOLEAN /\ Len(table) = N
      /\ table \in [1..N -> Maybe(Fitting(n, FALSE))] /\ \A k \in 1..N : table[k] = None
  <2>1. N \in Nat
    OBVIOUS
  <2>2. None \in Maybe(Fitting(n, FALSE))
    BY DEF None, Maybe
  <2> HIDE DEF N
  <2>3. table = [k \in 1..N |-> None]
    BY DEF NoneOf
  <2> HIDE DEF table
  <2>4. table \in [1..N -> Maybe(Fitting(n, FALSE))] /\ \A k \in 1..N : table[k] = None
    BY <2>2, <2>3
  <2>5. Len(table) = N
    BY <2>1, <2>4
  <2>6. DOMAIN probs = 1..N
    BY DEF N
  <2> QED BY <2>1, <2>4, <2>5, <2>6
<1>2. upto[0] = <<>> /\ \A k \in 1..N : upto[k] = upto[k - 1] \o Entry(table[k], probs[k], n, FALSE)
  <2> HIDE DEF table
  <2> QED BY <1>1, FirstEntriesDefined
<1>3. \A k \in 1..N : Entry(table[k], probs[k], n, FALSE) = Flag(probs[k], FALSE)
  <2> SUFFICES ASSUME NEW k \in 1..N PROVE Entry(table[k], probs[k], n, FALSE) = Flag(probs[k], FALSE)
    OBVIOUS
  <2>1. probs[k] \in Nat
    BY <1>1
  <2>2. Entry(table[k], probs[k], n, FALSE) = Flag(probs[k], FALSE) \o <<>>
    BY <1>1 DEF Entry, When
  <2>3. Flag(probs[k], FALSE) \in Wire
    BY <1>1, <2>1, FlagIsWire
  <2> QED BY <2>2, <2>3, NothingJoined
<1> HIDE DEF upto, table, N
<1>4. 0 \in S
  <2>1. flags(0) = <<>>
    OBVIOUS
  <2> HIDE DEF flags
  <2> QED BY <1>2, <2>1
<1>5. ASSUME NEW m \in Nat, m \in S PROVE m + 1 \in S
  <2> SUFFICES ASSUME m + 1 <= N PROVE upto[m + 1] = flags(m + 1)
    OBVIOUS
  <2>1. m + 1 \in 1..N /\ (m + 1) - 1 = m /\ m <= N
    BY <1>1
  <2>2. upto[m + 1] = flags(m) \o Flag(probs[m + 1], FALSE)
    <3>1. upto[m] = flags(m)
      BY <1>5, <2>1
    <3>2. upto[m + 1] = upto[(m + 1) - 1] \o Entry(table[m + 1], probs[m + 1], n, FALSE)
      BY <1>2, <2>1
    <3> HIDE DEF flags
    <3> QED BY <1>3, <2>1, <3>1, <3>2
  <2>3. \A k \in 1..m + 1 : probs[k] \in Nat
    BY <1>1, <2>1 DEF N
  <2>4. flags(m) \in Wire /\ Len(flags(m)) = m /\ flags(m + 1) \in Wire /\ Len(flags(m + 1)) = m + 1
    <3>1. \A k \in 1..m + 1 : [p |-> probs[k], b |-> FALSE] \in [p : Nat, b : BOOLEAN]
      BY <2>3
    <3>2. \A k \in 1..m : k \in 1..m + 1
      OBVIOUS
    <3> QED BY <3>1, <3>2 DEF Wire
  <2> DEFINE last == Flag(probs[m + 1], FALSE)
  <2>5. last \in Wire /\ Len(last) = 1 /\ last[1] = [p |-> probs[m + 1], b |-> FALSE]
    <3>1. probs[m + 1] \in Nat /\ FALSE \in BOOLEAN
      BY <2>3
    <3>2. last[1] = [p |-> probs[m + 1], b |-> FALSE]
      BY DEF Flag
    <3> HIDE DEF last
    <3> QED BY <3>1, <3>2, FlagIsWire DEF last
  <2>6. \A k \in 1..m : flags(m)[k] = flags(m + 1)[k]
    OBVIOUS
  <2>7. flags(m + 1)[m + 1] = [p |-> probs[m + 1], b |-> FALSE]
    OBVIOUS
  <2> DEFINE a == flags(m)
             b == flags(m + 1)
  <2> HIDE DEF last, a, b
  <2>8. a \in Wire /\ Len(a) = m /\ b \in Wire /\ Len(b) = m + 1 /\ b[m + 1] = last[1]
        /\ \A k \in 1..m : a[k] = b[k]
    BY <2>4, <2>5, <2>6, <2>7 DEF a, b
  <2>9. a \o last = b
    <3>1. /\ a \o last \in Wire /\ Len(a \o last) = m + 1
          /\ \A k \in 1..m : (a \o last)[k] = a[k]
          /\ (a \o last)[m + 1] = last[1]
      <4>1. 1 \in 1..1 /\ m + 1 \in Nat
        OBVIOUS
      <4>2. /\ a \o last \in Wire /\ Len(a \o last) = Len(a) + Len(last)
            /\ \A k \in 1..Len(a) : (a \o last)[k] = a[k]
            /\ \A k \in 1..Len(last) : (a \o last)[Len(a) + k] = last[k]
        BY <2>5, <2>8, BitsJoined
      <4> QED BY <2>5, <2>8, <4>1, <4>2
    <3>2. \A k \in 1..m + 1 : (a \o last)[k] = b[k]
      <4>1. \A k \in 1..m + 1 : k \in 1..m \/ k = m + 1
        OBVIOUS
      <4> QED BY <2>8, <3>1, <4>1
    <3> QED BY <2>8, <3>1, <3>2, SameBits
  <2> QED BY <2>2, <2>9 DEF last, a, b
<1>6. N \in S
  <2> HIDE DEF S
  <2> QED BY <1>1, <1>4, <1>5, NaturalInduction
<1>7. upto[N] = flags(N)
  BY <1>1, <1>6
<1>8. Optionals(table, probs, n, FALSE) = upto[N]
  BY <1>1 DEF Optionals, upto
<1>9. [k \in DOMAIN probs |-> [p |-> probs[k], b |-> FALSE]] = flags(N)
  BY <1>1
<1> QED BY <1>7, <1>8, <1>9 DEF table, N

(* The filter's fields, without deltas and with the deltas the call means.    *)
LEMMA PlainFilter ==
  ASSUME NEW f \in [simple : BOOLEAN, level : Unsigned(6), sharpness : Unsigned(3)]
  PROVE  write_loop_filter(f) = write_loop_filter_with_deltas(f, NoDeltas)
<1> DEFINE a == write_loop_filter(f)
<1>1. NoDeltas.enabled = FALSE
  BY DEF NoDeltas
<1>2. write_loop_filter_with_deltas(f, NoDeltas) = a \o <<>>
  BY <1>1 DEF write_loop_filter_with_deltas, write_loop_filter, When
<1>3. a \in Wire
  <2>1. f.simple \in BOOLEAN /\ f.level \in Unsigned(6) /\ f.sharpness \in Unsigned(3) /\ 6 \in Widths /\ 3 \in Widths
    BY DEF Widths
  <2> DEFINE S == Flag(128, f.simple)
             L == Literal(f.level, 6)
             H == Literal(f.sharpness, 3)
             E == Flag(128, FALSE)
  <2>2. S \in Wire /\ E \in Wire
    BY <2>1, FlagIsWire, ZenonT(60)
  <2>3. L \in Wire /\ H \in Wire
    BY <2>1, UnsignedIsWire
  <2>4. a = ((S \o L) \o H) \o E
    BY DEF write_loop_filter
  <2> HIDE DEF S, L, H, E, a
  <2>5. S \o L \in Wire
    BY <2>2, <2>3, Joined
  <2>6. (S \o L) \o H \in Wire
    BY <2>3, <2>5, Joined
  <2> QED BY <2>2, <2>4, <2>6, Joined
<1> HIDE DEF a
<1>4. a \o <<>> = a
  BY <1>3, NothingJoined
<1> QED BY <1>2, <1>4 DEF a

LEMMA DeltasMeantAreWritten ==
  ASSUME NEW f, NEW d \in DeltaSets
  PROVE  /\ DeltasMeant(d) \in DeltaSets /\ DeltasLeftOut(DeltasMeant(d))
         /\ write_loop_filter_with_deltas(f, d) = write_loop_filter_with_deltas(f, DeltasMeant(d))
<1>1. NoneOf(4) \in [1..4 -> Maybe(Signed(6))]
  BY DEF NoneOf, None, Maybe
<1> DEFINE NoUpdate == [enabled |-> TRUE, update |-> FALSE, ref |-> NoneOf(4), mode |-> NoneOf(4)]
<1>2. CASE ~d.enabled
  <2>1. DeltasMeant(d) = NoDeltas
    BY <1>2 DEF DeltasMeant
  <2>2. NoDeltas \in DeltaSets /\ DeltasLeftOut(NoDeltas) /\ NoDeltas.enabled = FALSE /\ d.enabled = FALSE
    BY <1>1, <1>2 DEF NoDeltas, DeltaSets, DeltasLeftOut
  <2> QED BY <2>1, <2>2 DEF write_loop_filter_with_deltas, When
<1>3. CASE d.enabled /\ ~d.update
  <2>1. DeltasMeant(d) = NoUpdate
    BY <1>3 DEF DeltasMeant, NoDeltas
  <2>2. /\ NoUpdate \in DeltaSets /\ DeltasLeftOut(NoUpdate)
        /\ NoUpdate.enabled = TRUE /\ d.enabled = TRUE /\ NoUpdate.update = FALSE /\ d.update = FALSE
    BY <1>1, <1>3 DEF DeltaSets, DeltasLeftOut
  <2> HIDE DEF NoUpdate
  <2> QED BY <2>1, <2>2 DEF write_loop_filter_with_deltas, When
<1>4. CASE d.enabled /\ d.update
  <2>1. DeltasMeant(d) = d
    BY <1>4 DEF DeltasMeant
  <2> QED BY <1>4, <2>1 DEF DeltasLeftOut
<1>5. d.enabled \in BOOLEAN /\ d.update \in BOOLEAN
  BY DEF DeltaSets
<1> QED BY <1>2, <1>3, <1>4, <1>5

LEMMA OneIs ==
  ASSUME NEW x PROVE Some(x) # None /\ The(Some(x)) = x
BY DEF Some, None, The

LEMMA OneOf ==
  ASSUME NEW S, NEW x \in S PROVE Some(x) \in Maybe(S)
BY DEF Some, Maybe

(* The segments of a call are a layer with both of its halves.                *)
SegmentsWritten(seg, probs) ==
  /\ SegmentsMeant(seg, probs) \in Maybe(Layers)
  /\ \A s \in SegmentsMeant(seg, probs) : LayerLeftOut(s)
  /\ write_update_segmentation(Segments(seg, probs)) = SegmentationSyntax(SegmentsMeant(seg, probs))

LEMMA SegmentsAreWritten ==
  ASSUME NEW seg, AreSegments(seg), NEW probs \in [1..3 -> Unsigned(8)]
  PROVE  SegmentsWritten(seg, probs)
<1> DEFINE q == [s \in 1..4 |-> Some(seg.quant_delta[s])]
           l == [s \in 1..4 |-> {d[s] : d \in seg.lf_delta}]
           p == [s \in 1..3 |-> Some(probs[s])]
           r == [map |-> TRUE, data |-> TRUE, absolute |-> FALSE, quantizer |-> q, loop_filter |-> l, probs |-> p]
           layer == Segments(seg, probs)
<1>1. q \in [1..4 -> Maybe(Signed(7))] /\ q[1] # None
  <2>1. \A s \in 1..4 : Some(seg.quant_delta[s]) \in Maybe(Signed(7))
    BY OneOf DEF AreSegments
  <2> QED BY <2>1, OneIs
<1>2. l \in [1..4 -> Maybe(Signed(6))]
  <2> SUFFICES ASSUME NEW s \in 1..4 PROVE {d[s] : d \in seg.lf_delta} \in Maybe(Signed(6))
    OBVIOUS
  <2>1. seg.lf_delta \in SUBSET [1..4 -> Signed(6)] /\ \A a, b \in seg.lf_delta : a = b
    BY DEF AreSegments, Maybe
  <2>2. \A d \in seg.lf_delta : d[s] \in Signed(6)
    BY <2>1
  <2>3. \A x, y \in {d[s] : d \in seg.lf_delta} : x = y
    BY <2>1
  <2> QED BY <2>2, <2>3 DEF Maybe
<1>3. p \in [1..3 -> Maybe(Unsigned(8))]
  BY OneOf
<1>4. /\ layer.map = TRUE /\ layer.absolute = FALSE /\ layer.quantizer = q /\ layer.loop_filter = l
      /\ layer.probs = p
  BY DEF Segments
<1>5. SegmentsMeant(seg, probs) = Some(r)
  BY DEF SegmentsMeant, Segments
<1>6. AnySome(layer.quantizer) \/ AnySome(layer.loop_filter)
  <2>1. 1 \in DOMAIN q
    OBVIOUS
  <2> QED BY <1>1, <1>4, <2>1 DEF AnySome
<1> HIDE DEF q, l, p, layer
<1>7. /\ r.map = TRUE /\ r.data = TRUE /\ r.absolute = FALSE /\ r.quantizer = q /\ r.loop_filter = l
      /\ r.probs = p
  OBVIOUS
<1>8. r \in Layers
  BY <1>1, <1>2, <1>3 DEF Layers
<1> HIDE DEF r
<1>9. LayerLeftOut(r)
  BY <1>7 DEF LayerLeftOut
<1>10. write_update_segmentation(layer)
         = Flag(128, TRUE) \o Flag(128, TRUE) \o Flag(128, TRUE)
           \o (Flag(128, FALSE) \o Optionals(q, Even(4), 7, TRUE) \o Optionals(l, Even(4), 6, TRUE))
           \o Optionals(p, Even(3), 8, FALSE)
  <2> DEFINE data == AnySome(layer.quantizer) \/ AnySome(layer.loop_filter)
  <2>1. data = TRUE
    BY <1>6
  <2>2. write_update_segmentation(layer)
          = Flag(128, TRUE) \o Flag(128, layer.map) \o Flag(128, data)
            \o When(data, Flag(128, layer.absolute)
                          \o Optionals(layer.quantizer, Even(4), 7, TRUE)
                          \o Optionals(layer.loop_filter, Even(4), 6, TRUE))
            \o When(layer.map, Optionals(layer.probs, Even(3), 8, FALSE))
    BY Zenon DEF write_update_segmentation
  <2> HIDE DEF data
  <2>3. write_update_segmentation(layer)
          = Flag(128, TRUE) \o Flag(128, TRUE) \o Flag(128, TRUE)
            \o When(TRUE, Flag(128, FALSE) \o Optionals(q, Even(4), 7, TRUE) \o Optionals(l, Even(4), 6, TRUE))
            \o When(TRUE, Optionals(p, Even(3), 8, FALSE))
    BY <1>4, <2>1, <2>2, ZenonT(60)
  <2> QED BY <2>3 DEF When
<1>11. SegmentationSyntax(Some(r))
         = Flag(128, TRUE) \o Flag(128, TRUE) \o Flag(128, TRUE)
           \o (Flag(128, FALSE) \o Optionals(q, Even(4), 7, TRUE) \o Optionals(l, Even(4), 6, TRUE))
           \o Optionals(p, Even(3), 8, FALSE)
  <2>1. SegmentationSyntax(Some(r))
          = Flag(128, TRUE) \o Flag(128, r.map) \o Flag(128, r.data)
            \o When(r.data, Flag(128, r.absolute)
                          \o Optionals(r.quantizer, Even(4), 7, TRUE) \o Optionals(r.loop_filter, Even(4), 6, TRUE))
            \o When(r.map, Optionals(r.probs, Even(3), 8, FALSE))
    BY OneIs DEF SegmentationSyntax
  <2>2. SegmentationSyntax(Some(r))
          = Flag(128, TRUE) \o Flag(128, TRUE) \o Flag(128, TRUE)
            \o When(TRUE, Flag(128, FALSE) \o Optionals(q, Even(4), 7, TRUE) \o Optionals(l, Even(4), 6, TRUE))
            \o When(TRUE, Optionals(p, Even(3), 8, FALSE))
    BY <1>7, <2>1
  <2> QED BY <2>2 DEF When
<1>12. Some(r) \in Maybe(Layers) /\ \A s \in Some(r) : LayerLeftOut(s)
  <2>1. \A s \in Some(r) : s = r
    BY DEF Some
  <2> QED BY <1>8, <1>9, <2>1, OneOf
<1> QED BY <1>5, <1>10, <1>11, <1>12 DEF SegmentsWritten, layer

(* The controls of the reference slots.                                       *)
Controls ==
  [refreshGolden : BOOLEAN, refreshAltref : BOOLEAN, refreshLast : BOOLEAN,
   copyGolden : Unsigned(2), copyAltref : Unsigned(2)]

RefreshBits(r, entropy) ==
  Flag(128, r.golden) \o Flag(128, r.altref)
  \o When(~r.golden, Literal(The(r.copyGolden), 2)) \o When(~r.altref, Literal(The(r.copyAltref), 2))
  \o Flag(128, r.biases[1]) \o Flag(128, r.biases[2]) \o Flag(128, entropy) \o Flag(128, r.last)

LEMMA CopyMeant ==
  ASSUME NEW refreshed \in BOOLEAN, NEW c \in Unsigned(2)
  PROVE  /\ {x \in {c} : ~refreshed} \in Maybe(Unsigned(2))
         /\ {x \in {c} : ~refreshed} = None <=> refreshed
         /\ When(~refreshed, Literal(The({x \in {c} : ~refreshed}), 2)) = When(~refreshed, Literal(c, 2))
<1>1. CASE refreshed
  <2>1. {x \in {c} : ~refreshed} = {}
    BY <1>1
  <2> QED BY <1>1, <2>1 DEF None, Maybe, When
<1>2. CASE ~refreshed
  <2>1. {x \in {c} : ~refreshed} = Some(c)
    BY <1>2 DEF Some
  <2> QED BY <1>2, <2>1, OneIs, OneOf
<1> QED BY <1>1, <1>2

LEMMA RefreshIsWritten ==
  ASSUME NEW c \in Controls
  PROVE  /\ RefreshMeant(c) \in Refreshings /\ Selected(RefreshMeant(c))
         /\ WriteRefresh(c) = RefreshSyntax(Some(RefreshMeant(c)), FALSE)
<1> DEFINE r == RefreshMeant(c)
<1>1. /\ c.refreshGolden \in BOOLEAN /\ c.refreshAltref \in BOOLEAN /\ c.refreshLast \in BOOLEAN
      /\ c.copyGolden \in Unsigned(2) /\ c.copyAltref \in Unsigned(2)
  BY DEF Controls
<1>2. /\ r.golden = c.refreshGolden /\ r.altref = c.refreshAltref /\ r.last = c.refreshLast
      /\ r.biases[1] = FALSE /\ r.biases[2] = FALSE
      /\ r.copyGolden = {x \in {c.copyGolden} : ~c.refreshGolden}
      /\ r.copyAltref = {x \in {c.copyAltref} : ~c.refreshAltref}
  BY DEF RefreshMeant
<1>3. r \in Refreshings
  <2>1. {x \in {c.copyGolden} : ~c.refreshGolden} \in Maybe(Unsigned(2))
    BY <1>1, CopyMeant
  <2>2. {x \in {c.copyAltref} : ~c.refreshAltref} \in Maybe(Unsigned(2))
    BY <1>1, CopyMeant
  <2> QED BY <1>1, <2>1, <2>2 DEF RefreshMeant, Refreshings
<1> HIDE DEF r
<1>4. Selected(r)
  <2>1. r.copyGolden = None <=> c.refreshGolden
    BY <1>1, <1>2, CopyMeant
  <2>2. r.copyAltref = None <=> c.refreshAltref
    BY <1>1, <1>2, CopyMeant
  <2> QED BY <1>2, <2>1, <2>2 DEF Selected
<1>5. WriteRefresh(c) = RefreshBits(r, FALSE)
  <2> DEFINE G == When(~r.golden, Literal(The(r.copyGolden), 2))
             A == When(~r.altref, Literal(The(r.copyAltref), 2))
             G1 == When(~c.refreshGolden, Literal(c.copyGolden, 2))
             A1 == When(~c.refreshAltref, Literal(c.copyAltref, 2))
  <2>1. G = G1
    BY <1>1, <1>2, CopyMeant
  <2>2. A = A1
    BY <1>1, <1>2, CopyMeant
  <2>3. RefreshBits(r, FALSE)
          = Flag(128, r.golden) \o Flag(128, r.altref) \o G \o A
            \o Flag(128, r.biases[1]) \o Flag(128, r.biases[2]) \o Flag(128, FALSE) \o Flag(128, r.last)
    BY Zenon DEF RefreshBits
  <2>4. WriteRefresh(c)
          = Flag(128, c.refreshGolden) \o Flag(128, c.refreshAltref) \o G1 \o A1
            \o Flag(128, FALSE) \o Flag(128, FALSE) \o Flag(128, FALSE) \o Flag(128, c.refreshLast)
    BY Zenon DEF WriteRefresh
  <2> HIDE DEF G, A, G1, A1
  <2> QED BY <1>2, <2>1, <2>2, <2>3, <2>4, ZenonT(60)
<1>9. WriteRefresh(c) = RefreshSyntax(Some(r), FALSE)
  <2>1. RefreshSyntax(Some(r), FALSE) = RefreshBits(The(Some(r)), FALSE)
    <3>1. Some(r) # None
      BY OneIs
    <3> QED BY <3>1, Zenon DEF RefreshSyntax, RefreshBits
  <2> QED BY <1>5, <2>1, OneIs
<1> QED BY <1>3, <1>4, <1>9 DEF r

(* The probabilities of modes and vectors, without any of the tables.         *)
LEMMA ModeProbsAreWritten ==
  ASSUME NEW intra \in Unsigned(8), NEW last \in Unsigned(8), NEW gf \in Unsigned(8)
  PROVE  /\ ModesMeant(intra, last, gf) \in ModeProbs
         /\ WriteModeProbs(intra, last, gf) = ModesSyntax(Some(ModesMeant(intra, last, gf)))
<1> DEFINE m == ModesMeant(intra, last, gf)
           N == Len(MvUpdateProbs)
           raw == [k \in DOMAIN m.mv |-> {IF x = 1 THEN 0 ELSE x \div 2 : x \in m.mv[k]}]
           tail == [k \in DOMAIN MvUpdateProbs |-> [p |-> MvUpdateProbs[k], b |-> FALSE]]
<1>1. MvUpdateProbs \in Seq(Nat) /\ N \in Nat
  BY LayoutAssumption
<1> HIDE DEF N
<1>2. NoneOf(N) = [k \in 1..N |-> None]
  BY DEF NoneOf
<1>3. /\ m.intra = intra /\ m.last = last /\ m.gf = gf /\ m.y = None /\ m.uv = None
      /\ m.mv = NoneOf(N)
  BY DEF ModesMeant, N
<1>4. m \in ModeProbs
  <2>1. \A S : None \in Maybe(S)
    BY DEF None, Maybe
  <2>2. NoneOf(N) \in [1..N -> Maybe(VectorProbs)]
    BY <1>2, <2>1
  <2> QED BY <2>1, <2>2 DEF ModesMeant, ModeProbs, N
<1> HIDE DEF m
<1>5. raw = NoneOf(N)
  <2>1. DOMAIN m.mv = 1..N /\ \A k \in 1..N : m.mv[k] = {}
    BY <1>2, <1>3 DEF None
  <2>2. \A k \in 1..N : {IF x = 1 THEN 0 ELSE x \div 2 : x \in m.mv[k]} = {}
    BY <2>1
  <2> QED BY <1>2, <2>1, <2>2 DEF None
<1>6. Optionals(NoneOf(N), MvUpdateProbs, 7, FALSE) = tail
  <2>1. 7 \in Widths
    BY DEF Widths
  <2> QED BY <1>1, <2>1, NothingInTable DEF N
<1>7. ModeTableSyntax(None) = Flag(128, FALSE)
  <2>1. ModeTableSyntax(None) = Flag(128, FALSE) \o <<>>
    BY DEF ModeTableSyntax, When
  <2>2. Flag(128, FALSE) \in Wire
    BY FlagIsWire
  <2> QED BY <2>1, <2>2, NothingJoined
<1>8. ModesSyntax(Some(m))
        = Literal(m.intra, 8) \o Literal(m.last, 8) \o Literal(m.gf, 8)
          \o ModeTableSyntax(m.y) \o ModeTableSyntax(m.uv) \o Optionals(raw, MvUpdateProbs, 7, FALSE)
  <2> DEFINE one == Some(m)
  <2>1. one # None /\ The(one) = m
    BY OneIs
  <2> HIDE DEF one
  <2>2. ModesSyntax(one)
          = Literal(The(one).intra, 8) \o Literal(The(one).last, 8) \o Literal(The(one).gf, 8)
            \o ModeTableSyntax(The(one).y) \o ModeTableSyntax(The(one).uv)
            \o Optionals([k \in DOMAIN The(one).mv |-> {IF x = 1 THEN 0 ELSE x \div 2 : x \in The(one).mv[k]}],
                         MvUpdateProbs, 7, FALSE)
    BY <2>1, Zenon DEF ModesSyntax, When
  <2> QED BY <2>1, <2>2, Zenon DEF one
<1> HIDE DEF raw
<1>9. WriteModeProbs(intra, last, gf)
        = Literal(intra, 8) \o Literal(last, 8) \o Literal(gf, 8) \o Flag(128, FALSE) \o Flag(128, FALSE) \o tail
  BY DEF WriteModeProbs
<1> HIDE DEF tail
<1> QED BY <1>3, <1>4, <1>5, <1>6, <1>7, <1>8, <1>9 DEF m

(* The headers the entry points write are the layouts of what they mean.      *)
IsHeader(f, bits) == f \in Fields /\ LeftOut(f) /\ bits = Layout(f)

Filters == [simple : BOOLEAN, level : Unsigned(6), sharpness : Unsigned(3)]
TokenTables == [1..Len(CoeffUpdateProbs) -> Maybe(Unsigned(8))]

Checked(p, count) ==
  /\ p.filter \in Filters /\ [p.filter EXCEPT !.simple = FALSE] \in Filters
  /\ p.q \in Unsigned(7) /\ count \in {1, 2, 4, 8} /\ p.tokens \in TokenTables
  /\ p.first \in Unsigned(19) /\ p.width \in Unsigned(14) /\ p.height \in Unsigned(14)
  /\ p.hscale = 0 /\ p.vscale = 0

LEMMA CallTypes ==
  ASSUME NEW p, IsCall(p), NEW key \in BOOLEAN, NEW count, ~Refused(p, key, count)
  PROVE  Checked(p, count)
<1>1. /\ p.width \in Unsigned(14) /\ p.height \in Unsigned(14) /\ p.q \in Unsigned(7) /\ count \in {1, 2, 4, 8}
      /\ p.filter.level \in Unsigned(6) /\ p.filter.sharpness \in Unsigned(3) /\ p.first \in Unsigned(19)
  BY DEF Refused
<1>2. p.filter \in Filters /\ [p.filter EXCEPT !.simple = FALSE] \in Filters
  <2>1. p.filter \in [simple : BOOLEAN, level : Nat, sharpness : Nat]
    BY DEF IsCall
  <2>2. p.filter \in Filters
    BY <1>1, <2>1 DEF Filters
  <2> QED BY <2>2 DEF Filters
<1>3. p.tokens \in TokenTables /\ p.hscale = 0 /\ p.vscale = 0
  BY DEF IsCall, TokenTables
<1> QED BY <1>1, <1>2, <1>3 DEF Checked

KeyBits(segmentation, filter, count, q, entropy, tokens, skip) ==
  Flag(128, FALSE) \o Flag(128, FALSE) \o SegmentationSyntax(segmentation)
  \o write_loop_filter(filter) \o write_token_partition_count(count) \o write_quant_indices(q, NoneOf(5))
  \o Flag(128, entropy) \o write_token_prob_updates(tokens) \o write_mb_no_skip_coeff(TRUE, skip)

LEMMA NothingIs ==
  /\ \A S : None \in Maybe(S)
  /\ NoneOf(5) \in [1..5 -> Maybe(Signed(4))]
  /\ NoDeltas \in DeltaSets /\ DeltasLeftOut(NoDeltas)
<1>1. \A S : None \in Maybe(S)
  BY DEF None, Maybe
<1>2. NoneOf(5) \in [1..5 -> Maybe(Signed(4))] /\ NoneOf(4) \in [1..4 -> Maybe(Signed(6))]
  BY <1>1 DEF NoneOf
<1>3. NoDeltas \in DeltaSets
  BY <1>2 DEF NoDeltas, DeltaSets
<1>4. DeltasLeftOut(NoDeltas)
  BY DEF NoDeltas, DeltasLeftOut
<1> QED BY <1>1, <1>2, <1>3, <1>4

LEMMA KeyFieldsAreWritten ==
  ASSUME NEW segmentation \in Maybe(Layers), \A s \in segmentation : LayerLeftOut(s), NEW filter \in Filters,
         NEW count \in {1, 2, 4, 8}, NEW q \in Unsigned(7), NEW entropy \in BOOLEAN, NEW tokens \in TokenTables,
         NEW skip \in Unsigned(8)
  PROVE  IsHeader(KeyMeant(segmentation, filter, count, q, entropy, tokens, skip),
                  KeyBits(segmentation, filter, count, q, entropy, tokens, skip))
<1> DEFINE f == KeyMeant(segmentation, filter, count, q, entropy, tokens, skip)
           bits == KeyBits(segmentation, filter, count, q, entropy, tokens, skip)
           space == Some(<<FALSE, FALSE>>)
           one == Some(skip)
           quant == [y_ac_qi |-> q, deltas |-> NoneOf(5)]
<1>1. space \in Maybe(BOOLEAN \X BOOLEAN) /\ space # None /\ The(space)[1] = FALSE /\ The(space)[2] = FALSE
  <2>1. <<FALSE, FALSE>> \in BOOLEAN \X BOOLEAN /\ <<FALSE, FALSE>>[1] = FALSE /\ <<FALSE, FALSE>>[2] = FALSE
    OBVIOUS
  <2> QED BY <2>1, OneIs, OneOf
<1>2. one \in Maybe(Unsigned(8)) /\ one # None /\ The(one) = skip
  BY OneIs, OneOf
<1>3. quant \in [y_ac_qi : Unsigned(7), deltas : [1..5 -> Maybe(Signed(4))]] /\ quant.y_ac_qi = q
      /\ quant.deltas = NoneOf(5)
  BY NothingIs
<1>4. /\ f.space = space /\ f.segmentation = segmentation /\ f.filter = filter /\ f.deltas = NoDeltas
      /\ f.count = count /\ f.quant = quant /\ f.entropy = entropy /\ f.refresh = None /\ f.tokens = tokens
      /\ f.skip = one /\ f.modes = None
  BY DEF KeyMeant
<1>5. f \in Fields
  <2> HIDE DEF space, one, quant
  <2>1. f = [space |-> space, segmentation |-> segmentation, filter |-> filter, deltas |-> NoDeltas,
             count |-> count, quant |-> quant, entropy |-> entropy, refresh |-> None,
             tokens |-> tokens, skip |-> one, modes |-> None]
    BY DEF KeyMeant, space, one, quant
  <2> HIDE DEF f
  <2>2. None \in Maybe(Refreshings) /\ None \in Maybe(ModeProbs) /\ NoDeltas \in DeltaSets
    BY NothingIs
  <2>3. Fields = [space : Maybe(BOOLEAN \X BOOLEAN), segmentation : Maybe(Layers), filter : Filters,
                  deltas : DeltaSets, count : {1, 2, 4, 8},
                  quant : [y_ac_qi : Unsigned(7), deltas : [1..5 -> Maybe(Signed(4))]],
                  entropy : BOOLEAN, refresh : Maybe(Refreshings), tokens : TokenTables,
                  skip : Maybe(Unsigned(8)), modes : Maybe(ModeProbs)]
    BY DEF Fields, Layers, Filters, DeltaSets, Refreshings, TokenTables, ModeProbs, VectorProbs
  <2> QED BY <1>1, <1>2, <1>3, <2>1, <2>2, <2>3
<1> HIDE DEF f, space, one, quant
<1>6. LeftOut(f)
  <2>1. \A r \in f.refresh : (r.copyGolden = None <=> r.golden) /\ (r.copyAltref = None <=> r.altref)
    BY <1>4 DEF None
  <2>2. \A s \in f.segmentation :
       /\ ~s.data => ~s.absolute /\ s.quantizer = NoneOf(4) /\ s.loop_filter = NoneOf(4)
       /\ ~s.map => s.probs = NoneOf(3)
    BY <1>4 DEF LayerLeftOut
  <2>3. /\ ~f.deltas.enabled => f.deltas = NoDeltas
        /\ ~f.deltas.update => f.deltas.ref = NoneOf(4) /\ f.deltas.mode = NoneOf(4)
    BY <1>4, NothingIs DEF DeltasLeftOut
  <2>4. f.space # None /\ f.refresh = None /\ f.modes = None
    BY <1>1, <1>4
  <2> QED BY <2>1, <2>2, <2>3, <2>4 DEF LeftOut
<1>7. SpaceSyntax(f.space) = Flag(128, FALSE) \o Flag(128, FALSE)
  BY <1>1, <1>4 DEF SpaceSyntax, When
<1>8. write_loop_filter_with_deltas(f.filter, f.deltas) = write_loop_filter(filter)
  BY <1>4, PlainFilter DEF Filters
<1>9. RefreshSyntax(f.refresh, f.entropy) = Flag(128, entropy)
  BY <1>4 DEF RefreshSyntax
<1>10. write_mb_no_skip_coeff(f.skip # None, The(f.skip)) = write_mb_no_skip_coeff(TRUE, skip)
  <2>1. (f.skip # None) = TRUE /\ The(f.skip) = skip
    BY <1>2, <1>4
  <2> QED BY <2>1
<1>11. ModesSyntax(f.modes) = <<>>
  BY <1>4 DEF ModesSyntax, When
<1>12. Layout(f) = bits \o <<>> /\ bits \in Wire
  <2>1. Layout(f) = SpaceSyntax(f.space) \o SegmentationSyntax(f.segmentation)
          \o write_loop_filter_with_deltas(f.filter, f.deltas)
          \o write_token_partition_count(f.count) \o write_quant_indices(f.quant.y_ac_qi, f.quant.deltas)
          \o RefreshSyntax(f.refresh, f.entropy)
          \o write_token_prob_updates(f.tokens) \o write_mb_no_skip_coeff(f.skip # None, The(f.skip))
          \o ModesSyntax(f.modes)
    BY Zenon DEF Layout
  <2>2. bits = (Flag(128, FALSE) \o Flag(128, FALSE)) \o SegmentationSyntax(segmentation)
          \o write_loop_filter(filter) \o write_token_partition_count(count) \o write_quant_indices(q, NoneOf(5))
          \o Flag(128, entropy) \o write_token_prob_updates(tokens) \o write_mb_no_skip_coeff(TRUE, skip)
    BY Zenon DEF KeyBits
  <2> HIDE DEF bits
  <2>3. Front(f) = bits
    BY <1>3, <1>4, <1>7, <1>8, <1>9, <1>10, <2>2 DEF Front
  <2>4. Layout(f) = Front(f) \o ModesSyntax(f.modes)
    BY <2>1, Zenon DEF Front
  <2>5. Front(f) \in Wire
    BY <1>5, <1>6, LayoutStands
  <2> QED BY <1>11, <2>3, <2>4, <2>5
<1>13. bits \o <<>> = bits
  <2> HIDE DEF bits
  <2> QED BY <1>12, NothingJoined
<1> HIDE DEF bits
<1> QED BY <1>5, <1>6, <1>12, <1>13 DEF IsHeader, f, bits

LEMMA ByteRange == Unsigned(8) = 0..255
<1>1. 2^8 = 256
  OBVIOUS
<1> QED BY <1>1 DEF Unsigned

LEMMA NoTokensWritten ==
  /\ NoTokenUpdates \in TokenTables
  /\ write_token_prob_updates(NoTokenUpdates) = write_no_token_prob_updates
<1>1. CoeffUpdateProbs \in Seq(Nat) /\ 8 \in Widths /\ Len(CoeffUpdateProbs) \in Nat
  BY LayoutAssumption DEF Widths
<1>2. NoTokenUpdates \in TokenTables
  BY NothingIs DEF NoTokenUpdates, NoneOf, TokenTables
<1>3. Optionals(NoTokenUpdates, CoeffUpdateProbs, 8, FALSE)
        = [k \in DOMAIN CoeffUpdateProbs |-> [p |-> CoeffUpdateProbs[k], b |-> FALSE]]
  BY <1>1, NothingInTable DEF NoTokenUpdates
<1> QED BY <1>2, <1>3 DEF write_token_prob_updates, write_no_token_prob_updates

LEMMA NoSegmentation ==
  /\ None \in Maybe(Layers) /\ (\A s \in None : LayerLeftOut(s))
  /\ SegmentationSyntax(None) = write_segment_update_flags
BY NothingIs DEF None, SegmentationSyntax, write_segment_update_flags

LEMMA SilentHeader ==
  ASSUME NEW p, IsCall(p), ~Refused(p, TRUE, p.count)
  PROVE  IsHeader(SilentMeant(p), encode_silent_keyframe(p))
<1> DEFINE filter == [p.filter EXCEPT !.simple = FALSE]
<1>1. filter \in Filters /\ p.q \in Unsigned(7) /\ p.count \in {1, 2, 4, 8} /\ TRUE \in BOOLEAN /\ 1 \in Unsigned(8)
  <2>1. Checked(p, p.count)
    BY CallTypes, Zenon
  <2> QED BY <2>1, ByteRange DEF Checked
<1>2. SilentMeant(p) = KeyMeant(None, filter, p.count, p.q, TRUE, NoTokenUpdates, 1)
  BY Zenon DEF SilentMeant
<1> HIDE DEF filter
<1>3. IsHeader(KeyMeant(None, filter, p.count, p.q, TRUE, NoTokenUpdates, 1),
               KeyBits(None, filter, p.count, p.q, TRUE, NoTokenUpdates, 1))
  BY <1>1, NoSegmentation, NoTokensWritten, KeyFieldsAreWritten
<1>4. KeyBits(None, filter, p.count, p.q, TRUE, NoTokenUpdates, 1) = encode_silent_keyframe(p)
  BY NoSegmentation, NoTokensWritten DEF KeyBits, encode_silent_keyframe, filter
<1> QED BY <1>2, <1>3, <1>4

LEMMA KeyHeader ==
  ASSUME NEW p, IsCall(p), ~Refused(p, TRUE, p.count)
  PROVE  IsHeader(KeyframeMeant(p), KeyframeHeader(p))
<1> DEFINE kept == ~AnySome(p.tokens)
<1>1. /\ p.filter \in Filters /\ p.q \in Unsigned(7) /\ p.count \in {1, 2, 4, 8} /\ p.tokens \in TokenTables
      /\ 128 \in Unsigned(8) /\ kept \in BOOLEAN
  <2>1. Checked(p, p.count)
    BY CallTypes, Zenon
  <2> QED BY <2>1, ByteRange DEF Checked
<1>2. KeyframeMeant(p) = KeyMeant(None, p.filter, p.count, p.q, kept, p.tokens, 128)
  BY Zenon DEF KeyframeMeant
<1>3. KeyframeHeader(p)
        = Flag(128, FALSE) \o Flag(128, FALSE) \o write_segment_update_flags
          \o write_loop_filter(p.filter) \o write_token_partition_count(p.count) \o write_quant_indices(p.q, NoneOf(5))
          \o Flag(128, kept) \o write_token_prob_updates(p.tokens) \o write_mb_no_skip_coeff(TRUE, 128)
  BY Zenon DEF KeyframeHeader
<1> HIDE DEF kept
<1>4. IsHeader(KeyMeant(None, p.filter, p.count, p.q, kept, p.tokens, 128),
               KeyBits(None, p.filter, p.count, p.q, kept, p.tokens, 128))
  BY <1>1, NoSegmentation, KeyFieldsAreWritten
<1>5. KeyBits(None, p.filter, p.count, p.q, kept, p.tokens, 128) = KeyframeHeader(p)
  BY <1>3, NoSegmentation DEF KeyBits
<1> QED BY <1>2, <1>4, <1>5

LEMMA AdaptiveKeyHeader ==
  ASSUME NEW p, IsCall(p), AreSegments(p), ~Refused(p, TRUE, 1)
  PROVE  IsHeader(AdaptiveMeant(p), AdaptiveHeader(p))
<1> DEFINE probs == <<170, 170, 170>>
           layer == SegmentsMeant(p, probs)
<1>1. /\ p.filter \in Filters /\ p.q \in Unsigned(7) /\ 1 \in {1, 2, 4, 8} /\ TRUE \in BOOLEAN
      /\ 128 \in Unsigned(8)
  <2>1. Checked(p, 1)
    BY CallTypes, Zenon
  <2> QED BY <2>1, ByteRange DEF Checked
<1>2. probs \in [1..3 -> Unsigned(8)]
  <2>1. 170 \in Unsigned(8)
    BY ByteRange
  <2> QED BY <2>1
<1>3. SegmentsWritten(p, probs)
  BY <1>2, SegmentsAreWritten
<1>4. AdaptiveMeant(p) = KeyMeant(layer, p.filter, 1, p.q, TRUE, NoTokenUpdates, 128)
  BY Zenon DEF AdaptiveMeant
<1>5. AdaptiveHeader(p)
        = Flag(128, FALSE) \o Flag(128, FALSE) \o write_update_segmentation(Segments(p, probs))
          \o write_loop_filter(p.filter) \o write_token_partition_count(1) \o write_quant_indices(p.q, NoneOf(5))
          \o Flag(128, TRUE) \o write_no_token_prob_updates \o write_mb_no_skip_coeff(TRUE, 128)
  BY Zenon DEF AdaptiveHeader
<1> HIDE DEF probs
<1>6. /\ layer \in Maybe(Layers) /\ \A s \in layer : LayerLeftOut(s)
      /\ write_update_segmentation(Segments(p, probs)) = SegmentationSyntax(layer)
  BY <1>3 DEF SegmentsWritten
<1> HIDE DEF layer
<1>7. IsHeader(KeyMeant(layer, p.filter, 1, p.q, TRUE, NoTokenUpdates, 128),
               KeyBits(layer, p.filter, 1, p.q, TRUE, NoTokenUpdates, 128))
  BY <1>1, <1>6, NoTokensWritten, KeyFieldsAreWritten
<1>8. KeyBits(layer, p.filter, 1, p.q, TRUE, NoTokenUpdates, 128) = AdaptiveHeader(p)
  BY <1>5, <1>6, NoTokensWritten DEF KeyBits
<1> QED BY <1>4, <1>7, <1>8

(* Probabilities fitted to counts fit their bytes.                            *)
LEMMA FittedProb ==
  ASSUME NEW m \in Nat, NEW n \in Nat
  PROVE  fit_prob_l8(m, n) \in Unsigned(8)
<1> DEFINE total == m + n
           x == (256 * m) \div total
<1>1. CASE total = 0
  BY <1>1, ByteRange DEF fit_prob_l8
<1>2. CASE total # 0
  <2>1. x \in Int
    <3>1. total \in Nat /\ total > 0 /\ 256 * m \in Nat
      BY <1>2
    <3> HIDE DEF total
    <3> QED BY <3>1
  <2>2. fit_prob_l8(m, n) = Clamped(x, 1, 255)
    BY <1>2 DEF fit_prob_l8
  <2> HIDE DEF x
  <2>3. Clamped(x, 1, 255) \in 0..255
    BY <2>1 DEF Clamped
  <2> QED BY <2>2, <2>3, ByteRange
<1> QED BY <1>1, <1>2

LEMMA FittedTree ==
  ASSUME NEW counts \in [1..4 -> Nat]
  PROVE  SegmentTreeProbs(counts) \in [1..3 -> Unsigned(8)]
<1>1. /\ counts[1] \in Nat /\ counts[2] \in Nat /\ counts[3] \in Nat /\ counts[4] \in Nat
      /\ counts[1] + counts[2] \in Nat /\ counts[3] + counts[4] \in Nat
  OBVIOUS
<1> DEFINE a == fit_prob_l8(counts[1] + counts[2], counts[3] + counts[4])
           b == fit_prob_l8(counts[1], counts[2])
           c == fit_prob_l8(counts[3], counts[4])
<1>2. a \in Unsigned(8) /\ b \in Unsigned(8) /\ c \in Unsigned(8)
  BY <1>1, FittedProb
<1>3. SegmentTreeProbs(counts) = <<a, b, c>>
  BY DEF SegmentTreeProbs
<1> HIDE DEF a, b, c
<1> QED BY <1>2, <1>3

(* The segmentation of an interframe, which may have none.                    *)
InterSegmentation(p) == UNION {SegmentsMeant(s, SegmentTreeProbs(s.counts)) : s \in p.segments}
InterSegmentationBits(p) ==
  IF p.segments = None THEN write_segment_update_flags
  ELSE write_update_segmentation(Segments(The(p.segments), SegmentTreeProbs(The(p.segments).counts)))

LEMMA InterSegmentationIsWritten ==
  ASSUME NEW p, IsInterCall(p)
  PROVE  /\ InterSegmentation(p) \in Maybe(Layers) /\ \A s \in InterSegmentation(p) : LayerLeftOut(s)
         /\ InterSegmentationBits(p) = SegmentationSyntax(InterSegmentation(p))
<1>1. CASE p.segments = None
  <2>1. InterSegmentation(p) = None
    BY <1>1 DEF InterSegmentation, None
  <2>2. InterSegmentationBits(p) = write_segment_update_flags
    BY <1>1 DEF InterSegmentationBits
  <2> QED BY <2>1, <2>2, NoSegmentation
<1>2. CASE p.segments # None
  <2> DEFINE seg == The(p.segments)
             probs == SegmentTreeProbs(seg.counts)
             layer == SegmentsMeant(seg, probs)
  <2>1. p.segments = {seg}
    <3>1. \A s, t \in p.segments : s = t
      BY DEF IsInterCall
    <3>2. seg \in p.segments
      BY <1>2 DEF The, None
    <3> HIDE DEF seg
    <3> QED BY <3>1, <3>2
  <2>2. AreSegments(seg) /\ seg.counts \in [1..4 -> Nat]
    <3>1. seg \in p.segments
      BY <2>1
    <3> HIDE DEF seg
    <3> QED BY <3>1 DEF IsInterCall
  <2>3. SegmentsWritten(seg, probs)
    BY <2>2, FittedTree, SegmentsAreWritten
  <2>4. InterSegmentationBits(p) = write_update_segmentation(Segments(seg, probs))
    BY <1>2 DEF InterSegmentationBits
  <2>5. InterSegmentation(p) = layer
    <3> HIDE DEF seg
    <3>1. InterSegmentation(p) = UNION {SegmentsMeant(s, SegmentTreeProbs(s.counts)) : s \in {seg}}
      BY <2>1 DEF InterSegmentation
    <3>2. {SegmentsMeant(s, SegmentTreeProbs(s.counts)) : s \in {seg}} = {layer}
      OBVIOUS
    <3> HIDE DEF layer
    <3> QED BY <3>1, <3>2
  <2> HIDE DEF layer
  <2>6. layer \in Maybe(Layers) /\ (\A s \in layer : LayerLeftOut(s))
        /\ write_update_segmentation(Segments(seg, probs)) = SegmentationSyntax(layer)
    BY <2>3 DEF SegmentsWritten, layer
  <2> QED BY <2>4, <2>5, <2>6
<1> QED BY <1>1, <1>2

LEMMA InterHeaderIsWritten ==
  ASSUME NEW p, IsInterCall(p), ~Refused(p, FALSE, p.count)
  PROVE  IsHeader(InterMeant(p), InterHeader(p))
<1> DEFINE f == InterMeant(p)
           segmentation == InterSegmentation(p)
           deltas == DeltasMeant(p.deltas)
           quant == [y_ac_qi |-> p.q, deltas |-> NoneOf(5)]
           refresh == Some(RefreshMeant(p.refresh))
           skip == Some(128)
           intra == IF p.pick_intra THEN fit_prob_l8(p.intra, p.inter) ELSE 255
           modes == Some(ModesMeant(intra, p.prob_last, p.prob_gf))
<1>1. p.filter \in Filters /\ p.q \in Unsigned(7) /\ p.count \in {1, 2, 4, 8} /\ p.tokens \in TokenTables
  <2>1. Checked(p, p.count)
    BY CallTypes, Zenon DEF IsInterCall
  <2> QED BY <2>1 DEF Checked
<1>2. /\ segmentation \in Maybe(Layers) /\ (\A s \in segmentation : LayerLeftOut(s))
      /\ InterSegmentationBits(p) = SegmentationSyntax(segmentation)
  BY InterSegmentationIsWritten
<1>3. /\ deltas \in DeltaSets /\ DeltasLeftOut(deltas)
      /\ write_loop_filter_with_deltas(p.filter, p.deltas) = write_loop_filter_with_deltas(p.filter, deltas)
  <2>1. p.deltas \in DeltaSets
    BY DEF IsInterCall, DeltaSets
  <2> QED BY <2>1, DeltasMeantAreWritten
<1>4. quant \in [y_ac_qi : Unsigned(7), deltas : [1..5 -> Maybe(Signed(4))]] /\ quant.y_ac_qi = p.q
      /\ quant.deltas = NoneOf(5)
  BY <1>1, NothingIs
<1>5. /\ refresh \in Maybe(Refreshings) /\ refresh # None /\ (\A r \in refresh : Selected(r))
      /\ WriteRefresh(p.refresh) = RefreshSyntax(refresh, FALSE)
  <2>1. p.refresh \in Controls
    BY DEF IsInterCall, Controls
  <2>2. /\ RefreshMeant(p.refresh) \in Refreshings /\ Selected(RefreshMeant(p.refresh))
        /\ WriteRefresh(p.refresh) = RefreshSyntax(Some(RefreshMeant(p.refresh)), FALSE)
    BY <2>1, RefreshIsWritten
  <2>3. \A r \in refresh : r = RefreshMeant(p.refresh)
    BY DEF Some
  <2> QED BY <2>2, <2>3, OneIs, OneOf
<1>6. skip \in Maybe(Unsigned(8)) /\ skip # None /\ The(skip) = 128
  <2>1. 128 \in Unsigned(8)
    BY ByteRange
  <2> QED BY <2>1, OneIs, OneOf
<1>7. /\ modes \in Maybe(ModeProbs) /\ modes # None
      /\ WriteModeProbs(intra, p.prob_last, p.prob_gf) = ModesSyntax(modes)
  <2>1. intra \in Unsigned(8) /\ p.prob_last \in Unsigned(8) /\ p.prob_gf \in Unsigned(8)
    <3>1. fit_prob_l8(p.intra, p.inter) \in Unsigned(8) /\ 255 \in Unsigned(8)
      BY FittedProb, ByteRange DEF IsInterCall
    <3> QED BY <3>1 DEF IsInterCall
  <2> HIDE DEF intra
  <2> QED BY <2>1, ModeProbsAreWritten, OneIs, OneOf
<1>8. f = [space |-> None, segmentation |-> segmentation, filter |-> p.filter, deltas |-> deltas,
           count |-> p.count, quant |-> quant, entropy |-> FALSE, refresh |-> refresh,
           tokens |-> p.tokens, skip |-> skip, modes |-> modes]
  BY Zenon DEF InterMeant, InterSegmentation
<1>9. InterHeader(p)
        = InterSegmentationBits(p)
          \o write_loop_filter_with_deltas(p.filter, p.deltas)
          \o write_token_partition_count(p.count) \o write_quant_indices(p.q, NoneOf(5))
          \o WriteRefresh(p.refresh)
          \o write_token_prob_updates(p.tokens) \o write_mb_no_skip_coeff(TRUE, 128)
          \o WriteModeProbs(intra, p.prob_last, p.prob_gf)
  BY Zenon DEF InterHeader, InterSegmentationBits
<1> HIDE DEF f, segmentation, deltas, quant, refresh, skip, intra, modes
<1>10. f \in Fields
  <2>1. Fields = [space : Maybe(BOOLEAN \X BOOLEAN), segmentation : Maybe(Layers), filter : Filters,
                  deltas : DeltaSets, count : {1, 2, 4, 8},
                  quant : [y_ac_qi : Unsigned(7), deltas : [1..5 -> Maybe(Signed(4))]],
                  entropy : BOOLEAN, refresh : Maybe(Refreshings), tokens : TokenTables,
                  skip : Maybe(Unsigned(8)), modes : Maybe(ModeProbs)]
    BY DEF Fields, Layers, Filters, DeltaSets, Refreshings, TokenTables, ModeProbs, VectorProbs
  <2>2. None \in Maybe(BOOLEAN \X BOOLEAN) /\ FALSE \in BOOLEAN
    BY NothingIs
  <2> QED BY <1>1, <1>2, <1>3, <1>4, <1>5, <1>6, <1>7, <1>8, <2>1, <2>2
<1>11. /\ f.space = None /\ f.segmentation = segmentation /\ f.filter = p.filter /\ f.deltas = deltas
       /\ f.count = p.count /\ f.quant = quant /\ f.entropy = FALSE /\ f.refresh = refresh /\ f.tokens = p.tokens
       /\ f.skip = skip /\ f.modes = modes
  BY <1>8
<1>12. LeftOut(f)
  <2>1. \A r \in f.refresh : (r.copyGolden = None <=> r.golden) /\ (r.copyAltref = None <=> r.altref)
    BY <1>5, <1>11 DEF Selected
  <2>2. \A s \in f.segmentation :
       /\ ~s.data => ~s.absolute /\ s.quantizer = NoneOf(4) /\ s.loop_filter = NoneOf(4)
       /\ ~s.map => s.probs = NoneOf(3)
    BY <1>2, <1>11 DEF LayerLeftOut
  <2>3. /\ ~f.deltas.enabled => f.deltas = NoDeltas
        /\ ~f.deltas.update => f.deltas.ref = NoneOf(4) /\ f.deltas.mode = NoneOf(4)
    BY <1>3, <1>11 DEF DeltasLeftOut
  <2>4. f.space = None /\ f.refresh # None /\ f.modes # None
    BY <1>5, <1>7, <1>11
  <2> QED BY <2>1, <2>2, <2>3, <2>4 DEF LeftOut
<1>13. SpaceSyntax(f.space) = <<>>
  BY <1>11 DEF SpaceSyntax, When
<1>14. write_mb_no_skip_coeff(f.skip # None, The(f.skip)) = write_mb_no_skip_coeff(TRUE, 128)
  <2>1. (f.skip # None) = TRUE /\ The(f.skip) = 128
    BY <1>6, <1>11
  <2> QED BY <2>1
<1>15. <<>> \o SegmentationSyntax(segmentation) = SegmentationSyntax(segmentation)
  <2>1. SegmentationSyntax(segmentation) \in Wire
    <3>1. <<>> \in Wire /\ 1 \in Place
      BY DEF Wire, Place
    <3> QED BY <1>2, <3>1, SegmentationReads
  <2> QED BY <2>1, NothingJoined
<1>16. Layout(f) = SpaceSyntax(f.space) \o SegmentationSyntax(f.segmentation)
          \o write_loop_filter_with_deltas(f.filter, f.deltas)
          \o write_token_partition_count(f.count) \o write_quant_indices(f.quant.y_ac_qi, f.quant.deltas)
          \o RefreshSyntax(f.refresh, f.entropy)
          \o write_token_prob_updates(f.tokens) \o write_mb_no_skip_coeff(f.skip # None, The(f.skip))
          \o ModesSyntax(f.modes)
  BY Zenon DEF Layout
<1>17. RefreshSyntax(f.refresh, f.entropy) = WriteRefresh(p.refresh)
  BY <1>5, <1>11
<1>18. InterHeader(p) = Layout(f)
  BY <1>2, <1>3, <1>4, <1>7, <1>9, <1>11, <1>13, <1>14, <1>15, <1>16, <1>17, ZenonT(60)
<1> QED BY <1>10, <1>12, <1>18 DEF IsHeader, f

-----------------------------------------------------------------------------
(* What each of the reader's steps finds in a layout, and where it stops.     *)
SpaceRead(wire, from, key) ==
  IF key THEN Some(<<Bit(wire, from, 128), Bit(wire, from + 1, 128)>>) ELSE None
FirstFlag(from, key) == IF key THEN from + 2 ELSE from
SegmentationRead(wire, first) ==
  IF Bit(wire, first, 128) THEN Some(parse_update_segmentation(wire, first + 1).v) ELSE None
SegmentationEnd(wire, first) ==
  IF Bit(wire, first, 128) THEN parse_update_segmentation(wire, first + 1).at ELSE first + 1
FilterRead(wire, from) ==
  [simple |-> Bit(wire, from, 128), level |-> ReadLiteral(wire, from + 1, 6).v,
   sharpness |-> ReadLiteral(wire, from + 7, 3).v]
DeltasReadAt(wire, from) == parse_mb_lf_adjustments(wire, from + 10)
CountRead(wire, from) == 2^(ReadLiteral(wire, from, 2).v)
QuantRead(wire, from) == parse_quant_indices(wire, from + 2)
EntropyRead(wire, from, key) == IF key THEN Bit(wire, from, 128) ELSE Bit(wire, BiasPlace(wire, from) + 2, 128)
ControlsRead(wire, from, key) == IF key THEN None ELSE Some(RefreshRead(wire, from))
ControlsEnd(wire, from, key) == IF key THEN from + 1 ELSE BiasPlace(wire, from) + 4
TokensRead(wire, from) == parse_token_prob_update(wire, from)
SkipEnd(wire, from) == IF Bit(wire, from, 128) THEN from + 9 ELSE from + 1
ModeProbsRead(wire, from, key) == IF key THEN None ELSE Some(ModesRead(wire, from).v)
ModeProbsEnd(wire, from, key) == IF key THEN from ELSE ModesRead(wire, from).at

LEMMA SegmentationGroup ==
  ASSUME NEW f \in Fields, LeftOut(f), NEW wire, LaidOut(f, wire), NEW key \in BOOLEAN, key <=> f.refresh = None
  PROVE  /\ SpaceRead(wire, 1, key) = f.space /\ FirstFlag(1, key) = FlagAt(f)
         /\ SegmentationRead(wire, FlagAt(f)) = f.segmentation
         /\ SegmentationEnd(wire, FlagAt(f)) = FilterAt(f)
<1>1. /\ wire \in Wire /\ Stands(wire, 1, SpaceSyntax(f.space)) /\ FlagAt(f) \in Place /\ 1 \in Place
      /\ Stands(wire, FlagAt(f), SegmentationSyntax(f.segmentation))
  BY DEF LaidOut, Place
<1>2. f.space \in Maybe(BOOLEAN \X BOOLEAN) /\ f.segmentation \in Maybe(Layers)
  BY FieldTypes
<1>3. (f.space = None <=> f.refresh # None) /\ \A s \in f.segmentation : LayerLeftOut(s)
  BY LeftOutParts
<1>4. Len(SpaceSyntax(f.space)) = (IF f.space = None THEN 0 ELSE 2)
  BY <1>1, <1>2, SpaceReads
<1>5. SpaceRead(wire, 1, key) = f.space
  BY <1>1, <1>2, <1>3, SpaceReads DEF SpaceRead
<1>6. FirstFlag(1, key) = FlagAt(f)
  <2>1. CASE key
    BY <1>3, <1>4, <2>1 DEF FirstFlag, FlagAt
  <2>2. CASE ~key
    BY <1>3, <1>4, <2>2 DEF FirstFlag, FlagAt
  <2> QED BY <2>1, <2>2
<1>7. /\ SegmentationRead(wire, FlagAt(f)) = f.segmentation
      /\ SegmentationEnd(wire, FlagAt(f)) = FlagAt(f) + Len(SegmentationSyntax(f.segmentation))
  BY <1>1, <1>2, <1>3, SegmentationReads DEF SegmentationRead, SegmentationEnd
<1> QED BY <1>5, <1>6, <1>7 DEF FilterAt

LEMMA FilterGroup ==
  ASSUME NEW f \in Fields, LeftOut(f), NEW wire, LaidOut(f, wire)
  PROVE  /\ FilterRead(wire, FilterAt(f)) = f.filter
         /\ DeltasReadAt(wire, FilterAt(f)).v = f.deltas
         /\ DeltasReadAt(wire, FilterAt(f)).at = CountAt(f)
<1>1. /\ wire \in Wire /\ FilterAt(f) \in Place
      /\ Stands(wire, FilterAt(f), write_loop_filter_with_deltas(f.filter, f.deltas))
  BY DEF LaidOut
<1>2. f.filter \in [simple : BOOLEAN, level : Unsigned(6), sharpness : Unsigned(3)] /\ f.deltas \in DeltaSets
  BY FieldTypes
<1>3. DeltasLeftOut(f.deltas)
  BY LeftOutParts
<1>4. /\ FilterRead(wire, FilterAt(f)) = f.filter
      /\ DeltasReadAt(wire, FilterAt(f)) = [v |-> f.deltas, at |-> CountAt(f)]
  BY <1>1, <1>2, <1>3, LoopFilterReads DEF FilterRead, DeltasReadAt, CountAt
<1> QED BY <1>4

LEMMA QuantGroup ==
  ASSUME NEW f \in Fields, LeftOut(f), NEW wire, LaidOut(f, wire)
  PROVE  /\ CountRead(wire, CountAt(f)) = f.count
         /\ QuantRead(wire, CountAt(f)).v = f.quant
         /\ QuantRead(wire, CountAt(f)).at = RefreshAt(f)
<1>1. /\ wire \in Wire /\ CountAt(f) \in Place /\ QuantAt(f) \in Place
      /\ Stands(wire, CountAt(f), write_token_partition_count(f.count))
      /\ Stands(wire, QuantAt(f), write_quant_indices(f.quant.y_ac_qi, f.quant.deltas))
  BY DEF LaidOut
<1>2. f.count \in {1, 2, 4, 8} /\ f.quant \in [y_ac_qi : Unsigned(7), deltas : [1..5 -> Maybe(Signed(4))]]
  BY FieldTypes
<1>3. Len(write_token_partition_count(f.count)) = 2 /\ CountRead(wire, CountAt(f)) = f.count
  BY <1>1, <1>2, CountReads DEF CountRead
<1>4. QuantAt(f) = CountAt(f) + 2
  BY <1>3 DEF QuantAt
<1>5. parse_quant_indices(wire, QuantAt(f)) = [v |-> f.quant, at |-> RefreshAt(f)]
  BY <1>1, <1>2, QuantReads DEF RefreshAt
<1>6. QuantRead(wire, CountAt(f)) = [v |-> f.quant, at |-> RefreshAt(f)]
  BY <1>4, <1>5 DEF QuantRead
<1> QED BY <1>3, <1>6

LEMMA RefreshGroup ==
  ASSUME NEW f \in Fields, LeftOut(f), NEW wire, LaidOut(f, wire), NEW key \in BOOLEAN, key <=> f.refresh = None
  PROVE  /\ EntropyRead(wire, RefreshAt(f), key) = f.entropy
         /\ ControlsRead(wire, RefreshAt(f), key) = f.refresh
         /\ ControlsEnd(wire, RefreshAt(f), key) = TokensAt(f)
<1>1. /\ wire \in Wire /\ RefreshAt(f) \in Place
      /\ Stands(wire, RefreshAt(f), RefreshSyntax(f.refresh, f.entropy))
  BY DEF LaidOut
<1>2. f.entropy \in BOOLEAN /\ f.refresh \in Maybe(Refreshings)
  BY FieldTypes
<1>3. CASE f.refresh = None
  <2>1. RefreshSyntax(f.refresh, f.entropy) = Flag(128, f.entropy)
    BY <1>3 DEF RefreshSyntax
  <2>2. Bit(wire, RefreshAt(f), 128) = f.entropy
    BY <1>1, <1>2, <2>1, FlagReads
  <2>3. Len(RefreshSyntax(f.refresh, f.entropy)) = 1
    BY <1>2, <2>1, FlagIsWire
  <2> QED BY <1>3, <2>2, <2>3 DEF EntropyRead, ControlsRead, ControlsEnd, TokensAt
<1>4. CASE f.refresh # None
  <2>1. Selected(The(f.refresh)) /\ f.refresh = Some(The(f.refresh))
    BY <1>2, <1>4, LeftOutParts, MaybeIs
  <2>2. /\ RefreshRead(wire, RefreshAt(f)) = The(f.refresh)
        /\ Bit(wire, BiasPlace(wire, RefreshAt(f)) + 2, 128) = f.entropy
        /\ BiasPlace(wire, RefreshAt(f)) + 4 = RefreshAt(f) + Len(RefreshSyntax(f.refresh, f.entropy))
    BY <1>1, <1>2, <1>4, <2>1, RefreshReads
  <2> QED BY <1>4, <2>1, <2>2 DEF EntropyRead, ControlsRead, ControlsEnd, TokensAt
<1> QED BY <1>3, <1>4

LEMMA TokensGroup ==
  ASSUME NEW f \in Fields, LeftOut(f), NEW wire, LaidOut(f, wire)
  PROVE  /\ TokensRead(wire, TokensAt(f)).v = f.tokens /\ TokensRead(wire, TokensAt(f)).at = SkipAt(f)
         /\ SkipRead(wire, SkipAt(f)) = f.skip /\ SkipEnd(wire, SkipAt(f)) = ModesAt(f)
<1>1. /\ wire \in Wire /\ TokensAt(f) \in Place /\ SkipAt(f) \in Place
      /\ Stands(wire, TokensAt(f), write_token_prob_updates(f.tokens))
      /\ Stands(wire, SkipAt(f), write_mb_no_skip_coeff(f.skip # None, The(f.skip)))
  BY DEF LaidOut
<1>2. f.skip \in Maybe(Unsigned(8))
  BY FieldTypes
<1>3. /\ 8 \in Widths /\ Fitting(8, FALSE) = Unsigned(8) /\ CoeffUpdateProbs \in Seq(Nat)
      /\ Len(CoeffUpdateProbs) \in Nat /\ FALSE \in BOOLEAN
  BY LayoutAssumption DEF Widths, Fitting
<1>4. f.tokens \in [1..Len(CoeffUpdateProbs) -> Maybe(Fitting(8, FALSE))]
  BY <1>3, FieldTypes
<1>5. ReadOptionals(wire, TokensAt(f), CoeffUpdateProbs, 8, FALSE)
        = [v |-> f.tokens, at |-> TokensAt(f) + Len(Optionals(f.tokens, CoeffUpdateProbs, 8, FALSE))]
  <2>1. Stands(wire, TokensAt(f), Optionals(f.tokens, CoeffUpdateProbs, 8, FALSE))
    BY <1>1 DEF write_token_prob_updates
  <2> QED BY <1>1, <1>3, <1>4, <2>1, OptionalsReads
<1>6. TokensRead(wire, TokensAt(f)) = [v |-> f.tokens, at |-> SkipAt(f)]
  BY <1>5 DEF TokensRead, parse_token_prob_update, SkipAt, write_token_prob_updates
<1>7. /\ SkipRead(wire, SkipAt(f)) = f.skip
      /\ SkipEnd(wire, SkipAt(f)) = SkipAt(f) + Len(write_mb_no_skip_coeff(f.skip # None, The(f.skip)))
  BY <1>1, <1>2, SkipReads DEF SkipEnd
<1>8. TokensRead(wire, TokensAt(f)).v = f.tokens /\ TokensRead(wire, TokensAt(f)).at = SkipAt(f)
  BY <1>6
<1> QED BY <1>7, <1>8 DEF ModesAt

LEMMA ModesGroup ==
  ASSUME NEW f \in Fields, LeftOut(f), NEW wire, LaidOut(f, wire), NEW key \in BOOLEAN, key <=> f.refresh = None
  PROVE  /\ ModeProbsRead(wire, ModesAt(f), key) = f.modes
         /\ ModeProbsEnd(wire, ModesAt(f), key) = Len(wire) + 1
<1>1. /\ wire \in Wire /\ ModesAt(f) \in Place /\ Stands(wire, ModesAt(f), ModesSyntax(f.modes))
      /\ EndAt(f) = Len(wire) + 1
  BY DEF LaidOut
<1>2. f.modes \in Maybe(ModeProbs) /\ (f.modes = None <=> f.refresh = None) /\ MvUpdateProbs \in Seq(Nat)
  BY FieldTypes, LeftOutParts, LayoutAssumption
<1>3. CASE f.modes = None
  <2>1. Len(ModesSyntax(f.modes)) = 0
    BY <1>3 DEF ModesSyntax, When
  <2>2. EndAt(f) = ModesAt(f)
    BY <1>1, <2>1 DEF EndAt, Place
  <2> QED BY <1>1, <1>2, <1>3, <2>2 DEF ModeProbsRead, ModeProbsEnd
<1>4. CASE f.modes # None
  <2>1. f.modes = Some(The(f.modes))
    BY <1>2, <1>4, MaybeIs
  <2>2. ModesRead(wire, ModesAt(f)) = [v |-> The(f.modes), at |-> EndAt(f)]
    BY <1>1, <1>2, <1>4, ModesReads DEF EndAt
  <2>3. ModesRead(wire, ModesAt(f)).v = The(f.modes) /\ ModesRead(wire, ModesAt(f)).at = EndAt(f)
    BY <2>2
  <2> QED BY <1>1, <1>2, <1>4, <2>1, <2>3 DEF ModeProbsRead, ModeProbsEnd
<1> QED BY <1>3, <1>4

-----------------------------------------------------------------------------
(* A frame that an entry point, or another writer, has laid out.             *)
SegmentDeltas(g) == IF g.entry = "adaptive" THEN {g.p.quant_delta} ELSE {s.quant_delta : s \in g.p.segments}
HasSegments(g) == g.entry = "adaptive" \/ (g.entry = "inter" /\ g.p.segments # None)
OursLaid(g) ==
  /\ g.p.rows \in Seq(Nat) /\ g.sizes = Placed(g.p, g.count)
  /\ Meant(g).entropy => Meant(g).tokens = NoTokenUpdates
  /\ Meant(g).quant.y_ac_qi = g.p.q
  /\ HasSegments(g) =>
       \A deltas \in SegmentDeltas(g), read \in Meant(g).segmentation, s \in 1..4 : read.quantizer[s] = {deltas[s]}
TagLaid(g) ==
  /\ TagSays(parse_header(g.tag), g.key, g.show, g.p.first)
  /\ g.key => PictureSays(parse_header(g.tag), g.p.width, g.p.hscale, g.p.height, g.p.vscale)
LaidFrame(g) ==
  /\ IsHeader(Meant(g), g.bits)
  /\ g.key \in BOOLEAN /\ (g.key <=> Meant(g).refresh = None) /\ g.count = Meant(g).count
  /\ TagLaid(g)
  /\ g.sizes \in [0..g.count - 1 -> Nat]
  /\ g.entry # "foreign" => OursLaid(g)

(* The bytes of a partition grow by the rows that are its own.                *)
GrowsByRows(sum, rows, k, count) ==
  /\ sum \in [0..Len(rows) -> Nat] /\ sum[0] = 0
  /\ \A r \in 0..Len(rows) - 1 : sum[r + 1] = sum[r] + (IF r % count = k THEN rows[r + 1] ELSE 0)

LEMMA RowSums ==
  ASSUME NEW rows \in Seq(Nat), NEW count \in {1, 2, 4, 8}, NEW k \in 0..count - 1
  PROVE  GrowsByRows(BytesBefore(rows, k, count), rows, k, count)
<1> DEFINE share == [r \in 0..Len(rows) - 1 |-> IF r % count = k THEN rows[r + 1] ELSE 0]
           sum == BytesBefore(rows, k, count)
           n == Len(rows)
<1>1. n \in Nat /\ \A r \in 0..n - 1 : rows[r + 1] \in Nat
  OBVIOUS
<1>2. \A r \in 0..n - 1 : share[r] = IF r % count = k THEN rows[r + 1] ELSE 0
  OBVIOUS
<1>3. \A r \in 0..n - 1 : share[r] \in Nat
  BY <1>1
<1>4. sum = Sums(share, n)
  BY DEF BytesBefore
<1> HIDE DEF share, sum, n
<1>5. SumsOf(share, n, sum)
  BY <1>1, <1>3, <1>4, SumsDefined
<1>6. sum \in [0..n -> Nat] /\ sum[0] = 0 /\ \A m \in 1..n : sum[m] = sum[m - 1] + share[m - 1]
  BY <1>5 DEF SumsOf
<1>7. \A r \in 0..n - 1 : sum[r + 1] = sum[r] + share[r]
  <2> SUFFICES ASSUME NEW r \in 0..n - 1 PROVE sum[r + 1] = sum[r] + share[r]
    OBVIOUS
  <2>1. r + 1 \in 1..n /\ (r + 1) - 1 = r
    BY <1>1
  <2> QED BY <1>6, <2>1
<1> QED BY <1>2, <1>6, <1>7 DEF GrowsByRows, sum, n

LEMMA SizesOf ==
  ASSUME NEW p, p.rows \in Seq(Nat), NEW count \in {1, 2, 4, 8}
  PROVE  Placed(p, count) \in [0..count - 1 -> Nat]
<1> DEFINE rows == p.rows
<1>1. rows \in Seq(Nat) /\ Len(rows) \in Nat
  OBVIOUS
<1>2. ASSUME NEW k \in 0..count - 1 PROVE PartitionBytes(p, k, count) \in Nat
  <2>1. PartitionBytes(p, k, count) = FlushBytes + BytesBefore(rows, k, count)[Len(rows)]
    BY DEF PartitionBytes
  <2> HIDE DEF rows
  <2>2. BytesBefore(rows, k, count)[Len(rows)] \in Nat
    <3>1. GrowsByRows(BytesBefore(rows, k, count), rows, k, count)
      BY <1>1, RowSums, Zenon
    <3> QED BY <1>1, <3>1 DEF GrowsByRows
  <2> QED BY <2>1, <2>2, LayoutAssumption
<1> QED BY <1>2 DEF Placed

LEMMA SmallBits ==
  /\ Unsigned(2) = 0..3 /\ Unsigned(3) = 0..7
  /\ \A x \in Unsigned(14) : x \in Nat /\ x < 2^14 /\ x % 2^14 = x
  /\ \A x \in Unsigned(19) : x \in Nat /\ x < 2^19
<1>1. 2^2 = 4 /\ 2^3 = 8 /\ 2^14 = 16384 /\ 2^19 = 8 * 65536
  BY SMT
<1>2. Unsigned(2) = 0..3 /\ Unsigned(3) = 0..7
  BY <1>1 DEF Unsigned
<1>3. ASSUME NEW x \in Unsigned(14) PROVE x \in Nat /\ x < 2^14 /\ x % 2^14 = x
  <2>1. x \in Nat /\ x <= 2^14 - 1
    BY <1>1, SMT DEF Unsigned
  <2>2. x < 16384
    BY <1>1, <2>1, SMT
  <2>3. x % 16384 = x
    BY <2>1, <2>2, SMT
  <2> QED BY <1>1, <2>1, <2>2, <2>3, SMT
<1>4. ASSUME NEW x \in Unsigned(19) PROVE x \in Nat /\ x < 2^19
  <2>1. x \in Nat /\ x <= 2^19 - 1
    BY <1>1, SMT DEF Unsigned
  <2> QED BY <1>1, <2>1, SMT
<1> QED BY <1>2, <1>3, <1>4

(* The tag of a call, and of other writers' frames.                           *)
LEMMA ForeignTag ==
  ASSUME NEW key \in BOOLEAN, NEW version \in 0..7, NEW show \in BOOLEAN, NEW size \in Unsigned(19),
         NEW width \in Unsigned(14), NEW height \in Unsigned(14), NEW hscale \in 0..3, NEW vscale \in 0..3
  PROVE  TagBytes(write_frame_tag(key, version, show, size, width, height, hscale, vscale), key,
                  TagWord(key, version, show, size), hscale * 2^14 + width, vscale * 2^14 + height)
<1> DEFINE word == TagWord(key, version, show, size)
           h == hscale * 2^14 + width
           v == vscale * 2^14 + height
<1>1. size \in Nat /\ size < 2^19 /\ width \in Nat /\ height \in Nat /\ width % 2^14 = width /\ height % 2^14 = height
  BY SmallBits
<1>2. Packed(word, key, version, show, size)
  BY <1>1, TagWordParts, Zenon
<1>3. word \in Nat
  <2> HIDE DEF word
  <2> QED BY <1>2 DEF Packed
<1>4. h \in Nat /\ v \in Nat
  <2>1. 2^14 = 16384
    BY SMT
  <2> QED BY <1>1, <2>1, SMT
<1>5. h = hscale * 2^14 + (width % 2^14) /\ v = vscale * 2^14 + (height % 2^14)
  BY <1>1
<1> HIDE DEF word, h, v
<1>6. word = TagWord(key, version, show, size)
  BY DEF word
<1>7. TagBytes(write_frame_tag(key, version, show, size, width, height, hscale, vscale), key, word, h, v)
  BY <1>3, <1>4, <1>5, <1>6, TagIsWritten, Zenon
<1> QED BY <1>7 DEF word, h, v

LEMMA CodedTag ==
  ASSUME NEW p, NEW count, Checked(p, count), NEW key \in BOOLEAN, NEW show \in BOOLEAN
  PROVE  /\ TagSays(parse_header(set_show_frame_bit(
                      write_frame_tag(key, 0, TRUE, p.first, p.width, p.height, 0, 0), show)), key, show, p.first)
         /\ key => PictureSays(parse_header(set_show_frame_bit(
                      write_frame_tag(key, 0, TRUE, p.first, p.width, p.height, 0, 0), show)),
                      p.width, p.hscale, p.height, p.vscale)
<1> DEFINE size == p.first
           h == 0 * 2^14 + p.width
           v == 0 * 2^14 + p.height
           tag == write_frame_tag(key, 0, TRUE, size, p.width, p.height, 0, 0)
           set == set_show_frame_bit(tag, show)
<1>1. size \in Unsigned(19) /\ p.width \in Unsigned(14) /\ p.height \in Unsigned(14) /\ p.hscale = 0 /\ p.vscale = 0
  BY DEF Checked
<1>2. size \in Nat /\ size < 2^19 /\ p.width \in Nat /\ p.width < 2^14 /\ p.height \in Nat /\ p.height < 2^14
  BY <1>1, SmallBits
<1>3. 0 \in 0..7 /\ 0 \in 0..3 /\ TRUE \in BOOLEAN
  OBVIOUS
<1>4. TagBytes(tag, key, TagWord(key, 0, TRUE, size), h, v)
  BY <1>1, <1>3, ForeignTag, Zenon
<1> HIDE DEF tag
<1>5. TagBytes(set, key, TagWord(key, 0, show, size), h, v)
  BY <1>2, <1>4, ShowBitSet, Zenon
<1> HIDE DEF set
<1>6. TagSays(parse_header(set), key, show, size)
  BY <1>2, <1>3, <1>5, TagReads, Zenon
<1>7. ASSUME key PROVE PictureSays(parse_header(set), p.width, p.hscale, p.height, p.vscale)
  <2>1. key = TRUE
    BY <1>7
  <2>2. TagBytes(set, TRUE, TagWord(TRUE, 0, show, size), h, v)
    BY <1>5, <2>1, Zenon
  <2> HIDE DEF size
  <2>3. PictureSays(parse_header(set), p.width, 0, p.height, 0)
    BY <1>2, <1>3, <2>2, PictureReads, Zenon
  <2> QED BY <1>1, <2>3
<1> QED BY <1>6, <1>7, Zenon DEF set, tag

(* What a laid frame needs of the fields its call means.                      *)
FitsItsCall(g) ==
  LET f == Meant(g) IN
  /\ IsHeader(f, g.bits)
  /\ g.key <=> f.refresh = None
  /\ f.count = g.count /\ f.quant.y_ac_qi = g.p.q
  /\ f.entropy => f.tokens = NoTokenUpdates
  /\ HasSegments(g) =>
       \A deltas \in SegmentDeltas(g), read \in f.segmentation, s \in 1..4 : read.quantizer[s] = {deltas[s]}

(* A call's header and tag, sizes and rows.                                   *)
LEMMA CodedIsLaid ==
  ASSUME NEW p, NEW count, IsCall(p), NEW key \in BOOLEAN, ~Refused(p, key, count), NEW show \in BOOLEAN,
         NEW entry, entry # "foreign", NEW bits, NEW g, g = Coded(entry, p, key, show, bits, count), FitsItsCall(g)
  PROVE  LaidFrame(g)
<1> DEFINE f == Meant(g)
           tag == set_show_frame_bit(write_frame_tag(key, 0, TRUE, p.first, p.width, p.height, 0, 0), show)
<1>1. Checked(p, count)
  BY CallTypes, Zenon
<1>2. /\ g.entry = entry /\ g.p = p /\ g.key = key /\ g.show = show /\ g.bits = bits /\ g.count = count
      /\ g.tag = tag /\ g.sizes = Placed(p, count)
  BY DEF Coded
<1>3. /\ TagSays(parse_header(tag), key, show, p.first)
      /\ key => PictureSays(parse_header(tag), p.width, p.hscale, p.height, p.vscale)
  BY <1>1, CodedTag, Zenon
<1> HIDE DEF tag
<1>4. p.rows \in Seq(Nat) /\ Placed(p, count) \in [0..count - 1 -> Nat]
  <2>1. p.rows \in Seq(Nat) /\ count \in {1, 2, 4, 8}
    BY <1>1 DEF IsCall, Checked
  <2> QED BY <2>1, SizesOf
<1>5. /\ IsHeader(f, bits) /\ (key <=> f.refresh = None) /\ f.count = count /\ f.quant.y_ac_qi = p.q
      /\ f.entropy => f.tokens = NoTokenUpdates
      /\ HasSegments(g) =>
           \A deltas \in SegmentDeltas(g), read \in f.segmentation, s \in 1..4 : read.quantizer[s] = {deltas[s]}
  BY <1>2, Zenon DEF FitsItsCall
<1>51. f = Meant(g)
  OBVIOUS
<1> HIDE DEF f
<1>6. OursLaid(g)
  BY <1>2, <1>4, <1>5, <1>51 DEF OursLaid
<1>7. TagLaid(g)
  BY <1>2, <1>3, Zenon DEF TagLaid
<1> QED BY <1>2, <1>4, <1>5, <1>51, <1>6, <1>7 DEF LaidFrame

LEMMA KeyMeantParts ==
  ASSUME NEW segmentation, NEW filter, NEW count, NEW q, NEW entropy, NEW tokens, NEW skip,
         NEW f, f = KeyMeant(segmentation, filter, count, q, entropy, tokens, skip)
  PROVE  /\ f.refresh = None /\ f.count = count /\ f.quant.y_ac_qi = q
         /\ f.entropy = entropy /\ f.tokens = tokens /\ f.segmentation = segmentation
BY DEF KeyMeant

LEMMA SilentIsLaid ==
  ASSUME NEW p \in Silent, ~Refused(p, TRUE, p.count)
  PROVE  LaidFrame(Coded("silent", p, TRUE, TRUE, encode_silent_keyframe(p), p.count))
<1> DEFINE g == Coded("silent", p, TRUE, TRUE, encode_silent_keyframe(p), p.count)
           f == SilentMeant(p)
           bits == encode_silent_keyframe(p)
<1>0. TRUE \in BOOLEAN /\ FALSE \in BOOLEAN /\ "silent" # "foreign"
  OBVIOUS
<1>1. IsCall(p)
  BY LayoutAssumption
<1>2. IsHeader(f, bits)
  BY <1>1, SilentHeader
<1>3. g.entry = "silent" /\ g.p = p /\ g.key = TRUE /\ g.bits = bits /\ g.count = p.count
  BY DEF Coded
<1>4. /\ f.refresh = None /\ f.count = p.count /\ f.quant.y_ac_qi = p.q /\ f.tokens = NoTokenUpdates
  <2> DEFINE filter == [p.filter EXCEPT !.simple = FALSE]
  <2>1. f = KeyMeant(None, filter, p.count, p.q, TRUE, NoTokenUpdates, 1)
    BY Zenon DEF SilentMeant
  <2> HIDE DEF filter, f
  <2> QED BY <2>1 DEF KeyMeant
<1> HIDE DEF g, bits
<1>5. Meant(g) = f
  BY <1>3 DEF Meant
<1> HIDE DEF f
<1>6. ~HasSegments(g)
  BY <1>3 DEF HasSegments
<1>7. FitsItsCall(g)
  BY <1>2, <1>3, <1>4, <1>5, <1>6 DEF FitsItsCall
<1>8. g = Coded("silent", p, TRUE, TRUE, bits, p.count)
  BY DEF g, bits
<1>9. LaidFrame(g)
  BY <1>1, <1>0, <1>7, <1>8, CodedIsLaid, Zenon
<1> QED BY <1>9 DEF g, bits

LEMMA KeyIsLaid ==
  ASSUME NEW p \in Keys, ~Refused(p, TRUE, p.count)
  PROVE  LaidFrame(Coded("key", p, TRUE, TRUE, KeyframeHeader(p), p.count))
<1> DEFINE g == Coded("key", p, TRUE, TRUE, KeyframeHeader(p), p.count)
           f == KeyframeMeant(p)
           bits == KeyframeHeader(p)
<1>0. TRUE \in BOOLEAN /\ FALSE \in BOOLEAN /\ "key" # "foreign"
  OBVIOUS
<1>1. IsCall(p)
  BY LayoutAssumption
<1>2. IsHeader(f, bits)
  BY <1>1, KeyHeader
<1>3. g.entry = "key" /\ g.p = p /\ g.key = TRUE /\ g.bits = bits /\ g.count = p.count
  BY DEF Coded
<1>4. /\ f.refresh = None /\ f.count = p.count /\ f.quant.y_ac_qi = p.q /\ f.tokens = p.tokens
      /\ f.entropy = ~AnySome(p.tokens)
  BY KeyMeantParts DEF KeyframeMeant
<1>5. f.entropy => f.tokens = NoTokenUpdates
  <2>1. p.tokens \in [1..Len(CoeffUpdateProbs) -> Maybe(Unsigned(8))]
    BY <1>1 DEF IsCall
  <2>2. f.entropy => \A k \in 1..Len(CoeffUpdateProbs) : p.tokens[k] = None
    BY <1>4, <2>1 DEF AnySome
  <2> QED BY <1>4, <2>1, <2>2 DEF NoTokenUpdates, NoneOf
<1> HIDE DEF g, bits
<1>6. Meant(g) = f
  BY <1>3 DEF Meant
<1> HIDE DEF f
<1>7. ~HasSegments(g)
  BY <1>3 DEF HasSegments
<1>8. FitsItsCall(g)
  BY <1>2, <1>3, <1>4, <1>5, <1>6, <1>7 DEF FitsItsCall
<1>9. g = Coded("key", p, TRUE, TRUE, bits, p.count)
  BY DEF g, bits
<1>10. LaidFrame(g)
  BY <1>1, <1>0, <1>8, <1>9, CodedIsLaid, Zenon
<1> QED BY <1>10 DEF g, bits

LEMMA AdaptiveIsLaid ==
  ASSUME NEW p \in Adaptive, ~Refused(p, TRUE, 1)
  PROVE  LaidFrame(Coded("adaptive", p, TRUE, TRUE, AdaptiveHeader(p), 1))
<1> DEFINE g == Coded("adaptive", p, TRUE, TRUE, AdaptiveHeader(p), 1)
           f == AdaptiveMeant(p)
           bits == AdaptiveHeader(p)
<1>0. TRUE \in BOOLEAN /\ FALSE \in BOOLEAN /\ "adaptive" # "foreign"
  OBVIOUS
<1>1. IsCall(p) /\ AreSegments(p)
  BY LayoutAssumption
<1>2. IsHeader(f, bits)
  BY <1>1, AdaptiveKeyHeader
<1>3. g.entry = "adaptive" /\ g.p = p /\ g.key = TRUE /\ g.bits = bits /\ g.count = 1
  BY DEF Coded
<1>4. /\ f.refresh = None /\ f.count = 1 /\ f.quant.y_ac_qi = p.q /\ f.tokens = NoTokenUpdates
      /\ f.segmentation = SegmentsMeant(p, <<170, 170, 170>>)
  <2> DEFINE layer == SegmentsMeant(p, <<170, 170, 170>>)
  <2>1. f = KeyMeant(layer, p.filter, 1, p.q, TRUE, NoTokenUpdates, 128)
    BY Zenon DEF AdaptiveMeant
  <2>2. layer = SegmentsMeant(p, <<170, 170, 170>>)
    OBVIOUS
  <2> HIDE DEF layer, f
  <2>3. /\ f.refresh = None /\ f.count = 1 /\ f.quant.y_ac_qi = p.q /\ f.tokens = NoTokenUpdates
        /\ f.segmentation = layer
    BY <2>1 DEF KeyMeant
  <2> QED BY <2>2, <2>3
<1>5. \A read \in f.segmentation, s \in 1..4 : read.quantizer[s] = {p.quant_delta[s]}
  BY <1>4 DEF SegmentsMeant, Segments, Some
<1> HIDE DEF g, bits
<1>6. Meant(g) = f
  BY <1>3 DEF Meant
<1> HIDE DEF f
<1>7. SegmentDeltas(g) = {p.quant_delta}
  BY <1>3 DEF SegmentDeltas
<1>8. \A deltas \in SegmentDeltas(g), read \in f.segmentation, s \in 1..4 : read.quantizer[s] = {deltas[s]}
  BY <1>5, <1>7
<1>9. FitsItsCall(g)
  BY <1>2, <1>3, <1>4, <1>6, <1>8 DEF FitsItsCall
<1>10. g = Coded("adaptive", p, TRUE, TRUE, bits, 1)
  BY DEF g, bits
<1>11. LaidFrame(g)
  BY <1>1, <1>0, <1>9, <1>10, CodedIsLaid, Zenon
<1> QED BY <1>11 DEF g, bits

LEMMA InterIsLaid ==
  ASSUME NEW p \in Inters, ~Refused(p, FALSE, p.count)
  PROVE  LaidFrame(Coded("inter", p, FALSE, p.show, InterHeader(p), p.count))
<1> DEFINE g == Coded("inter", p, FALSE, p.show, InterHeader(p), p.count)
           f == InterMeant(p)
           bits == InterHeader(p)
<1>0. TRUE \in BOOLEAN /\ FALSE \in BOOLEAN /\ "inter" # "foreign"
  OBVIOUS
<1>1. IsInterCall(p)
  BY LayoutAssumption
<1>2. IsCall(p) /\ p.show \in BOOLEAN
  BY <1>1 DEF IsInterCall
<1>3. IsHeader(f, bits)
  BY <1>1, InterHeaderIsWritten
<1>4. g.entry = "inter" /\ g.p = p /\ g.key = FALSE /\ g.bits = bits /\ g.count = p.count
  BY DEF Coded
<1>5. /\ f.refresh = Some(RefreshMeant(p.refresh)) /\ f.count = p.count /\ f.quant.y_ac_qi = p.q /\ f.entropy = FALSE
      /\ f.segmentation = UNION {SegmentsMeant(s, SegmentTreeProbs(s.counts)) : s \in p.segments}
  BY DEF InterMeant
<1>6. f.refresh # None
  BY <1>5 DEF Some, None
<1>7. ASSUME NEW deltas \in {s.quant_delta : s \in p.segments}, NEW read \in f.segmentation, NEW k \in 1..4
      PROVE  read.quantizer[k] = {deltas[k]}
  <2>1. PICK s \in p.segments : deltas = s.quant_delta
    OBVIOUS
  <2>2. PICK t \in p.segments : read \in SegmentsMeant(t, SegmentTreeProbs(t.counts))
    BY <1>5
  <2>3. s = t
    BY <1>1 DEF IsInterCall
  <2>4. read.quantizer[k] = {t.quant_delta[k]}
    BY <2>2 DEF SegmentsMeant, Segments, Some
  <2> QED BY <2>1, <2>3, <2>4
<1> HIDE DEF g, bits
<1>8. Meant(g) = f
  BY <1>4 DEF Meant
<1> HIDE DEF f
<1>9. SegmentDeltas(g) = {s.quant_delta : s \in p.segments}
  BY <1>4 DEF SegmentDeltas
<1>10. \A deltas \in SegmentDeltas(g), read \in f.segmentation, s \in 1..4 : read.quantizer[s] = {deltas[s]}
  BY <1>7, <1>9
<1>11. FitsItsCall(g)
  BY <1>3, <1>4, <1>5, <1>6, <1>8, <1>10 DEF FitsItsCall
<1>12. g = Coded("inter", p, FALSE, p.show, bits, p.count)
  BY DEF g, bits
<1>13. LaidFrame(g)
  BY <1>2, <1>0, <1>11, <1>12, CodedIsLaid, Zenon
<1> QED BY <1>13 DEF g, bits

LEMMA ForeignIsLaid ==
  ASSUME NEW p \in Foreign,
         NEW g, g = [entry |-> "foreign", p |-> p, key |-> p.key, show |-> p.show, bits |-> p.bits,
                     tag |-> p.tag, count |-> p.count, sizes |-> [k \in 0..p.count - 1 |-> 0]]
  PROVE  LaidFrame(g)
<1>1. IsPacket(p)
  BY LayoutAssumption
<1>2. /\ g.entry = "foreign" /\ g.p = p /\ g.key = p.key /\ g.show = p.show /\ g.bits = p.bits /\ g.tag = p.tag
      /\ g.count = p.count /\ g.sizes = [k \in 0..p.count - 1 |-> 0]
  OBVIOUS
<1>3. Meant(g) = p.fields
  BY <1>2 DEF Meant
<1>4. /\ p.key \in BOOLEAN /\ p.show \in BOOLEAN /\ p.first \in Unsigned(19)
      /\ IsHeader(p.fields, p.bits) /\ p.count = p.fields.count /\ (p.key <=> p.fields.refresh = None)
  BY <1>1 DEF IsPacket, IsHeader
<1>5. PICK version \in Unsigned(3) :
       IF p.key
       THEN /\ p.width \in Unsigned(14) /\ p.height \in Unsigned(14)
            /\ p.hscale \in Unsigned(2) /\ p.vscale \in Unsigned(2)
            /\ p.tag = write_frame_tag(TRUE, version, p.show, p.first, p.width, p.height, p.hscale, p.vscale)
       ELSE p.tag = write_frame_tag(FALSE, version, p.show, p.first, 0, 0, 0, 0)
  BY <1>1 DEF IsPacket
<1>6. version \in 0..7 /\ p.first \in Nat /\ p.first < 2^19
  BY <1>4, SmallBits
<1>7. /\ TagSays(parse_header(p.tag), p.key, p.show, p.first)
      /\ p.key => PictureSays(parse_header(p.tag), p.width, p.hscale, p.height, p.vscale)
  <2>1. CASE p.key
    <3>1. /\ p.width \in Unsigned(14) /\ p.height \in Unsigned(14) /\ p.hscale \in 0..3 /\ p.vscale \in 0..3
          /\ p.tag = write_frame_tag(TRUE, version, p.show, p.first, p.width, p.height, p.hscale, p.vscale)
      BY <1>5, <2>1, SmallBits
    <3>2. TagBytes(p.tag, TRUE, TagWord(TRUE, version, p.show, p.first),
                   p.hscale * 2^14 + p.width, p.vscale * 2^14 + p.height)
      <4>1. TRUE \in BOOLEAN
        OBVIOUS
      <4>2. TagBytes(write_frame_tag(TRUE, version, p.show, p.first, p.width, p.height, p.hscale, p.vscale), TRUE,
                     TagWord(TRUE, version, p.show, p.first), p.hscale * 2^14 + p.width, p.vscale * 2^14 + p.height)
        BY <1>4, <1>6, <3>1, <4>1, ForeignTag, Zenon
      <4>3. p.tag = write_frame_tag(TRUE, version, p.show, p.first, p.width, p.height, p.hscale, p.vscale)
        BY <3>1
      <4> QED BY <4>2, <4>3, Zenon
    <3>3. p.key = TRUE
      BY <1>4, <2>1
    <3>4. TagSays(parse_header(p.tag), p.key, p.show, p.first)
      BY <1>4, <1>6, <3>2, <3>3, TagReads, Zenon
    <3>5. p.width \in Nat /\ p.width < 2^14 /\ p.height \in Nat /\ p.height < 2^14
      BY <3>1, SmallBits
    <3>6. PictureSays(parse_header(p.tag), p.width, p.hscale, p.height, p.vscale)
      BY <1>4, <1>6, <3>1, <3>2, <3>5, PictureReads, Zenon
    <3> QED BY <3>4, <3>6
  <2>2. CASE ~p.key
    <3> DEFINE z == 0
    <3>1. p.tag = write_frame_tag(FALSE, version, p.show, p.first, z, z, z, z) /\ p.key = FALSE
      BY <1>4, <1>5, <2>2
    <3>2. z \in Unsigned(14) /\ z \in 0..3 /\ FALSE \in BOOLEAN
      <4>1. 2^14 = 16384
        BY SMT
      <4> QED BY <4>1, SMT DEF Unsigned
    <3> HIDE DEF z
    <3>3. TagBytes(write_frame_tag(FALSE, version, p.show, p.first, z, z, z, z), FALSE,
                   TagWord(FALSE, version, p.show, p.first), z * 2^14 + z, z * 2^14 + z)
      BY <1>4, <1>6, <3>2, ForeignTag, Zenon
    <3>4. TagBytes(p.tag, p.key, TagWord(p.key, version, p.show, p.first), z * 2^14 + z, z * 2^14 + z)
      BY <3>1, <3>3, Zenon
    <3>5. TagSays(parse_header(p.tag), p.key, p.show, p.first)
      BY <1>4, <1>6, <3>4, TagReads, Zenon
    <3> QED BY <2>2, <3>5
  <2> QED BY <2>1, <2>2
<1>8. TagLaid(g)
  BY <1>2, <1>7, Zenon DEF TagLaid
<1>9. g.sizes \in [0..g.count - 1 -> Nat]
  BY <1>2
<1> QED BY <1>2, <1>3, <1>4, <1>8, <1>9 DEF LaidFrame

-----------------------------------------------------------------------------
(* The fields h has that are those of m, among the names.                     *)
KnownIn(h, m, names) == names \subseteq DOMAIN h /\ \A name \in names : h[name] = m[name]
TagKnown(h, g) ==
  /\ {"tag", "lost"} \subseteq DOMAIN h /\ h["tag"] = parse_header(g.tag)
  /\ h["lost"] \in Nat /\ h["lost"] <= Sums(g.sizes, g.count)[g.count] + 3 * (g.count - 1)

LEMMA WithKnows ==
  ASSUME NEW h, NEW m, NEW names, KnownIn(h, m, names), NEW fields, \A name \in DOMAIN fields : fields[name] = m[name]
  PROVE  KnownIn(With(fields, h), m, names \cup DOMAIN fields)
BY DEF KnownIn, With

LEMMA WithKeepsTag ==
  ASSUME NEW h, NEW g, TagKnown(h, g), NEW fields, "tag" \notin DOMAIN fields, "lost" \notin DOMAIN fields
  PROVE  TagKnown(With(fields, h), g)
<1>1. {"tag", "lost"} \subseteq DOMAIN With(fields, h)
  BY DEF TagKnown, With
<1>2. With(fields, h)["tag"] = h["tag"] /\ With(fields, h)["lost"] = h["lost"]
  BY DEF TagKnown, With
<1> QED BY <1>1, <1>2 DEF TagKnown

LEMMA PrimedMeaning ==
  ASSUME UNCHANGED <<frame, hdr>>, NEW names
  PROVE  /\ Meant(frame)' = Meant(frame) /\ LaidFrame(frame)' = LaidFrame(frame)
         /\ KnownIn(hdr, Meant(frame), names)' = KnownIn(hdr, Meant(frame), names)
OBVIOUS

(* The names of the fields, in the order the reader comes to them.           *)
UpToSegmentation == {"space", "segmentation"}
UpToFilter == UpToSegmentation \cup {"filter", "deltas"}
UpToQuant == UpToFilter \cup {"count", "quant"}
UpToRefresh == UpToQuant \cup {"entropy", "refresh"}
UpToTokens == UpToRefresh \cup {"tokens", "skip"}
Whole == UpToTokens \cup {"modes"}
Reading == {"segmentation", "filter", "quant", "refresh", "tokens", "modes", "carve", "rows"}

LEMMA WholeHeader ==
  ASSUME NEW f \in Fields
  PROVE  DOMAIN f = Whole
BY DEF Fields, UpToSegmentation, UpToFilter, UpToQuant, UpToRefresh, UpToTokens, Whole

(* The place and the fields read, at every stage of the reader.               *)
ReaderKnows ==
  LET f == Meant(frame)
  IN /\ stage \in Reading => TagKnown(hdr, frame)
     /\ stage = "segmentation" => at = 1
     /\ stage = "filter" => at = FilterAt(f) /\ KnownIn(hdr, f, UpToSegmentation)
     /\ stage = "quant" => at = CountAt(f) /\ KnownIn(hdr, f, UpToFilter)
     /\ stage = "refresh" => at = RefreshAt(f) /\ KnownIn(hdr, f, UpToQuant)
     /\ stage = "tokens" => at = TokensAt(f) /\ KnownIn(hdr, f, UpToRefresh)
     /\ stage = "modes" => at = ModesAt(f) /\ KnownIn(hdr, f, UpToTokens)
     /\ stage \in {"carve", "rows"} => at = Len(frame.bits) + 1 /\ KnownIn(hdr, f, Whole)

FrameIsLaid == stage \notin {"idle", "refused"} => LaidFrame(frame)

(* The carving's own state, once it has begun.                                *)
CarvingKnows ==
  /\ stage \notin {"carve", "rows"} => pc = "idle"
  /\ pc = "idle" => i = 0 /\ out = [k \in {} |-> 0] /\ error = NoError
  /\ pc # "idle" =>
       /\ Inv /\ num = frame.count
       /\ Ours => /\ section = (3 * (frame.count - 1) - hdr.lost) + Sums(frame.sizes, frame.count)[frame.count]
                  /\ declared = SizeTable(frame.sizes, frame.count)

(* The rows read so far, and where each partition's decoder stands.           *)
Share(r, count) == (r - 1) % count
RowsStand(stops, read, done, rows, count, slices) ==
  /\ stops = [k \in {Share(r, count) : r \in DOMAIN rows} |-> slices[k].start + BytesBefore(rows, k, count)[done]]
  /\ read = [r \in 1..done |->
               slices[Share(r, count)].start + BytesBefore(rows, Share(r, count), count)[r - 1]]
RowsKnown ==
  /\ stage = "rows" => /\ pc = "done" /\ Ours /\ row \in 0..Len(frame.p.rows)
                       /\ RowsStand(left, rows_read, row, frame.p.rows, num, out)
  /\ stage # "rows" => rows_read = <<>> /\ row = 0

FrameInv == FrameIsLaid /\ ReaderKnows /\ CarvingKnows /\ RowsKnown

-----------------------------------------------------------------------------
(* What a frame laid out is, read from its parts.                             *)
LEMMA LaidParts ==
  ASSUME NEW g, LaidFrame(g)
  PROVE  /\ Meant(g) \in Fields /\ LeftOut(Meant(g)) /\ LaidOut(Meant(g), g.bits)
         /\ g.key \in BOOLEAN /\ (g.key <=> Meant(g).refresh = None)
         /\ g.count = Meant(g).count /\ g.count \in {1, 2, 4, 8}
         /\ parse_header(g.tag).key = g.key
<1>1. IsHeader(Meant(g), g.bits) /\ TagLaid(g) /\ g.key \in BOOLEAN /\ (g.key <=> Meant(g).refresh = None)
      /\ g.count = Meant(g).count
  BY Zenon DEF LaidFrame
<1>2. Meant(g) \in Fields /\ LeftOut(Meant(g)) /\ g.bits = Layout(Meant(g))
  BY <1>1 DEF IsHeader
<1>3. LaidOut(Meant(g), g.bits)
  BY <1>2, LayoutStands
<1>4. parse_header(g.tag).key = g.key
  BY <1>1, Zenon DEF TagLaid, TagSays
<1> QED BY <1>1, <1>2, <1>3, <1>4, FieldTypes

(* A step that writes a frame, or refuses to, keeps the invariant.            *)
LEMMA EmitKeeps ==
  ASSUME FrameInv, stage = "idle", NEW g, LaidFrame(g), Emit(g)
  PROVE  FrameInv'
<1>1. /\ frame' = g /\ stage' = "tag" /\ at' = at /\ hdr' = hdr /\ row' = row /\ left' = left
      /\ rows_read' = rows_read /\ UNCHANGED vars
  BY DEF Emit
<1>2. FrameIsLaid'
  BY <1>1 DEF FrameIsLaid
<1>3. ReaderKnows'
  BY <1>1 DEF ReaderKnows, Reading
<1>4. CarvingKnows' /\ RowsKnown'
  BY <1>1 DEF FrameInv, CarvingKnows, RowsKnown, vars
<1> QED BY <1>2, <1>3, <1>4 DEF FrameInv

LEMMA RefuseKeeps ==
  ASSUME FrameInv, stage = "idle", NEW entry, Refuse(entry)
  PROVE  FrameInv'
<1>1. /\ stage' = "refused" /\ at' = at /\ hdr' = hdr /\ row' = row /\ left' = left
      /\ rows_read' = rows_read /\ UNCHANGED vars
  BY DEF Refuse
<1>2. FrameIsLaid'
  BY <1>1 DEF FrameIsLaid
<1>3. ReaderKnows'
  BY <1>1 DEF ReaderKnows, Reading
<1>4. CarvingKnows' /\ RowsKnown'
  BY <1>1 DEF FrameInv, CarvingKnows, RowsKnown, vars
<1> QED BY <1>2, <1>3, <1>4 DEF FrameInv

LEMMA WritersKeep ==
  ASSUME FrameInv, WriteSilent \/ WriteKeyframe \/ WriteAdaptive \/ WriteInter \/ WriteForeign
  PROVE  FrameInv'
<1>1. CASE WriteSilent
  <2>1. stage = "idle" /\ \E p \in Silent : Write("silent", p, TRUE, TRUE, p.count, encode_silent_keyframe(p))
    BY <1>1 DEF WriteSilent
  <2>2. PICK p \in Silent : Write("silent", p, TRUE, TRUE, p.count, encode_silent_keyframe(p))
    BY <2>1
  <2>3. CASE Refused(p, TRUE, p.count) /\ Refuse("silent")
    BY <2>1, <2>3, RefuseKeeps
  <2>4. CASE /\ ~Refused(p, TRUE, p.count)
             /\ Emit(Coded("silent", p, TRUE, TRUE, encode_silent_keyframe(p), p.count))
    BY <2>1, <2>4, SilentIsLaid, EmitKeeps
  <2> QED BY <2>2, <2>3, <2>4, Zenon DEF Write
<1>2. CASE WriteKeyframe
  <2>1. stage = "idle" /\ \E p \in Keys : Write("key", p, TRUE, TRUE, p.count, KeyframeHeader(p))
    BY <1>2 DEF WriteKeyframe
  <2>2. PICK p \in Keys : Write("key", p, TRUE, TRUE, p.count, KeyframeHeader(p))
    BY <2>1
  <2>3. CASE Refused(p, TRUE, p.count) /\ Refuse("key")
    BY <2>1, <2>3, RefuseKeeps
  <2>4. CASE ~Refused(p, TRUE, p.count) /\ Emit(Coded("key", p, TRUE, TRUE, KeyframeHeader(p), p.count))
    BY <2>1, <2>4, KeyIsLaid, EmitKeeps
  <2> QED BY <2>2, <2>3, <2>4, Zenon DEF Write
<1>3. CASE WriteAdaptive
  <2>1. stage = "idle" /\ \E p \in Adaptive : Write("adaptive", p, TRUE, TRUE, 1, AdaptiveHeader(p))
    BY <1>3 DEF WriteAdaptive
  <2>2. PICK p \in Adaptive : Write("adaptive", p, TRUE, TRUE, 1, AdaptiveHeader(p))
    BY <2>1
  <2>3. CASE Refused(p, TRUE, 1) /\ Refuse("adaptive")
    BY <2>1, <2>3, RefuseKeeps
  <2>4. CASE ~Refused(p, TRUE, 1) /\ Emit(Coded("adaptive", p, TRUE, TRUE, AdaptiveHeader(p), 1))
    BY <2>1, <2>4, AdaptiveIsLaid, EmitKeeps
  <2> QED BY <2>2, <2>3, <2>4, Zenon DEF Write
<1>4. CASE WriteInter
  <2>1. stage = "idle" /\ \E p \in Inters : Write("inter", p, FALSE, p.show, p.count, InterHeader(p))
    BY <1>4 DEF WriteInter
  <2>2. PICK p \in Inters : Write("inter", p, FALSE, p.show, p.count, InterHeader(p))
    BY <2>1
  <2>3. CASE Refused(p, FALSE, p.count) /\ Refuse("inter")
    BY <2>1, <2>3, RefuseKeeps
  <2>4. CASE ~Refused(p, FALSE, p.count) /\ Emit(Coded("inter", p, FALSE, p.show, InterHeader(p), p.count))
    BY <2>1, <2>4, InterIsLaid, EmitKeeps
  <2> QED BY <2>2, <2>3, <2>4, Zenon DEF Write
<1>5. CASE WriteForeign
  <2>1. PICK p \in Foreign :
          Emit([entry |-> "foreign", p |-> p, key |-> p.key, show |-> p.show, bits |-> p.bits,
                tag |-> p.tag, count |-> p.count, sizes |-> [k \in 0..p.count - 1 |-> 0]])
    BY <1>5 DEF WriteForeign
  <2> DEFINE g == [entry |-> "foreign", p |-> p, key |-> p.key, show |-> p.show, bits |-> p.bits,
                   tag |-> p.tag, count |-> p.count, sizes |-> [k \in 0..p.count - 1 |-> 0]]
  <2>2. LaidFrame(g)
    BY ForeignIsLaid
  <2>3. stage = "idle" /\ Emit(g)
    BY <1>5, <2>1 DEF WriteForeign
  <2> HIDE DEF g
  <2> QED BY <2>2, <2>3, EmitKeeps
<1> QED BY <1>1, <1>2, <1>3, <1>4, <1>5

-----------------------------------------------------------------------------
(* The steps of the reader.                                                   *)
LEMMA TotalIsNat ==
  ASSUME NEW g, LaidFrame(g)
  PROVE  /\ SumsOf(g.sizes, g.count, Sums(g.sizes, g.count))
         /\ Sums(g.sizes, g.count)[g.count] \in Nat
<1>1. g.count \in {1, 2, 4, 8} /\ g.sizes \in [0..g.count - 1 -> Nat]
  BY LaidParts, Zenon DEF LaidFrame
<1>2. g.count \in Nat /\ \A k \in 0..g.count - 1 : g.sizes[k] \in Nat
  BY <1>1
<1>3. SumsOf(g.sizes, g.count, Sums(g.sizes, g.count))
  BY <1>2, SumsDefined
<1> QED BY <1>2, <1>3 DEF SumsOf

LEMMA TagKeeps ==
  ASSUME FrameInv, ReadTag
  PROVE  FrameInv'
<1> DEFINE tag == parse_header(frame.tag)
           total == Sums(frame.sizes, frame.count)[frame.count] + 3 * (frame.count - 1)
<1>1. PICK oneshot \in BOOLEAN, lost \in Cuts :
        /\ hdr' = [tag |-> tag, oneshot |-> oneshot, lost |-> lost] /\ at' = 1
        /\ stage' \in {"Unsupported", "ZeroDimension", "FrameTooLarge", "TruncatedFirstPartition", "segmentation"}
        /\ stage' = "segmentation" => ~(lost > total)
  BY DEF ReadTag
<1>2. stage = "tag" /\ UNCHANGED <<frame, row, left, rows_read>> /\ UNCHANGED vars
  BY DEF ReadTag
<1>3. LaidFrame(frame) /\ LaidFrame(frame)'
  BY <1>2 DEF FrameInv, FrameIsLaid
<1>4. lost \in Nat /\ total \in Nat
  <2>1. frame.count \in {1, 2, 4, 8} /\ Sums(frame.sizes, frame.count)[frame.count] \in Nat
    BY <1>3, LaidParts, TotalIsNat
  <2> QED BY <2>1, LayoutAssumption
<1>5. stage' = "segmentation" => TagKnown(hdr, frame)'
  <2> SUFFICES ASSUME stage' = "segmentation" PROVE TagKnown(hdr, frame)'
    OBVIOUS
  <2>1. lost <= total
    BY <1>1, <1>4
  <2>2. hdr'["tag"] = tag /\ hdr'["lost"] = lost /\ {"tag", "lost"} \subseteq DOMAIN hdr'
    BY <1>1
  <2>3. frame' = frame
    BY <1>2
  <2> QED BY <1>4, <2>1, <2>2, <2>3 DEF TagKnown
<1>6. FrameIsLaid'
  BY <1>3 DEF FrameIsLaid
<1>7. ReaderKnows'
  BY <1>1, <1>5 DEF ReaderKnows, Reading
<1>8. CarvingKnows' /\ RowsKnown'
  BY <1>1, <1>2 DEF FrameInv, CarvingKnows, RowsKnown, vars
<1> QED BY <1>6, <1>7, <1>8 DEF FrameInv

(* What every step that reads fields does, beside the fields it finds.        *)
LEMMA ReadKeeps ==
  ASSUME FrameInv, NEW from, stage = from, from \in Reading \ {"carve", "rows"},
         NEW to, NEW fields, NEW next, Read(to, fields, next), to \in Reading \ {"segmentation", "rows"},
         "tag" \notin DOMAIN fields, "lost" \notin DOMAIN fields
  PROVE  /\ FrameIsLaid' /\ CarvingKnows' /\ RowsKnown' /\ TagKnown(hdr, frame)'
         /\ hdr' = With(fields, hdr) /\ stage' = to /\ at' = next /\ frame' = frame
<1>1. /\ stage' = to /\ hdr' = With(fields, hdr) /\ at' = next
      /\ UNCHANGED <<frame, row, left, rows_read>> /\ UNCHANGED vars
  BY DEF Read
<1>2. LaidFrame(frame)'
  BY <1>1 DEF FrameInv, FrameIsLaid, Reading
<1>3. TagKnown(hdr, frame)
  BY DEF FrameInv, ReaderKnows
<1>4. TagKnown(hdr', frame)
  BY <1>1, <1>3, WithKeepsTag
<1>5. TagKnown(hdr, frame)'
  BY <1>1, <1>4
<1>6. pc = "idle" /\ rows_read = <<>> /\ row = 0
  BY DEF FrameInv, CarvingKnows, RowsKnown, Reading
<1>7. CarvingKnows'
  BY <1>1, <1>6 DEF FrameInv, CarvingKnows, vars
<1>8. RowsKnown'
  BY <1>1, <1>6 DEF RowsKnown
<1> QED BY <1>1, <1>2, <1>5, <1>7, <1>8 DEF FrameIsLaid

LEMMA SegmentationKeeps ==
  ASSUME FrameInv, ReadSegmentation
  PROVE  FrameInv'
<1> DEFINE f == Meant(frame)
           wire == frame.bits
           key == frame.key
           fields == [space |-> SpaceRead(wire, 1, key), segmentation |-> SegmentationRead(wire, FlagAt(f))]
<1>1. stage = "segmentation" /\ at = 1 /\ LaidFrame(frame) /\ TagKnown(hdr, frame)
  BY DEF ReadSegmentation, FrameInv, ReaderKnows, FrameIsLaid, Reading
<1>2. /\ f \in Fields /\ LeftOut(f) /\ LaidOut(f, wire) /\ key \in BOOLEAN /\ (key <=> f.refresh = None)
  BY <1>1, LaidParts, Zenon
<1>3. Key = key
  BY <1>1, LaidParts DEF TagKnown, Key
<1>4. /\ SpaceRead(wire, 1, key) = f.space /\ FirstFlag(1, key) = FlagAt(f)
      /\ SegmentationRead(wire, FlagAt(f)) = f.segmentation
      /\ SegmentationEnd(wire, FlagAt(f)) = FilterAt(f)
  BY <1>2, SegmentationGroup, Zenon
<1>5. Read("filter", fields, SegmentationEnd(wire, FlagAt(f)))
  <2>1. Read("filter", [space |-> SpaceRead(wire, 1, key), segmentation |-> SegmentationRead(wire, FirstFlag(1, key))],
             SegmentationEnd(wire, FirstFlag(1, key)))
    BY <1>1, <1>3 DEF ReadSegmentation, SpaceRead, FirstFlag, SegmentationRead, SegmentationEnd
  <2> QED BY <1>4, <2>1
<1>6. DOMAIN fields = UpToSegmentation /\ \A name \in DOMAIN fields : fields[name] = f[name]
  BY <1>4 DEF UpToSegmentation
<1> HIDE DEF fields
<1>7. /\ FrameIsLaid' /\ CarvingKnows' /\ RowsKnown' /\ TagKnown(hdr, frame)'
      /\ hdr' = With(fields, hdr) /\ stage' = "filter" /\ at' = SegmentationEnd(wire, FlagAt(f)) /\ frame' = frame
  BY <1>1, <1>5, <1>6, ReadKeeps DEF Reading, UpToSegmentation
<1>8. KnownIn(hdr', f, UpToSegmentation)
  <2>1. KnownIn(hdr, f, {})
    BY DEF KnownIn
  <2> QED BY <1>6, <1>7, <2>1, WithKnows
<1>9. ReaderKnows'
  BY <1>4, <1>7, <1>8 DEF ReaderKnows
<1> QED BY <1>7, <1>9 DEF FrameInv

LEMMA FilterKeeps ==
  ASSUME FrameInv, ReadLoopFilter
  PROVE  FrameInv'
<1> DEFINE f == Meant(frame)
           wire == frame.bits
           fields == [filter |-> FilterRead(wire, FilterAt(f)), deltas |-> DeltasReadAt(wire, FilterAt(f)).v]
<1>1. stage = "filter" /\ at = FilterAt(f) /\ LaidFrame(frame) /\ KnownIn(hdr, f, UpToSegmentation)
  BY DEF ReadLoopFilter, FrameInv, ReaderKnows, FrameIsLaid, Reading
<1>2. f \in Fields /\ LeftOut(f) /\ LaidOut(f, wire)
  BY <1>1, LaidParts, Zenon
<1>3. /\ FilterRead(wire, FilterAt(f)) = f.filter /\ DeltasReadAt(wire, FilterAt(f)).v = f.deltas
      /\ DeltasReadAt(wire, FilterAt(f)).at = CountAt(f)
  BY <1>2, FilterGroup, Zenon
<1>4. Read("quant", fields, CountAt(f))
  <2>1. Read("quant", [filter |-> FilterRead(wire, at), deltas |-> DeltasReadAt(wire, at).v], DeltasReadAt(wire, at).at)
    BY DEF ReadLoopFilter, FilterRead, DeltasReadAt
  <2> QED BY <1>1, <1>3, <2>1
<1>5. /\ DOMAIN fields = {"filter", "deltas"} /\ \A name \in DOMAIN fields : fields[name] = f[name]
      /\ UpToFilter = UpToSegmentation \cup DOMAIN fields
  BY <1>3 DEF UpToFilter
<1> HIDE DEF fields
<1>6. /\ FrameIsLaid' /\ CarvingKnows' /\ RowsKnown' /\ TagKnown(hdr, frame)'
      /\ hdr' = With(fields, hdr) /\ stage' = "quant" /\ at' = CountAt(f) /\ frame' = frame
  BY <1>1, <1>4, <1>5, ReadKeeps DEF Reading
<1>7. KnownIn(hdr', f, UpToFilter)
  BY <1>1, <1>5, <1>6, WithKnows
<1>8. ReaderKnows'
  BY <1>6, <1>7 DEF ReaderKnows
<1> QED BY <1>6, <1>8 DEF FrameInv

LEMMA QuantKeeps ==
  ASSUME FrameInv, ReadQuant
  PROVE  FrameInv'
<1> DEFINE f == Meant(frame)
           wire == frame.bits
           fields == [count |-> CountRead(wire, CountAt(f)), quant |-> QuantRead(wire, CountAt(f)).v]
<1>1. stage = "quant" /\ at = CountAt(f) /\ LaidFrame(frame) /\ KnownIn(hdr, f, UpToFilter)
  BY DEF ReadQuant, FrameInv, ReaderKnows, FrameIsLaid, Reading
<1>2. f \in Fields /\ LeftOut(f) /\ LaidOut(f, wire)
  BY <1>1, LaidParts, Zenon
<1>3. /\ CountRead(wire, CountAt(f)) = f.count /\ QuantRead(wire, CountAt(f)).v = f.quant
      /\ QuantRead(wire, CountAt(f)).at = RefreshAt(f)
  BY <1>2, QuantGroup, Zenon
<1>4. Read("refresh", fields, RefreshAt(f))
  <2>1. Read("refresh", [count |-> CountRead(wire, at), quant |-> QuantRead(wire, at).v], QuantRead(wire, at).at)
    BY DEF ReadQuant, CountRead, QuantRead
  <2> QED BY <1>1, <1>3, <2>1
<1>5. /\ DOMAIN fields = {"count", "quant"} /\ \A name \in DOMAIN fields : fields[name] = f[name]
      /\ UpToQuant = UpToFilter \cup DOMAIN fields
  BY <1>3 DEF UpToQuant
<1> HIDE DEF fields
<1>6. /\ FrameIsLaid' /\ CarvingKnows' /\ RowsKnown' /\ TagKnown(hdr, frame)'
      /\ hdr' = With(fields, hdr) /\ stage' = "refresh" /\ at' = RefreshAt(f) /\ frame' = frame
  BY <1>1, <1>4, <1>5, ReadKeeps DEF Reading
<1>7. KnownIn(hdr', f, UpToQuant)
  BY <1>1, <1>5, <1>6, WithKnows
<1>8. ReaderKnows'
  BY <1>6, <1>7 DEF ReaderKnows
<1> QED BY <1>6, <1>8 DEF FrameInv

LEMMA RefreshKeeps ==
  ASSUME FrameInv, ReadRefresh
  PROVE  FrameInv'
<1> DEFINE f == Meant(frame)
           wire == frame.bits
           key == frame.key
           fields == [entropy |-> EntropyRead(wire, RefreshAt(f), key), refresh |-> ControlsRead(wire, RefreshAt(f), key)]
<1>1. /\ stage = "refresh" /\ at = RefreshAt(f) /\ LaidFrame(frame) /\ KnownIn(hdr, f, UpToQuant) /\ TagKnown(hdr, frame)
  BY DEF ReadRefresh, FrameInv, ReaderKnows, FrameIsLaid, Reading
<1>2. /\ f \in Fields /\ LeftOut(f) /\ LaidOut(f, wire) /\ key \in BOOLEAN /\ (key <=> f.refresh = None)
  BY <1>1, LaidParts, Zenon
<1>3. Key = key
  BY <1>1, LaidParts DEF TagKnown, Key
<1>4. /\ EntropyRead(wire, RefreshAt(f), key) = f.entropy /\ ControlsRead(wire, RefreshAt(f), key) = f.refresh
      /\ ControlsEnd(wire, RefreshAt(f), key) = TokensAt(f)
  BY <1>2, RefreshGroup, Zenon
<1>5. Read("tokens", fields, TokensAt(f))
  <2>1. Read("tokens", [entropy |-> EntropyRead(wire, at, key), refresh |-> ControlsRead(wire, at, key)],
             ControlsEnd(wire, at, key))
    <3>1. CASE key
      BY <1>3, <3>1 DEF ReadRefresh, EntropyRead, ControlsRead, ControlsEnd
    <3>2. CASE ~key
      BY <1>3, <3>2
         DEF ReadRefresh, EntropyRead, ControlsRead, ControlsEnd, RefreshRead, BiasPlace, AltrefPlace, Selector
    <3> QED BY <3>1, <3>2
  <2> QED BY <1>1, <1>4, <2>1
<1>6. /\ DOMAIN fields = {"entropy", "refresh"} /\ \A name \in DOMAIN fields : fields[name] = f[name]
      /\ UpToRefresh = UpToQuant \cup DOMAIN fields
  BY <1>4 DEF UpToRefresh
<1> HIDE DEF fields
<1>7. /\ FrameIsLaid' /\ CarvingKnows' /\ RowsKnown' /\ TagKnown(hdr, frame)'
      /\ hdr' = With(fields, hdr) /\ stage' = "tokens" /\ at' = TokensAt(f) /\ frame' = frame
  BY <1>1, <1>5, <1>6, ReadKeeps DEF Reading
<1>8. KnownIn(hdr', f, UpToRefresh)
  BY <1>1, <1>6, <1>7, WithKnows
<1>9. ReaderKnows'
  BY <1>7, <1>8 DEF ReaderKnows
<1> QED BY <1>7, <1>9 DEF FrameInv

LEMMA TokensKeeps ==
  ASSUME FrameInv, ReadTokenProbs
  PROVE  FrameInv'
<1> DEFINE f == Meant(frame)
           wire == frame.bits
           fields == [tokens |-> TokensRead(wire, TokensAt(f)).v, skip |-> SkipRead(wire, SkipAt(f))]
<1>1. stage = "tokens" /\ at = TokensAt(f) /\ LaidFrame(frame) /\ KnownIn(hdr, f, UpToRefresh)
  BY DEF ReadTokenProbs, FrameInv, ReaderKnows, FrameIsLaid, Reading
<1>2. f \in Fields /\ LeftOut(f) /\ LaidOut(f, wire)
  BY <1>1, LaidParts, Zenon
<1>3. /\ TokensRead(wire, TokensAt(f)).v = f.tokens /\ TokensRead(wire, TokensAt(f)).at = SkipAt(f)
      /\ SkipRead(wire, SkipAt(f)) = f.skip /\ SkipEnd(wire, SkipAt(f)) = ModesAt(f)
  BY <1>2, TokensGroup, Zenon
<1>4. Read("modes", fields, ModesAt(f))
  <2>1. Read("modes", [tokens |-> TokensRead(wire, at).v, skip |-> SkipRead(wire, TokensRead(wire, at).at)],
             SkipEnd(wire, TokensRead(wire, at).at))
    BY DEF ReadTokenProbs, TokensRead, SkipRead, SkipEnd
  <2> QED BY <1>1, <1>3, <2>1
<1>5. /\ DOMAIN fields = {"tokens", "skip"} /\ \A name \in DOMAIN fields : fields[name] = f[name]
      /\ UpToTokens = UpToRefresh \cup DOMAIN fields
  BY <1>3 DEF UpToTokens
<1> HIDE DEF fields
<1>6. /\ FrameIsLaid' /\ CarvingKnows' /\ RowsKnown' /\ TagKnown(hdr, frame)'
      /\ hdr' = With(fields, hdr) /\ stage' = "modes" /\ at' = ModesAt(f) /\ frame' = frame
  BY <1>1, <1>4, <1>5, ReadKeeps DEF Reading
<1>7. KnownIn(hdr', f, UpToTokens)
  BY <1>1, <1>5, <1>6, WithKnows
<1>8. ReaderKnows'
  BY <1>6, <1>7 DEF ReaderKnows
<1> QED BY <1>6, <1>8 DEF FrameInv

LEMMA ModesKeeps ==
  ASSUME FrameInv, ReadModeProbs
  PROVE  FrameInv'
<1> DEFINE f == Meant(frame)
           wire == frame.bits
           key == frame.key
           fields == [modes |-> ModeProbsRead(wire, ModesAt(f), key)]
<1>1. /\ stage = "modes" /\ at = ModesAt(f) /\ LaidFrame(frame) /\ KnownIn(hdr, f, UpToTokens) /\ TagKnown(hdr, frame)
  BY DEF ReadModeProbs, FrameInv, ReaderKnows, FrameIsLaid, Reading
<1>2. /\ f \in Fields /\ LeftOut(f) /\ LaidOut(f, wire) /\ key \in BOOLEAN /\ (key <=> f.refresh = None)
      /\ ModesAt(f) \in Place
  BY <1>1, LaidParts, Zenon DEF LaidOut
<1>3. Key = key
  BY <1>1, LaidParts DEF TagKnown, Key
<1>4. ModeProbsRead(wire, ModesAt(f), key) = f.modes /\ ModeProbsEnd(wire, ModesAt(f), key) = Len(wire) + 1
  BY <1>2, ModesGroup, Zenon
<1>5. Read("carve", fields, Len(wire) + 1)
  <2>1. Read("carve", [modes |-> ModeProbsRead(wire, at, key)], ModeProbsEnd(wire, at, key))
    <3>1. CASE key
      BY <1>3, <3>1 DEF ReadModeProbs, ModeProbsRead, ModeProbsEnd
    <3>2. CASE ~key
      <4>1. at + 8 * 0 = at /\ at + 8 * 1 = at + 8 /\ at + 8 * 2 = at + 16
        BY <1>1, <1>2 DEF Place
      <4> QED BY <1>3, <3>2, <4>1 DEF ReadModeProbs, ModeProbsRead, ModeProbsEnd, ModesRead
    <3> QED BY <3>1, <3>2
  <2> QED BY <1>1, <1>4, <2>1
<1>6. /\ DOMAIN fields = {"modes"} /\ \A name \in DOMAIN fields : fields[name] = f[name]
      /\ Whole = UpToTokens \cup DOMAIN fields
  BY <1>4 DEF Whole
<1> HIDE DEF fields
<1>7. /\ FrameIsLaid' /\ CarvingKnows' /\ RowsKnown' /\ TagKnown(hdr, frame)'
      /\ hdr' = With(fields, hdr) /\ stage' = "carve" /\ at' = Len(wire) + 1 /\ frame' = frame
  BY <1>1, <1>5, <1>6, ReadKeeps DEF Reading
<1>8. KnownIn(hdr', f, Whole)
  BY <1>1, <1>6, <1>7, WithKnows
<1>9. ReaderKnows'
  BY <1>7, <1>8 DEF ReaderKnows
<1> QED BY <1>7, <1>9 DEF FrameInv

-----------------------------------------------------------------------------
(* The steps of the carving and of the rows.                                  *)
LEMMA TableIsNat ==
  ASSUME NEW g, LaidFrame(g)
  PROVE  SizeTable(g.sizes, g.count) \in [0..g.count - 2 -> Nat]
<1>1. g.count \in {1, 2, 4, 8} /\ g.sizes \in [0..g.count - 1 -> Nat]
  BY LaidParts, Zenon DEF LaidFrame
<1>2. ASSUME NEW w \in Nat PROVE Word(Bytes(w, 3), 0, 3) \in Nat
  <2> DEFINE b == Bytes(w, 3)
  <2>1. b[1] = Byte(w, 0) /\ b[2] = Byte(w, 1) /\ b[3] = Byte(w, 2)
    BY DEF Bytes
  <2> HIDE DEF b
  <2>2. b[1] \in Nat /\ b[2] \in Nat /\ b[3] \in Nat
    BY <2>1, BytesAreNat, Zenon
  <2>3. Word(b, 0, 3) = b[1] + 256 * b[2] + 65536 * b[3]
    BY <2>2, FirstThree, SMT
  <2>4. Word(b, 0, 3) \in Nat
    BY <2>2, <2>3, SMT
  <2> QED BY <2>4 DEF b
<1>3. \A k \in 0..g.count - 2 : g.sizes[k] \in Nat
  BY <1>1
<1> QED BY <1>2, <1>3 DEF SizeTable

LEMMA StartKeeps ==
  ASSUME FrameInv, StartCarving
  PROVE  FrameInv'
<1>1. stage = "carve" /\ pc = "idle" /\ LaidFrame(frame) /\ TagKnown(hdr, frame) /\ KnownIn(hdr, Meant(frame), Whole)
  BY DEF StartCarving, FrameInv, ReaderKnows, FrameIsLaid, Reading
<1>2. UNCHANGED <<frame, stage, at, hdr, row, left, rows_read>> /\ UNCHANGED <<i, out, error>>
  BY DEF StartCarving, frameVars
<1>3. hdr.count = frame.count /\ frame.count \in {1, 2, 4, 8}
  <2>1. hdr.count = Meant(frame).count
    BY <1>1 DEF KnownIn, Whole, UpToTokens, UpToRefresh, UpToQuant
  <2> QED BY <1>1, <2>1, LaidParts
<1>4. /\ frame.entry # "foreign" =>
           /\ section' = (3 * (frame.count - 1) - hdr.lost) + Sums(frame.sizes, frame.count)[frame.count]
           /\ declared' = SizeTable(frame.sizes, frame.count)
      /\ frame.entry = "foreign" => section' \in SectionLens /\ declared' \in [0..frame.count - 2 -> Sizes]
      /\ num' = frame.count /\ sums' = [k \in 0..frame.count - 1 |-> 0] /\ pc' = "start"
  BY <1>3 DEF StartCarving
<1>5. section' \in Nat /\ declared' \in [0..frame.count - 2 -> Nat]
  <2>1. CASE frame.entry = "foreign"
    <3>1. declared' \in [0..frame.count - 2 -> Sizes] /\ Sizes \subseteq Nat
      BY <1>4, <2>1, CarvingAssumption
    <3> QED BY <1>4, <2>1, <3>1, CarvingAssumption
  <2>2. CASE frame.entry # "foreign"
    <3>1. Sums(frame.sizes, frame.count)[frame.count] \in Nat
      BY <1>1, TotalIsNat
    <3>2. hdr.lost \in Nat /\ hdr.lost <= Sums(frame.sizes, frame.count)[frame.count] + 3 * (frame.count - 1)
      BY <1>1 DEF TagKnown
    <3>3. section' \in Nat
      BY <1>3, <1>4, <2>2, <3>1, <3>2
    <3> QED BY <1>1, <1>4, <2>2, <3>3, TableIsNat
  <2> QED BY <2>1, <2>2
<1>6. i = 0 /\ out = [k \in {} |-> 0] /\ error = NoError
  BY <1>1 DEF FrameInv, CarvingKnows
<1>7. Started'
  <2>1. /\ num' \in Nat \ {0} /\ section' \in Nat /\ declared' \in [0..num' - 2 -> Nat]
        /\ pc' = "start" /\ i' = 0 /\ sums' = [k \in 0..num' - 1 |-> 0]
        /\ out' = [k \in {} |-> 0] /\ error' = NoError
    BY <1>2, <1>3, <1>4, <1>5, <1>6
  <2> QED BY <2>1 DEF Started, NoError
<1>8. Inv'
  BY <1>7, StartedNext
<1>9. CarvingKnows'
  BY <1>1, <1>2, <1>4, <1>8 DEF CarvingKnows, Ours
<1>10. FrameIsLaid' /\ ReaderKnows'
  BY <1>2 DEF FrameInv, FrameIsLaid, ReaderKnows
<1>11. RowsKnown'
  BY <1>1, <1>2 DEF FrameInv, RowsKnown
<1> QED BY <1>9, <1>10, <1>11 DEF FrameInv

LEMMA CarveKeeps ==
  ASSUME FrameInv, Carve
  PROVE  FrameInv'
<1>1. stage = "carve" /\ Next /\ UNCHANGED <<frame, stage, at, hdr, row, left, rows_read>>
  BY DEF Carve, frameVars
<1>2. pc # "idle" /\ UNCHANGED <<num, section, declared>>
  BY <1>1 DEF Next, NoRoomForTable, SplitOffTable, ReadSize, CompareWithBody, NameOffender, NotThisOne, CutSlice, Return
<1>3. Inv /\ num = frame.count
  BY <1>2 DEF FrameInv, CarvingKnows
<1>4. Inv'
  BY <1>1, <1>3, NextPreserves
<1>5. pc' # "idle"
  BY <1>4 DEF Inv, TypeOK
<1>6. CarvingKnows'
  BY <1>1, <1>2, <1>4, <1>5 DEF FrameInv, CarvingKnows, Ours
<1>7. FrameIsLaid' /\ ReaderKnows'
  BY <1>1 DEF FrameInv, FrameIsLaid, ReaderKnows
<1>8. RowsKnown'
  BY <1>1 DEF FrameInv, RowsKnown
<1> QED BY <1>6, <1>7, <1>8 DEF FrameInv

(* A partition's place, and that a row has one.                               *)
LEMMA SlicePlaces ==
  ASSUME Inv, pc = "done"
  PROVE  /\ num \in Nat \ {0} /\ DOMAIN out = 0..num - 1
         /\ \A k \in 0..num - 1 : out[k] = [start |-> sums[k], end |-> sums[k] + SizeOf(k)] /\ sums[k] \in Nat
<1>1. num \in Nat \ {0} /\ sums \in [0..num - 1 -> Nat]
  BY DEF Inv, TypeOK
<1>2. DOMAIN out = 0..num - 1
  BY DEF Inv, SlicesRight
<1> QED BY <1>1, <1>2 DEF Inv, SlicesRight

LEMMA ShareOfRow ==
  ASSUME NEW count \in Nat \ {0}, NEW r \in Nat \ {0}
  PROVE  Share(r, count) \in 0..count - 1
BY SMT DEF Share

LEMMA OpenKeeps ==
  ASSUME FrameInv, OpenPartitions
  PROVE  FrameInv'
<1>1. /\ stage = "carve" /\ pc = "done" /\ frame.entry # "foreign" /\ stage' = "rows" /\ LaidFrame(frame)
      /\ left' = [k \in {Share(r, num) : r \in DOMAIN frame.p.rows} |-> out[k].start]
      /\ UNCHANGED <<frame, at, hdr, row, rows_read>> /\ UNCHANGED vars
  BY DEF OpenPartitions, Share, FrameInv, FrameIsLaid
<1>2. Inv /\ num = frame.count /\ rows_read = <<>> /\ row = 0
  BY <1>1 DEF FrameInv, CarvingKnows, RowsKnown
<1>3. frame.p.rows \in Seq(Nat) /\ frame.count \in {1, 2, 4, 8}
  BY <1>1, LaidParts DEF LaidFrame, OursLaid
<1>4. \A k \in 0..num - 1 : BytesBefore(frame.p.rows, k, num)[0] = 0 /\ out[k].start \in Nat
  <2>1. ASSUME NEW k \in 0..num - 1 PROVE BytesBefore(frame.p.rows, k, num)[0] = 0
    <3>1. frame.p.rows \in Seq(Nat) /\ num \in {1, 2, 4, 8}
      BY <1>2, <1>3
    <3> QED BY <3>1, RowSums, SMTT(30) DEF GrowsByRows
  <2>2. ASSUME NEW k \in 0..num - 1 PROVE out[k].start \in Nat
    <3>1. out[k] = [start |-> sums[k], end |-> sums[k] + SizeOf(k)] /\ sums[k] \in Nat
      BY <1>1, <1>2, SlicePlaces
    <3> QED BY <3>1
  <2> QED BY <2>1, <2>2
<1>5. \A r \in DOMAIN frame.p.rows : Share(r, num) \in 0..num - 1
  <2>1. \A r \in DOMAIN frame.p.rows : r \in Nat \ {0}
    BY <1>3
  <2>2. num \in Nat \ {0}
    BY <1>2, <1>3
  <2> QED BY <2>1, <2>2, ShareOfRow
<1>6. left' = [k \in {Share(r, num) : r \in DOMAIN frame.p.rows} |->
                 out[k].start + BytesBefore(frame.p.rows, k, num)[row]]
  <2>1. \A k \in {Share(r, num) : r \in DOMAIN frame.p.rows} :
          out[k].start + BytesBefore(frame.p.rows, k, num)[row] = out[k].start
    BY <1>2, <1>4, <1>5
  <2> QED BY <1>1, <2>1
<1>7. RowsKnown'
  <2>1. num' = num /\ out' = out /\ pc' = pc
    BY <1>1 DEF vars
  <2>2. row' \in 0..Len(frame'.p.rows)
    BY <1>1, <1>2, <1>3
  <2>3. rows_read' = [r \in 1..row |->
                        out[Share(r, num)].start + BytesBefore(frame.p.rows, Share(r, num), num)[r - 1]]
    <3>1. 1..0 = {}
      OBVIOUS
    <3> QED BY <1>1, <1>2, <3>1
  <2>4. RowsStand(left', rows_read', row, frame.p.rows, num, out)
    BY <1>6, <2>3, Zenon DEF RowsStand
  <2>5. RowsStand(left', rows_read', row', frame'.p.rows, num', out')
    BY <1>1, <2>1, <2>4
  <2>6. pc' = "done" /\ frame'.entry # "foreign" /\ stage' = "rows"
    BY <1>1, <2>1
  <2> QED BY <2>2, <2>5, <2>6 DEF RowsKnown, Ours
<1>8. FrameIsLaid'
  BY <1>1 DEF FrameIsLaid
<1>9. ReaderKnows'
  BY <1>1 DEF FrameInv, ReaderKnows, Reading
<1>10. CarvingKnows'
  BY <1>1 DEF FrameInv, CarvingKnows, Ours, vars, Inv, TypeOK, SumsRight, Summed, TableFits, TableIndex, EarlyError,
     OffenderAhead, FailedRight, SlicesRight, SizeOf, Body, TableLen
<1> QED BY <1>7, <1>8, <1>9, <1>10 DEF FrameInv

LEMMA RowKeeps ==
  ASSUME FrameInv, ReadRow
  PROVE  FrameInv'
<1> DEFINE rows == frame.p.rows
           part == row % num
           Stop(k, r) == out[k].start + BytesBefore(rows, k, num)[r]
           users == {Share(r, num) : r \in DOMAIN rows}
<1>1. /\ stage = "rows" /\ row < Len(rows) /\ LaidFrame(frame)
      /\ rows_read' = Append(rows_read, left[part]) /\ left' = [left EXCEPT ![part] = left[part] + rows[row + 1]]
      /\ row' = row + 1 /\ UNCHANGED <<frame, stage, at, hdr>> /\ UNCHANGED vars
  BY DEF ReadRow, FrameInv, FrameIsLaid
<1>2. /\ pc = "done" /\ Ours /\ row \in 0..Len(rows) /\ left = [k \in users |-> Stop(k, row)]
      /\ rows_read = [r \in 1..row |-> Stop(Share(r, num), r - 1)]
  BY <1>1 DEF FrameInv, RowsKnown, RowsStand
<1>3. Inv /\ num = frame.count
  BY <1>2 DEF FrameInv, CarvingKnows
<1>4. rows \in Seq(Nat) /\ num \in {1, 2, 4, 8}
  BY <1>1, <1>2, <1>3, LaidParts DEF LaidFrame, OursLaid, Ours
<1>5. \A r \in DOMAIN rows : Share(r, num) \in 0..num - 1
  <2>1. \A r \in DOMAIN rows : r \in Nat \ {0}
    BY <1>4
  <2>2. num \in Nat \ {0}
    BY <1>4
  <2> QED BY <2>1, <2>2, ShareOfRow
<1>6. row + 1 \in DOMAIN rows /\ row \in 0..Len(rows) - 1 /\ Len(rows) \in Nat /\ row \in Nat
  BY <1>1, <1>2, <1>4
<1>60. rows[row + 1] \in Nat
  <2> HIDE DEF rows, part, Stop, users
  <2> QED BY <1>4, <1>6
<1>7. part = Share(row + 1, num) /\ part \in users
  <2>1. (row + 1) - 1 = row
    BY <1>6
  <2> QED BY <1>6, <2>1 DEF Share
<1>8. ASSUME NEW k \in users
      PROVE  /\ Stop(k, row) \in Nat
             /\ Stop(k, row + 1) = Stop(k, row) + (IF part = k THEN rows[row + 1] ELSE 0)
  <2>1. k \in 0..num - 1
    BY <1>5
  <2>2. out[k] = [start |-> sums[k], end |-> sums[k] + SizeOf(k)] /\ sums[k] \in Nat
    BY <1>2, <1>3, <2>1, SlicePlaces
  <2>3. /\ BytesBefore(rows, k, num)[row] \in Nat
        /\ BytesBefore(rows, k, num)[row + 1]
             = BytesBefore(rows, k, num)[row] + (IF part = k THEN rows[row + 1] ELSE 0)
    <3> HIDE DEF rows, part, Stop, users
    <3>1. /\ BytesBefore(rows, k, num) \in [0..Len(rows) -> Nat]
          /\ BytesBefore(rows, k, num)[row + 1]
               = BytesBefore(rows, k, num)[row] + (IF row % num = k THEN rows[row + 1] ELSE 0)
      <4>1. GrowsByRows(BytesBefore(rows, k, num), rows, k, num)
        BY <1>4, <2>1, RowSums, Zenon
      <4> QED BY <1>6, <4>1 DEF GrowsByRows
    <3> QED BY <1>6, <3>1 DEF part
  <2> QED BY <1>60, <2>2, <2>3
<1> HIDE DEF Stop, users, rows, part
<1>9. left' = [k \in users |-> Stop(k, row + 1)]
  <2>1. left' = [k \in users |-> IF k = part THEN left[part] + rows[row + 1] ELSE left[k]]
    BY <1>1, <1>2
  <2>2. ASSUME NEW k \in users
        PROVE  (IF k = part THEN left[part] + rows[row + 1] ELSE left[k]) = Stop(k, row + 1)
    BY <1>2, <1>7, <1>8
  <2> QED BY <2>1, <2>2
<1>10. rows_read' = [r \in 1..row + 1 |-> Stop(Share(r, num), r - 1)]
  <2>1. left[part] = Stop(Share(row + 1, num), (row + 1) - 1)
    <3>1. (row + 1) - 1 = row
      BY <1>6
    <3> QED BY <1>2, <1>7, <3>1
  <2>2. rows_read = [r \in 1..row |-> rows_read[r]]
    BY <1>2
  <2>3. rows_read' = [r \in 1..row + 1 |-> IF r = row + 1 THEN left[part] ELSE rows_read[r]]
    <3>1. Append(rows_read, left[part]) = [r \in 1..row + 1 |-> IF r = row + 1 THEN left[part] ELSE rows_read[r]]
      <4>1. rows_read \in Seq({rows_read[r] : r \in 1..row}) /\ Len(rows_read) = row
        BY <1>6, <2>2
      <4> QED BY <1>6, <4>1
    <3> QED BY <1>1, <3>1
  <2>4. ASSUME NEW r \in 1..row + 1
        PROVE  (IF r = row + 1 THEN left[part] ELSE rows_read[r]) = Stop(Share(r, num), r - 1)
    <3>1. r = row + 1 \/ r \in 1..row
      BY <1>6
    <3> QED BY <1>2, <1>6, <2>1, <3>1
  <2> QED BY <2>3, <2>4
<1>11. RowsKnown'
  <2>1. num' = num /\ out' = out /\ pc' = pc /\ frame' = frame /\ stage' = stage
    BY <1>1 DEF vars
  <2>2. row + 1 \in 0..Len(rows)
    BY <1>6
  <2>3. RowsStand(left', rows_read', row + 1, rows, num, out)
    BY <1>9, <1>10, Zenon DEF Stop, users, RowsStand
  <2>4. RowsStand(left', rows_read', row', frame'.p.rows, num', out')
    BY <1>1, <2>1, <2>3, Zenon DEF rows
  <2>5. pc' = "done" /\ frame'.entry # "foreign" /\ row' \in 0..Len(frame'.p.rows) /\ stage' = "rows"
    BY <1>1, <1>2, <2>1, <2>2 DEF Ours, rows
  <2> QED BY <2>4, <2>5 DEF RowsKnown, Ours
<1>12. FrameIsLaid' /\ ReaderKnows'
  BY <1>1 DEF FrameInv, FrameIsLaid, ReaderKnows
<1>13. CarvingKnows'
  BY <1>1 DEF FrameInv, CarvingKnows, Ours, vars, Inv, TypeOK, SumsRight, Summed, TableFits, TableIndex, EarlyError,
     OffenderAhead, FailedRight, SlicesRight, SizeOf, Body, TableLen
<1> QED BY <1>11, <1>12, <1>13 DEF FrameInv

LEMMA FrameInitInv == FrameInit => FrameInv
BY DEF FrameInit, FrameInv, FrameIsLaid, ReaderKnows, Reading, CarvingKnows, RowsKnown

LEMMA FrameNextKeeps == FrameInv /\ [FrameNext]_allVars => FrameInv'
<1> SUFFICES ASSUME FrameInv, [FrameNext]_allVars PROVE FrameInv'
  OBVIOUS
<1>1. CASE FrameNext
  BY <1>1, WritersKeep, TagKeeps, SegmentationKeeps, FilterKeeps, QuantKeeps, RefreshKeeps, TokensKeeps, ModesKeeps,
     StartKeeps, CarveKeeps, OpenKeeps, RowKeeps DEF FrameNext
<1>2. CASE UNCHANGED allVars
  <2>1. UNCHANGED <<frame, stage, at, hdr, row, left, rows_read>> /\ UNCHANGED vars
    BY <1>2 DEF allVars, frameVars
  <2>2. FrameIsLaid' /\ ReaderKnows' /\ RowsKnown'
    BY <2>1 DEF FrameInv, FrameIsLaid, ReaderKnows, RowsKnown, Ours, vars
  <2>3. CarvingKnows'
    BY <2>1 DEF FrameInv, CarvingKnows, Ours, vars, Inv, TypeOK, SumsRight, Summed, TableFits, TableIndex, EarlyError,
       OffenderAhead, FailedRight, SlicesRight, SizeOf, Body, TableLen
  <2> QED BY <2>2, <2>3 DEF FrameInv
<1> QED BY <1>1, <1>2

(* What the reader knows at every stage, for every call and packet.           *)
THEOREM FrameInvariant == FrameSpec => []FrameInv
BY FrameInitInv, FrameNextKeeps, PTL DEF FrameSpec

-----------------------------------------------------------------------------
(* The code does not check that a partition fits the three bytes of its size  *)
(* word (encoder.rs 5672-5684); the last partition has no size word.          *)
SizesFit == \A k \in 0..frame.count - 2 : frame.sizes[k] < 2^24

LEMMA InvReadsHeader == FrameInv => HeaderReadsBack
<1> SUFFICES ASSUME FrameInv, stage \in {"carve", "rows"}
             PROVE  /\ at = Len(frame.bits) + 1
                    /\ LET meant == Meant(frame) IN \A f \in DOMAIN meant : hdr[f] = meant[f]
                    /\ hdr.tag.key = frame.key /\ hdr.tag.show = frame.show /\ hdr.tag.size = frame.p.first
                    /\ frame.key => hdr.tag.picture = Some([width |-> frame.p.width, hscale |-> frame.p.hscale,
                                                            height |-> frame.p.height, vscale |-> frame.p.vscale])
                    /\ Ours /\ hdr.entropy => hdr.tokens = NoTokenUpdates
                    /\ Ours /\ Segmented => SameSegmentIndexes
  BY DEF HeaderReadsBack
<1> DEFINE m == Meant(frame)
<1>1. /\ LaidFrame(frame) /\ TagKnown(hdr, frame) /\ at = Len(frame.bits) + 1 /\ KnownIn(hdr, m, Whole)
  BY DEF FrameInv, FrameIsLaid, ReaderKnows, Reading
<1>2. m \in Fields /\ DOMAIN m = Whole
  BY <1>1, LaidParts, WholeHeader
<1>3. \A name \in Whole : hdr[name] = m[name]
  BY <1>1 DEF KnownIn
<1>4. TagLaid(frame) /\ (Ours => OursLaid(frame))
  BY <1>1, Zenon DEF LaidFrame, Ours
<1>5. hdr.tag = parse_header(frame.tag)
  BY <1>1 DEF TagKnown
<1>6. /\ hdr.tag.key = frame.key /\ hdr.tag.show = frame.show /\ hdr.tag.size = frame.p.first
      /\ frame.key => hdr.tag.picture = Some([width |-> frame.p.width, hscale |-> frame.p.hscale,
                                              height |-> frame.p.height, vscale |-> frame.p.vscale])
  BY <1>4, <1>5 DEF TagLaid, TagSays, PictureSays
<1>7. /\ hdr.entropy = m.entropy /\ hdr.tokens = m.tokens /\ hdr.segmentation = m.segmentation
      /\ hdr.quant = m.quant
  BY <1>3 DEF Whole, UpToTokens, UpToRefresh, UpToQuant, UpToFilter, UpToSegmentation
<1>8. Ours /\ hdr.entropy => hdr.tokens = NoTokenUpdates
  BY <1>4, <1>7 DEF OursLaid
<1>9. ASSUME Ours, Segmented PROVE SameSegmentIndexes
  <2>1. /\ m.quant.y_ac_qi = frame.p.q
        /\ \A deltas \in SegmentDeltas(frame), read \in m.segmentation, s \in 1..4 : read.quantizer[s] = {deltas[s]}
    BY <1>4, <1>9 DEF OursLaid, HasSegments, Segmented
  <2>2. ASSUME NEW deltas \in SegmentDeltas(frame), NEW read \in hdr.segmentation, NEW s \in 1..4,
               NEW d \in read.quantizer[s]
        PROVE  Clamped(hdr.quant.y_ac_qi + d, 0, 127) = Clamped(frame.p.q + deltas[s], 0, 127)
    <3>1. d = deltas[s] /\ hdr.quant.y_ac_qi = frame.p.q
      BY <1>7, <2>1, <2>2
    <3> QED BY <3>1
  <2> QED BY <2>2 DEF SameSegmentIndexes, SegmentDeltas
<1> QED BY <1>1, <1>2, <1>3, <1>6, <1>8, <1>9

(* Every entry point's header, and every other writer's, is read back field   *)
(* by field, from a tag that says what the frame is, up to the first bit of   *)
(* the macroblocks; for every call whose arguments are of their types.        *)
THEOREM HeaderAlwaysReadsBack == FrameSpec => []HeaderReadsBack
BY FrameInvariant, InvReadsHeader, PTL

(* The size words a reader sums are the sizes the partitions had.             *)
LEMMA SumsAreSizes ==
  ASSUME FrameInv, SizesFit, pc = "done", Ours
  PROVE  /\ frame.count = num /\ SumsOf(frame.sizes, num, Sums(frame.sizes, num))
         /\ \A k \in 0..num - 1 : sums[k] = Sums(frame.sizes, num)[k]
         /\ \A k \in 0..num - 2 : declared[k] = frame.sizes[k]
         /\ Body = Sums(frame.sizes, num)[num] - hdr.lost /\ hdr.lost \in Nat
<1>1. /\ Inv /\ num = frame.count /\ stage \in {"carve", "rows"}
      /\ section = (3 * (frame.count - 1) - hdr.lost) + Sums(frame.sizes, frame.count)[frame.count]
      /\ declared = SizeTable(frame.sizes, frame.count)
  BY DEF FrameInv, CarvingKnows
<1>2. LaidFrame(frame) /\ TagKnown(hdr, frame)
  BY <1>1 DEF FrameInv, FrameIsLaid, ReaderKnows, Reading
<1>3. num \in {1, 2, 4, 8} /\ frame.sizes \in [0..num - 1 -> Nat] /\ SumsOf(frame.sizes, num, Sums(frame.sizes, num))
  <2>1. frame.count \in {1, 2, 4, 8} /\ frame.sizes \in [0..frame.count - 1 -> Nat]
    BY <1>2, LaidParts DEF LaidFrame
  <2> QED BY <1>1, <1>2, <2>1, TotalIsNat
<1>4. ASSUME NEW k \in 0..num - 2 PROVE declared[k] = frame.sizes[k]
  <2>1. k \in 0..num - 1 /\ k \in 0..frame.count - 2
    BY <1>1, <1>3
  <2>2. frame.sizes[k] \in Nat /\ frame.sizes[k] < 2^24
    <3>1. frame.sizes[k] \in Nat
      BY <1>3, <2>1
    <3> QED BY <2>1, <3>1, Zenon DEF SizesFit
  <2>3. Word(Bytes(frame.sizes[k], 3), 0, 3) = frame.sizes[k]
    BY <2>2, SizeWordReads, Zenon
  <2>4. declared[k] = Word(Bytes(frame.sizes[k], 3), 0, 3)
    BY <1>1, <2>1 DEF SizeTable
  <2> QED BY <2>3, <2>4
<1>5. /\ sums[0] = 0 /\ sums \in [0..num - 1 -> Nat]
      /\ \A k \in 0..num - 2 : sums[k + 1] = sums[k] + declared[k]
  <2>1. Summed = num - 1
    BY <1>1 DEF Inv, EarlyError, Summed
  <2>2. (num - 1) - 1 = num - 2
    BY <1>3
  <2> QED BY <1>1, <2>1, <2>2 DEF Inv, TypeOK, SumsRight
<1>6. \A k \in 0..num - 1 : sums[k] = Sums(frame.sizes, num)[k]
  <2> DEFINE total == Sums(frame.sizes, num)
             Same == {k \in Nat : k <= num - 1 => sums[k] = total[k]}
  <2>1. /\ total \in [0..num -> Nat] /\ total[0] = 0
        /\ \A k \in 1..num : total[k] = total[k - 1] + frame.sizes[k - 1]
    BY <1>3 DEF SumsOf
  <2> HIDE DEF total
  <2>2. 0 \in Same
    BY <1>5, <2>1
  <2>3. ASSUME NEW k \in Nat, k \in Same PROVE k + 1 \in Same
    <3> SUFFICES ASSUME k + 1 <= num - 1 PROVE sums[k + 1] = total[k + 1]
      OBVIOUS
    <3>1. k \in 0..num - 2 /\ k + 1 \in 1..num /\ (k + 1) - 1 = k /\ sums[k] = total[k]
      BY <1>3, <2>3
    <3> QED BY <1>4, <1>5, <2>1, <3>1
  <2> HIDE DEF Same
  <2>4. \A k \in Nat : k \in Same
    BY <2>2, <2>3, NaturalInduction
  <2> QED BY <1>3, <2>4 DEF Same, total
<1>7. hdr.lost \in Nat
  BY <1>2 DEF TagKnown
<1>8. Body = Sums(frame.sizes, num)[num] - hdr.lost
  <2>1. Sums(frame.sizes, num)[num] \in Nat
    BY <1>1, <1>2, TotalIsNat
  <2> QED BY <1>1, <1>3, <1>7, <2>1, SMTT(30) DEF Body, TableLen
<1> QED BY <1>1, <1>3, <1>4, <1>6, <1>7, <1>8

LEMMA InvFindsPartitions == FrameInv /\ SizesFit => PartitionsAreFound
<1> SUFFICES ASSUME FrameInv, SizesFit, pc = "done", Ours, NEW k \in 0..num - 1
             PROVE  /\ out[k].start = Sums(frame.sizes, num)[k]
                    /\ out[k].end = Sums(frame.sizes, num)[k + 1] - (IF k = num - 1 THEN hdr.lost ELSE 0)
  BY DEF PartitionsAreFound
<1> DEFINE total == Sums(frame.sizes, num)
<1>1. Inv
  BY DEF FrameInv, CarvingKnows
<1>2. num \in Nat \ {0} /\ out[k] = [start |-> sums[k], end |-> sums[k] + SizeOf(k)] /\ sums[k] \in Nat
  BY <1>1, SlicePlaces
<1>3. /\ SumsOf(frame.sizes, num, total) /\ sums[k] = total[k] /\ hdr.lost \in Nat /\ Body = total[num] - hdr.lost
      /\ \A n \in 0..num - 2 : declared[n] = frame.sizes[n]
  BY SumsAreSizes
<1>4. /\ total \in [0..num -> Nat] /\ \A n \in 1..num : total[n] = total[n - 1] + frame.sizes[n - 1]
  BY <1>3 DEF SumsOf
<1> HIDE DEF total
<1>5. CASE k = num - 1
  <2>1. SizeOf(k) = Body - sums[k] /\ k + 1 = num /\ total[num] \in Nat
    BY <1>2, <1>4, <1>5 DEF SizeOf
  <2>2. sums[k] + SizeOf(k) = total[k + 1] - hdr.lost
    BY <1>2, <1>3, <2>1
  <2> QED BY <1>2, <1>3, <1>5, <2>2 DEF total
<1>6. CASE k # num - 1
  <2>1. k \in 0..num - 2 /\ k + 1 \in 1..num /\ (k + 1) - 1 = k /\ SizeOf(k) = declared[k]
    BY <1>2, <1>6 DEF SizeOf
  <2>2. total[k + 1] = total[k] + frame.sizes[k] /\ total[k + 1] \in Nat
    BY <1>4, <2>1
  <2>3. sums[k] + SizeOf(k) = total[k + 1] - 0
    BY <1>3, <2>1, <2>2
  <2> QED BY <1>2, <1>3, <1>6, <2>3 DEF total
<1> QED BY <1>5, <1>6

LEMMA InvFindsRows == FrameInv /\ SizesFit => RowsAreFound
<1> SUFFICES ASSUME FrameInv, SizesFit, NEW r \in DOMAIN rows_read
             PROVE  rows_read[r] = Sums(frame.sizes, num)[(r - 1) % num]
                                     + BytesBefore(frame.p.rows, (r - 1) % num, num)[r - 1]
  BY DEF RowsAreFound
<1>1. stage = "rows"
  BY DEF FrameInv, RowsKnown
<1>2. pc = "done" /\ Ours /\ row \in 0..Len(frame.p.rows) /\ RowsStand(left, rows_read, row, frame.p.rows, num, out)
  BY <1>1 DEF FrameInv, RowsKnown
<1>3. r \in 1..row
      /\ rows_read[r] = out[Share(r, num)].start + BytesBefore(frame.p.rows, Share(r, num), num)[r - 1]
  BY <1>2 DEF RowsStand
<1>4. Inv
  BY <1>2 DEF FrameInv, CarvingKnows
<1>5. Share(r, num) \in 0..num - 1
  <2>1. r \in Nat \ {0} /\ num \in Nat \ {0}
    BY <1>2, <1>3, <1>4, SlicePlaces
  <2> QED BY <2>1, ShareOfRow
<1>6. out[Share(r, num)].start = Sums(frame.sizes, num)[Share(r, num)]
  BY <1>2, <1>5, InvFindsPartitions DEF PartitionsAreFound
<1> QED BY <1>3, <1>6, Zenon DEF Share

(* The header, the token partitions and the rows in them are found where they *)
(* were put, for frames whose partitions all fit their size words.            *)
THEOREM FrameAlwaysReadsBack == FrameSpec => [](SizesFit => FrameReadsBack)
<1>1. FrameInv => (SizesFit => FrameReadsBack)
  BY InvReadsHeader, InvFindsPartitions, InvFindsRows DEF FrameReadsBack
<1> QED BY <1>1, FrameInvariant, PTL

(* A packet's slices, whoever wrote it, tile the body it has.                 *)
LEMMA FrameInvCarves == FrameInv => SlicesTileTheBody /\ OvershootIsNamed
<1> SUFFICES ASSUME FrameInv PROVE SlicesTileTheBody /\ OvershootIsNamed
  OBVIOUS
<1>1. CASE pc = "idle"
  BY <1>1 DEF FrameInv, CarvingKnows, SlicesTileTheBody, OvershootIsNamed
<1>2. CASE pc # "idle"
  <2>1. Inv
    BY <1>2 DEF FrameInv, CarvingKnows
  <2> QED BY <2>1, InvTiles, InvNames
<1> QED BY <1>1, <1>2

(* The carving is right inside the reader too, whose packets have lost bytes  *)
(* at their end or come from other writers.                                   *)
THEOREM FramesAreCarved == FrameSpec => [](SlicesTileTheBody /\ OvershootIsNamed)
BY FrameInvariant, FrameInvCarves, PTL
=============================================================================
