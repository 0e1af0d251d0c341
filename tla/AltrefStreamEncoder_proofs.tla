---------------------- MODULE AltrefStreamEncoder_proofs ----------------------
(***************************************************************************)
(* The altref encoder's promises hold for any window, interval, content    *)
(* and schedule of calls, failing ones included: scenes are kept apart,    *)
(* and the frames between the two ends decode as they were coded until a   *)
(* failed call loses some of them, and again from the next key frame on.   *)
(***************************************************************************)
EXTENDS AltrefStreamEncoder, SequenceTheorems, TLAPS

Pictures == [kind : {"visible", "anchor"}, index : Nat]
SlotTable == [Slot -> Pictures \cup {NoPicture}]
Predictable == { s \in SlotTable : s["last"] # NoPicture }
Ladders == {RefreshLastOnly, AnchorRefresh, PromotionRefresh}

(* This encoder never codes loop-filter deltas.                            *)
Carrying(s) == [slots |-> s, refDeltas |-> ZeroDeltas, modeDeltas |-> ZeroDeltas]

KeyFrames == { CodedKey(p, Carrying(s), t) : p \in Pictures, s \in SlotTable, t \in Tokens }
Coding == [ picture : Pictures, slots : Predictable, show : BOOLEAN, ladder : Ladders, tokens : Tokens ]
InterFrames == { CodedInter(x.picture, Carrying(x.slots), x.show, x.ladder, LoopFilterDeltasOff, x.tokens) :
                   x \in Coding }
Frames == KeyFrames \cup InterFrames

Kinds == {"key", "anchor", "inter"}
Outputs == [kind : Kinds, index : Nat, coded : Frames]
Summaries == [kind : Kinds, index : Nat]

TypeOK ==
  /\ input_count \in Nat /\ pending_start \in Nat /\ done \in Nat /\ failures \in Nat
  /\ pending \in Seq(Nat) /\ group \in Seq(Nat) /\ cuts \subseteq Nat
  /\ pending_forced_key \in BOOLEAN /\ arriving \in BOOLEAN
  /\ pc \in {"idle", "key", "anchor", "inter", "done"}
  /\ slots \in SlotTable
  /\ out \in Seq(Outputs) /\ wire \in Seq(Frames) /\ shipped \in Seq(Summaries)

-----------------------------------------------------------------------------
(* Frames buffered together: consecutive, all accepted, and after the      *)
(* first neither a scheduled key frame nor a cut.                          *)
OneScene(frames, start, count, scenes) ==
  /\ frames # <<>> => start + Len(frames) <= count
  /\ \A i \in 1..Len(frames) : frames[i] = start + i - 1
  /\ \A i \in 2..Len(frames) : ~IsKeyIndex(frames[i]) /\ frames[i] \notin scenes

(* A packet of a frame that was accepted, keyed where that is due.         *)
WellKeyed(p, count, scenes) ==
  /\ p.index < count
  /\ p.kind = "inter" => ~IsKeyIndex(p.index) /\ p.index \notin scenes

Scenes ==
  /\ \A i \in cuts : i < input_count
  /\ OneScene(pending, pending_start, input_count, cuts)
  /\ OneScene(group, pending_start, input_count, cuts)
  /\ pending # <<>> => pending_start + Len(pending) = input_count
  /\ pending # <<>> /\ pending[1] \in cuts => pending_forced_key
  /\ \A i \in 1..Len(out) : WellKeyed(out[i], input_count, cuts)
  /\ \A i \in 1..Len(shipped) : WellKeyed(shipped[i], input_count, cuts)

(* Where flush_group stands.  It codes interframes only once a LAST slot   *)
(* exists, and starts with one only where no key frame is due.             *)
Flushing ==
  /\ pc = "idle" => group = <<>> /\ out = <<>>
  /\ pc # "idle" => pending = <<>> /\ group # <<>>
  /\ pc = "key" => done = 0
  /\ pc \in {"anchor", "inter"} => /\ done < Len(group) /\ slots["last"] # NoPicture
                                   /\ done = 0 => ~IsKeyIndex(group[1]) /\ group[1] \notin cuts

-----------------------------------------------------------------------------
(* What a frame leaves in the encoder's slots.                             *)
LeftBy(f) ==
  IF f.packet.key THEN AllSlots(f.picture) ELSE Rotated(f.carried.slots, f.picture, f.packet.refresh)

(* A decoder in step with an encoder that holds s.                         *)
Holding(s) == [slots |-> s, coeff |-> DefaultTable(CoeffCell),
               refDeltas |-> ZeroDeltas, modeDeltas |-> ZeroDeltas]

Codings(packets) == [i \in DOMAIN packets |-> packets[i].coded]

(* Everything coded and not yet decoded: sent, then still in the call.     *)
Queue == wire \o Codings(out)

(* What frame i of a queue was coded against; past its end, what the       *)
(* encoder holds now.                                                      *)
CodedOn(q, end, i) == IF i <= Len(q) THEN q[i].carried.slots ELSE end

(* From its k-th frame on the queue is a chain up to the encoder's slots:  *)
(* each frame leaves what the next was coded against.  It starts with a    *)
(* key frame, or at the head with what the decoder holds.                  *)
Linked(q, end, decoder, k) ==
  /\ k \in 0..Len(q)
  /\ \A i \in k + 1..Len(q) : LeftBy(q[i]) = CodedOn(q, end, i + 1)
  /\ \/ k = 0 /\ decoder = Holding(CodedOn(q, end, 1))
     \/ k < Len(q) /\ q[k + 1].packet.key

Intact ==
  /\ failures = 0 => ~broken /\ Linked(Queue, slots, peer, 0)
  /\ ~broken => \E k \in Nat : Linked(Queue, slots, peer, k)

Inv == TypeOK /\ Scenes /\ Flushing /\ Intact

-----------------------------------------------------------------------------
LEMMA KeyDecodes ==
  ASSUME NEW f \in KeyFrames
  PROVE  /\ f.packet.key /\ CodedAgainst(f)
         /\ AfterKey(f) = Holding(LeftBy(f))
<1>1. PICK p \in Pictures, s \in SlotTable, t \in Tokens : f = CodedKey(p, Carrying(s), t)
  BY DEF KeyFrames
<1>2. f.packet = KeyPacket(t) /\ f.picture = p /\ f.coeff = Overlay(DefaultTable(CoeffCell), t)
  BY <1>1 DEF CodedKey
<1>3. f.packet.key /\ ~f.packet.adjEnable /\ f.packet.coeff = t
  BY <1>2 DEF KeyPacket
<1>4. CodedAgainst(f)
  BY <1>2, <1>3 DEF CodedAgainst
<1>5. KeyCoeff(KeyPacket(t)) = DefaultTable(CoeffCell)
  BY AltrefAssumption, ValueAssumption DEF KeyCoeff, KeyPacket, AnyUpdate, Overlay, DefaultTable
<1>6. AfterKey(f) = Holding(LeftBy(f))
  BY <1>2, <1>3, <1>4, <1>5 DEF AfterKey, Holding, LeftBy, Decoded, KeyDeltas
<1> QED BY <1>3, <1>4, <1>6

LEMMA InterDecodes ==
  ASSUME NEW f \in InterFrames, peer = Holding(f.carried.slots)
  PROVE  /\ ~f.packet.key /\ CodedAgainst(f)
         /\ AfterInter(f) = Holding(LeftBy(f)) /\ peer.slots["last"] # NoPicture
<1>1. PICK x \in Coding :
        f = CodedInter(x.picture, Carrying(x.slots), x.show, x.ladder, LoopFilterDeltasOff, x.tokens)
  BY DEF InterFrames
<1>2. /\ f.packet = InterPacket(x.show, x.ladder, LoopFilterDeltasOff, x.tokens)
      /\ f.picture = x.picture /\ f.carried = Carrying(x.slots)
      /\ f.coeff = Overlay(DefaultTable(CoeffCell), x.tokens)
      /\ f.refDeltas = ZeroDeltas /\ f.modeDeltas = ZeroDeltas
  BY <1>1 DEF CodedInter, Effective, LoopFilterDeltasOff
<1>3. /\ ~f.packet.key /\ ~f.packet.adjEnable /\ ~f.packet.refreshEntropy
      /\ f.packet.coeff = x.tokens /\ f.packet.refresh = x.ladder
  BY <1>2 DEF InterPacket, LoopFilterDeltasOff
<1>4. f.carried.slots = x.slots /\ x.slots["last"] # NoPicture
  BY <1>2 DEF Carrying, Coding, Predictable
<1>5. /\ peer.slots = f.carried.slots /\ peer.coeff = DefaultTable(CoeffCell)
      /\ peer.refDeltas = ZeroDeltas /\ peer.modeDeltas = ZeroDeltas
  BY DEF Holding
<1>6. CodedAgainst(f)
  BY <1>2, <1>3, <1>5 DEF CodedAgainst, Applied
<1>7. AfterInter(f) = Holding(LeftBy(f))
  BY <1>3, <1>5, <1>6 DEF AfterInter, Holding, LeftBy, Decoded, InterDeltas
<1> QED BY <1>3, <1>4, <1>5, <1>6, <1>7

-----------------------------------------------------------------------------
(* Chains: a frame coded against the encoder's slots joins at the end, a   *)
(* key frame starts a chain of its own, and a decoded frame leaves.        *)
LEMMA FrameJoins ==
  ASSUME NEW q \in Seq(Frames), NEW f \in Frames, NEW end, NEW decoder, NEW k,
         f.carried.slots = end, Linked(q, end, decoder, k)
  PROVE  Linked(Append(q, f), LeftBy(f), decoder, k)
<1> DEFINE r == Append(q, f)
<1>1. /\ Len(q) \in Nat /\ Len(r) = Len(q) + 1 /\ r[Len(q) + 1] = f
      /\ \A i \in 1..Len(q) : r[i] = q[i]
  BY AppendProperties, LenProperties
<1> HIDE DEF r
<1>2. k \in 0..Len(q)
  BY DEF Linked
<1>3. \A i \in 1..Len(q) + 1 : CodedOn(r, LeftBy(f), i) = CodedOn(q, end, i)
  BY <1>1 DEF CodedOn
<1>4. ASSUME NEW i \in k + 1..Len(r)
      PROVE  LeftBy(r[i]) = CodedOn(r, LeftBy(f), i + 1)
  <2>1. CASE i = Len(q) + 1
    BY <1>1, <2>1 DEF CodedOn
  <2>2. CASE i <= Len(q)
    BY <1>1, <1>2, <1>3, <2>2 DEF Linked
  <2> QED BY <1>1, <1>2, <2>1, <2>2
<1>5. \/ k = 0 /\ decoder = Holding(CodedOn(r, LeftBy(f), 1))
      \/ k < Len(r) /\ r[k + 1].packet.key
  BY <1>1, <1>2, <1>3 DEF Linked
<1>6. Linked(r, LeftBy(f), decoder, k)
  BY <1>1, <1>2, <1>4, <1>5 DEF Linked
<1> QED BY <1>6 DEF r

LEMMA KeyFrameStartsChain ==
  ASSUME NEW q \in Seq(Frames), NEW f \in KeyFrames, NEW decoder
  PROVE  Linked(Append(q, f), LeftBy(f), decoder, Len(q))
<1> DEFINE r == Append(q, f)
<1>1. Len(q) \in Nat /\ Len(r) = Len(q) + 1 /\ r[Len(q) + 1] = f
  BY AppendProperties, LenProperties DEF Frames
<1> HIDE DEF r
<1>2. Linked(r, LeftBy(f), decoder, Len(q))
  BY <1>1, KeyDecodes DEF Linked, CodedOn
<1> QED BY <1>2 DEF r

LEMMA FrameLeaves ==
  ASSUME NEW q \in Seq(Frames), q # <<>>, NEW end, NEW decoder, NEW next, NEW k,
         Linked(q, end, decoder, k),
         q[1].packet.key \/ decoder = Holding(q[1].carried.slots) => next = Holding(LeftBy(q[1]))
  PROVE  /\ k = 0 => Linked(Tail(q), end, next, 0)
         /\ k > 0 => Linked(Tail(q), end, next, k - 1)
<1> DEFINE r == Tail(q)
<1>1. /\ Len(q) \in Nat \ {0} /\ Len(r) = Len(q) - 1
      /\ \A i \in 1..Len(r) : r[i] = q[i + 1]
  BY HeadTailProperties, EmptySeq
<1> HIDE DEF r
<1>2. k \in 0..Len(q)
  BY DEF Linked
<1>3. \A i \in 1..Len(r) + 1 : CodedOn(r, end, i) = CodedOn(q, end, i + 1)
  BY <1>1 DEF CodedOn
<1>4. CASE k = 0
  <2>1. next = Holding(LeftBy(q[1]))
    BY <1>1, <1>4 DEF Linked, CodedOn
  <2>2. LeftBy(q[1]) = CodedOn(r, end, 1)
    BY <1>1, <1>3, <1>4 DEF Linked
  <2>3. \A i \in 1..Len(r) : LeftBy(r[i]) = CodedOn(r, end, i + 1)
    BY <1>1, <1>3, <1>4 DEF Linked
  <2>4. Linked(r, end, next, 0)
    BY <1>1, <2>1, <2>2, <2>3 DEF Linked
  <2> QED BY <1>4, <2>4 DEF r
<1>5. CASE k > 0
  <2>1. ASSUME NEW i \in k - 1 + 1..Len(r) PROVE LeftBy(r[i]) = CodedOn(r, end, i + 1)
    <3>1. /\ i \in 1..Len(r) /\ i + 1 \in 1..Len(r) + 1
          /\ i + 1 \in k + 1..Len(q) /\ r[i] = q[i + 1]
      BY <1>1, <1>2, <1>5
    <3>2. LeftBy(q[i + 1]) = CodedOn(q, end, i + 1 + 1)
      BY <3>1 DEF Linked
    <3> QED BY <1>3, <3>1, <3>2
  <2>2. k - 1 < Len(r) /\ r[k - 1 + 1].packet.key
    BY <1>1, <1>2, <1>5 DEF Linked
  <2>3. Linked(r, end, next, k - 1)
    BY <1>1, <1>2, <1>5, <2>1, <2>2 DEF Linked
  <2> QED BY <1>5, <2>3 DEF r
<1> QED BY <1>2, <1>4, <1>5

-----------------------------------------------------------------------------
(* The queue is a sequence of frames; a frame coded joins it, and a call   *)
(* that returns only moves frames along it.                                *)
LEMMA CodingsType ==
  ASSUME NEW s \in Seq(Outputs)
  PROVE  /\ Codings(s) \in Seq(Frames) /\ Len(Codings(s)) = Len(s)
         /\ \A i \in 1..Len(s) : Codings(s)[i] = s[i].coded
<1>1. Len(s) \in Nat /\ DOMAIN s = 1..Len(s) /\ \A i \in 1..Len(s) : s[i] \in Outputs
  BY LenProperties, ElementOfSeq
<1>2. Codings(s) \in [1..Len(s) -> Frames]
  BY <1>1 DEF Codings, Outputs
<1>3. Codings(s) \in Seq(Frames)
  BY <1>1, <1>2, SeqDef
<1>4. Len(Codings(s)) = Len(s)
  BY <1>1, <1>2, <1>3, LenProperties
<1> QED BY <1>1, <1>3, <1>4 DEF Codings

LEMMA NoCodings == Codings(<<>>) = <<>>
<1>1. <<>> \in Seq(Outputs) /\ Len(<<>>) = 0
  BY EmptySeq
<1> QED BY <1>1, CodingsType, EmptySeq

LEMMA QueueType ==
  ASSUME TypeOK
  PROVE  Queue \in Seq(Frames)
BY CodingsType, ConcatProperties DEF Queue, TypeOK

LEMMA OutputJoins ==
  ASSUME TypeOK, NEW p \in Outputs, out' = Append(out, p), wire' = wire
  PROVE  Queue' = Append(Queue, p.coded) /\ out' \in Seq(Outputs)
<1>1. /\ out' \in Seq(Outputs) /\ Len(out') = Len(out) + 1
      /\ out'[Len(out) + 1] = p /\ \A i \in 1..Len(out) : out'[i] = out[i]
  BY AppendProperties DEF TypeOK
<1>2. /\ wire \in Seq(Frames) /\ p.coded \in Frames /\ out \in Seq(Outputs)
      /\ Len(out) \in Nat /\ Len(wire) \in Nat
  BY LenProperties DEF TypeOK, Outputs
<1> DEFINE c == Codings(out) d == Codings(out')
<1>3. /\ c \in Seq(Frames) /\ Len(c) = Len(out) /\ \A i \in 1..Len(out) : c[i] = out[i].coded
      /\ d \in Seq(Frames) /\ Len(d) = Len(out) + 1
      /\ \A i \in 1..Len(out) + 1 : d[i] = out'[i].coded
  BY <1>1, <1>2, CodingsType
<1> HIDE DEF c, d
<1>4. /\ Append(c, p.coded) \in Seq(Frames) /\ Len(Append(c, p.coded)) = Len(out) + 1
      /\ Append(c, p.coded)[Len(out) + 1] = p.coded
      /\ \A i \in 1..Len(out) : Append(c, p.coded)[i] = c[i]
  BY <1>2, <1>3, AppendProperties
<1>5. \A i \in 1..Len(out) + 1 : d[i] = Append(c, p.coded)[i]
  BY <1>1, <1>2, <1>3, <1>4, SMTT(30)
<1>6. d = Append(c, p.coded)
  BY <1>3, <1>4, <1>5, SeqEqual
<1>7. Append(c, p.coded) = c \o <<p.coded>> /\ Append(wire \o c, p.coded) = (wire \o c) \o <<p.coded>>
  BY <1>2, <1>3, ConcatProperties, AppendIsConcat
<1>8. <<p.coded>> \in Seq(Frames)
  BY <1>2
<1>9. (wire \o c) \o <<p.coded>> = wire \o (c \o <<p.coded>>)
  BY <1>2, <1>3, <1>8, ConcatAssociative
<1>10. wire' \o d = Append(wire \o c, p.coded)
  BY <1>6, <1>7, <1>9
<1> QED BY <1>1, <1>10 DEF Queue, c, d

LEMMA ReturnKeepsQueue ==
  ASSUME TypeOK, Return(out)
  PROVE  Queue' = Queue /\ wire' \in Seq(Frames)
<1>1. wire' = wire \o Codings(out) /\ out' = <<>>
  BY DEF Return, Codings
<1>2. wire' \in Seq(Frames)
  BY <1>1, QueueType DEF Queue
<1>3. Queue' = wire' \o <<>>
  BY <1>1, NoCodings DEF Queue
<1> QED BY <1>1, <1>2, <1>3, ConcatEmptySeq DEF Queue

(* The packets a call returns are those it had, in order.                  *)
LEMMA SummaryType ==
  ASSUME NEW s \in Seq(Outputs)
  PROVE  /\ Summary(s) \in Seq(Summaries) /\ Len(Summary(s)) = Len(s)
         /\ \A i \in 1..Len(s) : Summary(s)[i] = [kind |-> s[i].kind, index |-> s[i].index]
<1>1. Len(s) \in Nat /\ DOMAIN s = 1..Len(s) /\ \A i \in 1..Len(s) : s[i] \in Outputs
  BY LenProperties, ElementOfSeq
<1>2. Summary(s) \in [1..Len(s) -> Summaries]
  BY <1>1 DEF Summary, Outputs, Summaries
<1>3. Summary(s) \in Seq(Summaries)
  BY <1>1, <1>2, SeqDef
<1>4. Len(Summary(s)) = Len(s)
  BY <1>1, <1>2, <1>3, LenProperties
<1> QED BY <1>1, <1>3, <1>4 DEF Summary

LEMMA ReturnKeepsSummaries ==
  ASSUME TypeOK, NEW packets \in Seq(Outputs), Return(packets), NEW count, NEW scenes,
         \A i \in 1..Len(shipped) : WellKeyed(shipped[i], count, scenes),
         \A i \in 1..Len(packets) : WellKeyed(packets[i], count, scenes)
  PROVE  /\ shipped' \in Seq(Summaries)
         /\ \A i \in 1..Len(shipped') : WellKeyed(shipped'[i], count, scenes)
<1> DEFINE s == Summary(packets)
<1>1. shipped' = shipped \o s
  BY DEF Return, Summary
<1>2. Len(packets) \in Nat /\ s \in Seq(Summaries) /\ Len(s) = Len(packets)
  BY SummaryType, LenProperties
<1>3. \A i \in 1..Len(s) : WellKeyed(s[i], count, scenes)
  <2>1. ASSUME NEW i \in 1..Len(s) PROVE WellKeyed(s[i], count, scenes)
    <3>1. i \in 1..Len(packets) /\ s[i] = [kind |-> packets[i].kind, index |-> packets[i].index]
      BY <1>2, SummaryType
    <3>2. s[i].kind = packets[i].kind /\ s[i].index = packets[i].index
      BY <3>1
    <3> HIDE DEF s
    <3> QED BY <3>1, <3>2 DEF WellKeyed
  <2> QED BY <2>1
<1> HIDE DEF s
<1>4. /\ shipped' \in Seq(Summaries) /\ Len(shipped') = Len(shipped) + Len(s)
      /\ \A i \in 1..Len(shipped) + Len(s) :
           shipped'[i] = IF i <= Len(shipped) THEN shipped[i] ELSE s[i - Len(shipped)]
      /\ Len(shipped) \in Nat /\ Len(s) \in Nat
  BY <1>1, <1>2, ConcatProperties, LenProperties, ZenonT(40) DEF TypeOK
<1>5. ASSUME NEW i \in 1..Len(shipped') PROVE WellKeyed(shipped'[i], count, scenes)
  <2>1. CASE i <= Len(shipped)
    <3>1. i \in 1..Len(shipped) /\ shipped'[i] = shipped[i]
      BY <1>4, <2>1
    <3> QED BY <3>1
  <2>2. CASE i > Len(shipped)
    <3>1. i - Len(shipped) \in 1..Len(s) /\ shipped'[i] = s[i - Len(shipped)]
      BY <1>4, <2>2
    <3> QED BY <1>3, <3>1
  <2> QED BY <1>4, <2>1, <2>2
<1> QED BY <1>4, <1>5

-----------------------------------------------------------------------------
(* flush_group's opening and a frame's arrival keep scenes apart.          *)
LEMMA TakeKeepsScenes ==
  ASSUME NEW frames \in Seq(Nat), frames # <<>>, NEW start \in Nat, NEW forced \in BOOLEAN, NEW site,
         NEW count \in Nat, NEW scenes, slots \in SlotTable,
         OneScene(frames, start, count, scenes), frames[1] \in scenes => forced,
         Take(frames, start, forced, site), input_count' = count, cuts' = scenes, slots' = slots
  PROVE  /\ group' \in Seq(Nat) /\ pending' \in Seq(Nat) /\ done' \in Nat /\ pending_start' \in Nat
         /\ pending_forced_key' \in BOOLEAN /\ pc' \in {"key", "anchor", "inter"}
         /\ OneScene(group, pending_start, input_count, cuts)'
         /\ OneScene(pending, pending_start, input_count, cuts)'
         /\ pending' = <<>> /\ Flushing'
<1>1. /\ group' = frames /\ done' = 0 /\ pending' = <<>> /\ pending_start' = start
      /\ pending_forced_key' = FALSE
  BY DEF Take
<1>2. Len(frames) \in Nat \ {0} /\ pending' \in Seq(Nat) /\ Len(pending') = 0
  BY <1>1, EmptySeq
<1>3. frames[1] = start
  BY <1>2 DEF OneScene
<1>4. pc' \in {"key", "anchor", "inter"} /\ (pc' \in {"anchor", "inter"} => ~KeyDue(start, forced))
  BY DEF Take
<1>5. OneScene(group, pending_start, input_count, cuts)'
  BY <1>1 DEF OneScene
<1>6. OneScene(pending, pending_start, input_count, cuts)'
  BY <1>1, <1>2 DEF OneScene
<1>7. Flushing'
  BY <1>1, <1>2, <1>3, <1>4 DEF Flushing, KeyDue
<1> QED BY <1>1, <1>2, <1>4, <1>5, <1>6, <1>7

LEMMA OldFramesStay ==
  ASSUME NEW frames \in Seq(Nat), NEW start \in Nat, NEW count \in Nat, NEW scenes, NEW cut,
         OneScene(frames, start, count, scenes)
  PROVE  OneScene(frames, start, count + 1, IF cut THEN scenes \cup {count} ELSE scenes)
<1>1. Len(frames) \in Nat /\ (frames # <<>> => Len(frames) > 0)
  BY LenProperties, EmptySeq
<1>2. \A i \in 1..Len(frames) : frames[i] < count
  BY <1>1, EmptySeq DEF OneScene
<1> QED BY <1>1, <1>2 DEF OneScene

LEMMA OldPacketsStay ==
  ASSUME NEW p, p.index \in Nat, NEW count \in Nat, NEW scenes, NEW cut, WellKeyed(p, count, scenes)
  PROVE  WellKeyed(p, count + 1, IF cut THEN scenes \cup {count} ELSE scenes)
BY DEF WellKeyed

(* The rest of push_frame: the frame joins its group, which may be full.   *)
LEMMA AcceptKeepsInvariant ==
  ASSUME TypeOK, Scenes, NEW cut \in BOOLEAN, Accept(cut),
         pending # <<>> => ~cut /\ ~IsKeyIndex(input_count),
         UNCHANGED <<slots, failures, broken, peer>>
  PROVE  TypeOK' /\ Scenes' /\ Flushing' /\ Queue' = Queue
<1> DEFINE frames == Append(pending, input_count)
           start == GroupStart
           forced == IF pending = <<>> THEN cut ELSE pending_forced_key
           scenes == IF cut THEN cuts \cup {input_count} ELSE cuts
           count == input_count + 1
<1>1. input_count' = count /\ cuts' = scenes /\ count \in Nat /\ scenes \subseteq Nat /\ \A i \in scenes : i < count
  BY DEF Accept, TypeOK, Scenes
<1>2. /\ frames \in Seq(Nat) /\ Len(frames) = Len(pending) + 1 /\ frames[Len(pending) + 1] = input_count
      /\ \A i \in 1..Len(pending) : frames[i] = pending[i]
      /\ Len(pending) \in Nat /\ (pending = <<>> => Len(pending) = 0) /\ (pending # <<>> => Len(pending) > 0)
  BY AppendProperties, LenProperties, EmptySeq DEF TypeOK
<1>3. frames # <<>>
  BY <1>2, EmptySeq
<1>4. start \in Nat /\ forced \in BOOLEAN /\ start + Len(frames) = count
  BY <1>2 DEF GroupStart, TypeOK, Scenes
<1>5. OneScene(pending, pending_start, count, scenes)
  BY OldFramesStay DEF TypeOK, Scenes
<1>6. OneScene(frames, start, count, scenes)
  <2>1. \A i \in 1..Len(frames) : frames[i] = start + i - 1
    <3>1. \A i \in 1..Len(pending) : frames[i] = pending_start + i - 1 /\ pending # <<>>
      BY <1>2, <1>5 DEF OneScene
    <3>2. input_count = start + (Len(pending) + 1) - 1
      <4>1. start + (Len(pending) + 1) = input_count + 1
        BY <1>2, <1>4
      <4>2. input_count \in Nat /\ start \in Nat /\ Len(pending) \in Nat
        BY <1>2, <1>4 DEF TypeOK
      <4> HIDE DEF start, frames
      <4> QED BY <4>1, <4>2
    <3>3. \A i \in 1..Len(pending) : frames[i] = start + i - 1
      BY <3>1 DEF GroupStart
    <3>4. \A i \in 1..Len(frames) : i \in 1..Len(pending) \/ i = Len(pending) + 1
      BY <1>2
    <3> HIDE DEF frames, start
    <3> QED BY <1>2, <3>2, <3>3, <3>4
  <2>2. ASSUME NEW i \in 2..Len(frames) PROVE ~IsKeyIndex(frames[i]) /\ frames[i] \notin scenes
    <3>1. CASE i = Len(pending) + 1
      <4>1. pending # <<>> /\ frames[i] = input_count
        BY <1>2, <3>1
      <4> QED BY <4>1 DEF Scenes, TypeOK
    <3>2. CASE i <= Len(pending)
      BY <1>2, <1>5, <3>2 DEF OneScene
    <3> QED BY <1>2, <3>1, <3>2
  <2> QED BY <1>4, <2>1, <2>2 DEF OneScene
<1>7. frames[1] \in scenes => forced
  BY <1>2 DEF Scenes, TypeOK, OneScene
<1>8. /\ \A i \in 1..Len(out) : WellKeyed(out[i], count, scenes)
      /\ \A i \in 1..Len(shipped) : WellKeyed(shipped[i], count, scenes)
  <2>1. /\ \A i \in 1..Len(out) : out[i].index \in Nat
        /\ \A i \in 1..Len(shipped) : shipped[i].index \in Nat
    <3>1. ASSUME NEW i \in 1..Len(out) PROVE out[i].index \in Nat
      <4>1. out[i] \in Outputs
        BY ElementOfSeq DEF TypeOK
      <4> QED BY <4>1 DEF Outputs
    <3>2. ASSUME NEW i \in 1..Len(shipped) PROVE shipped[i].index \in Nat
      <4>1. shipped[i] \in Summaries
        BY ElementOfSeq DEF TypeOK
      <4> QED BY <4>1 DEF Summaries
    <3> QED BY <3>1, <3>2
  <2>2. ASSUME NEW i \in 1..Len(out) PROVE WellKeyed(out[i], count, scenes)
    BY <2>1, OldPacketsStay DEF Scenes, TypeOK
  <2>3. ASSUME NEW i \in 1..Len(shipped) PROVE WellKeyed(shipped[i], count, scenes)
    BY <2>1, OldPacketsStay DEF Scenes, TypeOK
  <2> QED BY <2>2, <2>3
<1>9. CASE Take(frames, start, forced, "full") /\ arriving' = FALSE /\ UNCHANGED <<out, shipped, wire>>
  <2> HIDE DEF frames, start, forced, scenes, count
  <2>1. /\ group' \in Seq(Nat) /\ pending' \in Seq(Nat) /\ done' \in Nat /\ pending_start' \in Nat
        /\ pending_forced_key' \in BOOLEAN /\ pc' \in {"key", "anchor", "inter"}
        /\ OneScene(group, pending_start, input_count, cuts)'
        /\ OneScene(pending, pending_start, input_count, cuts)'
        /\ pending' = <<>> /\ Flushing'
    BY <1>1, <1>2, <1>3, <1>4, <1>6, <1>7, <1>9, TakeKeepsScenes DEF TypeOK
  <2>2. TypeOK'
    BY <1>1, <1>9, <2>1 DEF TypeOK
  <2>3. Scenes'
    BY <1>1, <1>8, <1>9, <2>1 DEF Scenes
  <2> QED BY <1>9, <2>1, <2>2, <2>3 DEF Queue
<1>10. CASE pending' = frames /\ pending_start' = start /\ pending_forced_key' = forced /\ Return(out)
  <2> HIDE DEF frames, start, forced, scenes, count
  <2>1. Queue' = Queue /\ wire' \in Seq(Frames)
    BY <1>10, ReturnKeepsQueue
  <2>2. shipped' \in Seq(Summaries) /\ \A i \in 1..Len(shipped') : WellKeyed(shipped'[i], count, scenes)
    BY <1>8, <1>10, ReturnKeepsSummaries DEF TypeOK
  <2>3. /\ out' = <<>> /\ group' = <<>> /\ pc' = "idle" /\ done' = 0 /\ arriving' = FALSE
        /\ Len(out') = 0 /\ Len(group') = 0 /\ out' \in Seq(Outputs) /\ group' \in Seq(Nat)
    BY <1>10, EmptySeq DEF Return
  <2>4. TypeOK'
    BY <1>1, <1>2, <1>4, <1>10, <2>1, <2>2, <2>3 DEF TypeOK
  <2>5. Scenes'
    BY <1>1, <1>4, <1>6, <1>7, <1>10, <2>2, <2>3 DEF Scenes, OneScene
  <2> QED BY <2>1, <2>3, <2>4, <2>5 DEF Flushing
<1> QED BY <1>9, <1>10 DEF Accept

-----------------------------------------------------------------------------
LEMMA KeyPacketsOnly ==
  /\ \A f \in KeyFrames : f.packet.key
  /\ \A f \in InterFrames : ~f.packet.key
<1>1. \A f \in InterFrames : ~f.packet.key
  BY DEF InterFrames, CodedInter, InterPacket
<1> QED BY <1>1, KeyDecodes

LEMMA CallKeepsIntact ==
  ASSUME Intact, Queue' = Queue, UNCHANGED <<slots, failures, broken, peer>>
  PROVE  Intact'
BY DEF Intact

(* A coded frame joins the packets of the call.                            *)
LEMMA PushKeepsInvariant ==
  ASSUME Inv, NEW p \in Outputs, Push(p), WellKeyed(p, input_count, cuts),
         p.coded.carried.slots = slots, slots' = LeftBy(p.coded), slots' \in SlotTable,
         \/ broken' = broken
         \/ broken' = FALSE /\ p.coded \in KeyFrames,
         done' \in Nat, pc' \in {"anchor", "inter", "done"}
  PROVE  TypeOK' /\ Scenes' /\ Intact'
<1>1. Queue' = Append(Queue, p.coded) /\ out' \in Seq(Outputs)
  BY OutputJoins DEF Inv, Push
<1>2. TypeOK'
  BY <1>1 DEF Inv, TypeOK, Push, buffer
<1>3. Scenes'
  <2>1. /\ Len(out) \in Nat /\ Len(out') = Len(out) + 1 /\ out'[Len(out) + 1] = p
        /\ \A i \in 1..Len(out) : out'[i] = out[i]
    BY AppendProperties, LenProperties DEF Inv, TypeOK, Push
  <2>2. \A i \in 1..Len(out') : WellKeyed(out'[i], input_count, cuts)
    <3>1. ASSUME NEW i \in 1..Len(out') PROVE WellKeyed(out'[i], input_count, cuts)
      <4>1. i \in 1..Len(out) \/ i = Len(out) + 1
        BY <2>1
      <4> QED BY <2>1, <4>1 DEF Inv, Scenes
    <3> QED BY <3>1
  <2> QED BY <2>2 DEF Inv, Scenes, Push, buffer
<1>4. Intact'
  <2>1. Queue \in Seq(Frames) /\ p.coded \in Frames
    BY QueueType DEF Inv, Outputs
  <2>2. \A k : Linked(Queue, slots, peer, k) => Linked(Queue', slots', peer', k)
    BY <1>1, <2>1, FrameJoins DEF Push
  <2>3. p.coded \in KeyFrames => \E k \in Nat : Linked(Queue', slots', peer', k)
    BY <1>1, <2>1, KeyFrameStartsChain, LenProperties DEF Push
  <2> QED BY <2>2, <2>3 DEF Inv, Intact, Push
<1> QED BY <1>2, <1>3, <1>4

LEMMA GroupFrames ==
  ASSUME Inv, pc \in {"key", "anchor", "inter"}
  PROVE  /\ Len(group) \in Nat \ {0} /\ done < Len(group)
         /\ group[done + 1] = pending_start + done /\ pending_start + done < input_count
         /\ group[Len(group)] \in Nat /\ group[Len(group)] < input_count
         /\ input_count \in Nat /\ pending_start \in Nat /\ done \in Nat
<1>1. Len(group) \in Nat \ {0} /\ done \in Nat /\ input_count \in Nat /\ pending_start \in Nat
  BY EmptySeq DEF Inv, TypeOK, Flushing
<1>2. done < Len(group)
  BY <1>1 DEF Inv, Flushing
<1>3. pending_start + Len(group) <= input_count /\ \A i \in 1..Len(group) : group[i] = pending_start + i - 1
  BY <1>1, EmptySeq DEF Inv, Scenes, OneScene, Flushing
<1> QED BY <1>1, <1>2, <1>3

LEMMA KeyKeepsInvariant ==
  ASSUME Inv, NEW t \in Tokens, EncodeKey(t)
  PROVE  Inv'
<1> DEFINE picture == Visible(NextFrame)
           f == CodedKey(picture, Carried, t)
           p == Output("key", NextIndex, f)
<1>1. /\ pc = "key" /\ NextIndex \in Nat /\ NextIndex < input_count /\ picture \in Pictures
      /\ done = 0 /\ Len(group) \in Nat
  BY GroupFrames DEF EncodeKey, NextFrame, NextIndex, Visible, Pictures, Inv, Flushing
<1>2. f \in KeyFrames /\ f.picture = picture /\ f.carried.slots = slots
  BY <1>1 DEF KeyFrames, CodedKey, Carried, Carrying, Inv, TypeOK
<1>3. f \in Frames /\ f.packet.key
  BY <1>2, KeyPacketsOnly DEF Frames
<1> HIDE DEF f
<1>4. p \in Outputs /\ p.coded = f /\ WellKeyed(p, input_count, cuts)
  BY <1>1, <1>3 DEF Output, Outputs, Kinds, WellKeyed
<1> HIDE DEF picture
<1>5. slots' = LeftBy(f) /\ slots' \in SlotTable /\ slots'["last"] # NoPicture
  BY <1>1, <1>2, <1>3, AltrefAssumption
     DEF EncodeKey, SlotsAfterKey, LeftBy, AllSlots, SlotTable, Slot, Pictures, picture
<1>6. Push(p) /\ broken' = FALSE /\ done' = 1 /\ pc' = IF Len(group) >= 2 THEN "anchor" ELSE "done"
  BY DEF EncodeKey, f, picture
<1>7. TypeOK' /\ Scenes' /\ Intact'
  BY <1>2, <1>4, <1>5, <1>6, PushKeepsInvariant
<1>8. Flushing'
  BY <1>1, <1>5, <1>6 DEF Inv, Flushing, Push, buffer
<1> QED BY <1>7, <1>8 DEF Inv

(* An interframe of this picture, coded against the slots as they are.     *)
CodedHere(f, picture, c) ==
  /\ f \in InterFrames /\ f.picture = picture /\ f.carried.slots = slots /\ f.packet.refresh = c

LEMMA InterFrameType ==
  ASSUME Inv, slots["last"] # NoPicture, NEW picture \in Pictures, NEW c \in Ladders, NEW t \in Tokens
  PROVE  /\ CodedHere(CodedInter(picture, Carried, TRUE, c, LoopFilterDeltasOff, t), picture, c)
         /\ CodedHere(CodedInter(picture, Carried, FALSE, c, LoopFilterDeltasOff, t), picture, c)
<1> DEFINE Seen(v) == [picture |-> picture, slots |-> slots, show |-> v, ladder |-> c, tokens |-> t]
           f(v) == CodedInter(picture, Carried, v, c, LoopFilterDeltasOff, t)
<1>1. slots \in Predictable /\ Carried = Carrying(slots)
  BY DEF Predictable, Inv, TypeOK, Carrying, Carried
<1>2. Seen(TRUE) \in Coding /\ Seen(FALSE) \in Coding
  BY <1>1 DEF Coding
<1>3. f(TRUE) \in InterFrames
  <2> DEFINE x == Seen(TRUE)
  <2>1. f(TRUE) = CodedInter(x.picture, Carrying(x.slots), x.show, x.ladder, LoopFilterDeltasOff, x.tokens)
    BY <1>1
  <2> QED BY <1>2, <2>1 DEF InterFrames
<1>4. f(FALSE) \in InterFrames
  <2> DEFINE x == Seen(FALSE)
  <2>1. f(FALSE) = CodedInter(x.picture, Carrying(x.slots), x.show, x.ladder, LoopFilterDeltasOff, x.tokens)
    BY <1>1
  <2> QED BY <1>2, <2>1 DEF InterFrames
<1>5. f(TRUE).picture = picture /\ f(TRUE).carried.slots = slots /\ f(TRUE).packet.refresh = c
  BY DEF CodedInter, Carried, InterPacket
<1>6. f(FALSE).picture = picture /\ f(FALSE).carried.slots = slots /\ f(FALSE).packet.refresh = c
  BY DEF CodedInter, Carried, InterPacket
<1> QED BY <1>3, <1>4, <1>5, <1>6 DEF CodedHere

LEMMA LaddersRotate ==
  ASSUME NEW s \in SlotTable, NEW picture \in Pictures
  PROVE  /\ Rotated(s, picture, AnchorRefresh) = [s EXCEPT !["altref"] = picture]
         /\ Rotated(s, picture, RefreshLastOnly) = [s EXCEPT !["last"] = picture]
         /\ Rotated(s, picture, PromotionRefresh)
              = [s EXCEPT !["golden"] = s["altref"], !["last"] = picture]
<1>1. /\ LastSource(AnchorRefresh) = "PreLast" /\ GoldenSource(AnchorRefresh) = "PreGolden"
      /\ AltrefSource(AnchorRefresh) = "Current"
  BY DEF LastSource, GoldenSource, AltrefSource, AnchorRefresh
<1>2. /\ LastSource(RefreshLastOnly) = "Current" /\ GoldenSource(RefreshLastOnly) = "PreGolden"
      /\ AltrefSource(RefreshLastOnly) = "PreAltRef"
  BY DEF LastSource, GoldenSource, AltrefSource, RefreshLastOnly
<1>3. /\ LastSource(PromotionRefresh) = "Current" /\ GoldenSource(PromotionRefresh) = "PreAltRef"
      /\ AltrefSource(PromotionRefresh) = "PreAltRef"
  BY DEF LastSource, GoldenSource, AltrefSource, PromotionRefresh
<1> QED
  BY <1>1, <1>2, <1>3 DEF Rotated, Held, SourceOf, Slot, RotationSource, SlotTable

LEMMA AnchorKeepsInvariant ==
  ASSUME Inv, NEW t \in Tokens, EncodeAnchor(t)
  PROVE  Inv'
<1> DEFINE picture == Anchor(group[Len(group)])
           f == CodedInter(picture, Carried, FALSE, AnchorRefresh, LoopFilterDeltasOff, t)
           p == Output("anchor", picture.index, f)
<1>1. /\ pc = "anchor" /\ picture \in Pictures /\ picture.index \in Nat /\ picture.index < input_count
      /\ done \in Nat /\ done < Len(group)
  BY GroupFrames DEF EncodeAnchor, Anchor, Pictures
<1>2. slots["last"] # NoPicture /\ slots \in SlotTable
  BY <1>1 DEF Inv, Flushing, TypeOK
<1>3. Push(p) /\ slots' = [slots EXCEPT !["altref"] = picture] /\ pc' = "inter" /\ UNCHANGED <<done, broken>>
  BY DEF EncodeAnchor, SlotsAfterAnchor
<1> HIDE DEF picture
<1>4. f \in Frames /\ f.picture = picture /\ f.carried.slots = slots /\ ~f.packet.key /\ f.packet.refresh = AnchorRefresh
  <2>1. AnchorRefresh \in Ladders
    BY DEF Ladders
  <2>2. CodedHere(f, picture, AnchorRefresh)
    BY <1>1, <1>2, <2>1, InterFrameType
  <2> HIDE DEF f
  <2> QED BY <2>2, KeyPacketsOnly DEF CodedHere, Frames
<1> HIDE DEF f
<1>5. p \in Outputs /\ p.coded = f /\ WellKeyed(p, input_count, cuts)
  BY <1>1, <1>4 DEF Output, Outputs, Kinds, WellKeyed
<1>6. slots' = LeftBy(f) /\ slots' \in SlotTable /\ slots'["last"] = slots["last"]
  BY <1>1, <1>2, <1>3, <1>4, LaddersRotate DEF LeftBy, SlotTable, Slot
<1>7. TypeOK' /\ Scenes' /\ Intact'
  BY <1>1, <1>3, <1>4, <1>5, <1>6, PushKeepsInvariant
<1>8. Flushing'
  BY <1>1, <1>2, <1>3, <1>6 DEF Inv, Flushing, Push, buffer
<1> QED BY <1>7, <1>8 DEF Inv

LEMMA InterKeepsInvariant ==
  ASSUME Inv, NEW t \in Tokens, EncodeInter(t)
  PROVE  Inv'
<1> DEFINE picture == Visible(NextFrame)
           refresh == IF Promotes THEN PromotionRefresh ELSE RefreshLastOnly
           f == CodedInter(picture, Carried, TRUE, refresh, LoopFilterDeltasOff, t)
           p == Output("inter", NextIndex, f)
<1>1. /\ pc = "inter" /\ picture \in Pictures /\ NextIndex \in Nat /\ NextIndex < input_count
      /\ done \in Nat /\ done < Len(group) /\ Len(group) \in Nat /\ NextIndex = group[done + 1]
  BY GroupFrames DEF EncodeInter, NextFrame, NextIndex, Visible, Pictures
<1>2. slots["last"] # NoPicture /\ slots \in SlotTable
  BY <1>1 DEF Inv, Flushing, TypeOK
<1>3. ~IsKeyIndex(NextIndex) /\ NextIndex \notin cuts
  <2>1. CASE done = 0
    BY <1>1, <2>1 DEF Inv, Flushing
  <2>2. CASE done > 0
    BY <1>1, <2>2 DEF Inv, Scenes, OneScene
  <2> QED BY <1>1, <2>1, <2>2
<1>4. /\ Push(p) /\ pc' = IF done + 1 = Len(group) THEN "done" ELSE "inter"
      /\ slots' = [slots EXCEPT !["golden"] = IF Promotes THEN slots["altref"] ELSE @, !["last"] = picture]
      /\ done' = done + 1 /\ broken' = broken
  BY DEF EncodeInter
<1> HIDE DEF picture
<1>5. /\ f \in Frames /\ f.picture = picture /\ f.carried.slots = slots
      /\ ~f.packet.key /\ f.packet.refresh = refresh
  <2>1. refresh \in Ladders
    BY DEF Ladders
  <2> HIDE DEF refresh
  <2>2. CodedHere(f, picture, refresh)
    BY <1>1, <1>2, <2>1, InterFrameType
  <2> HIDE DEF f
  <2> QED BY <2>2, KeyPacketsOnly DEF CodedHere, Frames
<1> HIDE DEF f
<1>6. p \in Outputs /\ p.coded = f /\ WellKeyed(p, input_count, cuts)
  BY <1>1, <1>3, <1>5 DEF Output, Outputs, Kinds, WellKeyed
<1>7. slots' = LeftBy(f) /\ slots' \in SlotTable /\ slots'["last"] # NoPicture
  <2>1. picture # NoPicture
    BY <1>1, AltrefAssumption DEF Pictures
  <2>2. LeftBy(f) = Rotated(slots, picture, refresh)
    BY <1>5 DEF LeftBy
  <2>3. CASE Promotes
    <3>1. slots' = [slots EXCEPT !["golden"] = slots["altref"], !["last"] = picture]
      BY <1>4, <2>3
    <3>2. LeftBy(f) = Rotated(slots, picture, PromotionRefresh)
      BY <2>2, <2>3
    <3>3. slots' = LeftBy(f)
      BY <1>1, <1>2, <3>1, <3>2, LaddersRotate
    <3> QED BY <1>1, <1>2, <2>1, <3>1, <3>3 DEF SlotTable, Slot
  <2>4. CASE ~Promotes
    <3>1. slots' = [slots EXCEPT !["last"] = picture]
      BY <1>2, <1>4, <2>4 DEF SlotTable, Slot
    <3>2. LeftBy(f) = Rotated(slots, picture, RefreshLastOnly)
      BY <2>2, <2>4
    <3>3. slots' = LeftBy(f)
      BY <1>1, <1>2, <3>1, <3>2, LaddersRotate
    <3> QED BY <1>1, <1>2, <2>1, <3>1, <3>3 DEF SlotTable, Slot
  <2> QED BY <2>3, <2>4
<1> HIDE DEF p, refresh
<1>8. TypeOK' /\ Scenes' /\ Intact'
  <2>1. Push(p) /\ broken' = broken /\ done' \in Nat /\ pc' \in {"anchor", "inter", "done"}
    BY <1>1, <1>4
  <2> QED BY <1>5, <1>6, <1>7, <2>1, PushKeepsInvariant
<1>9. Flushing'
  BY <1>1, <1>4, <1>7 DEF Inv, Flushing, Push, buffer
<1> QED BY <1>8, <1>9 DEF Inv

-----------------------------------------------------------------------------
LEMMA NobodyWaits ==
  /\ <<>> \in Seq(Nat) /\ <<>> \in Seq(Outputs) /\ <<>> \in Seq(Frames) /\ <<>> \in Seq(Summaries)
  /\ Len(<<>>) = 0 /\ \A start, count, scenes : OneScene(<<>>, start, count, scenes)
BY EmptySeq DEF OneScene

LEMMA PushFrameKeepsInvariant ==
  ASSUME Inv, NEW d, NEW cut \in BOOLEAN, PushFrame(d, cut)
  PROVE  Inv'
<1>1. pc = "idle" /\ out = <<>> /\ group = <<>>
  BY DEF PushFrame, CanCall, Inv, Flushing
<1>2. CASE /\ ClosesGroup(cut)
           /\ Take(pending, pending_start, pending_forced_key, "before")
           /\ arriving' = cut
           /\ UNCHANGED <<input_count, cuts, out, shipped, wire>>
  <2>1. pending # <<>> /\ UNCHANGED <<slots, failures, broken, peer>>
    BY <1>2 DEF ClosesGroup, PushFrame
  <2>2. /\ group' \in Seq(Nat) /\ pending' \in Seq(Nat) /\ done' \in Nat /\ pending_start' \in Nat
        /\ pending_forced_key' \in BOOLEAN /\ pc' \in {"key", "anchor", "inter"}
        /\ OneScene(group, pending_start, input_count, cuts)'
        /\ OneScene(pending, pending_start, input_count, cuts)'
        /\ pending' = <<>> /\ Flushing'
    BY <1>2, <2>1, TakeKeepsScenes DEF Inv, TypeOK, Scenes
  <2>3. TypeOK' /\ Scenes'
    BY <1>2, <2>1, <2>2 DEF Inv, TypeOK, Scenes
  <2>4. Intact'
    BY <1>2, <2>1, CallKeepsIntact DEF Inv, Queue
  <2> QED BY <2>2, <2>3, <2>4 DEF Inv
<1>3. CASE ~ClosesGroup(cut) /\ Accept(cut)
  <2>1. UNCHANGED <<slots, failures, broken, peer>> /\ (pending # <<>> => ~cut /\ ~IsKeyIndex(input_count))
    BY <1>3 DEF ClosesGroup, PushFrame
  <2> QED BY <1>3, <2>1, AcceptKeepsInvariant, CallKeepsIntact DEF Inv
<1> QED BY <1>2, <1>3 DEF PushFrame

LEMMA FinishKeepsInvariant ==
  ASSUME Inv, Finish
  PROVE  Inv'
<1>1. /\ pending # <<>> /\ Take(pending, pending_start, pending_forced_key, "finish")
      /\ UNCHANGED <<input_count, cuts, arriving, slots, out, shipped, failures, broken, wire, peer>>
  BY DEF Finish, history
<1>2. /\ group' \in Seq(Nat) /\ pending' \in Seq(Nat) /\ done' \in Nat /\ pending_start' \in Nat
      /\ pending_forced_key' \in BOOLEAN /\ pc' \in {"key", "anchor", "inter"}
      /\ OneScene(group, pending_start, input_count, cuts)'
      /\ OneScene(pending, pending_start, input_count, cuts)'
      /\ pending' = <<>> /\ Flushing'
  BY <1>1, TakeKeepsScenes DEF Inv, TypeOK, Scenes
<1>3. TypeOK' /\ Scenes'
  BY <1>1, <1>2 DEF Inv, TypeOK, Scenes
<1>4. Intact'
  BY <1>1, CallKeepsIntact DEF Inv, Queue
<1> QED BY <1>2, <1>3, <1>4 DEF Inv

LEMMA EndFlushKeepsInvariant ==
  ASSUME Inv, EndFlush
  PROVE  Inv'
<1>1. /\ pc = "done" /\ pending = <<>> /\ UNCHANGED <<slots, failures, broken, peer>>
      /\ arriving \in BOOLEAN
  BY DEF EndFlush, Inv, Flushing, TypeOK
<1>2. CASE Accept(arriving)
  BY <1>1, <1>2, AcceptKeepsInvariant, CallKeepsIntact DEF Inv
<1>3. CASE Return(out) /\ UNCHANGED <<pending, pending_start, pending_forced_key, input_count, cuts>>
  <2>1. Queue' = Queue /\ wire' \in Seq(Frames)
    BY <1>3, ReturnKeepsQueue DEF Inv
  <2>2. shipped' \in Seq(Summaries) /\ \A i \in 1..Len(shipped') : WellKeyed(shipped'[i], input_count, cuts)
    BY <1>3, ReturnKeepsSummaries DEF Inv, TypeOK, Scenes
  <2>3. /\ out' = <<>> /\ group' = <<>> /\ pc' = "idle" /\ done' = 0 /\ arriving' = FALSE
        /\ Len(out') = 0 /\ Len(group') = 0 /\ out' \in Seq(Outputs) /\ group' \in Seq(Nat)
    BY <1>3, EmptySeq DEF Return
  <2>4. OneScene(group, pending_start, input_count, cuts)'
    BY <2>3, NobodyWaits
  <2>5. TypeOK'
    BY <1>1, <1>3, <2>1, <2>2, <2>3 DEF Inv, TypeOK
  <2>6. Scenes'
    BY <1>1, <1>3, <2>2, <2>3, <2>4 DEF Inv, Scenes
  <2> QED BY <1>1, <2>1, <2>3, <2>5, <2>6, CallKeepsIntact DEF Inv, Flushing
<1> QED BY <1>2, <1>3 DEF EndFlush

LEMMA FailureKeepsInvariant ==
  ASSUME Inv, FailFrame
  PROVE  Inv'
<1>1. /\ Return(<<>>) /\ failures' = failures + 1 /\ broken' = (broken \/ out # <<>>)
      /\ UNCHANGED <<dimensions, pending, pending_start, pending_forced_key, input_count, cuts, slots, peer>>
      /\ pc # "idle"
  BY DEF FailFrame, buffer
<1>3. shipped' \in Seq(Summaries) /\ \A i \in 1..Len(shipped') : WellKeyed(shipped'[i], input_count, cuts)
  <2> DEFINE none == <<>>
  <2>1. none \in Seq(Outputs) /\ Len(none) = 0 /\ Return(none)
    BY <1>1, NobodyWaits
  <2> HIDE DEF none
  <2>2. \A i \in 1..Len(none) : WellKeyed(none[i], input_count, cuts)
    BY <2>1
  <2>3. TypeOK /\ \A i \in 1..Len(shipped) : WellKeyed(shipped[i], input_count, cuts)
    BY DEF Inv, Scenes
  <2> QED BY <2>1, <2>2, <2>3, ReturnKeepsSummaries
<1>4. wire' = wire /\ out' = <<>> /\ group' = <<>> /\ done' = 0 /\ arriving' = FALSE /\ pc' = "idle"
  <2>1. wire' = wire \o Codings(<<>>)
    BY <1>1 DEF Return, Codings
  <2>2. wire' = wire
    BY <2>1, NoCodings, ConcatEmptySeq DEF Inv, TypeOK
  <2> QED BY <1>1, <2>2 DEF Return
<1>5. TypeOK' /\ Scenes' /\ Flushing'
  <2>1. /\ out' \in Seq(Outputs) /\ Len(out') = 0 /\ group' \in Seq(Nat)
        /\ OneScene(group, pending_start, input_count, cuts)'
    <3>1. OneScene(group', pending_start', input_count', cuts')
      BY <1>4, NobodyWaits, Zenon
    <3>2. out' \in Seq(Outputs) /\ Len(out') = 0 /\ group' \in Seq(Nat)
      BY <1>4, NobodyWaits, Zenon
    <3> QED BY <3>1, <3>2
  <2>2. TypeOK'
    <3>1. /\ failures' \in Nat /\ input_count' \in Nat /\ pending_start' \in Nat /\ pending' \in Seq(Nat)
          /\ cuts' \subseteq Nat /\ pending_forced_key' \in BOOLEAN /\ slots' \in SlotTable
      BY <1>1 DEF Inv, TypeOK
    <3>2. wire' \in Seq(Frames)
      BY <1>4 DEF Inv, TypeOK
    <3> QED BY <1>3, <1>4, <2>1, <3>1, <3>2 DEF TypeOK
  <2>3. Scenes'
    BY <1>1, <1>3, <2>1 DEF Inv, Scenes
  <2>4. Flushing'
    BY <1>4 DEF Flushing
  <2> QED BY <2>2, <2>3, <2>4
<1>6. Intact'
  <2>1. failures' # 0
    BY <1>1 DEF Inv, TypeOK
  <2>2. out = <<>> => Queue' = Queue
    BY <1>4 DEF Queue
  <2>3. ~broken' => out = <<>> /\ ~broken
    BY <1>1
  <2> QED BY <1>1, <2>1, <2>2, <2>3 DEF Inv, Intact
<1> QED BY <1>5, <1>6 DEF Inv

LEMMA DeliverKeepsInvariant ==
  ASSUME Inv, Deliver
  PROVE  Inv'
<1> DEFINE f == Head(wire)
           c == Codings(out)
<1>1. /\ wire # <<>> /\ Len(wire) \in Nat \ {0} /\ f = wire[1] /\ f \in Frames
      /\ wire' \in Seq(Frames) /\ wire' = Tail(wire) /\ Len(wire') = Len(wire) - 1
      /\ \A i \in 1..Len(wire') : wire'[i] = wire[i + 1]
  BY HeadTailProperties, EmptySeq, LenProperties, ElementOfSeq DEF Deliver, DecodeNext, Inv, TypeOK
<1>2. c \in Seq(Frames) /\ Len(c) \in Nat /\ wire \in Seq(Frames)
  BY CodingsType, LenProperties DEF Inv, TypeOK
<1>3. /\ out' = out /\ UNCHANGED <<slots, failures, broken>>
      /\ peer' = CASE f.packet.key                              -> AfterKey(f)
                   [] ~f.packet.key /\ peer.slots["last"] = NoPicture -> peer
                   [] OTHER                                     -> AfterInter(f)
  BY DEF Deliver, DecodeNext, history
<1> HIDE DEF c, f
<1>4. /\ Queue \in Seq(Frames) /\ Len(Queue) = Len(wire) + Len(c) /\ Queue # <<>>
      /\ \A i \in 1..Len(wire) + Len(c) : Queue[i] = IF i <= Len(wire) THEN wire[i] ELSE c[i - Len(wire)]
  BY <1>1, <1>2, ConcatProperties, EmptySeq DEF Queue, c
<1>5. Queue[1] = f
  BY <1>1, <1>2, <1>4
<1>6. /\ Queue' = wire' \o c /\ Queue' \in Seq(Frames) /\ Len(Queue') = Len(wire') + Len(c)
      /\ \A i \in 1..Len(wire') + Len(c) : Queue'[i] = IF i <= Len(wire') THEN wire'[i] ELSE c[i - Len(wire')]
  <2>1. Queue' = wire' \o c
    BY <1>3 DEF Queue, c
  <2> QED BY <1>1, <1>2, <2>1, ConcatProperties
<1>7. Queue' = Tail(Queue)
  <2>1. /\ Tail(Queue) \in Seq(Frames) /\ Len(Tail(Queue)) = Len(Queue) - 1
        /\ \A i \in 1..Len(Tail(Queue)) : Tail(Queue)[i] = Queue[i + 1]
    BY <1>4, HeadTailProperties
  <2>2. ASSUME NEW i \in 1..Len(Queue') PROVE Queue'[i] = Tail(Queue)[i]
    <3>1. i + 1 \in 1..Len(wire) + Len(c) /\ i \in 1..Len(Tail(Queue)) /\ i \in 1..Len(wire') + Len(c)
      BY <1>1, <1>2, <1>4, <1>6, <2>1
    <3>2. CASE i <= Len(wire')
      BY <1>1, <1>2, <1>4, <1>6, <2>1, <3>1, <3>2
    <3>3. CASE i > Len(wire')
      <4>1. Queue'[i] = c[i - Len(wire')] /\ Queue[i + 1] = c[i + 1 - Len(wire)]
        BY <1>1, <1>2, <1>4, <1>6, <3>1, <3>3
      <4>2. i - Len(wire') = i + 1 - Len(wire)
        BY <1>1, <1>6, <3>1
      <4> QED BY <2>1, <3>1, <4>1, <4>2
    <3> QED BY <1>1, <3>1, <3>2, <3>3
  <2>3. Len(Queue') = Len(Tail(Queue))
    BY <1>1, <1>2, <1>4, <1>6, <2>1
  <2> QED BY <1>6, <2>1, <2>2, <2>3, SeqEqual, Zenon
<1>8. f.packet.key \/ peer = Holding(f.carried.slots) => peer' = Holding(LeftBy(f))
  <2>1. CASE f \in KeyFrames
    BY <1>3, <2>1, KeyDecodes
  <2>2. CASE f \in InterFrames
    BY <1>3, <2>2, InterDecodes, KeyPacketsOnly
  <2> QED BY <1>1, <2>1, <2>2 DEF Frames
<1>9. ASSUME NEW k \in Nat, Linked(Queue, slots, peer, k)
      PROVE  \/ k = 0 /\ Linked(Queue', slots', peer', 0)
             \/ k - 1 \in Nat /\ Linked(Queue', slots', peer', k - 1)
  <2>1. /\ k = 0 => Linked(Tail(Queue), slots, peer', 0)
        /\ k > 0 => Linked(Tail(Queue), slots, peer', k - 1)
    BY <1>4, <1>5, <1>8, <1>9, FrameLeaves
  <2>2. k > 0 => k - 1 \in Nat
    OBVIOUS
  <2> QED BY <1>3, <1>7, <2>1, <2>2
<1>10. Intact'
  BY <1>3, <1>9 DEF Inv, Intact
<1>11. TypeOK' /\ Scenes' /\ Flushing'
  BY <1>1 DEF Inv, TypeOK, Scenes, Flushing, Deliver, buffer, flush, history
<1> QED BY <1>10, <1>11 DEF Inv

LEMMA StutterKeepsInvariant ==
  ASSUME Inv, UNCHANGED vars
  PROVE  Inv'
<1>1. Intact'
  BY CallKeepsIntact DEF Inv, Queue, vars, history
<1> QED BY <1>1 DEF Inv, TypeOK, Scenes, Flushing, vars, buffer, flush, history

LEMMA InitKeepsInvariant == Init => Inv
<1> SUFFICES ASSUME Init PROVE Inv
  OBVIOUS
<1>1. TypeOK /\ Scenes /\ Flushing
  <2>1. slots \in SlotTable
    BY DEF Init, AllSlots, SlotTable
  <2>2. /\ pending = <<>> /\ group = <<>> /\ out = <<>> /\ shipped = <<>> /\ wire = <<>> /\ cuts = {}
        /\ pc = "idle" /\ input_count = 0 /\ pending_start = 0 /\ done = 0 /\ failures = 0
        /\ pending_forced_key = FALSE /\ arriving = FALSE
    BY DEF Init, PeerInit
  <2>3. TypeOK
    BY <2>1, <2>2, NobodyWaits DEF TypeOK
  <2>4. /\ OneScene(pending, pending_start, input_count, cuts)
        /\ OneScene(group, pending_start, input_count, cuts)
        /\ Len(out) = 0 /\ Len(shipped) = 0
    BY <2>2, NobodyWaits, Zenon
  <2>5. Scenes
    BY <2>2, <2>4 DEF Scenes
  <2> QED BY <2>2, <2>3, <2>5 DEF Flushing
<1>2. Queue = <<>> /\ Len(Queue) = 0
  BY NoCodings, ConcatEmptySeq, EmptySeq DEF Init, Queue, PeerInit
<1>3. peer = Holding(slots)
  BY DEF Init, PeerInit, EmptyPeer, Holding
<1>4. Linked(Queue, slots, peer, 0)
  BY <1>2, <1>3 DEF Linked, CodedOn
<1> QED BY <1>1, <1>4 DEF Inv, Intact, Init

(* Whatever is pushed, and whichever frames fail to code, the invariant    *)
(* holds: groups stay inside scenes, and the queue ends in a chain.        *)
THEOREM InductiveInvariant == Spec => []Inv
<1>1. ASSUME Inv, Next PROVE Inv'
  <2>1. ASSUME NEW d \in Dimensions, NEW cut \in BOOLEAN, PushFrame(d, cut) PROVE Inv'
    BY <1>1, <2>1, PushFrameKeepsInvariant
  <2>2. ASSUME NEW d \in Dimensions, RefuseDimensions(d) PROVE Inv'
    BY <1>1, <2>2, StutterKeepsInvariant DEF RefuseDimensions
  <2>3. ASSUME NEW t \in Tokens, EncodeKey(t) \/ EncodeAnchor(t) \/ EncodeInter(t) PROVE Inv'
    BY <1>1, <2>3, KeyKeepsInvariant, AnchorKeepsInvariant, InterKeepsInvariant
  <2> QED
    BY <1>1, <2>1, <2>2, <2>3, FinishKeepsInvariant, EndFlushKeepsInvariant, FailureKeepsInvariant,
       DeliverKeepsInvariant DEF Next, Encode
<1>2. Inv /\ [Next]_vars => Inv'
  BY <1>1, StutterKeepsInvariant
<1> QED
  BY InitKeepsInvariant, <1>2, PTL DEF Spec

-----------------------------------------------------------------------------
(* Scheduled frames and the first frames of scenes are shown only as key   *)
(* frames, and no anchor is blended across a cut: for any content, window  *)
(* and schedule, failing calls included.                                   *)
THEOREM ScenesStayApart == Spec => []ScenesKeptApart
<1>1. Inv => ScenesKeptApart
  <2> SUFFICES ASSUME Inv PROVE ScenesKeptApart
    OBVIOUS
  <2>1. AnchorStaysInScene
    BY DEF Inv, Scenes, OneScene, AnchorStaysInScene
  <2>2. KeyedWhereDue
    <3> DEFINE s == Summary(out)
    <3>1. /\ s \in Seq(Summaries) /\ Len(s) = Len(out) /\ shipped \in Seq(Summaries)
          /\ \A i \in 1..Len(out) : s[i] = [kind |-> out[i].kind, index |-> out[i].index]
          /\ Len(shipped) \in Nat /\ Len(out) \in Nat
      BY SummaryType, LenProperties DEF Inv, TypeOK
    <3> HIDE DEF s
    <3>2. /\ Coded \in Seq(Summaries) /\ Len(Coded) = Len(shipped) + Len(s)
          /\ \A i \in 1..Len(shipped) + Len(s) : Coded[i] = IF i <= Len(shipped) THEN shipped[i]
                                                                              ELSE s[i - Len(shipped)]
      <4>1. Coded = shipped \o s
        BY DEF Coded, s
      <4>2. s \in Seq(Summaries) /\ shipped \in Seq(Summaries)
        BY <3>1
      <4> QED BY <4>1, <4>2, ConcatProperties
    <3>3. DOMAIN Coded = 1..Len(shipped) + Len(out)
      BY <3>1, <3>2, LenProperties
    <3>4. ASSUME NEW i \in DOMAIN Coded, Coded[i].kind = "inter"
          PROVE  ~IsKeyIndex(Coded[i].index) /\ Coded[i].index \notin cuts
      <4>1. CASE i <= Len(shipped)
        <5>1. i \in 1..Len(shipped) /\ Coded[i] = shipped[i]
          BY <3>1, <3>2, <3>3, <4>1
        <5> QED BY <3>4, <5>1 DEF Inv, Scenes, WellKeyed
      <4>2. CASE i > Len(shipped)
        <5> DEFINE j == i - Len(shipped)
        <5>1. j \in 1..Len(out) /\ Coded[i] = s[j]
          BY <3>1, <3>2, <3>3, <4>2
        <5> HIDE DEF j
        <5>2. Coded[i].kind = out[j].kind /\ Coded[i].index = out[j].index
          <6>1. s[j] = [kind |-> out[j].kind, index |-> out[j].index]
            BY <3>1, <5>1
          <6> QED BY <5>1, <6>1
        <5>3. WellKeyed(out[j], input_count, cuts)
          BY <5>1 DEF Inv, Scenes
        <5> QED BY <3>4, <5>2, <5>3 DEF WellKeyed
      <4> QED BY <3>1, <3>3, <4>1, <4>2
    <3> QED BY <3>4 DEF KeyedWhereDue
  <2> QED BY <2>1, <2>2 DEF ScenesKeptApart
<1> QED BY <1>1, InductiveInvariant, PTL

(* Up to the first failed call every frame decodes as it was coded; a      *)
(* failure that lost no coded frame changes nothing, and any other is over *)
(* with the next key frame.                                                *)
THEOREM DecodesUntilFailure == Spec => []DecodesAsCodedUntilFailure
<1>1. Inv => DecodesAsCodedUntilFailure
  <2> SUFFICES ASSUME Inv PROVE DecodesAsCodedUntilFailure
    OBVIOUS
  <2>1. ASSUME failures = 0, wire # <<>> PROVE CodedAgainst(Head(wire))
    <3>1. /\ Head(wire) = wire[1] /\ Head(wire) \in Frames /\ Len(wire) \in Nat \ {0}
      BY <2>1, HeadTailProperties, EmptySeq, ElementOfSeq DEF Inv, TypeOK
    <3>2. Len(Queue) >= Len(wire) /\ Queue[1] = wire[1] /\ Len(Queue) \in Nat
      BY <3>1, CodingsType, ConcatProperties, LenProperties DEF Inv, TypeOK, Queue
    <3>3. Linked(Queue, slots, peer, 0)
      BY <2>1 DEF Inv, Intact
    <3>4. Head(wire).packet.key \/ peer = Holding(Head(wire).carried.slots)
      BY <3>1, <3>2, <3>3 DEF Linked, CodedOn
    <3>5. CASE Head(wire) \in KeyFrames
      BY <3>5, KeyDecodes
    <3>6. CASE Head(wire) \in InterFrames
      BY <3>4, <3>6, KeyPacketsOnly, InterDecodes
    <3> QED BY <3>1, <3>5, <3>6 DEF Frames
  <2>2. ASSUME pc = "idle", wire = <<>>, ~broken
        PROVE  peer = [EmptyPeer EXCEPT !.slots = slots]
    <3>1. out = <<>>
      BY <2>2 DEF Inv, Flushing
    <3>2. Queue = <<>> /\ Len(Queue) = 0
      BY <2>2, <3>1, NoCodings, ConcatEmptySeq, EmptySeq DEF Queue
    <3>3. PICK k \in Nat : Linked(Queue, slots, peer, k)
      BY <2>2 DEF Inv, Intact
    <3>4. peer = Holding(slots)
      BY <3>2, <3>3 DEF Linked, CodedOn
    <3> QED BY <3>4 DEF Holding, EmptyPeer
  <2> QED BY <2>1, <2>2 DEF DecodesAsCodedUntilFailure, NextDecodesAsCoded
<1> QED BY <1>1, InductiveInvariant, PTL

-----------------------------------------------------------------------------
VisiblePacket(frames, keyed, i) ==
  [kind |-> IF keyed /\ i = 1 THEN "key" ELSE "inter", index |-> frames[i]]
AnchorPacket(frames) == [kind |-> "anchor", index |-> frames[Len(frames)]]

(* The i-th packet of a group, and how many there are.                     *)
Planned(frames, keyed, i) ==
  LET keys == IF keyed THEN 1 ELSE 0
  IN IF Len(frames) < 2 \/ i <= keys THEN VisiblePacket(frames, keyed, i)
     ELSE IF i = keys + 1 THEN AnchorPacket(frames)
     ELSE VisiblePacket(frames, keyed, i - 1)
GroupLength(frames) == IF Len(frames) < 2 THEN Len(frames) ELSE Len(frames) + 1

(* The abstract group, packet by packet.                                   *)
LEMMA GroupAsPlanned ==
  ASSUME NEW frames \in Seq(Nat), frames # <<>>, NEW keyed \in BOOLEAN
  PROVE  /\ Contract!GroupPackets(frames, keyed) \in Seq(Summaries)
         /\ Len(Contract!GroupPackets(frames, keyed)) = GroupLength(frames)
         /\ \A i \in 1..GroupLength(frames) :
              Contract!GroupPackets(frames, keyed)[i] = Planned(frames, keyed, i)
<1> DEFINE n == Len(frames)
           visible == [i \in 1..n |-> VisiblePacket(frames, keyed, i)]
           keys == IF keyed THEN 1 ELSE 0
           first == SubSeq(visible, 1, keys)
           rest == SubSeq(visible, keys + 1, n)
           anchor == <<AnchorPacket(frames)>>
           packets == Contract!GroupPackets(frames, keyed)
<1>1. n \in Nat \ {0} /\ keys \in {0, 1} /\ \A i \in 1..n : frames[i] \in Nat
  BY EmptySeq, LenProperties, ElementOfSeq
<1>2. packets = IF n < 2 THEN visible ELSE (first \o anchor) \o rest
  BY DEF Contract!GroupPackets, VisiblePacket, AnchorPacket
<1> HIDE DEF packets
<1>3. /\ \A i \in 1..n : VisiblePacket(frames, keyed, i) \in Summaries
      /\ AnchorPacket(frames) \in Summaries
  BY <1>1 DEF VisiblePacket, AnchorPacket, Summaries, Kinds
<1>4. visible \in [1..n -> Summaries] /\ \A i \in 1..n : visible[i] = VisiblePacket(frames, keyed, i)
  BY <1>3
<1> HIDE DEF visible
<1>5. visible \in Seq(Summaries) /\ Len(visible) = n
  BY <1>1, <1>4, SeqDef, LenProperties
<1>6. CASE n < 2
  BY <1>1, <1>2, <1>4, <1>5, <1>6 DEF GroupLength, Planned, packets
<1>7. CASE n >= 2
  <2>1. /\ first \in Seq(Summaries) /\ Len(first) = keys
        /\ \A i \in 1..keys : first[i] = VisiblePacket(frames, keyed, i)
    BY <1>1, <1>4, <1>7, SubSeqProperties, SMTT(30)
  <2>2. /\ rest \in Seq(Summaries) /\ Len(rest) = n - keys
        /\ \A i \in 1..n - keys : rest[i] = VisiblePacket(frames, keyed, keys + i)
    <3>1. /\ rest \in Seq(Summaries) /\ Len(rest) = IF keys + 1 <= n THEN n - (keys + 1) + 1 ELSE 0
          /\ \A i \in 1..n - (keys + 1) + 1 : rest[i] = visible[keys + 1 + i - 1]
      <4>1. \A i \in keys + 1..n : visible[i] \in Summaries
        BY <1>1, <1>4
      <4> HIDE DEF n, keys
      <4> QED BY <1>1, <4>1, SubSeqProperties
    <3> HIDE DEF rest, n
    <3> QED BY <1>1, <1>4, <1>7, <3>1
  <2>3. anchor \in Seq(Summaries) /\ Len(anchor) = 1 /\ anchor[1] = AnchorPacket(frames)
    BY <1>3
  <2> HIDE DEF first, rest, anchor, n
  <2> DEFINE head == first \o anchor
  <2>4. /\ head \in Seq(Summaries) /\ Len(head) = keys + 1
        /\ \A i \in 1..keys + 1 : head[i] = IF i <= keys THEN VisiblePacket(frames, keyed, i) ELSE AnchorPacket(frames)
    <3>1. /\ head \in Seq(Summaries) /\ Len(head) = Len(first) + Len(anchor)
          /\ \A i \in 1..Len(first) + Len(anchor) : head[i] = IF i <= Len(first) THEN first[i] ELSE anchor[i - Len(first)]
      BY <2>1, <2>3, ConcatProperties
    <3> HIDE DEF keys, head
    <3> QED BY <1>1, <2>1, <2>3, <3>1
  <2> HIDE DEF head
  <2>5. /\ packets \in Seq(Summaries) /\ Len(packets) = n + 1
        /\ \A i \in 1..n + 1 : packets[i] = IF i <= keys + 1 THEN head[i] ELSE rest[i - (keys + 1)]
    <3>1. packets = head \o rest
      BY <1>1, <1>2, <1>7 DEF head
    <3>2. /\ packets \in Seq(Summaries) /\ Len(packets) = Len(head) + Len(rest)
          /\ \A i \in 1..Len(head) + Len(rest) : packets[i] = IF i <= Len(head) THEN head[i] ELSE rest[i - Len(head)]
      BY <2>2, <2>4, <3>1, ConcatProperties
    <3> HIDE DEF keys
    <3> QED BY <1>1, <2>2, <2>4, <3>2
  <2>6. ASSUME NEW i \in 1..n + 1 PROVE packets[i] = Planned(frames, keyed, i)
    <3> HIDE DEF keys
    <3>1. CASE i <= keys
      <4>1. packets[i] = VisiblePacket(frames, keyed, i)
        BY <1>1, <1>7, <2>4, <2>5, <3>1
      <4> QED BY <1>1, <1>7, <3>1, <4>1 DEF Planned, n, keys
    <3>2. CASE i = keys + 1
      <4>1. packets[i] = AnchorPacket(frames)
        BY <1>1, <1>7, <2>4, <2>5, <3>2
      <4> QED BY <1>1, <1>7, <3>2, <4>1 DEF Planned, n, keys
    <3>3. CASE i > keys + 1
      <4> DEFINE j == i - (keys + 1)
      <4>1. j \in 1..n - keys /\ keys + j = i - 1
        BY <1>1, <3>3
      <4>2. packets[i] = rest[j] /\ rest[j] = VisiblePacket(frames, keyed, keys + j)
        BY <1>1, <2>2, <2>5, <3>3, <4>1
      <4>3. packets[i] = VisiblePacket(frames, keyed, i - 1)
        BY <4>1, <4>2
      <4> QED BY <1>1, <1>7, <3>3, <4>3 DEF Planned, n, keys
    <3> QED BY <1>1, <3>1, <3>2, <3>3
  <2> QED BY <1>1, <1>7, <2>5, <2>6 DEF GroupLength, n, packets
<1> QED BY <1>1, <1>6, <1>7

(* Where a call stands with its group: the packets it has coded are the    *)
(* first of those the group gets, and the window says which call site      *)
(* opened the flush.                                                       *)
Keyed == pc = "key" \/ (out # <<>> /\ out[1].kind = "key")

SummaryOf(p) == [kind |-> p.kind, index |-> p.index]
OutputsPlanned == \A i \in 1..Len(out) : SummaryOf(out[i]) = Planned(group, Keyed, i)

Anchors == IF anchored THEN 1 ELSE 0
Keys == IF Keyed THEN 1 ELSE 0

(* The window: what the call site of a flush says about its group.         *)
Window ==
  /\ Len(pending) < AltrefWindow
  /\ pc = "idle" <=> caller = "none"
  /\ pc # "idle" => caller \in {"before", "full", "finish"}
  /\ caller \in {"before", "finish"} => Len(group) < AltrefWindow
  /\ caller = "full" => Len(group) = AltrefWindow /\ group[Len(group)] = input_count - 1

(* The plan: what is coded of the group, in which order.                   *)
Plan ==
  /\ anchored \in BOOLEAN
  /\ pc # "idle"  => (group[1] = 0 => Keyed) /\ OutputsPlanned
  /\ Len(out) = done + Anchors
  /\ pc = "key"    => ~anchored
  /\ pc = "anchor" => Len(group) >= 2 /\ ~anchored /\ done = Keys
  /\ pc = "inter"  => (anchored <=> Len(group) >= 2) /\ done >= Keys
  /\ pc = "done"   => (anchored <=> Len(group) >= 2) /\ done = Len(group)

Progress == Window /\ Plan

-----------------------------------------------------------------------------
(* Opening a flush and returning from one keep window and plan.            *)
LEMMA TakeStartsPlan ==
  ASSUME NEW frames \in Seq(Nat), frames # <<>>, NEW start \in Nat, NEW forced \in BOOLEAN,
         NEW site \in {"before", "full", "finish"}, frames[1] = start,
         out = <<>>, Take(frames, start, forced, site), out' = out,
         IF site = "full" THEN Len(frames) = AltrefWindow /\ frames[Len(frames)] = input_count' - 1
                          ELSE Len(frames) < AltrefWindow
  PROVE  Progress'
<1>1. /\ group' = frames /\ done' = 0 /\ ~anchored' /\ anchored' = FALSE /\ caller' = site /\ pending' = <<>>
      /\ out' = <<>> /\ Len(out') = 0 /\ Len(pending') = 0
  BY EmptySeq DEF Take
<1>2. /\ pc' \in {"key", "anchor", "inter"} /\ pc' # "done" /\ pc' # "idle"
      /\ pc' # "key" => ~KeyDue(start, forced)
      /\ pc' = "anchor" => Len(frames) >= 2
      /\ pc' = "inter" => ~(Len(frames) >= 2)
  BY DEF Take
<1>3. group'[1] = 0 => Keyed'
  BY <1>1, <1>2 DEF Keyed, KeyDue, IsKeyIndex
<1>4. pc' # "key" => ~Keyed'
  BY <1>1 DEF Keyed
<1>5. OutputsPlanned'
  BY <1>1 DEF OutputsPlanned
<1>6. Len(pending') < AltrefWindow
  BY <1>1, AltrefAssumption
<1>7. anchored' \in BOOLEAN
  BY <1>1
<1>8. Len(out') = done' + Anchors'
  BY <1>1 DEF Anchors
<1>9. pc' = "anchor" => Len(group') >= 2 /\ ~anchored' /\ done' = Keys'
  BY <1>1, <1>2, <1>4 DEF Keys
<1>10. pc' = "inter" => (anchored' <=> Len(group') >= 2) /\ done' >= Keys'
  BY <1>1, <1>2, <1>4 DEF Keys
<1>11. Plan'
  BY <1>1, <1>2, <1>3, <1>5, <1>7, <1>8, <1>9, <1>10 DEF Plan
<1>12. caller' # "none" /\ (caller' \in {"before", "finish"} => Len(group') < AltrefWindow)
  BY <1>1
<1>13. caller' = "full" => Len(group') = AltrefWindow /\ group'[Len(group')] = input_count' - 1
  BY <1>1
<1> QED BY <1>1, <1>2, <1>6, <1>11, <1>12, <1>13 DEF Progress, Window

LEMMA IdleProgress ==
  ASSUME pc' = "idle", caller' = "none", out' = <<>>, done' = 0, anchored' = FALSE,
         Len(pending') < AltrefWindow
  PROVE  Progress'
<1>1. Len(out') = 0
  BY EmptySeq
<1>2. Len(out') = done' + Anchors'
  BY <1>1 DEF Anchors
<1>3. anchored' \in BOOLEAN
  OBVIOUS
<1>4. Plan'
  BY <1>2, <1>3 DEF Plan
<1>5. Window'
  BY DEF Window
<1> QED BY <1>4, <1>5 DEF Progress

(* The arriving frame fills its group, or leaves it short of the window.   *)
LEMMA AcceptKeepsProgress ==
  ASSUME TypeOK, Scenes, Len(pending) < AltrefWindow, NEW cut \in BOOLEAN, Accept(cut),
         out = <<>> \/ Len(pending) + 1 < AltrefWindow
  PROVE  /\ Progress'
         /\ pc' = "idle" => Len(pending) + 1 < AltrefWindow
         /\ pc' # "idle" => Len(pending) + 1 = AltrefWindow
<1> DEFINE frames == Append(pending, input_count)
           forced == IF pending = <<>> THEN cut ELSE pending_forced_key
<1>1. /\ frames \in Seq(Nat) /\ Len(frames) = Len(pending) + 1 /\ frames[Len(frames)] = input_count
      /\ frames # <<>> /\ Len(pending) \in Nat /\ AltrefWindow \in Nat
  <2>1. pending \in Seq(Nat) /\ input_count \in Nat /\ AltrefWindow \in Nat /\ Len(pending) \in Nat
    BY LenProperties, AltrefAssumption DEF TypeOK
  <2> QED BY <2>1, AppendProperties
<1>2. GroupStart \in Nat /\ forced \in BOOLEAN /\ input_count' = input_count + 1 /\ input_count \in Nat
  BY DEF GroupStart, TypeOK, Accept
<1>3. frames[1] = GroupStart
  <2>1. CASE pending = <<>>
    BY <1>1, <2>1, EmptySeq, AppendProperties DEF GroupStart
  <2>2. CASE pending # <<>>
    <3>1. 1 \in 1..Len(pending)
      BY <1>1, <2>2, EmptySeq DEF TypeOK
    <3>2. pending[1] = pending_start
      BY <3>1 DEF Scenes, OneScene, TypeOK
    <3> QED BY <2>2, <3>1, <3>2, AppendProperties DEF GroupStart, TypeOK
  <2> QED BY <2>1, <2>2
<1>4. CASE WindowFull(frames) /\ Take(frames, GroupStart, forced, "full") /\ UNCHANGED out
  <2> HIDE DEF frames, forced
  <2>1. Len(frames) = AltrefWindow /\ Len(pending) + 1 = AltrefWindow /\ out = <<>>
    BY <1>1, <1>4 DEF WindowFull
  <2>2. Progress'
    BY <1>1, <1>2, <1>3, <1>4, <2>1, TakeStartsPlan
  <2>3. pc' # "idle"
    BY <1>4 DEF Take
  <2> QED BY <2>1, <2>2, <2>3
<1>5. CASE ~WindowFull(frames) /\ pending' = frames /\ Return(out)
  <2>1. Len(pending') < AltrefWindow /\ Len(pending) + 1 < AltrefWindow
    BY <1>1, <1>5 DEF WindowFull
  <2>2. pc' = "idle"
    BY <1>5 DEF Return
  <2> QED BY <1>5, <2>1, <2>2, IdleProgress DEF Return
<1> QED BY <1>4, <1>5 DEF Accept

LEMMA AppendAnything ==
  ASSUME NEW S, NEW s \in Seq(S), NEW e
  PROVE  /\ Append(s, e) # <<>> /\ Len(Append(s, e)) = Len(s) + 1 /\ Len(s) \in Nat
         /\ \A i \in 1..Len(s) : Append(s, e)[i] = s[i]
         /\ Append(s, e)[Len(s) + 1] = e
<1>1. Len(s) \in Nat /\ s \in [1..Len(s) -> S \cup {e}]
  BY LenProperties
<1>2. s \in Seq(S \cup {e})
  BY <1>1, SeqDef
<1> QED BY <1>1, <1>2, AppendProperties

(* A coded frame is the next packet of its group.                          *)
LEMMA PushKeepsPlan ==
  ASSUME Inv, Progress, pc # "idle", NEW p, Push(p),
         SummaryOf(p) = Planned(group, Keyed, Len(out) + 1),
         pc' # "idle", pc' # "key", Keyed' = Keyed
  PROVE  /\ Len(out') = Len(out) + 1 /\ group' = group /\ caller' = caller
         /\ group'[1] = 0 => Keyed'
         /\ OutputsPlanned'
<1>1. /\ Len(out') = Len(out) + 1 /\ Len(out) \in Nat /\ out'[Len(out) + 1] = p
      /\ \A i \in 1..Len(out) : out'[i] = out[i]
  BY AppendAnything DEF Push, Inv, TypeOK
<1>2. group' = group /\ caller' = caller
  BY DEF Push
<1>3. ASSUME NEW i \in 1..Len(out') PROVE SummaryOf(out'[i]) = Planned(group, Keyed, i)
  <2>1. CASE i = Len(out) + 1
    BY <1>1, <2>1
  <2>2. CASE i # Len(out) + 1
    <3>1. i \in 1..Len(out) /\ out'[i] = out[i]
      BY <1>1, <2>2
    <3> QED BY <3>1 DEF Progress, Plan, OutputsPlanned
  <2> QED BY <2>1, <2>2
<1> QED BY <1>1, <1>2, <1>3 DEF Progress, Plan, OutputsPlanned

(* The first packet decides whether the group is keyed.                    *)
LEMMA PushKeepsKeyed ==
  ASSUME Inv, NEW p, Push(p), pc' # "key",
         out = <<>> => (p.kind = "key" <=> pc = "key"), out # <<>> => pc # "key"
  PROVE  Keyed' = Keyed
<1>1. /\ Len(out') = Len(out) + 1 /\ Len(out) \in Nat /\ out'[Len(out) + 1] = p
      /\ \A i \in 1..Len(out) : out'[i] = out[i]
      /\ out' # <<>> /\ (out = <<>> => Len(out) = 0) /\ (out # <<>> => 1 \in 1..Len(out))
  <2>1. out \in Seq(Outputs) /\ Len(out) \in Nat /\ out' = Append(out, p)
    BY LenProperties DEF Push, Inv, TypeOK
  <2>2. (out = <<>> => Len(out) = 0) /\ (out # <<>> => Len(out) > 0)
    BY <2>1, EmptySeq
  <2> QED BY <2>1, <2>2, AppendAnything
<1>2. CASE out = <<>>
  BY <1>1, <1>2 DEF Keyed
<1>3. CASE out # <<>>
  BY <1>1, <1>3 DEF Keyed
<1> QED BY <1>2, <1>3

LEMMA PushKeepsWindow ==
  ASSUME Window, pc # "idle", pc' # "idle", NEW p, Push(p)
  PROVE  Window'
BY DEF Window, Push, buffer

(* The plan at the points where each kind of frame is coded.               *)
LEMMA PlanPoints ==
  ASSUME NEW frames, NEW keyed \in BOOLEAN, NEW n \in Nat, n = Len(frames), NEW i \in Nat
  PROVE  /\ keyed => Planned(frames, keyed, 1) = [kind |-> "key", index |-> frames[1]]
         /\ n < 2 /\ ~keyed => Planned(frames, keyed, 1) = [kind |-> "inter", index |-> frames[1]]
         /\ n >= 2 /\ i = (IF keyed THEN 1 ELSE 0) =>
              Planned(frames, keyed, i + 1) = [kind |-> "anchor", index |-> frames[n]]
         /\ n >= 2 /\ i >= (IF keyed THEN 1 ELSE 0) =>
              Planned(frames, keyed, i + 2) = [kind |-> "inter", index |-> frames[i + 1]]
<1>1. keyed => Planned(frames, keyed, 1) = [kind |-> "key", index |-> frames[1]]
  BY DEF Planned, VisiblePacket
<1>2. n < 2 /\ ~keyed => Planned(frames, keyed, 1) = [kind |-> "inter", index |-> frames[1]]
  BY DEF Planned, VisiblePacket
<1>3. n >= 2 /\ i = (IF keyed THEN 1 ELSE 0) =>
              Planned(frames, keyed, i + 1) = [kind |-> "anchor", index |-> frames[n]]
  BY DEF Planned, AnchorPacket
<1>4. n >= 2 /\ i >= (IF keyed THEN 1 ELSE 0) =>
              Planned(frames, keyed, i + 2) = [kind |-> "inter", index |-> frames[i + 1]]
  <2>1. CASE keyed
    BY <2>1 DEF Planned, VisiblePacket
  <2>2. CASE ~keyed
    BY <2>2 DEF Planned, VisiblePacket
  <2> QED BY <2>1, <2>2
<1> QED BY <1>1, <1>2, <1>3, <1>4

-----------------------------------------------------------------------------
(* Each frame coded is the one the plan has next.                          *)
LEMMA KeyKeepsProgress ==
  ASSUME Inv, Progress, NEW t \in Tokens, EncodeKey(t)
  PROVE  Progress'
<1> DEFINE p == Output("key", NextIndex, CodedKey(Visible(NextFrame), Carried, t))
<1>1. /\ pc = "key" /\ Push(p) /\ done' = 1 /\ anchored' = anchored
      /\ pc' = IF Len(group) >= 2 THEN "anchor" ELSE "done"
  BY DEF EncodeKey
<1>2. p.kind = "key" /\ p.index = NextIndex /\ SummaryOf(p) = [kind |-> "key", index |-> NextIndex]
  BY DEF Output, SummaryOf
<1> HIDE DEF p
<1>3. /\ done = 0 /\ Len(group) \in Nat \ {0} /\ NextIndex = group[1] /\ ~anchored /\ Len(out) = 0 /\ out = <<>>
  <2>1. done = 0 /\ Len(group) \in Nat \ {0} /\ NextIndex = group[1]
    BY <1>1, GroupFrames DEF Inv, Flushing, NextIndex
  <2>2. ~anchored /\ Len(out) = 0
    BY <1>1, <2>1 DEF Progress, Plan, Anchors
  <2> QED BY <2>1, <2>2, EmptySeq DEF Inv, TypeOK
<1>4. Keyed /\ Keyed'
  <2>1. pc' # "key"
    BY <1>1
  <2> QED BY <1>1, <1>2, <1>3, <2>1, PushKeepsKeyed DEF Keyed
<1>5. SummaryOf(p) = Planned(group, Keyed, Len(out) + 1)
  <2>1. Keyed \in BOOLEAN
    BY DEF Keyed
  <2>2. Planned(group, Keyed, 1) = [kind |-> "key", index |-> group[1]]
    BY <1>3, <1>4, <2>1, PlanPoints
  <2> QED BY <1>2, <1>3, <2>2
<1>6. /\ Len(out') = Len(out) + 1 /\ group' = group /\ caller' = caller
      /\ group'[1] = 0 => Keyed'
      /\ OutputsPlanned'
  <2>1. pc # "idle" /\ pc' # "idle" /\ pc' # "key"
    BY <1>1
  <2>2. Keyed' = Keyed
    BY <1>4 DEF Keyed
  <2> QED BY <1>1, <1>5, <2>1, <2>2, PushKeepsPlan
<1>7. Len(out') = done' + Anchors'
  BY <1>1, <1>3, <1>6 DEF Anchors
<1>8. anchored' \in BOOLEAN /\ ~anchored'
  BY <1>1, <1>3 DEF Progress, Plan
<1>9. /\ pc' = "anchor" => Len(group') >= 2 /\ done' = Keys'
      /\ pc' = "done"   => ~(Len(group') >= 2) /\ done' = Len(group')
      /\ pc' # "inter"
  BY <1>1, <1>3, <1>4, <1>6 DEF Keys
<1>10. Plan'
  BY <1>1, <1>6, <1>7, <1>8, <1>9 DEF Plan
<1>11. Window'
  BY <1>1, PushKeepsWindow DEF Progress
<1> QED BY <1>10, <1>11 DEF Progress

LEMMA AnchorKeepsProgress ==
  ASSUME Inv, Progress, NEW t \in Tokens, EncodeAnchor(t)
  PROVE  Progress'
<1> DEFINE picture == Anchor(group[Len(group)])
           p == Output("anchor", picture.index,
                       CodedInter(picture, Carried, FALSE, AnchorRefresh, LoopFilterDeltasOff, t))
<1>1. pc = "anchor" /\ Push(p) /\ done' = done /\ anchored' = TRUE /\ pc' = "inter"
  BY DEF EncodeAnchor
<1>2. p.kind = "anchor" /\ SummaryOf(p) = [kind |-> "anchor", index |-> group[Len(group)]]
  BY DEF Output, SummaryOf, Anchor
<1> HIDE DEF p
<1>3. /\ done = Keys /\ done \in Nat /\ Len(group) \in Nat /\ Len(group) >= 2 /\ ~anchored /\ Len(out) = done
  <2>1. done \in Nat /\ Len(group) \in Nat
    BY <1>1, GroupFrames
  <2> QED BY <1>1, <2>1 DEF Progress, Plan, Anchors
<1>4. Keyed' = Keyed
  BY <1>1, <1>2, PushKeepsKeyed
<1>5. SummaryOf(p) = Planned(group, Keyed, Len(out) + 1)
  <2>1. Keyed \in BOOLEAN /\ done = (IF Keyed THEN 1 ELSE 0)
    BY <1>3 DEF Keyed, Keys
  <2>2. Planned(group, Keyed, done + 1) = [kind |-> "anchor", index |-> group[Len(group)]]
    BY <1>3, <2>1, PlanPoints, ZenonT(40)
  <2> QED BY <1>2, <1>3, <2>2
<1>6. /\ Len(out') = Len(out) + 1 /\ group' = group /\ caller' = caller
      /\ group'[1] = 0 => Keyed'
      /\ OutputsPlanned'
  <2>1. pc # "idle" /\ pc' # "idle" /\ pc' # "key"
    BY <1>1
  <2> QED BY <1>1, <1>4, <1>5, <2>1, PushKeepsPlan
<1>7. Len(out') = done' + Anchors'
  BY <1>1, <1>3, <1>6 DEF Anchors
<1>8. anchored' \in BOOLEAN /\ anchored'
  BY <1>1
<1>9. Len(group') >= 2 /\ done' >= Keys'
  BY <1>1, <1>3, <1>4, <1>6 DEF Keys
<1>10. Plan'
  BY <1>1, <1>6, <1>7, <1>8, <1>9 DEF Plan
<1>11. Window'
  BY <1>1, PushKeepsWindow DEF Progress
<1> QED BY <1>10, <1>11 DEF Progress

LEMMA InterKeepsProgress ==
  ASSUME Inv, Progress, NEW t \in Tokens, EncodeInter(t)
  PROVE  Progress'
<1> DEFINE p == Output("inter", NextIndex,
                       CodedInter(Visible(NextFrame), Carried, TRUE, IF Promotes THEN PromotionRefresh ELSE RefreshLastOnly,
                                  LoopFilterDeltasOff, t))
<1>1. /\ pc = "inter" /\ Push(p) /\ done' = done + 1 /\ anchored' = anchored
      /\ pc' = IF done + 1 = Len(group) THEN "done" ELSE "inter"
  BY DEF EncodeInter
<1>2. p.kind = "inter" /\ SummaryOf(p) = [kind |-> "inter", index |-> NextIndex]
  BY DEF Output, SummaryOf
<1> HIDE DEF p
<1>3. /\ done \in Nat /\ Len(group) \in Nat \ {0} /\ done < Len(group) /\ NextIndex = group[done + 1]
      /\ done >= Keys /\ (anchored <=> Len(group) >= 2) /\ Len(out) = done + Anchors
  BY <1>1, GroupFrames DEF NextIndex, Progress, Plan
<1>4. Keyed' = Keyed
  <2>1. pc' # "key"
    BY <1>1
  <2> QED BY <1>1, <1>2, <2>1, PushKeepsKeyed
<1>5. SummaryOf(p) = Planned(group, Keyed, Len(out) + 1)
  <2>1. Keyed \in BOOLEAN /\ done >= (IF Keyed THEN 1 ELSE 0)
    BY <1>3 DEF Keyed, Keys
  <2>2. CASE Len(group) >= 2
    <3>1. Len(out) + 1 = done + 2
      BY <1>3, <2>2 DEF Anchors
    <3>2. Planned(group, Keyed, done + 2) = [kind |-> "inter", index |-> group[done + 1]]
      BY <1>3, <2>1, <2>2, PlanPoints
    <3> QED BY <1>2, <1>3, <3>1, <3>2
  <2>3. CASE ~(Len(group) >= 2)
    <3>1. done = 0 /\ Len(out) = 0 /\ Len(group) < 2
      BY <1>3, <2>3 DEF Anchors
    <3>2. ~Keyed
      <4>1. out = <<>>
        BY <3>1, EmptySeq DEF Inv, TypeOK
      <4> QED BY <1>1, <4>1 DEF Keyed
    <3>3. Planned(group, Keyed, 1) = [kind |-> "inter", index |-> group[1]]
      BY <1>3, <2>1, <3>1, <3>2, PlanPoints
    <3> QED BY <1>2, <1>3, <3>1, <3>3
  <2> QED BY <2>2, <2>3
<1>6. /\ Len(out') = Len(out) + 1 /\ group' = group /\ caller' = caller
      /\ group'[1] = 0 => Keyed'
      /\ OutputsPlanned'
  <2>1. pc # "idle" /\ pc' # "idle" /\ pc' # "key"
    BY <1>1
  <2> QED BY <1>1, <1>4, <1>5, <2>1, PushKeepsPlan
<1>7. Len(out') = done' + Anchors'
  BY <1>1, <1>3, <1>6 DEF Anchors
<1>8. anchored' \in BOOLEAN /\ (anchored' <=> Len(group') >= 2)
  BY <1>1, <1>3, <1>6 DEF Progress, Plan
<1>9. done' >= Keys' /\ (pc' = "done" => done' = Len(group'))
  <2>1. Keys' = Keys
    BY <1>4 DEF Keys
  <2> QED BY <1>1, <1>3, <1>6, <2>1 DEF Keys
<1>10. Plan'
  BY <1>1, <1>6, <1>7, <1>8, <1>9 DEF Plan
<1>11. Window'
  BY <1>1, PushKeepsWindow DEF Progress
<1> QED BY <1>10, <1>11 DEF Progress

-----------------------------------------------------------------------------
LEMMA NoSummary == Summary(<<>>) = <<>>
<1>1. <<>> \in Seq(Outputs) /\ Len(<<>>) = 0
  BY EmptySeq
<1> QED BY <1>1, SummaryType, EmptySeq

LEMMA ReturnShips ==
  ASSUME NEW packets, Return(packets)
  PROVE  shipped' = shipped \o Summary(packets)
BY DEF Return, Summary

LEMMA BatchIsGroup ==
  ASSUME Inv, Progress, pc = "done"
  PROVE  Summary(out) \in Contract!Groups(group) /\ group # <<>> /\ group \in Seq(Nat)
<1>1. group # <<>> /\ group \in Seq(Nat) /\ out \in Seq(Outputs) /\ Len(group) \in Nat /\ Keyed \in BOOLEAN
  BY LenProperties DEF Inv, TypeOK, Flushing, Keyed
<1>2. Len(out) = GroupLength(group)
  BY <1>1 DEF Progress, Plan, Anchors, GroupLength
<1> DEFINE packets == Contract!GroupPackets(group, Keyed)
<1>3. /\ packets \in Seq(Summaries) /\ Len(packets) = GroupLength(group)
      /\ \A i \in 1..GroupLength(group) : packets[i] = Planned(group, Keyed, i)
  BY <1>1, GroupAsPlanned
<1>4. /\ Summary(out) \in Seq(Summaries) /\ Len(Summary(out)) = Len(out)
      /\ \A i \in 1..Len(out) : Summary(out)[i] = SummaryOf(out[i])
  BY <1>1, SummaryType DEF SummaryOf
<1>5. \A i \in 1..Len(out) : SummaryOf(out[i]) = Planned(group, Keyed, i)
  BY DEF Progress, Plan, OutputsPlanned
<1> HIDE DEF packets
<1>6. Summary(out) = packets
  BY <1>2, <1>3, <1>4, <1>5, SeqEqual
<1>7. Keyed \in { k \in BOOLEAN : group[1] = 0 => k }
  BY <1>1 DEF Progress, Plan
<1> QED BY <1>1, <1>6, <1>7 DEF Contract!Groups, packets

LEMMA AppendThenDrop ==
  ASSUME NEW frames \in Seq(Nat), NEW i \in Nat
  PROVE  SubSeq(Append(frames, i), 1, Len(Append(frames, i)) - 1) = frames
<1> DEFINE s == Append(frames, i)
<1>1. /\ s \in Seq(Nat) /\ Len(s) = Len(frames) + 1 /\ Len(frames) \in Nat
      /\ \A k \in 1..Len(frames) : s[k] = frames[k] /\ frames[k] \in Nat
  BY AppendProperties, LenProperties, ElementOfSeq
<1> HIDE DEF s
<1> DEFINE t == SubSeq(s, 1, Len(frames))
<1>2. t \in Seq(Nat) /\ Len(t) = Len(frames) /\ \A k \in 1..Len(frames) : t[k] = s[k]
  BY <1>1, SubSeqProperties
<1> HIDE DEF t
<1>3. t = frames
  BY <1>1, <1>2, SeqEqual
<1>4. Len(s) - 1 = Len(frames)
  BY <1>1
<1> QED BY <1>3, <1>4 DEF s, t

LEMMA DropThenAppend ==
  ASSUME NEW frames \in Seq(Nat), frames # <<>>
  PROVE  Append(SubSeq(frames, 1, Len(frames) - 1), frames[Len(frames)]) = frames
<1> DEFINE n == Len(frames)
           s == SubSeq(frames, 1, n - 1)
<1>1. n \in Nat \ {0} /\ \A k \in 1..n : frames[k] \in Nat
  BY LenProperties, EmptySeq, ElementOfSeq
<1>2. s \in Seq(Nat) /\ Len(s) = n - 1 /\ \A k \in 1..n - 1 : s[k] = frames[k]
  <2> HIDE DEF n
  <2>1. /\ s \in Seq(Nat) /\ Len(s) = IF 1 <= n - 1 THEN n - 1 - 1 + 1 ELSE 0
        /\ \A k \in 1..n - 1 - 1 + 1 : s[k] = frames[1 + k - 1]
    BY <1>1, SubSeqProperties
  <2> HIDE DEF s
  <2> QED BY <1>1, <2>1
<1> HIDE DEF s
<1> DEFINE t == Append(s, frames[n])
<1>3. t \in Seq(Nat) /\ Len(t) = n /\ \A k \in 1..n : t[k] = frames[k]
  <2>1. /\ t \in Seq(Nat) /\ Len(t) = Len(s) + 1 /\ t[Len(s) + 1] = frames[n]
        /\ \A k \in 1..Len(s) : t[k] = s[k]
    BY <1>1, <1>2, AppendProperties
  <2>2. Len(s) + 1 = n /\ \A k \in 1..n : k \in 1..Len(s) \/ k = n
    BY <1>1, <1>2
  <2> HIDE DEF t, n
  <2> QED BY <1>1, <1>2, <2>1, <2>2
<1> HIDE DEF t
<1>4. t = frames
  BY <1>3, SeqEqual
<1> QED BY <1>4 DEF s, t, n

-----------------------------------------------------------------------------
(* The abstract state at each call site.                                   *)
LEMMA AbstractState ==
  /\ caller = "none" => CountedFrames = input_count /\ BufferedFrames = pending
  /\ caller \in {"before", "finish"} => CountedFrames = input_count /\ BufferedFrames = group
  /\ caller = "full" => /\ CountedFrames = input_count - 1
                        /\ BufferedFrames = SubSeq(group, 1, Len(group) - 1)
BY DEF CountedFrames, BufferedFrames

LEMMA AbstractStateAfter ==
  /\ caller' = "none" => CountedFrames' = input_count' /\ BufferedFrames' = pending'
  /\ caller' \in {"before", "finish"} => CountedFrames' = input_count' /\ BufferedFrames' = group'
  /\ caller' = "full" => /\ CountedFrames' = input_count' - 1
                         /\ BufferedFrames' = SubSeq(group', 1, Len(group') - 1)
BY DEF CountedFrames, BufferedFrames

AbstractStep == [Contract!Next]_(Contract!stream)

LEMMA SameAbstractState ==
  ASSUME CountedFrames' = CountedFrames, BufferedFrames' = BufferedFrames, shipped' = shipped
  PROVE  AbstractStep
BY DEF AbstractStep, Contract!stream

LEMMA FlushOpens ==
  ASSUME caller = "none", NEW start, NEW forced, NEW site \in {"before", "finish"},
         Take(pending, start, forced, site), UNCHANGED <<input_count, shipped>>
  PROVE  AbstractStep
<1>1. caller' = site /\ group' = pending
  BY DEF Take
<1> QED BY <1>1, AbstractState, AbstractStateAfter, SameAbstractState

LEMMA FrameArrives ==
  ASSUME Inv, Progress, pc = "idle", NEW cut \in BOOLEAN, Accept(cut)
  PROVE  Progress' /\ AbstractStep
<1> DEFINE frames == Append(pending, input_count)
           forced == IF pending = <<>> THEN cut ELSE pending_forced_key
<1>1. /\ pending \in Seq(Nat) /\ input_count \in Nat /\ Len(pending) < AltrefWindow /\ out = <<>>
      /\ caller = "none" /\ input_count' = input_count + 1
  BY DEF Inv, TypeOK, Flushing, Progress, Window, Accept
<1>2. Len(frames) = Len(pending) + 1
  BY <1>1, AppendProperties
<1>3. CountedFrames = input_count /\ BufferedFrames = pending /\ Contract!Arrived = frames
  BY <1>1, AbstractState DEF Contract!Arrived
<1>4. Progress'
  BY <1>1, AcceptKeepsProgress DEF Inv
<1>5. CASE WindowFull(frames) /\ Take(frames, GroupStart, forced, "full") /\ UNCHANGED <<out, shipped, wire>>
  <2>1. caller' = "full" /\ group' = frames /\ shipped' = shipped
    BY <1>5 DEF Take
  <2>2. BufferedFrames' = pending
    BY <1>1, <2>1, AbstractStateAfter, AppendThenDrop
  <2>3. CountedFrames' = input_count
    BY <1>1, <2>1, AbstractStateAfter
  <2> QED BY <1>3, <1>4, <2>1, <2>2, <2>3, SameAbstractState
<1>6. CASE ~WindowFull(frames) /\ pending' = frames /\ Return(out)
  <2>1. caller' = "none" /\ shipped' = shipped \o <<>>
    BY <1>1, <1>6, ReturnShips, NoSummary DEF Return
  <2>2. CountedFrames' = input_count + 1 /\ BufferedFrames' = frames
    BY <1>1, <1>6, <2>1, AbstractStateAfter
  <2>3. Len(frames) < AltrefWindow
    BY <1>1, <1>2, <1>6, LenProperties, AltrefAssumption DEF WindowFull
  <2> HIDE DEF frames
  <2>4. Contract!Push(<<>>)
    BY <1>3, <2>1, <2>2, <2>3 DEF Contract!Push
  <2>5. Contract!Next
    BY <2>4 DEF Contract!Next, Contract!PushBatches
  <2> QED BY <1>4, <2>5 DEF AbstractStep
<1> QED BY <1>5, <1>6 DEF Accept

LEMMA FlushEnds ==
  ASSUME Inv, Progress, EndFlush
  PROVE  Progress' /\ AbstractStep
<1> DEFINE batch == Summary(out)
<1>1. /\ pc = "done" /\ caller \in {"before", "full", "finish"} /\ pending = <<>>
      /\ group # <<>> /\ group \in Seq(Nat) /\ batch \in Contract!Groups(group) /\ input_count \in Nat
  BY BatchIsGroup DEF EndFlush, Progress, Window, Inv, Flushing, TypeOK
<1>2. Len(group) \in Nat \ {0} /\ Len(pending) = 0 /\ AltrefWindow \in Nat \ {0}
  BY <1>1, EmptySeq, AltrefAssumption
<1> HIDE DEF batch
<1>3. CASE caller = "before"
  <2>1. Len(group) < AltrefWindow /\ CountedFrames = input_count /\ BufferedFrames = group
    BY <1>3, AbstractState DEF Progress, Window
  <2>2. AltrefWindow > 1
    BY <1>2, <2>1
  <2>3. Accept(arriving) /\ arriving \in BOOLEAN
    BY <1>3 DEF EndFlush, Inv, TypeOK
  <2>4. Progress' /\ pc' = "idle"
    <3>1. Len(pending) < AltrefWindow /\ Len(pending) + 1 < AltrefWindow
      BY <1>2, <2>2
    <3> QED BY <2>3, <3>1, AcceptKeepsProgress DEF Inv
  <2>5. pending' = Append(pending, input_count) /\ input_count' = input_count + 1 /\ Return(out)
    BY <2>3, <2>4 DEF Accept, Take
  <2>6. pending' = <<input_count>> /\ caller' = "none" /\ shipped' = shipped \o batch
    <3>1. pending' = Append(<<>>, input_count)
      BY <1>1, <2>5
    <3>2. shipped' = shipped \o batch /\ caller' = "none"
      BY <2>5, ReturnShips DEF Return, batch
    <3> QED BY <3>1, <3>2
  <2>7. CountedFrames' = input_count + 1 /\ BufferedFrames' = <<input_count>>
    BY <2>5, <2>6, AbstractStateAfter
  <2>8. Contract!Push(batch)
    BY <1>1, <2>1, <2>2, <2>6, <2>7 DEF Contract!Push
  <2>9. Contract!Next
    BY <1>1, <2>1, <2>8 DEF Contract!Next, Contract!PushBatches
  <2> QED BY <2>4, <2>9 DEF AbstractStep
<1>4. CASE caller # "before"
  <2>1. Return(out) /\ UNCHANGED <<pending, input_count>>
    BY <1>4 DEF EndFlush
  <2>2. /\ pc' = "idle" /\ caller' = "none" /\ out' = <<>> /\ done' = 0 /\ anchored' = FALSE
        /\ shipped' = shipped \o batch /\ pending' = <<>>
    BY <1>1, <2>1, ReturnShips DEF Return, batch
  <2>3. Progress'
    <3>1. Len(pending') < AltrefWindow
      BY <1>1, <1>2, <2>2
    <3> QED BY <2>2, <3>1, IdleProgress
  <2>4. CountedFrames' = input_count /\ BufferedFrames' = <<>>
    BY <2>1, <2>2, AbstractStateAfter
  <2>5. CASE caller = "full"
    <3>1. /\ CountedFrames = input_count - 1 /\ BufferedFrames = SubSeq(group, 1, Len(group) - 1)
          /\ Len(group) = AltrefWindow /\ group[Len(group)] = input_count - 1
      BY <2>5, AbstractState DEF Progress, Window
    <3>2. Contract!Arrived = group
      BY <1>1, <3>1, DropThenAppend DEF Contract!Arrived
    <3>3. CountedFrames' = CountedFrames + 1
      BY <1>1, <2>4, <3>1
    <3>4. Contract!Push(batch)
      BY <1>1, <2>2, <2>4, <3>1, <3>2, <3>3 DEF Contract!Push
    <3>5. Contract!Next
      BY <1>1, <3>2, <3>4 DEF Contract!Next, Contract!PushBatches
    <3> QED BY <2>3, <3>5 DEF AbstractStep
  <2>6. CASE caller = "finish"
    <3>1. CountedFrames = input_count /\ BufferedFrames = group
      BY <2>6, AbstractState
    <3>2. batch \in Contract!FinishBatches
      BY <1>1, <3>1 DEF Contract!FinishBatches
    <3>3. Contract!Finish(batch)
      BY <2>2, <2>4, <3>1, <3>2 DEF Contract!Finish
    <3> QED BY <2>3, <3>2, <3>3 DEF AbstractStep, Contract!Next
  <2> QED BY <1>1, <1>4, <2>5, <2>6
<1> QED BY <1>3, <1>4

LEMMA FrameFails ==
  ASSUME Inv, Progress, FailFrame
  PROVE  Progress' /\ AbstractStep
<1>1. /\ pc # "idle" /\ caller \in {"before", "full", "finish"} /\ pending = <<>>
      /\ group # <<>> /\ group \in Seq(Nat) /\ input_count \in Nat /\ shipped \in Seq(Summaries)
      /\ Return(<<>>) /\ UNCHANGED <<pending, input_count>>
  BY DEF FailFrame, Progress, Window, Inv, Flushing, TypeOK, buffer
<1>2. /\ pc' = "idle" /\ caller' = "none" /\ out' = <<>> /\ done' = 0 /\ anchored' = FALSE
      /\ pending' = <<>> /\ shipped' = shipped
  <2>1. shipped' = shipped \o <<>>
    BY <1>1, ReturnShips, NoSummary
  <2> QED BY <1>1, <2>1, ConcatEmptySeq DEF Return
<1>3. Progress'
  <2>1. Len(pending') < AltrefWindow
    BY <1>2, EmptySeq, AltrefAssumption
  <2> QED BY <1>2, <2>1, IdleProgress
<1>4. CountedFrames' = input_count /\ BufferedFrames' = <<>>
  BY <1>1, <1>2, AbstractStateAfter
<1>5. CASE caller \in {"before", "finish"}
  <2>1. CountedFrames = input_count /\ BufferedFrames = group
    BY <1>5, AbstractState
  <2>2. Contract!FinishFails
    BY <1>1, <1>2, <1>4, <2>1 DEF Contract!FinishFails
  <2> QED BY <1>3, <2>2 DEF AbstractStep, Contract!Next
<1>6. CASE caller = "full"
  <2>1. /\ CountedFrames = input_count - 1 /\ BufferedFrames = SubSeq(group, 1, Len(group) - 1)
        /\ Len(group) = AltrefWindow /\ group[Len(group)] = input_count - 1
    BY <1>6, AbstractState DEF Progress, Window
  <2>2. Contract!Arrived = group
    BY <1>1, <2>1, DropThenAppend DEF Contract!Arrived
  <2>3. CountedFrames' = CountedFrames + 1
    BY <1>1, <1>4, <2>1
  <2>4. Contract!PushFails
    BY <1>2, <1>4, <2>1, <2>2, <2>3 DEF Contract!PushFails
  <2> QED BY <1>3, <2>4 DEF AbstractStep, Contract!Next
<1> QED BY <1>1, <1>5, <1>6

(* Coding a frame and decoding one are not seen from outside.              *)
LEMMA Unseen ==
  ASSUME UNCHANGED <<caller, group, pending, input_count, shipped>>
  PROVE  AbstractStep
<1>1. CountedFrames' = CountedFrames /\ BufferedFrames' = BufferedFrames
  BY DEF CountedFrames, BufferedFrames
<1> QED BY <1>1, SameAbstractState

LEMMA StepsImplement ==
  ASSUME Inv, Progress, [Next]_vars
  PROVE  Progress' /\ AbstractStep
<1>1. ASSUME UNCHANGED <<caller, group, pending, input_count, shipped, pc, out, done, anchored>>
      PROVE  Progress' /\ AbstractStep
  BY <1>1, Unseen DEF Progress, Window, Plan, OutputsPlanned, Keyed, Keys, Anchors
<1>2. ASSUME NEW d \in Dimensions, NEW cut \in BOOLEAN, PushFrame(d, cut) PROVE Progress' /\ AbstractStep
  <2>1. pc = "idle" /\ caller = "none" /\ out = <<>>
    BY <1>2 DEF PushFrame, CanCall, Progress, Window, Inv, Flushing
  <2>2. CASE /\ ClosesGroup(cut) /\ Take(pending, pending_start, pending_forced_key, "before")
             /\ UNCHANGED <<input_count, cuts, out, shipped, wire>>
    <3>1. /\ pending # <<>> /\ pending \in Seq(Nat) /\ pending_start \in Nat /\ pending_forced_key \in BOOLEAN
          /\ Len(pending) < AltrefWindow
      BY <2>2 DEF ClosesGroup, Inv, TypeOK, Progress, Window
    <3>2. pending[1] = pending_start
      BY <3>1, EmptySeq DEF Inv, Scenes, OneScene
    <3>3. Progress'
      BY <2>1, <2>2, <3>1, <3>2, TakeStartsPlan
    <3> QED BY <2>1, <2>2, <3>3, FlushOpens
  <2>3. CASE ~ClosesGroup(cut) /\ Accept(cut)
    BY <2>1, <2>3, FrameArrives
  <2> QED BY <1>2, <2>2, <2>3 DEF PushFrame
<1>3. ASSUME Finish PROVE Progress' /\ AbstractStep
  <2>1. /\ caller = "none" /\ out = <<>> /\ Take(pending, pending_start, pending_forced_key, "finish")
        /\ UNCHANGED <<input_count, out, shipped>> /\ pending # <<>>
    BY <1>3 DEF Finish, CanCall, Progress, Window, Inv, Flushing, history
  <2>2. /\ pending \in Seq(Nat) /\ pending_start \in Nat /\ pending_forced_key \in BOOLEAN
        /\ Len(pending) < AltrefWindow
    BY DEF Inv, TypeOK, Progress, Window
  <2>3. pending[1] = pending_start
    BY <2>1, <2>2, EmptySeq DEF Inv, Scenes, OneScene
  <2>4. Progress'
    BY <2>1, <2>2, <2>3, TakeStartsPlan
  <2> QED BY <2>1, <2>4, FlushOpens
<1>4. ASSUME NEW t \in Tokens, EncodeKey(t) \/ EncodeAnchor(t) \/ EncodeInter(t) PROVE Progress' /\ AbstractStep
  <2>1. Progress'
    BY <1>4, KeyKeepsProgress, AnchorKeepsProgress, InterKeepsProgress
  <2>2. UNCHANGED <<caller, group, pending, input_count, shipped>>
    BY <1>4 DEF EncodeKey, EncodeAnchor, EncodeInter, Push, buffer
  <2> QED BY <2>1, <2>2, Unseen
<1>5. ASSUME Deliver \/ UNCHANGED vars \/ \E d \in Dimensions : RefuseDimensions(d) PROVE Progress' /\ AbstractStep
  BY <1>1, <1>5 DEF Deliver, RefuseDimensions, vars, buffer, flush, history
<1> QED BY <1>2, <1>3, <1>4, <1>5, FlushEnds, FrameFails DEF Next, Encode

LEMMA InitKeepsProgress ==
  ASSUME Init
  PROVE  Progress
<1>1. /\ pc = "idle" /\ caller = "none" /\ out = <<>> /\ pending = <<>> /\ done = 0 /\ anchored = FALSE
      /\ input_count = 0 /\ shipped = <<>>
  BY DEF Init
<1>2. Len(pending) = 0 /\ Len(out) = 0 /\ AltrefWindow > 0
  BY <1>1, EmptySeq, AltrefAssumption
<1>3. Window
  BY <1>1, <1>2 DEF Window
<1>4. Len(out) = done + Anchors
  BY <1>1, <1>2 DEF Anchors
<1>5. anchored \in BOOLEAN
  BY <1>1
<1>6. Plan
  BY <1>1, <1>4, <1>5 DEF Plan
<1> QED BY <1>3, <1>6 DEF Progress

(* Seen from outside, the encoder is its contract: a call returns nothing  *)
(* or one whole group, coded in the order the adapter expects, and a       *)
(* failed call returns nothing and loses that group.                       *)
THEOREM AltrefImplementsContract == Spec => ImplementsContract
<1>1. Init => Progress /\ Contract!Init
  <2>1. Init => Contract!Init
    BY AbstractState DEF Init, Contract!Init
  <2> QED BY <2>1, InitKeepsProgress
<1>2. Inv /\ Progress /\ [Next]_vars => Progress' /\ [Contract!Next]_(Contract!stream)
  BY StepsImplement DEF AbstractStep
<1> QED BY <1>1, <1>2, InductiveInvariant, PTL DEF Spec, ImplementsContract, Contract!Spec

-----------------------------------------------------------------------------
(* Between groups GOLDEN is the reference coded last; inside an anchored   *)
(* one it is the reference before that, and ALTREF the group's anchor.     *)
BracketAt(a, b) ==
  /\ LatestReference(a, Len(Coded)) /\ LatestReference(b, a - 1)
  /\ PictureOf(Coded[a]) = Anchor(group[Len(group)])
  /\ slots["altref"] = PictureOf(Coded[a])
  /\ slots["golden"] = PictureOf(Coded[b])
GoldenAt(b) == LatestReference(b, Len(Coded)) /\ slots["golden"] = PictureOf(Coded[b])
InBracket == pc = "inter" /\ anchored

Bracketed ==
  GoldenPromotion /\ failures = 0 =>
    /\ InBracket => \E a \in 1..Len(Coded) : \E b \in 1..Len(Coded) : BracketAt(a, b)
    /\ ~InBracket /\ slots["last"] # NoPicture => \E b \in 1..Len(Coded) : GoldenAt(b)

LEMMA JoinedSummaries ==
  ASSUME NEW old \in Seq(Summaries), NEW new \in Seq(Outputs)
  PROVE  /\ old \o Summary(new) \in Seq(Summaries) /\ Len(old \o Summary(new)) = Len(old) + Len(new)
         /\ Len(old) \in Nat /\ Len(new) \in Nat
         /\ \A i \in 1..Len(old) : (old \o Summary(new))[i] = old[i]
         /\ \A i \in 1..Len(new) : (old \o Summary(new))[Len(old) + i] = SummaryOf(new[i])
<1> DEFINE s == Summary(new)
           all == old \o s
<1>1. /\ s \in Seq(Summaries) /\ Len(s) = Len(new)
      /\ \A i \in 1..Len(new) : s[i] = SummaryOf(new[i])
      /\ Len(old) \in Nat /\ Len(new) \in Nat
  BY SummaryType, LenProperties DEF SummaryOf
<1> HIDE DEF s
<1>2. /\ all \in Seq(Summaries) /\ Len(all) = Len(old) + Len(s)
      /\ \A i \in 1..Len(old) + Len(s) : all[i] = IF i <= Len(old) THEN old[i] ELSE s[i - Len(old)]
  BY <1>1, ConcatProperties, ZenonT(40)
<1> HIDE DEF all
<1>3. ASSUME NEW i \in 1..Len(new) PROVE all[Len(old) + i] = SummaryOf(new[i])
  <2>1. /\ Len(old) + i \in 1..Len(old) + Len(s) /\ ~(Len(old) + i <= Len(old))
        /\ Len(old) + i - Len(old) = i
    BY <1>1
  <2> QED BY <1>1, <1>2, <2>1, SMTT(30)
<1>4. ASSUME NEW i \in 1..Len(old) PROVE all[i] = old[i]
  BY <1>1, <1>2
<1> QED BY <1>1, <1>2, <1>3, <1>4 DEF all, s

LEMMA CodedType ==
  ASSUME TypeOK
  PROVE  /\ Coded \in Seq(Summaries) /\ Len(Coded) = Len(shipped) + Len(out)
         /\ Len(shipped) \in Nat /\ Len(out) \in Nat /\ Len(Coded) \in Nat
         /\ \A i \in 1..Len(shipped) : Coded[i] = shipped[i]
         /\ \A i \in 1..Len(out) : Coded[Len(shipped) + i] = SummaryOf(out[i])
<1>1. shipped \in Seq(Summaries) /\ out \in Seq(Outputs) /\ Coded = shipped \o Summary(out)
  BY DEF TypeOK, Coded
<1> QED BY <1>1, JoinedSummaries

LEMMA CodedTypeAfter ==
  ASSUME TypeOK'
  PROVE  /\ Coded' \in Seq(Summaries) /\ Len(Coded') = Len(shipped') + Len(out')
         /\ \A i \in 1..Len(shipped') : Coded'[i] = shipped'[i]
         /\ \A i \in 1..Len(out') : Coded'[Len(shipped') + i] = SummaryOf(out'[i])
<1>1. shipped' \in Seq(Summaries) /\ out' \in Seq(Outputs) /\ Coded' = shipped' \o Summary(out')
  BY DEF TypeOK, Coded, Summary
<1> QED BY <1>1, JoinedSummaries

(* A coded frame is the last of all that were coded, a call that returns   *)
(* moves none.                                                             *)
LEMMA CodedJoins ==
  ASSUME TypeOK, TypeOK', NEW p, Push(p)
  PROVE  /\ Len(Coded') = Len(Coded) + 1 /\ Len(Coded) \in Nat
         /\ Coded'[Len(Coded) + 1] = SummaryOf(p)
         /\ \A i \in 1..Len(Coded) : Coded'[i] = Coded[i]
<1>1. /\ Len(out') = Len(out) + 1 /\ out'[Len(out) + 1] = p /\ Len(out) \in Nat
      /\ \A i \in 1..Len(out) : out'[i] = out[i]
  BY AppendAnything DEF TypeOK, Push
<1>2. shipped' = shipped
  BY DEF Push
<1>3. /\ Len(Coded) = Len(shipped) + Len(out) /\ Len(shipped) \in Nat
      /\ \A i \in 1..Len(shipped) : Coded[i] = shipped[i]
      /\ \A i \in 1..Len(out) : Coded[Len(shipped) + i] = SummaryOf(out[i])
  BY CodedType
<1>4. /\ Len(Coded') = Len(shipped) + Len(out')
      /\ \A i \in 1..Len(shipped) : Coded'[i] = shipped[i]
      /\ \A i \in 1..Len(out') : Coded'[Len(shipped) + i] = SummaryOf(out'[i])
  BY <1>2, CodedTypeAfter
<1>5. Len(Coded') = Len(Coded) + 1 /\ Len(Coded) \in Nat
  BY <1>1, <1>3, <1>4
<1>6. Coded'[Len(Coded) + 1] = SummaryOf(p)
  <2>1. Len(out) + 1 \in 1..Len(out') /\ Len(Coded) + 1 = Len(shipped) + (Len(out) + 1)
    BY <1>1, <1>3
  <2> QED BY <1>1, <1>4, <2>1
<1>7. ASSUME NEW i \in 1..Len(Coded) PROVE Coded'[i] = Coded[i]
  <2>1. CASE i <= Len(shipped)
    BY <1>3, <1>4, <2>1
  <2>2. CASE i > Len(shipped)
    <3> DEFINE j == i - Len(shipped)
    <3>1. j \in 1..Len(out) /\ j \in 1..Len(out') /\ i = Len(shipped) + j
      BY <1>1, <1>3, <2>2
    <3> HIDE DEF j
    <3> QED BY <1>1, <1>3, <1>4, <3>1
  <2> QED BY <1>3, <2>1, <2>2
<1> QED BY <1>5, <1>6, <1>7

LEMMA ReturnKeepsCoded ==
  ASSUME TypeOK, Return(out)
  PROVE  Coded' = Coded
<1>1. shipped' = Coded /\ out' = <<>>
  BY ReturnShips DEF Coded, Return
<1>2. Coded' = Coded \o <<>>
  BY <1>1, NoSummary DEF Coded
<1> QED BY <1>2, CodedType, ConcatEmptySeq

(* The references among the frames coded before stay what they were; an    *)
(* interframe is none, any other frame is the latest.                      *)
LEMMA ReferencesStay ==
  ASSUME TypeOK, TypeOK', NEW p, Push(p), NEW n \in 0..Len(Coded), NEW i, LatestReference(i, n)
  PROVE  /\ i \in 1..n /\ i \in 1..Len(Coded') /\ Coded'[i] = Coded[i]
         /\ LatestReference(i, n)'
         /\ n = Len(Coded) /\ p.kind = "inter" => LatestReference(i, Len(Coded))'
<1>1. /\ Len(Coded') = Len(Coded) + 1 /\ Len(Coded) \in Nat
      /\ Coded'[Len(Coded) + 1] = SummaryOf(p)
      /\ \A j \in 1..Len(Coded) : Coded'[j] = Coded[j]
  BY CodedJoins
<1>2. i \in 1..n /\ Coded[i].kind # "inter" /\ \A j \in i + 1..n : Coded[j].kind = "inter"
  BY DEF LatestReference
<1>3. i \in 1..Len(Coded') /\ i \in 1..Len(Coded) /\ Coded'[i] = Coded[i]
  BY <1>1, <1>2
<1>4. \A j \in i + 1..n : j \in 1..Len(Coded)
  BY <1>1, <1>2
<1>5. LatestReference(i, n)'
  BY <1>1, <1>2, <1>3, <1>4 DEF LatestReference
<1>6. ASSUME n = Len(Coded), p.kind = "inter" PROVE LatestReference(i, Len(Coded))'
  <2>1. Coded'[Len(Coded) + 1].kind = "inter"
    BY <1>1, <1>6 DEF SummaryOf
  <2>2. ASSUME NEW j \in i + 1..Len(Coded') PROVE Coded'[j].kind = "inter"
    <3>1. j \in i + 1..n \/ j = Len(Coded) + 1
      BY <1>1, <1>2, <1>6
    <3> QED BY <1>1, <1>2, <1>4, <2>1, <3>1
  <2> QED BY <1>2, <1>3, <2>2 DEF LatestReference
<1> QED BY <1>2, <1>3, <1>5, <1>6

LEMMA NewReference ==
  ASSUME TypeOK, TypeOK', NEW p, Push(p), p.kind # "inter"
  PROVE  /\ LatestReference(Len(Coded), Len(Coded))'
         /\ Len(Coded') \in 1..Len(Coded') /\ Len(Coded') - 1 = Len(Coded)
         /\ PictureOf(Coded'[Len(Coded')]) = IF p.kind = "key" THEN Visible(p.index) ELSE Anchor(p.index)
<1>1. Len(Coded') = Len(Coded) + 1 /\ Len(Coded) \in Nat /\ Coded'[Len(Coded) + 1] = SummaryOf(p)
  BY CodedJoins
<1>2. Coded'[Len(Coded')].kind = p.kind /\ Coded'[Len(Coded')].index = p.index
  BY <1>1 DEF SummaryOf
<1>3. PictureOf(Coded'[Len(Coded')]) = IF p.kind = "key" THEN Visible(p.index) ELSE Anchor(p.index)
  BY <1>2 DEF PictureOf
<1>4. LatestReference(Len(Coded), Len(Coded))'
  BY <1>1, <1>2 DEF LatestReference
<1> QED BY <1>1, <1>3, <1>4

(* Steps outside an anchored group that code nothing.                      *)
LEMMA QuietKeepsBracket ==
  ASSUME Bracketed, ~InBracket, ~InBracket', UNCHANGED <<slots, failures>>, Coded' = Coded
  PROVE  Bracketed'
<1>1. ASSUME NEW b, GoldenAt(b) PROVE GoldenAt(b)'
  BY <1>1 DEF GoldenAt, LatestReference, PictureOf, Visible, Anchor
<1> QED BY <1>1 DEF Bracketed

LEMMA StutterKeepsBracket ==
  ASSUME Bracketed, UNCHANGED <<slots, failures, pc, anchored, group>>, Coded' = Coded
  PROVE  Bracketed'
<1>1. ASSUME NEW b, GoldenAt(b) PROVE GoldenAt(b)'
  BY <1>1 DEF GoldenAt, LatestReference, PictureOf, Visible, Anchor
<1>2. ASSUME NEW a, NEW b, BracketAt(a, b) PROVE BracketAt(a, b)'
  BY <1>2 DEF BracketAt, LatestReference, PictureOf, Visible, Anchor
<1> QED BY <1>1, <1>2 DEF Bracketed, InBracket

LEMMA AcceptKeepsCoded ==
  ASSUME TypeOK, NEW cut, Accept(cut)
  PROVE  Coded' = Coded /\ ~InBracket'
BY ReturnKeepsCoded DEF Accept, Coded, Take, Return, InBracket

LEMMA KeyKeepsBracket ==
  ASSUME Inv, Inv', Bracketed, NEW t \in Tokens, EncodeKey(t)
  PROVE  Bracketed'
<1> DEFINE p == Output("key", NextIndex, CodedKey(Visible(NextFrame), Carried, t))
<1>1. Push(p) /\ pc' # "inter" /\ slots' = AllSlots(Visible(NextFrame)) /\ NextIndex = NextFrame
  BY GroupFrames DEF EncodeKey, SlotsAfterKey, NextIndex, NextFrame
<1>2. p.kind = "key" /\ p.index = NextIndex
  BY DEF Output
<1> HIDE DEF p
<1>3. /\ LatestReference(Len(Coded), Len(Coded))' /\ Len(Coded') \in 1..Len(Coded')
      /\ PictureOf(Coded'[Len(Coded')]) = Visible(NextFrame)
  BY <1>1, <1>2, NewReference DEF Inv
<1>4. slots'["golden"] = Visible(NextFrame)
  BY <1>1 DEF AllSlots, Slot
<1>5. GoldenAt(Len(Coded))'
  BY <1>3, <1>4 DEF GoldenAt, PictureOf, Visible, Anchor
<1>6. \E b \in 1..Len(Coded') : GoldenAt(b)'
  BY <1>3, <1>5 DEF GoldenAt, LatestReference
<1> QED BY <1>1, <1>6 DEF Bracketed, InBracket

LEMMA AnchorKeepsBracket ==
  ASSUME Inv, Inv', Bracketed, NEW t \in Tokens, EncodeAnchor(t)
  PROVE  Bracketed'
<1> SUFFICES ASSUME GoldenPromotion, failures' = 0
             PROVE  \E a \in 1..Len(Coded') : \E b \in 1..Len(Coded') : BracketAt(a, b)'
  BY DEF Bracketed, InBracket, EncodeAnchor
<1> DEFINE picture == Anchor(group[Len(group)])
           p == Output("anchor", picture.index,
                       CodedInter(picture, Carried, FALSE, AnchorRefresh, LoopFilterDeltasOff, t))
<1>1. /\ Push(p) /\ pc = "anchor" /\ failures' = failures /\ group' = group
      /\ slots' = [slots EXCEPT !["altref"] = picture]
  BY DEF EncodeAnchor, Push, SlotsAfterAnchor
<1>2. p.kind = "anchor" /\ p.index = group[Len(group)]
  BY DEF Output, Anchor
<1> HIDE DEF p
<1>3. /\ LatestReference(Len(Coded), Len(Coded))' /\ Len(Coded') \in 1..Len(Coded') /\ Len(Coded') - 1 = Len(Coded)
      /\ PictureOf(Coded'[Len(Coded')]) = picture
  BY <1>1, <1>2, NewReference DEF Inv
<1>4. slots["last"] # NoPicture /\ slots \in SlotTable
  BY <1>1 DEF Inv, Flushing, TypeOK
<1>5. PICK b \in 1..Len(Coded) : GoldenAt(b)
  BY <1>1, <1>4 DEF Bracketed, InBracket
<1>6. b \in 1..Len(Coded') /\ Coded'[b] = Coded[b] /\ LatestReference(b, Len(Coded) - 1)'
  <2>1. TypeOK /\ TypeOK' /\ LatestReference(b, Len(Coded)) /\ Len(Coded) \in Nat
    BY <1>5, CodedType DEF Inv, GoldenAt
  <2>2. PICK n \in Nat : n = Len(Coded)
    BY <2>1
  <2>3. n \in 0..Len(Coded) /\ LatestReference(b, n)
    BY <2>1, <2>2
  <2>4. b \in 1..Len(Coded') /\ Coded'[b] = Coded[b] /\ LatestReference(b, n)'
    BY <1>1, <2>1, <2>3, ReferencesStay
  <2> QED BY <1>3, <2>2, <2>4 DEF LatestReference
<1>7. slots'["altref"] = picture /\ slots'["golden"] = slots["golden"]
  BY <1>1, <1>4 DEF SlotTable, Slot
<1>8. BracketAt(Len(Coded), b)'
  <2>1. slots["golden"] = PictureOf(Coded[b])
    BY <1>5 DEF GoldenAt
  <2>2. slots'["golden"] = PictureOf(Coded[b])'
    BY <1>6, <1>7, <2>1 DEF PictureOf, Visible, Anchor
  <2>3. PictureOf(Coded[Len(Coded)])' = picture /\ Anchor(group[Len(group)])' = picture
    BY <1>1, <1>3 DEF PictureOf, Visible, Anchor
  <2> QED BY <1>3, <1>6, <1>7, <2>2, <2>3 DEF BracketAt
<1> QED BY <1>3, <1>6, <1>8 DEF BracketAt, LatestReference

LEMMA InterKeepsBracket ==
  ASSUME Inv, Inv', Progress, Bracketed, NEW t \in Tokens, EncodeInter(t)
  PROVE  Bracketed'
<1> SUFFICES ASSUME GoldenPromotion, failures' = 0 PROVE Bracketed'
  BY DEF Bracketed
<1> DEFINE p == Output("inter", NextIndex,
                       CodedInter(Visible(NextFrame), Carried, TRUE, IF Promotes THEN PromotionRefresh ELSE RefreshLastOnly,
                                  LoopFilterDeltasOff, t))
<1>1. /\ Push(p) /\ pc = "inter" /\ failures' = failures /\ group' = group /\ anchored' = anchored
      /\ pc' = IF done + 1 = Len(group) THEN "done" ELSE "inter"
      /\ slots' = [slots EXCEPT !["golden"] = IF Promotes THEN slots["altref"] ELSE @,
                                !["last"] = Visible(NextFrame)]
  BY DEF EncodeInter, Push
<1>2. p.kind = "inter"
  BY DEF Output
<1> HIDE DEF p
<1>3. slots["last"] # NoPicture /\ slots \in SlotTable /\ TypeOK /\ TypeOK' /\ Len(Coded) \in Nat
  BY <1>1, CodedType DEF Inv, Flushing, TypeOK
<1>4. /\ Promotes => slots'["golden"] = slots["altref"]
      /\ ~Promotes => slots'["golden"] = slots["golden"]
      /\ slots'["altref"] = slots["altref"]
  BY <1>1, <1>3 DEF SlotTable, Slot
<1>5. ASSUME NEW i, LatestReference(i, Len(Coded))
      PROVE  i \in 1..Len(Coded') /\ Coded'[i] = Coded[i] /\ LatestReference(i, Len(Coded))'
  <2>1. Len(Coded) \in 0..Len(Coded)
    BY <1>3
  <2> QED BY <1>1, <1>2, <1>3, <1>5, <2>1, ReferencesStay
<1>6. CASE anchored
  <2>1. PICK a \in 1..Len(Coded) : \E b \in 1..Len(Coded) : BracketAt(a, b)
    BY <1>1, <1>6 DEF Bracketed, InBracket
  <2>2. PICK b \in 1..Len(Coded) : BracketAt(a, b)
    BY <2>1
  <2>3. /\ LatestReference(a, Len(Coded)) /\ LatestReference(b, a - 1)
        /\ PictureOf(Coded[a]) = Anchor(group[Len(group)])
        /\ slots["altref"] = PictureOf(Coded[a])
        /\ slots["golden"] = PictureOf(Coded[b])
    BY <2>2 DEF BracketAt
  <2>4. a \in 1..Len(Coded') /\ Coded'[a] = Coded[a] /\ LatestReference(a, Len(Coded))'
    BY <1>5, <2>3
  <2>5. CASE Promotes
    <3>1. pc' = "done"
      BY <1>1, <2>5 DEF Promotes
    <3>2. GoldenAt(a)'
      BY <1>4, <2>3, <2>4, <2>5 DEF GoldenAt, PictureOf, Visible, Anchor
    <3> QED BY <2>4, <3>1, <3>2 DEF Bracketed, InBracket
  <2>6. CASE ~Promotes
    <3>1. pc' = "inter"
      BY <1>1, <1>6, <2>6 DEF Promotes
    <3>2. b \in 1..Len(Coded') /\ Coded'[b] = Coded[b] /\ LatestReference(b, a - 1)'
      <4>1. a - 1 \in 0..Len(Coded)
        BY <1>3
      <4> QED BY <1>1, <1>3, <2>3, <4>1, ReferencesStay
    <3>3. BracketAt(a, b)'
      BY <1>1, <1>4, <2>3, <2>4, <2>6, <3>2 DEF BracketAt, PictureOf, Visible, Anchor
    <3> QED BY <1>1, <1>6, <2>4, <3>1, <3>2, <3>3 DEF Bracketed, InBracket
  <2> QED BY <2>5, <2>6
<1>7. CASE ~anchored
  <2>1. PICK b \in 1..Len(Coded) : GoldenAt(b)
    BY <1>1, <1>3, <1>7 DEF Bracketed, InBracket
  <2>2. b \in 1..Len(Coded') /\ Coded'[b] = Coded[b] /\ LatestReference(b, Len(Coded))'
    BY <1>5, <2>1 DEF GoldenAt
  <2>3. slots'["golden"] = PictureOf(Coded[b])
    BY <1>4, <1>7, <2>1 DEF GoldenAt, Promotes
  <2>4. GoldenAt(b)'
    BY <2>2, <2>3 DEF GoldenAt, PictureOf, Visible, Anchor
  <2> QED BY <1>1, <1>7, <2>2, <2>4 DEF Bracketed, InBracket
<1> QED BY <1>6, <1>7

LEMMA BracketsKept ==
  ASSUME Inv, Inv', Progress, Bracketed, [Next]_vars
  PROVE  Bracketed'
<1>1. ASSUME pc # "inter", NEW cut, Accept(cut), UNCHANGED <<slots, failures>> PROVE Bracketed'
  BY <1>1, AcceptKeepsCoded, QuietKeepsBracket DEF Inv, InBracket
<1>2. ASSUME pc # "inter", NEW frames, NEW start, NEW forced, NEW site, Take(frames, start, forced, site),
             UNCHANGED <<slots, failures, out, shipped>>
      PROVE  Bracketed'
  <2>1. Coded' = Coded
    BY <1>2 DEF Coded
  <2> QED BY <1>2, <2>1, QuietKeepsBracket DEF Take, InBracket
<1>3. ASSUME NEW d \in Dimensions, NEW cut \in BOOLEAN, PushFrame(d, cut) PROVE Bracketed'
  BY <1>1, <1>2, <1>3 DEF PushFrame, CanCall
<1>4. CASE Finish
  BY <1>2, <1>4 DEF Finish, CanCall, history
<1>5. CASE EndFlush
  <2>1. pc = "done" /\ UNCHANGED <<slots, failures>>
    BY <1>5 DEF EndFlush
  <2>2. CASE Return(out)
    <3>1. Coded' = Coded /\ pc' = "idle"
      BY <2>2, ReturnKeepsCoded DEF Inv, Return
    <3> QED BY <2>1, <3>1, QuietKeepsBracket DEF InBracket
  <2> QED BY <1>1, <1>5, <2>1, <2>2 DEF EndFlush
<1>6. CASE FailFrame
  BY <1>6 DEF FailFrame, Bracketed, Inv, TypeOK
<1>7. ASSUME NEW t \in Tokens, EncodeKey(t) \/ EncodeAnchor(t) \/ EncodeInter(t) PROVE Bracketed'
  BY <1>7, KeyKeepsBracket, AnchorKeepsBracket, InterKeepsBracket
<1>8. ASSUME Deliver \/ UNCHANGED vars \/ \E d \in Dimensions : RefuseDimensions(d) PROVE Bracketed'
  <2>1. UNCHANGED <<slots, failures, pc, anchored, group, shipped, out>>
    BY <1>8 DEF Deliver, RefuseDimensions, vars, buffer, flush, history
  <2>2. Coded' = Coded
    BY <2>1 DEF Coded
  <2> QED BY <2>1, <2>2, StutterKeepsBracket
<1> QED BY <1>3, <1>4, <1>5, <1>6, <1>7, <1>8 DEF Next, Encode

(* With golden promotion, the interframes of every anchored group predict  *)
(* from the two references around them, until a call fails: for any        *)
(* window, schedule and content.                                           *)
THEOREM GroupsAreBracketed == Spec => []GoldenBrackets
<1>1. Init => Bracketed
  BY DEF Init, Bracketed, AllSlots, Slot, InBracket
<1>2. Inv /\ Inv' /\ Progress /\ Bracketed /\ [Next]_vars => Bracketed'
  BY BracketsKept
<1>3. Inv /\ Bracketed => GoldenBrackets
  <2> SUFFICES ASSUME Inv, Bracketed, pc = "inter", anchored, GoldenPromotion, failures = 0 PROVE GoldenBrackets
    BY DEF GoldenBrackets
  <2>1. DOMAIN Coded = 1..Len(Coded)
    BY CodedType, LenProperties DEF Inv
  <2> QED BY <2>1 DEF Bracketed, InBracket, BracketAt, GoldenBrackets
<1>4. Init => Progress
  BY InitKeepsProgress
<1>5. Inv /\ Progress /\ [Next]_vars => Progress'
  BY StepsImplement
<1> QED BY <1>1, <1>2, <1>3, <1>4, <1>5, InductiveInvariant, PTL DEF Spec
===============================================================================
