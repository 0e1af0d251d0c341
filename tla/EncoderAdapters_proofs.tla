----------------------- MODULE EncoderAdapters_proofs -----------------------
(***************************************************************************)
(* What both adapters promise holds for any window, sizes, strides and     *)
(* number of frames, resizes and failing calls: frames stay whole and in   *)
(* order, sizes change at key frames, and Eof means that all is out.       *)
(***************************************************************************)
EXTENDS EncoderAdapters, SequenceTheorems, FiniteSetTheorems, TLAPS

Kinds == {"key", "anchor", "inter"}
Coded == [kind : Kinds, index : Nat]
Out == [kind : Kinds, size : Widths \X Heights, frame : Nat, pts : Nat \cup {NoPts}]

-----------------------------------------------------------------------------
(* A group of frames F as it is coded: where its anchor is (past the end    *)
(* when there is none), and which frame each other packet shows.            *)
AnchorAt(F, keyed) == IF Len(F) < 2 \/ keyed = TRUE THEN 2 ELSE 1
Source(F, keyed, i) == IF i < AnchorAt(F, keyed) THEN i ELSE i - 1

Shaped(B, F, keyed) ==
  /\ B \in Seq(Coded)
  /\ Len(B) = IF Len(F) < 2 THEN 1 ELSE Len(F) + 1
  /\ keyed = TRUE => B[1].kind = "key"
  /\ \A i \in 1..Len(B) :
       /\ B[i].kind = "anchor" <=> i = AnchorAt(F, keyed)
       /\ B[i].kind # "anchor" => B[i].index = F[Source(F, keyed, i)]
       /\ \E j \in 1..Len(F) : B[i].index = F[j]

LEMMA Joined ==
  ASSUME NEW S, NEW a \in Seq(S), NEW b \in Seq(S)
  PROVE  /\ a \o b \in Seq(S) /\ Len(a \o b) = Len(a) + Len(b)
         /\ \A i \in 1..Len(a) : (a \o b)[i] = a[i]
         /\ \A i \in 1..Len(b) : (a \o b)[Len(a) + i] = b[i]
<1>1. Len(a) \in Nat /\ Len(b) \in Nat
  BY LenProperties
<1> QED
  BY <1>1, ConcatProperties

LEMMA Spliced ==
  ASSUME NEW S, NEW a \in Seq(S), NEW b \in Seq(S), NEW x \in S
  PROVE  /\ a \o <<x>> \o b \in Seq(S) /\ Len(a \o <<x>> \o b) = Len(a) + Len(b) + 1
         /\ \A i \in 1..Len(a) : (a \o <<x>> \o b)[i] = a[i]
         /\ (a \o <<x>> \o b)[Len(a) + 1] = x
         /\ \A i \in 1..Len(b) : (a \o <<x>> \o b)[Len(a) + 1 + i] = b[i]
<1> DEFINE front == a \o <<x>>
<1>1. Len(a) \in Nat /\ Len(b) \in Nat
  BY LenProperties
<1>2. front \in Seq(S) /\ Len(front) = Len(a) + 1
  BY Joined, LenProperties
<1>3. front[Len(a) + 1] = x /\ \A i \in 1..Len(a) : front[i] = a[i]
  BY Joined, LenProperties
<1> HIDE DEF front
<1>4. front \in Seq(S)
  BY <1>2
<1>5. /\ front \o b \in Seq(S) /\ Len(front \o b) = Len(front) + Len(b)
      /\ \A i \in 1..Len(front) : (front \o b)[i] = front[i]
      /\ \A i \in 1..Len(b) : (front \o b)[Len(front) + i] = b[i]
  BY <1>4, Joined
<1> DEFINE t == front \o b
<1> HIDE DEF t
<1>6. /\ t \in Seq(S) /\ Len(t) = Len(front) + Len(b)
      /\ \A i \in 1..Len(front) : t[i] = front[i]
      /\ \A i \in 1..Len(b) : t[Len(front) + i] = b[i]
  BY <1>5 DEF t
<1>7. /\ t \in Seq(S) /\ Len(t) = Len(a) + Len(b) + 1
      /\ \A i \in 1..Len(a) : t[i] = a[i]
      /\ t[Len(a) + 1] = x
      /\ \A i \in 1..Len(b) : t[Len(a) + 1 + i] = b[i]
  BY <1>1, <1>2, <1>3, <1>6
<1>8. t = a \o <<x>> \o b
  BY DEF t, front
<1> QED
  BY <1>7, <1>8

LEMMA GroupShape ==
  ASSUME NEW F \in Seq(Nat), F # <<>>, NEW keyed \in BOOLEAN,
         NEW B, B = Stream!GroupPackets(F, keyed)
  PROVE  Shaped(B, F, keyed)
<1> DEFINE n == Len(F)
           Shown(i) == [kind |-> IF keyed /\ i = 1 THEN "key" ELSE "inter", index |-> F[i]]
           visible == [i \in 1..n |-> Shown(i)]
           keys == IF keyed THEN 1 ELSE 0
           anchor == [kind |-> "anchor", index |-> F[n]]
<1>1. n \in Nat \ {0} /\ \A i \in 1..n : F[i] \in Nat
  BY EmptySeq, LenProperties, ElementOfSeq
<1>2. \A i \in 1..n : Shown(i) \in Coded
  BY <1>1 DEF Coded, Kinds
<1>3. visible \in Seq(Coded) /\ Len(visible) = n /\ \A i \in 1..n : visible[i] = Shown(i)
  <2> HIDE DEF Shown
  <2> QED
    BY <1>1, <1>2, IsASeq
<1>4. CASE n < 2
  <2>1. B = visible
    BY <1>4 DEF Stream!GroupPackets
  <2> QED
    BY <1>1, <1>3, <1>4, <2>1 DEF AnchorAt, Source, Shaped
<1>5. CASE ~(n < 2)
  <2>1. B = SubSeq(visible, 1, keys) \o <<anchor>> \o SubSeq(visible, keys + 1, n)
    BY <1>5 DEF Stream!GroupPackets
  <2>2. anchor \in Coded /\ keys \in 0..n
    BY <1>1, <1>5 DEF Coded, Kinds
  <2> DEFINE first == SubSeq(visible, 1, keys)
             rest == SubSeq(visible, keys + 1, n)
  <2> HIDE DEF visible, anchor, keys, Shown
  <2>3. first \in Seq(Coded) /\ Len(first) = keys /\ \A i \in 1..keys : first[i] = visible[i]
    BY <1>1, <1>2, <1>3, <2>2, SubSeqProperties
  <2>4. /\ rest \in Seq(Coded) /\ Len(rest) = n - keys
        /\ \A i \in 1..n - keys : rest[i] = visible[keys + i]
    BY <1>1, <1>2, <1>3, <2>2, SubSeqProperties
  <2>5. B = first \o <<anchor>> \o rest
    BY <2>1
  <2> HIDE DEF first, rest
  <2>6. /\ B \in Seq(Coded) /\ Len(B) = n + 1
        /\ \A i \in 1..keys : B[i] = visible[i]
        /\ B[keys + 1] = anchor
        /\ \A i \in 1..n - keys : B[keys + 1 + i] = visible[keys + i]
    <3>1. /\ B \in Seq(Coded) /\ Len(B) = Len(first) + Len(rest) + 1
          /\ \A i \in 1..Len(first) : B[i] = first[i]
          /\ B[Len(first) + 1] = anchor
          /\ \A i \in 1..Len(rest) : B[Len(first) + 1 + i] = rest[i]
      <4>1. first \in Seq(Coded) /\ rest \in Seq(Coded) /\ anchor \in Coded
        BY <2>2, <2>3, <2>4
      <4> QED
        BY <2>5, <4>1, Spliced
    <3>2. Len(first) = keys /\ Len(rest) = n - keys /\ n \in Nat /\ keys \in Nat
      BY <1>1, <2>2, <2>3, <2>4
    <3>3. B \in Seq(Coded) /\ Len(B) = n + 1 /\ B[keys + 1] = anchor
      BY <3>1, <3>2
    <3>4. \A i \in 1..keys : B[i] = visible[i]
      BY <2>3, <3>1, <3>2
    <3>5. ASSUME NEW i \in 1..n - keys
          PROVE  B[keys + 1 + i] = visible[keys + i]
      <4>1. B[keys + 1 + i] = rest[i]
        BY <3>1, <3>2
      <4> QED
        BY <2>4, <4>1
    <3> QED
      BY <3>3, <3>4, <3>5
  <2>7. AnchorAt(F, keyed) = keys + 1
    BY <1>5 DEF AnchorAt, keys
  <2>8. keyed = TRUE => B[1].kind = "key"
    <3> SUFFICES ASSUME keyed = TRUE PROVE B[1].kind = "key"
      OBVIOUS
    <3>1. keys = 1
      BY DEF keys
    <3>2. 1 \in 1..keys /\ 1 \in 1..n
      BY <1>1, <3>1
    <3>3. B[1] = visible[1]
      BY <2>6, <3>2
    <3>4. visible[1] = Shown(1)
      BY <1>3, <3>2
    <3>5. Shown(1).kind = "key"
      BY DEF Shown
    <3> QED
      BY <3>3, <3>4, <3>5
  <2>9. ASSUME NEW i \in 1..n + 1
        PROVE  /\ B[i].kind = "anchor" <=> i = AnchorAt(F, keyed)
               /\ B[i].kind # "anchor" => B[i].index = F[Source(F, keyed, i)]
               /\ \E j \in 1..n : B[i].index = F[j]
    <3>1. CASE i \in 1..keys
      <4>1. B[i] = Shown(i) /\ i \in 1..n /\ i < AnchorAt(F, keyed)
        BY <1>1, <1>3, <2>2, <2>6, <2>7, <3>1
      <4> QED
        BY <1>1, <4>1 DEF Source, Shown
    <3>2. CASE i = keys + 1
      BY <1>1, <2>6, <2>7, <3>2 DEF anchor
    <3>3. CASE i \in keys + 2..n + 1
      <4>1. i - (keys + 1) \in 1..n - keys /\ keys + 1 + (i - (keys + 1)) = i /\ keys + (i - (keys + 1)) = i - 1
        BY <1>1, <2>2, <3>3
      <4>2. B[i] = visible[i - 1] /\ i - 1 \in 1..n /\ ~(i < AnchorAt(F, keyed)) /\ i # AnchorAt(F, keyed)
        <5>1. B[i] = visible[i - 1]
          BY <2>6, <4>1
        <5> QED
          BY <1>1, <2>2, <2>7, <3>3, <5>1
      <4>3. B[i] = Shown(i - 1)
        BY <1>3, <4>2
      <4> QED
        BY <1>1, <4>2, <4>3 DEF Source, Shown
    <3> QED
      BY <1>1, <2>2, <3>1, <3>2, <3>3
  <2> QED
    BY <1>5, <2>6, <2>8, <2>9 DEF Shaped
<1> QED
  BY <1>4, <1>5

(* A packet takes the time of the frame it shows.                           *)
LEMMA GroupTimes ==
  ASSUME NEW F \in Seq(Nat), F # <<>>, NEW keyed \in BOOLEAN,
         NEW B, B = Stream!GroupPackets(F, keyed), NEW i \in 0..Len(B)
  PROVE  TimesTaken(B, i) = IF i < AnchorAt(F, keyed) THEN i ELSE i - 1
<1> DEFINE at == AnchorAt(F, keyed)
           takers == {j \in 1..i : B[j].kind # "anchor"}
<1>1. Len(B) \in Nat /\ at \in Nat \ {0} /\ \A j \in 1..Len(B) : B[j].kind = "anchor" <=> j = at
  <2>1. Shaped(B, F, keyed)
    BY GroupShape
  <2> QED
    BY <2>1, LenProperties DEF AnchorAt, Shaped
<1>2. i \in Nat /\ IsFiniteSet(1..i) /\ Cardinality(1..i) = i
  BY <1>1, FS_Interval
<1>3. takers = (1..i) \ {at}
  BY <1>1, <1>2
<1>4. CASE i < at
  <2>1. takers = 1..i
    BY <1>1, <1>2, <1>3, <1>4
  <2> QED
    BY <1>2, <1>4, <2>1 DEF TimesTaken
<1>5. CASE ~(i < at)
  <2>1. at \in 1..i
    BY <1>1, <1>2, <1>5
  <2>2. Cardinality((1..i) \ {at}) = i - 1
    BY <1>2, <2>1, FS_RemoveElement
  <2> QED
    BY <1>3, <1>5, <2>2 DEF TimesTaken
<1> QED
  BY <1>4, <1>5
-----------------------------------------------------------------------------
(* What is inside, of frames numbered by their times: b are the indices in  *)
(* the lookahead, of n frames A taken by this stream; T are the times that  *)
(* wait, q the packets that wait, s the frames sent so far.                 *)
Increasing(t) == \A i, j \in 1..Len(t) : i < j => t[i] < t[j]
Shows(p) == p.kind # "anchor"

Typed(b, n, A, T, q, s) ==
  /\ b \in Seq(Nat) /\ n \in Nat /\ A \in Seq(Nat)
  /\ T \in Seq(Nat) /\ q \in Seq(Out) /\ s \in Nat

(* The lookahead holds the last frames of the stream.                       *)
Numbered(b, n, A, s) ==
  /\ Len(A) = n /\ Len(b) <= n /\ n <= s
  /\ \A i \in 1..Len(b) : b[i] = n - Len(b) + i - 1
  /\ Increasing(A) /\ \A i \in 1..Len(A) : A[i] <= s

(* There is a time for each of them.                                        *)
Timed(b, T, s) ==
  /\ Len(b) <= Len(T)
  /\ Increasing(T) /\ \A i \in 1..Len(T) : T[i] <= s

(* The packets are in order, and before what is still inside.               *)
Behind(b, A, T, q, s) ==
  /\ \A i \in 1..Len(q) :
       Shows(q[i]) =>
         /\ q[i].pts \in Nat /\ q[i].frame <= s /\ q[i].pts <= s
         /\ \A j \in 1..Len(T) : q[i].pts < T[j]
         /\ \A j \in 1..Len(b) : q[i].frame < A[b[j] + 1]
  /\ \A i, j \in 1..Len(q) :
       i < j /\ Shows(q[i]) /\ Shows(q[j]) => q[i].frame < q[j].frame /\ q[i].pts < q[j].pts

Held(b, n, A, T, q, s) ==
  Typed(b, n, A, T, q, s) /\ Numbered(b, n, A, s) /\ Timed(b, T, s) /\ Behind(b, A, T, q, s)

(* The group of the first m frames in the lookahead, as packets.            *)
Group(b, m, keyed) == Stream!GroupPackets(SubSeq(b, 1, m), keyed)
SourceOf(b, m, keyed, i) == Source(SubSeq(b, 1, m), keyed, i)
TimeOf(B, T, i) == IF B[i].kind # "anchor" /\ TimesTaken(B, i) <= Len(T) THEN T[TimesTaken(B, i)] ELSE NoPts

(* B coded from the group gives P: the packets' frames and times are those  *)
(* of the frames they show, in order, up to the last of the group.          *)
Emits(b, m, keyed, A, T, B, P) ==
  /\ P \in Seq(Out) /\ Len(P) \in Nat \ {0}
  /\ TimesTaken(B, Len(B)) = m
  /\ \A i \in 1..Len(P) :
       /\ P[i].size = size
       /\ Shows(P[i]) => /\ SourceOf(b, m, keyed, i) \in 1..m
                        /\ P[i].frame = A[b[SourceOf(b, m, keyed, i)] + 1]
                        /\ P[i].pts = T[SourceOf(b, m, keyed, i)]
  /\ \A i, j \in 1..Len(P) :
       i < j /\ Shows(P[i]) /\ Shows(P[j]) => SourceOf(b, m, keyed, i) < SourceOf(b, m, keyed, j)
  /\ Shows(P[Len(P)]) /\ SourceOf(b, m, keyed, Len(P)) = m
  /\ keyed = TRUE => P[1].kind = "key"

LEMMA GroupOut ==
  ASSUME NEW b, NEW n, NEW A, NEW T, NEW q, NEW s, Held(b, n, A, T, q, s),
         NEW m \in 1..Len(b), NEW keyed \in BOOLEAN, size \in Widths \X Heights,
         NEW B, B = Group(b, m, keyed), NEW P, P = Packets(B, T, A)
  PROVE  Emits(b, m, keyed, A, T, B, P)
<1> DEFINE F == SubSeq(b, 1, m)
           at == AnchorAt(F, keyed)
<1>1. /\ b \in Seq(Nat) /\ A \in Seq(Nat) /\ T \in Seq(Nat) /\ n \in Nat
      /\ Len(A) = n /\ Len(b) \in Nat /\ Len(b) <= n /\ Len(T) \in Nat /\ Len(b) <= Len(T)
      /\ m \in Nat \ {0} /\ m <= Len(b)
  BY LenProperties DEF Held, Typed, Numbered, Timed
<1>2. ASSUME NEW j \in 1..Len(b) PROVE b[j] \in Nat /\ b[j] + 1 \in 1..n
  <2>1. b[j] = n - Len(b) + j - 1
    BY DEF Held, Numbered
  <2> QED
    BY <1>1, <2>1
<1>3. /\ \A i \in 1..n : A[i] \in Nat
      /\ \A i \in 1..Len(T) : T[i] \in Nat
  BY <1>1, ElementOfSeq
<1>4. F \in Seq(Nat) /\ Len(F) = m /\ \A i \in 1..m : F[i] = b[i]
  <2>1. ASSUME NEW i \in 1..m PROVE b[i] \in Nat
    <3>1. i \in 1..Len(b)
      BY <1>1
    <3> QED
      BY <1>2, <3>1
  <2> QED
    BY <1>1, <2>1, SubSeqProperties
<1>5. F # <<>> /\ F \in Seq(Nat) /\ B = Stream!GroupPackets(F, keyed)
  BY <1>1, <1>4, EmptySeq DEF Group
<1>6. at = IF m < 2 \/ keyed = TRUE THEN 2 ELSE 1
  BY <1>4 DEF AnchorAt
<1> HIDE DEF F, at
<1>7. /\ B \in Seq(Coded) /\ Len(B) = IF m < 2 THEN 1 ELSE m + 1
      /\ keyed = TRUE => B[1].kind = "key"
      /\ \A i \in 1..Len(B) :
           /\ B[i].kind = "anchor" <=> i = at
           /\ B[i].kind # "anchor" => B[i].index = F[Source(F, keyed, i)]
           /\ \E j \in 1..m : B[i].index = F[j]
  <2>1. Shaped(B, F, keyed)
    <3>1. F \in Seq(Nat)
      BY <1>5
    <3>2. F # <<>>
      BY <1>5
    <3>3. B = Stream!GroupPackets(F, keyed)
      BY <1>5
    <3> QED
      BY <3>1, <3>2, <3>3, GroupShape
  <2> QED
    BY <1>4, <2>1 DEF at, Shaped
<1>8. \A i \in 0..Len(B) : TimesTaken(B, i) = IF i < at THEN i ELSE i - 1
  BY <1>5, GroupTimes DEF at
<1>9. ASSUME NEW i \in 1..Len(B), i # at
      PROVE  /\ Source(F, keyed, i) = (IF i < at THEN i ELSE i - 1)
             /\ Source(F, keyed, i) \in 1..m
             /\ TimesTaken(B, i) = Source(F, keyed, i)
  <2>1. m \in Nat \ {0} /\ Len(B) = (IF m < 2 THEN 1 ELSE m + 1) /\ at = IF m < 2 \/ keyed = TRUE THEN 2 ELSE 1
    BY <1>1, <1>6, <1>7
  <2>2. Source(F, keyed, i) = (IF i < at THEN i ELSE i - 1)
    BY DEF Source, at
  <2>3. i \in 0..Len(B)
    BY <2>1
  <2>4. TimesTaken(B, i) = IF i < at THEN i ELSE i - 1
    BY <1>8, <2>3
  <2>5. Source(F, keyed, i) \in 1..m
    BY <1>9, <2>1, <2>2
  <2> QED
    BY <2>2, <2>4, <2>5
<1>10. Len(B) \in Nat \ {0} /\ Len(B) # at /\ Source(F, keyed, Len(B)) = m
  <2>1. Len(B) = IF m < 2 THEN 1 ELSE m + 1
    BY <1>7
  <2>2. at = IF m < 2 \/ keyed = TRUE THEN 2 ELSE 1
    BY <1>6
  <2>3. Source(F, keyed, Len(B)) = IF Len(B) < at THEN Len(B) ELSE Len(B) - 1
    BY DEF Source, at
  <2> QED
    BY <1>1, <2>1, <2>2, <2>3
<1>11. TimesTaken(B, Len(B)) = m
  BY <1>9, <1>10
<1>12. ASSUME NEW i \in 1..Len(B)
       PROVE  /\ P[i] = [kind |-> B[i].kind, size |-> size, frame |-> A[B[i].index + 1], pts |-> TimeOf(B, T, i)]
              /\ B[i].kind \in Kinds /\ A[B[i].index + 1] \in Nat /\ TimeOf(B, T, i) \in Nat \cup {NoPts}
              /\ i # at => TimeOf(B, T, i) = T[Source(F, keyed, i)]
  <2>1. DOMAIN B = 1..Len(B) /\ B[i] \in Coded
    BY <1>7, <1>10, LenProperties, ElementOfSeq
  <2>2. PICK j \in 1..m : B[i].index = F[j]
    BY <1>7
  <2>3. A[B[i].index + 1] \in Nat
    <3>1. j \in 1..Len(b)
      BY <1>1
    <3>2. B[i].index = b[j]
      BY <1>4, <2>2
    <3>3. b[j] + 1 \in 1..n
      BY <1>2, <3>1
    <3> QED
      BY <1>3, <3>2, <3>3
  <2>4. P[i] = [kind |-> B[i].kind, size |-> size, frame |-> A[B[i].index + 1], pts |-> TimeOf(B, T, i)]
    BY <2>1 DEF Packets, TimeOf
  <2>5. B[i].kind \in Kinds
    BY <2>1 DEF Coded
  <2>6. B[i].kind = "anchor" <=> i = at
    BY <1>7
  <2>7. i # at => Source(F, keyed, i) \in 1..Len(T) /\ TimesTaken(B, i) = Source(F, keyed, i)
    BY <1>1, <1>9
  <2>8. i # at => TimeOf(B, T, i) = T[Source(F, keyed, i)] /\ T[Source(F, keyed, i)] \in Nat
    <3> SUFFICES ASSUME i # at
                 PROVE  TimeOf(B, T, i) = T[Source(F, keyed, i)] /\ T[Source(F, keyed, i)] \in Nat
      OBVIOUS
    <3>1. TimesTaken(B, i) <= Len(T)
      BY <1>1, <2>7
    <3>2. TimeOf(B, T, i) = T[TimesTaken(B, i)]
      BY <2>6, <3>1 DEF TimeOf
    <3> QED
      BY <1>3, <2>7, <3>2
  <2>9. i = at => TimeOf(B, T, i) = NoPts
    BY <2>6 DEF TimeOf
  <2> QED
    BY <2>3, <2>4, <2>5, <2>8, <2>9
<1>13. ASSUME NEW i \in 1..Len(B) PROVE P[i] \in Out
  <2>1. P[i] = [kind |-> B[i].kind, size |-> size, frame |-> A[B[i].index + 1], pts |-> TimeOf(B, T, i)]
    BY <1>12
  <2>2. B[i].kind \in Kinds /\ A[B[i].index + 1] \in Nat /\ TimeOf(B, T, i) \in Nat \cup {NoPts}
    BY <1>12
  <2> QED
    BY <2>1, <2>2 DEF Out
<1>14. P \in Seq(Out) /\ Len(P) = Len(B)
  <2>1. DOMAIN B = 1..Len(B)
    BY <1>7, LenProperties
  <2>2. P = [i \in 1..Len(B) |-> P[i]]
    BY <2>1 DEF Packets
  <2> QED
    BY <1>10, <1>13, <2>2, IsASeq
<1>15. ASSUME NEW i \in 1..Len(B)
       PROVE  /\ P[i].size = size /\ P[i].kind = B[i].kind /\ (Shows(P[i]) <=> i # at)
              /\ i # at => /\ P[i].frame = A[b[Source(F, keyed, i)] + 1]
                           /\ P[i].pts = T[Source(F, keyed, i)]
  <2>4. P[i] = [kind |-> B[i].kind, size |-> size, frame |-> A[B[i].index + 1], pts |-> TimeOf(B, T, i)]
    BY <1>12
  <2>1. /\ P[i].size = size /\ P[i].kind = B[i].kind /\ P[i].frame = A[B[i].index + 1]
        /\ P[i].pts = TimeOf(B, T, i)
    BY <2>4
  <2>2. B[i].kind = "anchor" <=> i = at
    BY <1>7
  <2>3. ASSUME i # at
        PROVE  P[i].frame = A[b[Source(F, keyed, i)] + 1] /\ P[i].pts = T[Source(F, keyed, i)]
    <3>1. B[i].index = F[Source(F, keyed, i)] /\ B[i].kind # "anchor"
      BY <1>7, <2>3
    <3>2. /\ Source(F, keyed, i) \in 1..m /\ TimesTaken(B, i) = Source(F, keyed, i)
          /\ F[Source(F, keyed, i)] = b[Source(F, keyed, i)]
      BY <1>4, <1>9, <2>3
    <3>3. P[i].pts = T[Source(F, keyed, i)]
      BY <1>12, <2>1, <2>3
    <3> QED
      BY <2>1, <3>1, <3>2, <3>3
  <2> QED
    BY <2>1, <2>2, <2>3 DEF Shows
<1>16. \A i, j \in 1..Len(B) : i < j /\ i # at /\ j # at => Source(F, keyed, i) < Source(F, keyed, j)
  BY <1>6, <1>9, <1>10
<1>17. keyed = TRUE => P[1].kind = "key"
  <2>1. 1 \in 1..Len(B)
    BY <1>10
  <2> QED
    BY <1>7, <1>15, <2>1
<1>18. \A i \in 1..Len(P) : SourceOf(b, m, keyed, i) = Source(F, keyed, i)
  BY DEF F, SourceOf
<1>19. Len(P) \in 1..Len(P) /\ SourceOf(b, m, keyed, Len(P)) = m /\ Shows(P[Len(P)])
  BY <1>10, <1>14, <1>15, <1>18
<1>20. P \in Seq(Out) /\ Len(P) \in Nat \ {0} /\ TimesTaken(B, Len(B)) = m
  BY <1>10, <1>11, <1>14
<1>21. ASSUME NEW i \in 1..Len(P)
       PROVE  /\ P[i].size = size
              /\ Shows(P[i]) => /\ SourceOf(b, m, keyed, i) \in 1..m
                               /\ P[i].frame = A[b[SourceOf(b, m, keyed, i)] + 1]
                               /\ P[i].pts = T[SourceOf(b, m, keyed, i)]
  <2>1. i \in 1..Len(B) /\ SourceOf(b, m, keyed, i) = Source(F, keyed, i)
    BY <1>14, <1>18
  <2> QED
    BY <1>9, <1>15, <2>1
<1>22. ASSUME NEW i \in 1..Len(P), NEW j \in 1..Len(P), i < j, Shows(P[i]), Shows(P[j])
       PROVE  SourceOf(b, m, keyed, i) < SourceOf(b, m, keyed, j)
  <2>1. i \in 1..Len(B) /\ j \in 1..Len(B) /\ i # at /\ j # at
    BY <1>14, <1>15, <1>22
  <2> QED
    BY <1>16, <1>18, <1>22, <2>1
<1> QED
  BY <1>17, <1>19, <1>20, <1>21, <1>22 DEF Emits

(* The group leaves: packets r, times R and indices c are what is left.     *)
Leaves(b, m, keyed, A, T, q, c, R, r) ==
  /\ m \in 1..Len(b) /\ keyed \in BOOLEAN /\ size \in Widths \X Heights
  /\ r = q \o Packets(Group(b, m, keyed), T, A)
  /\ R = SubSeq(T, TimesTaken(Group(b, m, keyed), Len(Group(b, m, keyed))) + 1, Len(T))
  /\ c = SubSeq(b, m + 1, Len(b))

(* What stays is what was after the first m.                                *)
Cut(b, m, T, c, R) ==
  /\ Len(b) \in Nat /\ Len(T) \in Nat /\ m \in Nat \ {0} /\ m <= Len(b)
  /\ Len(c) = Len(b) - m /\ \A i \in 1..Len(c) : c[i] = b[m + i] /\ m + i \in 1..Len(b)
  /\ Len(R) = Len(T) - m /\ \A i \in 1..Len(R) : R[i] = T[m + i] /\ m + i \in 1..Len(T)

(* Packets shown follow those of q, and stand for the frames before m.      *)
LEMMA GroupLeaves ==
  ASSUME NEW b, NEW n, NEW A, NEW T, NEW q, NEW s, Held(b, n, A, T, q, s),
         NEW m, NEW keyed, NEW c, NEW R, NEW r, Leaves(b, m, keyed, A, T, q, c, R, r)
  PROVE  /\ Held(c, n, A, R, r, s) /\ Cut(b, m, T, c, R)
         /\ \E B, P : Emits(b, m, keyed, A, T, B, P) /\ r = q \o P
<1> DEFINE B == Group(b, m, keyed)
           P == Packets(B, T, A)
<1> HIDE DEF B, P
<1>1. /\ b \in Seq(Nat) /\ A \in Seq(Nat) /\ T \in Seq(Nat) /\ q \in Seq(Out)
      /\ n \in Nat /\ s \in Nat /\ Len(A) = n
  BY DEF Held, Typed, Numbered
<1>2. /\ Len(b) \in Nat /\ Len(b) <= n /\ Len(T) \in Nat /\ Len(b) <= Len(T) /\ Len(q) \in Nat
      /\ m \in Nat \ {0} /\ m <= Len(b) /\ n \in Nat
  BY <1>1, LenProperties DEF Held, Numbered, Timed, Leaves
<1>3. (\A i \in 1..n : A[i] \in Nat) /\ \A i \in 1..Len(T) : T[i] \in Nat
  BY <1>1, ElementOfSeq
<1>4. \A i \in 1..Len(b) : b[i] = n - Len(b) + i - 1
  BY DEF Held, Numbered
<1>5. Increasing(A) /\ Increasing(T) /\ (\A i \in 1..n : A[i] <= s) /\ \A i \in 1..Len(T) : T[i] <= s
  BY <1>1 DEF Held, Numbered, Timed
<1>6. ASSUME NEW x \in 1..Len(b)
      PROVE  /\ b[x] + 1 = n - Len(b) + x /\ b[x] + 1 \in 1..n /\ x \in 1..Len(T)
             /\ A[b[x] + 1] \in Nat /\ A[b[x] + 1] <= s
             /\ T[x] \in Nat /\ T[x] <= s
  <2>1. b[x] = n - Len(b) + x - 1
    BY <1>4
  <2>2. b[x] + 1 = n - Len(b) + x /\ b[x] + 1 \in 1..n /\ x \in 1..Len(T)
    BY <1>2, <2>1
  <2> QED
    BY <1>3, <1>5, <2>2
<1>7. ASSUME NEW x \in 1..Len(b), NEW y \in 1..Len(b), x < y
      PROVE  A[b[x] + 1] < A[b[y] + 1] /\ T[x] < T[y]
  <2>1. b[x] + 1 = n - Len(b) + x /\ b[x] + 1 \in 1..n /\ x \in 1..Len(T)
    BY <1>6
  <2>2. b[y] + 1 = n - Len(b) + y /\ b[y] + 1 \in 1..n /\ y \in 1..Len(T)
    BY <1>6
  <2>3. b[x] + 1 < b[y] + 1
    BY <1>1, <1>2, <1>7, <2>1, <2>2
  <2>4. A[b[x] + 1] < A[b[y] + 1]
    BY <1>1, <1>5, <2>1, <2>2, <2>3 DEF Increasing
  <2>5. T[x] < T[y]
    BY <1>5, <1>7, <2>1, <2>2 DEF Increasing
  <2> QED
    BY <2>4, <2>5
<1>8. Emits(b, m, keyed, A, T, B, P)
  <2>1. B = Group(b, m, keyed) /\ P = Packets(B, T, A)
    BY DEF B, P
  <2>2. m \in 1..Len(b) /\ keyed \in BOOLEAN /\ size \in Widths \X Heights
    BY DEF Leaves
  <2> QED
    BY <2>1, <2>2, GroupOut
<1>9. R = SubSeq(T, m + 1, Len(T)) /\ c = SubSeq(b, m + 1, Len(b)) /\ r = q \o P
  BY <1>8 DEF Leaves, B, P, Emits
<1>10. R \in Seq(Nat) /\ Len(R) = Len(T) - m /\ \A i \in 1..Len(R) : R[i] = T[m + i] /\ m + i \in 1..Len(T)
  <2>1. \A i \in m + 1..Len(T) : T[i] \in Nat
    BY <1>2, <1>3
  <2>2. m + 1 \in Int /\ Len(T) \in Int /\ Len(T) - (m + 1) + 1 = Len(T) - m /\ m <= Len(T)
    BY <1>2
  <2>4. R = SubSeq(T, m + 1, Len(T))
    BY <1>9
  <2>5. /\ R \in Seq(Nat) /\ Len(R) = IF m + 1 <= Len(T) THEN Len(T) - (m + 1) + 1 ELSE 0
        /\ \A i \in 1..Len(T) - (m + 1) + 1 : R[i] = T[m + 1 + i - 1]
    BY <2>1, <2>2, <2>4, SubSeqProperties
  <2>6. m \in Nat /\ Len(T) \in Nat /\ m <= Len(T)
    BY <1>2
  <2>7. Len(R) = Len(T) - m
    BY <2>5, <2>6
  <2>8. ASSUME NEW i \in 1..Len(T) - m PROVE R[i] = T[m + i]
    <3>1. i \in 1..Len(T) - (m + 1) + 1 /\ m + 1 + i - 1 = m + i
      BY <2>6
    <3> QED
      BY <2>5, <3>1
  <2>3. R \in Seq(Nat) /\ Len(R) = Len(T) - m /\ \A i \in 1..Len(T) - m : R[i] = T[m + i]
    BY <2>5, <2>7, <2>8
  <2> QED
    BY <1>2, <2>3
<1>11. c \in Seq(Nat) /\ Len(c) = Len(b) - m /\ \A i \in 1..Len(c) : c[i] = b[m + i] /\ m + i \in 1..Len(b)
  <2>1. ASSUME NEW i \in m + 1..Len(b) PROVE b[i] \in Nat
    <3>1. i \in 1..Len(b)
      BY <1>2
    <3> QED
      BY <1>1, <3>1, ElementOfSeq
  <2>3. m + 1 \in Int /\ Len(b) \in Int
    BY <1>2
  <2>4. c = SubSeq(b, m + 1, Len(b))
    BY <1>9
  <2>5. /\ c \in Seq(Nat) /\ Len(c) = IF m + 1 <= Len(b) THEN Len(b) - (m + 1) + 1 ELSE 0
        /\ \A i \in 1..Len(b) - (m + 1) + 1 : c[i] = b[m + 1 + i - 1]
    BY <2>1, <2>3, <2>4, SubSeqProperties
  <2>6. m \in Nat /\ Len(b) \in Nat /\ m <= Len(b)
    BY <1>2
  <2>7. Len(c) = Len(b) - m
    BY <2>5, <2>6
  <2>8. ASSUME NEW i \in 1..Len(b) - m PROVE c[i] = b[m + i]
    <3>1. i \in 1..Len(b) - (m + 1) + 1 /\ m + 1 + i - 1 = m + i
      BY <2>6
    <3> QED
      BY <2>5, <3>1
  <2>2. c \in Seq(Nat) /\ Len(c) = Len(b) - m /\ \A i \in 1..Len(b) - m : c[i] = b[m + i]
    BY <2>5, <2>7, <2>8
  <2> QED
    BY <1>2, <2>2
<1>12. /\ r \in Seq(Out) /\ Len(r) = Len(q) + Len(P)
       /\ \A i \in 1..Len(q) : r[i] = q[i]
       /\ \A i \in 1..Len(P) : r[Len(q) + i] = P[i]
  <2>1. r = q \o P /\ P \in Seq(Out) /\ q \in Seq(Out)
    BY <1>1, <1>8, <1>9 DEF Emits
  <2> QED
    BY <2>1, Joined
<1>13. \A k \in 1..Len(r) : k \in 1..Len(q) \/ (k - Len(q) \in 1..Len(P) /\ Len(q) + (k - Len(q)) = k)
  BY <1>2, <1>8, <1>12 DEF Emits
<1>14. Typed(c, n, A, R, r, s)
  BY <1>1, <1>10, <1>11, <1>12 DEF Typed
<1>15. Numbered(c, n, A, s)
  <2>1. Len(c) <= n /\ n <= s /\ Len(A) = n
    BY <1>1, <1>2, <1>11 DEF Held, Numbered
  <2>2. ASSUME NEW i \in 1..Len(c) PROVE c[i] = n - Len(c) + i - 1
    <3>1. c[i] = b[m + i] /\ m + i \in 1..Len(b)
      BY <1>11
    <3>2. b[m + i] = n - Len(b) + (m + i) - 1
      BY <1>4, <3>1
    <3> QED
      BY <1>1, <1>2, <1>11, <3>1, <3>2
  <2> QED
    BY <1>1, <1>5, <2>1, <2>2 DEF Numbered
<1>16. Timed(c, R, s)
  <2>1. Len(c) <= Len(R)
    BY <1>2, <1>10, <1>11
  <2>2. \A i \in 1..Len(R) : R[i] <= s
    BY <1>5, <1>10
  <2>3. ASSUME NEW i \in 1..Len(R), NEW j \in 1..Len(R), i < j PROVE R[i] < R[j]
    <3>1. m + i < m + j /\ m + i \in 1..Len(T) /\ m + j \in 1..Len(T)
      BY <1>2, <1>10, <2>3
    <3> QED
      BY <1>5, <1>10, <3>1 DEF Increasing
  <2> QED
    BY <2>1, <2>2, <2>3 DEF Timed, Increasing
<1>17. /\ \A i \in 1..Len(q) :
            Shows(q[i]) =>
              /\ q[i].pts \in Nat /\ q[i].frame <= s /\ q[i].pts <= s
              /\ \A j \in 1..Len(T) : q[i].pts < T[j]
              /\ \A j \in 1..Len(b) : q[i].frame < A[b[j] + 1]
       /\ \A i, j \in 1..Len(q) :
            i < j /\ Shows(q[i]) /\ Shows(q[j]) => q[i].frame < q[j].frame /\ q[i].pts < q[j].pts
  BY DEF Held, Behind
<1>18. ASSUME NEW k \in 1..Len(r), Shows(r[k])
       PROVE  /\ r[k].pts \in Nat /\ r[k].frame <= s /\ r[k].pts <= s
              /\ \A j \in 1..Len(R) : r[k].pts < R[j]
              /\ \A j \in 1..Len(c) : r[k].frame < A[c[j] + 1]
  <2>1. CASE k \in 1..Len(q)
    BY <1>10, <1>11, <1>12, <1>17, <1>18, <2>1
  <2>2. CASE k - Len(q) \in 1..Len(P) /\ Len(q) + (k - Len(q)) = k
    <3> DEFINE i == k - Len(q)
    <3>1. r[k] = P[i] /\ i \in 1..Len(P)
      BY <1>12, <2>2
    <3> HIDE DEF i
    <3>2. SourceOf(b, m, keyed, i) \in 1..m /\ r[k].frame = A[b[SourceOf(b, m, keyed, i)] + 1] /\ r[k].pts = T[SourceOf(b, m, keyed, i)]
      BY <1>8, <1>18, <3>1 DEF Emits
    <3>3. SourceOf(b, m, keyed, i) \in 1..Len(b)
      BY <1>2, <3>2
    <3>4. \A j \in 1..Len(R) : r[k].pts < R[j]
      <4> TAKE j \in 1..Len(R)
      <4>1. SourceOf(b, m, keyed, i) < m + j /\ m + j \in 1..Len(T) /\ R[j] = T[m + j] /\ SourceOf(b, m, keyed, i) \in 1..Len(T)
        BY <1>2, <1>10, <3>2
      <4> QED
        BY <1>5, <3>2, <4>1 DEF Increasing
    <3>5. \A j \in 1..Len(c) : r[k].frame < A[c[j] + 1]
      <4> TAKE j \in 1..Len(c)
      <4>2. c[j] = b[m + j] /\ m + j \in 1..Len(b)
        BY <1>11
      <4>3. SourceOf(b, m, keyed, i) \in 1..m /\ j \in 1..Len(b) - m
        BY <1>11, <3>2
      <4>1. SourceOf(b, m, keyed, i) < m + j /\ m + j \in 1..Len(b) /\ c[j] = b[m + j]
        BY <1>2, <4>2, <4>3
      <4> QED
        BY <1>7, <3>2, <3>3, <4>1
    <3> QED
      BY <1>6, <3>2, <3>3, <3>4, <3>5
  <2> QED
    BY <1>13, <2>1, <2>2
<1>19. ASSUME NEW k \in 1..Len(r), NEW l \in 1..Len(r), k < l, Shows(r[k]), Shows(r[l])
       PROVE  r[k].frame < r[l].frame /\ r[k].pts < r[l].pts
  <2> DEFINE i == k - Len(q)
             j == l - Len(q)
  <2>1. CASE l \in 1..Len(q)
    <3>1. k \in 1..Len(q)
      BY <1>2, <1>12, <1>19, <2>1
    <3> QED
      BY <1>12, <1>17, <1>19, <2>1, <3>1
  <2>2. CASE j \in 1..Len(P) /\ Len(q) + j = l
    <3>1. r[l] = P[j]
      BY <1>12, <2>2
    <3>2. SourceOf(b, m, keyed, j) \in 1..m /\ r[l].frame = A[b[SourceOf(b, m, keyed, j)] + 1] /\ r[l].pts = T[SourceOf(b, m, keyed, j)]
      BY <1>8, <1>19, <2>2, <3>1 DEF Emits
    <3>3. SourceOf(b, m, keyed, j) \in 1..Len(b) /\ SourceOf(b, m, keyed, j) \in 1..Len(T)
      BY <1>2, <3>2
    <3>4. CASE k \in 1..Len(q)
      BY <1>12, <1>17, <1>19, <3>2, <3>3, <3>4
    <3>5. CASE i \in 1..Len(P) /\ Len(q) + i = k
      <4>1. r[k] = P[i] /\ i < j
        BY <1>2, <1>12, <1>19, <3>5
      <4>2. SourceOf(b, m, keyed, i) \in 1..m /\ r[k].frame = A[b[SourceOf(b, m, keyed, i)] + 1] /\ r[k].pts = T[SourceOf(b, m, keyed, i)] /\ SourceOf(b, m, keyed, i) < SourceOf(b, m, keyed, j)
        BY <1>8, <1>19, <2>2, <3>1, <3>5, <4>1 DEF Emits
      <4>3. SourceOf(b, m, keyed, i) \in 1..Len(b)
        BY <1>2, <4>2
      <4> QED
        BY <1>7, <3>2, <3>3, <4>2, <4>3
    <3> QED
      BY <1>13, <3>4, <3>5
  <2> QED
    BY <1>13, <2>1, <2>2
<1>20. Behind(c, A, R, r, s)
  BY <1>18, <1>19 DEF Behind
<1>21. Cut(b, m, T, c, R)
  BY <1>2, <1>10, <1>11 DEF Cut
<1>22. \E BB, PP : Emits(b, m, keyed, A, T, BB, PP) /\ r = q \o PP
  BY <1>8, <1>9
<1> QED
  BY <1>14, <1>15, <1>16, <1>20, <1>21, <1>22 DEF Held
-----------------------------------------------------------------------------
(* What is also true while no call has failed: the times are those of the   *)
(* frames inside, and the frames of a stream are the last that were sent.   *)
Exact(b, A, T, s) ==
  /\ Len(T) = Len(b)
  /\ \A i \in 1..Len(b) : T[i] = A[b[i] + 1]
  /\ \A i \in 1..Len(A) : A[i] = s - Len(A) + i

(* The packet before the one at place i of those that wait.                 *)
Line(q, prev, i) == IF i = 0 THEN prev ELSE q[i]

(* Sizes change at key frames only, and the last packet shows the frame     *)
(* before those inside, at the size of its stream.                          *)
Sized(q, prev, b, n, s, z) ==
  /\ \A i \in 1..Len(q) :
       Line(q, prev, i - 1) # NoPacket /\ q[i].size # Line(q, prev, i - 1).size => q[i].kind = "key"
  /\ s > Len(b) => Line(q, prev, Len(q)) # NoPacket /\ Line(q, prev, Len(q)).frame = s - Len(b)
  /\ n > Len(b) => Line(q, prev, Len(q)).size = z

LEMMA GroupExact ==
  ASSUME NEW b, NEW n, NEW A, NEW T, NEW q, NEW s, Held(b, n, A, T, q, s),
         NEW m, NEW keyed, NEW c, NEW R, NEW r, Leaves(b, m, keyed, A, T, q, c, R, r),
         Exact(b, A, T, s)
  PROVE  Exact(c, A, R, s)
<1>1. Cut(b, m, T, c, R)
  BY GroupLeaves
<1>2. Len(T) = Len(b) /\ Len(R) = Len(c) /\ \A i \in 1..Len(A) : A[i] = s - Len(A) + i
  BY <1>1 DEF Cut, Exact
<1>3. ASSUME NEW i \in 1..Len(c) PROVE R[i] = A[c[i] + 1]
  <2>1. c[i] = b[m + i] /\ m + i \in 1..Len(b) /\ R[i] = T[m + i]
    BY <1>1, <1>2 DEF Cut
  <2>2. T[m + i] = A[b[m + i] + 1]
    BY <2>1 DEF Exact
  <2> QED
    BY <2>1, <2>2
<1> QED
  BY <1>2, <1>3 DEF Exact

KeyedFirst(b, keyed) == b[1] = 0 => keyed = TRUE

LEMMA GroupSized ==
  ASSUME NEW b, NEW n, NEW A, NEW T, NEW q, NEW s, Held(b, n, A, T, q, s),
         NEW m, NEW keyed, NEW c, NEW R, NEW r, Leaves(b, m, keyed, A, T, q, c, R, r),
         Exact(b, A, T, s), NEW prev, Sized(q, prev, b, n, s, size),
         KeyedFirst(b, keyed)
  PROVE  Sized(r, prev, c, n, s, size)
<1>1. Cut(b, m, T, c, R)
  BY GroupLeaves
<1>2. PICK B, P : Emits(b, m, keyed, A, T, B, P) /\ r = q \o P
  BY GroupLeaves
<1>3. /\ n \in Nat /\ s \in Nat /\ Len(A) = n /\ Len(b) <= n /\ n <= s
      /\ \A i \in 1..Len(b) : b[i] = n - Len(b) + i - 1
  BY DEF Held, Typed, Numbered
<1>4. /\ Len(b) \in Nat /\ m \in Nat \ {0} /\ m <= Len(b) /\ Len(c) = Len(b) - m
  BY <1>1 DEF Cut
<1>5. /\ P \in Seq(Out) /\ Len(P) \in Nat \ {0}
      /\ \A i \in 1..Len(P) : P[i].size = size
      /\ P[Len(P)].frame = A[b[m] + 1]
      /\ keyed = TRUE => P[1].kind = "key"
  <2>1. Len(P) \in 1..Len(P)
    BY <1>2 DEF Emits
  <2> QED
    BY <1>2, <2>1 DEF Emits
<1>6. q \in Seq(Out) /\ Len(q) \in Nat
  <2>1. q \in Seq(Out)
    BY DEF Held, Typed
  <2> QED
    BY <2>1, LenProperties
<1>7. /\ Len(r) = Len(q) + Len(P)
      /\ \A i \in 1..Len(q) : r[i] = q[i]
      /\ \A i \in 1..Len(P) : r[Len(q) + i] = P[i]
  <2>1. P \in Seq(Out) /\ q \in Seq(Out) /\ r = q \o P
    BY <1>2, <1>5, <1>6
  <2> QED
    BY <2>1, Joined
<1>8. \A i \in 0..Len(q) : Line(r, prev, i) = Line(q, prev, i)
  BY <1>6, <1>7 DEF Line
<1>9. n > Len(b) => Line(q, prev, Len(q)).size = size
  BY DEF Sized
<1>10. ASSUME NEW k \in 1..Len(r), Line(r, prev, k - 1) # NoPacket, r[k].size # Line(r, prev, k - 1).size
       PROVE  r[k].kind = "key"
  <2>1. CASE k \in 1..Len(q)
    <3>1. r[k] = q[k] /\ Line(r, prev, k - 1) = Line(q, prev, k - 1)
      BY <1>6, <1>7, <1>8, <2>1
    <3> QED
      BY <1>10, <2>1, <3>1 DEF Sized
  <2>2. CASE k = Len(q) + 1
    <3>1. r[k] = P[1] /\ 1 \in 1..Len(P)
      BY <1>5, <1>7, <2>2
    <3>2. Line(r, prev, k - 1) = Line(q, prev, Len(q))
      BY <1>6, <1>8, <2>2
    <3>3. ~(n > Len(b))
      BY <1>5, <1>9, <1>10, <3>1, <3>2
    <3>4. b[1] = 0
      <4>1. 1 \in 1..Len(b)
        BY <1>4
      <4>2. b[1] = n - Len(b) + 1 - 1
        BY <1>3, <4>1
      <4>3. n \in Nat /\ Len(b) <= n /\ Len(b) \in Nat
        BY <1>3, <1>4
      <4> QED
        BY <3>3, <4>2, <4>3
    <3> QED
      BY <1>5, <3>1, <3>4 DEF KeyedFirst
  <2>3. CASE k \in Len(q) + 2..Len(r)
    <3> DEFINE j == k - Len(q)
    <3>4. Len(P) \in Nat /\ Len(q) \in Nat /\ Len(r) = Len(q) + Len(P)
      BY <1>5, <1>6, <1>7
    <3>1. j \in 1..Len(P) /\ j - 1 \in 1..Len(P) /\ Len(q) + j = k /\ Len(q) + (j - 1) = k - 1 /\ k - 1 # 0
      BY <2>3, <3>4
    <3> HIDE DEF j
    <3>2. r[k] = P[j]
      BY <1>7, <3>1
    <3>3. Line(r, prev, k - 1) = P[j - 1]
      BY <1>7, <3>1 DEF Line
    <3> QED
      BY <1>5, <1>10, <3>1, <3>2, <3>3
  <2> QED
    BY <1>5, <1>6, <1>7, <2>1, <2>2, <2>3
<1>11. Line(r, prev, Len(r)) = P[Len(P)]
  <2>1. Len(P) \in 1..Len(P) /\ Len(r) # 0
    BY <1>5, <1>6, <1>7
  <2> QED
    BY <1>7, <2>1 DEF Line
<1>12. P[Len(P)] # NoPacket /\ P[Len(P)].size = size
  <2>1. Len(P) \in 1..Len(P)
    BY <1>5
  <2>2. P[Len(P)] \in Out
    BY <1>5, <2>1, ElementOfSeq
  <2> QED
    BY <1>5, <2>1, <2>2, AdaptersAssumption DEF Out, Kinds
<1>13. P[Len(P)].frame = s - Len(c)
  <2>1. b[m] = n - Len(b) + m - 1
    BY <1>3, <1>4
  <2>2. b[m] + 1 \in 1..Len(A)
    BY <1>3, <1>4, <2>1
  <2>3. A[b[m] + 1] = s - Len(A) + (b[m] + 1)
    BY <2>2 DEF Exact
  <2>4. n \in Nat /\ s \in Nat /\ Len(A) = n /\ Len(b) \in Nat /\ m \in Nat /\ Len(c) = Len(b) - m
    BY <1>3, <1>4
  <2>5. P[Len(P)].frame = s - Len(A) + (b[m] + 1)
    BY <1>5, <2>3
  <2> QED
    BY <2>1, <2>4, <2>5
<1> QED
  BY <1>10, <1>11, <1>12, <1>13 DEF Sized

-----------------------------------------------------------------------------
(* A frame arrives, with its number for a time.                             *)
Arrives(b, n, A, T, s, c, B, R) ==
  /\ c = Append(b, n) /\ B = Append(A, s + 1) /\ R = Append(T, s + 1)

LEMMA Appended ==
  ASSUME NEW a \in Seq(Nat), NEW x \in Nat
  PROVE  /\ Append(a, x) \in Seq(Nat) /\ Len(a) \in Nat /\ Len(Append(a, x)) = Len(a) + 1
         /\ \A i \in 1..Len(a) : Append(a, x)[i] = a[i]
         /\ Append(a, x)[Len(a) + 1] = x
  BY AppendProperties, LenProperties

LEMMA GrowsUpwards ==
  ASSUME NEW a \in Seq(Nat), NEW s \in Nat, Increasing(a), \A i \in 1..Len(a) : a[i] <= s
  PROVE  /\ Increasing(Append(a, s + 1))
         /\ \A i \in 1..Len(Append(a, s + 1)) : Append(a, s + 1)[i] <= s + 1
<1> DEFINE t == Append(a, s + 1)
<1>1. /\ Len(a) \in Nat /\ Len(t) = Len(a) + 1 /\ t[Len(a) + 1] = s + 1
      /\ \A i \in 1..Len(a) : t[i] = a[i] /\ a[i] \in Nat
  BY Appended, ElementOfSeq
<1> HIDE DEF t
<1>2. ASSUME NEW i \in 1..Len(a) PROVE t[i] \in Nat /\ t[i] <= s
  BY <1>1
<1>3. ASSUME NEW i \in 1..Len(t), NEW j \in 1..Len(t), i < j PROVE t[i] < t[j]
  <2>1. i \in 1..Len(a)
    BY <1>1, <1>3
  <2>2. CASE j \in 1..Len(a)
    BY <1>1, <1>3, <2>1, <2>2 DEF Increasing
  <2>3. CASE j = Len(a) + 1
    BY <1>1, <2>1, <2>3
  <2> QED
    BY <1>1, <2>2, <2>3
<1>4. \A i \in 1..Len(t) : t[i] <= s + 1
  <2> TAKE i \in 1..Len(t)
  <2>1. CASE i \in 1..Len(a)
    <3>1. t[i] \in Nat /\ t[i] <= s
      BY <1>2, <2>1
    <3> QED
      BY <3>1
  <2>2. CASE i = Len(a) + 1
    BY <1>1, <2>2
  <2> QED
    BY <1>1, <2>1, <2>2
<1> QED
  BY <1>3, <1>4 DEF t, Increasing

LEMMA FrameArrives ==
  ASSUME NEW b, NEW n, NEW A, NEW T, NEW q, NEW s, Held(b, n, A, T, q, s),
         NEW c, NEW B, NEW R, Arrives(b, n, A, T, s, c, B, R)
  PROVE  /\ Held(c, n + 1, B, R, q, s + 1)
         /\ Exact(b, A, T, s) => Exact(c, B, R, s + 1)
         /\ \A prev, z : Sized(q, prev, b, n, s, z) => Sized(q, prev, c, n + 1, s + 1, z)
         /\ Len(b) \in Nat /\ Len(c) = Len(b) + 1 /\ Len(b) <= n /\ n \in Nat
<1>1. /\ b \in Seq(Nat) /\ n \in Nat /\ A \in Seq(Nat) /\ T \in Seq(Nat)
      /\ q \in Seq(Out) /\ s \in Nat /\ s + 1 \in Nat
  BY DEF Held, Typed
<1>2. /\ c \in Seq(Nat) /\ Len(b) \in Nat /\ Len(c) = Len(b) + 1 /\ c[Len(b) + 1] = n
      /\ \A i \in 1..Len(b) : c[i] = b[i]
  BY <1>1, Appended DEF Arrives
<1>3. /\ B \in Seq(Nat) /\ Len(A) \in Nat /\ Len(B) = Len(A) + 1 /\ B[Len(A) + 1] = s + 1
      /\ \A i \in 1..Len(A) : B[i] = A[i]
  BY <1>1, Appended DEF Arrives
<1>4. /\ R \in Seq(Nat) /\ Len(T) \in Nat /\ Len(R) = Len(T) + 1 /\ R[Len(T) + 1] = s + 1
      /\ \A i \in 1..Len(T) : R[i] = T[i]
  BY <1>1, Appended DEF Arrives
<1>5. /\ Len(A) = n /\ Len(b) <= n /\ n <= s /\ Len(b) <= Len(T)
      /\ \A i \in 1..Len(b) : b[i] = n - Len(b) + i - 1
      /\ Increasing(A) /\ Increasing(T)
      /\ (\A i \in 1..Len(A) : A[i] <= s) /\ \A i \in 1..Len(T) : T[i] <= s
  BY DEF Held, Numbered, Timed
<1>6. ASSUME NEW i \in 1..Len(c) PROVE c[i] = (n + 1) - Len(c) + i - 1
  <2>0. n \in Nat /\ Len(b) \in Nat /\ Len(c) = Len(b) + 1
    BY <1>1, <1>2
  <2>1. CASE i \in 1..Len(b)
    <3>1. c[i] = b[i] /\ b[i] = n - Len(b) + i - 1
      BY <1>2, <1>5, <2>1
    <3> QED
      BY <2>0, <3>1
  <2>2. CASE i = Len(b) + 1
    <3>1. c[i] = n
      BY <1>2, <2>2
    <3> QED
      BY <2>0, <2>2, <3>1
  <2> QED
    BY <2>0, <2>1, <2>2
<1>7. /\ Increasing(B) /\ \A i \in 1..Len(B) : B[i] <= s + 1
      /\ Increasing(R) /\ \A i \in 1..Len(R) : R[i] <= s + 1
  BY <1>1, <1>5, GrowsUpwards DEF Arrives
<1>8. Typed(c, n + 1, B, R, q, s + 1)
  BY <1>1, <1>2, <1>3, <1>4 DEF Typed
<1>9. Numbered(c, n + 1, B, s + 1)
  <2>1. Len(B) = n + 1 /\ Len(c) <= n + 1 /\ n + 1 <= s + 1
    BY <1>1, <1>2, <1>3, <1>5
  <2> QED
    BY <1>6, <1>7, <2>1 DEF Numbered
<1>10. Timed(c, R, s + 1)
  <2>1. Len(c) <= Len(R)
    BY <1>2, <1>4, <1>5
  <2> QED
    BY <1>7, <2>1 DEF Timed
<1>11. ASSUME NEW x \in 1..Len(b) PROVE b[x] + 1 \in 1..Len(A)
  <2>1. b[x] = n - Len(b) + x - 1
    BY <1>5
  <2>2. n \in Nat /\ Len(b) \in Nat /\ Len(b) <= n /\ Len(A) = n
    BY <1>1, <1>2, <1>5
  <2> QED
    BY <2>1, <2>2
<1>12. Behind(c, B, R, q, s + 1)
  <2>1. ASSUME NEW i \in 1..Len(q), Shows(q[i])
        PROVE  /\ q[i].pts \in Nat /\ q[i].frame <= s + 1 /\ q[i].pts <= s + 1
               /\ \A j \in 1..Len(R) : q[i].pts < R[j]
               /\ \A j \in 1..Len(c) : q[i].frame < B[c[j] + 1]
    <3>1. /\ q[i].pts \in Nat /\ q[i].frame <= s /\ q[i].pts <= s
          /\ \A j \in 1..Len(T) : q[i].pts < T[j]
          /\ \A j \in 1..Len(b) : q[i].frame < A[b[j] + 1]
      BY <2>1 DEF Held, Behind
    <3>6. q[i] \in Out
      BY <1>1, ElementOfSeq
    <3>2. q[i].frame \in Nat
      BY <3>6 DEF Out
    <3>3. ASSUME NEW j \in 1..Len(R) PROVE q[i].pts < R[j]
      <4>1. CASE j \in 1..Len(T)
        BY <1>4, <3>1, <4>1
      <4>2. CASE j = Len(T) + 1
        BY <1>1, <1>4, <3>1, <4>2
      <4> QED
        BY <1>4, <4>1, <4>2
    <3>4. ASSUME NEW j \in 1..Len(c) PROVE q[i].frame < B[c[j] + 1]
      <4>1. CASE j \in 1..Len(b)
        BY <1>2, <1>3, <1>11, <3>1, <4>1
      <4>2. CASE j = Len(b) + 1
        <5>1. B[c[j] + 1] = s + 1
          BY <1>2, <1>3, <1>5, <4>2
        <5> QED
          BY <1>1, <3>1, <3>2, <5>1
      <4> QED
        BY <1>2, <4>1, <4>2
    <3>5. q[i].frame <= s + 1 /\ q[i].pts <= s + 1
      BY <1>1, <3>1, <3>2
    <3> QED
      BY <3>1, <3>3, <3>4, <3>5
  <2>2. \A i, j \in 1..Len(q) :
          i < j /\ Shows(q[i]) /\ Shows(q[j]) => q[i].frame < q[j].frame /\ q[i].pts < q[j].pts
    BY DEF Held, Behind
  <2> QED
    BY <2>1, <2>2 DEF Behind
<1>13. ASSUME Exact(b, A, T, s) PROVE Exact(c, B, R, s + 1)
  <2>1. Len(T) = Len(b) /\ \A i \in 1..Len(A) : A[i] = s - Len(A) + i
    BY <1>13 DEF Exact
  <2>2. ASSUME NEW i \in 1..Len(c) PROVE R[i] = B[c[i] + 1]
    <3>1. CASE i \in 1..Len(b)
      <4>1. R[i] = T[i] /\ c[i] = b[i] /\ T[i] = A[b[i] + 1]
        BY <1>2, <1>4, <1>13, <2>1, <3>1 DEF Exact
      <4>2. B[b[i] + 1] = A[b[i] + 1]
        BY <1>3, <1>11, <3>1
      <4> QED
        BY <4>1, <4>2
    <3>2. CASE i = Len(b) + 1
      BY <1>2, <1>3, <1>4, <1>5, <2>1, <3>2
    <3> QED
      BY <1>2, <3>1, <3>2
  <2>3. ASSUME NEW i \in 1..Len(B) PROVE B[i] = (s + 1) - Len(B) + i
    <3>0. s \in Nat /\ Len(A) \in Nat /\ Len(B) = Len(A) + 1
      BY <1>1, <1>3
    <3>1. CASE i \in 1..Len(A)
      <4>1. B[i] = A[i] /\ A[i] = s - Len(A) + i
        BY <1>3, <2>1, <3>1
      <4> QED
        BY <3>0, <4>1
    <3>2. CASE i = Len(A) + 1
      <4>1. B[i] = s + 1
        BY <1>3, <3>2
      <4> QED
        BY <3>0, <3>2, <4>1
    <3> QED
      BY <3>0, <3>1, <3>2
  <2>4. Len(R) = Len(c)
    BY <1>2, <1>4, <2>1
  <2> QED
    BY <2>2, <2>3, <2>4 DEF Exact
<1>14. ASSUME NEW prev, NEW z, Sized(q, prev, b, n, s, z) PROVE Sized(q, prev, c, n + 1, s + 1, z)
  <2>1. s + 1 > Len(c) <=> s > Len(b)
    BY <1>1, <1>2
  <2>2. n + 1 > Len(c) <=> n > Len(b)
    BY <1>1, <1>2
  <2>3. s + 1 - Len(c) = s - Len(b)
    BY <1>1, <1>2
  <2> DEFINE u == s + 1
             v == n + 1
  <2>4. \A i \in 1..Len(q) :
          Line(q, prev, i - 1) # NoPacket /\ q[i].size # Line(q, prev, i - 1).size => q[i].kind = "key"
    BY <1>14 DEF Sized
  <2>5. u > Len(c) => Line(q, prev, Len(q)) # NoPacket /\ Line(q, prev, Len(q)).frame = u - Len(c)
    <3>1. s > Len(b) => Line(q, prev, Len(q)) # NoPacket /\ Line(q, prev, Len(q)).frame = s - Len(b)
      BY <1>14 DEF Sized
    <3>3. u = s + 1 /\ s \in Nat /\ Len(b) \in Nat /\ Len(c) = Len(b) + 1
      BY <1>1, <1>2
    <3>2. (u > Len(c) <=> s > Len(b)) /\ u - Len(c) = s - Len(b)
      BY <3>3
    <3> HIDE DEF u
    <3> QED
      BY <3>1, <3>2
  <2>6. v > Len(c) => Line(q, prev, Len(q)).size = z
    BY <1>14, <2>2 DEF Sized
  <2> HIDE DEF u, v
  <2>7. Sized(q, prev, c, v, u, z)
    BY <2>4, <2>5, <2>6 DEF Sized
  <2> QED
    BY <2>7 DEF u, v
<1> QED
  BY <1>1, <1>2, <1>5, <1>8, <1>9, <1>10, <1>12, <1>13, <1>14 DEF Held

(* The frames inside are lost; with none inside, a time may come alone, and *)
(* a new stream may start.                                                  *)
LEMMA FramesLost ==
  ASSUME NEW b, NEW n, NEW A, NEW T, NEW q, NEW s, Held(b, n, A, T, q, s)
  PROVE  Held(<<>>, n, A, T, q, s)
<1>1. <<>> \in Seq(Nat) /\ Len(<<>>) = 0
  OBVIOUS
<1>2. Typed(<<>>, n, A, T, q, s)
  BY <1>1 DEF Held, Typed
<1>3. Len(b) \in Nat /\ Len(T) \in Nat /\ n \in Nat
  BY LenProperties DEF Held, Typed
<1>4. Numbered(<<>>, n, A, s)
  <2>1. Len(A) = n /\ n <= s /\ Increasing(A) /\ \A i \in 1..Len(A) : A[i] <= s
    BY DEF Held, Numbered
  <2> QED
    BY <1>1, <1>3, <2>1 DEF Numbered
<1>5. Timed(<<>>, T, s)
  <2>1. Increasing(T) /\ \A i \in 1..Len(T) : T[i] <= s
    BY DEF Held, Timed
  <2> QED
    BY <1>1, <1>3, <2>1 DEF Timed
<1>6. Behind(<<>>, A, T, q, s)
  <2>1. /\ \A i \in 1..Len(q) :
             Shows(q[i]) =>
               /\ q[i].pts \in Nat /\ q[i].frame <= s /\ q[i].pts <= s
               /\ \A j \in 1..Len(T) : q[i].pts < T[j]
        /\ \A i, j \in 1..Len(q) :
             i < j /\ Shows(q[i]) /\ Shows(q[j]) => q[i].frame < q[j].frame /\ q[i].pts < q[j].pts
    BY DEF Held, Behind
  <2>2. 1..Len(<<>>) = {}
    BY <1>1
  <2> QED
    BY <2>1, <2>2 DEF Behind
<1> QED
  BY <1>2, <1>4, <1>5, <1>6 DEF Held

LEMMA TimeComes ==
  ASSUME NEW n, NEW A, NEW T, NEW q, NEW s, Held(<<>>, n, A, T, q, s)
  PROVE  Held(<<>>, n, A, Append(T, s + 1), q, s + 1)
<1> DEFINE R == Append(T, s + 1)
           u == s + 1
<1>1. /\ n \in Nat /\ A \in Seq(Nat) /\ T \in Seq(Nat) /\ q \in Seq(Out) /\ s \in Nat /\ u \in Nat
      /\ <<>> \in Seq(Nat) /\ Len(<<>>) = 0 /\ 1..Len(<<>>) = {}
  BY DEF Held, Typed
<1>2. /\ R \in Seq(Nat) /\ Len(T) \in Nat /\ Len(R) = Len(T) + 1 /\ R[Len(T) + 1] = u
      /\ \A i \in 1..Len(T) : R[i] = T[i]
  BY <1>1, Appended
<1>3. /\ Len(A) = n /\ n <= s /\ Increasing(A) /\ Increasing(T)
      /\ (\A i \in 1..Len(A) : A[i] <= s) /\ \A i \in 1..Len(T) : T[i] <= s
  BY DEF Held, Numbered, Timed
<1>4. Increasing(R) /\ \A i \in 1..Len(R) : R[i] <= u
  BY <1>1, <1>3, GrowsUpwards
<1> HIDE DEF R
<1>5. Typed(<<>>, n, A, R, q, u)
  BY <1>1, <1>2 DEF Typed
<1>6. \A i \in 1..Len(A) : A[i] <= u
  <2> TAKE i \in 1..Len(A)
  <2>1. A[i] \in Nat /\ A[i] <= s
    BY <1>1, <1>3, ElementOfSeq
  <2> QED
    BY <1>1, <2>1
<1>7. Numbered(<<>>, n, A, u)
  <2>1. Len(<<>>) <= n /\ n <= u
    BY <1>1, <1>3
  <2> QED
    BY <1>1, <1>3, <1>6, <2>1 DEF Numbered
<1>8. Timed(<<>>, R, u)
  BY <1>1, <1>2, <1>4 DEF Timed
<1>9. ASSUME NEW i \in 1..Len(q), Shows(q[i])
      PROVE  /\ q[i].pts \in Nat /\ q[i].frame <= u /\ q[i].pts <= u
             /\ \A j \in 1..Len(R) : q[i].pts < R[j]
  <2>1. /\ q[i].pts \in Nat /\ q[i].frame <= s /\ q[i].pts <= s
        /\ \A j \in 1..Len(T) : q[i].pts < T[j]
    BY <1>9 DEF Held, Behind
  <2>2. q[i] \in Out
    BY <1>1, ElementOfSeq
  <2>3. q[i].frame \in Nat
    BY <2>2 DEF Out
  <2>4. ASSUME NEW j \in 1..Len(R) PROVE q[i].pts < R[j]
    <3>1. CASE j \in 1..Len(T)
      BY <1>2, <2>1, <3>1
    <3>2. CASE j = Len(T) + 1
      BY <1>1, <1>2, <2>1, <3>2
    <3> QED
      BY <1>2, <3>1, <3>2
  <2> QED
    BY <1>1, <2>1, <2>3, <2>4
<1>10. \A i, j \in 1..Len(q) :
         i < j /\ Shows(q[i]) /\ Shows(q[j]) => q[i].frame < q[j].frame /\ q[i].pts < q[j].pts
  BY DEF Held, Behind
<1> HIDE DEF u
<1>11. Behind(<<>>, A, R, q, u)
  BY <1>1, <1>9, <1>10 DEF Behind
<1>12. Held(<<>>, n, A, R, q, u)
  BY <1>5, <1>7, <1>8, <1>11 DEF Held
<1> QED
  BY <1>12 DEF R, u

LEMMA StreamOpens ==
  ASSUME NEW n, NEW A, NEW T, NEW q, NEW s, Held(<<>>, n, A, T, q, s)
  PROVE  /\ Held(<<>>, 0, <<>>, T, q, s)
         /\ Exact(<<>>, A, T, s) => Exact(<<>>, <<>>, T, s)
         /\ \A prev, y, z : Sized(q, prev, <<>>, n, s, y) => Sized(q, prev, <<>>, 0, s, z)
<1>1. <<>> \in Seq(Nat) /\ Len(<<>>) = 0 /\ 1..Len(<<>>) = {} /\ s \in Nat /\ 0 \in Nat
  BY DEF Held, Typed
<1>2. Typed(<<>>, 0, <<>>, T, q, s)
  BY <1>1 DEF Held, Typed
<1>3. Numbered(<<>>, 0, <<>>, s)
  BY <1>1 DEF Numbered, Increasing
<1>4. Timed(<<>>, T, s)
  BY DEF Held
<1>5. Behind(<<>>, <<>>, T, q, s)
  <2>1. Behind(<<>>, A, T, q, s)
    BY DEF Held
  <2> QED
    BY <1>1, <2>1 DEF Behind
<1>6. Exact(<<>>, A, T, s) => Exact(<<>>, <<>>, T, s)
  BY <1>1 DEF Exact
<1>7. ASSUME NEW prev, NEW y, NEW z, Sized(q, prev, <<>>, n, s, y)
      PROVE  Sized(q, prev, <<>>, 0, s, z)
  <2>1. ~(0 > Len(<<>>))
    BY <1>1
  <2> QED
    BY <1>7, <2>1 DEF Sized
<1> QED
  BY <1>2, <1>3, <1>4, <1>5, <1>6, <1>7 DEF Held

(* The immediate adapter's frame goes straight to the packets.              *)
LEMMA FrameCodedNow ==
  ASSUME NEW q, NEW s, Held(<<>>, 0, <<>>, <<>>, q, s), NEW z \in Widths \X Heights,
         NEW r, r = Append(q, [kind |-> "key", size |-> z, frame |-> s + 1, pts |-> s + 1])
  PROVE  /\ Held(<<>>, 0, <<>>, <<>>, r, s + 1)
         /\ \A prev, y : Sized(q, prev, <<>>, 0, s, y) => Sized(r, prev, <<>>, 0, s + 1, y)
<1> DEFINE u == s + 1
           p == [kind |-> "key", size |-> z, frame |-> u, pts |-> u]
<1>1. /\ q \in Seq(Out) /\ s \in Nat /\ u \in Nat /\ u > s
      /\ <<>> \in Seq(Nat) /\ Len(<<>>) = 0 /\ 1..Len(<<>>) = {} /\ 0 \in Nat
  BY DEF Held, Typed
<1>2. p \in Out /\ p.kind = "key" /\ p.frame = u /\ p.pts = u /\ p # NoPacket
  BY <1>1, AdaptersAssumption DEF Out, Kinds
<1>3. r = Append(q, p)
  OBVIOUS
<1> HIDE DEF p
<1>4. /\ r \in Seq(Out) /\ Len(q) \in Nat /\ Len(r) = Len(q) + 1 /\ r[Len(q) + 1] = p
      /\ \A i \in 1..Len(q) : r[i] = q[i]
  BY <1>1, <1>2, <1>3, AppendProperties, LenProperties
<1>5. ASSUME NEW i \in 1..Len(q), Shows(q[i])
      PROVE  /\ q[i].pts \in Nat /\ q[i].frame \in Nat /\ q[i].frame <= s /\ q[i].pts <= s
  <2>1. q[i].pts \in Nat /\ q[i].frame <= s /\ q[i].pts <= s
    BY <1>5 DEF Held, Behind
  <2>2. q[i] \in Out
    BY <1>1, ElementOfSeq
  <2> QED
    BY <2>1, <2>2 DEF Out
<1>6. \A i, j \in 1..Len(q) :
        i < j /\ Shows(q[i]) /\ Shows(q[j]) => q[i].frame < q[j].frame /\ q[i].pts < q[j].pts
  BY DEF Held, Behind
<1>7. Typed(<<>>, 0, <<>>, <<>>, r, u)
  BY <1>1, <1>4 DEF Typed
<1>8. Numbered(<<>>, 0, <<>>, u) /\ Timed(<<>>, <<>>, u)
  BY <1>1 DEF Numbered, Timed, Increasing
<1>9. ASSUME NEW i \in 1..Len(r), Shows(r[i])
      PROVE  r[i].pts \in Nat /\ r[i].frame <= u /\ r[i].pts <= u
  <2>1. CASE i \in 1..Len(q)
    <3>1. r[i] = q[i]
      BY <1>4, <2>1
    <3>2. q[i].pts \in Nat /\ q[i].frame \in Nat /\ q[i].frame <= s /\ q[i].pts <= s
      BY <1>5, <1>9, <2>1, <3>1
    <3> QED
      BY <1>1, <3>1, <3>2
  <2>2. CASE i = Len(q) + 1
    BY <1>1, <1>2, <1>4, <2>2
  <2> QED
    BY <1>4, <2>1, <2>2
<1>10. ASSUME NEW i \in 1..Len(r), NEW j \in 1..Len(r), i < j, Shows(r[i]), Shows(r[j])
       PROVE  r[i].frame < r[j].frame /\ r[i].pts < r[j].pts
  <2>1. i \in 1..Len(q)
    BY <1>4, <1>10
  <2>2. r[i] = q[i]
    BY <1>4, <2>1
  <2>3. q[i].pts \in Nat /\ q[i].frame \in Nat /\ q[i].frame <= s /\ q[i].pts <= s
    BY <1>5, <1>10, <2>1, <2>2
  <2>4. CASE j \in 1..Len(q)
    BY <1>4, <1>6, <1>10, <2>1, <2>2, <2>4
  <2>5. CASE j = Len(q) + 1
    <3>1. r[j].frame = u /\ r[j].pts = u
      BY <1>2, <1>4, <2>5
    <3> QED
      BY <1>1, <2>2, <2>3, <3>1
  <2> QED
    BY <1>4, <2>4, <2>5
<1>11. ASSUME NEW prev, NEW y, Sized(q, prev, <<>>, 0, s, y)
       PROVE  Sized(r, prev, <<>>, 0, u, y)
  <2>1. ASSUME NEW i \in 1..Len(r), Line(r, prev, i - 1) # NoPacket, r[i].size # Line(r, prev, i - 1).size
        PROVE  r[i].kind = "key"
    <3>1. CASE i \in 1..Len(q)
      <4>1. r[i] = q[i] /\ Line(r, prev, i - 1) = Line(q, prev, i - 1)
        BY <1>4, <3>1 DEF Line
      <4> QED
        BY <1>11, <2>1, <3>1, <4>1 DEF Sized
    <3>2. CASE i = Len(q) + 1
      BY <1>2, <1>4, <3>2
    <3> QED
      BY <1>4, <3>1, <3>2
  <2>2. Line(r, prev, Len(r)) = p
    BY <1>4 DEF Line
  <2>3. u - Len(<<>>) = u /\ ~(0 > Len(<<>>))
    BY <1>1
  <2> HIDE DEF u
  <2> QED
    BY <1>2, <2>1, <2>2, <2>3 DEF Sized
<1> HIDE DEF u
<1>12. Behind(<<>>, <<>>, <<>>, r, u)
  BY <1>1, <1>9, <1>10 DEF Behind
<1>13. Held(<<>>, 0, <<>>, <<>>, r, u) /\ \A prev, y : Sized(q, prev, <<>>, 0, s, y) => Sized(r, prev, <<>>, 0, u, y)
  BY <1>7, <1>8, <1>11, <1>12 DEF Held
<1> QED
  BY <1>13 DEF u

(* The first packet is received: what is inside, and it, are right.         *)
GoesOut(b, n, A, T, q, s) ==
  /\ Held(b, n, A, T, Tail(q), s) /\ Head(q) \in Out
  /\ \A prev, z : Sized(q, prev, b, n, s, z) =>
       /\ Sized(Tail(q), Head(q), b, n, s, z)
       /\ prev # NoPacket /\ Head(q).size # prev.size => Head(q).kind = "key"

LEMMA PacketReceived ==
  ASSUME NEW b, NEW n, NEW A, NEW T, NEW q, NEW s, Held(b, n, A, T, q, s), q # <<>>
  PROVE  GoesOut(b, n, A, T, q, s)
<1> DEFINE t == Tail(q)
           h == Head(q)
<1>1. q \in Seq(Out)
  BY DEF Held, Typed
<1>2. Len(q) \in Nat \ {0}
  BY <1>1, EmptySeq
<1>3. /\ t \in Seq(Out) /\ Len(t) = Len(q) - 1 /\ h = q[1] /\ h \in Out
      /\ \A i \in 1..Len(t) : t[i] = q[i + 1]
  BY <1>1, HeadTailProperties
<1> HIDE DEF t, h
<1>4. Typed(b, n, A, T, t, s) /\ Numbered(b, n, A, s) /\ Timed(b, T, s)
  BY <1>3 DEF Held, Typed
<1>5. Behind(b, A, T, t, s)
  <2>1. \A i \in 1..Len(t) : i + 1 \in 1..Len(q) /\ t[i] = q[i + 1]
    BY <1>2, <1>3
  <2>2. \A i, j \in 1..Len(t) : i < j => i + 1 < j + 1
    OBVIOUS
  <2>3. Behind(b, A, T, q, s)
    BY DEF Held
  <2>4. \A i \in 1..Len(t) : Shows(t[i]) =>
          /\ t[i].pts \in Nat /\ t[i].frame <= s /\ t[i].pts <= s
          /\ \A j \in 1..Len(T) : t[i].pts < T[j]
          /\ \A j \in 1..Len(b) : t[i].frame < A[b[j] + 1]
    BY <2>1, <2>3 DEF Behind
  <2>5. \A i, j \in 1..Len(t) :
          i < j /\ Shows(t[i]) /\ Shows(t[j]) => t[i].frame < t[j].frame /\ t[i].pts < t[j].pts
    BY <2>1, <2>2, <2>3 DEF Behind
  <2> QED
    BY <2>4, <2>5 DEF Behind
<1>6. ASSUME NEW prev, NEW z, Sized(q, prev, b, n, s, z)
      PROVE  /\ Sized(t, h, b, n, s, z)
             /\ prev # NoPacket /\ h.size # prev.size => h.kind = "key"
  <2>1. \A i \in 0..Len(t) : Line(t, h, i) = Line(q, prev, i + 1)
    BY <1>2, <1>3 DEF Line
  <2>2. ASSUME NEW i \in 1..Len(t), Line(t, h, i - 1) # NoPacket, t[i].size # Line(t, h, i - 1).size
        PROVE  t[i].kind = "key"
    <3>1. i + 1 \in 1..Len(q) /\ i - 1 \in 0..Len(t) /\ (i + 1) - 1 = i /\ (i - 1) + 1 = i
      BY <1>2, <1>3
    <3>2. t[i] = q[i + 1] /\ Line(t, h, i - 1) = Line(q, prev, (i + 1) - 1)
      BY <1>3, <2>1, <3>1
    <3> QED
      BY <1>6, <2>2, <3>1, <3>2 DEF Sized
  <2>3. Line(t, h, Len(t)) = Line(q, prev, Len(q))
    BY <1>2, <1>3, <2>1
  <2>4. 1 \in 1..Len(q) /\ Line(q, prev, 1 - 1) = prev
    BY <1>2 DEF Line
  <2>5. prev # NoPacket /\ h.size # prev.size => h.kind = "key"
    BY <1>3, <1>6, <2>4 DEF Sized
  <2>6. Sized(t, h, b, n, s, z)
    BY <1>6, <2>2, <2>3 DEF Sized
  <2> QED
    BY <2>5, <2>6
<1> QED
  BY <1>3, <1>4, <1>5, <1>6 DEF Held, GoesOut, t, h

(* A call that gives no packets takes no times.                             *)
LEMMA NothingEmitted ==
  ASSUME NEW T \in Seq(Nat), NEW q \in Seq(Out), NEW A
  PROVE  /\ q \o Packets(<<>>, T, A) = q
         /\ SubSeq(T, TimesTaken(<<>>, Len(<<>>)) + 1, Len(T)) = T
<1>1. Packets(<<>>, T, A) = <<>>
  BY DEF Packets
<1>2. TimesTaken(<<>>, Len(<<>>)) = 0
  <2>1. Len(<<>>) = 0 /\ 1..0 = {}
    OBVIOUS
  <2>2. {j \in 1..Len(<<>>) : <<>>[j].kind # "anchor"} = {}
    BY <2>1
  <2> QED
    BY <2>2, FS_EmptySet DEF TimesTaken
<1>3. q \o <<>> = q
  BY ConcatEmptySeq
<1>4. SubSeq(T, 1, Len(T)) = T
  BY SubSeqFull
<1> QED
  BY <1>1, <1>2, <1>3, <1>4

-----------------------------------------------------------------------------
(* What is inside goes on being right when packets leave.                   *)
GoesOn(b, A, T, q, c, R, r, n, s) ==
  /\ Held(c, n, A, R, r, s)
  /\ \A prev : Exact(b, A, T, s) /\ Sized(q, prev, b, n, s, size) =>
       Exact(c, A, R, s) /\ Sized(r, prev, c, n, s, size)

(* A batch is a group of the first m frames inside.                         *)
LEMMA BatchLeaves ==
  ASSUME NEW b, NEW n, NEW A, NEW T, NEW q, NEW s, Held(b, n, A, T, q, s), size \in Widths \X Heights,
         NEW m \in 1..Len(b), NEW batch \in Stream!Groups(SubSeq(b, 1, m)),
         NEW r, r = q \o Packets(batch, T, A),
         NEW R, R = SubSeq(T, TimesTaken(batch, Len(batch)) + 1, Len(T)),
         NEW c, c = SubSeq(b, m + 1, Len(b))
  PROVE  GoesOn(b, A, T, q, c, R, r, n, s)
<1> DEFINE F == SubSeq(b, 1, m)
<1>1. b \in Seq(Nat) /\ Len(b) \in Nat /\ m \in Nat /\ m >= 1 /\ m <= Len(b)
  BY LenProperties DEF Held, Typed
<1>2. ASSUME NEW i \in 1..m PROVE b[i] \in Nat
  <2>1. i \in 1..Len(b)
    BY <1>1
  <2> QED
    BY <1>1, <2>1, ElementOfSeq
<1>3. Len(F) = m /\ F[1] = b[1] /\ F # <<>>
  <2>1. 1 \in Int /\ m \in Int /\ \A i \in 1..m : b[i] \in Nat
    BY <1>1, <1>2
  <2>2. /\ F \in Seq(Nat) /\ Len(F) = IF 1 <= m THEN m - 1 + 1 ELSE 0
        /\ \A i \in 1..m - 1 + 1 : F[i] = b[1 + i - 1]
    BY <2>1, SubSeqProperties
  <2>3. Len(F) = m
    BY <1>1, <2>2
  <2>4. 1 \in 1..m - 1 + 1 /\ 1 + 1 - 1 = 1
    BY <1>1
  <2>5. F[1] = b[1]
    BY <2>2, <2>4
  <2>6. Len(<<>>) = 0 /\ m # 0
    BY <1>1
  <2>7. F # <<>>
    BY <2>3, <2>6
  <2> QED
    BY <2>3, <2>5, <2>7
<1> HIDE DEF F
<1>4. PICK keyed \in BOOLEAN : batch = Stream!GroupPackets(F, keyed) /\ (F[1] = 0 => keyed)
  <2>1. batch \in Stream!Groups(F)
    BY DEF F
  <2> QED
    BY <1>3, <2>1 DEF Stream!Groups
<1>5. batch = Group(b, m, keyed)
  BY <1>4 DEF F, Group
<1>6. KeyedFirst(b, keyed)
  BY <1>3, <1>4 DEF KeyedFirst
<1>7. Leaves(b, m, keyed, A, T, q, c, R, r)
  BY <1>5 DEF Leaves
<1>8. Held(c, n, A, R, r, s)
  BY <1>7, GroupLeaves
<1>9. Exact(b, A, T, s) => Exact(c, A, R, s)
  BY <1>7, GroupExact
<1>10. ASSUME NEW prev, Exact(b, A, T, s), Sized(q, prev, b, n, s, size)
       PROVE  Sized(r, prev, c, n, s, size)
  <2>1. Exact(b, A, T, s)
    BY <1>10
  <2>2. Sized(q, prev, b, n, s, size)
    BY <1>10
  <2> QED
    BY <1>6, <1>7, <2>1, <2>2, GroupSized
<1> QED
  BY <1>8, <1>9, <1>10 DEF GoesOn

(* All of them: what finish and the end of a window give.                   *)
LEMMA AllLeave ==
  ASSUME NEW b, NEW n, NEW A, NEW T, NEW q, NEW s, Held(b, n, A, T, q, s), size \in Widths \X Heights,
         NEW batch \in Stream!Groups(b), NEW r, r = q \o Packets(batch, T, A),
         NEW R, R = SubSeq(T, TimesTaken(batch, Len(batch)) + 1, Len(T))
  PROVE  GoesOn(b, A, T, q, <<>>, R, r, n, s)
<1>1. b \in Seq(Nat)
  BY DEF Held, Typed
<1>2. b # <<>>
  BY DEF Stream!Groups
<1>3. Len(b) \in Nat \ {0}
  BY <1>1, <1>2, EmptySeq
<1>4. SubSeq(b, 1, Len(b)) = b
  BY <1>1, SubSeqFull
<1>5. SubSeq(b, Len(b) + 1, Len(b)) = <<>>
  <2>1. Len(b) + 1 \in Int /\ Len(b) \in Int /\ Len(b) < Len(b) + 1
    BY <1>3
  <2> QED
    BY <2>1, SubSeqEmpty
<1>6. Len(b) \in 1..Len(b)
  BY <1>3
<1>7. batch \in Stream!Groups(SubSeq(b, 1, Len(b))) /\ <<>> = SubSeq(b, Len(b) + 1, Len(b))
  BY <1>4, <1>5
<1> QED
  BY <1>6, <1>7, BatchLeaves

(* What finish gives, the lookahead being empty or not.                     *)
LEMMA FinishLeaves ==
  ASSUME NEW b, NEW n, NEW A, NEW T, NEW q, NEW s, Held(b, n, A, T, q, s), size \in Widths \X Heights,
         NEW batch, batch \in IF b = <<>> THEN {<<>>} ELSE Stream!Groups(b),
         NEW r, r = q \o Packets(batch, T, A),
         NEW R, R = SubSeq(T, TimesTaken(batch, Len(batch)) + 1, Len(T))
  PROVE  GoesOn(b, A, T, q, <<>>, R, r, n, s)
<1>1. CASE b = <<>>
  <2>1. batch = <<>>
    BY <1>1
  <2>2. T \in Seq(Nat) /\ q \in Seq(Out)
    BY DEF Held, Typed
  <2>3. r = q /\ R = T
    BY <2>1, <2>2, NothingEmitted
  <2> QED
    BY <1>1, <2>3 DEF GoesOn
<1>2. CASE b # <<>>
  <2>1. batch \in Stream!Groups(b)
    BY <1>2
  <2> QED
    BY <2>1, AllLeave
<1> QED
  BY <1>1, <1>2

(* The lookahead may be full but for the frame that arrives.                *)
LEMMA EarlierLeave ==
  ASSUME NEW b, NEW x \in Nat, NEW n, NEW A, NEW T, NEW q, NEW s,
         b \in Seq(Nat), Held(Append(b, x), n, A, T, q, s), size \in Widths \X Heights,
         NEW batch \in Stream!Groups(b), NEW r, r = q \o Packets(batch, T, A),
         NEW R, R = SubSeq(T, TimesTaken(batch, Len(batch)) + 1, Len(T))
  PROVE  GoesOn(Append(b, x), A, T, q, <<x>>, R, r, n, s)
<1> DEFINE t == Append(b, x)
           m == Len(b)
<1>1. b # <<>>
  BY DEF Stream!Groups
<1>2. m \in Nat \ {0}
  BY <1>1, EmptySeq
<1>3. t \in Seq(Nat) /\ Len(t) = m + 1 /\ t[m + 1] = x /\ \A i \in 1..m : t[i] = b[i]
  BY Appended
<1>4. SubSeq(t, 1, m) = b
  BY AppendProperties
<1>5. SubSeq(t, m + 1, m + 1) = <<x>>
  <2>1. m + 1 \in 1..Len(t) /\ m + 1 \in m + 1..Len(t) /\ m + 1 \in Int /\ (m + 1) + 1 \in Int /\ m + 1 < (m + 1) + 1
    BY <1>2, <1>3
  <2>2. SubSeq(t, m + 1, m + 1) = <<t[m + 1]>> \o SubSeq(t, (m + 1) + 1, m + 1)
    BY <1>3, <2>1, SubSeqRecursiveFirst
  <2>3. SubSeq(t, (m + 1) + 1, m + 1) = <<>>
    BY <2>1, SubSeqEmpty
  <2>4. <<x>> \in Seq(Nat)
    OBVIOUS
  <2>5. <<x>> \o <<>> = <<x>>
    BY <2>4, ConcatEmptySeq
  <2> QED
    BY <1>3, <2>2, <2>3, <2>5
<1> HIDE DEF t, m
<1>6. m \in 1..Len(t)
  BY <1>2, <1>3
<1>7. Held(t, n, A, T, q, s)
  BY DEF t
<1>8. batch \in Stream!Groups(SubSeq(t, 1, m)) /\ <<x>> = SubSeq(t, m + 1, Len(t))
  BY <1>3, <1>4, <1>5
<1>9. GoesOn(t, A, T, q, <<x>>, R, r, n, s)
  BY <1>6, <1>7, <1>8, BatchLeaves
<1> QED
  BY <1>9 DEF t

-----------------------------------------------------------------------------
(* The planes.                                                              *)
LEMMA RowAndColumn ==
  ASSUME NEW x \in Nat, NEW w \in Nat, w > 0, NEW h \in Nat, x < w * h
  PROVE  x \div w \in 0..h - 1 /\ x % w \in 0..w - 1
<1> DEFINE row == x \div w
           col == x % w
<1>1. row \in Int /\ col \in 0..w - 1
  BY SMTT(20)
<1>2. x % w = x - w * (x \div w)
  BY SMTT(20)
<1>3. x = w * row + col
  <2>1. w * row \in Int
    BY <1>1
  <2> QED
    BY <1>1, <1>2, <2>1
<1> HIDE DEF row, col
<1>4. ~(row < 0)
  <2> SUFFICES ASSUME row <= -1 PROVE FALSE
    BY <1>1
  <2>1. w * row <= w * (-1)
    BY <1>1, SMTT(20)
  <2> QED
    BY <1>1, <1>3, <2>1, SMTT(20)
<1>5. ~(row >= h)
  <2> SUFFICES ASSUME row >= h PROVE FALSE
    BY <1>1
  <2>1. w * row >= w * h
    BY <1>1, SMTT(20)
  <2> QED
    BY <1>1, <1>3, <2>1, SMTT(20)
<1>6. row \in 0..h - 1 /\ col \in 0..w - 1
  BY <1>1, <1>4, <1>5
<1> QED
  BY <1>6 DEF row, col

LEMMA PlaceInPlane ==
  ASSUME NEW stride \in Nat, NEW row \in Nat, NEW h \in Nat, row <= h - 1,
         NEW w \in Nat, NEW col \in 0..w - 1, stride >= w
  PROVE  /\ (row * stride + col) \div stride = row /\ (row * stride + col) % stride = col
         /\ row * stride + col \in Nat /\ row * stride + col < stride * (h - 1) + w
<1>1. stride > 0 /\ col \in 0..stride - 1
  OBVIOUS
<1>2. (row * stride + col) \div stride = row /\ (row * stride + col) % stride = col
  BY <1>1, SMTT(20)
<1>3. stride * row <= stride * (h - 1)
  BY SMTT(20)
<1>4. row * stride \in Nat /\ row * stride = stride * row /\ stride * (h - 1) \in Int
  BY SMTT(20)
<1> QED
  BY <1>2, <1>3, <1>4

(* The pixels of a plane, row after row.                                    *)
Picture(w, h) == [p \in 1..w * h |-> 100 * ((p - 1) \div w) + ((p - 1) % w) + 1]

LEMMA PlaneRepacked ==
  ASSUME NEW w \in Nat, w > 0, NEW h \in Nat, h > 0, NEW stride \in Nat, NEW extra \in {-1, 0, 1},
         validate_plane(Rows(w, h, stride, extra), w, h)
  PROVE  repack_plane(Rows(w, h, stride, extra), w, h) = Picture(w, h)
<1> DEFINE L == stride * (h - 1) + w + extra
           Pixel(p) == IF (p - 1) % stride < w THEN 100 * ((p - 1) \div stride) + ((p - 1) % stride) + 1 ELSE 0
           data == [p \in 1..L |-> Pixel(p)]
<1>1. stride * (h - 1) \in Nat
  BY SMTT(20)
<1>2. L \in Nat
  BY <1>1
<1>3. Rows(w, h, stride, extra).stride = stride /\ Rows(w, h, stride, extra).data = data
  BY DEF Rows
<1> HIDE DEF Pixel
<1>4. Len(data) = L
  <2> HIDE DEF L
  <2> QED
    BY <1>2
<1> HIDE DEF data
<1>5. stride >= w /\ L >= stride * (h - 1) + w
  BY <1>3, <1>4 DEF validate_plane, Needed
<1>6. ASSUME NEW p \in 1..w * h
      PROVE  data[((p - 1) \div w) * stride + ((p - 1) % w) + 1] = 100 * ((p - 1) \div w) + ((p - 1) % w) + 1
  <2> DEFINE row == (p - 1) \div w
             col == (p - 1) % w
             x == row * stride + col
  <2>1. w * h \in Nat
    BY SMTT(20)
  <2>2. p - 1 \in Nat /\ p - 1 < w * h
    BY <2>1
  <2>3. row \in 0..h - 1 /\ col \in 0..w - 1
    BY <2>2, RowAndColumn
  <2> HIDE DEF row, col
  <2>4. row \in Nat /\ row <= h - 1
    BY <2>3
  <2>5. x \div stride = row /\ x % stride = col /\ x \in Nat /\ x < stride * (h - 1) + w
    BY <1>5, <2>3, <2>4, PlaceInPlane
  <2> HIDE DEF x
  <2>6. x + 1 \in 1..L
    BY <1>1, <1>2, <1>5, <2>5
  <2>7. data[x + 1] = Pixel(x + 1)
    BY <2>6 DEF data
  <2>8. (x + 1) - 1 = x
    BY <2>5
  <2>9. Pixel(x + 1) = IF x % stride < w THEN 100 * (x \div stride) + (x % stride) + 1 ELSE 0
    BY <2>8 DEF Pixel
  <2>10. Pixel(x + 1) = 100 * row + col + 1
    BY <2>3, <2>5, <2>9
  <2>11. data[x + 1] = 100 * row + col + 1
    BY <2>7, <2>10
  <2> QED
    BY <2>11 DEF row, col, x
<1>7. repack_plane(Rows(w, h, stride, extra), w, h)
        = [p \in 1..w * h |-> data[((p - 1) \div w) * stride + ((p - 1) % w) + 1]]
  BY <1>3 DEF repack_plane
<1> QED
  BY <1>6, <1>7 DEF Picture

LEMMA FrameRepacked ==
  ASSUME NEW dims \in Widths \X Heights, Codable(dims), NEW f \in Taken[dims]
  PROVE  f.dims = dims /\ \A i \in DOMAIN f.planes : f.planes[i] = Picture(PlaneSizes(dims)[i][1], PlaneSizes(dims)[i][2])
<1>1. /\ dims[1] \in Nat /\ dims[1] > 0 /\ dims[2] \in Nat /\ dims[2] > 0
  <2>1. dims[1] \in Widths /\ dims[2] \in Heights /\ Widths \subseteq Nat /\ Heights \subseteq Nat
    BY AdaptersAssumption
  <2>2. dims[1] > 0 /\ dims[2] > 0
    BY DEF Codable
  <2> QED
    BY <2>1, <2>2
<1>2. DivCeil2(dims[1]) \in Nat /\ DivCeil2(dims[1]) > 0 /\ DivCeil2(dims[2]) \in Nat /\ DivCeil2(dims[2]) > 0
  BY <1>1 DEF DivCeil2
<1>3. ASSUME NEW i \in 1..3
      PROVE  /\ PlaneSizes(dims)[i][1] \in Nat /\ PlaneSizes(dims)[i][1] > 0
             /\ PlaneSizes(dims)[i][2] \in Nat /\ PlaneSizes(dims)[i][2] > 0
  BY <1>1, <1>2 DEF PlaneSizes
<1>4. PICK video \in {v \in Videos(dims) : Accepts(v, dims)} :
        f = [dims |-> dims, planes |-> packed_planes_from_video_frame(video, dims)]
  BY DEF Taken
<1>5. video # <<>>
  <2>1. Len(<<>>) = 0 /\ ~(0 >= 3)
    OBVIOUS
  <2> QED
    BY <1>4, <2>1 DEF Accepts
<1>6. PICK stride \in Strides, extra \in {-1, 0, 1} : video = Video(dims, stride, extra)
  BY <1>4, <1>5 DEF Videos
<1>7. ASSUME NEW i \in 1..3
      PROVE  packed_planes_from_video_frame(video, dims)[i]
               = Picture(PlaneSizes(dims)[i][1], PlaneSizes(dims)[i][2])
  <2> DEFINE w == PlaneSizes(dims)[i][1]
             h == PlaneSizes(dims)[i][2]
  <2>1. packed_planes_from_video_frame(video, dims)[i] = repack_plane(video[i], w, h)
    BY DEF packed_planes_from_video_frame
  <2>2. video[i] = Rows(w, h, stride, extra)
    BY <1>6 DEF Video
  <2>3. validate_plane(video[i], w, h)
    BY <1>4 DEF Accepts
  <2>4. w \in Nat /\ w > 0 /\ h \in Nat /\ h > 0
    BY <1>3
  <2> HIDE DEF w, h
  <2>5. stride \in Nat
    BY AdaptersAssumption
  <2>6. repack_plane(video[i], w, h) = Picture(w, h)
    BY <2>2, <2>3, <2>4, <2>5, PlaneRepacked
  <2> QED
    BY <2>1, <2>6 DEF w, h
<1>8. DOMAIN packed_planes_from_video_frame(video, dims) = 1..3
  BY DEF packed_planes_from_video_frame
<1> QED
  BY <1>4, <1>7, <1>8

-----------------------------------------------------------------------------
(* The invariant.                                                           *)
TypeOK ==
  /\ adapter \in {"lagged", "immediate"} /\ size \in Widths \X Heights /\ Codable(size)
  /\ failures \in Nat /\ delivered \in Out \cup {NoPacket}

Inside == Held(buffered, input_count, accepted, pts_queue, pending, sent)

Lossless ==
  failures = 0 =>
    /\ Exact(buffered, accepted, pts_queue, sent)
    /\ Sized(pending, delivered, buffered, input_count, sent, size)

(* The immediate adapter never uses the stream.                             *)
Unused ==
  adapter = "immediate" =>
    input_count = 0 /\ buffered = <<>> /\ accepted = <<>> /\ pts_queue = <<>>

AtEof ==
  /\ response = "eof" => eof = TRUE /\ pending = <<>>
  /\ eof = TRUE => adapter = "immediate" \/ buffered = <<>>

RowsKept ==
  \A i \in DOMAIN packed.planes :
    packed.planes[i] = Picture(PlaneSizes(packed.dims)[i][1], PlaneSizes(packed.dims)[i][2])

Inv == TypeOK /\ Inside /\ Lossless /\ Unused /\ AtEof /\ RowsKept

(* A frame that is taken in.                                                *)
LEMMA TakenWhole ==
  ASSUME TypeOK, packed' \in Taken[size]
  PROVE  RowsKept'
<1>1. size \in Widths \X Heights /\ Codable(size)
  BY DEF TypeOK
<1>2. packed'.dims = size
      /\ \A i \in DOMAIN packed'.planes : packed'.planes[i] = Picture(PlaneSizes(size)[i][1], PlaneSizes(size)[i][2])
  BY <1>1, FrameRepacked
<1> QED
  BY <1>2 DEF RowsKept

LEMMA Failed ==
  ASSUME TypeOK, Fails
  PROVE  failures' \in Nat /\ failures' # 0 /\ pending' = pending
BY DEF TypeOK, Fails

LEMMA InitHolds == Init => Inv
<1> SUFFICES ASSUME Init PROVE Inv
  OBVIOUS
<1>1. TypeOK
  <2>1. PICK w \in Widths, h \in Heights :
          validate_video_params([width |-> w, height |-> h, pixel_format |-> Unset]) /\ size = <<w, h>>
    BY DEF Init
  <2>2. size \in Widths \X Heights /\ Codable(size)
    BY <2>1 DEF validate_video_params
  <2>3. adapter \in {"lagged", "immediate"}
    BY AdaptersAssumption DEF Init
  <2> QED
    BY <2>2, <2>3 DEF Init, TypeOK
<1>2. /\ input_count = 0 /\ buffered = <<>> /\ accepted = <<>> /\ pts_queue = <<>> /\ pending = <<>>
      /\ sent = 0 /\ eof = FALSE /\ response = "none" /\ packed.planes = <<>> /\ delivered = NoPacket
  BY DEF Init, Stream!Init
<1>3. Len(<<>>) = 0 /\ 1..Len(<<>>) = {} /\ 0 - Len(<<>>) = 0 /\ ~(0 > Len(<<>>))
  <2>1. Len(<<>>) = 0
    OBVIOUS
  <2>2. 1..0 = {} /\ 0 - 0 = 0 /\ ~(0 > 0)
    OBVIOUS
  <2> QED
    BY <2>1, <2>2
<1>4. Inside
  BY <1>2, <1>3 DEF Inside, Held, Typed, Numbered, Timed, Behind, Increasing
<1>5. Lossless
  BY <1>2, <1>3 DEF Lossless, Exact, Sized
<1>6. Unused /\ AtEof
  BY <1>2 DEF Unused, AtEof
<1>7. RowsKept
  <2>1. DOMAIN <<>> = {}
    OBVIOUS
  <2> QED
    BY <1>2, <2>1 DEF RowsKept
<1> QED
  BY <1>1, <1>4, <1>5, <1>6, <1>7 DEF Inv

(* A batch of the stream, as the invariant sees it.                         *)
LEMMA FinishKeeps ==
  ASSUME TypeOK, Inside, Lossless,
         NEW batch \in Stream!FinishBatches, Enqueue(batch, pts_queue, accepted)
  PROVE  /\ Held(<<>>, input_count, accepted, pts_queue', pending', sent)
         /\ failures = 0 =>
              /\ Exact(<<>>, accepted, pts_queue', sent)
              /\ Sized(pending', delivered, <<>>, input_count, sent, size)
<1>1. size \in Widths \X Heights
  BY DEF TypeOK
<1>2. Held(buffered, input_count, accepted, pts_queue, pending, sent)
  BY DEF Inside
<1>3. batch \in IF buffered = <<>> THEN {<<>>} ELSE Stream!Groups(buffered)
  BY DEF Stream!FinishBatches
<1>4. /\ pending' = pending \o Packets(batch, pts_queue, accepted)
      /\ pts_queue' = SubSeq(pts_queue, TimesTaken(batch, Len(batch)) + 1, Len(pts_queue))
  BY DEF Enqueue
<1>5. GoesOn(buffered, accepted, pts_queue, pending, <<>>, pts_queue', pending', input_count, sent)
  BY <1>1, <1>2, <1>3, <1>4, FinishLeaves
<1>6. failures = 0 =>
        /\ Exact(buffered, accepted, pts_queue, sent)
        /\ Sized(pending, delivered, buffered, input_count, sent, size)
  BY DEF Lossless
<1> QED
  BY <1>5, <1>6 DEF GoesOn

LEMMA SendFrameKeeps ==
  ASSUME Inv, SendFrame
  PROVE  Inv'
<1> DEFINE times == Append(pts_queue, sent + 1)
           frames == Append(accepted, sent + 1)
           arrived == Append(buffered, input_count)
           n == input_count + 1
           s == sent + 1
<1>1. TypeOK /\ Inside /\ Lossless /\ Unused /\ AtEof /\ RowsKept
  BY DEF Inv
<1>2. /\ adapter = "lagged" /\ ~eof /\ sent' = s
      /\ adapter' = adapter /\ size' = size /\ eof' = eof /\ response' = response /\ delivered' = delivered
      /\ packed' \in Taken[size]
  BY DEF SendFrame, Takes
<1>3. RowsKept'
  BY <1>1, <1>2, TakenWhole
<1>4. Unused'
  BY <1>2 DEF Unused
<1>5. AtEof'
  BY <1>1, <1>2 DEF AtEof
<1>6. Arrives(buffered, input_count, accepted, pts_queue, sent, arrived, frames, times)
  BY DEF Arrives
<1>7. Held(buffered, input_count, accepted, pts_queue, pending, sent)
  BY <1>1 DEF Inside
<1> HIDE DEF times, frames, arrived
<1>8. /\ Held(arrived, n, frames, times, pending, s)
      /\ Exact(buffered, accepted, pts_queue, sent) => Exact(arrived, frames, times, s)
      /\ \A prev, z : Sized(pending, prev, buffered, input_count, sent, z) => Sized(pending, prev, arrived, n, s, z)
  BY <1>6, <1>7, FrameArrives
<1>9. size \in Widths \X Heights
  BY <1>1 DEF TypeOK
<1> HIDE DEF n, s
<1>10. failures = 0 => Exact(arrived, frames, times, s) /\ Sized(pending, delivered, arrived, n, s, size)
  BY <1>1, <1>8 DEF Lossless
<1>11. ASSUME NEW batch \in Stream!PushBatches, Stream!Push(batch), Enqueue(batch, times, frames),
              accepted' = frames, failures' = failures
       PROVE  Inside' /\ Lossless'
  <2>1. input_count' = n
    BY <1>11 DEF Stream!Push, n
  <2>2. /\ pending' = pending \o Packets(batch, times, frames)
        /\ pts_queue' = SubSeq(times, TimesTaken(batch, Len(batch)) + 1, Len(times))
    BY <1>11 DEF Enqueue
  <2>3. GoesOn(arrived, frames, times, pending, buffered', pts_queue', pending', n, s)
    <3>1. CASE batch = <<>> /\ buffered' = arrived
      <4>1. times \in Seq(Nat) /\ pending \in Seq(Out)
        BY <1>8 DEF Held, Typed
      <4>2. pending' = pending /\ pts_queue' = times
        BY <2>2, <3>1, <4>1, NothingEmitted
      <4> QED
        BY <1>8, <3>1, <4>2 DEF GoesOn
    <3>2. CASE batch \in Stream!Groups(buffered) /\ buffered' = <<input_count>>
      <4>1. input_count \in Nat /\ buffered \in Seq(Nat)
        BY <1>7 DEF Held, Typed
      <4>2. Held(Append(buffered, input_count), n, frames, times, pending, s)
        BY <1>8 DEF arrived
      <4>3. GoesOn(Append(buffered, input_count), frames, times, pending, <<input_count>>, pts_queue', pending', n, s)
        BY <1>9, <2>2, <3>2, <4>1, <4>2, EarlierLeave
      <4> QED
        BY <3>2, <4>3 DEF arrived
    <3>3. CASE batch \in Stream!Groups(arrived) /\ buffered' = <<>>
      <4>1. GoesOn(arrived, frames, times, pending, <<>>, pts_queue', pending', n, s)
        BY <1>8, <1>9, <2>2, <3>3, AllLeave
      <4> QED
        BY <3>3, <4>1
    <3> QED
      BY <1>11, <3>1, <3>2, <3>3 DEF Stream!Push, Stream!Arrived, arrived
  <2>4. Inside'
    BY <1>2, <1>11, <2>1, <2>3 DEF Inside, GoesOn
  <2>5. Lossless'
    <3> SUFFICES ASSUME failures = 0
                 PROVE  Exact(buffered', frames, pts_queue', s) /\ Sized(pending', delivered, buffered', n, s, size)
      BY <1>2, <1>11, <2>1 DEF Lossless
    <3> QED
      BY <1>10, <2>3 DEF GoesOn
  <2> QED
    BY <2>4, <2>5
<1>12. ASSUME Stream!PushFails, Fails, pts_queue' = times,
              accepted' = IF input_count' = input_count THEN accepted ELSE frames
       PROVE  Inside' /\ Lossless' /\ failures' \in Nat
  <2>1. failures' \in Nat /\ failures' # 0 /\ pending' = pending
    BY <1>1, <1>12, Failed
  <2>2. Lossless'
    BY <2>1 DEF Lossless
  <2>3. buffered' = <<>>
    BY <1>12 DEF Stream!PushFails
  <2>4. CASE input_count' = input_count
    <3>1. Held(<<>>, input_count, accepted, pts_queue, pending, sent)
      BY <1>7, FramesLost
    <3>2. Held(<<>>, input_count, accepted, times, pending, s)
      BY <3>1, TimeComes DEF times, s
    <3> QED
      BY <1>2, <1>12, <2>1, <2>2, <2>3, <2>4, <3>2 DEF Inside
  <2>5. CASE input_count' # input_count
    <3>1. input_count' = n
      BY <1>12, <2>5 DEF Stream!PushFails, n
    <3>2. Held(<<>>, n, frames, times, pending, s)
      BY <1>8, FramesLost
    <3> QED
      BY <1>2, <1>12, <2>1, <2>2, <2>3, <2>5, <3>1, <3>2 DEF Inside
  <2> QED
    BY <2>4, <2>5
<1>13. Inside' /\ Lossless' /\ failures' \in Nat
  <2>1. CASE \E batch \in Stream!PushBatches : Stream!Push(batch) /\ Enqueue(batch, times, frames)
             /\ accepted' = frames /\ failures' = failures
    BY <1>1, <1>11, <2>1 DEF TypeOK
  <2>2. CASE Stream!PushFails /\ Fails /\ pts_queue' = times
             /\ accepted' = IF input_count' = input_count THEN accepted ELSE frames
    BY <1>12, <2>2
  <2> QED
    BY <2>1, <2>2 DEF SendFrame, times, frames
<1>14. TypeOK'
  BY <1>1, <1>2, <1>13 DEF TypeOK
<1> QED
  BY <1>3, <1>4, <1>5, <1>13, <1>14 DEF Inv

LEMMA SendFrameNowKeeps ==
  ASSUME Inv, SendFrameNow
  PROVE  Inv'
<1>1. TypeOK /\ Inside /\ Lossless /\ Unused /\ AtEof /\ RowsKept
  BY DEF Inv
<1>2. /\ adapter = "immediate" /\ sent' = sent + 1
      /\ adapter' = adapter /\ size' = size /\ eof' = eof /\ response' = "none" /\ delivered' = delivered
      /\ pts_queue' = pts_queue /\ input_count' = input_count /\ buffered' = buffered /\ accepted' = accepted
      /\ packed' \in Taken[size]
  BY DEF SendFrameNow, Takes, stream_vars
<1>3. RowsKept'
  BY <1>1, <1>2, TakenWhole
<1>4. input_count = 0 /\ buffered = <<>> /\ accepted = <<>> /\ pts_queue = <<>>
  BY <1>1, <1>2 DEF Unused
<1>5. Unused' /\ AtEof'
  BY <1>1, <1>2, <1>4 DEF Unused, AtEof
<1>6. Held(<<>>, 0, <<>>, <<>>, pending, sent)
  BY <1>1, <1>4 DEF Inside
<1>7. size \in Widths \X Heights
  BY <1>1 DEF TypeOK
<1>8. ASSUME pending' = Append(pending, [kind |-> "key", size |-> size, frame |-> sent + 1, pts |-> sent + 1]),
             failures' = failures
      PROVE  Inside' /\ Lossless'
  <2>1. /\ Held(<<>>, 0, <<>>, <<>>, pending', sent + 1)
        /\ \A prev, y : Sized(pending, prev, <<>>, 0, sent, y) => Sized(pending', prev, <<>>, 0, sent + 1, y)
    BY <1>6, <1>7, <1>8, FrameCodedNow
  <2>2. Inside'
    BY <1>2, <1>4, <2>1 DEF Inside
  <2>3. ASSUME failures = 0 PROVE Sized(pending', delivered, <<>>, 0, sent + 1, size)
    BY <1>1, <1>4, <2>1, <2>3 DEF Lossless
  <2>4. Exact(<<>>, <<>>, <<>>, sent + 1)
    <3>1. Len(<<>>) = 0
      OBVIOUS
    <3> QED
      BY <3>1 DEF Exact
  <2>5. Lossless'
    BY <1>2, <1>4, <1>8, <2>3, <2>4 DEF Lossless
  <2> QED
    BY <2>2, <2>5
<1>9. ASSUME Fails
      PROVE  Inside' /\ Lossless' /\ failures' \in Nat
  <2>1. failures' \in Nat /\ failures' # 0 /\ pending' = pending
    BY <1>1, <1>9, Failed
  <2>2. Held(<<>>, 0, <<>>, Append(<<>>, sent + 1), pending, sent + 1)
    BY <1>6, TimeComes
  <2>3. Held(<<>>, 0, <<>>, <<>>, pending, sent + 1)
    <3> DEFINE u == sent + 1
               T == Append(<<>>, u)
    <3>1. Held(<<>>, 0, <<>>, T, pending, u)
      BY <2>2
    <3> HIDE DEF u, T
    <3>2. <<>> \in Seq(Nat) /\ Len(<<>>) = 0 /\ 1..Len(<<>>) = {}
      BY <1>6 DEF Held, Typed
    <3>3. Typed(<<>>, 0, <<>>, <<>>, pending, u)
      BY <3>1, <3>2 DEF Held, Typed
    <3>4. Numbered(<<>>, 0, <<>>, u)
      BY <3>1 DEF Held
    <3>5. Timed(<<>>, <<>>, u)
      BY <3>2 DEF Timed, Increasing
    <3>6. Behind(<<>>, <<>>, <<>>, pending, u)
      <4>1. Behind(<<>>, <<>>, T, pending, u)
        BY <3>1 DEF Held
      <4> QED
        BY <3>2, <4>1 DEF Behind
    <3>7. Held(<<>>, 0, <<>>, <<>>, pending, u)
      BY <3>3, <3>4, <3>5, <3>6 DEF Held
    <3> QED
      BY <3>7 DEF u
  <2> QED
    BY <1>2, <1>4, <2>1, <2>3 DEF Inside, Lossless
<1>10. Inside' /\ Lossless' /\ failures' \in Nat
  <2>1. failures \in Nat
    BY <1>1 DEF TypeOK
  <2> QED
    BY <1>8, <1>9, <2>1 DEF SendFrameNow
<1>11. TypeOK'
  BY <1>1, <1>2, <1>10 DEF TypeOK
<1> QED
  BY <1>3, <1>5, <1>10, <1>11 DEF Inv

LEMMA ReceiveKeeps ==
  ASSUME Inv, ReceivePacket
  PROVE  /\ Inv'
         /\ failures = 0 /\ delivered' # delivered /\ delivered # NoPacket /\ delivered'.size # delivered.size
              => delivered'.kind = "key"
<1>1. TypeOK /\ Inside /\ Lossless /\ Unused /\ AtEof /\ RowsKept
  BY DEF Inv
<1>2. /\ adapter' = adapter /\ size' = size /\ eof' = eof /\ sent' = sent /\ failures' = failures
      /\ pts_queue' = pts_queue /\ input_count' = input_count /\ buffered' = buffered /\ accepted' = accepted
      /\ packed' = packed
  BY DEF ReceivePacket, stream_vars
<1>3. RowsKept'
  BY <1>1, <1>2 DEF RowsKept
<1>4. Unused'
  BY <1>1, <1>2 DEF Unused
<1>5. CASE /\ pending # <<>> /\ pending' = Tail(pending)
           /\ delivered' = Head(pending) /\ response' = "packet"
  <2>1. Held(buffered, input_count, accepted, pts_queue, pending, sent)
    BY <1>1 DEF Inside
  <2>2. /\ Held(buffered, input_count, accepted, pts_queue, pending', sent) /\ delivered' \in Out
        /\ \A prev, z : Sized(pending, prev, buffered, input_count, sent, z) =>
             /\ Sized(pending', delivered', buffered, input_count, sent, z)
             /\ prev # NoPacket /\ delivered'.size # prev.size => delivered'.kind = "key"
    <3>1. pending # <<>>
      BY <1>5
    <3>2. /\ Held(buffered, input_count, accepted, pts_queue, Tail(pending), sent) /\ Head(pending) \in Out
          /\ \A prev, z : Sized(pending, prev, buffered, input_count, sent, z) =>
               /\ Sized(Tail(pending), Head(pending), buffered, input_count, sent, z)
               /\ prev # NoPacket /\ Head(pending).size # prev.size => Head(pending).kind = "key"
      <4>1. GoesOut(buffered, input_count, accepted, pts_queue, pending, sent)
        BY <2>1, <3>1, PacketReceived
      <4> QED
        BY <4>1 DEF GoesOut
    <3> QED
      BY <1>5, <3>2
  <2>3. Inside'
    BY <1>2, <2>2 DEF Inside
  <2>4. ASSUME failures = 0
        PROVE  /\ Exact(buffered, accepted, pts_queue, sent)
               /\ Sized(pending', delivered', buffered, input_count, sent, size)
               /\ delivered # NoPacket /\ delivered'.size # delivered.size => delivered'.kind = "key"
    BY <1>1, <2>2, <2>4 DEF Lossless
  <2>5. Lossless'
    BY <1>2, <2>4 DEF Lossless
  <2>6. AtEof'
    BY <1>1, <1>2, <1>5 DEF AtEof
  <2>7. TypeOK'
    BY <1>1, <1>2, <2>2 DEF TypeOK
  <2> QED
    BY <1>3, <1>4, <2>3, <2>4, <2>5, <2>6, <2>7 DEF Inv
<1>6. CASE /\ pending = <<>> /\ response' = (IF eof THEN "eof" ELSE "needMore")
           /\ pending' = pending /\ delivered' = delivered
  <2>1. Inside' /\ Lossless' /\ TypeOK'
    BY <1>1, <1>2, <1>6 DEF Inside, Lossless, TypeOK
  <2>2. AtEof'
    BY <1>1, <1>2, <1>6 DEF AtEof
  <2> QED
    BY <1>3, <1>4, <1>6, <2>1, <2>2 DEF Inv
<1> QED
  BY <1>5, <1>6 DEF ReceivePacket

LEMMA FlushKeeps ==
  ASSUME Inv, Flush
  PROVE  Inv'
<1>1. TypeOK /\ Inside /\ Lossless /\ Unused /\ AtEof /\ RowsKept
  BY DEF Inv
<1>2. /\ eof = FALSE \/ ~eof
      /\ adapter' = adapter /\ size' = size /\ sent' = sent /\ response' = response
      /\ packed' = packed /\ accepted' = accepted /\ delivered' = delivered
  BY DEF Flush
<1>3. RowsKept'
  BY <1>1, <1>2 DEF RowsKept
<1>4. response # "eof"
  BY <1>1, <1>2 DEF AtEof
<1>5. CASE /\ adapter = "lagged"
           /\ \E batch \in Stream!FinishBatches :
                Stream!Finish(batch) /\ Enqueue(batch, pts_queue, accepted)
           /\ failures' = failures
  <2>1. PICK batch \in Stream!FinishBatches :
               Stream!Finish(batch) /\ Enqueue(batch, pts_queue, accepted)
    BY <1>5
  <2>2. /\ Held(<<>>, input_count, accepted, pts_queue', pending', sent)
        /\ failures = 0 =>
             /\ Exact(<<>>, accepted, pts_queue', sent)
             /\ Sized(pending', delivered, <<>>, input_count, sent, size)
    BY <1>1, <2>1, FinishKeeps
  <2>3. buffered' = <<>> /\ input_count' = input_count
    BY <2>1 DEF Stream!Finish
  <2>4. Inside' /\ Lossless'
    BY <1>2, <1>5, <2>2, <2>3 DEF Inside, Lossless
  <2>5. Unused' /\ AtEof'
    BY <1>2, <1>4, <1>5, <2>3 DEF Unused, AtEof
  <2> QED
    BY <1>1, <1>2, <1>3, <1>5, <2>4, <2>5 DEF Inv, TypeOK
<1>6. CASE adapter = "lagged" /\ Stream!FinishFails /\ Fails /\ eof' = eof /\ pts_queue' = pts_queue
  <2>1. failures' \in Nat /\ failures' # 0 /\ pending' = pending
    BY <1>1, <1>6, Failed
  <2>2. buffered' = <<>> /\ input_count' = input_count
    BY <1>6 DEF Stream!FinishFails
  <2>3. Held(<<>>, input_count, accepted, pts_queue, pending, sent)
    BY <1>1, FramesLost DEF Inside
  <2>4. Inside' /\ Lossless'
    BY <1>2, <1>6, <2>1, <2>2, <2>3 DEF Inside, Lossless
  <2>5. Unused' /\ AtEof'
    BY <1>2, <1>4, <1>6, <2>2 DEF Unused, AtEof
  <2> QED
    BY <1>1, <1>2, <1>3, <2>1, <2>4, <2>5 DEF Inv, TypeOK
<1>7. CASE /\ adapter = "immediate" /\ pts_queue' = pts_queue /\ pending' = pending
           /\ input_count' = input_count /\ buffered' = buffered /\ failures' = failures
  <2>1. Inside' /\ Lossless' /\ Unused'
    BY <1>1, <1>2, <1>7 DEF Inside, Lossless, Unused
  <2>2. AtEof'
    BY <1>2, <1>4, <1>7 DEF AtEof
  <2> QED
    BY <1>1, <1>2, <1>3, <1>7, <2>1, <2>2 DEF Inv, TypeOK
<1> QED
  BY <1>5, <1>6, <1>7 DEF Flush, stream_vars

LEMMA ResizeKeeps ==
  ASSUME Inv, NEW target \in Targets[size], Resize(target)
  PROVE  Inv'
<1>1. TypeOK /\ Inside /\ Lossless /\ Unused /\ AtEof /\ RowsKept
  BY DEF Inv
<1>2. /\ adapter' = adapter /\ eof' = eof /\ sent' = sent /\ response' = response
      /\ packed' = packed /\ delivered' = delivered
  BY DEF Resize
<1>3. RowsKept'
  BY <1>1, <1>2 DEF RowsKept
<1>4. target \in Widths \X Heights /\ Codable(target)
  <2>1. size \in Widths \X Heights
    BY <1>1 DEF TypeOK
  <2>2. PICK event \in Events : Followed(event, size) /\ target = reconfigure_target(event, size)
    BY <2>1 DEF Targets
  <2>3. Codable(target)
    BY <2>2 DEF Followed
  <2>4. target = <<Or(event.width, size[1]), Or(event.height, size[2])>>
    BY <2>2 DEF reconfigure_target
  <2>5. event.width \in Widths \cup {Unset, 0} /\ event.height \in Heights \cup {Unset}
    BY DEF Events
  <2>6. size[1] \in Widths /\ size[2] \in Heights
    BY <2>1
  <2>7. target[1] > 0
    BY <2>3 DEF Codable
  <2>8. target[1] \in Widths \cup {0} /\ target[2] \in Heights
    BY <2>4, <2>5, <2>6 DEF Or
  <2>9. target[1] # 0
    BY <2>7
  <2> QED
    BY <2>3, <2>4, <2>8, <2>9
<1>5. CASE adapter = "lagged" /\ ~eof /\ CloseStream(target)
  <2>1. PICK batch \in Stream!FinishBatches : Enqueue(batch, pts_queue, accepted)
    BY <1>5 DEF CloseStream
  <2>2. /\ Held(<<>>, input_count, accepted, pts_queue', pending', sent)
        /\ failures = 0 =>
             /\ Exact(<<>>, accepted, pts_queue', sent)
             /\ Sized(pending', delivered, <<>>, input_count, sent, size)
    BY <1>1, <2>1, FinishKeeps
  <2>3. /\ size' = target /\ input_count' = 0 /\ buffered' = <<>> /\ accepted' = <<>> /\ failures' = failures
    BY <1>5 DEF CloseStream
  <2>4. /\ Held(<<>>, 0, <<>>, pts_queue', pending', sent)
        /\ Exact(<<>>, accepted, pts_queue', sent) => Exact(<<>>, <<>>, pts_queue', sent)
        /\ \A prev, y, z : Sized(pending', prev, <<>>, input_count, sent, y) => Sized(pending', prev, <<>>, 0, sent, z)
    BY <2>2, StreamOpens
  <2>5. Inside' /\ Lossless'
    BY <1>2, <2>2, <2>3, <2>4 DEF Inside, Lossless
  <2>6. Unused' /\ AtEof'
    BY <1>1, <1>2, <1>5, <2>3 DEF Unused, AtEof
  <2>7. TypeOK'
    BY <1>1, <1>2, <1>4, <2>3 DEF TypeOK
  <2> QED
    BY <1>3, <2>5, <2>6, <2>7 DEF Inv
<1>6. CASE /\ adapter = "lagged" /\ ~eof /\ Stream!FinishFails /\ Fails
           /\ size' = size /\ pts_queue' = pts_queue /\ accepted' = accepted
  <2>1. failures' \in Nat /\ failures' # 0 /\ pending' = pending
    BY <1>1, <1>6, Failed
  <2>2. buffered' = <<>> /\ input_count' = input_count
    BY <1>6 DEF Stream!FinishFails
  <2>3. Held(<<>>, input_count, accepted, pts_queue, pending, sent)
    BY <1>1, FramesLost DEF Inside
  <2>4. Inside' /\ Lossless'
    BY <1>2, <1>6, <2>1, <2>2, <2>3 DEF Inside, Lossless
  <2>5. Unused' /\ AtEof'
    BY <1>1, <1>2, <1>6, <2>2 DEF Unused, AtEof
  <2> QED
    BY <1>1, <1>2, <1>3, <1>6, <2>1, <2>4, <2>5 DEF Inv, TypeOK
<1>7. CASE /\ adapter = "immediate" /\ size' = target
           /\ pts_queue' = pts_queue /\ pending' = pending /\ failures' = failures /\ accepted' = accepted
           /\ input_count' = input_count /\ buffered' = buffered
  <2>1. input_count = 0 /\ buffered = <<>> /\ accepted = <<>> /\ pts_queue = <<>>
    BY <1>1, <1>7 DEF Unused
  <2>2. Inside' /\ Unused' /\ AtEof'
    BY <1>1, <1>2, <1>7 DEF Inside, Unused, AtEof
  <2>3. Held(<<>>, 0, <<>>, <<>>, pending, sent)
    BY <1>1, <2>1 DEF Inside
  <2>4. \A prev, y, z : Sized(pending, prev, <<>>, 0, sent, y) => Sized(pending, prev, <<>>, 0, sent, z)
    BY <2>3, StreamOpens
  <2>5. Lossless'
    BY <1>1, <1>2, <1>7, <2>1, <2>4 DEF Lossless
  <2>6. TypeOK'
    BY <1>1, <1>2, <1>4, <1>7 DEF TypeOK
  <2> QED
    BY <1>3, <2>2, <2>5, <2>6 DEF Inv
<1> QED
  BY <1>5, <1>6, <1>7 DEF Resize, stream_vars

-----------------------------------------------------------------------------
LEMMA StepKeeps == Inv /\ [Next]_vars => Inv'
<1> SUFFICES ASSUME Inv, [Next]_vars PROVE Inv'
  OBVIOUS
<1>1. CASE SendFrame
  BY <1>1, SendFrameKeeps
<1>2. CASE SendFrameNow
  BY <1>2, SendFrameNowKeeps
<1>3. CASE ReceivePacket
  BY <1>3, ReceiveKeeps
<1>4. CASE Flush
  BY <1>4, FlushKeeps
<1>5. ASSUME NEW target \in Targets[size], Resize(target) PROVE Inv'
  BY <1>5, ResizeKeeps
<1>6. CASE UNCHANGED vars
  BY <1>6 DEF vars, stream_vars, Inv, TypeOK, Inside, Lossless, Unused, AtEof, RowsKept
<1> QED
  BY <1>1, <1>2, <1>3, <1>4, <1>5, <1>6 DEF Next

(* The frames, times and packets inside an adapter always agree.            *)
THEOREM AdaptersAgree == Spec => []Inv
  BY InitHolds, StepKeeps, PTL DEF Spec

(* Whatever is sent, resized, flushed and failed: packets wait in the order *)
(* of their frames and times, and the encoder is given the frame's own      *)
(* pixels.  The times waiting are those of the frames inside until a call   *)
(* fails; a failed push leaves its time behind and every later packet takes *)
(* an older one.                                                            *)
THEOREM FramesAlwaysWhole == Spec => []FramesStayWhole
<1>1. Inv => FramesStayWhole
  <2> SUFFICES ASSUME Inv PROVE FramesStayWhole
    OBVIOUS
  <2>1. TypeOK /\ Inside /\ Lossless /\ RowsKept
    BY DEF Inv
  <2>2. /\ buffered \in Seq(Nat) /\ pts_queue \in Seq(Nat) /\ pending \in Seq(Out)
    BY <2>1 DEF Inside, Held, Typed
  <2>3. ASSUME failures = 0
        PROVE  pts_queue = [i \in DOMAIN buffered |-> accepted[buffered[i] + 1]]
    <3>1. Len(pts_queue) = Len(buffered) /\ \A i \in 1..Len(buffered) : pts_queue[i] = accepted[buffered[i] + 1]
      BY <2>1, <2>3 DEF Lossless, Exact
    <3>2. DOMAIN buffered = 1..Len(buffered) /\ DOMAIN pts_queue = 1..Len(pts_queue)
      BY <2>2, LenProperties
    <3>3. pts_queue = [i \in DOMAIN pts_queue |-> pts_queue[i]]
      BY <2>2, LenProperties
    <3> QED
      BY <3>1, <3>2, <3>3
  <2>4. DOMAIN pending = 1..Len(pending)
    BY <2>2, LenProperties
  <2>5. \A i, j \in 1..Len(pending) :
          i < j /\ Shows(pending[i]) /\ Shows(pending[j]) =>
            pending[i].frame < pending[j].frame /\ pending[i].pts < pending[j].pts
    BY <2>1 DEF Inside, Held, Behind
  <2>6. \A i, j \in DOMAIN pending :
          i < j /\ Visible(pending[i]) /\ Visible(pending[j]) =>
            pending[i].frame < pending[j].frame /\ pending[i].pts < pending[j].pts
    BY <2>4, <2>5 DEF Visible, Shows
  <2> QED
    BY <2>1, <2>3, <2>6 DEF FramesStayWhole, RowsKept, Picture
<1> QED
  BY <1>1, AdaptersAgree, PTL

(* Without a failed call, Eof is answered only when every frame is out.     *)
THEOREM EofAlwaysMeansAllOut == Spec => []EofMeansAllOut
<1>1. Inv => EofMeansAllOut
  <2> SUFFICES ASSUME Inv, response = "eof", failures = 0
               PROVE  /\ pts_queue = <<>> /\ buffered = <<>>
                      /\ sent > 0 => delivered # NoPacket /\ delivered.frame = sent
    BY DEF EofMeansAllOut
  <2>1. buffered = <<>> /\ pending = <<>>
    BY DEF Inv, AtEof, Unused
  <2>2. Exact(buffered, accepted, pts_queue, sent) /\ Sized(pending, delivered, buffered, input_count, sent, size)
    BY DEF Inv, Lossless
  <2>3. Len(<<>>) = 0
    OBVIOUS
  <2>4. pts_queue \in Seq(Nat) /\ sent \in Nat
    BY DEF Inv, Inside, Held, Typed
  <2>5. pts_queue = <<>>
    <3>1. Len(pts_queue) = 0
      BY <2>1, <2>2, <2>3 DEF Exact
    <3> QED
      BY <2>4, <3>1, EmptySeq
  <2>6. Line(pending, delivered, Len(pending)) = delivered
    BY <2>1, <2>3 DEF Line
  <2>7. sent > Len(buffered) =>
          /\ Line(pending, delivered, Len(pending)) # NoPacket
          /\ Line(pending, delivered, Len(pending)).frame = sent - Len(buffered)
    BY <2>2 DEF Sized
  <2>8. Len(buffered) = 0 /\ sent - Len(buffered) = sent
    BY <2>1, <2>3, <2>4
  <2>9. sent > 0 => delivered # NoPacket /\ delivered.frame = sent
    BY <2>6, <2>7, <2>8
  <2> QED
    BY <2>1, <2>5, <2>9
<1> QED
  BY <1>1, AdaptersAgree, PTL

(* Without a failed call, a packet of another size than the one before it   *)
(* is a key frame.                                                          *)
THEOREM SizesChangeAtKeyFrames == Spec => SizeChangesAtKeyFrame
<1>1. ASSUME Inv, [Next]_vars, failures = 0, delivered # NoPacket, delivered'.size # delivered.size
      PROVE  delivered'.kind = "key"
  <2>1. delivered' # delivered
    BY <1>1
  <2>2. CASE ReceivePacket
    BY <1>1, <2>1, <2>2, ReceiveKeeps
  <2>3. CASE SendFrame \/ SendFrameNow \/ Flush \/ \E target \in Targets[size] : Resize(target)
    BY <2>1, <2>3 DEF SendFrame, SendFrameNow, Flush, Resize
  <2>4. CASE UNCHANGED vars
    BY <2>1, <2>4 DEF vars
  <2> QED
    BY <1>1, <2>2, <2>3, <2>4 DEF Next
<1>2. Inv /\ [Next]_vars =>
        [failures = 0 /\ delivered # NoPacket /\ delivered'.size # delivered.size
           => delivered'.kind = "key"]_<<delivered, failures>>
  BY <1>1
<1> QED
  BY <1>2, AdaptersAgree, PTL DEF Spec, SizeChangesAtKeyFrame
=============================================================================
