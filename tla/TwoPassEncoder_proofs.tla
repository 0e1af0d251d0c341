------------------------ MODULE TwoPassEncoder_proofs ------------------------
(* The chain of packets and the rate control hold for any clips, whatever     *)
(* bytes the frames come out as.  The sums over a clip and the bisection are  *)
(* recursive functions: what is said of them is proved by induction, in the   *)
(* form of a set that holds 0 and with each number the next.                  *)
EXTENDS TwoPassEncoder, FiniteSetTheorems, WellFoundedInduction, TLAPS

(* The chain holds for any clips, configuration and choice of bytes.  It is   *)
(* inductive once it says where run comes from, the last key frame's index,   *)
(* and what an interframe inherits, a size of the reference's grid.           *)
ChainInv ==
  /\ config \in Configs /\ frame_count \in Nat /\ run \in Nat
  /\ last_reconstruction # None =>
       /\ last_keyframe_index \in Nat /\ run = frame_count - last_keyframe_index
       /\ Grid(shown.size) = last_reconstruction.grid
  /\ ChainDecodes

LEMMA EncodeKeepsChain ==
  ASSUME ChainInv, EncodeFrame
  PROVE  ChainInv'
<1> DEFINE frame == clip[next]
           keyed == force_key(stats[next])
           limit == Most(config.golden_interval, 1)
<1>1. /\ Codable(frame, keyed) /\ keyed \in BOOLEAN
      /\ shown' = Plays(packet') /\ config' = config
      /\ packet'.key = keyed /\ packet'.planes = Planes(frame) /\ packet'.size = Size(frame)
      /\ packet'.from = (IF keyed THEN None ELSE last_reconstruction)
      /\ packet'.cut = stats[next].scene_cut
  BY Zenon DEF EncodeFrame, force_key
<1>2. /\ last_reconstruction' = Planes(frame) /\ frame_count' = frame_count + 1
      /\ last_keyframe_index' = (IF keyed THEN frame_count ELSE last_keyframe_index)
      /\ run' = (IF keyed THEN 1 ELSE run + 1)
  BY DEF EncodeFrame
<1>3. frame_count \in Nat /\ limit \in Nat /\ limit >= 1
  <2>1. config.golden_interval \in Nat
    BY TwoPassAssumption, Zenon DEF ChainInv
  <2> QED BY <2>1 DEF ChainInv, Most
<1>4. CASE keyed
  <2>1. shown'.planes = last_reconstruction' /\ Grid(shown'.size) = last_reconstruction'.grid
    BY <1>1, <1>2, <1>4 DEF Plays, Planes, Size, Grid
  <2>2. run' = frame_count' - last_keyframe_index' /\ run' \in 1..limit
    BY <1>2, <1>3, <1>4
  <2> QED BY <1>1, <1>2, <1>3, <1>4, <2>1, <2>2 DEF ChainInv, ChainDecodes
<1>5. CASE ~keyed
  <2>1. /\ last_reconstruction # None /\ ~stats[next].scene_cut
        /\ last_keyframe_index = None \/ ~(frame_count - last_keyframe_index >= limit)
    BY <1>5 DEF force_key
  <2>2. last_keyframe_index \in Nat /\ run = frame_count - last_keyframe_index
    BY <2>1 DEF ChainInv
  <2>3. run' = frame_count' - last_keyframe_index' /\ run' \in 1..limit
    <3>1. run \in Nat /\ run' = run + 1 /\ frame_count - last_keyframe_index < limit
      <4>1. None \notin Nat
        BY TwoPassAssumption, Zenon
      <4> HIDE DEF limit
      <4> QED BY <1>2, <1>3, <1>5, <2>1, <2>2, <4>1 DEF ChainInv
    <3> HIDE DEF limit
    <3> QED BY <1>2, <1>3, <1>5, <2>2, <3>1
  <2>4. shown'.planes = last_reconstruction' /\ shown'.size = shown.size
    BY <1>1, <1>2, <1>5 DEF Plays, ChainInv, ChainDecodes
  <2>5. last_reconstruction'.grid = last_reconstruction.grid /\ packet'.from.grid = packet'.planes.grid
    <3>1. Grid(frame) = last_reconstruction.grid /\ packet'.from = last_reconstruction
      BY <1>1, <1>5 DEF Codable
    <3>2. Planes(frame).grid = Grid(frame)
      BY DEF Planes
    <3> HIDE DEF frame
    <3> QED BY <1>1, <1>2, <3>1, <3>2
  <2>6. Grid(shown'.size) = last_reconstruction'.grid
    BY <2>1, <2>4, <2>5 DEF ChainInv
  <2> QED
    BY <1>1, <1>2, <1>3, <1>5, <2>1, <2>2, <2>3, <2>4, <2>5, <2>6 DEF ChainInv, ChainDecodes
<1> QED BY <1>1, <1>4, <1>5

(* Across clips, scene cuts, frames of other sizes and refused frames a       *)
(* player that decodes every packet always holds the picture the encoder      *)
(* predicts from next, at a size of its grid, and no key frame carries more   *)
(* frames than the golden interval.                                           *)
THEOREM ChainNeverBreaks == Spec => []ChainDecodes
<1>1. Init => ChainInv
  BY DEF Init, ChainInv, ChainDecodes
<1>2. ChainInv /\ [Next]_vars => ChainInv'
  <2> SUFFICES ASSUME ChainInv, [Next]_vars PROVE ChainInv'
    OBVIOUS
  <2>1. CASE EncodeFrame
    BY <2>1, EncodeKeepsChain
  <2>2. CASE UNCHANGED <<config, chain, packet, shown, run>>
    BY <2>2 DEF ChainInv, ChainDecodes, chain
  <2> QED BY <2>1, <2>2 DEF Next, FirstPass, Study, EncodeRefused, vars, chain
<1> QED BY <1>1, <1>2, PTL DEF Spec, ChainInv

-----------------------------------------------------------------------------
(* Induction, as the least natural number outside of a set.                   *)
LEMMA NaturalInduction ==
  ASSUME NEW S, 0 \in S, \A n \in Nat : n \in S => n + 1 \in S
  PROVE  \A n \in Nat : n \in S
<1> DEFINE T == Nat \ S
<1> SUFFICES ASSUME T # {} PROVE FALSE
  OBVIOUS
<1>1. PICK m \in T : \A y \in T : ~(<<y, m>> \in OpToRel(<, Nat))
  <2>1. T \subseteq Nat
    OBVIOUS
  <2> HIDE DEF T
  <2> QED BY <2>1, NatLessThanWellFounded, WFMin
<1>2. m # 0 /\ m - 1 \in Nat
  OBVIOUS
<1>3. m - 1 \in T
  BY <1>2
<1>4. <<m - 1, m>> \in OpToRel(<, Nat)
  BY <1>2 DEF OpToRel
<1> QED BY <1>1, <1>3, <1>4

(* The values, all in X, that begin with a and follow each other by step.     *)
StepsFrom(f, N, X, a, step) ==
  f \in [0..N -> X] /\ f[0] = a /\ \A n \in 1..N : f[n] = step[<<n, f[n - 1]>>]
Iterated(N, X, a, step) == CHOOSE f : StepsFrom(f, N, X, a, step)

LEMMA StepByStep ==
  ASSUME NEW N \in Nat, NEW X, NEW a \in X, NEW step,
         \A n \in 1..N, x \in X : step[<<n, x>>] \in X
  PROVE  StepsFrom(Iterated(N, X, a, step), N, X, a, step)
<1> DEFINE Rec(f, m) == f \in [0..m -> X] /\ f[0] = a /\ \A n \in 1..m : f[n] = step[<<n, f[n - 1]>>]
           S == {m \in Nat : m <= N => \E f : Rec(f, m)}
<1>1. 0 \in S
  <2>1. Rec([n \in 0..0 |-> a], 0)
    OBVIOUS
  <2>2. \E f : Rec(f, 0)
    BY <2>1
  <2> HIDE DEF Rec
  <2> QED BY <2>2
<1>2. ASSUME NEW m \in Nat, m \in S PROVE m + 1 \in S
  <2> SUFFICES ASSUME m + 1 <= N PROVE \E f : Rec(f, m + 1)
    OBVIOUS
  <2>1. PICK f : Rec(f, m)
    <3> HIDE DEF Rec
    <3> QED BY <1>2
  <2> DEFINE last == step[<<m + 1, f[m]>>]
             g == [n \in 0..m + 1 |-> IF n = m + 1 THEN last ELSE f[n]]
  <2>2. last \in X /\ f[m] \in X
    BY <2>1
  <2>3. g \in [0..m + 1 -> X] /\ g[0] = a
    <3> HIDE DEF last
    <3> QED BY <2>1, <2>2
  <2>4. ASSUME NEW n \in 1..m + 1 PROVE g[n] = step[<<n, g[n - 1]>>]
    <3>1. CASE n = m + 1
      <4>1. n - 1 = m /\ g[m] = f[m] /\ g[n] = last
        BY <3>1
      <4> HIDE DEF g
      <4> QED BY <4>1, <3>1
    <3>2. CASE n # m + 1
      <4>1. n \in 1..m /\ g[n] = f[n] /\ g[n - 1] = f[n - 1]
        BY <3>2
      <4> HIDE DEF g
      <4> QED BY <4>1, <2>1
    <3> QED BY <3>1, <3>2
  <2>5. Rec(g, m + 1)
    <3> HIDE DEF g
    <3> QED BY <2>3, <2>4
  <2> HIDE DEF Rec
  <2> QED BY <2>5
<1>3. N \in S
  <2> HIDE DEF S
  <2> QED BY <1>1, <1>2, NaturalInduction
<1>4. \E f : StepsFrom(f, N, X, a, step)
  BY <1>3 DEF StepsFrom
<1> QED BY <1>4 DEF Iterated

(* The sums of a sequence follow each other, and grow with its terms.         *)
LEMMA RunningDefined ==
  ASSUME NEW terms \in Seq(Nat)
  PROVE  Running(terms) = [n \in 0..Len(terms) |-> IF n = 0 THEN 0 ELSE Running(terms)[n - 1] + terms[n]]
<1> DEFINE Sums(f) == f = [n \in 0..Len(terms) |-> IF n = 0 THEN 0 ELSE f[n - 1] + terms[n]]
           step == [x \in (1..Len(terms)) \X Nat |-> x[2] + terms[x[1]]]
<1>1. Len(terms) \in Nat /\ \A n \in 1..Len(terms), x \in Nat : step[<<n, x>>] = x + terms[n] /\ x + terms[n] \in Nat
  OBVIOUS
<1> DEFINE f == Iterated(Len(terms), Nat, 0, step)
<1>2. StepsFrom(f, Len(terms), Nat, 0, step)
  <2>1. \A n \in 1..Len(terms), x \in Nat : step[<<n, x>>] \in Nat
    BY <1>1
  <2>2. Len(terms) \in Nat /\ 0 \in Nat
    OBVIOUS
  <2> HIDE DEF step
  <2> QED BY ONLY <2>1, <2>2, StepByStep
<1>3. Sums(f)
  <2>1. ASSUME NEW n \in 1..Len(terms) PROVE f[n] = f[n - 1] + terms[n]
    <3> HIDE DEF step, f
    <3>1. f[n - 1] \in Nat /\ f[n] = step[<<n, f[n - 1]>>]
      BY <1>2 DEF StepsFrom
    <3> QED BY <3>1, <1>1
  <2> HIDE DEF step, f
  <2> QED BY <1>2, <2>1 DEF StepsFrom
<1>4. \E g : Sums(g)
  <2> HIDE DEF f, Sums
  <2> QED BY <1>3
<1>5. Running(terms) = CHOOSE g : Sums(g)
  BY DEF Running
<1>6. Sums(Running(terms))
  <2> HIDE DEF Sums
  <2> QED BY <1>4, <1>5
<1> QED BY <1>6

LEMMA TotalsGrow ==
  ASSUME NEW a \in Seq(Nat), NEW b \in Seq(Nat), Len(a) = Len(b), \A i \in 1..Len(a) : a[i] <= b[i]
  PROVE  Total(a) \in Nat /\ Total(a) <= Total(b)
<1> DEFINE S == {n \in Nat : n <= Len(a) =>
                   /\ Running(a)[n] \in Nat /\ Running(b)[n] \in Nat
                   /\ Running(a)[n] <= Running(b)[n]}
<1>1. 0 \in S
  BY RunningDefined
<1>2. ASSUME NEW n \in Nat, n \in S PROVE n + 1 \in S
  <2> SUFFICES ASSUME n + 1 <= Len(a)
               PROVE /\ Running(a)[n + 1] \in Nat /\ Running(b)[n + 1] \in Nat
                     /\ Running(a)[n + 1] <= Running(b)[n + 1]
    OBVIOUS
  <2>1. n + 1 \in 1..Len(a) /\ n <= Len(a) /\ n + 1 \in 0..Len(a) /\ n + 1 # 0 /\ (n + 1) - 1 = n
    OBVIOUS
  <2>2. Running(a)[n + 1] = Running(a)[n] + a[n + 1]
    BY <2>1, RunningDefined
  <2>3. Running(b)[n + 1] = Running(b)[n] + b[n + 1]
    BY <2>1, RunningDefined, ZenonT(40)
  <2>4. a[n + 1] \in Nat /\ b[n + 1] \in Nat /\ a[n + 1] <= b[n + 1]
    BY <2>1
  <2>5. /\ Running(a)[n] \in Nat /\ Running(b)[n] \in Nat
        /\ Running(a)[n] <= Running(b)[n]
    BY <1>2, <2>1
  <2> DEFINE x == Running(a)[n]
             y == Running(b)[n]
             v == a[n + 1]
             w == b[n + 1]
  <2>6. Running(a)[n + 1] = x + v /\ Running(b)[n + 1] = y + w
    BY <2>2, <2>3
  <2>7. x \in Nat /\ y \in Nat /\ x <= y /\ v \in Nat /\ w \in Nat /\ v <= w
    BY <2>4, <2>5
  <2> HIDE DEF x, y, v, w
  <2>8. x + v \in Nat /\ y + w \in Nat /\ x + v <= y + w
    BY <2>7
  <2> QED BY <2>6, <2>8
<1>3. Len(a) \in S
  <2>1. Len(a) \in Nat
    OBVIOUS
  <2> HIDE DEF S
  <2> QED BY <2>1, <1>1, <1>2, NaturalInduction
<1> QED BY <1>3 DEF Total

LEMMA TotalIsNumber ==
  ASSUME NEW a \in Seq(Nat) PROVE Total(a) \in Nat
BY TotalsGrow

Bracket == [lo : 0..127, hi : 0..127]
(* The bracket of the bisection, at most so wide, around where fitting starts. *)
Brackets(b, fitting, width) ==
  /\ b \in Bracket /\ b.lo < b.hi /\ b.hi - b.lo <= width
  /\ b.hi \in fitting /\ b.lo \notin fitting

LEMMA HalvingBrackets ==
  ASSUME NEW fitting, NEW width \in Nat, NEW b, Brackets(b, fitting, 2 * width), width >= 1
  PROVE  Brackets(Halved(b, fitting), fitting, width)
<1> DEFINE mid == (b.lo + b.hi) \div 2
<1>1. /\ b.lo \in 0..127 /\ b.hi \in 0..127 /\ b.lo < b.hi /\ b.hi - b.lo <= 2 * width
      /\ b = [lo |-> b.lo, hi |-> b.hi] /\ b.hi \in fitting /\ b.lo \notin fitting
  BY DEF Brackets, Bracket
<1>2. CASE b.hi - b.lo <= 1
  <2>1. Halved(b, fitting) = b
    BY <1>2 DEF Halved
  <2>2. b.hi - b.lo <= width
    BY <1>1, <1>2, SMTT(30)
  <2> QED BY <1>1, <2>1, <2>2 DEF Brackets, Bracket
<1>3. CASE ~(b.hi - b.lo <= 1)
  <2>1. mid \in 0..127 /\ b.lo < mid /\ mid < b.hi /\ mid - b.lo <= width /\ b.hi - mid <= width
    <3>1. ASSUME NEW lo \in 0..127, NEW hi \in 0..127, lo < hi, hi - lo <= 2 * width, ~(hi - lo <= 1)
          PROVE  LET m == (lo + hi) \div 2
                 IN m \in 0..127 /\ lo < m /\ m < hi /\ m - lo <= width /\ hi - m <= width
      BY <3>1
    <3> QED BY <1>1, <1>3, <3>1, Zenon
  <2>2. Halved(b, fitting) = IF mid \in fitting THEN [b EXCEPT !.hi = mid] ELSE [b EXCEPT !.lo = mid]
    BY <1>3 DEF Halved
  <2> HIDE DEF mid
  <2> QED BY <2>1, <2>2 DEF Brackets, Bracket
<1> QED BY <1>2, <1>3

(* The rounds of the bisection follow each other.                             *)
LEMMA BisectedDefined ==
  ASSUME NEW fitting
  PROVE  /\ Bisected(fitting)[0] = [lo |-> 0, hi |-> 127]
         /\ \A round \in 1..7 : Bisected(fitting)[round] = Halved(Bisected(fitting)[round - 1], fitting)
<1> DEFINE Rounds(f) == f = [round \in 0..7 |-> IF round = 0 THEN [lo |-> 0, hi |-> 127] ELSE Halved(f[round - 1], fitting)]
           step == [x \in (1..7) \X Bracket |-> Halved(x[2], fitting)]
<1>1. \A n \in 1..7, b \in Bracket : step[<<n, b>>] = Halved(b, fitting)
  OBVIOUS
<1>2. \A b \in Bracket : Halved(b, fitting) \in Bracket
  BY DEF Halved, Bracket
<1> DEFINE f == Iterated(7, Bracket, [lo |-> 0, hi |-> 127], step)
<1>3. StepsFrom(f, 7, Bracket, [lo |-> 0, hi |-> 127], step)
  <2>1. \A n \in 1..7, b \in Bracket : step[<<n, b>>] \in Bracket
    BY <1>1, <1>2
  <2>2. 7 \in Nat /\ [lo |-> 0, hi |-> 127] \in Bracket
    BY DEF Bracket
  <2> HIDE DEF step
  <2> QED BY ONLY <2>1, <2>2, StepByStep
<1>4. Rounds(f)
  <2>1. ASSUME NEW n \in 1..7 PROVE f[n] = Halved(f[n - 1], fitting)
    <3> HIDE DEF step, f
    <3>1. f[n - 1] \in Bracket /\ f[n] = step[<<n, f[n - 1]>>]
      BY <1>3 DEF StepsFrom
    <3> QED BY <3>1, <1>1
  <2> HIDE DEF step, f
  <2> QED BY <1>3, <2>1 DEF StepsFrom
<1>5. \E g : Rounds(g)
  <2> HIDE DEF f, Rounds
  <2> QED BY <1>4
<1>6. Bisected(fitting) = CHOOSE g : Rounds(g)
  BY DEF Bisected
<1>7. Rounds(Bisected(fitting))
  <2> HIDE DEF Rounds
  <2> QED BY <1>5, <1>6
<1> QED BY <1>7

(* Where a fitting index makes every coarser one fit, the bisection ends at   *)
(* the finest.                                                                *)
LEMMA BisectionFindsFinest ==
  ASSUME NEW fitting \in SUBSET (0..127), 127 \in fitting, 0 \notin fitting,
         \A q \in fitting, r \in 0..127 : q <= r => r \in fitting
  PROVE  Bisected(fitting)[7].hi \in fitting /\ \A q \in fitting : Bisected(fitting)[7].hi <= q
<1> DEFINE At(n, width) == Brackets(Bisected(fitting)[n], fitting, width)
<1>1. At(0, 128)
  BY BisectedDefined DEF Brackets, Bracket
<1>2. ASSUME NEW n \in 1..7, NEW width \in Nat, width >= 1, At(n - 1, 2 * width) PROVE At(n, width)
  BY <1>2, BisectedDefined, HalvingBrackets
<1> HIDE DEF At
<1>3. At(1, 64)
  BY <1>1, <1>2
<1>4. At(2, 32)
  BY <1>3, <1>2
<1>5. At(3, 16)
  BY <1>4, <1>2
<1>6. At(4, 8)
  BY <1>5, <1>2
<1>7. At(5, 4)
  BY <1>6, <1>2
<1>8. At(6, 2)
  BY <1>7, <1>2
<1>9. At(7, 1)
  BY <1>8, <1>2
<1> DEFINE b == Bisected(fitting)[7]
<1>10. Brackets(b, fitting, 1)
  BY <1>9 DEF At
<1> HIDE DEF b
<1>11. ASSUME NEW q \in fitting PROVE b.hi <= q
  <2>1. q \in 0..127
    BY <1>11
  <2>2. b.lo \in 0..127 /\ b.hi \in 0..127 /\ b.hi - b.lo <= 1 /\ b.lo \notin fitting
    BY <1>10 DEF Brackets, Bracket
  <2>3. ~(q <= b.lo)
    BY <1>11, <2>2
  <2>4. ASSUME NEW lo \in 0..127, NEW hi \in 0..127, hi - lo <= 1, ~(q <= lo) PROVE hi <= q
    BY <2>1, <2>4
  <2> QED BY <2>1, <2>2, <2>3, <2>4
<1> QED BY <1>10, <1>11 DEF b, Brackets

-----------------------------------------------------------------------------
(* Arithmetic.                                                                *)
LEMMA ClampedStays ==
  ASSUME NEW x \in Int, NEW lo \in Int, NEW hi \in Int, lo <= hi
  PROVE  /\ Clamped(x, lo, hi) \in Int /\ lo <= Clamped(x, lo, hi) /\ Clamped(x, lo, hi) <= hi
         /\ lo <= x /\ x <= hi => Clamped(x, lo, hi) = x
         /\ x >= hi => Clamped(x, lo, hi) = hi
         /\ x >= 0 /\ hi >= 0 => Clamped(x, lo, hi) >= 0
BY DEF Clamped, Most, Least

LEMMA DivisionReaches ==
  ASSUME NEW x \in Nat, NEW k \in Nat, NEW d \in Nat, d > 0, x >= k * d
  PROVE  x \div d >= k
OBVIOUS

LEMMA ProductKeepsOrder ==
  ASSUME NEW x \in Nat, NEW y \in Nat, x <= y, NEW d \in Nat
  PROVE  x * d \in Nat /\ y * d \in Nat /\ x * d <= y * d
OBVIOUS

LEMMA NearestIsNumber ==
  ASSUME NEW a \in Int, NEW b \in Nat, b > 0
  PROVE  Nearest(a, b) \in Int /\ (a >= 0 => Nearest(a, b) >= 0)
BY DEF Nearest, Magnitude

LEMMA Log2IsNumber ==
  ASSUME NEW x PROVE Log2(x) \in Nat
<1> DEFINE S == {k \in 1..16 : 2^k <= x}
<1>1. IsFiniteSet(1..16) /\ S \subseteq 1..16
  <2>1. 1 \in Int /\ 16 \in Int
    OBVIOUS
  <2>2. IsFiniteSet(1..16)
    BY <2>1, FS_Interval, Zenon
  <2> QED BY <2>2
<1>2. IsFiniteSet(S)
  BY <1>1, FS_Subset
<1> QED BY <1>2, FS_CardinalityType DEF Log2

(* Complexities as the first pass finds them, and their means.               *)
Measured(st) ==
  /\ Len(st) \in Nat /\ DOMAIN st = 1..Len(st) /\ (st = <<>> <=> Len(st) = 0)
  /\ \A i \in 1..Len(st) : st[i].bits_per_mb \in Nat
Means == [sum : Nat, count : Nat \ {0}]

LEMMA StudyGivesNumbers ==
  ASSUME NEW c \in Clips
  PROVE  Measured(first_pass_analyze(c)) /\ Len(first_pass_analyze(c)) = Len(c)
         /\ (first_pass_analyze(c) = <<>> <=> c = <<>>)
<1>1. Len(c) \in Nat /\ DOMAIN c = 1..Len(c) /\ (c = <<>> <=> Len(c) = 0)
  <2>1. PICK S : c \in Seq(S)
    BY TwoPassAssumption, Zenon
  <2> QED BY <2>1
<1>2. \A i \in DOMAIN c : first_pass_analyze(c)[i].bits_per_mb \in Nat
  <2> SUFFICES ASSUME NEW i \in DOMAIN c PROVE first_pass_analyze(c)[i].bits_per_mb \in Nat
    OBVIOUS
  <2>1. \E x, y : first_pass_analyze(c)[i].bits_per_mb = 30 * Log2(x) + 25 * Log2(y)
    BY DEF first_pass_analyze
  <2>2. PICK x, y : first_pass_analyze(c)[i].bits_per_mb = 30 * Log2(x) + 25 * Log2(y)
    BY <2>1
  <2>3. Log2(x) \in Nat /\ Log2(y) \in Nat
    BY Log2IsNumber
  <2> QED BY <2>2, <2>3
<1>3. \E F : first_pass_analyze(c) = [i \in 1..Len(c) |-> F[i]]
  <2>1. first_pass_analyze(c) = [i \in 1..Len(c) |-> first_pass_analyze(c)[i]]
    BY <1>1 DEF first_pass_analyze
  <2> QED BY <2>1
<1>4. DOMAIN first_pass_analyze(c) = 1..Len(c) /\ Len(first_pass_analyze(c)) = Len(c)
  BY <1>1, <1>3
<1>5. first_pass_analyze(c) = <<>> <=> c = <<>>
  BY <1>1, <1>3, <1>4
<1> QED BY <1>1, <1>2, <1>4, <1>5 DEF Measured

LEMMA MeansAreNumbers ==
  ASSUME NEW st, Measured(st)
  PROVE  mean_complexity_cost(st) \in Means /\ \A i \in DOMAIN st : Own(st[i]) \in Means
<1> DEFINE terms == [i \in DOMAIN st |-> st[i].bits_per_mb]
<1>1. terms \in Seq(Nat) /\ Len(terms) = Len(st)
  BY DEF Measured
<1>2. Total(terms) \in Nat
  <2> HIDE DEF terms
  <2> QED BY <1>1, TotalIsNumber
<1>3. st # <<>> => Len(st) \in Nat \ {0}
  BY DEF Measured
<1>4. mean_complexity_cost(st) = IF st = <<>> THEN [sum |-> 0, count |-> 1] ELSE [sum |-> Total(terms), count |-> Len(st)]
  BY DEF mean_complexity_cost
<1>5. mean_complexity_cost(st) \in Means
  <2> HIDE DEF terms
  <2> QED BY <1>2, <1>3, <1>4 DEF Means
<1> QED BY <1>5 DEF Own, Means, Measured

LEMMA IndexInRange ==
  ASSUME NEW base \in Int, NEW complexity, complexity.bits_per_mb \in Nat, NEW mean \in Means
  PROVE  qindex_from_complexity(base, complexity, mean) \in 0..127
<1> DEFINE off == mean.sum - mean.count * complexity.bits_per_mb
           delta == IF mean.sum > mean.count THEN Nearest(off * DEFAULT_AQ_QINDEX_RANGE, mean.sum) ELSE 0
           boost == IF complexity.scene_cut THEN DEFAULT_SCENE_CUT_QUANT_BOOST ELSE 0
           step == Clamped(delta, -DEFAULT_AQ_QINDEX_RANGE, DEFAULT_AQ_QINDEX_RANGE)
<1>1. mean.sum \in Nat /\ mean.count \in Nat /\ mean.count > 0
  BY DEF Means
<1>2. off \in Int /\ off * DEFAULT_AQ_QINDEX_RANGE \in Int
  BY <1>1 DEF DEFAULT_AQ_QINDEX_RANGE
<1>3. delta \in Int
  <2> HIDE DEF off
  <2> QED BY <1>1, <1>2, NearestIsNumber
<1>4. step \in Int
  <2> HIDE DEF delta
  <2> QED BY <1>3, ClampedStays DEF DEFAULT_AQ_QINDEX_RANGE
<1>5. boost \in Int
  BY DEF DEFAULT_SCENE_CUT_QUANT_BOOST
<1>6. base + step - boost \in Int
  <2> HIDE DEF step, boost
  <2> QED BY <1>4, <1>5
<1>7. Clamped(base + step - boost, 0, 127) \in 0..127
  <2> HIDE DEF step, boost
  <2>1. \A x \in Int : Clamped(x, 0, 127) \in 0..127
    BY DEF Clamped, Most, Least
  <2> QED BY <1>6, <2>1
<1> QED BY <1>7 DEF qindex_from_complexity

(* Where the numbers of a configuration come from.                            *)
LEMMA BudgetIsNumber ==
  ASSUME NEW c \in Configs, NEW n \in Nat, bitrate_targeted(c)
  PROVE  gop_byte_budget(c, n) \in Nat
<1>1. c.target_bitrate_bps \in Nat /\ c.fps_num \in Nat /\ c.fps_den \in Nat /\ c.fps_num # 0
  BY TwoPassAssumption, ZenonT(40) DEF bitrate_targeted
<1>2. Most(c.fps_den, 1) \in Nat
  BY <1>1 DEF Most
<1>3. c.target_bitrate_bps * n * Most(c.fps_den, 1) \in Nat
  BY <1>1, <1>2
<1>4. 8 * c.fps_num \in Nat /\ 8 * c.fps_num > 0
  BY <1>1
<1>5. \A x \in Nat, d \in Nat : d > 0 => x \div d \in Nat
  OBVIOUS
<1> QED BY <1>3, <1>4, <1>5 DEF gop_byte_budget

LEMMA CeilingIsNumber ==
  ASSUME NEW c \in Configs, NEW n \in Nat, bitrate_targeted(c)
  PROVE  ceiling_bytes(c, n) \in Nat
<1>1. gop_byte_budget(c, n) \in Nat /\ Most(c.overshoot_ratio, 100) \in Nat
  BY BudgetIsNumber, TwoPassAssumption, ZenonT(40) DEF Most
<1>2. \A x \in Nat, y \in Nat : (x * y) \div 100 \in Nat
  OBVIOUS
<1> QED BY <1>1, <1>2 DEF ceiling_bytes

(* A coarser index predicts no more bytes, for a frame and for a group.       *)
LEMMA FrameBytesFall ==
  ASSUME NEW bits \in Nat, NEW width \in Nat, NEW height \in Nat,
         NEW q \in 0..127, NEW r \in 0..127, q <= r
  PROVE  /\ estimate_frame_bytes(bits, r, width, height) \in Nat
         /\ estimate_frame_bytes(bits, q, width, height) \in Nat
         /\ estimate_frame_bytes(bits, r, width, height) <= estimate_frame_bytes(bits, q, width, height)
<1> DEFINE w == UpDiv(width, 16)
           h == UpDiv(height, 16)
           eq == estimate_bits_per_mb(bits, q)
           er == estimate_bits_per_mb(bits, r)
<1>1. w \in Nat /\ h \in Nat
  BY DEF UpDiv
<1>2. Shrink[q] \in Nat /\ Shrink[r] \in Nat /\ Shrink[r] <= Shrink[q]
  <2>1. q \in 0..r
    OBVIOUS
  <2>2. \A x \in 0..127 : Shrink[x] \in Nat /\ \A finer \in 0..x : Shrink[x] <= Shrink[finer]
    BY TwoPassAssumption, Zenon
  <2> QED BY <2>1, <2>2, ZenonT(40)
<1>3. bits * Shrink[r] \in Nat /\ bits * Shrink[q] \in Nat /\ bits * Shrink[r] <= bits * Shrink[q]
  <2>1. \A x, y, b \in Nat : x <= y => b * x \in Nat /\ b * y \in Nat /\ b * x <= b * y
    OBVIOUS
  <2> QED BY <1>2, <2>1
<1>4. eq \in Nat /\ er \in Nat /\ er <= eq
  <2>1. \A x, y \in Nat : x <= y => x \div 100 \in Nat /\ y \div 100 \in Nat /\ x \div 100 <= y \div 100
    OBVIOUS
  <2> QED BY <1>3, <2>1 DEF estimate_bits_per_mb, RATE_MODEL_MB_FLOOR_BITS
<1>5. er * w * h \in Nat /\ eq * w * h \in Nat /\ er * w * h <= eq * w * h
  <2> HIDE DEF er, eq, w, h
  <2>1. er * w \in Nat /\ eq * w \in Nat /\ er * w <= eq * w
    BY <1>1, <1>4, ProductKeepsOrder
  <2> QED BY <1>1, <2>1, ProductKeepsOrder
<1>6. UpDiv(er * w * h, 8) \in Nat /\ UpDiv(eq * w * h, 8) \in Nat /\ UpDiv(er * w * h, 8) <= UpDiv(eq * w * h, 8)
  <2> HIDE DEF er, eq, w, h
  <2>1. \A x, y \in Nat : x <= y => UpDiv(x, 8) \in Nat /\ UpDiv(y, 8) \in Nat /\ UpDiv(x, 8) <= UpDiv(y, 8)
    BY DEF UpDiv
  <2> QED BY <1>5, <2>1
<1> QED BY <1>6 DEF estimate_frame_bytes

LEMMA PredictionFalls ==
  ASSUME NEW st, Measured(st), NEW width \in Nat, NEW height \in Nat,
         NEW q \in 0..127, NEW r \in 0..127, q <= r
  PROVE  /\ predict_gop_bytes_at_qindex(st, width, height, r) \in Nat
         /\ predict_gop_bytes_at_qindex(st, width, height, q) \in Nat
         /\ predict_gop_bytes_at_qindex(st, width, height, r) <= predict_gop_bytes_at_qindex(st, width, height, q)
<1> DEFINE At(x) == [i \in DOMAIN st |-> estimate_frame_bytes(st[i].bits_per_mb, x, width, height)]
<1>1. \A i \in 1..Len(st) : /\ At(r)[i] \in Nat /\ At(q)[i] \in Nat /\ At(r)[i] <= At(q)[i]
  <2> SUFFICES ASSUME NEW i \in 1..Len(st)
               PROVE At(r)[i] \in Nat /\ At(q)[i] \in Nat /\ At(r)[i] <= At(q)[i]
    OBVIOUS
  <2>1. st[i].bits_per_mb \in Nat /\ i \in DOMAIN st
    BY DEF Measured
  <2> QED BY <2>1, FrameBytesFall, ZenonT(40)
<1>2. \A x \in {q, r} : DOMAIN At(x) = 1..Len(st) /\ At(x) = [i \in 1..Len(st) |-> At(x)[i]]
  BY DEF Measured
<1>3. Len(st) \in Nat
  BY DEF Measured
<1> HIDE DEF At
<1>4. At(r) \in Seq(Nat) /\ At(q) \in Seq(Nat) /\ Len(At(r)) = Len(st) /\ Len(At(q)) = Len(st)
  <2>1. \A f : f = [i \in 1..Len(st) |-> f[i]] /\ (\A i \in 1..Len(st) : f[i] \in Nat) => f \in Seq(Nat) /\ Len(f) = Len(st)
    BY <1>3
  <2> QED BY <1>1, <1>2, <2>1
<1>5. Total(At(r)) \in Nat /\ Total(At(q)) \in Nat /\ Total(At(r)) <= Total(At(q))
  BY <1>1, <1>4, TotalsGrow, TotalIsNumber
<1> QED BY <1>5 DEF predict_gop_bytes_at_qindex, At

LEMMA SolverFindsFinest ==
  ASSUME NEW c \in Configs, bitrate_targeted(c), NEW st, Measured(st), st # <<>>,
         NEW width \in Nat, NEW height \in Nat
  PROVE  /\ solve_base_qindex_for_budget(c, st, width, height) \in 0..127
         /\ \/ solve_base_qindex_for_budget(c, st, width, height) \in Fitting(c, st, width, height)
            \/ /\ Fitting(c, st, width, height) = {}
               /\ solve_base_qindex_for_budget(c, st, width, height) = 127
         /\ \A p \in Fitting(c, st, width, height) : solve_base_qindex_for_budget(c, st, width, height) <= p
<1> DEFINE fitting == Fitting(c, st, width, height)
           q == solve_base_qindex_for_budget(c, st, width, height)
           ceiling == ceiling_bytes(c, Len(st))
<1>1. fitting \subseteq 0..127
  BY DEF Fitting
<1>2. \A p \in fitting, r \in 0..127 : p <= r => r \in fitting
  <2> SUFFICES ASSUME NEW p \in fitting, NEW r \in 0..127, p <= r PROVE r \in fitting
    BY Zenon
  <2>1. ceiling \in Nat
    BY CeilingIsNumber DEF Measured
  <2>2. p \in 0..127 /\ predict_gop_bytes_at_qindex(st, width, height, p) <= ceiling
    BY DEF Fitting
  <2>3. /\ predict_gop_bytes_at_qindex(st, width, height, r) \in Nat
        /\ predict_gop_bytes_at_qindex(st, width, height, p) \in Nat
        /\ predict_gop_bytes_at_qindex(st, width, height, r) <= predict_gop_bytes_at_qindex(st, width, height, p)
    BY <2>2, PredictionFalls, Zenon
  <2>4. predict_gop_bytes_at_qindex(st, width, height, r) <= ceiling
    <3> HIDE DEF ceiling
    <3> QED BY <2>1, <2>2, <2>3
  <2> QED BY <2>4 DEF Fitting
<1>3. q = IF 127 \notin fitting THEN 127 ELSE IF 0 \in fitting THEN 0 ELSE Bisected(fitting)[7].hi
  BY DEF solve_base_qindex_for_budget
<1> HIDE DEF fitting, q
<1>4. CASE 127 \notin fitting
  <2>1. fitting = {}
    <3> SUFFICES ASSUME NEW p \in fitting PROVE FALSE
      OBVIOUS
    <3>1. p \in 0..127 /\ p <= 127
      BY <1>1
    <3> QED BY <1>2, <1>4, <3>1
  <2> QED BY <1>3, <1>4, <2>1 DEF fitting, q
<1>5. CASE 127 \in fitting /\ 0 \in fitting
  <2>1. \A p \in fitting : 0 <= p
    BY <1>1
  <2> QED BY <1>3, <1>5, <2>1 DEF fitting, q
<1>6. CASE 127 \in fitting /\ 0 \notin fitting
  <2>1. q = Bisected(fitting)[7].hi
    BY <1>3, <1>6
  <2>2. q \in fitting /\ \A p \in fitting : q <= p
    BY <1>1, <1>2, <1>6, <2>1, BisectionFindsFinest
  <2> QED BY <1>1, <2>2 DEF fitting, q
<1> QED BY <1>4, <1>5, <1>6

-----------------------------------------------------------------------------
(* Debt is answered by coarser indexes, credit by finer ones, six allotments  *)
(* of debt by all the steps there are.                                        *)
LEMMA FeedbackAnswers ==
  ASSUME NEW debt \in Int, NEW budget \in Nat, budget > 0
  PROVE  LET delta == rate_feedback_delta(debt, budget)
         IN /\ delta \in -24..24
            /\ debt <= 0 => delta \in -24..0
            /\ debt >= 0 => delta \in 0..24
            /\ debt >= 6 * budget => delta = 24
<1> DEFINE x == debt * RATE_FEEDBACK_QSTEP_PER_FRAME
           near == Nearest(x, budget)
<1>1. x \in Int /\ x = 4 * debt
  BY DEF RATE_FEEDBACK_QSTEP_PER_FRAME
<1>2. near \in Int /\ (debt >= 0 => near >= 0) /\ (debt <= 0 => near <= 0)
  <2>1. \A y \in Int : Nearest(y, budget) \in Int /\ (y >= 0 => Nearest(y, budget) >= 0) /\ (y <= 0 => Nearest(y, budget) <= 0)
    BY DEF Nearest, Magnitude
  <2> HIDE DEF x
  <2> QED BY <1>1, <2>1
<1>3. debt >= 6 * budget => near >= 24
  <2> SUFFICES ASSUME debt >= 6 * budget PROVE near >= 24
    OBVIOUS
  <2>1. 2 * x + budget \in Nat /\ 2 * x + budget >= 24 * (2 * budget) /\ x >= 0
    BY <1>1
  <2> HIDE DEF x
  <2>2. near = (2 * x + budget) \div (2 * budget)
    BY <1>1, <2>1 DEF Nearest, Magnitude
  <2>3. 2 * budget \in Nat /\ 2 * budget > 0
    OBVIOUS
  <2> HIDE DEF near
  <2> QED BY <2>1, <2>2, <2>3, DivisionReaches
<1>4. budget \notin {None, 0}
  <2>1. None \notin Nat
    BY TwoPassAssumption, Zenon
  <2> QED BY <2>1
<1>5. rate_feedback_delta(debt, budget) = Clamped(near, -24, 24)
  BY <1>4 DEF rate_feedback_delta, RATE_FEEDBACK_MAX_QSTEP
<1>6. \A y \in Int : LET delta == Clamped(y, -24, 24)
                     IN /\ delta \in -24..24
                        /\ y <= 0 => delta \in -24..0
                        /\ y >= 0 => delta \in 0..24
                        /\ y >= 24 => delta = 24
  BY DEF Clamped, Most, Least
<1> HIDE DEF near
<1> QED BY <1>2, <1>3, <1>5, <1>6

(* What the encoder knows: nothing, or what the first pass over a clip found; *)
(* of the caller's clip, if it was the last it studied so.                    *)
RateTyped ==
  /\ config \in Configs
  /\ clip \in Clips \cup {<<>>} /\ Measured(stats) /\ (stats = <<>> <=> clip = <<>>)
  /\ Len(stats) = Len(clip) /\ next \in Nat \ {0}
  /\ global_mean_cost = None \/ global_mean_cost \in Means
  /\ \/ solved_base_qindex = None /\ frame_byte_budget = None
     \/ solved_base_qindex \in 0..127 /\ frame_byte_budget \in Nat
  /\ rate_debt_bytes \in Int
  /\ DOMAIN paid = {"clip", "bytes", "frames"} /\ paid = [clip |-> paid.clip, bytes |-> paid.bytes, frames |-> paid.frames]
  /\ paid.bytes \in Nat /\ paid.frames \in Nat /\ (paid.frames = 0 => paid.bytes = 0)
Informed ==
  paid.clip = clip =>
    /\ global_mean_cost = mean_complexity_cost(stats)
    /\ solved_base_qindex =
         IF bitrate_targeted(config) /\ stats # <<>>
         THEN solve_base_qindex_for_budget(config, stats, clip[1].width, clip[1].height) ELSE None
RateInv == RateTyped /\ Informed /\ AccountIsExact /\ DebtStaysSmall

LEMMA FirstPassInformed ==
  ASSUME RateInv, NEW c \in Clips, FirstPass(c)
  PROVE  RateInv'
<1>1. /\ clip' = c /\ stats' = first_pass_analyze(c) /\ next' = 1 /\ config' = config
      /\ global_mean_cost' = mean_complexity_cost(stats')
      /\ rate_debt_bytes' = 0 /\ paid' = [clip |-> c, bytes |-> 0, frames |-> 0]
  BY DEF FirstPass, Opens
<1>2. Measured(stats') /\ Len(stats') = Len(c) /\ (stats' = <<>> <=> c = <<>>)
  BY <1>1, StudyGivesNumbers
<1>3. global_mean_cost' \in Means
  BY <1>1, <1>2, MeansAreNumbers
<1>4. config \in Configs
  BY DEF RateInv, RateTyped
<1>5. CASE bitrate_targeted(config) /\ stats' # <<>>
  <2>1. /\ solved_base_qindex' = solve_base_qindex_for_budget(config, stats', c[1].width, c[1].height)
        /\ frame_byte_budget' = gop_byte_budget(config, Len(stats')) \div Len(stats')
    BY <1>5 DEF FirstPass
  <2>2. Len(stats') \in Nat /\ Len(stats') > 0
    BY <1>2, <1>5 DEF Measured
  <2>3. c[1].width \in Nat /\ c[1].height \in Nat
    <3>1. c \in Seq([width : Nat, height : Nat, stride : Nat, luma : Seq(Nat)]) /\ Len(c) > 0
      BY <1>2, <2>2, TwoPassAssumption, Zenon
    <3>2. \A S : c \in Seq(S) => c[1] \in S
      BY <3>1
    <3> QED BY <3>1, <3>2, Zenon
  <2>4. solved_base_qindex' \in 0..127
    <3>1. solve_base_qindex_for_budget(config, stats', c[1].width, c[1].height) \in 0..127
      <4>1. \A st, w, h : Measured(st) /\ st # <<>> /\ w \in Nat /\ h \in Nat =>
              solve_base_qindex_for_budget(config, st, w, h) \in 0..127
        BY <1>4, <1>5, SolverFindsFinest
      <4> QED BY <1>2, <1>5, <2>3, <4>1
    <3> QED BY <2>1, <3>1
  <2>5. frame_byte_budget' \in Nat
    <3>1. gop_byte_budget(config, Len(stats')) \in Nat
      BY <1>4, <1>5, <2>2, BudgetIsNumber
    <3>2. \A x \in Nat, d \in Nat : d > 0 => x \div d \in Nat
      OBVIOUS
    <3> QED BY <2>1, <2>2, <3>1, <3>2
  <2>6. RateTyped'
    BY <1>1, <1>2, <1>3, <1>4, <2>4, <2>5 DEF RateTyped
  <2>7. Informed'
    BY <1>1, <1>5, <2>1 DEF Informed
  <2>8. AccountIsExact' /\ DebtStaysSmall'
    <3>1. paid'.bytes = 0 /\ paid'.frames = 0 /\ \A b \in Nat : 0 - 0 * b = 0
      BY <1>1
    <3>2. AccountIsExact'
      BY <1>1, <2>5, <3>1 DEF AccountIsExact
    <3>3. DebtStaysSmall'
      BY <1>1 DEF DebtStaysSmall
    <3> QED BY <3>2, <3>3
  <2> QED BY <2>6, <2>7, <2>8 DEF RateInv
<1>6. CASE ~(bitrate_targeted(config) /\ stats' # <<>>)
  <2>1. solved_base_qindex' = None /\ frame_byte_budget' = None
    BY <1>6 DEF FirstPass
  <2>2. RateTyped'
    BY <1>1, <1>2, <1>3, <1>4, <2>1 DEF RateTyped
  <2>3. Informed'
    BY <1>1, <1>6, <2>1 DEF Informed
  <2>4. AccountIsExact' /\ DebtStaysSmall'
    BY <1>1, <2>1 DEF AccountIsExact, DebtStaysSmall
  <2> QED BY <2>2, <2>3, <2>4 DEF RateInv
<1> QED BY <1>5, <1>6

LEMMA StudyTellsNothing ==
  ASSUME RateInv, NEW c \in Clips, Study(c)
  PROVE  RateInv'
<1>1. /\ clip' = c /\ stats' = first_pass_analyze(c) /\ next' = 1
      /\ paid' = [paid EXCEPT !.clip = None]
      /\ UNCHANGED <<config, global_mean_cost, solved_base_qindex, frame_byte_budget, rate_debt_bytes>>
  BY DEF Study, Opens, account
<1>2. Measured(stats') /\ Len(stats') = Len(c) /\ (stats' = <<>> <=> c = <<>>)
  BY <1>1, StudyGivesNumbers
<1>3. /\ paid' = [clip |-> None, bytes |-> paid.bytes, frames |-> paid.frames]
      /\ paid'.clip = None /\ paid'.bytes = paid.bytes /\ paid'.frames = paid.frames
      /\ DOMAIN paid' = {"clip", "bytes", "frames"}
  BY <1>1 DEF RateInv, RateTyped
<1>4. paid'.clip # clip'
  BY <1>1, <1>3, TwoPassAssumption, Zenon
<1>5. RateTyped'
  BY <1>1, <1>2, <1>3 DEF RateInv, RateTyped
<1>6. Informed' /\ DebtStaysSmall'
  BY <1>4 DEF Informed, DebtStaysSmall, Affordable
<1>7. AccountIsExact'
  BY <1>1, <1>3 DEF RateInv, AccountIsExact
<1> QED BY <1>5, <1>6, <1>7 DEF RateInv

(* While the encoder is told nothing new, the schedule it follows and what    *)
(* its frames may come to are the same.                                       *)
LEMMA ScheduleStays ==
  ASSUME UNCHANGED <<config, global_mean_cost, solved_base_qindex, frame_byte_budget, clip, stats, paid.clip>>
  PROVE  (\A steps : Sizes(steps)' = Sizes(steps)) /\ (Affordable' <=> Affordable)
<1>1. \A steps : Sizes(steps)' = Sizes(steps)
  BY DEF Sizes, Centred, Reference
<1>2. Affordable' <=> Affordable
  BY <1>1 DEF Affordable
<1> QED BY <1>1, <1>2

LEMMA CentredInRange ==
  ASSUME RateInv, NEW i \in DOMAIN stats
  PROVE  Centred(stats[i]) \in 0..127
<1>1. stats[i].bits_per_mb \in Nat /\ Reference(stats[i]) \in Means
  <2>1. stats[i].bits_per_mb \in Nat /\ Own(stats[i]) \in Means
    BY MeansAreNumbers DEF RateInv, RateTyped, Measured
  <2> QED BY <2>1 DEF Reference, RateInv, RateTyped
<1> DEFINE base == IF solved_base_qindex = None THEN config.qindex ELSE solved_base_qindex
<1>2. base \in Int
  <2>1. CASE solved_base_qindex = None
    <3>1. config.qindex \in Nat
      BY TwoPassAssumption, ZenonT(40) DEF RateInv, RateTyped
    <3> QED BY <2>1, <3>1
  <2>2. CASE solved_base_qindex # None
    <3>1. solved_base_qindex \in 0..127
      BY <2>2 DEF RateInv, RateTyped
    <3> QED BY <2>2, <3>1
  <2> QED BY <2>1, <2>2
<1>3. Centred(stats[i]) = qindex_from_complexity(base, stats[i], Reference(stats[i]))
  BY DEF Centred
<1> HIDE DEF base
<1> QED BY <1>1, <1>2, <1>3, IndexInRange

LEMMA SizesAreNumbers ==
  ASSUME RateInv, NEW steps \in SUBSET Int
  PROVE  Sizes(steps) \subseteq Nat
<1> SUFFICES ASSUME NEW key \in BOOLEAN, NEW i \in DOMAIN stats, NEW s \in steps
             PROVE  Coded[<<key, Clamped(Centred(stats[i]) + s, 0, 127)>>] \subseteq Nat
  <2> SUFFICES ASSUME NEW n \in Sizes(steps) PROVE n \in Nat
    OBVIOUS
  <2>1. PICK key \in BOOLEAN, i \in DOMAIN stats, s \in steps :
          n \in Coded[<<key, Clamped(Centred(stats[i]) + s, 0, 127)>>]
    BY DEF Sizes
  <2> QED BY <2>1
<1>1. Centred(stats[i]) + s \in Int
  <2>1. \A x \in 0..127, y \in Int : x + y \in Int
    OBVIOUS
  <2> QED BY <2>1, CentredInRange
<1>2. \A y \in Int : Clamped(y, 0, 127) \in 0..127
  BY DEF Clamped, Most, Least
<1> QED BY <1>1, <1>2, TwoPassAssumption, ZenonT(40)

LEMMA EncodeKeepsRate ==
  ASSUME RateInv, EncodeFrame
  PROVE  RateInv'
<1> DEFINE keyed == force_key(stats[next])
           q == qindex_for(stats[next])
           b == frame_byte_budget
           debt == rate_debt_bytes
<1>1. /\ next \in DOMAIN stats /\ keyed \in BOOLEAN /\ next' \in Nat \ {0}
      /\ UNCHANGED <<config, global_mean_cost, solved_base_qindex, frame_byte_budget, clip, stats>>
  <2>1. next \in DOMAIN stats
    <3>1. next <= Len(clip)
      BY DEF EncodeFrame
    <3> QED BY <3>1 DEF RateInv, RateTyped, Measured
  <2>2. next' = next + 1 /\ UNCHANGED <<config, account, caller>>
    BY DEF EncodeFrame
  <2>3. keyed \in BOOLEAN
    BY DEF force_key
  <2> QED BY <2>1, <2>2, <2>3 DEF RateInv, RateTyped, account, caller
<1>2. PICK n \in Coded[<<keyed, q>>] :
        /\ debt' = (IF b = None THEN debt ELSE debt + n - b)
        /\ paid' = [paid EXCEPT !.bytes = @ + n, !.frames = @ + 1]
  BY DEF EncodeFrame
<1>4. Centred(stats[next]) \in 0..127
  BY <1>1, CentredInRange
<1>5. b # None => /\ b \in Nat /\ solved_base_qindex # None
                  /\ rate_feedback_delta(debt, b) \in Int
                  /\ q = Clamped(Centred(stats[next]) + rate_feedback_delta(debt, b), 0, 127)
  <2> SUFFICES ASSUME b # None
               PROVE  /\ b \in Nat /\ solved_base_qindex # None
                      /\ rate_feedback_delta(debt, b) \in Int
                      /\ q = Clamped(Centred(stats[next]) + rate_feedback_delta(debt, b), 0, 127)
    OBVIOUS
  <2>1. b \in Nat /\ solved_base_qindex \in 0..127 /\ debt \in Int
    BY DEF RateInv, RateTyped
  <2>2. solved_base_qindex # None
    <3>1. None \notin Nat
      BY TwoPassAssumption, Zenon
    <3> QED BY <2>1, <3>1
  <2>3. rate_feedback_delta(debt, b) \in Int
    <3>1. CASE b = 0
      BY <3>1 DEF rate_feedback_delta
    <3>2. CASE b > 0
      BY <2>1, <3>2, FeedbackAnswers
    <3> QED BY <2>1, <3>1, <3>2
  <2> QED BY <2>1, <2>2, <2>3 DEF qindex_for
<1>6. n \in Nat
  <2>1. q \in 0..127
    <3>1. CASE solved_base_qindex = None
      BY <1>4, <3>1 DEF qindex_for
    <3>2. CASE solved_base_qindex # None
      <4>1. b # None
        <5>1. b \in Nat /\ None \notin Nat
          BY <3>2, TwoPassAssumption, Zenon DEF RateInv, RateTyped
        <5> QED BY <5>1
      <4>2. Centred(stats[next]) + rate_feedback_delta(debt, b) \in Int
        <5>1. \A x \in 0..127, y \in Int : x + y \in Int
          OBVIOUS
        <5> QED BY <1>4, <1>5, <4>1, <5>1
      <4>3. \A y \in Int : Clamped(y, 0, 127) \in 0..127
        BY DEF Clamped, Most, Least
      <4> QED BY <1>5, <4>1, <4>2, <4>3
    <3> QED BY <3>1, <3>2
  <2>2. Coded[<<keyed, q>>] \subseteq Nat
    BY <1>1, <2>1, TwoPassAssumption, Zenon
  <2> QED BY <2>2
<1> HIDE DEF keyed, q
<1>7. /\ paid'.clip = paid.clip /\ paid'.bytes = paid.bytes + n /\ paid'.frames = paid.frames + 1
      /\ DOMAIN paid' = {"clip", "bytes", "frames"}
      /\ paid' = [clip |-> paid'.clip, bytes |-> paid'.bytes, frames |-> paid'.frames]
  BY <1>2 DEF RateInv, RateTyped
<1>8. RateTyped'
  <2>1. /\ paid'.bytes \in Nat /\ paid'.frames \in Nat /\ paid'.frames # 0 /\ debt' \in Int
    <3>1. paid.bytes \in Nat /\ paid.frames \in Nat /\ debt \in Int /\ (b # None => b \in Nat)
      BY <1>5 DEF RateInv, RateTyped
    <3> QED BY <1>2, <1>6, <1>7, <3>1
  <2> QED BY <1>1, <1>7, <2>1 DEF RateInv, RateTyped
<1>9. Informed'
  BY <1>1, <1>7 DEF RateInv, Informed
<1>10. AccountIsExact'
  <2>1. CASE b = None
    BY <1>1, <1>2, <2>1 DEF RateInv, AccountIsExact
  <2>2. CASE b # None
    <3>1. /\ b \in Nat /\ paid.bytes \in Nat /\ paid.frames \in Nat
          /\ debt = paid.bytes - paid.frames * b /\ debt' = debt + n - b
      BY <1>2, <1>5, <2>2 DEF RateInv, RateTyped, AccountIsExact
    <3>2. (paid.frames + 1) * b = paid.frames * b + b
      BY <3>1
    <3>3. debt' = (paid.bytes + n) - (paid.frames + 1) * b
      BY <1>6, <3>1, <3>2
    <3> QED BY <1>1, <1>7, <2>2, <3>3 DEF AccountIsExact
  <2> QED BY <2>1, <2>2
<1>11. DebtStaysSmall'
  <2> SUFFICES ASSUME b # None, Affordable
               PROVE \/ debt' <= 0
                     \/ \E m \in Sizes(-24..0) : debt' + b <= m
                     \/ \E m \in Sizes(0..24) : debt' <= 5 * b + m
    <3>1. UNCHANGED <<config, global_mean_cost, solved_base_qindex, frame_byte_budget, clip, stats, paid.clip>>
      BY <1>1, <1>7
    <3>2. (\A steps : Sizes(steps)' = Sizes(steps)) /\ (Affordable' <=> Affordable)
      BY <3>1, ScheduleStays
    <3>3. Sizes(-24..0)' = Sizes(-24..0) /\ Sizes(0..24)' = Sizes(0..24)
      BY <3>2
    <3> QED BY <1>1, <3>2, <3>3 DEF DebtStaysSmall, RATE_FEEDBACK_MAX_QSTEP
  <2> DEFINE delta == rate_feedback_delta(debt, b)
  <2>1. /\ b \in Nat /\ b > 0 /\ debt \in Int /\ debt' = debt + n - b
    BY <1>2, <1>5 DEF RateInv, RateTyped, Affordable
  <2>2. \A steps : delta \in steps => n \in Sizes(steps)
    <3>1. n \in Coded[<<keyed, Clamped(Centred(stats[next]) + delta, 0, 127)>>]
      BY <1>2, <1>5
    <3> HIDE DEF delta
    <3> QED BY <1>1, <3>1 DEF Sizes, keyed
  <2>3. /\ debt <= 0 => delta \in -24..0
        /\ debt >= 0 => delta \in 0..24
        /\ debt >= 6 * b => delta = 24
    BY <2>1, FeedbackAnswers
  <2> HIDE DEF delta
  <2>4. CASE debt <= 0
    <3>1. n \in Sizes(-24..0)
      BY <2>2, <2>3, <2>4
    <3>2. debt' + b <= n
      BY <1>6, <2>1, <2>4
    <3> QED BY <3>1, <3>2
  <2>5. CASE debt >= 0 /\ debt <= 6 * b
    <3>1. n \in Sizes(0..24)
      BY <2>2, <2>3, <2>5
    <3>2. debt' <= 5 * b + n
      BY <1>6, <2>1, <2>5
    <3> QED BY <3>1, <3>2
  <2>6. CASE debt >= 6 * b
    <3>1. n \in Sizes({24})
      BY <2>2, <2>3, <2>6
    <3>2. n <= b
      BY <3>1 DEF Affordable, RATE_FEEDBACK_MAX_QSTEP
    <3>3. debt' <= debt
      BY <1>6, <2>1, <3>2
    <3>4. \/ debt <= 0
          \/ \E m \in Sizes(-24..0) : debt + b <= m
          \/ \E m \in Sizes(0..24) : debt <= 5 * b + m
      BY DEF RateInv, DebtStaysSmall, RATE_FEEDBACK_MAX_QSTEP
    <3>5. Sizes(-24..0) \subseteq Nat /\ Sizes(0..24) \subseteq Nat
      <4>1. -24..0 \subseteq Int /\ 0..24 \subseteq Int
        OBVIOUS
      <4> QED BY <4>1, SizesAreNumbers
    <3>6. ASSUME debt <= 0 PROVE debt' <= 0
      BY <1>6, <2>1, <3>3, <3>6
    <3>7. ASSUME NEW m \in Nat, debt + b <= m PROVE debt' + b <= m
      BY <1>6, <2>1, <3>3, <3>7
    <3>8. ASSUME NEW m \in Nat, debt <= 5 * b + m PROVE debt' <= 5 * b + m
      BY <1>6, <2>1, <3>3, <3>8
    <3> QED BY <3>4, <3>5, <3>6, <3>7, <3>8
  <2>7. debt <= 0 \/ (debt >= 0 /\ debt <= 6 * b) \/ debt >= 6 * b
    BY <2>1
  <2> QED BY <2>4, <2>5, <2>6, <2>7
<1> QED BY <1>8, <1>9, <1>10, <1>11 DEF RateInv
LEMMA RefusalKeepsRate ==
  ASSUME RateInv, EncodeRefused \/ UNCHANGED vars
  PROVE  RateInv'
<1>1. /\ next' \in Nat \ {0}
      /\ UNCHANGED <<config, global_mean_cost, solved_base_qindex, frame_byte_budget, rate_debt_bytes,
                     clip, stats, paid>>
  BY DEF EncodeRefused, vars, account, caller, RateInv, RateTyped
<1>2. RateTyped' /\ Informed' /\ AccountIsExact'
  BY <1>1 DEF RateInv, RateTyped, Informed, AccountIsExact
<1>3. (\A steps : Sizes(steps)' = Sizes(steps)) /\ (Affordable' <=> Affordable)
  BY <1>1, ScheduleStays
<1>4. DebtStaysSmall'
  <2>1. /\ Sizes(-RATE_FEEDBACK_MAX_QSTEP..0)' = Sizes(-RATE_FEEDBACK_MAX_QSTEP..0)
        /\ Sizes(0..RATE_FEEDBACK_MAX_QSTEP)' = Sizes(0..RATE_FEEDBACK_MAX_QSTEP)
    BY <1>3
  <2> QED BY <1>1, <1>3, <2>1 DEF RateInv, DebtStaysSmall
<1> QED BY <1>2, <1>4 DEF RateInv

(* The invariant says all that RateIsHeld asks: the solver is right at any    *)
(* time, and without a debt there is no feedback.                             *)
LEMMA RateFollows ==
  RateInv => RateIsHeld
<1> SUFFICES ASSUME RateInv PROVE CentresOnFinest /\ FollowsTheSchedule
  BY DEF RateInv, RateIsHeld
<1>1. CentresOnFinest
  <2> SUFFICES ASSUME solved_base_qindex # None, paid.clip = clip
               PROVE  LET fitting == Fitting(config, stats, clip[1].width, clip[1].height)
                      IN /\ solved_base_qindex \in fitting \/ (fitting = {} /\ solved_base_qindex = 127)
                         /\ \A q \in fitting : solved_base_qindex <= q
    BY DEF CentresOnFinest
  <2>1. /\ bitrate_targeted(config) /\ stats # <<>> /\ config \in Configs /\ Measured(stats)
        /\ solved_base_qindex = solve_base_qindex_for_budget(config, stats, clip[1].width, clip[1].height)
    BY DEF RateInv, RateTyped, Informed
  <2>2. clip[1].width \in Nat /\ clip[1].height \in Nat
    <3>1. clip \in Seq([width : Nat, height : Nat, stride : Nat, luma : Seq(Nat)]) /\ Len(clip) > 0
      <4>1. Len(clip) \in Nat /\ Len(clip) # 0 /\ clip # <<>> /\ clip \in Clips \cup {<<>>}
        BY <2>1 DEF RateInv, RateTyped, Measured
      <4>2. Len(clip) > 0
        BY <4>1
      <4> QED BY <4>1, <4>2, TwoPassAssumption, Zenon
    <3>2. \A S : clip \in Seq(S) => clip[1] \in S
      BY <3>1
    <3> QED BY <3>1, <3>2, Zenon
  <2> QED BY <2>1, <2>2, SolverFindsFinest
<1>2. ASSUME NEW i \in DOMAIN stats,
             solved_base_qindex # None, paid.clip = clip, paid.frames = 0
      PROVE  LET answer == two_pass_qindices_for_bitrate(config, stats, clip[1].width, clip[1].height)
             IN answer # Err => qindex_for(stats[i]) = answer[i]
  <2>1. frame_byte_budget \in Nat /\ paid.bytes = 0
    BY <1>2 DEF RateInv, RateTyped
  <2>2. rate_debt_bytes = 0
    <3>1. \A b \in Nat : 0 - 0 * b = 0
      OBVIOUS
    <3> QED BY <1>2, <2>1, <3>1 DEF RateInv, AccountIsExact
  <2>3. rate_feedback_delta(rate_debt_bytes, frame_byte_budget) = 0
    <3>1. CASE frame_byte_budget = 0
      BY <3>1 DEF rate_feedback_delta
    <3>2. CASE frame_byte_budget > 0
      <4> DEFINE delta == rate_feedback_delta(0, frame_byte_budget)
      <4>1. delta \in -24..0 /\ delta \in 0..24
        BY <2>1, <3>2, FeedbackAnswers
      <4> HIDE DEF delta
      <4>2. delta = 0
        BY <4>1
      <4> QED BY <2>2, <4>2 DEF delta
    <3> QED BY <2>1, <3>1, <3>2
  <2>4. qindex_for(stats[i]) = Clamped(Centred(stats[i]) + 0, 0, 127)
    BY <1>2, <2>3 DEF qindex_for
  <2>5. \A x \in 0..127 : Clamped(x + 0, 0, 127) = x
    BY DEF Clamped, Most, Least
  <2>6. qindex_for(stats[i]) = Centred(stats[i])
    BY <2>4, <2>5, CentredInRange
  <2>7. /\ global_mean_cost = mean_complexity_cost(stats)
        /\ solved_base_qindex = solve_base_qindex_for_budget(config, stats, clip[1].width, clip[1].height)
    BY <1>2 DEF RateInv, Informed
  <2>8. Reference(stats[i]) = mean_complexity_cost(stats)
    <3>1. global_mean_cost # None
      <4>1. mean_complexity_cost(stats) \in [sum : Nat, count : Nat]
        BY MeansAreNumbers DEF RateInv, RateTyped, Means
      <4> QED BY <2>7, <4>1, TwoPassAssumption, Zenon
    <3> QED BY <2>7, <3>1 DEF Reference
  <2> QED BY <1>2, <2>6, <2>7, <2>8 DEF Centred, two_pass_qindices_for_bitrate
<1>3. ASSUME NEW i \in DOMAIN stats, solved_base_qindex = None, global_mean_cost = None
      PROVE  two_pass_qindex_for_frame(config, stats[i]) \in {Err, qindex_for(stats[i])}
  BY <1>3 DEF qindex_for, Centred, Reference, two_pass_qindex_for_frame
<1>4. ASSUME NEW i \in DOMAIN stats, solved_base_qindex = None, paid.clip = clip
      PROVE  LET answer == two_pass_qindices(config, stats)
             IN answer # Err => qindex_for(stats[i]) = answer[i]
  <2>1. global_mean_cost = mean_complexity_cost(stats)
    BY <1>4 DEF RateInv, Informed
  <2>2. global_mean_cost # None
    <3>1. mean_complexity_cost(stats) \in [sum : Nat, count : Nat]
      BY MeansAreNumbers DEF RateInv, RateTyped, Means
    <3> QED BY <2>1, <3>1, TwoPassAssumption, Zenon
  <2> QED BY <1>4, <2>1, <2>2 DEF qindex_for, Centred, Reference, two_pass_qindices
<1> QED BY <1>1, <1>2, <1>3, <1>4 DEF FollowsTheSchedule

(* Over any clips, byte rates and sizes of coded frames: the account is exact, *)
(* the feedback bounds the debt wherever its steps are enough, the solver's   *)
(* bisection finds the finest index that fits, and where the free functions   *)
(* give a schedule, with a base index of at most 127, the frames follow it    *)
(* (encoder.rs 12055-12106, 12311-12352).                                     *)
THEOREM RateAlwaysHeld == Spec => []RateIsHeld
<1>1. Init => RateInv
  <2> SUFFICES ASSUME Init PROVE RateInv
    OBVIOUS
  <2>1. /\ paid = [clip |-> None, bytes |-> 0, frames |-> 0] /\ None # <<>>
        /\ stats = <<>> /\ clip = <<>> /\ Len(<<>>) = 0 /\ DOMAIN <<>> = 1..0
    <3>1. None # <<>>
      BY TwoPassAssumption, Zenon
    <3>2. Len(<<>>) = 0 /\ DOMAIN <<>> = 1..0
      OBVIOUS
    <3> QED BY <3>1, <3>2 DEF Init
  <2>2. RateTyped
    BY <2>1 DEF Init, RateTyped, Measured
  <2>3. Informed /\ AccountIsExact /\ DebtStaysSmall
    BY <2>1 DEF Init, Informed, AccountIsExact, DebtStaysSmall
  <2> QED BY <2>2, <2>3 DEF RateInv
<1>2. RateInv /\ [Next]_vars => RateInv'
  BY FirstPassInformed, StudyTellsNothing, EncodeKeepsRate, RefusalKeepsRate DEF Next
<1> QED BY <1>1, <1>2, RateFollows, PTL DEF Spec
==============================================================================
