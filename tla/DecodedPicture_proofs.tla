----------------------- MODULE DecodedPicture_proofs -----------------------
(***************************************************************************)
(* A picture on its way to the reference slots, whatever the frame and     *)
(* whatever the pictures.  First the frame: every walk of its macroblocks  *)
(* keeps the neighbour records of the others, the decoder reads each       *)
(* symbol in the context it was written in, ends with what the picker      *)
(* chose, and filters it as the encoder did; the fitter's counts are the   *)
(* tokens written.  Then the slots: the move-based rotation uses no source *)
(* after it was moved out, one call is one step of SlotLadder, and it      *)
(* makes no plane copy that could be saved.                                *)
(***************************************************************************)
EXTENDS MacroblockLayer, RefRotation, SequenceTheorems, FunctionTheorems, FiniteSetTheorems, TLAPS

-----------------------------------------------------------------------------
(* Induction on the naturals, with the property as a set.                    *)
LEMMA NaturalInduction ==
  ASSUME NEW S, 0 \in S, \A n \in Nat : n \in S => n + 1 \in S
  PROVE  \A n \in Nat : n \in S
<1> DEFINE T == Nat \ S
<1> SUFFICES ASSUME T # {} PROVE FALSE
  OBVIOUS
<1> DEFINE R == OpToRel(<, Nat)
<1>1. IsWellFoundedOn(R, Nat)
  BY NatLessThanWellFounded
<1> HIDE DEF R
<1>2. PICK m \in T : \A y \in T : ~(<<y, m>> \in R)
  <2>1. T \subseteq Nat
    OBVIOUS
  <2> HIDE DEF T
  <2> QED BY <1>1, <2>1, WFMin
<1>3. m # 0 /\ m - 1 \in Nat
  OBVIOUS
<1>4. m - 1 \in T
  BY <1>3
<1>5. <<m - 1, m>> \in R
  BY <1>3 DEF R, OpToRel
<1> QED BY <1>2, <1>4, <1>5

(* The values, all in X, that begin with a and follow each other by step.     *)
StepsFrom(f, N, X, a, step) ==
  f \in [0..N -> X] /\ f[0] = a /\ \A n \in 1..N : f[n] = step[<<n, f[n - 1]>>]

LEMMA StepByStep ==
  ASSUME NEW N \in Nat, NEW X, NEW a \in X, NEW step,
         \A n \in 1..N, x \in X : step[<<n, x>>] \in X
  PROVE  \E f : StepsFrom(f, N, X, a, step)
<1> DEFINE Rec(f, m) == f \in [0..m -> X] /\ f[0] = a /\ \A n \in 1..m : f[n] = step[<<n, f[n - 1]>>]
           S == {m \in Nat : m <= N => \E f : Rec(f, m)}
<1>1. 0 \in S
  <2>1. Rec([n \in 0..0 |-> a], 0)
    OBVIOUS
  <2>2. \E f : Rec(f, 0)
    BY <2>1
  <2> HIDE DEF Rec
  <2> QED BY <2>2
<1>2. ASSUME NEW m \in Nat, m \in S PROVE m + 1 \in S
  <2> SUFFICES ASSUME m + 1 <= N PROVE \E f : Rec(f, m + 1)
    OBVIOUS
  <2>1. PICK f : Rec(f, m)
    <3> HIDE DEF Rec
    <3> QED BY <1>2
  <2> DEFINE last == step[<<m + 1, f[m]>>]
             g == [n \in 0..m + 1 |-> IF n = m + 1 THEN last ELSE f[n]]
  <2>2. last \in X /\ f[m] \in X
    BY <2>1
  <2>3. g \in [0..m + 1 -> X] /\ g[0] = a
    <3> HIDE DEF last
    <3> QED BY <2>1, <2>2
  <2>4. ASSUME NEW n \in 1..m + 1 PROVE g[n] = step[<<n, g[n - 1]>>]
    <3>1. CASE n = m + 1
      <4>1. n - 1 = m /\ g[m] = f[m] /\ g[n] = last
        BY <3>1
      <4> HIDE DEF g
      <4> QED BY <4>1, <3>1
    <3>2. CASE n # m + 1
      <4>1. n \in 1..m /\ g[n] = f[n] /\ g[n - 1] = f[n - 1]
        BY <3>2
      <4> HIDE DEF g
      <4> QED BY <4>1, <2>1
    <3> QED BY <3>1, <3>2
  <2>5. Rec(g, m + 1)
    <3> HIDE DEF g
    <3> QED BY <2>3, <2>4
  <2> HIDE DEF Rec
  <2> QED BY <2>5
<1>3. N \in S
  <2> HIDE DEF S
  <2> QED BY <1>1, <1>2, NaturalInduction
<1> QED BY <1>3 DEF StepsFrom

-----------------------------------------------------------------------------
(* Sequences of symbols, of whatever kind.                                   *)
Listed(s) == \E T : s \in Seq(T)

LEMMA ListedFacts ==
  ASSUME NEW s, Listed(s)
  PROVE  Len(s) \in Nat /\ DOMAIN s = 1..Len(s) /\ s = [i \in 1..Len(s) |-> s[i]]
<1> PICK T : s \in Seq(T)
  BY DEF Listed
<1> QED BY LenProperties

LEMMA ListedIs ==
  ASSUME NEW n \in Nat, NEW s, s = [i \in 1..n |-> s[i]]
  PROVE  Listed(s) /\ Len(s) = n
<1> DEFINE T == {s[i] : i \in 1..n}
<1>1. s \in [1..n -> T]
  OBVIOUS
<1> HIDE DEF T
<1>2. s \in Seq(T)
  BY <1>1
<1>3. Len(s) = n
  BY <1>1, <1>2, LenProperties
<1> QED BY <1>2, <1>3 DEF Listed

LEMMA ListedNone == Listed(<<>>) /\ Len(<<>>) = 0
<1>1. <<>> \in Seq({})
  OBVIOUS
<1> QED BY <1>1 DEF Listed

LEMMA ListedOne ==
  ASSUME NEW x
  PROVE  Listed(<<x>>) /\ Len(<<x>>) = 1 /\ <<x>>[1] = x
<1>1. <<x>> \in Seq({x})
  OBVIOUS
<1> QED BY <1>1 DEF Listed

LEMMA ListedTwo ==
  ASSUME NEW x, NEW y
  PROVE  <<x, y>> = <<x>> \o <<y>>
<1>1. <<x>> \in Seq({x, y}) /\ <<y>> \in Seq({x, y}) /\ <<x, y>> \in Seq({x, y})
  OBVIOUS
<1>2. Len(<<x, y>>) = 2 /\ Len(<<x>>) = 1 /\ Len(<<y>>) = 1
  OBVIOUS
<1>3. /\ <<x>> \o <<y>> \in Seq({x, y}) /\ Len(<<x>> \o <<y>>) = 2
      /\ (<<x>> \o <<y>>)[1] = x /\ (<<x>> \o <<y>>)[2] = y
  BY <1>1, <1>2, ConcatProperties
<1> DEFINE a == <<x, y>>  b == <<x>> \o <<y>>
<1>4. a \in Seq({x, y}) /\ b \in Seq({x, y}) /\ Len(a) = Len(b) /\ Len(a) = 2
      /\ a[1] = b[1] /\ a[2] = b[2]
  BY <1>1, <1>2, <1>3
<1> HIDE DEF a, b
<1>5. \A i \in 1..Len(a) : a[i] = b[i]
  BY <1>4
<1>6. a = b
  BY <1>4, <1>5, SeqEqual
<1> QED BY <1>6 DEF a, b

LEMMA ListedCommon ==
  ASSUME NEW a, NEW b, Listed(a), Listed(b)
  PROVE  \E T : a \in Seq(T) /\ b \in Seq(T)
<1> PICK A : a \in Seq(A)
  BY DEF Listed
<1> PICK B : b \in Seq(B)
  BY DEF Listed
<1>1. A \subseteq A \cup B /\ B \subseteq A \cup B
  OBVIOUS
<1>2. a \in Seq(A \cup B) /\ b \in Seq(A \cup B)
  BY <1>1, SeqMonotonic
<1> QED BY <1>2

(* c is a, then b.                                                            *)
Joins(a, b, c) ==
  /\ Listed(c) /\ Len(c) = Len(a) + Len(b) /\ Len(a) \in Nat /\ Len(b) \in Nat
  /\ \A k \in 1..Len(a) : c[k] = a[k]
  /\ \A k \in 1..Len(b) : c[Len(a) + k] = b[k]

LEMMA ListedJoin ==
  ASSUME NEW a, NEW b, Listed(a), Listed(b)
  PROVE  Joins(a, b, a \o b)
<1> PICK T : a \in Seq(T) /\ b \in Seq(T)
  BY ListedCommon
<1>1. /\ a \o b \in Seq(T) /\ Len(a \o b) = Len(a) + Len(b)
      /\ \A i \in 1..Len(a) + Len(b) : (a \o b)[i] = IF i <= Len(a) THEN a[i] ELSE b[i - Len(a)]
  BY ConcatProperties
<1>2. Len(a) \in Nat /\ Len(b) \in Nat
  BY LenProperties
<1>3. \A k \in 1..Len(a) : (a \o b)[k] = a[k]
  BY <1>1, <1>2
<1>4. ASSUME NEW k \in 1..Len(b) PROVE (a \o b)[Len(a) + k] = b[k]
  <2>1. Len(a) + k \in 1..Len(a) + Len(b) /\ ~(Len(a) + k <= Len(a)) /\ (Len(a) + k) - Len(a) = k
    BY <1>2
  <2> QED BY <1>1, <2>1
<1> QED BY <1>1, <1>2, <1>3, <1>4 DEF Listed, Joins

LEMMA ListedEmptyJoin ==
  ASSUME NEW a, Listed(a)
  PROVE  a \o <<>> = a /\ <<>> \o a = a
<1> PICK T : a \in Seq(T)
  BY DEF Listed
<1> QED BY ConcatEmptySeq

LEMMA ListedAssociative ==
  ASSUME NEW a, NEW b, NEW c, Listed(a), Listed(b), Listed(c)
  PROVE  (a \o b) \o c = a \o (b \o c)
<1> PICK T : a \in Seq(T) /\ b \in Seq(T)
  BY ListedCommon
<1> PICK C : c \in Seq(C)
  BY DEF Listed
<1>1. a \in Seq(T \cup C) /\ b \in Seq(T \cup C) /\ c \in Seq(T \cup C)
  <2>1. T \subseteq T \cup C /\ C \subseteq T \cup C
    OBVIOUS
  <2> QED BY <2>1, SeqMonotonic
<1> QED BY <1>1, ConcatAssociative, SMTT(30)

LEMMA ListedEqual ==
  ASSUME NEW a, NEW b, Listed(a), Listed(b), Len(a) = Len(b), \A k \in 1..Len(a) : a[k] = b[k]
  PROVE  a = b
<1>1. Len(a) \in Nat /\ a = [i \in 1..Len(a) |-> a[i]] /\ b = [i \in 1..Len(a) |-> b[i]]
  BY ListedFacts
<1> QED BY <1>1

LEMMA ListedAppend ==
  ASSUME NEW a, NEW x, Listed(a)
  PROVE  Append(a, x) = a \o <<x>>
<1> PICK T : a \in Seq(T)
  BY DEF Listed
<1>1. T \subseteq T \cup {x} /\ x \in T \cup {x}
  OBVIOUS
<1>2. a \in Seq(T \cup {x})
  BY <1>1, SeqMonotonic
<1> QED BY <1>1, <1>2, AppendIsConcat

(* A slice of a sequence.                                                    *)
LEMMA ListedSlice ==
  ASSUME NEW s, NEW a, Listed(s), Listed(a), NEW from \in Nat, from + Len(a) <= Len(s),
         \A k \in 1..Len(a) : s[from + k] = a[k]
  PROVE  SubSeq(s, from + 1, from + Len(a)) = a
<1> PICK T : s \in Seq(T)
  BY DEF Listed
<1> DEFINE m == from + 1  n == from + Len(a)  z == SubSeq(s, m, n)
<1>0. Len(a) \in Nat /\ Len(s) \in Nat
  BY ListedFacts
<1>1. m \in Int /\ n \in Int /\ n - m + 1 = Len(a) /\ \A i \in m..n : i \in 1..Len(s)
  BY <1>0
<1>2. \A i \in m..n : s[i] \in T
  BY <1>1, ElementOfSeq
<1> HIDE DEF m, n
<1>3. z \in Seq(T) /\ Len(z) = (IF m <= n THEN n - m + 1 ELSE 0)
      /\ \A i \in 1..n - m + 1 : z[i] = s[m + i - 1]
  BY <1>1, <1>2, SubSeqProperties
<1> HIDE DEF z
<1>4. Len(z) = Len(a)
  BY <1>0, <1>1, <1>3 DEF m, n
<1>5. ASSUME NEW k \in 1..Len(z) PROVE z[k] = a[k]
  <2>1. m + k - 1 = from + k /\ k \in 1..n - m + 1 /\ k \in 1..Len(a)
    BY <1>0, <1>1, <1>4 DEF m
  <2> QED BY <1>3, <2>1
<1>6. Listed(z)
  BY <1>3 DEF Listed
<1>7. z = a
  BY <1>4, <1>5, <1>6, ListedEqual
<1> QED BY <1>7 DEF z, m, n

-----------------------------------------------------------------------------
(* Readers.  The symbols of s stand next in a reader's queue; a reader has    *)
(* gone n symbols further, in step.                                          *)
Ahead(r, s) ==
  /\ r.ok = TRUE /\ Listed(r.src) /\ r.at \in Nat \ {0} /\ Listed(s)
  /\ r.at + Len(s) <= Len(r.src) + 1
  /\ \A k \in 1..Len(s) : r.src[r.at + k - 1] = s[k]
Further(r, n, r2) == r2.src = r.src /\ r2.at = r.at + n /\ r2.ok = TRUE

LEMMA AheadJoin ==
  ASSUME NEW r, NEW a, NEW b, Listed(a), Listed(b), Ahead(r, a \o b)
  PROVE  Ahead(r, a) /\ \A r2 : Further(r, Len(a), r2) => Ahead(r2, b)
<1>1. /\ Listed(a \o b) /\ Len(a \o b) = Len(a) + Len(b) /\ Len(a) \in Nat /\ Len(b) \in Nat
      /\ \A k \in 1..Len(a) : (a \o b)[k] = a[k]
      /\ \A k \in 1..Len(b) : (a \o b)[Len(a) + k] = b[k]
  BY ListedJoin DEF Joins
<1>2. r.at \in Nat \ {0} /\ Len(r.src) \in Nat /\ r.ok = TRUE /\ Listed(r.src)
  BY ListedFacts DEF Ahead
<1>3. Ahead(r, a)
  <2>1. ASSUME NEW k \in 1..Len(a) PROVE r.src[r.at + k - 1] = a[k]
    <3>1. k \in 1..Len(a \o b)
      BY <1>1
    <3> QED BY <1>1, <3>1 DEF Ahead
  <2>2. r.at + Len(a) <= Len(r.src) + 1
    BY <1>1, <1>2 DEF Ahead
  <2> QED BY <1>2, <2>1, <2>2 DEF Ahead
<1>4. ASSUME NEW r2, Further(r, Len(a), r2) PROVE Ahead(r2, b)
  <2>1. r2.src = r.src /\ r2.at = r.at + Len(a) /\ r2.ok = TRUE
    BY <1>4 DEF Further
  <2>2. ASSUME NEW k \in 1..Len(b) PROVE r2.src[r2.at + k - 1] = b[k]
    <3>1. Len(a) + k \in 1..Len(a \o b) /\ r2.at + k - 1 = r.at + (Len(a) + k) - 1
      <4> DEFINE la == Len(a)  lb == Len(b)  lc == Len(a \o b)  p == r.at  p2 == r2.at
      <4>1. la \in Nat /\ lb \in Nat /\ lc = la + lb /\ p \in Nat \ {0} /\ p2 = p + la /\ k \in 1..lb
        BY <1>1, <1>2, <2>1
      <4> HIDE DEF la, lb, lc, p, p2
      <4>2. la + k \in 1..lc /\ p2 + k - 1 = p + (la + k) - 1
        BY <4>1
      <4> QED BY <4>2 DEF la, lc, p, p2
    <3>2. r.src[r.at + (Len(a) + k) - 1] = (a \o b)[Len(a) + k]
      BY <3>1 DEF Ahead
    <3> QED BY <1>1, <2>1, <3>1, <3>2
  <2>3. r2.at + Len(b) <= Len(r2.src) + 1
    BY <1>1, <1>2, <2>1 DEF Ahead
  <2>4. r2.at \in Nat \ {0} /\ Listed(r2.src)
    BY <1>1, <1>2, <2>1
  <2> QED BY <2>1, <2>2, <2>3, <2>4 DEF Ahead
<1> QED BY <1>3, <1>4

LEMMA ReadsNext ==
  ASSUME NEW r, NEW c, NEW v, NEW garbled, Ahead(r, <<Sym(c, v)>>)
  PROVE  Read(r, c, garbled).val = v /\ Further(r, 1, Read(r, c, garbled))
<1>1. Len(<<Sym(c, v)>>) = 1 /\ <<Sym(c, v)>>[1] = Sym(c, v)
  BY ListedOne
<1>2. r.ok = TRUE /\ r.at \in Nat \ {0} /\ Len(r.src) \in Nat /\ r.at + 1 <= Len(r.src) + 1
  BY <1>1, ListedFacts DEF Ahead
<1>3. r.src[r.at] = Sym(c, v)
  <2>1. 1 \in 1..Len(<<Sym(c, v)>>) /\ r.at + 1 - 1 = r.at
    BY <1>1, <1>2
  <2> QED BY <1>1, <2>1 DEF Ahead
<1>4. r.src[r.at].ctx = c /\ r.src[r.at].val = v
  BY <1>3 DEF Sym
<1>5. r.ok /\ r.at <= Len(r.src) /\ r.src[r.at].ctx = c
  BY <1>2, <1>4
<1> QED BY <1>4, <1>5 DEF Read, Further

LEMMA FurtherAdds ==
  ASSUME NEW r, NEW m \in Nat, NEW n \in Nat, NEW r2, NEW r3, r.at \in Nat,
         Further(r, m, r2), Further(r2, n, r3)
  PROVE  Further(r, m + n, r3)
BY DEF Further

(* The start of a queue, and what is left of it.                             *)
LEMMA StartOfQueue ==
  ASSUME NEW a, NEW b, Listed(a), Listed(b)
  PROVE  /\ Ahead(Reader(a \o b), a)
         /\ \A r : Further(Reader(a \o b), Len(a), r) => Unread(r) = b
<1> DEFINE q == a \o b
<1>0. Joins(a, b, q)
  BY ListedJoin
<1> HIDE DEF q
<1>1. /\ Listed(q) /\ Len(q) = Len(a) + Len(b) /\ Len(a) \in Nat /\ Len(b) \in Nat
      /\ \A k \in 1..Len(a) : q[k] = a[k]
      /\ \A k \in 1..Len(b) : q[Len(a) + k] = b[k]
  BY <1>0 DEF Joins
<1>2. Reader(q).src = q /\ Reader(q).at = 1 /\ Reader(q).ok = TRUE
  BY DEF Reader
<1>3. Ahead(Reader(q), a)
  <2>1. \A k \in 1..Len(a) : 1 + k - 1 = k
    BY <1>1
  <2> QED BY <1>1, <1>2, <2>1 DEF Ahead
<1>4. ASSUME NEW r, Further(Reader(q), Len(a), r) PROVE Unread(r) = b
  <2>1. r.src = q /\ r.at = Len(a) + 1
    BY <1>1, <1>2, <1>4 DEF Further
  <2>2. SubSeq(q, Len(a) + 1, Len(a) + Len(b)) = b
    BY <1>1, ListedSlice
  <2> QED BY <1>1, <2>1, <2>2 DEF Unread
<1> QED BY <1>3, <1>4 DEF q

-----------------------------------------------------------------------------
(* The blocks of a macroblock and their tokens.                              *)
Blocks(h) == IF h THEN 0..24 ELSE 0..23
BlockCount(h) == IF h THEN 25 ELSE 24

Ordered(h, order) ==
  /\ Len(order) = BlockCount(h)
  /\ \A k \in 1..BlockCount(h) : order[k] = IF h THEN (IF k = 1 THEN 24 ELSE k - 2) ELSE k - 1

LEMMA Order ==
  ASSUME NEW h \in BOOLEAN
  PROVE  Ordered(h, ResidualOrder(h))
<1> DEFINE t == [i \in 1..24 |-> i - 1]
<1>1. Listed(t) /\ Len(t) = 24
  <2>1. t = [i \in 1..24 |-> t[i]]
    OBVIOUS
  <2> HIDE DEF t
  <2> QED BY <2>1, ListedIs
<1>2. CASE h
  <2>1. ResidualOrder(h) = <<24>> \o t
    BY <1>2 DEF ResidualOrder, Y2Block
  <2>2. Listed(<<24>>) /\ Len(<<24>>) = 1 /\ <<24>>[1] = 24
    BY ListedOne
  <2> DEFINE q == <<24>> \o t
  <2>3. Joins(<<24>>, t, q)
    BY <1>1, <2>2, ListedJoin
  <2>4. \A k \in 1..24 : t[k] = k - 1
    OBVIOUS
  <2> HIDE DEF q, t
  <2>5. Len(q) = 25 /\ q[1] = 24 /\ \A k \in 1..24 : q[1 + k] = k - 1
    BY <1>1, <2>2, <2>3, <2>4 DEF Joins
  <2>6. \A k \in 1..25 : k # 1 => q[k] = k - 2
    <3> SUFFICES ASSUME NEW k \in 1..25, k # 1 PROVE q[k] = k - 2
      OBVIOUS
    <3>1. k - 1 \in 1..24 /\ 1 + (k - 1) = k /\ (k - 1) - 1 = k - 2
      OBVIOUS
    <3> QED BY <2>5, <3>1
  <2> QED BY <1>2, <2>1, <2>5, <2>6 DEF BlockCount, Ordered, q
<1>3. CASE ~h
  <2>1. ResidualOrder(h) = t
    BY <1>1, <1>3, ListedEmptyJoin DEF ResidualOrder
  <2> QED BY <1>1, <1>3, <2>1 DEF BlockCount, Ordered
<1> QED BY <1>2, <1>3

LEMMA OrderedBlocks ==
  ASSUME NEW h \in BOOLEAN
  PROVE  /\ BlockCount(h) \in Nat
         /\ \A k \in 1..BlockCount(h) : ResidualOrder(h)[k] \in 0..24
         /\ \A b \in Blocks(h) : \E k \in 1..BlockCount(h) : ResidualOrder(h)[k] = b
<1> DEFINE o == ResidualOrder(h)
<1>0. Ordered(h, o)
  BY Order, SMTT(30)
<1> HIDE DEF o
<1>1. CASE h
  <2>1. ASSUME NEW b \in 0..24 PROVE \E k \in 1..25 : o[k] = b
    <3>1. CASE b = 24
      <4>1. o[1] = 24
        BY <1>1, <1>0 DEF Ordered, BlockCount
      <4> QED BY <3>1, <4>1
    <3>2. CASE b # 24
      <4>1. b + 2 \in 1..25 /\ b + 2 # 1 /\ (b + 2) - 2 = b
        BY <3>2
      <4>2. o[b + 2] = b
        BY <1>1, <4>1, <1>0 DEF Ordered, BlockCount
      <4> QED BY <4>1, <4>2
    <3> QED BY <3>1, <3>2
  <2>2. \A k \in 1..25 : o[k] \in 0..24
    BY <1>1, <1>0 DEF Ordered, BlockCount
  <2>3. BlockCount(h) = 25 /\ Blocks(h) = 0..24
    BY <1>1, SMTT(30) DEF BlockCount, Blocks
  <2> QED BY <2>1, <2>2, <2>3 DEF o
<1>2. CASE ~h
  <2>1. ASSUME NEW b \in 0..23 PROVE \E k \in 1..24 : o[k] = b
    <3>1. b + 1 \in 1..24 /\ (b + 1) - 1 = b
      OBVIOUS
    <3>2. o[b + 1] = b
      BY <1>2, <3>1, <1>0 DEF Ordered, BlockCount
    <3> QED BY <3>1, <3>2
  <2>2. \A k \in 1..24 : o[k] \in 0..24
    BY <1>2, <1>0 DEF Ordered, BlockCount
  <2>3. BlockCount(h) = 24 /\ Blocks(h) = 0..23
    BY <1>2 DEF BlockCount, Blocks
  <2> QED BY <2>1, <2>2, <2>3 DEF o
<1> QED BY <1>1, <1>2

Tokens == [ctx : {"block"} \X {"Y2", "YAfterY2", "YNoY2", "UV"} \X (0..2), val : BOOLEAN]
TokenStates == [above : SUBSET Slots, left : SUBSET Slots, coded : Seq(Tokens)]

LEMMA ContextStep ==
  ASSUME NEW b \in 0..24, NEW above \in SUBSET Slots, NEW left \in SUBSET Slots, NEW v \in BOOLEAN,
         NEW h \in BOOLEAN
  PROVE  /\ Noted(above, above_context_index(b), v) \in SUBSET Slots
         /\ Noted(left, left_context_index(b), v) \in SUBSET Slots
         /\ [ctx |-> TokenContext(above, left, b, h), val |-> v] \in Tokens
<1>1. above_context_index(b) \in Slots
  BY DEF above_context_index, Y2Block, Slots
<1>2. left_context_index(b) \in Slots
  BY DEF left_context_index, Y2Block, Slots
<1>3. BlockType(b, h) \in {"Y2", "YAfterY2", "YNoY2", "UV"}
  BY DEF BlockType
<1>4. Ctx3(above, left, b) \in 0..2
  BY DEF Ctx3
<1> QED BY <1>1, <1>2, <1>3, <1>4 DEF Noted, TokenContext, Tokens

(* The encoder's walk of the blocks, state by state.                         *)
EncodedRule(E, residual, h, above, left) ==
  /\ E[0] = [above |-> above, left |-> left, coded |-> <<>>]
  /\ \A k \in 1..BlockCount(h) :
       E[k] = encode_block_with_ctx(E[k - 1], ResidualOrder(h)[k], h, residual)
  /\ \A k \in 0..BlockCount(h) : E[k] \in TokenStates

LEMMA EncodeStep ==
  ASSUME NEW residual, NEW h \in BOOLEAN, NEW b \in 0..24, NEW s \in TokenStates
  PROVE  encode_block_with_ctx(s, b, h, residual) \in TokenStates
<1> DEFINE v == b \in residual
           t == [ctx |-> TokenContext(s.above, s.left, b, h), val |-> v]
<1>1. s.above \in SUBSET Slots /\ s.left \in SUBSET Slots /\ s.coded \in Seq(Tokens)
  BY DEF TokenStates
<1>2. v \in BOOLEAN
  OBVIOUS
<1>3. encode_block_with_ctx(s, b, h, residual)
        = [above |-> Noted(s.above, above_context_index(b), v),
           left |-> Noted(s.left, left_context_index(b), v), coded |-> Append(s.coded, t)]
  BY DEF encode_block_with_ctx
<1> HIDE DEF v
<1>4. /\ Noted(s.above, above_context_index(b), v) \in SUBSET Slots
      /\ Noted(s.left, left_context_index(b), v) \in SUBSET Slots
      /\ t \in Tokens
  BY <1>1, <1>2, ContextStep
<1> HIDE DEF t
<1>5. Append(s.coded, t) \in Seq(Tokens)
  BY <1>1, <1>4, AppendProperties
<1> QED BY <1>3, <1>4, <1>5 DEF TokenStates

LEMMA Encoding ==
  ASSUME NEW residual, NEW h \in BOOLEAN, NEW above \in SUBSET Slots, NEW left \in SUBSET Slots
  PROVE  EncodedRule(EncodedBlocks(residual, h, above, left), residual, h, above, left)
<1> DEFINE order == ResidualOrder(h)
           N == BlockCount(h)
           first == [above |-> above, left |-> left, coded |-> <<>>]
           Step(s, k) == encode_block_with_ctx(s, order[k], h, residual)
           Rule(f) == f = [k \in 0..N |-> IF k = 0 THEN first ELSE Step(f[k - 1], k)]
           step == [x \in (1..N) \X TokenStates |-> Step(x[2], x[1])]
           E == EncodedBlocks(residual, h, above, left)
<1>1. N \in Nat /\ Len(order) = N /\ \A k \in 1..N : order[k] \in 0..24
  BY Order, OrderedBlocks DEF Ordered
<1>2. first \in TokenStates
  <2>1. <<>> \in Seq(Tokens)
    BY EmptySeq
  <2> QED BY <2>1 DEF TokenStates
<1> HIDE DEF first, order, N
<1>3. \A k \in 1..N, s \in TokenStates : Step(s, k) \in TokenStates
  BY <1>1, EncodeStep
<1>4. \A k \in 1..N, s \in TokenStates : step[<<k, s>>] = Step(s, k)
  <2> HIDE DEF Step
  <2> QED OBVIOUS
<1> HIDE DEF step, Step
<1>5. PICK f : StepsFrom(f, N, TokenStates, first, step)
  BY <1>1, <1>2, <1>3, <1>4, StepByStep
<1>6. f[0] = first /\ (\A k \in 1..N : f[k] = Step(f[k - 1], k)) /\ \A k \in 0..N : f[k] \in TokenStates
  <2>1. ASSUME NEW k \in 1..N PROVE f[k] = Step(f[k - 1], k)
    <3>1. k - 1 \in 0..N
      BY <1>1
    <3> QED BY <1>4, <1>5, <3>1 DEF StepsFrom
  <2> QED BY <1>5, <2>1 DEF StepsFrom
<1>7. Rule(f)
  <2>1. f = [k \in 0..N |-> f[k]]
    BY <1>5 DEF StepsFrom
  <2>2. \A k \in 0..N : f[k] = IF k = 0 THEN first ELSE Step(f[k - 1], k)
    BY <1>1, <1>6
  <2> QED BY <2>1, <2>2
<1>8. E = CHOOSE g : Rule(g)
  BY <1>1 DEF EncodedBlocks, N, first, order, Step
<1> HIDE DEF Rule
<1>9. Rule(E)
  BY <1>7, <1>8
<1> HIDE DEF E
<1>10. E[0] = first /\ \A k \in 1..N : E[k] = Step(E[k - 1], k)
  <2>1. \A k \in 1..N : k \in 0..N /\ k # 0
    BY <1>1
  <2>2. 0 \in 0..N
    BY <1>1
  <2> QED BY <1>9, <2>1, <2>2 DEF Rule
<1>11. \A k \in 0..N : E[k] = f[k]
  <2> DEFINE S == {k \in Nat : k <= N => E[k] = f[k]}
  <2>1. 0 \in S
    BY <1>6, <1>10
  <2>2. ASSUME NEW k \in Nat, k \in S PROVE k + 1 \in S
    <3> SUFFICES ASSUME k + 1 <= N PROVE E[k + 1] = f[k + 1]
      OBVIOUS
    <3>1. k + 1 \in 1..N /\ (k + 1) - 1 = k /\ k <= N
      BY <1>1
    <3>2. E[k] = f[k]
      BY <2>2, <3>1
    <3> QED BY <1>6, <1>10, <3>1, <3>2
  <2>3. \A k \in Nat : k \in S
    <3> HIDE DEF S
    <3> QED BY <2>1, <2>2, NaturalInduction
  <2> QED BY <1>1, <2>3
<1> QED BY <1>6, <1>10, <1>11 DEF EncodedRule, E, Step, N, first, order

(* The tokens: one per block, in the context the walk had reached.           *)
TokenAt(E, residual, h, k) ==
  Sym(TokenContext(E[k - 1].above, E[k - 1].left, ResidualOrder(h)[k], h), ResidualOrder(h)[k] \in residual)
Coded(E, residual, h, s, n) ==
  /\ s \in Seq(Tokens) /\ Len(s) = n
  /\ \A k \in 1..n : s[k] = TokenAt(E, residual, h, k)

LEMMA CodedTokens ==
  ASSUME NEW E, NEW residual, NEW h \in BOOLEAN, NEW above, NEW left, EncodedRule(E, residual, h, above, left)
  PROVE  \A k \in 0..BlockCount(h) : Coded(E, residual, h, E[k].coded, k)
<1> DEFINE N == BlockCount(h)
           S == {k \in Nat : k <= N => Coded(E, residual, h, E[k].coded, k)}
<1>1. N \in Nat
  BY OrderedBlocks
<1> HIDE DEF N
<1>2. 0 \in S
  <2>1. E[0].coded = <<>>
    BY DEF EncodedRule
  <2>2. <<>> \in Seq(Tokens) /\ Len(<<>>) = 0
    BY EmptySeq
  <2>3. \A j \in 1..0 : FALSE
    OBVIOUS
  <2> QED BY <2>1, <2>2, <2>3 DEF Coded
<1>3. ASSUME NEW k \in Nat, k \in S PROVE k + 1 \in S
  <2> SUFFICES ASSUME k + 1 <= N PROVE Coded(E, residual, h, E[k + 1].coded, k + 1)
    OBVIOUS
  <2> DEFINE s == E[k].coded  t == TokenAt(E, residual, h, k + 1)
  <2>1. Coded(E, residual, h, s, k)
    BY <1>1, <1>3
  <2>2. k + 1 \in 1..N /\ (k + 1) - 1 = k /\ k \in 0..N
    BY <1>1
  <2>3. E[k + 1] = encode_block_with_ctx(E[k], ResidualOrder(h)[k + 1], h, residual)
    BY <2>2 DEF EncodedRule, N
  <2>4. E[k + 1].coded = Append(s, t)
    BY <2>2, <2>3 DEF encode_block_with_ctx, TokenAt, Sym
  <2>5. t \in Tokens
    <3> DEFINE b == ResidualOrder(h)[k + 1]  v == b \in residual
    <3>1. b \in 0..24
      BY <2>2, OrderedBlocks DEF N
    <3>2. E[k].above \in SUBSET Slots /\ E[k].left \in SUBSET Slots
      BY <2>2 DEF EncodedRule, TokenStates, N
    <3>3. v \in BOOLEAN
      OBVIOUS
    <3>4. t = [ctx |-> TokenContext(E[k].above, E[k].left, b, h), val |-> v]
      BY <2>2 DEF TokenAt, Sym
    <3> HIDE DEF v, b, t
    <3> QED BY <3>1, <3>2, <3>3, <3>4, ContextStep
  <2> HIDE DEF t
  <2>6. Len(s) = k /\ s \in Seq(Tokens) /\ \A j \in 1..k : s[j] = TokenAt(E, residual, h, j)
    BY <2>1 DEF Coded
  <2> DEFINE z == Append(s, t)
  <2> HIDE DEF s
  <2>7. z \in Seq(Tokens) /\ Len(z) = k + 1 /\ (\A j \in 1..k : z[j] = s[j]) /\ z[k + 1] = t
    BY <2>5, <2>6, AppendProperties
  <2> HIDE DEF z
  <2>8. \A j \in 1..k + 1 : z[j] = TokenAt(E, residual, h, j)
    BY <2>6, <2>7 DEF t
  <2>9. Coded(E, residual, h, z, k + 1)
    BY <2>7, <2>8 DEF Coded
  <2> QED BY <2>4, <2>9 DEF z
<1>4. \A k \in Nat : k \in S
  <2> HIDE DEF S
  <2> QED BY <1>2, <1>3, NaturalInduction
<1> QED BY <1>1, <1>4 DEF N

(* Where the decoder's walk of the same blocks stands: in the encoder's       *)
(* contexts, with the coefficients of the blocks it has come to.             *)
BlocksSoFar(h, k) == { ResidualOrder(h)[j] : j \in 1..k }
Tracks(E, residual, h, reader, k, d) ==
  d.above = E[k].above /\ d.left = E[k].left /\ Further(reader, k, d.reader)
    /\ d.residual = residual \cap BlocksSoFar(h, k)

LEMMA DecodeStep ==
  ASSUME NEW E, NEW residual, NEW h \in BOOLEAN, NEW above, NEW left, EncodedRule(E, residual, h, above, left),
         NEW reader, Ahead(reader, E[BlockCount(h)].coded),
         NEW k \in Nat, k + 1 <= BlockCount(h), NEW d, Tracks(E, residual, h, reader, k, d)
  PROVE  Tracks(E, residual, h, reader, k + 1, decode_one(d, ResidualOrder(h)[k + 1], h))
<1> DEFINE N == BlockCount(h)
           b == ResidualOrder(h)[k + 1]
           v == b \in residual
           c == TokenContext(E[k].above, E[k].left, b, h)
           r == Read(d.reader, c, FALSE)
           all == E[N].coded
<1>1. N \in Nat /\ k + 1 \in 1..N /\ k \in 0..N /\ (k + 1) - 1 = k /\ N \in 0..N
  BY OrderedBlocks
<1>2. d.above = E[k].above /\ d.left = E[k].left /\ Further(reader, k, d.reader)
      /\ d.residual = residual \cap BlocksSoFar(h, k)
  BY DEF Tracks
<1>3. Coded(E, residual, h, all, N)
  BY <1>1, CodedTokens
<1> HIDE DEF N, all
<1>4. all[k + 1] = Sym(c, v) /\ Len(all) = N
  BY <1>1, <1>3 DEF Coded, TokenAt
<1>5. Ahead(reader, all)
  BY DEF all, N
<1>6. Ahead(d.reader, <<Sym(c, v)>>)
  <2> HIDE DEF c, v
  <2>1. Len(<<Sym(c, v)>>) = 1 /\ <<Sym(c, v)>>[1] = Sym(c, v) /\ Listed(<<Sym(c, v)>>)
    BY ListedOne
  <2>2. d.reader.src = reader.src /\ d.reader.at = reader.at + k /\ d.reader.ok = TRUE
    BY <1>2 DEF Further
  <2>3. reader.at \in Nat \ {0} /\ Listed(reader.src) /\ Len(reader.src) \in Nat
        /\ reader.at + N <= Len(reader.src) + 1
    BY <1>4, <1>5, ListedFacts DEF Ahead
  <2>4. reader.src[reader.at + (k + 1) - 1] = Sym(c, v)
    BY <1>1, <1>4, <1>5 DEF Ahead
  <2>5. ASSUME NEW j \in 1..1 PROVE d.reader.src[d.reader.at + j - 1] = Sym(c, v)
    <3>1. d.reader.at + j - 1 = reader.at + (k + 1) - 1
      BY <2>2, <2>3
    <3> QED BY <2>2, <2>4, <3>1
  <2>6. d.reader.at \in Nat \ {0} /\ d.reader.at + 1 <= Len(d.reader.src) + 1
    BY <1>1, <2>2, <2>3, SMTT(30)
  <2> QED BY <2>1, <2>2, <2>3, <2>5, <2>6 DEF Ahead
<1>7. r.val = v /\ Further(d.reader, 1, r)
  BY <1>6, ReadsNext
<1>8. Further(reader, k + 1, r)
  <2>1. reader.at \in Nat
    BY <1>5 DEF Ahead
  <2> HIDE DEF r
  <2> QED BY <1>1, <1>2, <1>7, <2>1, FurtherAdds
<1>9. decode_one(d, b, h)
        = [reader |-> r, above |-> Noted(E[k].above, above_context_index(b), r.val),
           left |-> Noted(E[k].left, left_context_index(b), r.val),
           residual |-> IF r.val THEN d.residual \cup {b} ELSE d.residual]
  BY <1>2 DEF decode_one
<1>10. E[k + 1].above = Noted(E[k].above, above_context_index(b), v)
       /\ E[k + 1].left = Noted(E[k].left, left_context_index(b), v)
  <2>1. E[k + 1] = encode_block_with_ctx(E[k], b, h, residual)
    BY <1>1 DEF EncodedRule, N
  <2> QED BY <2>1 DEF encode_block_with_ctx
<1>11. BlocksSoFar(h, k + 1) = BlocksSoFar(h, k) \cup {b}
  <2>1. \A j \in 1..k + 1 : j \in 1..k \/ j = k + 1
    BY <1>1
  <2>2. \A j \in 1..k : j \in 1..k + 1
    BY <1>1
  <2> QED BY <1>1, <2>1, <2>2 DEF BlocksSoFar
<1> HIDE DEF r, c
<1>12. (IF r.val THEN d.residual \cup {b} ELSE d.residual) = residual \cap BlocksSoFar(h, k + 1)
  <2> HIDE DEF b
  <2>1. CASE v
    BY <1>2, <1>7, <1>11, <2>1
  <2>2. CASE ~v
    BY <1>2, <1>7, <1>11, <2>2
  <2> QED BY <2>1, <2>2
<1> HIDE DEF v
<1>13. Tracks(E, residual, h, reader, k + 1, decode_one(d, b, h))
  BY <1>7, <1>8, <1>9, <1>10, <1>12 DEF Tracks
<1> QED BY <1>13

(* The decoder's walk, state by state.                                       *)
DecodedRule(D, reader, h, above, left) ==
  /\ D[0] = [reader |-> reader, above |-> above, left |-> left, residual |-> {}]
  /\ \A k \in 1..BlockCount(h) : D[k] = decode_one(D[k - 1], ResidualOrder(h)[k], h)

LEMMA DecodingWalk ==
  ASSUME NEW reader, NEW h \in BOOLEAN, NEW above, NEW left
  PROVE  DecodedRule(DecodedBlocks(reader, h, above, left), reader, h, above, left)
<1> DEFINE order == ResidualOrder(h)
           N == BlockCount(h)
           first == [reader |-> reader, above |-> above, left |-> left, residual |-> {}]
           Step(s, k) == decode_one(s, order[k], h)
           Rule(f, m) == f = [k \in 0..m |-> IF k = 0 THEN first ELSE Step(f[k - 1], k)]
           D == DecodedBlocks(reader, h, above, left)
           S == {m \in Nat : \E f : Rule(f, m)}
<1>1. N \in Nat /\ Len(order) = N
  BY Order, OrderedBlocks DEF Ordered
<1>2. D = CHOOSE g : Rule(g, N)
  BY <1>1 DEF DecodedBlocks
<1> HIDE DEF first, order, N, D, Step
<1>3. 0 \in S
  <2>1. Rule([k \in 0..0 |-> first], 0)
    OBVIOUS
  <2> QED BY <2>1
<1>4. ASSUME NEW m \in Nat, m \in S PROVE m + 1 \in S
  <2>1. PICK f : Rule(f, m)
    BY <1>4
  <2> DEFINE last == Step(f[m], m + 1)
             g == [k \in 0..m + 1 |-> IF k = m + 1 THEN last ELSE f[k]]
  <2>2. Rule(g, m + 1)
    <3>1. ASSUME NEW k \in 0..m + 1 PROVE g[k] = IF k = 0 THEN first ELSE Step(g[k - 1], k)
      <4>1. CASE k = m + 1
        <5>1. k - 1 = m /\ g[k] = last /\ g[m] = f[m] /\ k # 0
          BY <4>1
        <5> HIDE DEF g
        <5> QED BY <4>1, <5>1
      <4>2. CASE k # m + 1
        <5>1. k \in 0..m /\ g[k] = f[k] /\ (k # 0 => g[k - 1] = f[k - 1])
          BY <4>2
        <5> HIDE DEF g
        <5> QED BY <2>1, <5>1
      <4> QED BY <4>1, <4>2
    <3>2. g = [k \in 0..m + 1 |-> g[k]]
      OBVIOUS
    <3> HIDE DEF g
    <3> QED BY <3>1, <3>2
  <2> HIDE DEF Rule, g
  <2> QED BY <2>2
<1>5. N \in S
  <2> HIDE DEF S
  <2> QED BY <1>1, <1>3, <1>4, NaturalInduction
<1>6. Rule(D, N)
  <2> HIDE DEF Rule
  <2> QED BY <1>2, <1>5
<1>7. D[0] = first /\ \A k \in 1..N : D[k] = Step(D[k - 1], k)
  <2>1. \A k \in 1..N : k \in 0..N /\ k # 0
    BY <1>1
  <2>2. 0 \in 0..N
    BY <1>1
  <2> QED BY <1>6, <2>1, <2>2
<1> QED BY <1>7 DEF DecodedRule, D, Step, N, first, order

(* A macroblock's tokens are read back, and leave the encoder's contexts.     *)
TokensDecoded(residual, h, above, left, reader) ==
  LET e == encode_mb_tokens(residual, h, above, left)
      d == decode_mb_coeffs(reader, FALSE, h, above, left)
  IN /\ d.above = e.above /\ d.left = e.left /\ d.residual = residual
     /\ Further(reader, Len(e.coded), d.reader)

LEMMA Decoding ==
  ASSUME NEW residual, NEW h \in BOOLEAN, residual \subseteq Blocks(h),
         NEW above \in SUBSET Slots, NEW left \in SUBSET Slots, NEW reader,
         Ahead(reader, encode_mb_tokens(residual, h, above, left).coded)
  PROVE  TokensDecoded(residual, h, above, left, reader)
<1> DEFINE E == EncodedBlocks(residual, h, above, left)
           D == DecodedBlocks(reader, h, above, left)
           N == BlockCount(h)
           S == {k \in Nat : k <= N => Tracks(E, residual, h, reader, k, D[k])}
<1>1. EncodedRule(E, residual, h, above, left) /\ DecodedRule(D, reader, h, above, left)
  BY Encoding, DecodingWalk
<1>2. N \in Nat /\ Len(ResidualOrder(h)) = N
  BY Order, OrderedBlocks DEF Ordered
<1>3. encode_mb_tokens(residual, h, above, left) = E[N]
  BY <1>2 DEF encode_mb_tokens
<1>4. decode_mb_coeffs(reader, FALSE, h, above, left) = D[N]
  BY <1>2 DEF decode_mb_coeffs
<1>5. Ahead(reader, E[N].coded)
  BY <1>3
<1> HIDE DEF E, D
<1>6. 0 \in S
  <2>1. BlocksSoFar(h, 0) = {}
    BY DEF BlocksSoFar
  <2>2. reader.at \in Nat /\ reader.ok = TRUE
    BY <1>5 DEF Ahead
  <2>3. Further(reader, 0, reader)
    BY <2>2 DEF Further
  <2> QED BY <1>1, <2>1, <2>3 DEF EncodedRule, DecodedRule, Tracks
<1>7. ASSUME NEW k \in Nat, k \in S PROVE k + 1 \in S
  <2> SUFFICES ASSUME k + 1 <= N PROVE Tracks(E, residual, h, reader, k + 1, D[k + 1])
    OBVIOUS
  <2>1. k + 1 \in 1..N /\ (k + 1) - 1 = k
    BY <1>2
  <2>2. Tracks(E, residual, h, reader, k, D[k])
    BY <1>2, <1>7, <2>1
  <2>3. D[k + 1] = decode_one(D[k], ResidualOrder(h)[k + 1], h)
    BY <1>1, <2>1 DEF DecodedRule
  <2> QED BY <1>1, <1>5, <2>2, <2>3, DecodeStep
<1>8. Tracks(E, residual, h, reader, N, D[N])
  <2> HIDE DEF S
  <2>1. N \in S
    BY <1>2, <1>6, <1>7, NaturalInduction
  <2> QED BY <1>2, <2>1 DEF S
<1>9. residual \cap BlocksSoFar(h, N) = residual
  BY OrderedBlocks DEF BlocksSoFar
<1>10. Len(E[N].coded) = N
  <2>1. N \in 0..N
    BY <1>2
  <2> QED BY <1>1, <2>1, CodedTokens DEF Coded
<1> QED BY <1>3, <1>4, <1>8, <1>9, <1>10 DEF Tracks, TokensDecoded

-----------------------------------------------------------------------------
(* How often a symbol occurs.                                                *)
Places(s, e) == { i \in DOMAIN s : s[i] = e }
Occ(s, e) == Cardinality(Places(s, e))

LEMMA OccFinite ==
  ASSUME NEW s, NEW e, Listed(s)
  PROVE  IsFiniteSet(Places(s, e)) /\ Occ(s, e) \in Nat /\ (Occ(s, e) = 0 <=> e \notin Range(s))
<1>1. Len(s) \in Nat /\ DOMAIN s = 1..Len(s)
  BY ListedFacts
<1>2. IsFiniteSet(1..Len(s))
  BY <1>1, FS_Interval
<1>3. IsFiniteSet(Places(s, e))
  <2>1. Places(s, e) \in SUBSET (1..Len(s))
    BY <1>1 DEF Places
  <2> QED BY <1>2, <2>1, FS_Subset
<1>4. Occ(s, e) \in Nat /\ (Occ(s, e) = 0 <=> Places(s, e) = {})
  BY <1>3, FS_CardinalityType, FS_EmptySet DEF Occ
<1>5. Places(s, e) = {} <=> e \notin Range(s)
  BY DEF Places, Range
<1> QED BY <1>3, <1>4, <1>5

LEMMA OccJoin ==
  ASSUME NEW a, NEW b, NEW e, Listed(a), Listed(b)
  PROVE  Occ(a \o b, e) = Occ(a, e) + Occ(b, e)
<1> DEFINE c == a \o b
           m == Len(a)
           n == Len(b)
           A == Places(a, e)
           B == Places(b, e)
           C == Places(c, e)
           B2 == { i \in m + 1..m + n : c[i] = e }
           F == [j \in B |-> m + j]
<1>1. Joins(a, b, c)
  BY ListedJoin
<1>2. /\ m \in Nat /\ n \in Nat /\ DOMAIN a = 1..m /\ DOMAIN b = 1..n /\ DOMAIN c = 1..m + n
      /\ \A k \in 1..m : c[k] = a[k]
      /\ \A k \in 1..n : c[m + k] = b[k]
  BY <1>1, ListedFacts DEF Joins
<1>3. IsFiniteSet(A) /\ IsFiniteSet(B) /\ Cardinality(A) \in Nat /\ Cardinality(B) \in Nat
  BY OccFinite DEF Occ
<1> HIDE DEF c, m, n
<1>4. F \in Bijection(B, B2)
  <2>1. \A j \in B : m + j \in B2 /\ j \in Nat
    BY <1>2 DEF Places
  <2>2. ASSUME NEW t \in B2 PROVE \E j \in B : F[j] = t
    <3>1. t - m \in 1..n /\ m + (t - m) = t
      BY <1>2
    <3>2. t - m \in B
      BY <1>2, <3>1 DEF Places
    <3> HIDE DEF B, B2
    <3> QED BY <3>1, <3>2
  <2>3. F \in [B -> B2]
    <3> HIDE DEF B, B2
    <3> QED BY <2>1
  <2>4. \A x, y \in B : F[x] = F[y] => x = y
    <3> SUFFICES ASSUME NEW x \in B, NEW y \in B, m + x = m + y PROVE x = y
      <4> HIDE DEF B
      <4> QED OBVIOUS
    <3>1. x \in Nat /\ y \in Nat
      BY <2>1
    <3> QED BY <1>2, <3>1
  <2> HIDE DEF B, B2, F
  <2> QED BY <2>2, <2>3, <2>4, Fun_IsBij
<1>5. IsFiniteSet(B2) /\ Cardinality(B2) = Cardinality(B)
  <2> HIDE DEF B, B2, F
  <2>1. ExistsBijection(B, B2)
    BY <1>4 DEF ExistsBijection
  <2> QED BY <1>3, <2>1, FS_Bijection
<1>6. C = A \cup B2 /\ A \cap B2 = {}
  <2>1. \A i \in 1..m + n : i \in 1..m \/ i \in m + 1..m + n
    BY <1>2
  <2>2. \A i \in 1..m : i \in 1..m + n /\ i \notin m + 1..m + n
    BY <1>2
  <2>3. \A i \in m + 1..m + n : i \in 1..m + n
    BY <1>2
  <2> QED BY <1>2, <2>1, <2>2, <2>3 DEF Places
<1> HIDE DEF A, B, C, B2, F
<1>7. Cardinality(C) = Cardinality(A) + Cardinality(B2)
  <2>1. Cardinality(A \cap B2) = 0
    BY <1>6, FS_EmptySet
  <2>2. Cardinality(A \cup B2) = Cardinality(A) + Cardinality(B2) - Cardinality(A \cap B2)
    BY <1>3, <1>5, FS_Union
  <2> QED BY <1>3, <1>5, <1>6, <2>1, <2>2
<1>8. Cardinality(C) = Cardinality(A) + Cardinality(B)
  BY <1>5, <1>7
<1> QED BY <1>8 DEF Occ, A, B, C, c

LEMMA TallyIsOcc ==
  ASSUME NEW s
  PROVE  Tally(s) = [e \in Range(s) |-> Occ(s, e)]
BY DEF Tally, Occ, Places

(* The tally of a sequence is that of its symbols in any order.              *)
LEMMA SameTally ==
  ASSUME NEW s, NEW t, Listed(s), Listed(t), \A e : Occ(s, e) = Occ(t, e)
  PROVE  Tally(s) = Tally(t)
<1>1. \A e : e \in Range(s) <=> e \in Range(t)
  BY OccFinite
<1>2. Range(s) = Range(t)
  BY <1>1
<1> QED BY <1>2, TallyIsOcc

LEMMA TallyStep ==
  ASSUME NEW s, NEW x, Listed(s)
  PROVE  Tally(s \o <<x>>) = Tally(s) (+) SetToBag({x})
<1> DEFINE z == s \o <<x>>
           one == <<x>>
<1>1. Listed(one) /\ Len(one) = 1 /\ one[1] = x
  BY ListedOne
<1>2. \A e : Occ(z, e) = Occ(s, e) + Occ(one, e)
  BY <1>1, OccJoin
<1>3. Listed(z)
  BY <1>1, ListedJoin DEF Joins
<1>4. \A e : Occ(one, e) = IF e = x THEN 1 ELSE 0
  <2> SUFFICES ASSUME NEW e PROVE Occ(one, e) = IF e = x THEN 1 ELSE 0
    OBVIOUS
  <2>1. DOMAIN one = {1}
    BY <1>1, ListedFacts
  <2> HIDE DEF one
  <2>2. Places(one, e) = IF e = x THEN {1} ELSE {}
    BY <1>1, <2>1 DEF Places
  <2> QED BY <2>2, FS_EmptySet, FS_Singleton DEF Occ
<1> HIDE DEF z, one
<1>5. \A e : Occ(s, e) \in Nat /\ (Occ(s, e) = 0 <=> e \notin Range(s)) /\ (Occ(z, e) = 0 <=> e \notin Range(z))
  BY <1>3, OccFinite
<1>6. Range(z) = Range(s) \cup {x}
  <2>1. \A e : e \in Range(z) <=> e \in Range(s) \/ e = x
    BY <1>2, <1>4, <1>5
  <2> QED BY <2>1
<1>7. Tally(s) (+) SetToBag({x})
        = [e \in Range(s) \cup {x} |-> (IF e \in Range(s) THEN Occ(s, e) ELSE 0) + (IF e \in {x} THEN 1 ELSE 0)]
  BY TallyIsOcc DEF SetToBag, (+)
<1>8. Tally(z) = [e \in Range(s) \cup {x} |-> Occ(z, e)]
  BY <1>6, TallyIsOcc
<1>9. \A e \in Range(s) \cup {x} :
        Occ(z, e) = (IF e \in Range(s) THEN Occ(s, e) ELSE 0) + (IF e \in {x} THEN 1 ELSE 0)
  BY <1>2, <1>4, <1>5
<1> QED BY <1>7, <1>8, <1>9 DEF z, one

(* The fitter's walk of a macroblock's blocks: the encoder's contexts, and    *)
(* every token added to the counts.                                          *)
CountStates(E, s, N) ==
  [k \in 0..N |-> [above |-> E[k].above, left |-> E[k].left, counts |-> Tally(s \o E[k].coded)]]

LEMMA CountStep ==
  ASSUME NEW residual, NEW h \in BOOLEAN, NEW above \in SUBSET Slots, NEW left \in SUBSET Slots,
         NEW s, Listed(s), NEW E, EncodedRule(E, residual, h, above, left),
         NEW k \in 1..BlockCount(h)
  PROVE  count_block_branches(CountStates(E, s, BlockCount(h))[k - 1], ResidualOrder(h)[k], h, residual)
           = CountStates(E, s, BlockCount(h))[k]
<1> DEFINE N == BlockCount(h)
           b == ResidualOrder(h)[k]
           event == [ctx |-> TokenContext(E[k - 1].above, E[k - 1].left, b, h), val |-> b \in residual]
           before == E[k - 1].coded
           C == CountStates(E, s, N)
<1>1. N \in Nat /\ k - 1 \in 0..N /\ k \in 0..N
  BY OrderedBlocks
<1>2. C[k - 1] = [above |-> E[k - 1].above, left |-> E[k - 1].left, counts |-> Tally(s \o before)]
      /\ C[k] = [above |-> E[k].above, left |-> E[k].left, counts |-> Tally(s \o E[k].coded)]
  BY <1>1 DEF CountStates
<1>3. E[k] = encode_block_with_ctx(E[k - 1], b, h, residual)
  BY DEF EncodedRule
<1>4. E[k].above = Noted(E[k - 1].above, above_context_index(b), b \in residual)
      /\ E[k].left = Noted(E[k - 1].left, left_context_index(b), b \in residual)
      /\ E[k].coded = Append(before, event)
  BY <1>3 DEF encode_block_with_ctx
<1>5. Listed(before)
  <2>1. E[k - 1] \in TokenStates
    BY <1>1 DEF EncodedRule
  <2> QED BY <2>1 DEF TokenStates, Listed
<1>6. count_block_branches(C[k - 1], b, h, residual)
        = [above |-> E[k].above, left |-> E[k].left,
           counts |-> Tally(s \o before) (+) SetToBag({event})]
  BY <1>2, <1>4 DEF count_block_branches
<1> HIDE DEF event, before
<1>7. Tally(s \o before) (+) SetToBag({event}) = Tally((s \o before) \o <<event>>)
  <2>1. Listed(s \o before)
    BY <1>5, ListedJoin DEF Joins
  <2> QED BY <2>1, TallyStep
<1>8. (s \o before) \o <<event>> = s \o E[k].coded
  <2>1. Listed(<<event>>)
    BY ListedOne
  <2>2. Append(before, event) = before \o <<event>>
    BY <1>5, ListedAppend
  <2> QED BY <1>4, <1>5, <2>1, <2>2, ListedAssociative, SMTT(30)
<1>9. count_block_branches(C[k - 1], b, h, residual)
        = [above |-> E[k].above, left |-> E[k].left, counts |-> Tally(s \o E[k].coded)]
  BY <1>6, <1>7, <1>8
<1> QED BY <1>2, <1>9

LEMMA Counting ==
  ASSUME NEW residual, NEW h \in BOOLEAN, NEW above \in SUBSET Slots, NEW left \in SUBSET Slots,
         NEW s, Listed(s)
  PROVE  LET e == encode_mb_tokens(residual, h, above, left)
         IN count_mb_branches(residual, ~h, [above |-> above, left |-> left, counts |-> Tally(s)])
              = [above |-> e.above, left |-> e.left, counts |-> Tally(s \o e.coded)]
<1> DEFINE E == EncodedBlocks(residual, h, above, left)
           N == BlockCount(h)
           C == CountStates(E, s, N)
           first == [above |-> above, left |-> left, counts |-> Tally(s)]
           K == CountedBlocks(residual, ~h, first)
           Step(t, k) == count_block_branches(t, ResidualOrder(h)[k], h, residual)
           Rule(f) == f = [k \in 0..N |-> IF k = 0 THEN first ELSE Step(f[k - 1], k)]
           S == {k \in Nat : k <= N => K[k] = C[k]}
<1>1. EncodedRule(E, residual, h, above, left)
  BY Encoding
<1>2. N \in Nat /\ Len(ResidualOrder(h)) = N
  BY Order, OrderedBlocks DEF Ordered
<1>3. encode_mb_tokens(residual, h, above, left) = E[N]
  BY <1>2 DEF encode_mb_tokens
<1>4. (~(~h)) = h
  OBVIOUS
<1>5. K = CHOOSE g : Rule(g)
  BY <1>2, <1>4 DEF CountedBlocks
<1>6. count_mb_branches(residual, ~h, first) = K[N]
  BY <1>2, <1>4 DEF count_mb_branches
<1> HIDE DEF E, K
<1>7. C[0] = first
  <2>1. E[0].above = above /\ E[0].left = left /\ E[0].coded = <<>> /\ 0 \in 0..N
    BY <1>1, <1>2 DEF EncodedRule
  <2>2. s \o <<>> = s
    BY ListedEmptyJoin
  <2> QED BY <2>1, <2>2 DEF CountStates
<1>8. \A k \in 1..N : C[k] = Step(C[k - 1], k)
  BY <1>1, CountStep
<1> HIDE DEF Step, first
<1>9. Rule(C)
  <2>1. C = [k \in 0..N |-> C[k]]
    BY DEF CountStates
  <2>2. \A k \in 0..N : C[k] = IF k = 0 THEN first ELSE Step(C[k - 1], k)
    BY <1>2, <1>7, <1>8
  <2> HIDE DEF C
  <2> QED BY <2>1, <2>2
<1> HIDE DEF C
<1>10. Rule(K)
  <2> HIDE DEF Rule
  <2> QED BY <1>5, <1>9
<1>11. K[0] = first /\ \A k \in 1..N : K[k] = Step(K[k - 1], k)
  <2>1. \A k \in 1..N : k \in 0..N /\ k # 0
    BY <1>2
  <2>2. 0 \in 0..N
    BY <1>2
  <2> QED BY <1>10, <2>1, <2>2
<1>12. 0 \in S
  BY <1>7, <1>11
<1>13. ASSUME NEW k \in Nat, k \in S PROVE k + 1 \in S
  <2> SUFFICES ASSUME k + 1 <= N PROVE K[k + 1] = C[k + 1]
    OBVIOUS
  <2>1. k + 1 \in 1..N /\ (k + 1) - 1 = k /\ K[k] = C[k]
    BY <1>2, <1>13
  <2> QED BY <1>8, <1>11, <2>1
<1>14. K[N] = C[N]
  <2> HIDE DEF S
  <2>1. N \in S
    BY <1>2, <1>12, <1>13, NaturalInduction
  <2> QED BY <1>2, <2>1 DEF S
<1>15. C[N] = [above |-> E[N].above, left |-> E[N].left, counts |-> Tally(s \o E[N].coded)]
  BY <1>2 DEF C, CountStates
<1> QED BY <1>3, <1>6, <1>14, <1>15 DEF first

-----------------------------------------------------------------------------
(* What the decoder records of a macroblock the encoder chose.               *)
Shown(mb, residual) ==
  [segment |-> mb.segment, skip |-> mb.skip, mode |-> mb.mode, y |-> mb.y, bmodes |-> mb.bmodes,
   uv |-> mb.uv, info |-> mb.info, residual |-> residual, q |-> mb.q]

(* A macroblock the encoder may choose at a place of a frame.                *)
MayChoose(m, here, mb) ==
  \E c \in IF m.key THEN KeyCandidates(m) ELSE InterCandidates(m, here) \cup IntraCandidates(m) :
  \E segment \in IF Segmented(m) THEN m.segments ELSE {0} :
  \E uv \in IF c.mode = Intra THEN m.uv ELSE {"dc"} :
  \E residual \in m.residuals :
    /\ residual \subseteq BlocksOf(c.y)
    /\ mb = Chosen(c, segment, IF Segmented(m) THEN Quantizer(m, segment) ELSE m.base_q, uv, residual)

(* The flags every macroblock starts with.                                   *)
PrefixSymbols(here, mb) == SegmentSymbols(here, mb) \o <<Sym(<<"skip">>, mb.skip)>>
Prefixed(m, mb) ==
  /\ mb.q = DecodedQuantizer(m, mb.segment)
  /\ ~Segmented(m) => mb.segment = 0

LEMMA PrefixListed ==
  ASSUME NEW here, NEW mb
  PROVE  Listed(PrefixSymbols(here, mb)) /\ Listed(SegmentSymbols(here, mb))
<1>1. Listed(SegmentSymbols(here, mb))
  BY ListedOne, ListedNone DEF SegmentSymbols
<1> QED BY <1>1, ListedOne, ListedJoin DEF PrefixSymbols, Joins

LEMMA ReadsPrefix ==
  ASSUME NEW m, NEW here, NEW mb, here.segmented = Segmented(m), Prefixed(m, mb), NEW queue,
         Ahead(Reader(queue), PrefixSymbols(here, mb))
  PROVE  LET p == ReadPrefix(m, queue)
         IN /\ p.segment = mb.segment /\ p.skip = mb.skip /\ p.q = mb.q
            /\ Further(Reader(queue), Len(PrefixSymbols(here, mb)), p.reader)
<1> DEFINE a == SegmentSymbols(here, mb)
           b == <<Sym(<<"skip">>, mb.skip)>>
           r == Reader(queue)
           s == IF Segmented(m) THEN Read(r, <<"segment">>, 0) ELSE [r EXCEPT !.val = 0]
           k == Read(s, <<"skip">>, FALSE)
<1>1. Listed(a) /\ Listed(b) /\ Len(b) = 1
  BY PrefixListed, ListedOne
<1>2. Ahead(r, a) /\ \A r2 : Further(r, Len(a), r2) => Ahead(r2, b)
  <2>1. Ahead(r, a \o b)
    BY DEF PrefixSymbols
  <2> HIDE DEF a, b
  <2> QED BY <1>1, <2>1, AheadJoin
<1>3. r.ok = TRUE /\ r.src = queue /\ r.at = 1
  BY DEF Reader
<1>4. s.val = mb.segment /\ Further(r, Len(a), s)
  <2>1. CASE Segmented(m)
    <3>1. a = <<Sym(<<"segment">>, mb.segment)>> /\ Len(a) = 1
      BY <2>1, ListedOne DEF SegmentSymbols
    <3> QED BY <1>2, <2>1, <3>1, ReadsNext
  <2>2. CASE ~Segmented(m)
    <3>1. a = <<>> /\ Len(a) = 0
      BY <2>2, ListedNone DEF SegmentSymbols
    <3>2. s.val = 0 /\ s.src = r.src /\ s.at = r.at /\ s.ok = r.ok
      BY <2>2 DEF Reader
    <3>3. Further(r, 0, s)
      BY <1>3, <3>2 DEF Further
    <3> QED BY <2>2, <3>1, <3>2, <3>3 DEF Prefixed
  <2> QED BY <2>1, <2>2
<1> HIDE DEF s
<1>5. k.val = mb.skip /\ Further(s, 1, k)
  BY <1>2, <1>4, ReadsNext
<1>6. Len(PrefixSymbols(here, mb)) = Len(a) + 1 /\ Len(a) \in Nat
  <2>1. Joins(a, b, a \o b)
    BY <1>1, ListedJoin
  <2> HIDE DEF a
  <2> QED BY <1>1, <2>1 DEF Joins, PrefixSymbols, a
<1>7. Further(r, Len(a) + 1, k)
  <2> HIDE DEF a, r, k
  <2> QED BY <1>3, <1>4, <1>5, <1>6, FurtherAdds
<1>8. ReadPrefix(m, queue) = [reader |-> k, segment |-> s.val, q |-> DecodedQuantizer(m, s.val), skip |-> k.val]
  BY DEF ReadPrefix, s
<1> HIDE DEF k, r, a
<1> QED BY <1>4, <1>5, <1>6, <1>7, <1>8 DEF Prefixed, r

-----------------------------------------------------------------------------
(* The sub-block modes of a key frame's macroblock: each is read in the       *)
(* context it was written in, for its neighbours inside the macroblock come   *)
(* before it.                                                                *)
BModeSymbols(here, modes) == [j \in 1..16 |-> Sym(BModeContext(here, modes, j - 1), modes[j - 1])]
ReaderAt(reader, k, val) == [src |-> reader.src, at |-> reader.at + k, ok |-> TRUE, val |-> val]
BModesRead(reader, modes) ==
  [k \in 0..16 |-> [reader |-> IF k = 0 THEN reader ELSE ReaderAt(reader, k, modes[k - 1]),
                    modes |-> [b \in 0..15 |-> IF b < k THEN modes[b] ELSE "b_dc"]]]

LEMMA ReadIs ==
  ASSUME NEW r, NEW c, NEW v, NEW garbled, Ahead(r, <<Sym(c, v)>>)
  PROVE  Read(r, c, garbled) = ReaderAt(r, 1, v)
<1>1. Read(r, c, garbled).val = v /\ Further(r, 1, Read(r, c, garbled))
  BY ReadsNext
<1>2. \A x, g : Read(r, x, g) = [src |-> Read(r, x, g).src, at |-> Read(r, x, g).at,
                                 ok |-> Read(r, x, g).ok, val |-> Read(r, x, g).val]
  BY DEF Read
<1> QED BY <1>1, <1>2 DEF Further, ReaderAt

LEMMA AheadAt ==
  ASSUME NEW r, NEW s, Ahead(r, s), NEW k \in 1..Len(s), NEW r2, Further(r, k - 1, r2)
  PROVE  Ahead(r2, <<s[k]>>)
<1> DEFINE x == s[k]  L == Len(r.src)  A == r.at  N == Len(s)
<1>1. Listed(<<x>>) /\ Len(<<x>>) = 1 /\ <<x>>[1] = x
  BY ListedOne
<1>2. r2.src = r.src /\ r2.at = A + (k - 1) /\ r2.ok = TRUE
  BY DEF Further
<1>3. L \in Nat /\ N \in Nat /\ A \in Nat \ {0} /\ Listed(r.src) /\ A + N <= L + 1 /\ r.src[A + k - 1] = x
  BY ListedFacts DEF Ahead
<1> HIDE DEF x, L, A, N
<1>4. k \in 1..N /\ Len(r2.src) = L
  BY <1>2 DEF N, L
<1>5. r2.at \in Nat \ {0} /\ r2.at + 1 <= L + 1
  BY <1>2, <1>3, <1>4
<1>6. ASSUME NEW j \in 1..1 PROVE r2.src[r2.at + j - 1] = x
  <2>1. r2.at + j - 1 = A + k - 1
    BY <1>2, <1>3, <1>4
  <2> QED BY <1>2, <1>3, <2>1
<1>7. Ahead(r2, <<x>>)
  BY <1>1, <1>2, <1>3, <1>4, <1>5, <1>6 DEF Ahead
<1> QED BY <1>7 DEF x

BModeStepped(here, s, b) ==
  LET r == Read(s.reader, BModeContext(here, s.modes, b), "b_dc")
  IN [reader |-> r, modes |-> [s.modes EXCEPT ![b] = r.val]]

LEMMA BModeStep ==
  ASSUME NEW here, NEW modes \in [0..15 -> BModes], NEW reader, Ahead(reader, BModeSymbols(here, modes)),
         NEW k \in 1..16
  PROVE  BModeStepped(here, BModesRead(reader, modes)[k - 1], k - 1) = BModesRead(reader, modes)[k]
<1> DEFINE s == BModesRead(reader, modes)[k - 1]
           b == k - 1
           c == BModeContext(here, modes, b)
           all == BModeSymbols(here, modes)
           r == Read(s.reader, BModeContext(here, s.modes, b), "b_dc")
<1>1. b \in 0..15 /\ k \in 0..16 /\ b \in 0..16
  OBVIOUS
<1>2. s = [reader |-> IF b = 0 THEN reader ELSE ReaderAt(reader, b, modes[b - 1]),
           modes |-> [i \in 0..15 |-> IF i < b THEN modes[i] ELSE "b_dc"]]
  BY <1>1 DEF BModesRead
<1>3. BModeContext(here, s.modes, b) = c
  <2>1. b >= 4 => s.modes[b - 4] = modes[b - 4]
    BY <1>1, <1>2
  <2>2. b % 4 # 0 => s.modes[b - 1] = modes[b - 1]
    BY <1>1, <1>2
  <2> HIDE DEF s, b
  <2>3. b < 4 \/ b >= 4
    BY <1>1
  <2>4. AboveBMode(here, s.modes, b) = AboveBMode(here, modes, b)
    BY <2>1, <2>3 DEF AboveBMode
  <2>5. LeftBMode(here, s.modes, b) = LeftBMode(here, modes, b)
    BY <2>2 DEF LeftBMode
  <2> QED BY <2>4, <2>5 DEF BModeContext
<1>4. Ahead(s.reader, <<Sym(c, modes[b])>>)
  <2>1. Len(all) = 16
    <3>1. all = [i \in 1..16 |-> all[i]]
      BY DEF BModeSymbols
    <3> HIDE DEF all
    <3> QED BY <3>1, ListedIs
  <2>2. all[k] = Sym(c, modes[b])
    BY DEF BModeSymbols
  <2>3. reader.ok = TRUE /\ reader.at \in Nat
    BY DEF Ahead
  <2>4. Further(reader, k - 1, s.reader)
    BY <1>1, <1>2, <2>3 DEF ReaderAt, Further
  <2> HIDE DEF s, all, c
  <2> QED BY <2>1, <2>2, <2>4, AheadAt DEF all
<1>5. r = ReaderAt(s.reader, 1, modes[b])
  BY <1>3, <1>4, ReadIs
<1>6. reader.at \in Nat /\ reader.ok = TRUE
  BY DEF Ahead
<1>7. ReaderAt(s.reader, 1, modes[b]) = ReaderAt(reader, k, modes[b])
  <2>1. s.reader.src = reader.src /\ s.reader.at = reader.at + b
    BY <1>1, <1>2, <1>6 DEF ReaderAt
  <2>2. s.reader.at + 1 = reader.at + k
    BY <1>6, <2>1
  <2> HIDE DEF s
  <2> QED BY <2>1, <2>2 DEF ReaderAt
<1>8. [s.modes EXCEPT ![b] = modes[b]] = [i \in 0..15 |-> IF i < k THEN modes[i] ELSE "b_dc"]
  BY <1>1, <1>2
<1>9. r.val = modes[b]
  BY <1>5 DEF ReaderAt
<1>10. BModesRead(reader, modes)[k]
         = [reader |-> ReaderAt(reader, k, modes[b]),
            modes |-> [i \in 0..15 |-> IF i < k THEN modes[i] ELSE "b_dc"]]
  <2>1. k # 0
    OBVIOUS
  <2> QED BY <1>1, <2>1 DEF BModesRead
<1> HIDE DEF r, s, b
<1>11. [reader |-> r, modes |-> [s.modes EXCEPT ![b] = r.val]] = BModesRead(reader, modes)[k]
  BY <1>5, <1>7, <1>8, <1>9, <1>10
<1> QED BY <1>11 DEF r, s, b, BModeStepped

LEMMA ReadsBModes ==
  ASSUME NEW here, NEW modes \in [0..15 -> BModes], NEW reader, Ahead(reader, BModeSymbols(here, modes))
  PROVE  LET s == ReadBModes(here, reader)[16]
         IN s.modes = modes /\ Further(reader, 16, s.reader)
<1> DEFINE C == BModesRead(reader, modes)
           K == ReadBModes(here, reader)
           first == [reader |-> reader, modes |-> [b \in 0..15 |-> "b_dc"]]
           Step(s, b) == BModeStepped(here, s, b)
           Rule(f) == f = [k \in 0..16 |-> IF k = 0 THEN first ELSE Step(f[k - 1], k - 1)]
           S == {k \in Nat : k <= 16 => K[k] = C[k]}
<1>1. K = CHOOSE g : Rule(g)
  BY DEF ReadBModes, BModeStepped
<1>2. C[0] = first
  BY DEF BModesRead
<1>3. ASSUME NEW k \in 1..16 PROVE C[k] = Step(C[k - 1], k - 1)
  BY BModeStep
<1>4. C[16].modes = modes /\ C[16].reader = ReaderAt(reader, 16, modes[15])
  <2>1. [b \in 0..15 |-> IF b < 16 THEN modes[b] ELSE "b_dc"] = modes
    OBVIOUS
  <2> QED BY <2>1 DEF BModesRead
<1>5. C = [k \in 0..16 |-> C[k]]
  BY DEF BModesRead
<1> HIDE DEF Step, first, C, K
<1>6. Rule(C)
  BY <1>2, <1>3, <1>5
<1>7. Rule(K)
  <2> HIDE DEF Rule
  <2> QED BY <1>1, <1>6
<1>8. K[0] = first /\ \A k \in 1..16 : K[k] = Step(K[k - 1], k - 1)
  BY <1>7
<1>9. 0 \in S
  BY <1>2, <1>8
<1>10. ASSUME NEW k \in Nat, k \in S PROVE k + 1 \in S
  <2> SUFFICES ASSUME k + 1 <= 16 PROVE K[k + 1] = C[k + 1]
    OBVIOUS
  <2>1. k + 1 \in 1..16 /\ (k + 1) - 1 = k /\ K[k] = C[k]
    BY <1>10
  <2> QED BY <1>3, <1>8, <2>1
<1>11. K[16] = C[16]
  <2> HIDE DEF S
  <2>1. 16 \in S
    BY <1>9, <1>10, NaturalInduction
  <2> QED BY <2>1 DEF S
<1>12. Further(reader, 16, C[16].reader)
  BY <1>4 DEF Further, ReaderAt
<1> QED BY <1>4, <1>11, <1>12 DEF K

-----------------------------------------------------------------------------
(* Reading one list of symbols, then the next.                               *)
Onward(r, a, b) ==
  /\ Ahead(r, a) /\ Listed(a \o b)
  /\ \A r1 : Further(r, Len(a), r1) =>
       Ahead(r1, b) /\ \A r2 : Further(r1, Len(b), r2) => Further(r, Len(a \o b), r2)

LEMMA ReadsOnward ==
  ASSUME NEW r, NEW a, NEW b, Listed(a), Listed(b), Ahead(r, a \o b)
  PROVE  Onward(r, a, b)
<1> DEFINE c == a \o b
<1>1. Joins(a, b, c)
  BY ListedJoin
<1>2. Ahead(r, a) /\ \A r1 : Further(r, Len(a), r1) => Ahead(r1, b)
  BY AheadJoin
<1>3. r.at \in Nat
  BY DEF Ahead
<1> HIDE DEF c
<1>4. ASSUME NEW r1, Further(r, Len(a), r1), NEW r2, Further(r1, Len(b), r2)
      PROVE  Further(r, Len(c), r2)
  <2>1. Len(a) \in Nat /\ Len(b) \in Nat /\ Len(c) = Len(a) + Len(b)
    BY <1>1 DEF Joins
  <2>2. Further(r, Len(a) + Len(b), r2)
    BY <1>3, <1>4, <2>1, FurtherAdds
  <2> QED BY <2>1, <2>2
<1>5. Listed(c)
  BY <1>1 DEF Joins
<1> QED BY <1>2, <1>4, <1>5 DEF Onward, c

(* What a parser makes of a macroblock's symbols and what follows them.       *)
ReadBack(p, mb, rest) ==
  p.mb = Shown(mb, {}) /\ p.reader.ok = TRUE /\ Unread(p.reader) = rest

LEMMA FlagsSplit ==
  ASSUME NEW here, NEW mb, NEW x
  PROVE  SegmentSymbols(here, mb) \o <<Sym(<<"skip">>, mb.skip), x>> = PrefixSymbols(here, mb) \o <<x>>
<1> DEFINE k == Sym(<<"skip">>, mb.skip)
<1>1. Listed(SegmentSymbols(here, mb)) /\ Listed(<<k>>) /\ Listed(<<x>>)
  BY PrefixListed, ListedOne
<1>2. <<k, x>> = <<k>> \o <<x>>
  BY ListedTwo
<1> HIDE DEF k
<1> QED BY <1>1, <1>2, ListedAssociative, SMTT(30) DEF PrefixSymbols, k

(* A key frame's macroblock, legally chosen.                                  *)
KeyMacroblock(m, mb) ==
  /\ Prefixed(m, mb) /\ mb.mode = Intra /\ mb.info = Border
  /\ mb.y = "b" => mb.bmodes \in [0..15 -> BModes]
  /\ mb.y # "b" => mb.bmodes = <<>>

LEMMA ReadsKeyMacroblock ==
  ASSUME NEW m, NEW here, here.segmented = Segmented(m), NEW mb, KeyMacroblock(m, mb),
         NEW rest, Listed(rest)
  PROVE  /\ Listed(write_mode_layer(here, mb))
         /\ ReadBack(parse_key_frame_macroblock(m, here, write_mode_layer(here, mb) \o rest), mb, rest)
<1> DEFINE P == PrefixSymbols(here, mb)
           Y == <<Sym(<<"kf_y">>, mb.y)>>
           B == IF mb.y = "b" THEN BModeSymbols(here, mb.bmodes) ELSE <<>>
           U == <<Sym(<<"kf_uv">>, mb.uv)>>
           s == write_mode_layer(here, mb)
           queue == s \o rest
           r == Reader(queue)
           prefix == ReadPrefix(m, queue)
           y == Read(prefix.reader, <<"kf_y">>, "dc")
           subs == IF y.val = "b" THEN ReadBModes(here, y)[16] ELSE [reader |-> y, modes |-> <<>>]
           uv == Read(subs.reader, <<"kf_uv">>, "dc")
<1>1. Listed(P) /\ Listed(Y) /\ Listed(U) /\ Len(Y) = 1 /\ Len(U) = 1
  BY PrefixListed, ListedOne
<1>2. Listed(B) /\ Len(B) = IF mb.y = "b" THEN 16 ELSE 0
  <2> DEFINE t == BModeSymbols(here, mb.bmodes)
  <2>1. t = [i \in 1..16 |-> t[i]]
    BY DEF BModeSymbols
  <2>2. Listed(t) /\ Len(t) = 16
    <3> HIDE DEF t
    <3> QED BY <2>1, ListedIs
  <2>3. CASE mb.y = "b"
    <3>1. B = t
      BY <2>3
    <3> HIDE DEF B, t
    <3> QED BY <2>2, <2>3, <3>1
  <2>4. CASE mb.y # "b"
    <3>1. B = <<>>
      BY <2>4
    <3> HIDE DEF B
    <3> QED BY <2>4, <3>1, ListedNone
  <2> QED BY <2>3, <2>4
<1>3. s = ((P \o Y) \o B) \o U
  BY FlagsSplit DEF write_mode_layer, BModeSymbols
<1>4. Listed(P \o Y) /\ Listed((P \o Y) \o B) /\ Listed(s)
  <2> HIDE DEF P, Y, B, U, s
  <2> QED BY <1>1, <1>2, <1>3, ListedJoin DEF Joins
<1>5. Ahead(r, s) /\ \A r2 : Further(r, Len(s), r2) => Unread(r2) = rest
  <2> HIDE DEF s
  <2> QED BY <1>4, StartOfQueue
<1> HIDE DEF s, queue, r
<1>6. Onward(r, (P \o Y) \o B, U) /\ Onward(r, P \o Y, B) /\ Onward(r, P, Y)
  <2> HIDE DEF P, Y, B, U
  <2>1. Onward(r, (P \o Y) \o B, U)
    BY <1>1, <1>3, <1>4, <1>5, ReadsOnward
  <2>2. Onward(r, P \o Y, B)
    BY <1>2, <1>4, <2>1, ReadsOnward DEF Onward
  <2>3. Onward(r, P, Y)
    BY <1>1, <1>4, <2>2, ReadsOnward DEF Onward
  <2> QED BY <2>1, <2>2, <2>3
<1>7. prefix.segment = mb.segment /\ prefix.skip = mb.skip /\ prefix.q = mb.q
      /\ Further(r, Len(P), prefix.reader)
  BY <1>6, ReadsPrefix DEF KeyMacroblock, Onward, r
<1> HIDE DEF P, B, prefix
<1>8. y.val = mb.y /\ Further(r, Len(P \o Y), y)
  <2>1. Ahead(prefix.reader, Y)
    BY <1>6, <1>7 DEF Onward
  <2>2. y.val = mb.y /\ Further(prefix.reader, 1, y)
    BY <2>1, ReadsNext
  <2> HIDE DEF y, Y
  <2> QED BY <1>1, <1>6, <1>7, <2>2 DEF Onward
<1> HIDE DEF y, Y
<1>9. subs.modes = mb.bmodes /\ Further(r, Len((P \o Y) \o B), subs.reader)
  <2>1. Ahead(y, B)
    BY <1>6, <1>8 DEF Onward
  <2>2. CASE mb.y = "b"
    <3>1. mb.bmodes \in [0..15 -> BModes] /\ Ahead(y, BModeSymbols(here, mb.bmodes))
      BY <2>1, <2>2 DEF KeyMacroblock, B
    <3>2. subs.modes = mb.bmodes /\ Further(y, 16, subs.reader)
      BY <1>8, <2>2, <3>1, ReadsBModes
    <3> HIDE DEF subs
    <3> QED BY <1>2, <1>6, <1>8, <2>2, <3>2 DEF Onward
  <2>3. CASE mb.y # "b"
    <3>1. subs.reader = y /\ subs.modes = <<>>
      BY <1>8, <2>3
    <3>2. y.at \in Nat /\ y.ok = TRUE
      BY <2>1 DEF Ahead
    <3>3. Further(y, 0, y)
      BY <3>2 DEF Further
    <3> HIDE DEF subs
    <3> QED BY <1>2, <1>6, <1>8, <2>3, <3>1, <3>3 DEF Onward, KeyMacroblock
  <2> QED BY <2>2, <2>3
<1> HIDE DEF subs
<1>10. uv.val = mb.uv /\ Further(r, Len(s), uv)
  <2>1. Ahead(subs.reader, U)
    BY <1>6, <1>9 DEF Onward
  <2>2. uv.val = mb.uv /\ Further(subs.reader, 1, uv)
    BY <2>1, ReadsNext
  <2> HIDE DEF uv, U
  <2> QED BY <1>1, <1>3, <1>6, <1>9, <2>2 DEF Onward
<1>11. parse_key_frame_macroblock(m, here, queue) = Record(prefix, Intra, y.val, subs.modes, uv.val, Border, uv)
  BY DEF parse_key_frame_macroblock, prefix, y, subs, uv
<1> HIDE DEF uv
<1>12. ReadBack(parse_key_frame_macroblock(m, here, queue), mb, rest)
  BY <1>5, <1>7, <1>8, <1>9, <1>10, <1>11 DEF Record, ReadBack, Shown, KeyMacroblock, Further
<1> QED BY <1>4, <1>12 DEF queue, s

-----------------------------------------------------------------------------
(* Vectors.                                                                  *)
IntMv == [row : Int, col : Int]

LEMMA WrapsBack ==
  ASSUME NEW v \in Int16, NEW b \in Int
  PROVE  Wrap16(b + Wrap16(v - b)) = v
<1> DEFINE d == v - b
<1>0. v \in Int /\ v >= -32768 /\ v < 32768
  <2>1. Width16 \div 2 = 32768
    BY SMT DEF Width16
  <2> QED BY <2>1, SMT DEF Int16
<1>1. d \in Int /\ b + d = v /\ v \in Int /\ v >= -32768 /\ v < 32768
  BY <1>0
<1> HIDE DEF d
<1>2. Wrap16(b + Wrap16(d)) = ((b + (((d + 32768) % 65536) - 32768) + 32768) % 65536) - 32768
  BY SMT DEF Wrap16, Width16
<1>3. PICK k \in Int : (d + 32768) % 65536 = (d + 32768) - 65536 * k
  <2>1. (d + 32768) % 65536 = (d + 32768) - 65536 * ((d + 32768) \div 65536) /\ (d + 32768) \div 65536 \in Int
    BY <1>1, SMT
  <2> QED BY <2>1
<1>4. b + (((d + 32768) % 65536) - 32768) + 32768 = (v + 32768) - 65536 * k
  BY <1>1, <1>3, SMT
<1>5. ((v + 32768) - 65536 * k) % 65536 = v + 32768
  BY <1>1, <1>3, SMT
<1> QED BY <1>1, <1>2, <1>4, <1>5, SMT

LEMMA DifferenceAdds ==
  ASSUME NEW v \in Mv, NEW best \in IntMv
  PROVE  Plus(best, Minus(v, best)) = v
<1>1. v.row \in Int16 /\ v.col \in Int16 /\ best.row \in Int /\ best.col \in Int
  BY DEF Mv, IntMv
<1>2. Wrap16(best.row + Wrap16(v.row - best.row)) = v.row /\ Wrap16(best.col + Wrap16(v.col - best.col)) = v.col
  BY <1>1, WrapsBack
<1>3. v = [row |-> v.row, col |-> v.col]
  BY DEF Mv
<1> QED BY <1>2, <1>3 DEF Plus, Minus

LEMMA MvIsIntMv == Mv \subseteq IntMv /\ ZeroMv \in Mv
<1>1. Int16 \subseteq Int /\ 0 \in Int16
  BY SMT DEF Int16, Width16
<1> QED BY <1>1 DEF Mv, IntMv, ZeroMv

(* What a walk remembers of a macroblock of an interframe.                   *)
Known(info) == info.mv \in IntMv /\ info.split_mvs \in [0..15 -> IntMv]

LEMMA WholeKnown ==
  ASSUME NEW ref, NEW mv \in IntMv
  PROVE  Known(Whole(ref, mv))
BY DEF Known, Whole

LEMMA SplitKnown ==
  ASSUME NEW ref, NEW mvs \in [0..15 -> IntMv]
  PROVE  Known(SplitInto(ref, mvs))
BY DEF Known, SplitInto

LEMMA BorderKnown == Known(Border)
BY WholeKnown, MvIsIntMv DEF Border

CensusStates(n) == [mvs : [0..3 -> IntMv], idx : 0..n, cnt : [0..3 -> Int]]

LEMMA SurveyedTyped ==
  ASSUME NEW n \in 0..2, NEW s \in CensusStates(n), NEW nb, Known(nb), NEW weight \in Int, NEW ref
  PROVE  Surveyed(s, nb, weight, ref, NoBias) \in CensusStates(n + 1)
<1> DEFINE this == Biased(nb, ref, NoBias)
           fresh == nb.mv # ZeroMv /\ this # s.mvs[s.idx]
           idx == IF fresh THEN s.idx + 1 ELSE s.idx
           vote == IF nb.mv = ZeroMv THEN 0 ELSE idx
           mvs == IF fresh THEN [s.mvs EXCEPT ![idx] = this] ELSE s.mvs
           cnt == [s.cnt EXCEPT ![vote] = @ + weight]
<1>1. s.mvs \in [0..3 -> IntMv] /\ s.idx \in 0..n /\ s.cnt \in [0..3 -> Int]
  BY DEF CensusStates
<1>2. this = nb.mv /\ this \in IntMv
  BY DEF Biased, NoBias, Known
<1>3. fresh \in BOOLEAN
  OBVIOUS
<1> HIDE DEF this, fresh
<1>4. idx \in 0..n + 1 /\ vote \in 0..n + 1 /\ idx \in 0..3 /\ vote \in 0..3
  BY <1>1, <1>3
<1> HIDE DEF idx, vote
<1>5. mvs \in [0..3 -> IntMv]
  BY <1>1, <1>2, <1>3, <1>4
<1>6. cnt \in [0..3 -> Int]
  BY <1>1, <1>4
<1> HIDE DEF mvs, cnt
<1>7. CASE nb.ref = Intra
  <2>1. s.idx \in 0..n + 1
    BY <1>1
  <2>2. s = [mvs |-> s.mvs, idx |-> s.idx, cnt |-> s.cnt]
    BY DEF CensusStates
  <2>3. s \in CensusStates(n + 1)
    BY <1>1, <2>1, <2>2 DEF CensusStates
  <2> QED BY <1>7, <2>3 DEF Surveyed
<1>8. CASE nb.ref # Intra
  <2>1. Surveyed(s, nb, weight, ref, NoBias) = [mvs |-> mvs, idx |-> idx, cnt |-> cnt]
    BY <1>8 DEF Surveyed, mvs, idx, cnt, vote, fresh, this
  <2> QED BY <1>4, <1>5, <1>6, <2>1 DEF CensusStates
<1> QED BY <1>7, <1>8

LEMMA CensusTyped ==
  ASSUME NEW above, NEW left, NEW aboveleft, Known(above), Known(left), Known(aboveleft), NEW ref
  PROVE  find_near_mvs(above, left, aboveleft, ref, NoBias).mvs \in [0..3 -> IntMv]
<1> DEFINE s0 == NoneFound
           s1 == Surveyed(s0, above, 2, ref, NoBias)
           s2 == Surveyed(s1, left, 2, ref, NoBias)
           s3 == Surveyed(s2, aboveleft, 1, ref, NoBias)
           merged == Merged(s3)
           noted == [merged EXCEPT !.cnt[3] = SplitVotes(above, left, aboveleft)]
           ranked == Ranked(noted)
           best == BestFirst(ranked)
           Named(s) == s = [mvs |-> s.mvs, idx |-> s.idx, cnt |-> s.cnt] /\ s.mvs \in [0..3 -> IntMv]
<1>1. s0 \in CensusStates(0)
  BY MvIsIntMv DEF NoneFound, CensusStates
<1>2. s1 \in CensusStates(1)
  <2> HIDE DEF s0
  <2>1. s1 \in CensusStates(0 + 1)
    BY <1>1, SurveyedTyped
  <2> QED BY <2>1
<1>3. s2 \in CensusStates(2)
  <2> HIDE DEF s1
  <2>1. s2 \in CensusStates(1 + 1)
    BY <1>2, SurveyedTyped
  <2> QED BY <2>1
<1>4. s3 \in CensusStates(3)
  <2> HIDE DEF s2
  <2>1. s3 \in CensusStates(2 + 1)
    BY <1>3, SurveyedTyped
  <2> QED BY <2>1
<1> HIDE DEF s3
<1>5. Named(s3)
  BY <1>4 DEF CensusStates
<1>6. Named(merged)
  BY <1>5 DEF Merged
<1> HIDE DEF merged
<1>7. Named(noted)
  BY <1>6
<1> HIDE DEF noted
<1>8. Named(ranked)
  <2>1. CASE noted.cnt[2] > noted.cnt[1]
    <3> DEFINE m == noted.mvs  m2 == Swapped(m)  c2 == Swapped(noted.cnt)
    <3>1. m2 \in [0..3 -> IntMv]
      <4>1. m \in [0..3 -> IntMv]
        BY <1>7
      <4> HIDE DEF m
      <4> QED BY <4>1 DEF Swapped
    <3>2. ranked = [noted EXCEPT !.cnt = c2, !.mvs = m2]
      BY <2>1 DEF Ranked
    <3> HIDE DEF m2, c2
    <3>3. ranked = [mvs |-> m2, idx |-> noted.idx, cnt |-> c2]
      BY <1>7, <3>2
    <3> QED BY <3>1, <3>3
  <2>2. CASE ~(noted.cnt[2] > noted.cnt[1])
    BY <1>7, <2>2 DEF Ranked
  <2> QED BY <2>1, <2>2
<1> HIDE DEF ranked
<1>9. Named(best)
  BY <1>8 DEF BestFirst
<1> HIDE DEF best
<1>10. find_near_mvs(above, left, aboveleft, ref, NoBias) = best
  BY DEF find_near_mvs, SurveyedAll, best, ranked, noted, merged, s3, s2, s1, s0
<1> QED BY <1>9, <1>10

(* The neighbours of a place on an interframe.                               *)
KnownPlace(here) ==
  /\ Known(here.above) /\ Known(here.left) /\ Known(here.aboveleft)
  /\ here.row \in Int /\ here.col \in Int /\ here.rows \in Int /\ here.cols \in Int

LEMMA VectorsTyped ==
  ASSUME NEW here, KnownPlace(here), NEW ref
  PROVE  /\ BestHere(here, ref) \in IntMv
         /\ clamp_mv(Nearest(Near3(here, ref)), Bounds(here)) \in IntMv
         /\ clamp_mv(Near(Near3(here, ref)), Bounds(here)) \in IntMv
<1> DEFINE near == Near3(here, ref)
<1>1. near.mvs \in [0..3 -> IntMv]
  BY CensusTyped DEF Near3, KnownPlace
<1>2. Bounds(here) \in [to_left : Int, to_right : Int, to_top : Int, to_bottom : Int]
  BY DEF Bounds, MvClampRect, KnownPlace
<1> HIDE DEF near
<1>3. ASSUME NEW v \in IntMv PROVE clamp_mv(v, Bounds(here)) \in IntMv
  BY <1>2 DEF clamp_mv, Clamped, IntMv
<1>4. Best(near) \in IntMv /\ Nearest(near) \in IntMv /\ Near(near) \in IntMv
  BY <1>1 DEF Best, Nearest, Near
<1> QED BY <1>3, <1>4 DEF BestHere, near

-----------------------------------------------------------------------------
(* A macroblock of an interframe: its flags, its reference and its mode.      *)
InterFlag(mb) == <<Sym(<<"inter">>, mb.mode # Intra)>>
StartSymbols(here, mb) == PrefixSymbols(here, mb) \o InterFlag(mb)

Started(m, here, mb, queue, x) ==
  LET prefix == ReadPrefix(m, queue)
      inter == Read(prefix.reader, <<"inter">>, TRUE)
  IN /\ prefix.segment = mb.segment /\ prefix.skip = mb.skip /\ prefix.q = mb.q
     /\ inter.val = (mb.mode # Intra)
     /\ Ahead(inter, x)
     /\ \A r2 : Further(inter, Len(x), r2) =>
          Further(Reader(queue), Len(StartSymbols(here, mb) \o x), r2)

LEMMA ReadsStart ==
  ASSUME NEW m, NEW here, here.segmented = Segmented(m), NEW mb, Prefixed(m, mb), NEW queue,
         NEW x, Listed(x), Ahead(Reader(queue), StartSymbols(here, mb) \o x)
  PROVE  Started(m, here, mb, queue, x)
<1> DEFINE P == PrefixSymbols(here, mb)
           v == mb.mode # Intra
           I == <<Sym(<<"inter">>, v)>>
           r == Reader(queue)
           prefix == ReadPrefix(m, queue)
           inter == Read(prefix.reader, <<"inter">>, TRUE)
<1>1. Listed(P) /\ Listed(I) /\ Len(I) = 1
  BY PrefixListed, ListedOne
<1>2. Onward(r, P \o I, x) /\ Onward(r, P, I)
  <2>1. Ahead(r, (P \o I) \o x)
    BY DEF StartSymbols, InterFlag
  <2> HIDE DEF P, I, r
  <2>2. Listed(P \o I)
    BY <1>1, ListedJoin DEF Joins
  <2>3. Onward(r, P \o I, x)
    BY <2>1, <2>2, ReadsOnward
  <2> QED BY <1>1, <2>3, ReadsOnward DEF Onward
<1>3. prefix.segment = mb.segment /\ prefix.skip = mb.skip /\ prefix.q = mb.q
      /\ Further(r, Len(P), prefix.reader)
  BY <1>2, ReadsPrefix DEF Onward
<1> HIDE DEF P, prefix, v, r
<1>4. inter.val = v /\ Further(r, Len(P \o I), inter)
  <2>1. Ahead(prefix.reader, I)
    BY <1>2, <1>3 DEF Onward
  <2>2. inter.val = v /\ Further(prefix.reader, 1, inter)
    BY <2>1, ReadsNext
  <2> HIDE DEF inter, I
  <2> QED BY <1>1, <1>2, <1>3, <2>2 DEF Onward
<1> HIDE DEF inter, I
<1>5. Ahead(inter, x) /\ \A r2 : Further(inter, Len(x), r2) => Further(r, Len((P \o I) \o x), r2)
  BY <1>2, <1>4 DEF Onward
<1> QED BY <1>3, <1>4, <1>5 DEF StartSymbols, InterFlag, P, I, v, r, inter, prefix, Started

LEMMA InterSymbolsSplit ==
  ASSUME NEW here, NEW mb
  PROVE  write_inter_modes(here, mb)
           = StartSymbols(here, mb)
             \o (IF mb.mode = Intra THEN <<Sym(<<"if_y">>, mb.y), Sym(<<"if_uv">>, mb.uv)>>
                 ELSE InterSymbols(here, mb))
<1> DEFINE x == Sym(<<"inter">>, mb.mode # Intra)
<1>1. SegmentSymbols(here, mb) \o <<Sym(<<"skip">>, mb.skip), x>> = PrefixSymbols(here, mb) \o <<x>>
  BY FlagsSplit
<1> QED BY <1>1 DEF write_inter_modes, StartSymbols, InterFlag

LEMMA StartListed ==
  ASSUME NEW here, NEW mb
  PROVE  Listed(StartSymbols(here, mb))
BY PrefixListed, ListedOne, ListedJoin DEF StartSymbols, InterFlag, Joins

(* An intra macroblock of an interframe.                                     *)
IntraMacroblock(m, mb) == Prefixed(m, mb) /\ mb.mode = Intra /\ mb.info = Border /\ mb.bmodes = <<>>

LEMMA ReadsIntraMacroblock ==
  ASSUME NEW m, NEW here, here.segmented = Segmented(m), NEW mb, IntraMacroblock(m, mb),
         NEW rest, Listed(rest)
  PROVE  /\ Listed(write_inter_modes(here, mb))
         /\ ReadBack(parse_inter_frame_macroblock(m, here, write_inter_modes(here, mb) \o rest), mb, rest)
<1> DEFINE Y == <<Sym(<<"if_y">>, mb.y)>>
           U == <<Sym(<<"if_uv">>, mb.uv)>>
           s == write_inter_modes(here, mb)
           queue == s \o rest
           r == Reader(queue)
           prefix == ReadPrefix(m, queue)
           inter == Read(prefix.reader, <<"inter">>, TRUE)
           y == Read(inter, <<"if_y">>, "dc")
           uv == Read(y, <<"if_uv">>, "dc")
<1>1. Listed(Y) /\ Listed(U) /\ Len(Y) = 1 /\ Len(U) = 1
  BY ListedOne
<1>2. s = StartSymbols(here, mb) \o (Y \o U)
  BY InterSymbolsSplit, ListedTwo DEF IntraMacroblock
<1>3. Listed(Y \o U) /\ Listed(s)
  <2> HIDE DEF Y, U, s
  <2>1. Listed(Y \o U)
    BY <1>1, ListedJoin DEF Joins
  <2> QED BY <1>2, <2>1, StartListed, ListedJoin DEF Joins
<1>4. Ahead(r, s) /\ \A r2 : Further(r, Len(s), r2) => Unread(r2) = rest
  <2> HIDE DEF s
  <2> QED BY <1>3, StartOfQueue
<1> HIDE DEF s, queue
<1>5. /\ prefix.segment = mb.segment /\ prefix.skip = mb.skip /\ prefix.q = mb.q
      /\ inter.val = FALSE
      /\ Ahead(inter, Y \o U)
      /\ \A r2 : Further(inter, Len(Y \o U), r2) => Further(r, Len(s), r2)
  <2> HIDE DEF Y, U
  <2>1. Prefixed(m, mb) /\ mb.mode = Intra
    BY DEF IntraMacroblock
  <2> DEFINE x == Y \o U
  <2>2. Ahead(Reader(queue), StartSymbols(here, mb) \o x) /\ Listed(x)
    BY <1>2, <1>3, <1>4
  <2> HIDE DEF x
  <2>3. Started(m, here, mb, queue, x)
    BY <2>1, <2>2, ReadsStart
  <2> QED BY <1>2, <2>1, <2>3 DEF x, Started
<1> HIDE DEF r, prefix, inter
<1>6. Onward(inter, Y, U)
  <2> HIDE DEF Y, U
  <2> QED BY <1>1, <1>5, ReadsOnward
<1>7. y.val = mb.y /\ Further(inter, Len(Y), y)
  BY <1>1, <1>6, ReadsNext DEF Onward
<1> HIDE DEF y
<1>8. uv.val = mb.uv /\ Further(y, Len(U), uv)
  BY <1>1, <1>6, <1>7, ReadsNext DEF Onward
<1> HIDE DEF uv
<1>9. Further(r, Len(s), uv)
  <2> HIDE DEF Y, U
  <2> QED BY <1>5, <1>6, <1>7, <1>8 DEF Onward
<1>10. parse_inter_frame_macroblock(m, here, queue) = Record(prefix, Intra, y.val, <<>>, uv.val, Border, uv)
  BY <1>5 DEF parse_inter_frame_macroblock, parse_inter_frame_intra_macroblock_modes, prefix, inter, y, uv
<1>11. ReadBack(parse_inter_frame_macroblock(m, here, queue), mb, rest)
  BY <1>4, <1>5, <1>7, <1>8, <1>9, <1>10 DEF Record, ReadBack, Shown, IntraMacroblock, Further
<1> QED BY <1>3, <1>11 DEF queue, s

(* What an inter macroblock codes after its reference and its mode.           *)
AfterMode(here, mb) ==
  IF mb.mode = "new" THEN <<Sym(<<"mv">>, Minus(mb.info.mv, BestHere(here, mb.info.ref)))>>
  ELSE IF mb.mode = "split" THEN SplitSymbols(here, mb) ELSE <<>>
InterPair(here, mb) ==
  <<Sym(<<"ref">>, mb.info.ref), Sym(ModeContext(Near3(here, mb.info.ref)), mb.mode)>>

Paired(here, mb, reader) ==
  LET ref == Read(reader, <<"ref">>, "last")
      mode == Read(ref, ModeContext(Near3(here, mb.info.ref)), "zero")
  IN /\ ref.val = mb.info.ref /\ mode.val = mb.mode
     /\ Ahead(mode, AfterMode(here, mb))
     /\ \A r2 : Further(mode, Len(AfterMode(here, mb)), r2) =>
          Further(reader, Len(InterSymbols(here, mb)), r2)

LEMMA ReadsPair ==
  ASSUME NEW here, NEW mb, NEW reader, Listed(AfterMode(here, mb)), Ahead(reader, InterSymbols(here, mb))
  PROVE  Paired(here, mb, reader)
<1> DEFINE R == <<Sym(<<"ref">>, mb.info.ref)>>
           c == ModeContext(Near3(here, mb.info.ref))
           M == <<Sym(c, mb.mode)>>
           D == AfterMode(here, mb)
           s == InterSymbols(here, mb)
           ref == Read(reader, <<"ref">>, "last")
           mode == Read(ref, c, "zero")
<1>1. Listed(R) /\ Listed(M) /\ Len(R) = 1 /\ Len(M) = 1
  BY ListedOne
<1>2. s = (R \o M) \o D
  BY ListedTwo DEF InterSymbols, AfterMode
<1> HIDE DEF c, D, s
<1>3. Onward(reader, R \o M, D) /\ Onward(reader, R, M)
  <2> HIDE DEF R, M
  <2>1. Listed(R \o M) /\ Listed(D)
    BY <1>1, ListedJoin DEF Joins, D
  <2>2. Ahead(reader, (R \o M) \o D)
    BY <1>2 DEF s
  <2>3. Onward(reader, R \o M, D)
    BY <2>1, <2>2, ReadsOnward
  <2> QED BY <1>1, <2>3, ReadsOnward DEF Onward
<1>4. ref.val = mb.info.ref /\ Further(reader, Len(R), ref)
  BY <1>1, <1>3, ReadsNext DEF Onward
<1> HIDE DEF ref
<1>5. mode.val = mb.mode /\ Further(ref, Len(M), mode)
  BY <1>1, <1>3, <1>4, ReadsNext DEF Onward
<1> HIDE DEF mode
<1>6. Ahead(mode, D) /\ \A r2 : Further(mode, Len(D), r2) => Further(reader, Len(s), r2)
  <2> HIDE DEF R, M
  <2>1. Further(reader, Len(R \o M), mode)
    BY <1>3, <1>4, <1>5 DEF Onward
  <2> QED BY <1>2, <1>3, <2>1 DEF Onward
<1> QED BY <1>4, <1>5, <1>6 DEF mode, ref, c, D, s, Paired

(* An inter macroblock with one vector.                                      *)
WholeVector(here, mb) ==
  LET ref == mb.info.ref
  IN CASE mb.mode = "zero"    -> mb.info.mv = ZeroMv
       [] mb.mode = "nearest" -> mb.info.mv = clamp_mv(Nearest(Near3(here, ref)), Bounds(here))
       [] mb.mode = "near"    -> mb.info.mv = clamp_mv(Near(Near3(here, ref)), Bounds(here))
       [] mb.mode = "new"     -> mb.info.mv \in Mv
WholeMacroblock(m, here, mb) ==
  /\ Prefixed(m, mb) /\ mb.mode \in {"zero", "nearest", "near", "new"}
  /\ mb.y = "dc" /\ mb.uv = "dc" /\ mb.bmodes = <<>>
  /\ mb.info = Whole(mb.info.ref, mb.info.mv) /\ WholeVector(here, mb)

(* The reader left after the mode, and the vector it gives.                  *)
Resolves(here, mb, mode) ==
  LET diff == Read(mode, <<"mv">>, ZeroMv)
  IN IF mb.mode = "new"
     THEN Plus(BestHere(here, mb.info.ref), diff.val) = mb.info.mv
          /\ Further(mode, Len(AfterMode(here, mb)), diff)
     ELSE Further(mode, Len(AfterMode(here, mb)), mode)

LEMMA ResolvesVector ==
  ASSUME NEW m, NEW here, KnownPlace(here), NEW mb, WholeMacroblock(m, here, mb),
         NEW mode, Ahead(mode, AfterMode(here, mb))
  PROVE  Resolves(here, mb, mode)
<1> DEFINE D == AfterMode(here, mb)
           best == BestHere(here, mb.info.ref)
           v == Minus(mb.info.mv, best)
           diff == Read(mode, <<"mv">>, ZeroMv)
<1>1. CASE mb.mode = "new"
  <2>1. D = <<Sym(<<"mv">>, v)>> /\ Len(D) = 1
    BY <1>1, ListedOne DEF AfterMode
  <2>2. best \in IntMv /\ mb.info.mv \in Mv
    BY <1>1, VectorsTyped DEF WholeMacroblock, WholeVector
  <2> HIDE DEF best
  <2>3. Plus(best, v) = mb.info.mv
    BY <2>2, DifferenceAdds
  <2> HIDE DEF v, D
  <2>4. Ahead(mode, <<Sym(<<"mv">>, v)>>)
    BY <2>1 DEF D
  <2>5. diff.val = v /\ Further(mode, 1, diff)
    BY <2>4, ReadsNext
  <2> QED BY <1>1, <2>1, <2>3, <2>5 DEF Resolves, best, D
<1>2. CASE mb.mode # "new"
  <2>1. D = <<>> /\ Len(D) = 0
    BY <1>2, ListedNone DEF AfterMode, WholeMacroblock
  <2>2. mode.at \in Nat /\ mode.ok = TRUE
    BY DEF Ahead
  <2>3. Further(mode, 0, mode)
    BY <2>2 DEF Further
  <2> QED BY <1>2, <2>1, <2>3 DEF Resolves
<1> QED BY <1>1, <1>2

LEMMA WholeAfterMode ==
  ASSUME NEW m, NEW here, NEW mb, WholeMacroblock(m, here, mb)
  PROVE  Listed(AfterMode(here, mb)) /\ mb.mode # Intra /\ mb.mode # "split"
BY ListedOne, ListedNone DEF AfterMode, WholeMacroblock, Intra

LEMMA InterSymbolsListed ==
  ASSUME NEW here, NEW mb, Listed(AfterMode(here, mb)), mb.mode # Intra
  PROVE  /\ Listed(InterSymbols(here, mb)) /\ Listed(write_inter_modes(here, mb))
         /\ write_inter_modes(here, mb) = StartSymbols(here, mb) \o InterSymbols(here, mb)
<1> DEFINE R == Sym(<<"ref">>, mb.info.ref)
           M == Sym(ModeContext(Near3(here, mb.info.ref)), mb.mode)
           D == AfterMode(here, mb)
           s == InterSymbols(here, mb)
<1>1. s = <<R, M>> \o D
  BY DEF InterSymbols, AfterMode
<1> HIDE DEF R, M, D, s
<1>2. Listed(<<R, M>>)
  <2> DEFINE a == <<R>>  b == <<M>>  c == <<R, M>>
  <2>1. c = a \o b /\ Listed(a) /\ Listed(b)
    BY ListedTwo, ListedOne
  <2> HIDE DEF a, b, c
  <2>2. Joins(a, b, c)
    BY <2>1, ListedJoin
  <2>3. Listed(c)
    BY <2>2 DEF Joins
  <2> QED BY <2>3 DEF c
<1>3. Listed(s)
  BY <1>1, <1>2, ListedJoin DEF Joins, D
<1>4. write_inter_modes(here, mb) = StartSymbols(here, mb) \o s
  BY InterSymbolsSplit DEF s
<1>5. Listed(StartSymbols(here, mb) \o s)
  BY <1>3, StartListed, ListedJoin DEF Joins
<1> QED BY <1>3, <1>4, <1>5 DEF s

(* What the flags, the reference and the mode of an inter macroblock are      *)
(* read as, and the symbols then still to come.                              *)
InterRead(m, here, mb, queue, rest) ==
  LET prefix == ReadPrefix(m, queue)
      inter == Read(prefix.reader, <<"inter">>, TRUE)
      ref == Read(inter, <<"ref">>, "last")
      mode == Read(ref, ModeContext(Near3(here, mb.info.ref)), "zero")
  IN /\ prefix.segment = mb.segment /\ prefix.skip = mb.skip /\ prefix.q = mb.q
     /\ inter.val = TRUE /\ ref.val = mb.info.ref /\ mode.val = mb.mode
     /\ Ahead(mode, AfterMode(here, mb))
     /\ \A r2 : Further(mode, Len(AfterMode(here, mb)), r2) => r2.ok = TRUE /\ Unread(r2) = rest

LEMMA ReadsInter ==
  ASSUME NEW m, NEW here, here.segmented = Segmented(m), NEW mb, Prefixed(m, mb), mb.mode # Intra,
         Listed(AfterMode(here, mb)), NEW rest, Listed(rest)
  PROVE  InterRead(m, here, mb, write_inter_modes(here, mb) \o rest, rest)
<1> DEFINE s == write_inter_modes(here, mb)
           x == InterSymbols(here, mb)
           queue == s \o rest
           prefix == ReadPrefix(m, queue)
           inter == Read(prefix.reader, <<"inter">>, TRUE)
           ref == Read(inter, <<"ref">>, "last")
           mode == Read(ref, ModeContext(Near3(here, mb.info.ref)), "zero")
           D == AfterMode(here, mb)
<1>1. Listed(x) /\ Listed(s) /\ s = StartSymbols(here, mb) \o x
  BY InterSymbolsListed
<1> HIDE DEF s
<1>2. Ahead(Reader(queue), s) /\ \A r2 : Further(Reader(queue), Len(s), r2) => Unread(r2) = rest
  BY <1>1, StartOfQueue
<1> HIDE DEF queue, x
<1>3. Started(m, here, mb, queue, x)
  BY <1>1, <1>2, ReadsStart
<1>4. /\ prefix.segment = mb.segment /\ prefix.skip = mb.skip /\ prefix.q = mb.q
      /\ inter.val = (mb.mode # Intra) /\ Ahead(inter, x)
      /\ \A r2 : Further(inter, Len(x), r2) => Further(Reader(queue), Len(s), r2)
  BY <1>1, <1>3 DEF Started
<1> HIDE DEF prefix, inter
<1>5. Paired(here, mb, inter)
  BY <1>4, ReadsPair DEF x
<1>6. /\ ref.val = mb.info.ref /\ mode.val = mb.mode /\ Ahead(mode, D)
      /\ \A r2 : Further(mode, Len(D), r2) => Further(inter, Len(x), r2)
  BY <1>5 DEF Paired, x
<1> HIDE DEF ref, mode, D
<1>7. \A r2 : Further(mode, Len(D), r2) => r2.ok = TRUE /\ Unread(r2) = rest
  BY <1>2, <1>4, <1>6 DEF Further
<1>8. inter.val = TRUE
  BY <1>4
<1> QED BY <1>4, <1>6, <1>7, <1>8 DEF InterRead, prefix, inter, ref, mode, D, queue, s

(* The public readers, given a macroblock of an interframe.                  *)
PublicReads(m, here, mb, queue) ==
  LET inter == Read(ReadPrefix(m, queue).reader, <<"inter">>, TRUE)
      reader == Read(inter, <<"ref">>, "last")
  IN [refused |-> FALSE, info |-> mb.info]
       = IF mb.mode = "split" THEN decode_split_mv_mb(here, mb.info.ref, reader)
         ELSE decode_inter_mb(here, mb.info.ref, reader)

LEMMA ReadsWholeMacroblock ==
  ASSUME NEW m, NEW here, here.segmented = Segmented(m), KnownPlace(here), NEW mb,
         WholeMacroblock(m, here, mb), NEW rest, Listed(rest)
  PROVE  /\ ReadBack(parse_inter_frame_macroblock(m, here, write_inter_modes(here, mb) \o rest), mb, rest)
         /\ PublicReads(m, here, mb, write_inter_modes(here, mb) \o rest)
<1> DEFINE queue == write_inter_modes(here, mb) \o rest
           prefix == ReadPrefix(m, queue)
           inter == Read(prefix.reader, <<"inter">>, TRUE)
           ref == Read(inter, <<"ref">>, "last")
           near == Near3(here, mb.info.ref)
           best == BestHere(here, mb.info.ref)
           mode == Read(ref, ModeContext(near), "zero")
           diff == Read(mode, <<"mv">>, ZeroMv)
           last == IF mb.mode = "new" THEN diff ELSE mode
           D == AfterMode(here, mb)
<1>1. Listed(D) /\ mb.mode # Intra /\ mb.mode # "split" /\ Prefixed(m, mb)
  BY WholeAfterMode DEF WholeMacroblock
<1>2. InterRead(m, here, mb, queue, rest)
  BY <1>1, ReadsInter
<1> HIDE DEF queue
<1>3. /\ prefix.segment = mb.segment /\ prefix.skip = mb.skip /\ prefix.q = mb.q
      /\ inter.val = TRUE /\ ref.val = mb.info.ref /\ mode.val = mb.mode /\ Ahead(mode, D)
      /\ \A r2 : Further(mode, Len(D), r2) => r2.ok = TRUE /\ Unread(r2) = rest
  BY <1>2 DEF InterRead
<1>4. Resolves(here, mb, mode)
  BY <1>3, ResolvesVector
<1>5. /\ Further(mode, Len(D), last)
      /\ mb.mode = "new" => Plus(best, diff.val) = mb.info.mv
  BY <1>4 DEF Resolves
<1>6. last.ok = TRUE /\ Unread(last) = rest
  <2> HIDE DEF last, mode
  <2> QED BY <1>3, <1>5
<1>7. parse_inter_frame_macroblock(m, here, queue) = parse_inter_macroblock(here, prefix, inter)
  BY <1>3 DEF parse_inter_frame_macroblock, prefix, inter
<1> HIDE DEF prefix, inter
<1>8. parse_inter_macroblock(here, prefix, inter)
        = Record(prefix, mb.mode, "dc", <<>>, "dc", Whole(mb.info.ref, mb.info.mv), last)
  <2>1. parse_inter_macroblock(here, prefix, inter)
          = CASE mb.mode = "zero" -> Record(prefix, mb.mode, "dc", <<>>, "dc", Whole(mb.info.ref, ZeroMv), mode)
              [] mb.mode = "nearest" ->
                   Record(prefix, mb.mode, "dc", <<>>, "dc",
                          Whole(mb.info.ref, clamp_mv(Nearest(near), Bounds(here))), mode)
              [] mb.mode = "near" ->
                   Record(prefix, mb.mode, "dc", <<>>, "dc",
                          Whole(mb.info.ref, clamp_mv(Near(near), Bounds(here))), mode)
              [] mb.mode = "new" ->
                   Record(prefix, mb.mode, "dc", <<>>, "dc", Whole(mb.info.ref, Plus(best, diff.val)), diff)
              [] mb.mode = "split" -> parse_inter_macroblock(here, prefix, inter)
    BY <1>1, <1>3 DEF parse_inter_macroblock, WholeMacroblock
  <2> HIDE DEF mode, diff, best, near
  <2> QED BY <1>1, <1>5, <2>1 DEF WholeMacroblock, WholeVector, near, last
<1>9. ReadBack(parse_inter_frame_macroblock(m, here, queue), mb, rest)
  <2> DEFINE p == parse_inter_frame_macroblock(m, here, queue)
  <2> HIDE DEF last, p
  <2>1. p = Record(prefix, mb.mode, "dc", <<>>, "dc", mb.info, last)
    BY <1>7, <1>8 DEF p, WholeMacroblock
  <2>2. p.reader = last
    BY <2>1 DEF Record
  <2>3. p.mb = Shown(mb, {})
    BY <1>3, <2>1 DEF Record, Shown, WholeMacroblock
  <2> QED BY <1>6, <2>2, <2>3 DEF ReadBack, p
<1>10. resolve_inter_mb_mv(here, mb.info.ref, ref) = [split |-> FALSE, mv |-> mb.info.mv, reader |-> last]
  <2> HIDE DEF ref
  <2>1. resolve_inter_mb_mv(here, mb.info.ref, ref)
          = CASE mb.mode = "zero" -> [split |-> FALSE, mv |-> ZeroMv, reader |-> mode]
              [] mb.mode = "nearest" ->
                   [split |-> FALSE, mv |-> clamp_mv(Nearest(near), Bounds(here)), reader |-> mode]
              [] mb.mode = "near" ->
                   [split |-> FALSE, mv |-> clamp_mv(Near(near), Bounds(here)), reader |-> mode]
              [] mb.mode = "new" -> [split |-> FALSE, mv |-> Plus(best, diff.val), reader |-> diff]
              [] mb.mode = "split" -> [split |-> TRUE, mv |-> best, reader |-> mode]
    BY <1>3 DEF resolve_inter_mb_mv
  <2> HIDE DEF mode, diff, best, near
  <2> QED BY <1>1, <1>5, <2>1 DEF WholeMacroblock, WholeVector, near, last
<1>11. decode_inter_mb(here, mb.info.ref, ref) = [refused |-> FALSE, info |-> Whole(mb.info.ref, mb.info.mv)]
  <2> HIDE DEF ref, last
  <2>1. ~resolve_inter_mb_mv(here, mb.info.ref, ref).split
        /\ resolve_inter_mb_mv(here, mb.info.ref, ref).mv = mb.info.mv
    BY <1>10
  <2> QED BY <2>1 DEF decode_inter_mb
<1>12. PublicReads(m, here, mb, queue)
  BY <1>1, <1>11 DEF WholeMacroblock, PublicReads, prefix, inter, ref
<1> QED BY <1>9, <1>12 DEF queue

-----------------------------------------------------------------------------
(* Lists of lists, one after the other: F[i] is the first i of them.          *)
PrefixesOf(F, n, parts) ==
  /\ F[0] = <<>> /\ \A i \in 1..n : F[i] = F[i - 1] \o parts[i]
  /\ \A i \in 0..n : Listed(F[i])

LEMMA ListedOver ==
  ASSUME NEW s, Listed(s), NEW U, \A k \in 1..Len(s) : s[k] \in U
  PROVE  s \in Seq(U)
<1>1. Len(s) \in Nat /\ s = [i \in 1..Len(s) |-> s[i]]
  BY ListedFacts
<1> DEFINE n == Len(s)
<1> HIDE DEF n
<1>2. s \in [1..n -> U] /\ n \in Nat
  BY <1>1 DEF n
<1> QED BY <1>2

LEMMA PrefixesExist ==
  ASSUME NEW n \in Nat, NEW parts, \A i \in 1..n : Listed(parts[i])
  PROVE  \E F : PrefixesOf(F, n, parts)
<1> DEFINE U == UNION { {parts[i][k] : k \in 1..Len(parts[i])} : i \in 1..n }
           X == Seq(U)
           step == [x \in (1..n) \X X |-> x[2] \o parts[x[1]]]
<1>1. \A i \in 1..n : parts[i] \in X
  <2> SUFFICES ASSUME NEW i \in 1..n PROVE parts[i] \in X
    OBVIOUS
  <2>1. \A k \in 1..Len(parts[i]) : parts[i][k] \in U
    OBVIOUS
  <2> HIDE DEF U
  <2> QED BY <2>1, ListedOver
<1>2. <<>> \in X
  <2> HIDE DEF U
  <2> QED BY EmptySeq
<1>3. \A i \in 1..n, s \in X : s \o parts[i] \in X
  <2> HIDE DEF U
  <2> QED BY <1>1, ConcatProperties
<1>4. \A i \in 1..n, s \in X : step[<<i, s>>] = s \o parts[i]
  <2> HIDE DEF X
  <2> QED OBVIOUS
<1>5. \A s \in X : Listed(s)
  BY DEF Listed
<1> HIDE DEF X, step
<1>6. PICK f : StepsFrom(f, n, X, <<>>, step)
  <2>1. \A i \in 1..n, s \in X : step[<<i, s>>] \in X
    BY <1>3, <1>4
  <2> QED BY <1>2, <2>1, StepByStep
<1>7. f \in [0..n -> X] /\ f[0] = <<>>
  BY <1>6 DEF StepsFrom
<1>8. ASSUME NEW i \in 1..n PROVE f[i] = f[i - 1] \o parts[i]
  <2>1. i - 1 \in 0..n
    OBVIOUS
  <2>2. f[i] = step[<<i, f[i - 1]>>] /\ f[i - 1] \in X
    BY <1>6, <1>7, <2>1 DEF StepsFrom
  <2> QED BY <1>4, <2>2
<1>9. PrefixesOf(f, n, parts)
  BY <1>5, <1>7, <1>8 DEF PrefixesOf
<1> QED BY <1>9

LEMMA Flattening ==
  ASSUME NEW n \in Nat \ {0}, NEW parts, parts = [i \in 1..n |-> parts[i]], NEW F, PrefixesOf(F, n, parts),
         Listed(parts[1])
  PROVE  FlattenSeq(parts) = F[n]
<1> DEFINE G == [i \in 1..n |-> F[i]]
           Rule(f) == f = [i \in 1..n |-> IF i = 1 THEN parts[i] ELSE f[i - 1] \o parts[i]]
           K == CHOOSE f : Rule(f)
           S == {i \in Nat : i + 1 <= n => K[i + 1] = F[i + 1]}
<1>1. Len(parts) = n
  BY ListedIs
<1>2. FlattenSeq(parts) = K[n]
  BY <1>1 DEF FlattenSeq
<1>3. F[1] = parts[1]
  <2>1. 1 \in 1..n /\ 1 - 1 = 0
    OBVIOUS
  <2>2. F[1] = <<>> \o parts[1]
    BY <2>1 DEF PrefixesOf
  <2> QED BY <2>2, ListedEmptyJoin
<1>4. Rule(G)
  <2>1. ASSUME NEW i \in 1..n PROVE G[i] = IF i = 1 THEN parts[i] ELSE G[i - 1] \o parts[i]
    <3>1. CASE i = 1
      BY <1>3, <3>1
    <3>2. CASE i # 1
      <4>1. i - 1 \in 1..n /\ F[i] = F[i - 1] \o parts[i]
        BY <3>2 DEF PrefixesOf
      <4> QED BY <3>2, <4>1
    <3> QED BY <3>1, <3>2
  <2>2. G = [i \in 1..n |-> G[i]]
    OBVIOUS
  <2> HIDE DEF G
  <2> QED BY <2>1, <2>2
<1>5. Rule(K)
  <2> HIDE DEF Rule, G
  <2> QED BY <1>4
<1> HIDE DEF K
<1>6. K[1] = parts[1] /\ \A i \in 1..n : i # 1 => K[i] = K[i - 1] \o parts[i]
  <2>1. 1 \in 1..n
    OBVIOUS
  <2> QED BY <1>5, <2>1
<1>7. 0 \in S
  BY <1>3, <1>6
<1>8. ASSUME NEW i \in Nat, i \in S PROVE i + 1 \in S
  <2> SUFFICES ASSUME (i + 1) + 1 <= n PROVE K[(i + 1) + 1] = F[(i + 1) + 1]
    OBVIOUS
  <2> DEFINE j == (i + 1) + 1
  <2>1. j \in 1..n /\ j # 1 /\ j - 1 = i + 1 /\ K[i + 1] = F[i + 1]
    BY <1>8
  <2> HIDE DEF j
  <2>2. K[j] = K[j - 1] \o parts[j] /\ F[j] = F[j - 1] \o parts[j]
    BY <1>6, <2>1 DEF PrefixesOf
  <2>3. K[j] = F[j]
    BY <2>1, <2>2
  <2> QED BY <2>3 DEF j
<1>9. \A i \in Nat : i \in S
  <2> HIDE DEF S
  <2> QED BY <1>7, <1>8, NaturalInduction
<1>10. n - 1 \in S /\ (n - 1) + 1 = n
  <2>1. n - 1 \in Nat
    OBVIOUS
  <2> QED BY <1>9, <2>1
<1> QED BY <1>2, <1>10

LEMMA PrefixAhead ==
  ASSUME NEW n \in Nat, NEW parts, NEW F, PrefixesOf(F, n, parts), \A i \in 1..n : Listed(parts[i]),
         NEW r, Ahead(r, F[n])
  PROVE  \A i \in 1..n : Onward(r, F[i - 1], parts[i])
<1> DEFINE S == {j \in Nat : j <= n => Ahead(r, F[n - j])}
<1>1. 0 \in S
  <2>1. n - 0 = n
    OBVIOUS
  <2> QED BY <2>1
<1>2. ASSUME NEW j \in Nat, j \in S PROVE j + 1 \in S
  <2> SUFFICES ASSUME j + 1 <= n PROVE Ahead(r, F[n - (j + 1)])
    OBVIOUS
  <2> DEFINE i == n - j
  <2>1. i \in 1..n /\ i - 1 = n - (j + 1) /\ Ahead(r, F[i]) /\ i - 1 \in 0..n
    BY <1>2
  <2> HIDE DEF i
  <2>2. F[i] = F[i - 1] \o parts[i] /\ Listed(F[i - 1]) /\ Listed(parts[i])
    BY <2>1 DEF PrefixesOf
  <2>3. Ahead(r, F[i - 1])
    BY <2>1, <2>2, AheadJoin
  <2> QED BY <2>1, <2>3
<1>3. \A j \in Nat : j \in S
  <2> HIDE DEF S
  <2> QED BY <1>1, <1>2, NaturalInduction
<1>4. ASSUME NEW i \in 1..n PROVE Onward(r, F[i - 1], parts[i])
  <2>1. n - i \in Nat /\ n - (n - i) = i /\ n - i <= n /\ i - 1 \in 0..n
    OBVIOUS
  <2>2. n - i \in S
    BY <1>3, <2>1
  <2>3. Ahead(r, F[i])
    BY <2>1, <2>2
  <2> QED BY <2>1, <2>3, ReadsOnward DEF PrefixesOf
<1> QED BY <1>4

-----------------------------------------------------------------------------
(* The groups of a split macroblock.                                         *)
GroupsAre(layout, n) ==
  /\ n \in Nat \ {0} /\ Groups(layout) = 0..n - 1 /\ Cardinality(Groups(layout)) = n
  /\ \A b \in 0..15 : Group(layout, b) \in 0..n - 1

LEMMA GroupsFrom0 ==
  ASSUME NEW layout, NEW n \in Nat \ {0}, \A b \in 0..15 : Group(layout, b) \in 0..n - 1,
         \A g \in 0..n - 1 : \E b \in 0..15 : Group(layout, b) = g
  PROVE  GroupsAre(layout, n)
<1>1. Groups(layout) = 0..n - 1
  BY DEF Groups
<1>2. Cardinality(0..n - 1) = n
  <2>1. 0 \in Int /\ n - 1 \in Int /\ ~(0 > n - 1) /\ (n - 1) - 0 + 1 = n
    OBVIOUS
  <2> DEFINE z == n - 1
  <2> HIDE DEF z
  <2>2. Cardinality(0..z) = z - 0 + 1
    BY <2>1, FS_Interval DEF z
  <2> QED BY <2>1, <2>2 DEF z
<1> QED BY <1>1, <1>2 DEF GroupsAre

LEMMA GroupsUpTo ==
  ASSUME NEW layout, NEW n \in Nat \ {0}, NEW z, z = n - 1, \A b \in 0..15 : Group(layout, b) \in 0..z,
         \A g \in 0..z : \E b \in 0..15 : Group(layout, b) = g
  PROVE  \E k : GroupsAre(layout, k)
<1>1. GroupsAre(layout, n)
  BY GroupsFrom0
<1> QED BY <1>1

LEMMA LayoutGroups ==
  ASSUME NEW layout \in Layouts
  PROVE  \E k : GroupsAre(layout, k)
<1>1. CASE layout = "top_bottom"
  <2>1. \A b \in 0..15 : Group(layout, b) \in 0..1
    BY <1>1, SMT DEF Group
  <2>2. \A g \in 0..1 : \E b \in 0..15 : Group(layout, b) = g
    <3>1. Group(layout, 0) = 0 /\ Group(layout, 8) = 1
      BY <1>1, SMT DEF Group
    <3> QED BY <3>1
  <2>3. 2 \in Nat \ {0} /\ 1 = 2 - 1
    OBVIOUS
  <2> QED BY <2>1, <2>2, <2>3, GroupsUpTo, Zenon
<1>2. CASE layout = "left_right"
  <2>1. \A b \in 0..15 : Group(layout, b) \in 0..1
    BY <1>2, SMT DEF Group
  <2>2. \A g \in 0..1 : \E b \in 0..15 : Group(layout, b) = g
    <3>1. Group(layout, 0) = 0 /\ Group(layout, 2) = 1
      BY <1>2, SMT DEF Group
    <3> QED BY <3>1
  <2>3. 2 \in Nat \ {0} /\ 1 = 2 - 1
    OBVIOUS
  <2> QED BY <2>1, <2>2, <2>3, GroupsUpTo, Zenon
<1>3. CASE layout = "quarters"
  <2>1. \A b \in 0..15 : Group(layout, b) \in 0..3
    BY <1>3, SMT DEF Group
  <2>2. \A g \in 0..3 : \E b \in 0..15 : Group(layout, b) = g
    <3>1. Group(layout, 0) = 0 /\ Group(layout, 2) = 1 /\ Group(layout, 8) = 2 /\ Group(layout, 10) = 3
      BY <1>3, SMT DEF Group
    <3> QED BY <3>1
  <2>3. 4 \in Nat \ {0} /\ 3 = 4 - 1
    OBVIOUS
  <2> QED BY <2>1, <2>2, <2>3, GroupsUpTo, Zenon
<1>4. CASE layout = "mv16"
  <2>1. \A b \in 0..15 : Group(layout, b) = b
    BY <1>4, SMT DEF Group
  <2>2. \A g \in 0..15 : \E b \in 0..15 : Group(layout, b) = g
    BY <2>1
  <2>3. \A b \in 0..15 : Group(layout, b) \in 0..15
    BY <2>1
  <2>4. 16 \in Nat \ {0} /\ 15 = 16 - 1
    OBVIOUS
  <2> QED BY <2>2, <2>3, <2>4, GroupsUpTo, Zenon
<1> QED BY <1>1, <1>2, <1>3, <1>4 DEF Layouts

LEMMA AnchorInside ==
  ASSUME NEW layout, NEW n, GroupsAre(layout, n), NEW g \in 0..n - 1
  PROVE  Anchor(layout, g) \in 0..15
<1> DEFINE T == Members(layout, g)
           R == OpToRel(<, Nat)
<1>1. T \subseteq Nat /\ T \subseteq 0..15 /\ T # {}
  <2>1. g \in Groups(layout)
    BY DEF GroupsAre
  <2> QED BY <2>1 DEF Members, Groups
<1> HIDE DEF T
<1>2. IsWellFoundedOn(R, Nat)
  BY NatLessThanWellFounded
<1> HIDE DEF R
<1>3. PICK b \in T : \A y \in T : ~(<<y, b>> \in R)
  BY <1>1, <1>2, WFMin
<1>4. \A c \in T : b <= c
  <2> SUFFICES ASSUME NEW c \in T, ~(b <= c) PROVE FALSE
    OBVIOUS
  <2>1. <<c, b>> \in R
    BY <1>1 DEF R, OpToRel
  <2> QED BY <1>3, <2>1
<1>5. Anchor(layout, g) \in T
  BY <1>4 DEF Anchor, T
<1> QED BY <1>1, <1>5

-----------------------------------------------------------------------------
(* The vectors of a split macroblock, group by group.                        *)
Vectors == [0..15 -> IntMv]
SplitRule(M, here, plan, n) ==
  /\ M[0] = [b \in 0..15 |-> ZeroMv]
  /\ \A g \in 1..n :
       M[g] = Filled(M[g - 1], plan.layout, g - 1,
                     SplitVector(here, M[g - 1], Anchor(plan.layout, g - 1), plan.choices[g]))
  /\ \A g \in 0..n : M[g] \in Vectors

LEMMA SplitVectorTyped ==
  ASSUME NEW here, KnownPlace(here), NEW mvs \in Vectors, NEW anchor \in 0..15,
         NEW choice, choice.mode \in SubMvModes, choice.mv \in Mv
  PROVE  SplitVector(here, mvs, anchor, choice) \in IntMv
<1>1. ASSUME NEW nb, Known(nb), NEW b \in 0..15 PROVE BlockMv(nb, b) \in IntMv
  BY <1>1, MvIsIntMv DEF BlockMv, Known
<1>2. left_block_mv(mvs, here.left, anchor) \in IntMv
  <2>1. anchor % 4 = 0 => anchor + 3 \in 0..15
    BY SMT
  <2>2. anchor % 4 # 0 => anchor - 1 \in 0..15
    BY SMT
  <2>3. CASE anchor % 4 = 0
    BY <1>1, <2>1, <2>3 DEF left_block_mv, KnownPlace
  <2>4. CASE anchor % 4 # 0
    BY <2>2, <2>4 DEF left_block_mv, Vectors
  <2> QED BY <2>3, <2>4
<1>3. above_block_mv(mvs, here.above, anchor) \in IntMv
  <2>1. CASE anchor < 4
    <3>1. anchor + 12 \in 0..15
      BY <2>1
    <3> QED BY <1>1, <2>1, <3>1 DEF above_block_mv, KnownPlace
  <2>2. CASE ~(anchor < 4)
    <3>1. anchor - 4 \in 0..15
      BY <2>2
    <3> QED BY <2>2, <3>1 DEF above_block_mv, Vectors
  <2> QED BY <2>1, <2>2
<1> QED BY <1>2, <1>3, MvIsIntMv DEF SplitVector, SubMvModes

LEMMA SplitWalkRule ==
  ASSUME NEW here, KnownPlace(here), NEW plan, LegalPlan(plan), NEW n, GroupsAre(plan.layout, n)
  PROVE  SplitRule(SplitWalk(here, plan), here, plan, n)
<1> DEFINE first == [b \in 0..15 |-> ZeroMv]
           Step(s, g) == Filled(s, plan.layout, g - 1,
                                SplitVector(here, s, Anchor(plan.layout, g - 1), plan.choices[g]))
           Rule(f) == f = [g \in 0..n |-> IF g = 0 THEN first ELSE Step(f[g - 1], g)]
           step == [x \in (1..n) \X Vectors |-> Step(x[2], x[1])]
           E == SplitWalk(here, plan)
           S == {g \in Nat : g <= n => E[g] \in Vectors}
<1>1. n \in Nat /\ Len(plan.choices) = n
  BY DEF GroupsAre, LegalPlan
<1>2. first \in Vectors
  BY MvIsIntMv DEF Vectors
<1>3. ASSUME NEW g \in 1..n, NEW s \in Vectors PROVE Step(s, g) \in Vectors
  <2>1. g - 1 \in 0..n - 1
    BY <1>1
  <2>2. Anchor(plan.layout, g - 1) \in 0..15
    BY <2>1, AnchorInside
  <2>3. plan.choices[g].mode \in SubMvModes /\ plan.choices[g].mv \in Mv
    BY <1>1 DEF LegalPlan
  <2> DEFINE v == SplitVector(here, s, Anchor(plan.layout, g - 1), plan.choices[g])
  <2>4. v \in IntMv
    BY <2>2, <2>3, SplitVectorTyped
  <2> HIDE DEF v
  <2>5. Filled(s, plan.layout, g - 1, v) \in Vectors
    BY <2>4 DEF Filled, Vectors
  <2> QED BY <2>5 DEF v
<1> HIDE DEF first
<1>4. \A g \in 1..n, s \in Vectors : step[<<g, s>>] = Step(s, g)
  <2> HIDE DEF Step
  <2> QED OBVIOUS
<1>5. E = CHOOSE g : Rule(g)
  BY <1>1 DEF SplitWalk, first
<1> HIDE DEF step, Step, E
<1>6. PICK f : StepsFrom(f, n, Vectors, first, step)
  <2>1. \A g \in 1..n, s \in Vectors : step[<<g, s>>] \in Vectors
    BY <1>3, <1>4
  <2> QED BY <1>1, <1>2, <2>1, StepByStep
<1>7. Rule(f)
  <2>1. f = [g \in 0..n |-> f[g]] /\ f[0] = first
    BY <1>6 DEF StepsFrom
  <2>2. ASSUME NEW g \in 1..n PROVE f[g] = Step(f[g - 1], g)
    <3>1. g - 1 \in 0..n
      BY <1>1
    <3> QED BY <1>4, <1>6, <3>1 DEF StepsFrom
  <2>3. \A g \in 0..n : f[g] = IF g = 0 THEN first ELSE Step(f[g - 1], g)
    <3>1. \A g \in 0..n : g = 0 \/ g \in 1..n
      BY <1>1
    <3> QED BY <2>1, <2>2, <3>1
  <2> HIDE DEF first
  <2> QED BY <2>1, <2>3
<1>8. Rule(E)
  <2> HIDE DEF Rule
  <2> QED BY <1>5, <1>7
<1>9. E[0] = first /\ \A g \in 1..n : E[g] = Step(E[g - 1], g)
  <2>1. 0 \in 0..n /\ \A g \in 1..n : g \in 0..n /\ g # 0
    BY <1>1
  <2> QED BY <1>8, <2>1
<1>10. 0 \in S
  BY <1>2, <1>9
<1>11. ASSUME NEW g \in Nat, g \in S PROVE g + 1 \in S
  <2> SUFFICES ASSUME g + 1 <= n PROVE E[g + 1] \in Vectors
    OBVIOUS
  <2>1. g + 1 \in 1..n /\ (g + 1) - 1 = g /\ E[g] \in Vectors
    BY <1>1, <1>11
  <2> QED BY <1>3, <1>9, <2>1
<1>12. \A g \in 0..n : E[g] \in Vectors
  <2> HIDE DEF S
  <2>1. \A g \in Nat : g \in S
    BY <1>10, <1>11, NaturalInduction
  <2> QED BY <1>1, <2>1 DEF S
<1> QED BY <1>9, <1>12 DEF SplitRule, E, Step, first

(* A block keeps the vector its group was given.                             *)
LEMMA SplitKeeps ==
  ASSUME NEW here, NEW plan, NEW n, GroupsAre(plan.layout, n), NEW M, SplitRule(M, here, plan, n)
  PROVE  \A g \in 0..n : M[g] = [b \in 0..15 |-> IF Group(plan.layout, b) < g THEN M[n][b] ELSE ZeroMv]
<1> DEFINE G(b) == Group(plan.layout, b)
           Holds(g) == \A b \in 0..15 : M[g][b] = IF G(b) < g THEN M[G(b) + 1][b] ELSE ZeroMv
           S == {g \in Nat : g <= n => Holds(g)}
<1>1. n \in Nat \ {0} /\ \A b \in 0..15 : G(b) \in 0..n - 1
  BY DEF GroupsAre
<1>2. 0 \in S
  <2>1. \A b \in 0..15 : M[0][b] = ZeroMv /\ ~(G(b) < 0)
    BY <1>1 DEF SplitRule
  <2> QED BY <2>1
<1>3. ASSUME NEW g \in Nat, g \in S PROVE g + 1 \in S
  <2> SUFFICES ASSUME g + 1 <= n PROVE Holds(g + 1)
    OBVIOUS
  <2>1. g + 1 \in 1..n /\ (g + 1) - 1 = g /\ Holds(g)
    BY <1>1, <1>3
  <2> DEFINE v == SplitVector(here, M[g], Anchor(plan.layout, g), plan.choices[g + 1])
  <2>2. M[g + 1] = Filled(M[g], plan.layout, g, v)
    BY <2>1 DEF SplitRule
  <2> HIDE DEF v
  <2>3. ASSUME NEW b \in 0..15 PROVE M[g + 1][b] = IF G(b) < g + 1 THEN M[G(b) + 1][b] ELSE ZeroMv
    <3>1. M[g + 1][b] = IF G(b) = g THEN v ELSE M[g][b]
      BY <2>2 DEF Filled
    <3>2. G(b) \in Int
      BY <1>1
    <3> HIDE DEF G
    <3>3. CASE G(b) = g
      BY <3>2, <3>3
    <3>4. CASE G(b) # g
      <4>1. G(b) < g + 1 <=> G(b) < g
        BY <3>2, <3>4
      <4>2. M[g][b] = IF G(b) < g THEN M[G(b) + 1][b] ELSE ZeroMv
        BY <2>1
      <4> QED BY <3>1, <3>4, <4>1, <4>2
    <3> QED BY <3>3, <3>4
  <2> QED BY <2>3
<1>4. \A g \in 0..n : Holds(g)
  <2> HIDE DEF S, Holds
  <2>1. \A g \in Nat : g \in S
    BY <1>2, <1>3, NaturalInduction
  <2> QED BY <1>1, <2>1 DEF S
<1>5. ASSUME NEW g \in 0..n
      PROVE  M[g] = [b \in 0..15 |-> IF G(b) < g THEN M[n][b] ELSE ZeroMv]
  <2>1. M[g] = [b \in 0..15 |-> M[g][b]]
    BY DEF SplitRule, Vectors
  <2>2. ASSUME NEW b \in 0..15 PROVE M[g][b] = IF G(b) < g THEN M[n][b] ELSE ZeroMv
    <3>1. n \in 0..n /\ G(b) < n
      BY <1>1
    <3>2. M[n][b] = M[G(b) + 1][b]
      BY <1>4, <3>1
    <3> QED BY <1>4, <3>2
  <2> HIDE DEF G
  <2> QED BY <2>1, <2>2
<1> QED BY <1>5

-----------------------------------------------------------------------------
(* What a split macroblock codes, group by group, and how it is read.         *)
SplitMacroblock(m, here, mb, plan) ==
  /\ Prefixed(m, mb) /\ mb.mode = "split" /\ mb.y = "b" /\ mb.uv = "dc" /\ mb.bmodes = <<>>
  /\ LegalPlan(plan)
  /\ mb.info = SplitInto(mb.info.ref, SplitWalk(here, plan)[Len(plan.choices)])
  /\ mb.split.layout = plan.layout
  /\ mb.split.modes = [g \in 1..Len(plan.choices) |-> plan.choices[g].mode]
  /\ mb.split.diffs = [g \in 1..Len(plan.choices) |->
                         IF plan.choices[g].mode = "new4x4"
                         THEN Minus(plan.choices[g].mv, BestHere(here, mb.info.ref)) ELSE ZeroMv]

GroupParts(here, mb, n) == [g \in 1..n |-> GroupSymbols(here, mb, g - 1)]
GroupLength(mode) == IF mode = "new4x4" THEN 2 ELSE 1

PartIs(part, c, mode, diff) ==
  /\ part = <<Sym(c, mode)>> \o (IF mode = "new4x4" THEN <<Sym(<<"mv">>, diff)>> ELSE <<>>)
  /\ Listed(part) /\ Len(part) = GroupLength(mode)

LEMMA GroupSymbolsAre ==
  ASSUME NEW m, NEW here, KnownPlace(here), NEW mb, NEW plan, SplitMacroblock(m, here, mb, plan),
         NEW n, GroupsAre(plan.layout, n), NEW g \in 1..n
  PROVE  PartIs(GroupParts(here, mb, n)[g],
                SubMvContext(here, SplitWalk(here, plan)[g - 1], Anchor(plan.layout, g - 1)),
                plan.choices[g].mode, Minus(plan.choices[g].mv, BestHere(here, mb.info.ref)))
<1> DEFINE M == SplitWalk(here, plan)
           mode == plan.choices[g].mode
           head == Sym(SubMvContext(here, M[g - 1], Anchor(plan.layout, g - 1)), mode)
           diff == Minus(plan.choices[g].mv, BestHere(here, mb.info.ref))
           tail == IF mode = "new4x4" THEN <<Sym(<<"mv">>, diff)>> ELSE <<>>
           part == GroupParts(here, mb, n)[g]
<1>1. n \in Nat \ {0} /\ Len(plan.choices) = n /\ g - 1 \in 0..n /\ (g - 1) + 1 = g
  BY DEF GroupsAre, SplitMacroblock, LegalPlan
<1>2. SplitRule(M, here, plan, n)
  BY SplitWalkRule DEF SplitMacroblock
<1>3. mb.info.split_mvs = M[n] /\ mb.split.layout = plan.layout
  BY <1>1 DEF SplitMacroblock, SplitInto
<1>4. mb.split.modes[g] = mode /\ (mode = "new4x4" => mb.split.diffs[g] = diff)
  BY <1>1 DEF SplitMacroblock
<1> HIDE DEF M
<1>5. Running(mb, g - 1) = M[g - 1]
  <2>1. M[g - 1] = [b \in 0..15 |-> IF Group(plan.layout, b) < g - 1 THEN M[n][b] ELSE ZeroMv]
    <3> DEFINE k == g - 1
    <3>1. k \in 0..n
      BY <1>1
    <3>2. \A i \in 0..n : M[i] = [b \in 0..15 |-> IF Group(plan.layout, b) < i THEN M[n][b] ELSE ZeroMv]
      BY <1>2, SplitKeeps, SMTT(30)
    <3> HIDE DEF k
    <3>3. M[k] = [b \in 0..15 |-> IF Group(plan.layout, b) < k THEN M[n][b] ELSE ZeroMv]
      BY <3>1, <3>2
    <3> QED BY <3>3 DEF k
  <2> QED BY <1>3, <2>1 DEF Running
<1>6. part = <<head>> \o tail
  <2>1. part = GroupSymbols(here, mb, g - 1)
    BY DEF GroupParts
  <2> QED BY <1>1, <1>3, <1>4, <1>5, <2>1 DEF GroupSymbols
<1>7. Listed(<<head>>) /\ Len(<<head>>) = 1 /\ Listed(tail) /\ Len(tail) = IF mode = "new4x4" THEN 1 ELSE 0
  BY ListedOne, ListedNone
<1> DEFINE hd == <<head>>
<1> HIDE DEF hd, tail, part
<1>8. Joins(hd, tail, part)
  BY <1>6, <1>7, ListedJoin DEF hd
<1>9. Listed(part) /\ Len(part) = GroupLength(mode)
  BY <1>7, <1>8 DEF Joins, GroupLength, hd
<1> QED BY <1>6, <1>9 DEF part, tail, hd, M, PartIs

GroupRead(reader, F, M, plan, best, g) ==
  [reader |-> IF g = 0 THEN reader
              ELSE ReaderAt(reader, Len(F[g]),
                            IF plan.choices[g].mode = "new4x4" THEN Minus(plan.choices[g].mv, best)
                            ELSE plan.choices[g].mode),
   mvs |-> M[g]]

GroupIsRead(here, mb, plan, reader, F, g) ==
  DecodeSplitGroup(here, GroupRead(reader, F, SplitWalk(here, plan), plan, BestHere(here, mb.info.ref), g - 1),
                   plan.layout, g - 1, BestHere(here, mb.info.ref))
    = GroupRead(reader, F, SplitWalk(here, plan), plan, BestHere(here, mb.info.ref), g)

LEMMA SplitGroupStep ==
  ASSUME NEW m, NEW here, KnownPlace(here), NEW mb, NEW plan, SplitMacroblock(m, here, mb, plan),
         NEW n, GroupsAre(plan.layout, n),
         NEW F, PrefixesOf(F, n, GroupParts(here, mb, n)), NEW reader, Ahead(reader, F[n]), NEW g \in 1..n
  PROVE  GroupIsRead(here, mb, plan, reader, F, g)
<1> DEFINE M == SplitWalk(here, plan)
           best == BestHere(here, mb.info.ref)
           choice == plan.choices[g]
           mode == choice.mode
           diff == Minus(choice.mv, best)
           anchor == Anchor(plan.layout, g - 1)
           c == SubMvContext(here, M[g - 1], anchor)
           hd == <<Sym(c, mode)>>
           tail == IF mode = "new4x4" THEN <<Sym(<<"mv">>, diff)>> ELSE <<>>
           part == GroupParts(here, mb, n)[g]
           s == GroupRead(reader, F, M, plan, best, g - 1)
           r == Read(s.reader, c, "zero4x4")
           d == IF mode = "new4x4" THEN Read(r, <<"mv">>, ZeroMv) ELSE r
           mv == SplitVector(here, M[g - 1], anchor, choice)
           value == IF mode = "new4x4" THEN diff ELSE mode
<1>1. n \in Nat \ {0} /\ Len(plan.choices) = n /\ g - 1 \in 0..n /\ choice.mv \in Mv /\ mode \in SubMvModes
  <2>1. LegalPlan(plan) /\ n \in Nat \ {0}
    BY DEF GroupsAre, SplitMacroblock
  <2>2. Len(plan.choices) = n
    BY <2>1 DEF GroupsAre, LegalPlan
  <2> QED BY <2>1, <2>2 DEF LegalPlan
<1>2. SplitRule(M, here, plan, n)
  BY SplitWalkRule DEF SplitMacroblock
<1>3. part = hd \o tail /\ Listed(part) /\ Len(part) = GroupLength(mode)
  <2>1. PartIs(part, c, mode, diff)
    BY GroupSymbolsAre
  <2> QED BY <2>1 DEF PartIs
<1>4. s.mvs = M[g - 1] /\ s.reader = IF g - 1 = 0 THEN reader ELSE s.reader
  BY DEF GroupRead
<1>5. reader.ok = TRUE /\ reader.at \in Nat
  BY DEF Ahead
<1>6. Onward(reader, F[g - 1], part)
  <2>1. \A i \in 1..n : Listed(GroupParts(here, mb, n)[i])
    BY GroupSymbolsAre DEF PartIs
  <2> QED BY <1>1, <2>1, PrefixAhead
<1> HIDE DEF part
<1>7. Len(F[g - 1]) \in Nat /\ Len(F[g]) = Len(F[g - 1]) + GroupLength(mode)
  <2>1. Listed(F[g - 1]) /\ F[g] = F[g - 1] \o part
    BY <1>1 DEF PrefixesOf, part
  <2> DEFINE a == F[g - 1]
  <2> HIDE DEF a
  <2>2. Joins(a, part, a \o part)
    BY <1>3, <2>1, ListedJoin DEF a
  <2> QED BY <1>3, <2>1, <2>2 DEF Joins, a
<1>8. Further(reader, Len(F[g - 1]), s.reader)
  <2>1. CASE g - 1 = 0
    <3>1. F[g - 1] = <<>> /\ s.reader = reader
      BY <1>4, <2>1 DEF PrefixesOf
    <3>2. Len(F[g - 1]) = 0
      BY <3>1, ListedNone
    <3> QED BY <1>5, <3>1, <3>2 DEF Further
  <2>2. CASE g - 1 # 0
    BY <2>2, SMTT(30) DEF GroupRead, ReaderAt, Further
  <2> QED BY <2>1, <2>2
<1>9. Ahead(s.reader, hd \o tail)
  BY <1>3, <1>6, <1>8 DEF Onward
<1> HIDE DEF M, best, s, c, anchor
<1>10. Listed(hd) /\ Len(hd) = 1 /\ Listed(tail)
  BY ListedOne, ListedNone
<1>11. Onward(s.reader, hd, tail)
  <2> HIDE DEF hd, tail
  <2> QED BY <1>9, <1>10, ReadsOnward
<1>12. r = ReaderAt(s.reader, 1, mode) /\ Further(s.reader, 1, r)
  BY <1>11, ReadIs, ReadsNext DEF Onward
<1>13. r.val = mode
  BY <1>12 DEF ReaderAt
<1>14. Ahead(r, tail)
  <2> HIDE DEF tail, r
  <2> QED BY <1>10, <1>11, <1>12 DEF Onward
<1> HIDE DEF r, diff
<1>15. d = ReaderAt(reader, Len(F[g]), value)
  <2>1. s.reader.src = reader.src /\ s.reader.at = reader.at + Len(F[g - 1])
    BY <1>8 DEF Further
  <2>2. CASE mode = "new4x4"
    <3>1. d = ReaderAt(r, 1, diff)
      BY <1>14, <2>2, ReadIs
    <3>2. r.src = reader.src /\ r.at = reader.at + Len(F[g - 1]) + 1
      BY <1>12, <2>1 DEF ReaderAt
    <3>3. r.at + 1 = reader.at + Len(F[g])
      BY <1>5, <1>7, <2>2, <3>2 DEF GroupLength
    <3> QED BY <2>2, <3>1, <3>2, <3>3 DEF ReaderAt
  <2>3. CASE mode # "new4x4"
    <3>1. s.reader.at + 1 = reader.at + Len(F[g])
      BY <1>5, <1>7, <2>1, <2>3 DEF GroupLength
    <3> QED BY <1>12, <2>1, <2>3, <3>1 DEF ReaderAt
  <2> QED BY <2>2, <2>3
<1>16. mode = "new4x4" => Plus(best, d.val) = choice.mv
  <2>1. best \in IntMv
    BY VectorsTyped DEF best
  <2>2. Plus(best, diff) = choice.mv
    BY <1>1, <2>1, DifferenceAdds DEF diff
  <2> QED BY <1>15, <2>2 DEF ReaderAt
<1> HIDE DEF d
<1>17. DecodeSplitGroup(here, s, plan.layout, g - 1, best)
         = [reader |-> d,
            mvs |-> Filled(M[g - 1], plan.layout, g - 1,
                           CASE mode = "left4x4"  -> left_block_mv(M[g - 1], here.left, anchor)
                             [] mode = "above4x4" -> above_block_mv(M[g - 1], here.above, anchor)
                             [] mode = "zero4x4"  -> ZeroMv
                             [] mode = "new4x4"   -> Plus(best, d.val))]
  BY <1>4, <1>13 DEF DecodeSplitGroup, d, r, c, anchor
<1>18. (CASE mode = "left4x4"  -> left_block_mv(M[g - 1], here.left, anchor)
          [] mode = "above4x4" -> above_block_mv(M[g - 1], here.above, anchor)
          [] mode = "zero4x4"  -> ZeroMv
          [] mode = "new4x4"   -> Plus(best, d.val)) = mv
  BY <1>1, <1>16 DEF SplitVector, SubMvModes
<1>19. M[g] = Filled(M[g - 1], plan.layout, g - 1, mv)
  BY <1>2 DEF SplitRule, anchor
<1>20. GroupRead(reader, F, M, plan, best, g) = [reader |-> ReaderAt(reader, Len(F[g]), value), mvs |-> M[g]]
  <2>1. g # 0
    OBVIOUS
  <2> QED BY <2>1 DEF GroupRead, diff
<1> HIDE DEF mv, mode, value
<1>21. DecodeSplitGroup(here, s, plan.layout, g - 1, best) = GroupRead(reader, F, M, plan, best, g)
  BY <1>15, <1>17, <1>18, <1>19, <1>20
<1> QED BY <1>21 DEF s, M, best, GroupIsRead

(* All the groups, read one after the other.                                  *)
LEMMA ReadsGroups ==
  ASSUME NEW m, NEW here, KnownPlace(here), NEW mb, NEW plan, SplitMacroblock(m, here, mb, plan),
         NEW n, GroupsAre(plan.layout, n),
         NEW F, PrefixesOf(F, n, GroupParts(here, mb, n)), NEW reader, Ahead(reader, F[n])
  PROVE  LET s == DecodedGroups(here, plan.layout, n, reader, BestHere(here, mb.info.ref))[n]
         IN s.mvs = SplitWalk(here, plan)[n] /\ Further(reader, Len(F[n]), s.reader)
<1> DEFINE M == SplitWalk(here, plan)
           best == BestHere(here, mb.info.ref)
           C == [g \in 0..n |-> GroupRead(reader, F, M, plan, best, g)]
           K == DecodedGroups(here, plan.layout, n, reader, best)
           first == [reader |-> reader, mvs |-> [b \in 0..15 |-> ZeroMv]]
           Step(s, g) == DecodeSplitGroup(here, s, plan.layout, g - 1, best)
           Rule(f) == f = [g \in 0..n |-> IF g = 0 THEN first ELSE Step(f[g - 1], g)]
           S == {g \in Nat : g <= n => K[g] = C[g]}
<1>1. n \in Nat \ {0}
  BY DEF GroupsAre
<1>2. SplitRule(M, here, plan, n)
  BY SplitWalkRule DEF SplitMacroblock
<1>3. K = CHOOSE f : Rule(f)
  BY DEF DecodedGroups
<1>4. C[0] = first
  <2>1. 0 \in 0..n
    BY <1>1
  <2> QED BY <1>2, <2>1 DEF GroupRead, SplitRule
<1>5. ASSUME NEW g \in 1..n PROVE C[g] = Step(C[g - 1], g)
  <2>1. g - 1 \in 0..n /\ g \in 0..n
    BY <1>1
  <2>2. C[g] = GroupRead(reader, F, M, plan, best, g) /\ C[g - 1] = GroupRead(reader, F, M, plan, best, g - 1)
    BY <2>1
  <2>3. DecodeSplitGroup(here, GroupRead(reader, F, M, plan, best, g - 1), plan.layout, g - 1, best)
          = GroupRead(reader, F, M, plan, best, g)
    <3>1. GroupIsRead(here, mb, plan, reader, F, g)
      BY SplitGroupStep
    <3> QED BY <3>1 DEF GroupIsRead
  <2> HIDE DEF C, M, best
  <2> QED BY <2>2, <2>3
<1>6. C[n].mvs = M[n] /\ Further(reader, Len(F[n]), C[n].reader)
  <2>1. n \in 0..n /\ n # 0
    BY <1>1
  <2>2. C[n] = GroupRead(reader, F, M, plan, best, n)
    BY <2>1
  <2> HIDE DEF C, M, best
  <2> QED BY <2>1, <2>2 DEF GroupRead, Further, ReaderAt
<1>7. C = [g \in 0..n |-> C[g]]
  OBVIOUS
<1> HIDE DEF Step, first, C, K, M, best
<1>8. Rule(C)
  <2>1. \A g \in 0..n : g = 0 \/ g \in 1..n
    BY <1>1
  <2>2. \A g \in 0..n : C[g] = IF g = 0 THEN first ELSE Step(C[g - 1], g)
    BY <1>4, <1>5, <2>1
  <2> QED BY <1>7, <2>2
<1>9. Rule(K)
  <2> HIDE DEF Rule
  <2> QED BY <1>3, <1>8
<1>10. K[0] = first /\ \A g \in 1..n : K[g] = Step(K[g - 1], g)
  <2>1. 0 \in 0..n /\ \A g \in 1..n : g \in 0..n /\ g # 0
    BY <1>1
  <2> QED BY <1>9, <2>1
<1>11. 0 \in S
  BY <1>4, <1>10
<1>12. ASSUME NEW g \in Nat, g \in S PROVE g + 1 \in S
  <2> SUFFICES ASSUME g + 1 <= n PROVE K[g + 1] = C[g + 1]
    OBVIOUS
  <2>1. g + 1 \in 1..n /\ (g + 1) - 1 = g /\ K[g] = C[g]
    BY <1>1, <1>12
  <2> QED BY <1>5, <1>10, <2>1
<1>13. K[n] = C[n]
  <2> HIDE DEF S
  <2>1. n \in S
    BY <1>1, <1>11, <1>12, NaturalInduction
  <2> QED BY <1>1, <2>1 DEF S
<1> QED BY <1>6, <1>13 DEF K, M, best

SplitIs(here, mb, plan, n, F) ==
  /\ PrefixesOf(F, n, GroupParts(here, mb, n)) /\ GroupsAre(plan.layout, n)
  /\ Listed(F[n]) /\ SplitSymbols(here, mb) = <<Sym(<<"layout">>, plan.layout)>> \o F[n]
  /\ Listed(SplitSymbols(here, mb))

LEMMA SplitSymbolsAre ==
  ASSUME NEW m, NEW here, KnownPlace(here), NEW mb, NEW plan, SplitMacroblock(m, here, mb, plan)
  PROVE  \E n, F : SplitIs(here, mb, plan, n, F)
<1>1. LegalPlan(plan) /\ plan.layout \in Layouts
  BY DEF SplitMacroblock, LegalPlan
<1>2. PICK n : GroupsAre(plan.layout, n)
  BY <1>1, LayoutGroups
<1> DEFINE parts == GroupParts(here, mb, n)
<1>3. n \in Nat \ {0} /\ Len(plan.choices) = n
  BY <1>1, <1>2 DEF GroupsAre, LegalPlan
<1>4. \A g \in 1..n : Listed(parts[g])
  BY <1>2, GroupSymbolsAre DEF PartIs
<1>5. parts = [g \in 1..n |-> parts[g]]
  BY DEF GroupParts
<1>6. SplitSymbols(here, mb) = <<Sym(<<"layout">>, plan.layout)>> \o FlattenSeq(parts)
  <2>1. Len(mb.split.modes) = n
    <3> DEFINE t == mb.split.modes
    <3>1. t = [g \in 1..n |-> t[g]]
      BY <1>3 DEF SplitMacroblock
    <3> HIDE DEF t
    <3> QED BY <1>3, <3>1, ListedIs DEF t
  <2>2. mb.split.layout = plan.layout
    BY DEF SplitMacroblock
  <2> QED BY <2>1, <2>2 DEF SplitSymbols, GroupParts
<1> HIDE DEF parts
<1>7. PICK F : PrefixesOf(F, n, parts)
  BY <1>3, <1>4, PrefixesExist
<1>8. 1 \in 1..n /\ n \in 0..n
  BY <1>3
<1>9. FlattenSeq(parts) = F[n] /\ Listed(F[n])
  <2>1. Listed(parts[1])
    BY <1>4, <1>8
  <2>2. Listed(F[n])
    BY <1>7, <1>8 DEF PrefixesOf
  <2> QED BY <1>3, <1>5, <1>7, <2>1, <2>2, Flattening
<1>10. Listed(SplitSymbols(here, mb))
  <2> DEFINE a == <<Sym(<<"layout">>, plan.layout)>>  z == F[n]
  <2>1. Listed(a) /\ Listed(z)
    BY <1>9, ListedOne
  <2> HIDE DEF a, z
  <2>2. Listed(a \o z)
    BY <2>1, ListedJoin DEF Joins
  <2> QED BY <1>6, <1>9, <2>2 DEF a, z
<1>11. SplitIs(here, mb, plan, n, F)
  BY <1>2, <1>6, <1>7, <1>9, <1>10 DEF SplitIs, parts
<1> QED BY <1>11

LEMMA ReadsSplit ==
  ASSUME NEW m, NEW here, KnownPlace(here), NEW mb, NEW plan, SplitMacroblock(m, here, mb, plan),
         NEW reader, Ahead(reader, SplitSymbols(here, mb))
  PROVE  LET s == decode_split_mv(here, reader, BestHere(here, mb.info.ref))
         IN s.mvs = mb.info.split_mvs /\ Further(reader, Len(SplitSymbols(here, mb)), s.reader)
<1> DEFINE best == BestHere(here, mb.info.ref)
           l == Read(reader, <<"layout">>, "top_bottom")
           x == <<Sym(<<"layout">>, plan.layout)>>
<1>1. PICK n, F : SplitIs(here, mb, plan, n, F)
  BY SplitSymbolsAre
<1>2. /\ PrefixesOf(F, n, GroupParts(here, mb, n)) /\ GroupsAre(plan.layout, n)
      /\ Listed(F[n]) /\ SplitSymbols(here, mb) = x \o F[n]
  BY <1>1 DEF SplitIs
<1> DEFINE z == F[n]
<1>3. Listed(x) /\ Len(x) = 1
  BY ListedOne
<1>4. Onward(reader, x, z)
  <2> HIDE DEF x, z
  <2> QED BY <1>2, <1>3, ReadsOnward DEF z
<1>5. l.val = plan.layout /\ Further(reader, Len(x), l)
  BY <1>3, <1>4, ReadsNext DEF Onward
<1> HIDE DEF l, x, z
<1>6. Ahead(l, z) /\ \A r2 : Further(l, Len(z), r2) => Further(reader, Len(x \o z), r2)
  BY <1>4, <1>5 DEF Onward
<1> DEFINE s == DecodedGroups(here, plan.layout, n, l, best)[n]
<1>7. s.mvs = SplitWalk(here, plan)[n] /\ Further(l, Len(z), s.reader)
  BY <1>2, <1>6, ReadsGroups DEF z
<1>8. decode_split_mv(here, reader, best) = s
  <2>1. Cardinality(Groups(plan.layout)) = n
    BY <1>2 DEF GroupsAre
  <2> QED BY <1>5, <2>1 DEF decode_split_mv, l
<1>9. mb.info.split_mvs = SplitWalk(here, plan)[n]
  <2>1. Len(plan.choices) = n
    BY <1>2 DEF GroupsAre, SplitMacroblock, LegalPlan
  <2> QED BY <2>1 DEF SplitMacroblock, SplitInto
<1> HIDE DEF s
<1>10. Further(reader, Len(SplitSymbols(here, mb)), s.reader)
  BY <1>2, <1>6, <1>7 DEF z
<1> QED BY <1>7, <1>8, <1>9, <1>10

LEMMA ReadsSplitMacroblock ==
  ASSUME NEW m, NEW here, here.segmented = Segmented(m), KnownPlace(here), NEW mb,
         NEW plan, SplitMacroblock(m, here, mb, plan), NEW rest, Listed(rest)
  PROVE  /\ ReadBack(parse_inter_frame_macroblock(m, here, write_inter_modes(here, mb) \o rest), mb, rest)
         /\ PublicReads(m, here, mb, write_inter_modes(here, mb) \o rest)
<1> DEFINE queue == write_inter_modes(here, mb) \o rest
           prefix == ReadPrefix(m, queue)
           inter == Read(prefix.reader, <<"inter">>, TRUE)
           ref == Read(inter, <<"ref">>, "last")
           near == Near3(here, mb.info.ref)
           best == BestHere(here, mb.info.ref)
           mode == Read(ref, ModeContext(near), "zero")
           s == decode_split_mv(here, mode, best)
           D == AfterMode(here, mb)
<1>1. D = SplitSymbols(here, mb) /\ mb.mode # Intra /\ mb.mode = "split" /\ Prefixed(m, mb)
  BY DEF SplitMacroblock, AfterMode, Intra
<1>2. Listed(D)
  <2>1. PICK n, F : SplitIs(here, mb, plan, n, F)
    BY SplitSymbolsAre
  <2> QED BY <1>1, <2>1 DEF SplitIs
<1>3. InterRead(m, here, mb, queue, rest)
  BY <1>1, <1>2, ReadsInter
<1> HIDE DEF queue, D
<1>4. /\ prefix.segment = mb.segment /\ prefix.skip = mb.skip /\ prefix.q = mb.q
      /\ inter.val = TRUE /\ ref.val = mb.info.ref /\ mode.val = "split" /\ Ahead(mode, D)
      /\ \A r2 : Further(mode, Len(D), r2) => r2.ok = TRUE /\ Unread(r2) = rest
  BY <1>1, <1>3 DEF InterRead, D
<1> HIDE DEF prefix, inter, ref
<1>5. s.mvs = mb.info.split_mvs /\ Further(mode, Len(D), s.reader)
  <2> HIDE DEF mode
  <2> QED BY <1>1, <1>4, ReadsSplit
<1>6. s.reader.ok = TRUE /\ Unread(s.reader) = rest
  <2> HIDE DEF s, mode
  <2> QED BY <1>4, <1>5
<1>7. mb.info = SplitInto(mb.info.ref, mb.info.split_mvs)
  <2> DEFINE x == SplitWalk(here, plan)[Len(plan.choices)]  ref0 == mb.info.ref
  <2>1. mb.info = SplitInto(ref0, x)
    BY DEF SplitMacroblock
  <2> HIDE DEF x, ref0
  <2>2. mb.info.split_mvs = x
    BY <2>1 DEF SplitInto
  <2> QED BY <2>1, <2>2 DEF ref0
<1>8. parse_inter_frame_macroblock(m, here, queue)
        = Record(prefix, "split", "b", <<>>, "dc", SplitInto(mb.info.ref, s.mvs), s.reader)
  BY <1>4 DEF parse_inter_frame_macroblock, prefix, inter, parse_inter_macroblock, ref
<1>9. ReadBack(parse_inter_frame_macroblock(m, here, queue), mb, rest)
  <2> DEFINE p == parse_inter_frame_macroblock(m, here, queue)
  <2>1. p = Record(prefix, "split", "b", <<>>, "dc", mb.info, s.reader)
    BY <1>5, <1>7, <1>8
  <2> HIDE DEF p, s
  <2>2. p.reader = s.reader
    BY <2>1 DEF Record
  <2>3. p.mb = Shown(mb, {})
    BY <1>4, <2>1 DEF Record, Shown, SplitMacroblock
  <2> QED BY <1>6, <2>2, <2>3 DEF ReadBack, p
<1>10. resolve_inter_mb_mv(here, mb.info.ref, ref) = [split |-> TRUE, mv |-> best, reader |-> mode]
  BY <1>4 DEF resolve_inter_mb_mv
<1>11. decode_split_mv_mb(here, mb.info.ref, ref) = [refused |-> FALSE, info |-> mb.info]
  <2> DEFINE v == resolve_inter_mb_mv(here, mb.info.ref, ref)
  <2>1. v.split = TRUE /\ v.mv = best /\ v.reader = mode
    BY <1>10
  <2> HIDE DEF v, best, mode
  <2> QED BY <1>5, <1>7, <2>1 DEF decode_split_mv_mb, v
<1>12. PublicReads(m, here, mb, queue)
  BY <1>1, <1>11 DEF PublicReads, prefix, inter, ref
<1> QED BY <1>9, <1>12 DEF queue

-----------------------------------------------------------------------------
(* What any choice of the encoder's is.                                      *)
ModeSymbols(m, here, mb) == IF m.key THEN write_mode_layer(here, mb) ELSE write_inter_modes(here, mb)
Parsed(m, here, queue) ==
  IF m.key THEN parse_key_frame_macroblock(m, here, queue) ELSE parse_inter_frame_macroblock(m, here, queue)

ResidualFits(mb) ==
  /\ mb.residual \subseteq Blocks(HasY2(mb)) /\ HasY2(mb) \in BOOLEAN
  /\ mb.skip = (mb.residual = {})
InterMacroblock(m, here, mb) ==
  \/ IntraMacroblock(m, mb)
  \/ WholeMacroblock(m, here, mb)
  \/ \E plan : SplitMacroblock(m, here, mb, plan)

LEMMA ChosenQuantizer ==
  ASSUME NEW m, LegalMenu(m), NEW segment \in IF Segmented(m) THEN m.segments ELSE {0}, NEW mb,
         mb.segment = segment,
         mb.q = IF Segmented(m) THEN Quantizer(m, segment) ELSE m.base_q
  PROVE  Prefixed(m, mb) /\ segment \in Segments
<1>1. m.base_q \in 0..127 /\ m.segments \subseteq Segments
  BY DEF LegalMenu
<1>2. CASE Segmented(m)
  <2>1. mb.q = DecodedQuantizer(m, mb.segment)
    BY <1>2 DEF Quantizer, DecodedQuantizer
  <2> QED BY <1>1, <1>2, <2>1 DEF Prefixed
<1>3. CASE ~Segmented(m)
  <2>1. mb.segment = 0 /\ mb.q = m.base_q /\ segment = 0
    BY <1>3
  <2>2. DecodedQuantizer(m, 0) = Clamped(m.base_q, 0, 127)
    BY <1>3 DEF DecodedQuantizer
  <2>3. Clamped(m.base_q, 0, 127) = m.base_q
    BY <1>1 DEF Clamped
  <2> QED BY <1>3, <2>1, <2>2, <2>3 DEF Prefixed, Segments
<1> QED BY <1>2, <1>3

LEMMA ChosenKey ==
  ASSUME NEW m, LegalMenu(m), m.key, NEW here, NEW mb, MayChoose(m, here, mb)
  PROVE  KeyMacroblock(m, mb) /\ ResidualFits(mb) /\ mb.segment \in Segments
<1>1. PICK c, segment, uv, residual :
        /\ c \in KeyCandidates(m)
        /\ segment \in IF Segmented(m) THEN m.segments ELSE {0}
        /\ residual \subseteq BlocksOf(c.y)
        /\ mb = Chosen(c, segment, IF Segmented(m) THEN Quantizer(m, segment) ELSE m.base_q, uv, residual)
  BY Zenon DEF MayChoose
<1>2. /\ mb.segment = segment /\ mb.skip = (residual = {}) /\ mb.mode = c.mode /\ mb.y = c.y
      /\ mb.bmodes = c.bmodes /\ mb.info = c.info /\ mb.residual = residual
      /\ mb.q = IF Segmented(m) THEN Quantizer(m, segment) ELSE m.base_q
  BY <1>1 DEF Chosen
<1>3. Prefixed(m, mb) /\ mb.segment \in Segments
  BY <1>1, <1>2, ChosenQuantizer, ZenonT(40)
<1>4. c.mode = Intra /\ c.info = Border
      /\ (c.y = "b" => c.bmodes \in [0..15 -> BModes]) /\ (c.y # "b" => c.bmodes = <<>>)
  <2>1. m.bmodes \subseteq [0..15 -> BModes]
    BY DEF LegalMenu
  <2> QED BY <1>1, <2>1 DEF KeyCandidates, IntraCandidate
<1>5. ResidualFits(mb)
  BY <1>1, <1>2 DEF ResidualFits, BlocksOf, Blocks, HasY2
<1> QED BY <1>2, <1>3, <1>4, <1>5 DEF KeyMacroblock

LEMMA ChosenInter ==
  ASSUME NEW m, LegalMenu(m), ~m.key, NEW here, KnownPlace(here), NEW mb, MayChoose(m, here, mb)
  PROVE  InterMacroblock(m, here, mb) /\ Known(mb.info) /\ ResidualFits(mb) /\ mb.segment \in Segments
<1>1. PICK c, segment, uv, residual :
        /\ c \in InterCandidates(m, here) \cup IntraCandidates(m)
        /\ segment \in IF Segmented(m) THEN m.segments ELSE {0}
        /\ uv \in IF c.mode = Intra THEN m.uv ELSE {"dc"}
        /\ residual \subseteq BlocksOf(c.y)
        /\ mb = Chosen(c, segment, IF Segmented(m) THEN Quantizer(m, segment) ELSE m.base_q, uv, residual)
  BY Zenon DEF MayChoose
<1>2. /\ mb.segment = segment /\ mb.skip = (residual = {}) /\ mb.mode = c.mode /\ mb.y = c.y
      /\ mb.bmodes = c.bmodes /\ mb.info = c.info /\ mb.residual = residual /\ mb.uv = uv
      /\ mb.split = c.split /\ mb.q = IF Segmented(m) THEN Quantizer(m, segment) ELSE m.base_q
  BY <1>1 DEF Chosen
<1>3. Prefixed(m, mb) /\ mb.segment \in Segments
  BY <1>1, <1>2, ChosenQuantizer, Zenon
<1>4. ResidualFits(mb)
  BY <1>1, <1>2 DEF ResidualFits, BlocksOf, Blocks, HasY2
<1>5. uv \in IF c.mode = Intra THEN m.uv ELSE {"dc"}
  BY <1>1
<1>6. CASE c \in IntraCandidates(m)
  <2>1. c.mode = Intra /\ c.info = Border /\ c.bmodes = <<>>
    BY <1>6 DEF IntraCandidates, IntraCandidate
  <2>2. IntraMacroblock(m, mb)
    BY <1>2, <1>3, <2>1 DEF IntraMacroblock
  <2> QED BY <1>2, <1>3, <1>4, <2>1, <2>2, BorderKnown DEF InterMacroblock
<1>7. CASE c \in InterCandidates(m, here)
  <2>1. PICK ref \in m.refs : c \in WholeCandidates(m, here, ref) \cup { SplitCandidate(here, ref, p) : p \in m.splits }
    BY <1>7 DEF InterCandidates
  <2>2. CASE c \in WholeCandidates(m, here, ref)
    <3> DEFINE nearest == clamp_mv(Nearest(Near3(here, ref)), Bounds(here))
               second == clamp_mv(Near(Near3(here, ref)), Bounds(here))
               Is(mode, v) == c = [mode |-> mode, y |-> "dc", bmodes |-> <<>>, info |-> Whole(ref, v), split |-> <<>>]
    <3>1. \/ Is("zero", ZeroMv) \/ Is("nearest", nearest) \/ Is("near", second)
          \/ \E v \in Mv : Is("new", v)
      <4>1. m.news \subseteq Mv
        BY DEF LegalMenu
      <4> QED BY <2>2, <4>1 DEF WholeCandidates
    <3>2. nearest \in IntMv /\ second \in IntMv
      BY VectorsTyped
    <3> HIDE DEF nearest, second
    <3>3. PICK mode \in {"zero", "nearest", "near", "new"}, v \in IntMv :
             /\ Is(mode, v)
             /\ mode = "zero" => v = ZeroMv
             /\ mode = "nearest" => v = nearest
             /\ mode = "near" => v = second
             /\ mode = "new" => v \in Mv
      <4> HIDE DEF Is
      <4> QED BY <3>1, <3>2, MvIsIntMv
    <3>4. c.mode = mode /\ c.y = "dc" /\ c.bmodes = <<>> /\ c.info = Whole(ref, v) /\ mode # Intra
      BY <3>3 DEF Intra
    <3>5. c.info.ref = ref /\ c.info.mv = v
      BY <3>4 DEF Whole
    <3>6. uv = "dc"
      BY <1>5, <3>4
    <3>7. WholeVector(here, mb)
      BY <1>2, <3>3, <3>4, <3>5 DEF WholeVector, nearest, second
    <3>8. WholeMacroblock(m, here, mb)
      BY <1>2, <1>3, <3>3, <3>4, <3>5, <3>6, <3>7 DEF WholeMacroblock
    <3>9. Known(mb.info)
      BY <1>2, <3>4, WholeKnown
    <3> QED BY <1>3, <1>4, <3>8, <3>9 DEF InterMacroblock
  <2>3. CASE c \in { SplitCandidate(here, ref, p) : p \in m.splits }
    <3>1. PICK plan \in m.splits : c = SplitCandidate(here, ref, plan)
      BY <2>3
    <3>2. LegalPlan(plan)
      BY DEF LegalMenu
    <3> DEFINE x == SplitWalk(here, plan)[Len(plan.choices)]
               n == Len(plan.choices)
    <3>3. c.mode = "split" /\ c.y = "b" /\ c.bmodes = <<>> /\ c.info = SplitInto(ref, x)
          /\ c.split.layout = plan.layout
          /\ c.split.modes = [g \in 1..n |-> plan.choices[g].mode]
          /\ c.split.diffs = [g \in 1..n |-> IF plan.choices[g].mode = "new4x4"
                                 THEN Minus(plan.choices[g].mv, BestHere(here, ref)) ELSE ZeroMv]
      BY <3>1 DEF SplitCandidate
    <3>4. c.info.ref = ref /\ uv = "dc"
      <4> HIDE DEF x
      <4> QED BY <1>5, <3>3 DEF SplitInto, Intra
    <3>5. SplitMacroblock(m, here, mb, plan)
      BY <1>2, <1>3, <3>2, <3>3, <3>4 DEF SplitMacroblock
    <3>6. x \in Vectors
      <4>1. PICK k : GroupsAre(plan.layout, k)
        BY <3>2, LayoutGroups DEF LegalPlan
      <4>2. n = k /\ k \in 0..k
        BY <3>2, <4>1 DEF LegalPlan, GroupsAre
      <4>3. SplitRule(SplitWalk(here, plan), here, plan, k)
        BY <3>2, <4>1, SplitWalkRule
      <4> QED BY <4>2, <4>3 DEF SplitRule
    <3>7. Known(mb.info)
      <4> HIDE DEF x
      <4> QED BY <1>2, <3>3, <3>6, SplitKnown DEF Vectors
    <3> QED BY <1>3, <1>4, <3>5, <3>7 DEF InterMacroblock
  <2> QED BY <2>1, <2>2, <2>3
<1> QED BY <1>1, <1>6, <1>7

(* Every choice is read back.                                                *)
LEMMA ReadsMacroblock ==
  ASSUME NEW m, LegalMenu(m), NEW here, here.segmented = Segmented(m), m.key \/ KnownPlace(here),
         NEW mb, MayChoose(m, here, mb), NEW rest, Listed(rest)
  PROVE  /\ Listed(ModeSymbols(m, here, mb))
         /\ ReadBack(Parsed(m, here, ModeSymbols(m, here, mb) \o rest), mb, rest)
<1>1. CASE m.key
  BY <1>1, ChosenKey, ReadsKeyMacroblock DEF ModeSymbols, Parsed
<1>2. CASE ~m.key
  <2>1. InterMacroblock(m, here, mb)
    BY <1>2, ChosenInter
  <2> DEFINE queue == write_inter_modes(here, mb) \o rest
  <2>2. Listed(write_inter_modes(here, mb)) /\ ReadBack(parse_inter_frame_macroblock(m, here, queue), mb, rest)
    <3>1. CASE IntraMacroblock(m, mb)
      BY <3>1, ReadsIntraMacroblock
    <3>2. CASE WholeMacroblock(m, here, mb)
      BY <1>2, <3>2, WholeAfterMode, InterSymbolsListed, ReadsWholeMacroblock
    <3>3. ASSUME NEW plan, SplitMacroblock(m, here, mb, plan)
          PROVE  Listed(write_inter_modes(here, mb)) /\ ReadBack(parse_inter_frame_macroblock(m, here, queue), mb, rest)
      <4>1. mb.mode = "split" /\ mb.mode # Intra /\ AfterMode(here, mb) = SplitSymbols(here, mb)
        BY <3>3 DEF SplitMacroblock, Intra, AfterMode
      <4>2. PICK n, F : SplitIs(here, mb, plan, n, F)
        BY <1>2, <3>3, SplitSymbolsAre
      <4>3. Listed(write_inter_modes(here, mb))
        BY <4>1, <4>2, InterSymbolsListed DEF SplitIs
      <4> QED BY <1>2, <3>3, <4>3, ReadsSplitMacroblock
    <3> QED BY <2>1, <3>1, <3>2, <3>3 DEF InterMacroblock
  <2> QED BY <1>2, <2>2 DEF ModeSymbols, Parsed
<1> QED BY <1>1, <1>2

-----------------------------------------------------------------------------
(* Raster order.                                                             *)
LEMMA RemainderIs ==
  ASSUME NEW a \in Nat, NEW b \in Nat \ {0}, NEW q \in Nat, NEW r \in 0..b - 1, a = b * q + r
  PROVE  a % b = r
<1> DEFINE p == a \div b  s == a % b
<1>1. p \in Nat /\ s \in 0..b - 1 /\ a = b * p + s
  OBVIOUS
<1> HIDE DEF p, s
<1>2. p = q
  <2>1. CASE p < q
    <3>1. PICK d \in Nat \ {0} : q = p + d
      <4>1. q - p \in Nat \ {0} /\ q = p + (q - p)
        BY <2>1, <1>1
      <4> QED BY <4>1
    <3>2. b * q = b * p + b * d /\ b * d >= b
      BY <3>1, <1>1
    <3>3. b * p \in Int /\ b * q \in Int /\ b * d \in Int
      BY <3>1, <1>1
    <3> QED BY <3>2, <3>3, <1>1
  <2>2. CASE q < p
    <3>1. PICK d \in Nat \ {0} : p = q + d
      <4>1. p - q \in Nat \ {0} /\ p = q + (p - q)
        BY <2>2, <1>1
      <4> QED BY <4>1
    <3>2. b * p = b * q + b * d /\ b * d >= b
      BY <3>1, <1>1
    <3>3. b * p \in Int /\ b * q \in Int /\ b * d \in Int
      BY <3>1, <1>1
    <3> QED BY <3>2, <3>3, <1>1
  <2> QED BY <2>1, <2>2, <1>1
<1> QED BY <1>1, <1>2 DEF s

LEMMA NextRemainder ==
  ASSUME NEW a \in Nat, NEW b \in Nat \ {0}
  PROVE  (a + 1) % b = IF a % b = b - 1 THEN 0 ELSE (a % b) + 1
<1> DEFINE q == a \div b  r == a % b
<1>1. q \in Nat /\ r \in 0..b - 1 /\ a = b * q + r
  OBVIOUS
<1> HIDE DEF q, r
<1>2. CASE r = b - 1
  <2>1. a + 1 = b * (q + 1) + 0 /\ q + 1 \in Nat /\ 0 \in 0..b - 1
    BY <1>1, <1>2
  <2>2. a + 1 \in Nat
    OBVIOUS
  <2> QED BY <1>2, <2>1, <2>2, RemainderIs DEF r
<1>3. CASE r # b - 1
  <2>1. a + 1 = b * q + (r + 1) /\ r + 1 \in 0..b - 1
    BY <1>1, <1>3
  <2>2. a + 1 \in Nat
    OBVIOUS
  <2>3. (a + 1) % b = r + 1
    BY <1>1, <2>1, <2>2, RemainderIs
  <2> QED BY <1>3, <2>3 DEF r
<1> QED BY <1>2, <1>3

LEMMA Geometry ==
  ASSUME NEW m, LegalMenu(m)
  PROVE  /\ Count(m) \in Nat /\ m.cols \in Nat \ {0} /\ m.rows \in Nat \ {0} /\ m.partitions \in Nat \ {0}
         /\ \A n \in Nat : /\ Col(m, n) \in 0..m.cols - 1 /\ Row(m, n) \in Nat
                           /\ PartitionOf(m, n) \in 0..m.partitions - 1
                           /\ Col(m, n + 1) = IF Col(m, n) = m.cols - 1 THEN 0 ELSE Col(m, n) + 1
         /\ Col(m, 0) = 0
<1>1. m.cols \in Nat \ {0} /\ m.rows \in Nat \ {0} /\ m.partitions \in Nat \ {0}
  BY DEF LegalMenu
<1>2. Count(m) \in Nat
  BY <1>1 DEF Count
<1>3. ASSUME NEW n \in Nat
      PROVE  /\ Col(m, n) \in 0..m.cols - 1 /\ Row(m, n) \in Nat
             /\ PartitionOf(m, n) \in 0..m.partitions - 1
             /\ Col(m, n + 1) = IF Col(m, n) = m.cols - 1 THEN 0 ELSE Col(m, n) + 1
  <2>1. Col(m, n) \in 0..m.cols - 1 /\ Row(m, n) \in Nat
    BY <1>1 DEF Col, Row
  <2>2. PartitionOf(m, n) \in 0..m.partitions - 1
    BY <1>1, <2>1 DEF PartitionOf
  <2>3. Col(m, n + 1) = IF Col(m, n) = m.cols - 1 THEN 0 ELSE Col(m, n) + 1
    BY <1>1, NextRemainder, Zenon DEF Col
  <2> QED BY <2>1, <2>2, <2>3
<1>4. Col(m, 0) = 0
  BY <1>1 DEF Col
<1> QED BY <1>1, <1>2, <1>3, <1>4

-----------------------------------------------------------------------------
(* The neighbour records of a whole walk: W[n] once n macroblocks are taken. *)
Walked(m, picks, W, N) ==
  /\ W[0] = FreshWalk(m)
  /\ \A n \in 1..N : W[n] = Stepped(m, n - 1, W[n - 1], picks[n])
                       /\ MayChoose(m, Place(m, n - 1, W[n - 1]), picks[n])

KnownWalk(m, w) ==
  /\ DOMAIN w.above = 0..m.cols - 1 /\ \A c \in 0..m.cols - 1 : Known(w.above[c])
  /\ Known(w.left) /\ Known(w.aboveleft)

LEMMA KnownStart ==
  ASSUME NEW m, LegalMenu(m), ~m.key
  PROVE  KnownWalk(m, FreshWalk(m))
<1>1. Outside(m) = Border
  BY DEF Outside
<1> QED BY <1>1, BorderKnown DEF FreshWalk, KnownWalk

LEMMA KnownHere ==
  ASSUME NEW m, LegalMenu(m), NEW w, m.key \/ KnownWalk(m, w), NEW n \in Nat
  PROVE  LET here == Place(m, n, w)
         IN here.segmented = Segmented(m) /\ (m.key \/ KnownPlace(here))
<1>1. Col(m, n) \in 0..m.cols - 1 /\ Row(m, n) \in Nat /\ m.rows \in Nat /\ m.cols \in Nat /\ Col(m, n) \in Int
  BY Geometry
<1>2. Place(m, n, w).segmented = Segmented(m)
  BY DEF Place
<1>3. ASSUME KnownWalk(m, w) PROVE KnownPlace(Place(m, n, w))
  <2> DEFINE col == Col(m, n)  row == Row(m, n)
  <2> HIDE DEF col, row
  <2>1. Place(m, n, w).above = w.above[col] /\ Place(m, n, w).left = w.left
        /\ Place(m, n, w).aboveleft = w.aboveleft /\ Place(m, n, w).row = row
        /\ Place(m, n, w).col = col /\ Place(m, n, w).rows = m.rows /\ Place(m, n, w).cols = m.cols
    BY DEF Place, col, row
  <2>2. col \in 0..m.cols - 1 /\ row \in Int /\ m.rows \in Int /\ m.cols \in Int /\ col \in Int
    BY <1>1 DEF col, row
  <2> HIDE DEF Place
  <2> QED BY <1>3, <2>1, <2>2 DEF KnownPlace, KnownWalk
<1> QED BY <1>2, <1>3

LEMMA KnownStep ==
  ASSUME NEW m, LegalMenu(m), ~m.key, NEW w, KnownWalk(m, w), NEW n \in Nat, NEW mb,
         MayChoose(m, Place(m, n, w), mb)
  PROVE  KnownWalk(m, Stepped(m, n, w, mb))
<1> DEFINE col == Col(m, n)  s == Stepped(m, n, w, mb)
<1>1. col \in 0..m.cols - 1
  BY Geometry
<1>2. Known(mb.info)
  BY KnownHere, ChosenInter
<1>3. Outside(m) = Border /\ Known(Outside(m))
  BY BorderKnown DEF Outside
<1> HIDE DEF col
<1>4. /\ s.above = [w.above EXCEPT ![col] = mb.info]
      /\ s.left = (IF col = m.cols - 1 THEN Outside(m) ELSE mb.info)
      /\ s.aboveleft = (IF col = m.cols - 1 THEN Outside(m) ELSE w.above[col])
  BY DEF Stepped, col
<1> HIDE DEF s
<1>5. Known(w.above[col]) /\ DOMAIN w.above = 0..m.cols - 1
  BY <1>1 DEF KnownWalk
<1>6. DOMAIN s.above = 0..m.cols - 1 /\ \A c \in 0..m.cols - 1 : Known(s.above[c])
  BY <1>1, <1>2, <1>4, <1>5 DEF KnownWalk
<1>7. Known(s.left) /\ Known(s.aboveleft)
  BY <1>2, <1>3, <1>4, <1>5
<1> QED BY <1>6, <1>7 DEF KnownWalk, s

LEMMA KnownThroughout ==
  ASSUME NEW m, LegalMenu(m), ~m.key, NEW picks, NEW W, NEW N \in Nat, Walked(m, picks, W, N)
  PROVE  \A n \in 0..N : KnownWalk(m, W[n])
<1> DEFINE S == { n \in Nat : n <= N => KnownWalk(m, W[n]) }
<1>1. 0 \in S
  BY KnownStart DEF Walked
<1>2. ASSUME NEW n \in Nat, n \in S PROVE n + 1 \in S
  <2> SUFFICES ASSUME n + 1 <= N PROVE KnownWalk(m, W[n + 1])
    BY <1>2
  <2>1. KnownWalk(m, W[n]) /\ n + 1 \in 1..N /\ (n + 1) - 1 = n
    BY <1>2
  <2> DEFINE k == n + 1
  <2> HIDE DEF k
  <2>2. k \in 1..N /\ k - 1 = n
    BY <2>1 DEF k
  <2>3. W[k] = Stepped(m, n, W[n], picks[k]) /\ MayChoose(m, Place(m, n, W[n]), picks[k])
    BY <2>2 DEF Walked
  <2>4. KnownWalk(m, W[k])
    BY <2>1, <2>3, KnownStep
  <2> QED BY <2>4 DEF k
<1> HIDE DEF S
<1>3. \A n \in Nat : n \in S
  BY <1>1, <1>2, NaturalInduction
<1> QED BY <1>3 DEF S

(* So every macroblock of a walk is one the two ends agree about.            *)
Agreeable(m, here, mb) == here.segmented = Segmented(m) /\ (m.key \/ KnownPlace(here)) /\ MayChoose(m, here, mb)

LEMMA AgreeableThroughout ==
  ASSUME NEW m, LegalMenu(m), NEW picks, NEW W, NEW N \in Nat, Walked(m, picks, W, N), NEW n \in 1..N
  PROVE  Agreeable(m, Place(m, n - 1, W[n - 1]), picks[n])
<1>1. n - 1 \in 0..N /\ n - 1 \in Nat
  OBVIOUS
<1>2. MayChoose(m, Place(m, n - 1, W[n - 1]), picks[n])
  BY DEF Walked
<1> DEFINE k == n - 1
<1> HIDE DEF k
<1>3. m.key \/ KnownWalk(m, W[k])
  BY <1>1, KnownThroughout DEF k
<1>4. k \in Nat /\ MayChoose(m, Place(m, k, W[k]), picks[n])
  BY <1>1, <1>2 DEF k
<1>5. Agreeable(m, Place(m, k, W[k]), picks[n])
  BY <1>3, <1>4, KnownHere DEF Agreeable
<1> QED BY <1>5 DEF k

LEMMA ChoiceFits ==
  ASSUME NEW m, LegalMenu(m), NEW here, NEW mb, Agreeable(m, here, mb)
  PROVE  ResidualFits(mb) /\ mb.segment \in Segments
<1>1. CASE m.key
  BY <1>1, ChosenKey DEF Agreeable
<1>2. CASE ~m.key
  BY <1>2, ChosenInter DEF Agreeable
<1> QED BY <1>1, <1>2

-----------------------------------------------------------------------------
(* What is left of a partition when the first k of its n parts are read.     *)
Rest(F, n, k) == SubSeq(F[n], Len(F[k]) + 1, Len(F[n]))

LEMMA SliceAfter ==
  ASSUME NEW a, NEW b, Listed(a), Listed(b)
  PROVE  SubSeq(a \o b, Len(a) + 1, Len(a \o b)) = b
<1>1. Joins(a, b, a \o b)
  BY ListedJoin
<1> DEFINE s == a \o b  from == Len(a)
<1>2. Listed(s) /\ from \in Nat /\ from + Len(b) = Len(s) /\ Len(b) \in Nat /\ \A k \in 1..Len(b) : s[from + k] = b[k]
  BY <1>1 DEF Joins
<1> HIDE DEF s, from
<1>3. from + Len(b) <= Len(s)
  BY <1>2
<1>4. SubSeq(s, from + 1, from + Len(b)) = b
  BY <1>2, <1>3, ListedSlice
<1>5. SubSeq(s, from + 1, Len(s)) = b
  BY <1>2, <1>4
<1> QED BY <1>5 DEF s, from

HasSuffix(F, n, k) == \E x : Listed(x) /\ F[n] = F[k] \o x

LEMMA SuffixExists ==
  ASSUME NEW n \in Nat, NEW parts, NEW F, PrefixesOf(F, n, parts), \A i \in 1..n : Listed(parts[i]),
         NEW k \in 0..n
  PROVE  HasSuffix(F, n, k)
<1> DEFINE S == { j \in Nat : k + j <= n => \E x : Listed(x) /\ F[k + j] = F[k] \o x }
<1>1. 0 \in S
  <2>1. k + 0 = k
    OBVIOUS
  <2>2. Listed(F[k]) /\ Listed(<<>>)
    BY ListedNone DEF PrefixesOf
  <2>3. F[k] = F[k] \o <<>>
    BY <2>2, ListedEmptyJoin
  <2>4. \E x : Listed(x) /\ F[k + 0] = F[k] \o x
    BY <2>1, <2>2, <2>3, Zenon
  <2> QED BY <2>4
<1>2. ASSUME NEW j \in Nat, j \in S PROVE j + 1 \in S
  <2> SUFFICES ASSUME k + (j + 1) <= n PROVE \E x : Listed(x) /\ F[k + (j + 1)] = F[k] \o x
    BY <1>2, SMTT(30)
  <2>1. PICK x : Listed(x) /\ F[k + j] = F[k] \o x
    BY <1>2
  <2> DEFINE i == k + (j + 1)
  <2>2. i \in 1..n /\ i - 1 = k + j
    OBVIOUS
  <2> HIDE DEF i
  <2>3. F[i] = F[i - 1] \o parts[i] /\ Listed(parts[i]) /\ Listed(F[k])
    BY <2>2 DEF PrefixesOf
  <2>4. F[i] = F[k] \o (x \o parts[i])
    <3> DEFINE u == F[k]  v == parts[i]
    <3>1. Listed(u) /\ Listed(v) /\ F[i] = (u \o x) \o v
      BY <2>1, <2>2, <2>3
    <3> HIDE DEF u, v
    <3>b. Listed(u) /\ Listed(x) /\ Listed(v)
      BY <2>1, <3>1
    <3>a. (u \o x) \o v = u \o (x \o v)
      BY <3>b, ListedAssociative, SMTT(30)
    <3>2. F[i] = u \o (x \o v)
      BY <3>1, <3>a
    <3> QED BY <3>2 DEF u, v
  <2>5. Listed(x \o parts[i])
    BY <2>1, <2>3, ListedJoin DEF Joins
  <2>6. \E y : Listed(y) /\ F[i] = F[k] \o y
    BY <2>4, <2>5
  <2> QED BY <2>6 DEF i
<1> HIDE DEF S
<1>3. \A j \in Nat : j \in S
  BY <1>1, <1>2, NaturalInduction
<1>4. n - k \in Nat /\ k + (n - k) = n
  OBVIOUS
<1> DEFINE d == n - k
<1>5. d \in S /\ k + d = n
  BY <1>3, <1>4
<1> HIDE DEF d
<1>6. k + d <= n => \E x : Listed(x) /\ F[k + d] = F[k] \o x
  BY <1>5, Zenon DEF S
<1>7. k + d <= n
  BY <1>5
<1> QED BY <1>5, <1>6, <1>7, Zenon DEF HasSuffix

RestIs(F, n, parts) ==
  /\ Rest(F, n, 0) = F[n] /\ Rest(F, n, n) = <<>>
  /\ \A k \in 0..n : Listed(Rest(F, n, k))
  /\ \A k \in 1..n : Rest(F, n, k - 1) = parts[k] \o Rest(F, n, k)

LEMMA RestSteps ==
  ASSUME NEW n \in Nat, NEW parts, NEW F, PrefixesOf(F, n, parts), \A i \in 1..n : Listed(parts[i])
  PROVE  RestIs(F, n, parts)
<1>0. \A i \in 0..n : Listed(F[i])
  BY DEF PrefixesOf
<1>1. ASSUME NEW k \in 0..n, NEW x, Listed(x), F[n] = F[k] \o x PROVE Rest(F, n, k) = x
  BY <1>0, <1>1, SliceAfter DEF Rest
<1>2. Rest(F, n, 0) = F[n]
  <2>1. F[0] = <<>> /\ 0 \in 0..n /\ n \in 0..n
    BY DEF PrefixesOf
  <2>2. F[n] = F[0] \o F[n]
    BY <1>0, <2>1, ListedEmptyJoin
  <2> QED BY <1>0, <1>1, <2>1, <2>2
<1>3. Rest(F, n, n) = <<>>
  <2>1. F[n] = F[n] \o <<>> /\ n \in 0..n
    BY <1>0, ListedEmptyJoin
  <2> QED BY <1>1, <2>1, ListedNone
<1>4. ASSUME NEW k \in 0..n PROVE Listed(Rest(F, n, k))
  <2>1. PICK x : Listed(x) /\ F[n] = F[k] \o x
    <3>1. HasSuffix(F, n, k)
      BY SuffixExists
    <3> QED BY <3>1, Zenon DEF HasSuffix
  <2> QED BY <1>1, <2>1
<1>5. ASSUME NEW k \in 1..n PROVE Rest(F, n, k - 1) = parts[k] \o Rest(F, n, k)
  <2>1. k \in 0..n /\ k - 1 \in 0..n
    OBVIOUS
  <2>2. PICK x : Listed(x) /\ F[n] = F[k] \o x
    <3>1. HasSuffix(F, n, k)
      BY <2>1, SuffixExists
    <3> QED BY <3>1, Zenon DEF HasSuffix
  <2>3. F[k] = F[k - 1] \o parts[k] /\ Listed(parts[k]) /\ Listed(F[k - 1])
    BY <1>0, <2>1 DEF PrefixesOf
  <2>4. F[n] = F[k - 1] \o (parts[k] \o x) /\ Listed(parts[k] \o x)
    <3> DEFINE u == F[k - 1]  v == parts[k]
    <3>1. Listed(u) /\ Listed(v) /\ F[n] = (u \o v) \o x
      BY <2>2, <2>3
    <3> HIDE DEF u, v
    <3>a. (u \o v) \o x = u \o (v \o x)
      BY <2>2, <3>1, ListedAssociative, SMTT(30)
    <3>2. F[n] = u \o (v \o x)
      BY <3>1, <3>a
    <3>3. Listed(v \o x)
      BY <2>2, <3>1, ListedJoin DEF Joins
    <3> QED BY <3>2, <3>3 DEF u, v
  <2> DEFINE j == k - 1
  <2> HIDE DEF j
  <2>5. j \in 0..n /\ F[n] = F[j] \o (parts[k] \o x)
    BY <2>1, <2>4 DEF j
  <2>6. Rest(F, n, j) = parts[k] \o x
    BY <1>1, <2>4, <2>5
  <2>7. Rest(F, n, k) = x
    BY <1>1, <2>1, <2>2
  <2> QED BY <2>6, <2>7 DEF j
<1> QED BY <1>2, <1>3, <1>4, <1>5 DEF RestIs

-----------------------------------------------------------------------------
(* The residual contexts of a whole walk.                                    *)
ContextStates(m) == [above : [0..m.cols - 1 -> SUBSET Slots], left : SUBSET Slots]
MbState(s) == s.above \in SUBSET Slots /\ s.left \in SUBSET Slots /\ Listed(s.coded)

LEMMA SkipAgrees ==
  ASSUME NEW c, NEW h \in BOOLEAN
  PROVE  clear_skip_ctx(c, ~h) = reset_for_skip(c, h)
BY DEF clear_skip_ctx, reset_for_skip

LEMMA ContextsAt ==
  ASSUME NEW m, LegalMenu(m), NEW n \in Nat, NEW c \in ContextStates(m)
  PROVE  c.above[Col(m, n)] \in SUBSET Slots /\ c.left \in SUBSET Slots /\ DOMAIN c.above = 0..m.cols - 1
<1>1. Col(m, n) \in 0..m.cols - 1
  BY Geometry
<1> DEFINE col == Col(m, n)
<1> HIDE DEF col
<1>2. c.above[col] \in SUBSET Slots /\ c.left \in SUBSET Slots /\ DOMAIN c.above = 0..m.cols - 1
  BY <1>1 DEF ContextStates, col
<1> QED BY <1>2 DEF col

LEMMA EncodedState ==
  ASSUME NEW residual, NEW h \in BOOLEAN, NEW above \in SUBSET Slots, NEW left \in SUBSET Slots
  PROVE  MbState(encode_mb_tokens(residual, h, above, left))
<1> DEFINE E == EncodedBlocks(residual, h, above, left)
           k == Len(ResidualOrder(h))
<1>1. EncodedRule(E, residual, h, above, left)
  BY Encoding
<1>2. k = BlockCount(h) /\ k \in 0..BlockCount(h)
  BY Order, OrderedBlocks DEF Ordered
<1>3. encode_mb_tokens(residual, h, above, left) = E[k]
  BY DEF encode_mb_tokens
<1> HIDE DEF E, k
<1>4. E[k] \in TokenStates
  BY <1>1, <1>2 DEF EncodedRule
<1>5. E[k].coded \in Seq(Tokens) /\ E[k].above \in SUBSET Slots /\ E[k].left \in SUBSET Slots
  BY <1>4 DEF TokenStates
<1> QED BY <1>3, <1>5 DEF MbState, Listed

LEMMA CodedState ==
  ASSUME NEW m, LegalMenu(m), NEW n \in Nat, NEW c \in ContextStates(m), NEW mb, ResidualFits(mb)
  PROVE  LET s == CodedMb(m, n, c, mb)
         IN MbState(s) /\ SteppedContexts(m, n, c, s.above, s.left) \in ContextStates(m)
<1> DEFINE col == Col(m, n)  above == c.above[col]  h == HasY2(mb)  s == CodedMb(m, n, c, mb)
<1>1. above \in SUBSET Slots /\ c.left \in SUBSET Slots /\ DOMAIN c.above = 0..m.cols - 1
  BY ContextsAt
<1>2. h \in BOOLEAN /\ mb.skip \in BOOLEAN
  BY DEF ResidualFits
<1>3. s = IF mb.skip
          THEN [above |-> clear_skip_ctx(above, ~h), left |-> clear_skip_ctx(c.left, ~h), coded |-> <<>>]
          ELSE encode_mb_tokens(mb.residual, h, above, c.left)
  BY DEF CodedMb
<1> HIDE DEF above, h, s
<1>4. MbState(s)
  <2>1. CASE mb.skip
    <3>1. clear_skip_ctx(above, ~h) \in SUBSET Slots /\ clear_skip_ctx(c.left, ~h) \in SUBSET Slots
      BY <1>1 DEF clear_skip_ctx
    <3> QED BY <1>3, <2>1, <3>1, ListedNone DEF MbState
  <2>2. CASE ~mb.skip
    BY <1>1, <1>2, <1>3, <2>2, EncodedState
  <2> QED BY <2>1, <2>2
<1>5. SteppedContexts(m, n, c, s.above, s.left)
        = [above |-> [c.above EXCEPT ![col] = s.above], left |-> IF col = m.cols - 1 THEN NoContext ELSE s.left]
  BY DEF SteppedContexts
<1> HIDE DEF col
<1>6. SteppedContexts(m, n, c, s.above, s.left) \in ContextStates(m)
  <2>1. c.above \in [0..m.cols - 1 -> SUBSET Slots] /\ s.above \in SUBSET Slots /\ s.left \in SUBSET Slots
        /\ NoContext \in SUBSET Slots
    BY <1>4 DEF ContextStates, MbState, NoContext
  <2> DEFINE x == s.above  y == s.left  f == c.above
             t == [above |-> [f EXCEPT ![col] = x], left |-> IF col = m.cols - 1 THEN NoContext ELSE y]
  <2>2. f \in [0..m.cols - 1 -> SUBSET Slots] /\ x \in SUBSET Slots /\ y \in SUBSET Slots
    BY <2>1
  <2> HIDE DEF x, y, f
  <2>3. [f EXCEPT ![col] = x] \in [0..m.cols - 1 -> SUBSET Slots]
    BY <2>2
  <2>4. t \in ContextStates(m)
    BY <2>1, <2>2, <2>3 DEF ContextStates
  <2> QED BY <1>5, <2>4 DEF x, y, f
<1> QED BY <1>4, <1>6 DEF s

Contexted(m, picks, C, N) ==
  /\ C[0] = FreshContexts(m)
  /\ \A n \in 1..N : C[n] = LET s == CodedMb(m, n - 1, C[n - 1], picks[n])
                            IN SteppedContexts(m, n - 1, C[n - 1], s.above, s.left)
  /\ \A n \in 0..N : C[n] \in ContextStates(m)

LEMMA ContextsExist ==
  ASSUME NEW m, LegalMenu(m), NEW N \in Nat, NEW picks, \A n \in 1..N : ResidualFits(picks[n])
  PROVE  \E C : Contexted(m, picks, C, N)
<1> DEFINE X == ContextStates(m)
           Next1(n, c) == LET s == CodedMb(m, n - 1, c, picks[n])
                          IN SteppedContexts(m, n - 1, c, s.above, s.left)
           step == [x \in (1..N) \X X |-> Next1(x[1], x[2])]
           a == FreshContexts(m)
<1>1. a \in X
  BY DEF FreshContexts, ContextStates, NoContext
<1>2. ASSUME NEW n \in 1..N, NEW c \in X PROVE Next1(n, c) \in X
  <2> DEFINE k == n - 1  s == CodedMb(m, k, c, picks[n])
  <2>1. k \in Nat
    OBVIOUS
  <2> HIDE DEF k
  <2>2. SteppedContexts(m, k, c, s.above, s.left) \in X
    BY <2>1, CodedState
  <2> QED BY <2>2 DEF k
<1>3. \A n \in 1..N, c \in X : step[<<n, c>>] = Next1(n, c)
  OBVIOUS
<1> HIDE DEF step, X, Next1, a
<1>4. \A n \in 1..N, c \in X : step[<<n, c>>] \in X
  BY <1>2, <1>3
<1>5. PICK C : StepsFrom(C, N, X, a, step)
  BY <1>1, <1>4, StepByStep
<1>6. \A n \in 0..N : C[n] \in X
  BY <1>5 DEF StepsFrom
<1>7. ASSUME NEW n \in 1..N PROVE C[n] = Next1(n, C[n - 1])
  <2>1. C[n - 1] \in X
    BY <1>6
  <2> QED BY <1>3, <1>5, <2>1 DEF StepsFrom
<1>8. C[0] = a
  BY <1>5 DEF StepsFrom
<1>9. Contexted(m, picks, C, N)
  BY <1>6, <1>7, <1>8 DEF Contexted, Next1, a, X
<1> QED BY <1>9

-----------------------------------------------------------------------------
(* The residual of a macroblock is read back, in the contexts it was written *)
(* in, and leaves the contexts the encoder was left with.                    *)
ResidualRead(s, r, mb, rest) ==
  /\ r.above = s.above /\ r.left = s.left /\ r.residual = mb.residual
  /\ r.reader.ok = TRUE /\ Unread(r.reader) = rest

LEMMA ReadsResidual ==
  ASSUME NEW m, LegalMenu(m), NEW n \in Nat, NEW c \in ContextStates(m), NEW mb, ResidualFits(mb),
         NEW d, d.skip = mb.skip, d.y = mb.y, NEW rest, Listed(rest)
  PROVE  ResidualRead(CodedMb(m, n, c, mb), ReadResidual(m, n, c, d, CodedMb(m, n, c, mb).coded \o rest), mb, rest)
<1> DEFINE col == Col(m, n)  above == c.above[col]  left == c.left  h == HasY2(mb)
           s == CodedMb(m, n, c, mb)  reader == Reader(s.coded \o rest)
           r == ReadResidual(m, n, c, d, s.coded \o rest)
<1>1. above \in SUBSET Slots /\ left \in SUBSET Slots
  BY ContextsAt
<1>2. h \in BOOLEAN /\ mb.skip \in BOOLEAN /\ mb.residual \subseteq Blocks(h) /\ (mb.skip <=> mb.residual = {})
  BY DEF ResidualFits
<1>3. s = IF mb.skip
          THEN [above |-> clear_skip_ctx(above, ~h), left |-> clear_skip_ctx(left, ~h), coded |-> <<>>]
          ELSE encode_mb_tokens(mb.residual, h, above, left)
  BY DEF CodedMb
<1>4. r = decode_mb_coeffs(reader, mb.skip, h, above, left)
  BY DEF ReadResidual, HasY2
<1>5. MbState(s)
  BY CodedState
<1> HIDE DEF above, left, h, s, r
<1>6. /\ Ahead(reader, s.coded)
      /\ \A r2 : Further(reader, Len(s.coded), r2) => Unread(r2) = rest
  BY <1>5, StartOfQueue DEF MbState
<1>7. ASSUME mb.skip PROVE ResidualRead(s, r, mb, rest)
  <2>1. s.coded = <<>> /\ s.above = clear_skip_ctx(above, ~h) /\ s.left = clear_skip_ctx(left, ~h)
    BY <1>3, <1>7
  <2>2. /\ r.reader = reader /\ r.residual = {}
        /\ r.above = reset_for_skip(above, h) /\ r.left = reset_for_skip(left, h)
    BY <1>4, <1>7 DEF decode_mb_coeffs
  <2>3. reader.ok = TRUE /\ reader.at + Len(<<>>) = reader.at
    BY ListedNone DEF Reader
  <2>4. Further(reader, Len(s.coded), reader)
    BY <2>1, <2>3 DEF Further
  <2>5. Unread(reader) = rest
    BY <1>6, <2>4
  <2>6. clear_skip_ctx(above, ~h) = reset_for_skip(above, h) /\ clear_skip_ctx(left, ~h) = reset_for_skip(left, h)
    BY <1>2, SkipAgrees
  <2> HIDE DEF reader
  <2> QED BY <1>2, <1>7, <2>1, <2>2, <2>3, <2>5, <2>6 DEF ResidualRead
<1>8. ASSUME ~mb.skip PROVE ResidualRead(s, r, mb, rest)
  <2>1. s = encode_mb_tokens(mb.residual, h, above, left)
    BY <1>3, <1>8
  <2>2. r = decode_mb_coeffs(reader, FALSE, h, above, left)
    BY <1>2, <1>4, <1>8
  <2>3. /\ r.above = s.above /\ r.left = s.left /\ r.residual = mb.residual
        /\ Further(reader, Len(s.coded), r.reader)
    <3> DEFINE e == encode_mb_tokens(mb.residual, h, above, left)
               x == decode_mb_coeffs(reader, FALSE, h, above, left)
    <3>1. Ahead(reader, e.coded)
      BY <1>6, <2>1
    <3> HIDE DEF reader
    <3> DEFINE blocks == mb.residual
    <3>a. blocks \subseteq Blocks(h) /\ Ahead(reader, encode_mb_tokens(blocks, h, above, left).coded)
      BY <1>2, <3>1
    <3> HIDE DEF blocks
    <3>b. TokensDecoded(blocks, h, above, left, reader)
      BY <1>1, <1>2, <3>a, Decoding
    <3>2. x.above = e.above /\ x.left = e.left /\ x.residual = mb.residual /\ Further(reader, Len(e.coded), x.reader)
      BY <3>b DEF blocks, TokensDecoded
    <3> QED BY <2>1, <2>2, <3>2
  <2>4. Unread(r.reader) = rest /\ r.reader.ok = TRUE
    BY <1>6, <2>3 DEF Further
  <2> QED BY <2>3, <2>4 DEF ResidualRead
<1>9. ResidualRead(s, r, mb, rest)
  BY <1>2, <1>7, <1>8
<1> QED BY <1>9 DEF s, r

-----------------------------------------------------------------------------
(* The fitter's walk: it starts its left context over when a row begins, the *)
(* encoder when one ends.                                                    *)
TokensOf(m, picks, C, n) == CodedMb(m, n - 1, C[n - 1], picks[n])
RasterParts(m, picks, C, N) == [n \in 1..N |-> TokensOf(m, picks, C, n).coded]
CountedAt(m, picks, C, R, N) ==
  [n \in 0..N |-> [above |-> C[n].above,
                   left |-> IF n = 0 THEN NoContext ELSE TokensOf(m, picks, C, n).left,
                   counts |-> Tally(R[n])]]

RowStarts(m, picks, C, n) ==
  IF Col(m, n) = 0 THEN C[n].left = NoContext
  ELSE n # 0 /\ C[n].left = TokensOf(m, picks, C, n).left

LEMMA StartsRows ==
  ASSUME NEW m, LegalMenu(m), NEW picks, NEW N \in Nat, NEW C, Contexted(m, picks, C, N), NEW n \in 0..N
  PROVE  RowStarts(m, picks, C, n)
<1>1. CASE n = 0
  <2>1. C[0].left = NoContext
    BY DEF Contexted, FreshContexts
  <2> QED BY <1>1, <2>1, Geometry DEF RowStarts
<1>2. CASE n # 0
  <2> DEFINE k == n - 1
  <2>1. k \in Nat /\ n = k + 1 /\ n \in 1..N
    BY <1>2
  <2>2. C[n].left = IF Col(m, k) = m.cols - 1 THEN NoContext ELSE TokensOf(m, picks, C, n).left
    <3> DEFINE s == CodedMb(m, n - 1, C[n - 1], picks[n])
    <3>1. C[n] = SteppedContexts(m, n - 1, C[n - 1], s.above, s.left)
      BY <2>1 DEF Contexted
    <3>2. s = TokensOf(m, picks, C, n)
      BY DEF TokensOf
    <3> HIDE DEF s
    <3> QED BY <3>1, <3>2 DEF SteppedContexts
  <2> HIDE DEF k
  <2>3. Col(m, n) = IF Col(m, k) = m.cols - 1 THEN 0 ELSE Col(m, k) + 1
    BY <2>1, Geometry
  <2>4. Col(m, k) \in 0..m.cols - 1
    BY <2>1, Geometry
  <2> QED BY <1>2, <2>2, <2>3, <2>4 DEF RowStarts
<1> QED BY <1>1, <1>2

LEMMA CountsOne ==
  ASSUME NEW m, LegalMenu(m), NEW n \in Nat, NEW c \in ContextStates(m), NEW mb, ResidualFits(mb),
         NEW t, Listed(t), NEW left, (IF Col(m, n) = 0 THEN NoContext ELSE left) = c.left
  PROVE  LET e == CodedMb(m, n, c, mb)
         IN CountOne(m, mb, [above |-> c.above, left |-> left, counts |-> Tally(t)], n)
              = [above |-> [c.above EXCEPT ![Col(m, n)] = e.above], left |-> e.left, counts |-> Tally(t \o e.coded)]
<1> DEFINE col == Col(m, n)  above == c.above[col]  l == c.left  h == HasY2(mb)  e == CodedMb(m, n, c, mb)
           s == [above |-> c.above, left |-> left, counts |-> Tally(t)]
           skipped == [above |-> clear_skip_ctx(above, ~h), left |-> clear_skip_ctx(l, ~h), counts |-> Tally(t)]
           counted == count_mb_branches(mb.residual, ~h, [above |-> above, left |-> l, counts |-> Tally(t)])
           u == IF mb.skip THEN skipped ELSE counted
<1>1. above \in SUBSET Slots /\ l \in SUBSET Slots
  BY ContextsAt
<1>2. h \in BOOLEAN /\ mb.skip \in BOOLEAN
  BY DEF ResidualFits
<1>3. e = IF mb.skip
          THEN [above |-> clear_skip_ctx(above, ~h), left |-> clear_skip_ctx(l, ~h), coded |-> <<>>]
          ELSE encode_mb_tokens(mb.residual, h, above, l)
  BY DEF CodedMb
<1>4. CountOne(m, mb, s, n) = [above |-> [c.above EXCEPT ![col] = u.above], left |-> u.left, counts |-> u.counts]
  <2>1. s.above = c.above /\ s.left = left /\ s.counts = Tally(t)
    OBVIOUS
  <2>2. (IF col = 0 THEN NoContext ELSE s.left) = l
    BY <2>1
  <2> HIDE DEF s, col
  <2> QED BY <2>1, <2>2 DEF CountOne, col
<1> HIDE DEF above, l, h, e
<1>5. u = [above |-> e.above, left |-> e.left, counts |-> Tally(t \o e.coded)]
  <2>1. CASE mb.skip
    <3>1. e.coded = <<>> /\ e.above = clear_skip_ctx(above, ~h) /\ e.left = clear_skip_ctx(l, ~h)
      BY <1>3, <2>1
    <3>2. t \o <<>> = t
      BY ListedEmptyJoin
    <3> QED BY <2>1, <3>1, <3>2
  <2>2. CASE ~mb.skip
    <3>1. e = encode_mb_tokens(mb.residual, h, above, l) /\ u = counted
      BY <1>3, <2>2
    <3> DEFINE x == encode_mb_tokens(mb.residual, h, above, l)
    <3>2. counted = [above |-> x.above, left |-> x.left, counts |-> Tally(t \o x.coded)]
      BY <1>1, <1>2, Counting
    <3> QED BY <3>1, <3>2
  <2> QED BY <1>2, <2>1, <2>2
<1> HIDE DEF u, s, col
<1>6. u.above = e.above /\ u.left = e.left /\ u.counts = Tally(t \o e.coded)
  BY <1>5
<1>7. CountOne(m, mb, s, n) = [above |-> [c.above EXCEPT ![col] = e.above], left |-> e.left, counts |-> Tally(t \o e.coded)]
  BY <1>4, <1>6
<1> QED BY <1>7 DEF s, col, e

CountRule(G, m, picks) ==
  G = [r \in 0..Count(m) |->
         IF r = 0 THEN [above |-> FreshContexts(m).above, left |-> NoContext, counts |-> EmptyBag]
         ELSE CountOne(m, picks[r], G[r - 1], r - 1)]

LEMMA CountsSoFar ==
  ASSUME NEW m, LegalMenu(m), NEW picks, NEW N, N = Count(m), \A n \in 1..N : ResidualFits(picks[n]),
         NEW C, Contexted(m, picks, C, N), NEW R, PrefixesOf(R, N, RasterParts(m, picks, C, N))
  PROVE  CountRule(CountedAt(m, picks, C, R, N), m, picks)
<1> DEFINE G == CountedAt(m, picks, C, R, N)
           First == [above |-> FreshContexts(m).above, left |-> NoContext, counts |-> EmptyBag]
<1>0. N \in Nat
  BY Geometry
<1>1. G[0] = First
  <2>1. G[0] = [above |-> C[0].above, left |-> NoContext, counts |-> Tally(R[0])] /\ C[0] = FreshContexts(m) /\ R[0] = <<>>
    BY <1>0 DEF CountedAt, Contexted, PrefixesOf
  <2>2. Tally(<<>>) = EmptyBag
    BY DEF Tally, EmptyBag, Range, SetToBag
  <2> QED BY <2>1, <2>2
<1>2. ASSUME NEW r \in 1..N PROVE G[r] = CountOne(m, picks[r], G[r - 1], r - 1)
  <2> DEFINE n == r - 1  c == C[n]  e == TokensOf(m, picks, C, r)
             left == IF n = 0 THEN NoContext ELSE TokensOf(m, picks, C, n).left
  <2>1. n \in 0..N /\ n \in Nat /\ r # 0 /\ r \in 0..N
    BY <1>0
  <2>2. G[r] = [above |-> C[r].above, left |-> e.left, counts |-> Tally(R[r])]
    BY <2>1 DEF CountedAt
  <2>3. e = CodedMb(m, n, c, picks[r])
    BY DEF TokensOf
  <2>4. C[r].above = [c.above EXCEPT ![Col(m, n)] = e.above]
    <3>1. C[r] = LET s == CodedMb(m, n, c, picks[r]) IN SteppedContexts(m, n, c, s.above, s.left)
      BY DEF Contexted
    <3> HIDE DEF e, c, n
    <3> QED BY <2>3, <3>1 DEF SteppedContexts
  <2>5. R[r] = R[n] \o e.coded /\ Listed(R[n])
    BY <2>1 DEF PrefixesOf, RasterParts
  <2>6. RowStarts(m, picks, C, n)
    <3> HIDE DEF n
    <3> QED BY <1>0, <2>1, StartsRows
  <2>7. G[n] = [above |-> c.above, left |-> left, counts |-> Tally(R[n])]
    <3> HIDE DEF n
    <3> QED BY <2>1 DEF CountedAt
  <2>8. c \in ContextStates(m) /\ ResidualFits(picks[r])
    BY <2>1 DEF Contexted
  <2> HIDE DEF n
  <2>9. (IF Col(m, n) = 0 THEN NoContext ELSE left) = c.left
    <3>1. CASE Col(m, n) = 0
      BY <2>6, <3>1 DEF RowStarts
    <3>2. CASE Col(m, n) # 0
      BY <2>6, <3>2 DEF RowStarts
    <3> QED BY <3>1, <3>2
  <2> HIDE DEF c, e, left, G
  <2> DEFINE t == R[n]  mb == picks[r]
  <2>10. Listed(t) /\ ResidualFits(mb) /\ e = CodedMb(m, n, c, mb)
    BY <2>3, <2>5, <2>8
  <2>11. G[n] = [above |-> c.above, left |-> left, counts |-> Tally(t)]
    BY <2>7
  <2>12. G[r] = [above |-> [c.above EXCEPT ![Col(m, n)] = e.above], left |-> e.left, counts |-> Tally(t \o e.coded)]
    BY <2>2, <2>4, <2>5
  <2> HIDE DEF t, mb
  <2>13. CountOne(m, mb, G[n], n) = [above |-> [c.above EXCEPT ![Col(m, n)] = e.above], left |-> e.left, counts |-> Tally(t \o e.coded)]
    BY <2>1, <2>8, <2>9, <2>10, <2>11, CountsOne
  <2> QED BY <2>12, <2>13 DEF n, mb
<1>3. G = [r \in 0..N |-> G[r]]
  BY DEF CountedAt
<1> HIDE DEF G, First
<1>4. \A r \in 0..N : G[r] = IF r = 0 THEN First ELSE CountOne(m, picks[r], G[r - 1], r - 1)
  <2> SUFFICES ASSUME NEW r \in 0..N PROVE G[r] = IF r = 0 THEN First ELSE CountOne(m, picks[r], G[r - 1], r - 1)
    OBVIOUS
  <2>1. r = 0 \/ r \in 1..N
    BY <1>0
  <2> QED BY <1>0, <1>1, <1>2, <2>1
<1>5. G = [r \in 0..N |-> IF r = 0 THEN First ELSE CountOne(m, picks[r], G[r - 1], r - 1)]
  BY <1>3, <1>4
<1> QED BY <1>5 DEF CountRule, G, First

LEMMA SameSteps ==
  ASSUME NEW N \in Nat, NEW f, NEW g, f[0] = g[0], \A n \in 1..N : f[n - 1] = g[n - 1] => f[n] = g[n]
  PROVE  \A n \in 0..N : f[n] = g[n]
<1> DEFINE S == { n \in Nat : n <= N => f[n] = g[n] }
<1>1. 0 \in S
  OBVIOUS
<1>2. ASSUME NEW n \in Nat, n \in S PROVE n + 1 \in S
  <2> SUFFICES ASSUME n + 1 <= N PROVE f[n + 1] = g[n + 1]
    OBVIOUS
  <2> DEFINE k == n + 1
  <2>1. k \in 1..N /\ k - 1 = n /\ f[n] = g[n]
    BY <1>2
  <2> HIDE DEF k
  <2>2. f[k] = g[k]
    BY <2>1
  <2> QED BY <2>2 DEF k
<1> HIDE DEF S
<1>3. \A n \in Nat : n \in S
  BY <1>1, <1>2, NaturalInduction
<1> QED BY <1>3 DEF S

StepAlike(N, f, g) == f[0] = g[0] /\ \A n \in 1..N : f[n - 1] = g[n - 1] => f[n] = g[n]
LEMMA AlikeThroughout ==
  ASSUME NEW N \in Nat, NEW f, NEW g, StepAlike(N, f, g)
  PROVE  \A n \in 0..N : f[n] = g[n]
<1>1. f[0] = g[0] /\ \A n \in 1..N : f[n - 1] = g[n - 1] => f[n] = g[n]
  BY Zenon DEF StepAlike
<1> QED BY <1>1, SameSteps

LEMMA Counts ==
  ASSUME NEW m, LegalMenu(m), NEW picks, NEW N, N = Count(m), \A n \in 1..N : ResidualFits(picks[n]),
         NEW C, Contexted(m, picks, C, N), NEW R, PrefixesOf(R, N, RasterParts(m, picks, C, N))
  PROVE  CountedMbs(m, picks)[N].counts = Tally(R[N])
<1> DEFINE A == CountedAt(m, picks, C, R, N)  G == CountedMbs(m, picks)
<1>1. N \in Nat
  BY Geometry
<1>2. CountRule(A, m, picks)
  BY CountsSoFar
<1>3. G = CHOOSE g : CountRule(g, m, picks)
  BY DEF CountedMbs, CountRule
<1> HIDE DEF A, G
<1>4. CountRule(G, m, picks)
  BY <1>2, <1>3
<1> DEFINE First == [above |-> FreshContexts(m).above, left |-> NoContext, counts |-> EmptyBag]
<1>5. \A g : CountRule(g, m, picks) =>
        \A r \in 0..N : g[r] = IF r = 0 THEN First ELSE CountOne(m, picks[r], g[r - 1], r - 1)
  <2> SUFFICES ASSUME NEW g, CountRule(g, m, picks)
               PROVE  \A r \in 0..N : g[r] = IF r = 0 THEN First ELSE CountOne(m, picks[r], g[r - 1], r - 1)
    OBVIOUS
  <2>1. g = [r \in 0..N |-> IF r = 0 THEN First ELSE CountOne(m, picks[r], g[r - 1], r - 1)]
    BY DEF CountRule
  <2> HIDE DEF First
  <2> DEFINE e(r) == IF r = 0 THEN First ELSE CountOne(m, picks[r], g[r - 1], r - 1)
  <2>2. g = [r \in 0..N |-> e(r)]
    BY <2>1
  <2> HIDE DEF e
  <2>3. \A r \in 0..N : g[r] = e(r)
    BY <2>2
  <2> QED BY <2>3 DEF e
<1> HIDE DEF First
<1>6. G[0] = A[0]
  BY <1>1, <1>2, <1>4, <1>5
<1>7. ASSUME NEW n \in 1..N, G[n - 1] = A[n - 1] PROVE G[n] = A[n]
  <2>1. n \in 0..N /\ n # 0
    BY <1>1
  <2>2. G[n] = CountOne(m, picks[n], G[n - 1], n - 1) /\ A[n] = CountOne(m, picks[n], A[n - 1], n - 1)
    BY <1>2, <1>4, <1>5, <2>1
  <2> QED BY <1>7, <2>2
<1>8. G[N] = A[N]
  <2>1. N \in 0..N /\ \A n \in 0..N : G[n] = A[n]
    BY <1>1, <1>6, <1>7, SameSteps
  <2> QED BY <2>1
<1>9. A[N].counts = Tally(R[N])
  <2>1. N \in 0..N
    BY <1>1
  <2> QED BY <2>1 DEF A, CountedAt
<1> QED BY <1>8, <1>9 DEF G

-----------------------------------------------------------------------------
(* The tokens of the partitions together are those of the raster walk.       *)
TokenParts(m, picks, C, N, p) ==
  [n \in 1..N |-> IF PartitionOf(m, n - 1) = p THEN TokensOf(m, picks, C, n).coded ELSE <<>>]
Partitions(m, Q, n) == [p \in 1..m.partitions |-> Q[p - 1][n]]

TokenPrefixes(m, picks, C, N, Q) ==
  \A p \in 0..m.partitions - 1 : PrefixesOf(Q[p], N, TokenParts(m, picks, C, N, p))

GrownAt(K, a, b, q, x) ==
  /\ q \in 1..K /\ Listed(x) /\ b[q] = a[q] \o x
  /\ \A i \in 1..K : Listed(a[i]) /\ (i # q => b[i] = a[i])

LEMMA FlatOcc ==
  ASSUME NEW K \in Nat, NEW a, NEW b, NEW F, PrefixesOf(F, K, a), NEW G, PrefixesOf(G, K, b),
         NEW q, NEW x, GrownAt(K, a, b, q, x), NEW e
  PROVE  Occ(G[K], e) = Occ(F[K], e) + Occ(x, e)
<1> USE DEF GrownAt
<1> DEFINE Extra(i) == IF i >= q THEN Occ(x, e) ELSE 0
           S == { i \in Nat : i <= K => Occ(G[i], e) = Occ(F[i], e) + Extra(i) }
<1>0. /\ Occ(x, e) \in Nat /\ \A i \in 0..K : Occ(F[i], e) \in Nat /\ Occ(G[i], e) \in Nat
      /\ \A i \in 1..K : Occ(a[i], e) \in Nat
  BY OccFinite DEF PrefixesOf
<1>1. 0 \in S
  <2>1. F[0] = <<>> /\ G[0] = <<>> /\ 0 \in 0..K
    BY DEF PrefixesOf
  <2>2. ~(0 >= q)
    OBVIOUS
  <2>3. Occ(G[0], e) = Occ(F[0], e) + 0
    BY <1>0, <2>1
  <2> QED BY <2>2, <2>3
<1>2. ASSUME NEW n \in Nat, n \in S PROVE n + 1 \in S
  <2> SUFFICES ASSUME n + 1 <= K PROVE Occ(G[n + 1], e) = Occ(F[n + 1], e) + Extra(n + 1)
    OBVIOUS
  <2> DEFINE i == n + 1
  <2>1. i \in 1..K /\ i - 1 = n /\ n \in 0..K /\ Occ(G[n], e) = Occ(F[n], e) + Extra(n)
    BY <1>2
  <2>i. i \in 0..K /\ i \in Nat /\ (i >= q <=> n >= q \/ i = q) /\ ~(n >= q /\ i = q)
    OBVIOUS
  <2> HIDE DEF i
  <2>2. /\ F[i] = F[n] \o a[i] /\ G[i] = G[n] \o b[i] /\ Listed(F[n]) /\ Listed(G[n])
        /\ Listed(a[i])
    BY <2>1 DEF PrefixesOf
  <2>3. Occ(F[i], e) = Occ(F[n], e) + Occ(a[i], e)
    BY <2>2, OccJoin
  <2>4. CASE i = q
    <3>1. b[i] = a[i] \o x /\ Listed(a[i] \o x)
      BY <2>2, <2>4, ListedJoin DEF Joins
    <3>2. Occ(a[i] \o x, e) = Occ(a[i], e) + Occ(x, e)
      BY <2>2, OccJoin
    <3>3. Occ(G[i], e) = Occ(G[n], e) + Occ(b[i], e)
      BY <2>2, <3>1, OccJoin
    <3>4. Occ(b[i], e) = Occ(a[i], e) + Occ(x, e)
      BY <3>1, <3>2
    <3>5. Extra(n) = 0 /\ Extra(i) = Occ(x, e)
      BY <2>4, <2>i
    <3> HIDE DEF Extra
    <3>6. Occ(G[i], e) = Occ(F[i], e) + Extra(i)
      <4> DEFINE g1 == Occ(G[i], e)  g0 == Occ(G[n], e)  f1 == Occ(F[i], e)  f0 == Occ(F[n], e)
                 u == Occ(a[i], e)  v == Occ(b[i], e)  w == Occ(x, e)  e0 == Extra(n)  e1 == Extra(i)
      <4>1. /\ f0 \in Nat /\ u \in Nat /\ w \in Nat
            /\ g1 = g0 + v /\ v = u + w /\ f1 = f0 + u /\ g0 = f0 + e0 /\ e0 = 0 /\ e1 = w
        BY <1>0, <2>1, <2>3, <3>3, <3>4, <3>5
      <4> HIDE DEF g1, g0, f1, f0, u, v, w, e0, e1
      <4>2. g1 = f1 + e1
        BY <4>1
      <4> QED BY <4>2 DEF g1, f1, e1
    <3> QED BY <3>6 DEF i
  <2>5. CASE i # q
    <3>1. b[i] = a[i]
      BY <2>1, <2>5
    <3>2. Occ(G[i], e) = Occ(G[n], e) + Occ(a[i], e)
      BY <2>2, <3>1, OccJoin
    <3>3. Extra(n) = Extra(i) /\ Extra(n) \in Nat
      BY <1>0, <2>5, <2>i
    <3> HIDE DEF Extra
    <3>6. Occ(G[i], e) = Occ(F[i], e) + Extra(i)
      BY <1>0, <2>1, <2>3, <3>2, <3>3, SMTT(30)
    <3> QED BY <3>6 DEF i
  <2> QED BY <2>4, <2>5
<1> HIDE DEF S
<1>3. \A n \in Nat : n \in S
  BY <1>1, <1>2, NaturalInduction
<1>4. K \in S /\ K >= q
  BY <1>3
<1> QED BY <1>4 DEF S

LEMMA FlatNone ==
  ASSUME NEW K \in Nat, NEW a, NEW F, PrefixesOf(F, K, a), \A i \in 1..K : a[i] = <<>>
  PROVE  \A i \in 0..K : F[i] = <<>>
<1> DEFINE g == [i \in 0..K |-> <<>>]
<1>1. F[0] = g[0]
  BY DEF PrefixesOf
<1>2. ASSUME NEW i \in 1..K, F[i - 1] = g[i - 1] PROVE F[i] = g[i]
  <2>1. i - 1 \in 0..K /\ i \in 0..K
    OBVIOUS
  <2>2. F[i - 1] = <<>> /\ a[i] = <<>> /\ F[i] = F[i - 1] \o a[i]
    BY <1>2, <2>1 DEF PrefixesOf
  <2>3. F[i] = <<>>
    BY <2>2, ListedNone, ListedEmptyJoin
  <2> QED BY <2>1, <2>3
<1> HIDE DEF g
<1>3. StepAlike(K, F, g)
  BY <1>1, <1>2 DEF StepAlike
<1>4. \A i \in 0..K : F[i] = g[i]
  BY <1>3, AlikeThroughout
<1> QED BY <1>4 DEF g

LEMMA TokensListed ==
  ASSUME NEW m, LegalMenu(m), NEW picks, NEW N \in Nat, \A n \in 1..N : ResidualFits(picks[n]),
         NEW C, Contexted(m, picks, C, N)
  PROVE  \A n \in 1..N : MbState(TokensOf(m, picks, C, n)) /\ Listed(RasterParts(m, picks, C, N)[n])
                           /\ \A p : Listed(TokenParts(m, picks, C, N, p)[n])
<1> SUFFICES ASSUME NEW n \in 1..N
             PROVE  MbState(TokensOf(m, picks, C, n)) /\ Listed(RasterParts(m, picks, C, N)[n])
                     /\ \A p : Listed(TokenParts(m, picks, C, N, p)[n])
  OBVIOUS
<1> DEFINE k == n - 1
<1>1. k \in Nat /\ k \in 0..N
  OBVIOUS
<1> HIDE DEF k
<1>2. C[k] \in ContextStates(m)
  BY <1>1 DEF Contexted
<1>3. MbState(CodedMb(m, k, C[k], picks[n]))
  BY <1>1, <1>2, CodedState
<1>4. MbState(TokensOf(m, picks, C, n))
  BY <1>3 DEF TokensOf, k
<1> QED BY <1>4, ListedNone DEF MbState, RasterParts, TokenParts

(* One macroblock's tokens, in the partition of its row.                     *)
PartitionGrows(m, picks, C, Q, n, p) ==
  /\ Listed(Q[p][n - 1]) /\ Listed(Q[p][n])
  /\ p = PartitionOf(m, n - 1) => Q[p][n] = Q[p][n - 1] \o TokensOf(m, picks, C, n).coded
  /\ p # PartitionOf(m, n - 1) => Q[p][n] = Q[p][n - 1]

LEMMA PartitionsStep ==
  ASSUME NEW m, LegalMenu(m), NEW picks, NEW N \in Nat, \A n \in 1..N : ResidualFits(picks[n]),
         NEW C, Contexted(m, picks, C, N), NEW Q, TokenPrefixes(m, picks, C, N, Q), NEW n \in 1..N,
         NEW p \in 0..m.partitions - 1
  PROVE  PartitionGrows(m, picks, C, Q, n, p)
<1> DEFINE a == TokenParts(m, picks, C, N, p)  F == Q[p]
<1>1. PrefixesOf(F, N, a)
  BY DEF TokenPrefixes
<1>2. a[n] = IF PartitionOf(m, n - 1) = p THEN TokensOf(m, picks, C, n).coded ELSE <<>>
  BY DEF TokenParts
<1> HIDE DEF a, F
<1>3. F[n] = F[n - 1] \o a[n] /\ Listed(F[n - 1]) /\ Listed(F[n])
  <2>1. n - 1 \in 0..N /\ n \in 0..N
    OBVIOUS
  <2> QED BY <1>1, <2>1 DEF PrefixesOf
<1>4. F[n - 1] \o <<>> = F[n - 1]
  BY <1>3, ListedEmptyJoin
<1> QED BY <1>2, <1>3, <1>4 DEF F, PartitionGrows

(* The partitions one after the other: how they begin, and what they hold.   *)
Bodies(m, Q, n, F) == PrefixesOf(F, m.partitions, Partitions(m, Q, n))

LEMMA BodiesExist ==
  ASSUME NEW m, LegalMenu(m), NEW Q, NEW n, \A p \in 0..m.partitions - 1 : Listed(Q[p][n])
  PROVE  /\ \E F : Bodies(m, Q, n, F)
         /\ \A F : Bodies(m, Q, n, F) => FlattenSeq(Partitions(m, Q, n)) = F[m.partitions]
         /\ \A i \in 1..m.partitions : Listed(Partitions(m, Q, n)[i])
<1> DEFINE K == m.partitions  parts == Partitions(m, Q, n)
<1>1. K \in Nat \ {0}
  BY Geometry
<1>2. \A i \in 1..K : parts[i] = Q[i - 1][n] /\ i - 1 \in 0..K - 1
  BY <1>1 DEF Partitions
<1>3. \A i \in 1..K : Listed(parts[i])
  BY <1>2
<1>4. parts = [i \in 1..K |-> parts[i]]
  BY DEF Partitions
<1> HIDE DEF parts, K
<1>5. \E F : PrefixesOf(F, K, parts)
  BY <1>1, <1>3, PrefixesExist
<1>6. ASSUME NEW F, PrefixesOf(F, K, parts) PROVE FlattenSeq(parts) = F[K]
  <2>1. Listed(parts[1])
    BY <1>1, <1>3
  <2> QED BY <1>1, <1>4, <1>6, <2>1, Flattening
<1> QED BY <1>3, <1>5, <1>6 DEF parts, K, Bodies

LEMMA PartitionsOcc ==
  ASSUME NEW m, LegalMenu(m), NEW picks, NEW N \in Nat, \A n \in 1..N : ResidualFits(picks[n]),
         NEW C, Contexted(m, picks, C, N), NEW Q, TokenPrefixes(m, picks, C, N, Q),
         NEW R, PrefixesOf(R, N, RasterParts(m, picks, C, N)), NEW e
  PROVE  Occ(FlattenSeq(Partitions(m, Q, N)), e) = Occ(R[N], e)
<1> DEFINE K == m.partitions
           S == { n \in Nat : n <= N => Occ(FlattenSeq(Partitions(m, Q, n)), e) = Occ(R[n], e) }
<1>1. K \in Nat \ {0}
  BY Geometry
<1>2. \A n \in 0..N : \A p \in 0..m.partitions - 1 : Listed(Q[p][n])
  BY DEF TokenPrefixes, PrefixesOf
<1>3. 0 \in S
  <2>0. \A p \in 0..m.partitions - 1 : Listed(Q[p][0])
    BY <1>2
  <2>1. PICK F : Bodies(m, Q, 0, F)
    BY <2>0, BodiesExist
  <2>2. \A i \in 1..K : Partitions(m, Q, 0)[i] = <<>>
    <3>1. \A p \in 0..K - 1 : Q[p][0] = <<>>
      BY DEF TokenPrefixes, PrefixesOf
    <3>2. \A i \in 1..K : i - 1 \in 0..K - 1
      BY <1>1
    <3> QED BY <3>1, <3>2 DEF Partitions
  <2>3. F[K] = <<>>
    <3> HIDE DEF K
    <3>1. PrefixesOf(F, K, Partitions(m, Q, 0)) /\ K \in Nat /\ K \in 0..K
      BY <1>1, <2>1 DEF Bodies, K
    <3> QED BY <2>2, <3>1, FlatNone
  <2>4. FlattenSeq(Partitions(m, Q, 0)) = <<>>
    BY <2>0, <2>1, <2>3, BodiesExist
  <2>5. R[0] = <<>>
    BY DEF PrefixesOf
  <2> QED BY <2>4, <2>5
<1>4. ASSUME NEW n \in Nat, n \in S PROVE n + 1 \in S
  <2> SUFFICES ASSUME n + 1 <= N
               PROVE  Occ(FlattenSeq(Partitions(m, Q, n + 1)), e) = Occ(R[n + 1], e)
    OBVIOUS
  <2> DEFINE k == n + 1  pn == PartitionOf(m, n)  q == pn + 1  x == TokensOf(m, picks, C, k).coded
             a == Partitions(m, Q, n)  b == Partitions(m, Q, k)
  <2>1. k \in 1..N /\ k \in 0..N /\ k - 1 = n /\ n \in 0..N
    OBVIOUS
  <2>2. pn \in 0..K - 1 /\ q \in 1..K /\ q - 1 = pn
    BY <1>1, Geometry, SMTT(30)
  <2>3. \A p \in 0..K - 1 : /\ p = pn => Q[p][k] = Q[p][n] \o x
                            /\ p # pn => Q[p][k] = Q[p][n]
    <3> HIDE DEF k
    <3> SUFFICES ASSUME NEW p \in 0..K - 1
                 PROVE  /\ p = pn => Q[p][k] = Q[p][n] \o x
                        /\ p # pn => Q[p][k] = Q[p][n]
      OBVIOUS
    <3>1. PartitionGrows(m, picks, C, Q, k, p)
      BY <2>1, PartitionsStep
    <3> QED BY <2>1, <3>1 DEF PartitionGrows
  <2>4. Occ(FlattenSeq(a), e) = Occ(R[n], e)
    BY <1>4
  <2>5. Listed(x) /\ R[k] = R[n] \o x /\ Listed(R[n])
    <3> HIDE DEF k
    <3>1. MbState(TokensOf(m, picks, C, k))
      BY <2>1, TokensListed
    <3> QED BY <2>1, <3>1 DEF PrefixesOf, RasterParts, MbState
  <2>6. \A i \in 1..K : a[i] = Q[i - 1][n] /\ b[i] = Q[i - 1][k] /\ i - 1 \in 0..K - 1
    BY <1>1 DEF Partitions
  <2> HIDE DEF k, pn, q, x, a, b, S
  <2>7. b[q] = a[q] \o x /\ \A i \in 1..K : i # q => b[i] = a[i]
    <3>1. b[q] = a[q] \o x
      BY <2>2, <2>3, <2>6
    <3>2. ASSUME NEW i \in 1..K, i # q PROVE b[i] = a[i]
      <4>1. i - 1 \in 0..K - 1 /\ i - 1 # pn
        BY <1>1, <2>2, <2>6, <3>2
      <4>2. a[i] = Q[i - 1][n] /\ b[i] = Q[i - 1][k]
        BY <2>6
      <4> DEFINE j == i - 1
      <4> HIDE DEF j
      <4>3. j \in 0..K - 1 /\ j # pn /\ a[i] = Q[j][n] /\ b[i] = Q[j][k]
        BY <4>1, <4>2 DEF j
      <4> QED BY <2>3, <4>3
    <3> QED BY <3>1, <3>2
  <2>8. PICK F : Bodies(m, Q, n, F)
    BY <1>2, <2>1, BodiesExist
  <2>9. PICK G : Bodies(m, Q, k, G)
    BY <1>2, <2>1, BodiesExist
  <2>10. FlattenSeq(a) = F[K] /\ FlattenSeq(b) = G[K] /\ \A i \in 1..K : Listed(a[i])
    BY <1>2, <2>1, <2>8, <2>9, BodiesExist DEF a, b
  <2>11. PrefixesOf(F, K, a) /\ PrefixesOf(G, K, b)
    BY <2>8, <2>9 DEF Bodies, a, b
  <2> HIDE DEF K
  <2>12. Occ(G[K], e) = Occ(F[K], e) + Occ(x, e)
    <3>1. K \in Nat
      BY <1>1
    <3>2. GrownAt(K, a, b, q, x)
      BY <2>2, <2>5, <2>7, <2>10 DEF GrownAt
    <3> QED BY <2>11, <3>1, <3>2, FlatOcc
  <2>13. Occ(R[k], e) = Occ(R[n], e) + Occ(x, e)
    BY <2>5, OccJoin
  <2>14. Occ(FlattenSeq(b), e) = Occ(R[k], e)
    BY <2>4, <2>10, <2>12, <2>13
  <2> QED BY <2>14 DEF b, k
<1> HIDE DEF S
<1>5. \A n \in Nat : n \in S
  BY <1>3, <1>4, NaturalInduction
<1>6. N \in S
  BY <1>5
<1> QED BY <1>6 DEF S

LEMMA CountsMatch ==
  ASSUME NEW m, LegalMenu(m), NEW picks, NEW N, N = Count(m), \A n \in 1..N : ResidualFits(picks[n]),
         NEW C, Contexted(m, picks, C, N), NEW Q, TokenPrefixes(m, picks, C, N, Q)
  PROVE  CountedMbs(m, picks)[N].counts = Tally(FlattenSeq(Partitions(m, Q, N)))
<1>1. N \in Nat
  BY Geometry
<1>2. PICK R : PrefixesOf(R, N, RasterParts(m, picks, C, N))
  BY <1>1, TokensListed, PrefixesExist
<1>3. CountedMbs(m, picks)[N].counts = Tally(R[N])
  BY <1>2, Counts
<1> DEFINE body == FlattenSeq(Partitions(m, Q, N))  K == m.partitions
<1>4. \A e : Occ(body, e) = Occ(R[N], e)
  BY <1>1, <1>2, PartitionsOcc
<1>5. Listed(R[N]) /\ Listed(body)
  <2>1. \A p \in 0..m.partitions - 1 : Listed(Q[p][N])
    <3>1. N \in 0..N
      BY <1>1
    <3> QED BY <3>1 DEF TokenPrefixes, PrefixesOf
  <2>2. PICK F : Bodies(m, Q, N, F)
    BY <2>1, BodiesExist
  <2>3. body = F[K]
    BY <2>1, <2>2, BodiesExist
  <2>4. K \in 0..K
    BY Geometry
  <2>5. Listed(F[K])
    BY <2>2, <2>4 DEF Bodies, PrefixesOf
  <2> QED BY <1>1, <1>2, <2>3, <2>5 DEF PrefixesOf
<1> HIDE DEF body
<1>6. Tally(body) = Tally(R[N])
  BY <1>4, <1>5, SameTally
<1> QED BY <1>3, <1>6 DEF body

-----------------------------------------------------------------------------
(* The decoder cuts the body where the encoder joined it.                    *)
LEMMA Carving ==
  ASSUME NEW K \in Nat \ {0}, NEW parts, parts = [i \in 1..K |-> parts[i]], \A i \in 1..K : Listed(parts[i])
  PROVE  carve_dct_partitions(K, [p \in 1..K - 1 |-> Len(parts[p])], FlattenSeq(parts))
           = [p \in 0..K - 1 |-> parts[p + 1]]
<1> DEFINE sizes == [p \in 1..K - 1 |-> Len(parts[p])]  body == FlattenSeq(parts)
           start == Starts(K, sizes)
           StartRule(g) == g = [p \in 0..K - 1 |-> IF p = 0 THEN 0 ELSE g[p - 1] + sizes[p]]
<1>1. PICK F : PrefixesOf(F, K, parts)
  BY PrefixesExist
<1>2. body = F[K]
  BY <1>1, Flattening
<1>3. \A i \in 1..K : F[i] = F[i - 1] \o parts[i] /\ Listed(F[i - 1]) /\ Listed(F[i]) /\ Len(F[i]) = Len(F[i - 1]) + Len(parts[i])
                        /\ Len(F[i - 1]) \in Nat /\ Len(parts[i]) \in Nat
  <2> SUFFICES ASSUME NEW i \in 1..K
               PROVE  F[i] = F[i - 1] \o parts[i] /\ Listed(F[i - 1]) /\ Listed(F[i]) /\ Len(F[i]) = Len(F[i - 1]) + Len(parts[i])
                        /\ Len(F[i - 1]) \in Nat /\ Len(parts[i]) \in Nat
    OBVIOUS
  <2>1. i - 1 \in 0..K /\ i \in 0..K
    OBVIOUS
  <2>2. F[i] = F[i - 1] \o parts[i] /\ Listed(F[i - 1]) /\ Listed(F[i]) /\ Listed(parts[i])
    BY <1>1, <2>1 DEF PrefixesOf
  <2>3. Joins(F[i - 1], parts[i], F[i - 1] \o parts[i])
    BY <2>2, ListedJoin
  <2> QED BY <2>2, <2>3 DEF Joins
<1>4. F[0] = <<>> /\ Len(F[0]) = 0
  BY <1>1, ListedNone DEF PrefixesOf
<1> DEFINE A == [p \in 0..K - 1 |-> Len(F[p])]
<1>5. StartRule(A)
  <2>1. ASSUME NEW p \in 0..K - 1, p # 0 PROVE A[p] = A[p - 1] + sizes[p]
    <3>1. p - 1 \in 0..K - 1 /\ p \in 1..K - 1 /\ p \in 1..K
      BY <2>1
    <3>2. Len(F[p]) = Len(F[p - 1]) + Len(parts[p])
      BY <1>3, <3>1
    <3> QED BY <3>1, <3>2
  <2>2. A[0] = 0
    BY <1>4
  <2>3. \A p \in 0..K - 1 : A[p] = IF p = 0 THEN 0 ELSE A[p - 1] + sizes[p]
    <3> HIDE DEF A, sizes
    <3> QED BY <2>1, <2>2
  <2>4. A = [p \in 0..K - 1 |-> A[p]]
    OBVIOUS
  <2> HIDE DEF A, sizes
  <2> QED BY <2>3, <2>4
<1>6. start = CHOOSE g : StartRule(g)
  BY DEF Starts
<1> HIDE DEF A, sizes, start
<1>7. StartRule(start)
  <2> HIDE DEF StartRule
  <2> QED BY <1>5, <1>6
<1>8. \A p \in 0..K - 1 : start[p] = Len(F[p])
  <2> DEFINE M == K - 1
  <2>1. M \in Nat
    OBVIOUS
  <2>2. \A g : StartRule(g) => \A p \in 0..M : g[p] = IF p = 0 THEN 0 ELSE g[p - 1] + sizes[p]
    OBVIOUS
  <2> HIDE DEF StartRule
  <2>3. start[0] = A[0]
    BY <1>5, <1>7, <2>1, <2>2
  <2>4. ASSUME NEW n \in 1..M, start[n - 1] = A[n - 1] PROVE start[n] = A[n]
    <3>1. n \in 0..M /\ n # 0
      BY <2>1
    <3>2. start[n] = start[n - 1] + sizes[n] /\ A[n] = A[n - 1] + sizes[n]
      BY <1>5, <1>7, <2>2, <3>1
    <3> QED BY <2>4, <3>2
  <2> HIDE DEF M
  <2>5. \A p \in 0..M : start[p] = A[p]
    BY <2>1, <2>3, <2>4, SameSteps
  <2> QED BY <2>5 DEF M, A
<1> HIDE DEF StartRule
<1> DEFINE End(p) == IF p = K - 1 THEN Len(body) ELSE start[p] + sizes[p + 1]
<1>9. carve_dct_partitions(K, sizes, body) = [p \in 0..K - 1 |-> SubSeq(body, start[p] + 1, End(p))]
  BY DEF carve_dct_partitions, start
<1>10. ASSUME NEW p \in 0..K - 1 PROVE SubSeq(body, start[p] + 1, End(p)) = parts[p + 1]
  <2> DEFINE i == p + 1
  <2>1. i \in 1..K /\ i - 1 = p /\ p \in 0..K /\ i \in 0..K
    OBVIOUS
  <2> HIDE DEF i
  <2>2. F[i] = F[p] \o parts[i] /\ Listed(F[p]) /\ Listed(F[i]) /\ Len(F[i]) = Len(F[p]) + Len(parts[i])
        /\ Len(F[p]) \in Nat /\ Len(parts[i]) \in Nat /\ Listed(parts[i])
    BY <1>3, <2>1
  <2>3. End(p) = Len(F[i])
    <3>1. CASE p = K - 1
      <4>1. i = K
        BY <2>1, <3>1
      <4> HIDE DEF body
      <4> QED BY <1>2, <3>1, <4>1
    <3>2. CASE p # K - 1
      <4>1. i \in 1..K - 1
        BY <2>1, <3>2
      <4>2. sizes[i] = Len(parts[i])
        BY <4>1 DEF sizes
      <4>3. End(p) = start[p] + sizes[i]
        BY <3>2 DEF i
      <4> HIDE DEF End
      <4> QED BY <1>8, <2>2, <4>2, <4>3
    <3> QED BY <3>1, <3>2
  <2>4. HasSuffix(F, K, i)
    BY <1>1, <2>1, SuffixExists
  <2>5. PICK x : Listed(x) /\ F[K] = F[i] \o x
    BY <2>4 DEF HasSuffix
  <2> DEFINE s == F[K]  from == Len(F[p])  a == parts[i]  u == F[i]  v == F[p]
  <2>6. Joins(u, x, u \o x) /\ Joins(v, a, v \o a)
    BY <2>2, <2>5, ListedJoin
  <2>7. s = u \o x /\ u = v \o a
    BY <2>2, <2>5
  <2> HIDE DEF s, a, u, v
  <2>8. /\ Listed(s) /\ from \in Nat /\ Len(a) \in Nat /\ from + Len(a) <= Len(s) /\ Len(u) = from + Len(a)
        /\ \A k \in 1..Len(a) : s[from + k] = a[k]
    <3>1. from = Len(v)
      BY DEF v
    <3>2. Len(s) = Len(u) + Len(x) /\ Len(u) = from + Len(a) /\ from \in Nat /\ Len(x) \in Nat /\ Len(a) \in Nat /\ Listed(s)
      BY <2>6, <2>7, <3>1 DEF Joins
    <3>3. \A k \in 1..Len(u) : s[k] = u[k]
      BY <2>6, <2>7 DEF Joins
    <3>4. \A k \in 1..Len(a) : u[from + k] = a[k]
      BY <2>6, <2>7, <3>1 DEF Joins
    <3> HIDE DEF from
    <3>5. \A k \in 1..Len(a) : from + k \in 1..Len(u)
      BY <3>2
    <3> QED BY <3>2, <3>3, <3>4, <3>5, SMTT(30)
  <2> HIDE DEF from
  <2>9. SubSeq(s, from + 1, from + Len(a)) = a
    BY <2>2, <2>8, ListedSlice DEF a
  <2>10. start[p] = from /\ End(p) = from + Len(a) /\ body = s
    BY <1>2, <1>8, <2>3, <2>8 DEF from, u, s
  <2> HIDE DEF body, End
  <2> QED BY <2>9, <2>10 DEF a, i
<1> HIDE DEF body, End
<1>11. carve_dct_partitions(K, sizes, body) = [p \in 0..K - 1 |-> parts[p + 1]]
  BY <1>9, <1>10
<1> QED BY <1>11 DEF sizes, body

-----------------------------------------------------------------------------
(* The loop filter's configuration at the two ends.                          *)
FilterConfigs(m) == IF m.key THEN KeyConfigs(m) ELSE InterConfigs(m)
DecoderFilter(m, encoder) ==
  LET header == HeaderSymbol(m, encoder).val
  IN IF m.key THEN keyframe(header) ELSE interframe(header, m.filter.carried)

(* The two may differ where the difference cannot show.                      *)
SameFilter(x, y) ==
  /\ x.level = y.level /\ x.delta_enabled = y.delta_enabled
  /\ \A s \in Segments : SegmentLevel(x, s) = SegmentLevel(y, s)
  /\ x.delta_enabled => x.ref_delta = y.ref_delta /\ x.mode_delta = y.mode_delta

LEMMA SamePlan ==
  ASSUME NEW x, NEW y, SameFilter(x, y), NEW mb, mb.segment \in Segments
  PROVE  Plan(x, mb) = Plan(y, Shown(mb, mb.residual))
<1> DEFINE d == Shown(mb, mb.residual)
<1>1. /\ d.segment = mb.segment /\ d.info = mb.info /\ d.y = mb.y /\ d.mode = mb.mode
      /\ d.residual = mb.residual
  BY DEF Shown
<1>2. SegmentLevel(x, mb.segment) = SegmentLevel(y, mb.segment)
  BY DEF SameFilter
<1>3. x.delta_enabled = y.delta_enabled /\ x.level = y.level
      /\ (x.delta_enabled => x.ref_delta = y.ref_delta /\ x.mode_delta = y.mode_delta)
  BY DEF SameFilter
<1>4. calculate_mb_filter_level(x, mb.segment, mb.info.ref, mb.y, mb.mode)
        = calculate_mb_filter_level(y, mb.segment, mb.info.ref, mb.y, mb.mode)
  <2>1. CASE x.delta_enabled
    <3>1. ModeDelta(x, mb.info.ref, mb.y, mb.mode) = ModeDelta(y, mb.info.ref, mb.y, mb.mode)
      BY <1>3, <2>1 DEF ModeDelta
    <3> QED BY <1>2, <1>3, <2>1, <3>1 DEF calculate_mb_filter_level
  <2>2. CASE ~x.delta_enabled
    BY <1>2, <1>3, <2>2 DEF calculate_mb_filter_level
  <2> QED BY <2>1, <2>2
<1> HIDE DEF d
<1> DEFINE L == calculate_mb_filter_level(x, mb.segment, mb.info.ref, mb.y, mb.mode)
           has == mb.residual # {}
<1>5. FilterPlan(x, mb.segment, mb.info.ref, mb.y, mb.mode, has)
        = FilterPlan(y, mb.segment, mb.info.ref, mb.y, mb.mode, has)
  BY <1>4 DEF FilterPlan
<1>6. Plan(x, mb) = Plan(y, d)
  <2>1. Plan(x, mb) = IF x.level = 0 THEN [level |-> 0, inner |-> FALSE]
                      ELSE FilterPlan(x, mb.segment, mb.info.ref, mb.y, mb.mode, has)
    BY DEF Plan
  <2>2. Plan(y, d) = IF y.level = 0 THEN [level |-> 0, inner |-> FALSE]
                      ELSE FilterPlan(y, d.segment, d.info.ref, d.y, d.mode, d.residual # {})
    BY DEF Plan
  <2>3. FilterPlan(y, d.segment, d.info.ref, d.y, d.mode, d.residual # {})
          = FilterPlan(y, mb.segment, mb.info.ref, mb.y, mb.mode, has)
    BY <1>1
  <2> QED BY <1>3, <1>5, <2>1, <2>2, <2>3
<1> QED BY <1>6 DEF d

LEMMA OverlaidNothing ==
  ASSUME NEW D, NEW carried \in [D -> Int]
  PROVE  Overlaid(carried, NoUpdate) = carried
<1>1. DOMAIN NoUpdate = {}
  BY DEF NoUpdate
<1> QED BY <1>1 DEF Overlaid

LEMMA NoSegmentLevels == \A s \in Segments : Overlaid([x \in Segments |-> 0], NoUpdate)[s] = 0
<1>1. DOMAIN NoUpdate = {}
  BY DEF NoUpdate
<1> QED BY <1>1 DEF Overlaid

(* A key frame's encoder takes its segments to be on where it has deltas for  *)
(* them, its decoder where the header says so.                               *)
LEMMA KeyFilters ==
  ASSUME NEW m, LegalMenu(m), m.key, NEW x \in KeyConfigs(m)
  PROVE  SameFilter(x, DecoderFilter(m, x))
<1> DEFINE f == m.filter.lf_delta  y == DecoderFilter(m, x)
<1>1. PICK level \in m.filter.levels : x = KeyConfig(level, f)
  BY DEF KeyConfigs
<1>2. level \in 0..63 /\ (~Segmented(m) => f = NoUpdate) /\ ~m.filter.deltas.enabled /\ m.filter.deltas.enabled \in BOOLEAN
  BY DEF LegalMenu, LegalFilter
<1> DEFINE levels == Overlaid([s \in Segments |-> 0], f)
<1>3. x = [level |-> level, segmentation |-> f # NoUpdate, segment_abs |-> FALSE, segment_level |-> levels,
           delta_enabled |-> FALSE, ref_delta |-> ZeroDeltas.ref, mode_delta |-> ZeroDeltas.mode]
  BY <1>1 DEF KeyConfig, Config
<1> DEFINE header == HeaderSymbol(m, x).val
<1>4. x.level = level
  BY <1>3
<1>5. header.level = level /\ header.segmentation = Segmented(m) /\ header.abs = FALSE
      /\ header.loop_filter_update = f /\ header.adj_enable = m.filter.deltas.enabled
  BY <1>4 DEF HeaderSymbol, Sym, LoopFilterHeader
<1>6. y = keyframe(header)
  BY DEF DecoderFilter
<1> HIDE DEF header, levels, f
<1>7. keyframe(header) = Config(header.level, header.segmentation, header.abs, header.loop_filter_update,
                                header.adj_enable, ZeroDeltas)
  BY <1>2, <1>5 DEF keyframe
<1>8. /\ y.level = level /\ y.segmentation = Segmented(m) /\ y.segment_abs = FALSE /\ y.segment_level = levels
      /\ y.delta_enabled = m.filter.deltas.enabled
  BY <1>5, <1>6, <1>7 DEF Config, levels
<1> HIDE DEF y
<1>9. \A s \in Segments : SegmentLevel(x, s) = SegmentLevel(y, s)
  <2> SUFFICES ASSUME NEW s \in Segments PROVE SegmentLevel(x, s) = SegmentLevel(y, s)
    OBVIOUS
  <2>1. CASE f = NoUpdate
    <3>1. levels[s] = 0
      BY <2>1, NoSegmentLevels DEF levels
    <3>2. level + levels[s] = level
      BY <1>2, <3>1
    <3>3. SegmentLevel(x, s) = AsLevel(level)
      BY <1>3, <2>1 DEF SegmentLevel
    <3>4. SegmentLevel(y, s) = AsLevel(level)
      BY <1>8, <3>2 DEF SegmentLevel
    <3> QED BY <3>3, <3>4
  <2>2. CASE f # NoUpdate
    <3>1. Segmented(m) /\ y.segmentation = TRUE
      BY <1>2, <1>8, <2>2 DEF Segmented
    <3>2. x.segmentation = TRUE /\ x.segment_abs = FALSE /\ x.level = level /\ x.segment_level = levels
      BY <1>3, <2>2
    <3> QED BY <1>8, <3>1, <3>2 DEF SegmentLevel
  <2> QED BY <2>1, <2>2
<1>10. x.delta_enabled = FALSE /\ y.delta_enabled = FALSE
  BY <1>2, <1>3, <1>8
<1>11. SameFilter(x, y)
  BY <1>4, <1>8, <1>9, <1>10 DEF SameFilter
<1> QED BY <1>11 DEF y

(* An interframe's header carries what changed; where nothing did, both ends  *)
(* keep what they had.                                                       *)
LEMMA InterFilters ==
  ASSUME NEW m, LegalMenu(m), ~m.key, NEW x \in InterConfigs(m)
  PROVE  SameFilter(x, DecoderFilter(m, x))
<1> DEFINE f == m.filter.lf_delta  y == DecoderFilter(m, x)  deltas == m.filter.deltas
           carried == m.filter.carried  e == effective(deltas, carried)
<1>1. PICK level \in m.filter.levels : x = InterConfig(level, Segmented(m), f, deltas, carried)
  BY DEF InterConfigs
<1>2. deltas.enabled \in BOOLEAN /\ carried.ref \in [DeltaRefs -> Int] /\ carried.mode \in [DeltaModes -> Int]
  BY DEF LegalMenu, LegalFilter
<1> DEFINE levels == Overlaid([s \in Segments |-> 0], f)  header == HeaderSymbol(m, x).val
           on == deltas.enabled  updated == on /\ deltas.update
<1>3. /\ x.level = level /\ x.segmentation = Segmented(m) /\ x.segment_abs = FALSE /\ x.segment_level = levels
      /\ x.delta_enabled = on /\ x.ref_delta = e.ref /\ x.mode_delta = e.mode
  <2> HIDE DEF e
  <2> QED BY <1>1 DEF InterConfig, Config, e
<1>4. header.level = level /\ header.segmentation = Segmented(m) /\ header.abs = FALSE
      /\ header.loop_filter_update = f /\ header.adj_enable = on
      /\ header.ref_update = (IF updated THEN deltas.ref ELSE NoUpdate)
      /\ header.mode_update = (IF updated THEN deltas.mode ELSE NoUpdate)
  BY <1>3 DEF HeaderSymbol, Sym, LoopFilterHeader
<1>5. y = interframe(header, carried)
  BY DEF DecoderFilter
<1> HIDE DEF header, f, e
<1>6. /\ y.level = level /\ y.segmentation = Segmented(m) /\ y.segment_abs = FALSE /\ y.segment_level = levels
      /\ y.delta_enabled = on
      /\ on => y.ref_delta = Overlaid(carried.ref, header.ref_update)
               /\ y.mode_delta = Overlaid(carried.mode, header.mode_update)
  BY <1>4, <1>5 DEF interframe, Config
<1> HIDE DEF y, levels
<1>7. on => x.ref_delta = y.ref_delta /\ x.mode_delta = y.mode_delta
  <2> SUFFICES ASSUME on PROVE x.ref_delta = y.ref_delta /\ x.mode_delta = y.mode_delta
    OBVIOUS
  <2>1. CASE deltas.update
    <3>1. e.ref = Overlaid(carried.ref, deltas.ref) /\ e.mode = Overlaid(carried.mode, deltas.mode)
      BY <2>1 DEF e, effective
    <3> QED BY <1>3, <1>4, <1>6, <2>1, <3>1
  <2>2. CASE ~deltas.update
    <3>1. e = carried
      BY <2>2 DEF e, effective
    <3>2. Overlaid(carried.ref, NoUpdate) = carried.ref /\ Overlaid(carried.mode, NoUpdate) = carried.mode
      BY <1>2, OverlaidNothing
    <3>3. header.ref_update = NoUpdate /\ header.mode_update = NoUpdate
      BY <1>4, <2>2
    <3> QED BY <1>3, <1>6, <3>1, <3>2, <3>3
  <2> QED BY <2>1, <2>2
<1>8. \A s \in Segments : SegmentLevel(x, s) = SegmentLevel(y, s)
  BY <1>3, <1>6 DEF SegmentLevel
<1>9. SameFilter(x, y)
  BY <1>3, <1>6, <1>7, <1>8 DEF SameFilter
<1> QED BY <1>9 DEF y

LEMMA FiltersAgree ==
  ASSUME NEW m, LegalMenu(m), NEW x \in FilterConfigs(m)
  PROVE  SameFilter(x, DecoderFilter(m, x))
<1>1. CASE m.key
  BY <1>1, KeyFilters DEF FilterConfigs
<1>2. CASE ~m.key
  BY <1>2, InterFilters DEF FilterConfigs
<1> QED BY <1>1, <1>2

LEMMA PublicReadersRead ==
  ASSUME NEW m, LegalMenu(m), ~m.key, NEW here, NEW mb, Agreeable(m, here, mb), mb.mode # Intra,
         NEW rest, Listed(rest)
  PROVE  PublicReads(m, here, mb, ModeSymbols(m, here, mb) \o rest)
<1>1. InterMacroblock(m, here, mb) /\ here.segmented = Segmented(m) /\ KnownPlace(here)
  BY ChosenInter DEF Agreeable
<1>2. CASE WholeMacroblock(m, here, mb)
  BY <1>1, <1>2, ReadsWholeMacroblock DEF ModeSymbols
<1>3. ASSUME NEW plan, SplitMacroblock(m, here, mb, plan)
      PROVE  PublicReads(m, here, mb, ModeSymbols(m, here, mb) \o rest)
  BY <1>1, <1>3, ReadsSplitMacroblock DEF ModeSymbols
<1> QED BY <1>1, <1>2, <1>3 DEF InterMacroblock, IntraMacroblock

-----------------------------------------------------------------------------
(* A frame whose macroblocks are picked: what each walk of it comes by.      *)
ModeParts(m, picks, W) == [n \in 1..Count(m) |-> ModeSymbols(m, Place(m, n - 1, W[n - 1]), picks[n])]
Frame(m, picks, g) ==
  /\ Listed(picks) /\ Len(picks) = Count(m)
  /\ Walked(m, picks, g.walk, Count(m))
  /\ Contexted(m, picks, g.contexts, Count(m))
  /\ PrefixesOf(g.modes, Count(m), ModeParts(m, picks, g.walk))
  /\ TokenPrefixes(m, picks, g.contexts, Count(m), g.tokens)

Queue(m, g, n) == Rest(g.modes, Count(m), n)
Written(m, g, n) == [p \in 0..m.partitions - 1 |-> g.tokens[p][n]]
Pieces(m, g, n) == [p \in 0..m.partitions - 1 |-> Rest(g.tokens[p], Count(m), n)]
NoPieces(m) == [p \in 0..m.partitions - 1 |-> <<>>]

ModeReads(m, picks, g, k) ==
  LET here == Place(m, k, g.walk[k])
      mb == picks[k + 1]
  IN /\ Agreeable(m, here, mb)
     /\ g.walk[k + 1] = Stepped(m, k, g.walk[k], mb)
     /\ g.modes[k + 1] = g.modes[k] \o ModeSymbols(m, here, mb)
     /\ Listed(g.modes[k]) /\ Listed(ModeSymbols(m, here, mb))
     /\ ReadBack(Parsed(m, here, Queue(m, g, k)), mb, Queue(m, g, k + 1))
     /\ ~m.key /\ mb.mode # Intra => PublicReads(m, here, mb, Queue(m, g, k))

LEMMA ModePartsListed ==
  ASSUME NEW m, LegalMenu(m), NEW picks, NEW W, Walked(m, picks, W, Count(m))
  PROVE  \A n \in 1..Count(m) : Listed(ModeParts(m, picks, W)[n])
<1> SUFFICES ASSUME NEW n \in 1..Count(m) PROVE Listed(ModeParts(m, picks, W)[n])
  OBVIOUS
<1> DEFINE here == Place(m, n - 1, W[n - 1])  N == Count(m)
<1>1. Agreeable(m, here, picks[n])
  <2>1. N \in Nat
    BY Geometry
  <2> HIDE DEF N
  <2>2. n \in 1..N /\ Walked(m, picks, W, N)
    BY DEF N
  <2> QED BY <2>1, <2>2, AgreeableThroughout
<1>2. ModeParts(m, picks, W)[n] = ModeSymbols(m, here, picks[n])
  BY DEF ModeParts
<1> HIDE DEF here
<1>3. Listed(ModeSymbols(m, here, picks[n]))
  BY <1>1, ReadsMacroblock, ListedNone DEF Agreeable
<1> QED BY <1>2, <1>3

LEMMA ReadsModes ==
  ASSUME NEW m, LegalMenu(m), NEW picks, NEW g, Frame(m, picks, g), NEW k \in Nat, k + 1 <= Count(m)
  PROVE  ModeReads(m, picks, g, k)
<1> DEFINE N == Count(m)  n == k + 1  W == g.walk  here == Place(m, k, W[k])  mb == picks[n]
           parts == ModeParts(m, picks, W)  F == g.modes  s == ModeSymbols(m, here, mb)
<1>1. N \in Nat /\ n \in 1..N /\ n - 1 = k /\ k \in 0..N
  BY Geometry
<1>2. PrefixesOf(F, N, parts) /\ Walked(m, picks, W, N) /\ \A i \in 1..N : Listed(parts[i])
  BY ModePartsListed DEF Frame
<1>3. parts[n] = s
  BY <1>1 DEF ModeParts
<1>4. Agreeable(m, here, mb) /\ W[n] = Stepped(m, k, W[k], mb)
  <2> HIDE DEF N, n, W, mb
  <2>1. Agreeable(m, Place(m, n - 1, W[n - 1]), picks[n]) /\ W[n] = Stepped(m, n - 1, W[n - 1], picks[n])
    BY <1>1, <1>2, AgreeableThroughout DEF Walked
  <2> QED BY <1>1, <2>1 DEF mb
<1> HIDE DEF parts, N, n, F, s, here, mb
<1>5. F[n] = F[k] \o s /\ Listed(F[k]) /\ Listed(s)
  BY <1>1, <1>2, <1>3 DEF PrefixesOf
<1>6. Rest(F, N, k) = s \o Rest(F, N, n) /\ Listed(Rest(F, N, n))
  <2>1. n \in 0..N
    BY <1>1
  <2>2. Rest(F, N, n - 1) = parts[n] \o Rest(F, N, n) /\ Listed(Rest(F, N, n))
    <3>1. RestIs(F, N, parts)
      BY <1>1, <1>2, RestSteps
    <3> QED BY <1>1, <2>1, <3>1 DEF RestIs
  <2> QED BY <1>1, <1>3, <2>2
<1> DEFINE rest == Rest(F, N, n)
<1>7. Queue(m, g, k) = s \o rest /\ Queue(m, g, n) = rest
  BY <1>6 DEF Queue, F, N
<1> HIDE DEF rest
<1>8. Listed(rest)
  BY <1>6 DEF rest
<1>9. ReadBack(Parsed(m, here, s \o rest), mb, rest)
  BY <1>4, <1>8, ReadsMacroblock DEF Agreeable, s
<1>10. ASSUME ~m.key, mb.mode # Intra PROVE PublicReads(m, here, mb, s \o rest)
  BY <1>4, <1>8, <1>10, PublicReadersRead DEF s
<1>11. /\ Agreeable(m, here, mb) /\ W[n] = Stepped(m, k, W[k], mb)
       /\ F[n] = F[k] \o s /\ Listed(F[k]) /\ Listed(s)
       /\ ReadBack(Parsed(m, here, Queue(m, g, k)), mb, Queue(m, g, n))
       /\ ~m.key /\ mb.mode # Intra => PublicReads(m, here, mb, Queue(m, g, k))
  BY <1>4, <1>5, <1>7, <1>9, <1>10
<1> QED BY <1>11, Zenon DEF ModeReads, n, F, s, here, mb

TokenReads(m, picks, g, k) ==
  LET mb == picks[k + 1]
      c == g.contexts[k]
      s == CodedMb(m, k, c, mb)
      p == PartitionOf(m, k)
  IN /\ g.contexts[k + 1] = SteppedContexts(m, k, c, s.above, s.left)
     /\ Written(m, g, k + 1) = [Written(m, g, k) EXCEPT ![p] = @ \o s.coded]
     /\ \A d : d.skip = mb.skip /\ d.y = mb.y =>
          ResidualRead(s, ReadResidual(m, k, c, d, Pieces(m, g, k)[p]), mb, Pieces(m, g, k + 1)[p])
     /\ Pieces(m, g, k + 1) = [Pieces(m, g, k) EXCEPT ![p] = Pieces(m, g, k + 1)[p]]

LEMMA FrameFits ==
  ASSUME NEW m, LegalMenu(m), NEW picks, NEW W, NEW N, N = Count(m), Walked(m, picks, W, N)
  PROVE  \A n \in 1..N : ResidualFits(picks[n]) /\ picks[n].segment \in Segments
<1>1. N \in Nat
  BY Geometry
<1> SUFFICES ASSUME NEW n \in 1..N PROVE ResidualFits(picks[n]) /\ picks[n].segment \in Segments
  OBVIOUS
<1>2. Agreeable(m, Place(m, n - 1, W[n - 1]), picks[n])
  BY <1>1, AgreeableThroughout
<1> DEFINE here == Place(m, n - 1, W[n - 1])  mb == picks[n]
<1>3. Agreeable(m, here, mb)
  BY <1>2
<1> HIDE DEF here, mb
<1>4. ResidualFits(mb) /\ mb.segment \in Segments
  BY <1>3, ChoiceFits
<1> QED BY <1>4 DEF mb

LEMMA ReadsTokens ==
  ASSUME NEW m, LegalMenu(m), NEW picks, NEW g, Frame(m, picks, g), NEW k \in Nat, k + 1 <= Count(m)
  PROVE  TokenReads(m, picks, g, k)
<1> DEFINE N == Count(m)  n == k + 1  C == g.contexts  mb == picks[n]  c == C[k]  s == CodedMb(m, k, c, mb)
           q == PartitionOf(m, k)  K == m.partitions  Q == g.tokens
           parts(p) == TokenParts(m, picks, C, N, p)
<1>1. N \in Nat /\ n \in 1..N /\ n - 1 = k /\ k \in 0..N /\ n \in 0..N
  BY Geometry
<1>2. Contexted(m, picks, C, N) /\ TokenPrefixes(m, picks, C, N, Q) /\ \A i \in 1..N : ResidualFits(picks[i])
  BY FrameFits DEF Frame
<1>3. q \in 0..K - 1
  BY Geometry
<1>4. s = TokensOf(m, picks, C, n)
  BY <1>1 DEF TokensOf
<1>5. c \in ContextStates(m) /\ ResidualFits(mb) /\ C[n] = SteppedContexts(m, k, c, s.above, s.left)
  <2> HIDE DEF N
  <2>1. c \in ContextStates(m) /\ ResidualFits(mb)
    BY <1>1, <1>2 DEF Contexted
  <2> HIDE DEF n, C
  <2>2. C[n] = LET t == CodedMb(m, n - 1, C[n - 1], picks[n]) IN SteppedContexts(m, n - 1, C[n - 1], t.above, t.left)
    BY <1>1, <1>2 DEF Contexted
  <2> QED BY <1>1, <2>1, <2>2
<1> HIDE DEF N, n, C, Q, s, q, K, mb, c
<1>6. \A p \in 0..K - 1 : \A i \in 1..N : Listed(parts(p)[i])
  BY <1>1, <1>2, TokensListed
<1>7. \A p \in 0..K - 1 : PrefixesOf(Q[p], N, parts(p))
  BY <1>2 DEF TokenPrefixes, K
<1>8. \A p \in 0..K - 1 : parts(p)[n] = IF q = p THEN s.coded ELSE <<>>
  BY <1>1, <1>4 DEF TokenParts, q
<1> HIDE DEF parts
<1>9. ASSUME NEW p \in 0..K - 1
      PROVE  /\ Rest(Q[p], N, k) = parts(p)[n] \o Rest(Q[p], N, n) /\ Listed(Rest(Q[p], N, n))
             /\ Q[p][n] = Q[p][k] \o parts(p)[n] /\ Listed(Q[p][k])
  <2> DEFINE F == Q[p]  a == parts(p)
  <2>1. PrefixesOf(F, N, a) /\ \A i \in 1..N : Listed(a[i])
    BY <1>6, <1>7
  <2> HIDE DEF F, a
  <2>2. Rest(F, N, n - 1) = a[n] \o Rest(F, N, n) /\ Listed(Rest(F, N, n))
    <3>1. RestIs(F, N, a)
      BY <1>1, <2>1, RestSteps
    <3> QED BY <1>1, <3>1 DEF RestIs
  <2>3. F[n] = F[n - 1] \o a[n] /\ Listed(F[k])
    BY <1>1, <2>1 DEF PrefixesOf
  <2> QED BY <1>1, <2>2, <2>3 DEF F, a
<1>10. ASSUME NEW p \in 0..K - 1, p # q
       PROVE  Rest(Q[p], N, k) = Rest(Q[p], N, n) /\ Q[p][n] = Q[p][k]
  <2>1. parts(p)[n] = <<>>
    BY <1>8, <1>10
  <2>2. <<>> \o Rest(Q[p], N, n) = Rest(Q[p], N, n) /\ Q[p][k] \o <<>> = Q[p][k]
    BY <1>9, ListedEmptyJoin
  <2> QED BY <1>9, <2>1, <2>2
<1> DEFINE w(i) == Written(m, g, i)  v(i) == Pieces(m, g, i)
<1>11. \A i : /\ w(i) = [p \in 0..K - 1 |-> Q[p][i]]
              /\ v(i) = [p \in 0..K - 1 |-> Rest(Q[p], N, i)]
  BY DEF Written, Pieces, N, Q, K
<1> HIDE DEF w, v
<1>12. w(n) = [w(k) EXCEPT ![q] = @ \o s.coded]
  <2>1. Q[q][n] = Q[q][k] \o s.coded
    BY <1>3, <1>8, <1>9
  <2>2. \A p \in 0..K - 1 : p # q => Q[p][n] = Q[p][k]
    BY <1>10
  <2>3. w(n) = [p \in 0..K - 1 |-> Q[p][n]] /\ w(k) = [p \in 0..K - 1 |-> Q[p][k]]
    BY <1>11
  <2> QED BY <1>3, <2>1, <2>2, <2>3, ZenonT(40)
<1>13. v(n) = [v(k) EXCEPT ![q] = v(n)[q]]
  <2>2. \A p \in 0..K - 1 : p # q => Rest(Q[p], N, k) = Rest(Q[p], N, n)
    BY <1>10
  <2>3. v(n) = [p \in 0..K - 1 |-> Rest(Q[p], N, n)] /\ v(k) = [p \in 0..K - 1 |-> Rest(Q[p], N, k)]
    BY <1>11
  <2> QED BY <1>3, <2>2, <2>3
<1>14. v(k)[q] = s.coded \o v(n)[q] /\ Listed(v(n)[q])
  <2>1. v(k)[q] = Rest(Q[q], N, k) /\ v(n)[q] = Rest(Q[q], N, n)
    BY <1>3, <1>11
  <2> QED BY <1>3, <1>8, <1>9, <2>1
<1> DEFINE rest == v(n)[q]
<1> HIDE DEF rest
<1>15. ASSUME NEW d, d.skip = mb.skip, d.y = mb.y PROVE ResidualRead(s, ReadResidual(m, k, c, d, v(k)[q]), mb, rest)
  <2>1. Listed(rest) /\ v(k)[q] = s.coded \o rest
    BY <1>14 DEF rest
  <2>2. ResidualRead(CodedMb(m, k, c, mb), ReadResidual(m, k, c, d, CodedMb(m, k, c, mb).coded \o rest), mb, rest)
    BY <1>5, <1>15, <2>1, ReadsResidual
  <2> QED BY <2>1, <2>2 DEF s
<1>16. /\ C[n] = SteppedContexts(m, k, c, s.above, s.left)
       /\ w(n) = [w(k) EXCEPT ![q] = @ \o s.coded]
       /\ \A d : d.skip = mb.skip /\ d.y = mb.y => ResidualRead(s, ReadResidual(m, k, c, d, v(k)[q]), mb, v(n)[q])
       /\ v(n) = [v(k) EXCEPT ![q] = v(n)[q]]
  BY <1>5, <1>12, <1>13, <1>15 DEF rest
<1> QED BY <1>16, Zenon DEF TokenReads, n, C, s, q, mb, c, w, v

FrameEnds(m, g) ==
  /\ g.walk[0] = FreshWalk(m) /\ g.contexts[0] = FreshContexts(m)
  /\ g.modes[0] = <<>> /\ Written(m, g, 0) = NoPieces(m)
  /\ Queue(m, g, 0) = g.modes[Count(m)] /\ Queue(m, g, Count(m)) = <<>>
  /\ Pieces(m, g, 0) = Written(m, g, Count(m)) /\ Pieces(m, g, Count(m)) = NoPieces(m)
  /\ Listed(g.modes[Count(m)])
  /\ \A p \in 0..m.partitions - 1 : Listed(g.tokens[p][Count(m)])

LEMMA EndsOfFrame ==
  ASSUME NEW m, LegalMenu(m), NEW picks, NEW g, Frame(m, picks, g)
  PROVE  FrameEnds(m, g)
<1> DEFINE N == Count(m)  F == g.modes  Q == g.tokens  K == m.partitions  parts == ModeParts(m, picks, g.walk)
           t(p) == TokenParts(m, picks, g.contexts, N, p)
<1>1. N \in Nat
  BY Geometry
<1>2. /\ Walked(m, picks, g.walk, N) /\ Contexted(m, picks, g.contexts, N)
      /\ PrefixesOf(F, N, parts) /\ \A p \in 0..K - 1 : PrefixesOf(Q[p], N, t(p))
  BY DEF Frame, TokenPrefixes
<1>3. \A i \in 1..N : Listed(parts[i])
  BY <1>2, ModePartsListed
<1>4. \A p \in 0..K - 1 : \A i \in 1..N : Listed(t(p)[i])
  BY <1>1, <1>2, FrameFits, TokensListed
<1>5. g.walk[0] = FreshWalk(m) /\ g.contexts[0] = FreshContexts(m)
  BY <1>2 DEF Walked, Contexted
<1>6. 0 \in 0..N /\ N \in 0..N
  BY <1>1
<1> HIDE DEF N, F, Q, K, parts, t
<1>7. RestIs(F, N, parts) /\ F[0] = <<>> /\ Listed(F[N])
  BY <1>1, <1>2, <1>3, <1>6, RestSteps DEF PrefixesOf
<1>8. ASSUME NEW p \in 0..K - 1
      PROVE  Rest(Q[p], N, 0) = Q[p][N] /\ Rest(Q[p], N, N) = <<>> /\ Q[p][0] = <<>> /\ Listed(Q[p][N])
  <2> DEFINE G == Q[p]  a == t(p)
  <2>1. PrefixesOf(G, N, a) /\ \A i \in 1..N : Listed(a[i])
    BY <1>2, <1>4
  <2> HIDE DEF G, a
  <2>2. RestIs(G, N, a) /\ G[0] = <<>> /\ Listed(G[N])
    BY <1>1, <1>6, <2>1, RestSteps DEF PrefixesOf
  <2> QED BY <2>2 DEF RestIs, G
<1>9. /\ Written(m, g, 0) = [p \in 0..K - 1 |-> Q[p][0]] /\ Written(m, g, N) = [p \in 0..K - 1 |-> Q[p][N]]
      /\ Pieces(m, g, 0) = [p \in 0..K - 1 |-> Rest(Q[p], N, 0)]
      /\ Pieces(m, g, N) = [p \in 0..K - 1 |-> Rest(Q[p], N, N)]
      /\ NoPieces(m) = [p \in 0..K - 1 |-> <<>>]
  BY DEF Written, Pieces, NoPieces, N, Q, K
<1>10. Queue(m, g, 0) = F[N] /\ Queue(m, g, N) = <<>>
  BY <1>7 DEF RestIs, Queue, F, N
<1>11. /\ Written(m, g, 0) = NoPieces(m) /\ Pieces(m, g, 0) = Written(m, g, N) /\ Pieces(m, g, N) = NoPieces(m)
  BY <1>8, <1>9
<1>12. \A p \in 0..K - 1 : Listed(Q[p][N])
  BY <1>8
<1> QED BY <1>5, <1>7, <1>10, <1>11, <1>12, Zenon DEF FrameEnds, F, N, Q, K

LEMMA FrameExists ==
  ASSUME NEW m, LegalMenu(m), NEW picks, Listed(picks), Len(picks) = Count(m),
         NEW W, Walked(m, picks, W, Count(m))
  PROVE  \E g : Frame(m, picks, g)
<1> DEFINE N == Count(m)  K == m.partitions  parts == ModeParts(m, picks, W)
<1>1. N \in Nat
  BY Geometry
<1>2. PICK C : Contexted(m, picks, C, N)
  BY <1>1, FrameFits, ContextsExist
<1> DEFINE t(p) == TokenParts(m, picks, C, N, p)
<1>3. PICK F : PrefixesOf(F, N, parts)
  BY <1>1, ModePartsListed, PrefixesExist
<1>4. \A p \in 0..K - 1 : \A i \in 1..N : Listed(t(p)[i])
  BY <1>1, <1>2, FrameFits, TokensListed
<1> HIDE DEF t
<1>5. \A p \in 0..K - 1 : \E G : PrefixesOf(G, N, t(p))
  BY <1>1, <1>4, PrefixesExist
<1> DEFINE Q == [p \in 0..K - 1 |-> CHOOSE G : PrefixesOf(G, N, t(p))]
           g == [walk |-> W, contexts |-> C, modes |-> F, tokens |-> Q]
<1>6. \A p \in 0..K - 1 : PrefixesOf(Q[p], N, t(p))
  BY <1>5
<1>7. TokenPrefixes(m, picks, C, N, Q)
  BY <1>6 DEF TokenPrefixes, t
<1> HIDE DEF Q
<1>8. g.walk = W /\ g.contexts = C /\ g.modes = F /\ g.tokens = Q
  OBVIOUS
<1> HIDE DEF g
<1>9. Frame(m, picks, g)
  BY <1>2, <1>3, <1>7, <1>8 DEF Frame
<1> QED BY <1>9

-----------------------------------------------------------------------------
(* The inductive invariant.  While the encoder picks, its walk is one of the  *)
(* frame picked so far; from then on every walk of either end is at its place *)
(* in the same g, and each partition holds what g says is still to be read.   *)
Decoded(picks, n, k) ==
  [i \in 1..n |-> Shown(picks[i], IF i <= k THEN picks[i].residual ELSE {})]
HeaderOf == <<HeaderSymbol(menu, filter.encoder)>>
FilterRead == filter.decoder = DecoderFilter(menu, filter.encoder)
SizesOf(m, g) == [p \in 1..m.partitions - 1 |-> Len(Partitions(m, g.tokens, Count(m))[p])]
BodyOf(m, g) == FlattenSeq(Partitions(m, g.tokens, Count(m)))

Picking ==
  /\ phase = "pick" /\ Listed(picked) /\ Len(picked) = at
  /\ contexts = FreshContexts(menu) /\ control = <<>> /\ dct = NoPieces(menu) /\ decoded = <<>>
  /\ \E W : Walked(menu, picked, W, at) /\ walk = W[at]
AtHeader(g) ==
  /\ phase = "header" /\ at = 0 /\ walk = g.walk[0] /\ contexts = g.contexts[0]
  /\ control = <<>> /\ dct = NoPieces(menu) /\ decoded = <<>>
AtModes(g) ==
  /\ phase = "modes" /\ walk = g.walk[at] /\ contexts = g.contexts[0]
  /\ control = HeaderOf \o g.modes[at] /\ dct = NoPieces(menu) /\ decoded = <<>>
AtTokens(g) ==
  /\ phase = "tokens" /\ walk = g.walk[0] /\ contexts = g.contexts[at]
  /\ control = HeaderOf \o g.modes[MbCount] /\ dct = Written(menu, g, at) /\ decoded = <<>>
AtCarve(g) ==
  /\ phase = "carve" /\ at = 0 /\ walk = g.walk[0] /\ contexts = g.contexts[0]
  /\ control = HeaderOf \o g.modes[MbCount] /\ decoded = <<>>
  /\ section.sizes = SizesOf(menu, g) /\ section.body = BodyOf(menu, g)
  /\ section.counts = Tally(section.body)
AtParse(g) ==
  /\ phase = "parse" /\ walk = g.walk[at] /\ control = Queue(menu, g, at)
  /\ contexts = g.contexts[IF menu.key THEN 0 ELSE at]
  /\ dct = Pieces(menu, g, IF menu.key THEN 0 ELSE at)
  /\ decoded = Decoded(picked, at, IF menu.key THEN 0 ELSE at) /\ FilterRead
AtResidual(g) ==
  /\ phase = "residual" /\ menu.key /\ walk = g.walk[0] /\ contexts = g.contexts[at]
  /\ control = <<>> /\ dct = Pieces(menu, g, at)
  /\ decoded = Decoded(picked, MbCount, at) /\ FilterRead
AtDone(g) ==
  /\ phase = "done" /\ at = 0 /\ control = <<>> /\ dct = NoPieces(menu)
  /\ decoded = Decoded(picked, MbCount, MbCount) /\ FilterRead

Stage(g) ==
  \/ AtHeader(g) \/ AtModes(g) \/ AtTokens(g) \/ AtCarve(g)
  \/ AtParse(g) \/ AtResidual(g) \/ AtDone(g)

Throughout ==
  /\ menu \in Menus /\ at \in 0..MbCount /\ synced = TRUE
  /\ filter = [encoder |-> filter.encoder, decoder |-> filter.decoder]
  /\ phase # "pick" => filter.encoder \in FilterConfigs(menu)
FrameInvariant ==
  /\ Throughout
  /\ Picking \/ \E g : Frame(menu, picked, g) /\ Stage(g)

-----------------------------------------------------------------------------
LEMMA FrameStarts ==
  ASSUME Init
  PROVE  FrameInvariant
<1>1. LegalMenu(menu)
  BY MenusAssumption DEF Init
<1>2. MbCount \in Nat
  BY <1>1, Geometry DEF MbCount
<1>3. Throughout
  BY <1>2 DEF Init, Throughout
<1>4. Picking
  <2> DEFINE W == [k \in {0} |-> FreshWalk(menu)]
  <2>1. Walked(menu, picked, W, at) /\ walk = W[at]
    BY DEF Walked, Init
  <2> HIDE DEF W
  <2> QED BY <2>1, ListedNone DEF Picking, Init, NoPieces
<1> QED BY <1>3, <1>4 DEF FrameInvariant

(* What the three ways of picking have in common.                            *)
PickOne(mb) ==
  /\ phase = "pick" /\ at < MbCount /\ MayChoose(menu, Here, mb)
  /\ picked' = Append(picked, mb) /\ walk' = Stepped(menu, at, walk, mb) /\ at' = at + 1
  /\ UNCHANGED <<menu, phase, contexts, filter, control, dct, section, decoded, synced>>

LEMMA PicksOne ==
  ASSUME NEW candidates, NEW segment, NEW q, Pick(candidates, segment, q),
         candidates = IF menu.key THEN KeyCandidates(menu) ELSE InterCandidates(menu, Here) \cup IntraCandidates(menu),
         segment \in IF Segmented(menu) THEN menu.segments ELSE {0},
         q = IF Segmented(menu) THEN Quantizer(menu, segment) ELSE menu.base_q
  PROVE  \E mb : PickOne(mb)
<1>1. PICK c, uv, residual :
        /\ c \in candidates /\ uv \in (IF c.mode = Intra THEN menu.uv ELSE {"dc"}) /\ residual \in menu.residuals
        /\ residual \subseteq BlocksOf(c.y)
        /\ picked' = Append(picked, Chosen(c, segment, q, uv, residual))
        /\ walk' = Stepped(menu, at, walk, Chosen(c, segment, q, uv, residual))
  BY ZenonT(40) DEF Pick
<1> DEFINE mb == Chosen(c, segment, q, uv, residual)
<1>2. MayChoose(menu, Here, mb)
  <2> HIDE DEF Here
  <2>1. mb = Chosen(c, segment, IF Segmented(menu) THEN Quantizer(menu, segment) ELSE menu.base_q, uv, residual)
    OBVIOUS
  <2> QED BY <1>1, <2>1, Zenon DEF MayChoose
<1>3. PickOne(mb)
  BY <1>1, <1>2 DEF Pick, PickOne
<1> QED BY <1>3

LEMMA PickSteps ==
  ASSUME PickKeyMb \/ PickAdaptiveKeyMb \/ PickInterMb
  PROVE  \E mb : PickOne(mb)
<1>1. CASE PickKeyMb
  BY <1>1, PicksOne DEF PickKeyMb
<1>2. CASE PickAdaptiveKeyMb
  <2>1. PICK segment \in menu.segments : Pick(KeyCandidates(menu), segment, Quantizer(menu, segment))
    BY <1>2 DEF PickAdaptiveKeyMb
  <2>2. Segmented(menu) /\ menu.key
    BY <1>2, <2>1 DEF Segmented, PickAdaptiveKeyMb
  <2> DEFINE q == Quantizer(menu, segment)
  <2>3. q = IF Segmented(menu) THEN Quantizer(menu, segment) ELSE menu.base_q
    BY <2>2
  <2>4. Pick(KeyCandidates(menu), segment, q)
    BY <2>1
  <2> HIDE DEF q
  <2> QED BY <2>1, <2>2, <2>3, <2>4, PicksOne
<1>3. CASE PickInterMb
  <2> DEFINE candidates == InterCandidates(menu, Here) \cup IntraCandidates(menu)
  <2>1. PICK segment \in IF Segmented(menu) THEN menu.segments ELSE {0} :
          Pick(candidates, segment, IF Segmented(menu) THEN Quantizer(menu, segment) ELSE menu.base_q)
    BY <1>3 DEF PickInterMb
  <2> DEFINE q == IF Segmented(menu) THEN Quantizer(menu, segment) ELSE menu.base_q
  <2>2. ~menu.key
    BY <1>3 DEF PickInterMb
  <2>3. candidates = IF menu.key THEN KeyCandidates(menu) ELSE InterCandidates(menu, Here) \cup IntraCandidates(menu)
    BY <2>2
  <2>4. q = IF Segmented(menu) THEN Quantizer(menu, segment) ELSE menu.base_q
    OBVIOUS
  <2>5. Pick(candidates, segment, q)
    BY <2>1
  <2> HIDE DEF q, candidates
  <2> QED BY <2>1, <2>3, <2>4, <2>5, PicksOne
<1> QED BY <1>1, <1>2, <1>3

LEMMA PickKeeps ==
  ASSUME FrameInvariant, NEW mb, PickOne(mb)
  PROVE  FrameInvariant'
<1>1. LegalMenu(menu) /\ Throughout /\ phase = "pick"
  BY MenusAssumption DEF FrameInvariant, Throughout, PickOne
<1>2. Picking
  BY <1>1 DEF FrameInvariant, Stage, AtHeader, AtModes, AtTokens, AtCarve, AtParse, AtResidual, AtDone
<1>3. MbCount \in Nat /\ at \in Nat /\ at < MbCount
  BY <1>1, Geometry DEF MbCount, Throughout, PickOne
<1>4. PICK W : Walked(menu, picked, W, at) /\ walk = W[at]
  BY <1>2 DEF Picking
<1> DEFINE V == [k \in 0..at + 1 |-> IF k <= at THEN W[k] ELSE Stepped(menu, at, walk, mb)]
<1>5. /\ Listed(picked') /\ Len(picked') = at + 1 /\ picked'[at + 1] = mb
      /\ \A k \in 1..at : picked'[k] = picked[k]
  <2>1. Joins(picked, <<mb>>, picked') /\ Len(<<mb>>) = 1 /\ <<mb>>[1] = mb
    BY <1>2, ListedAppend, ListedJoin, ListedOne DEF Picking, PickOne
  <2>2. Len(picked) = at
    BY <1>2 DEF Picking
  <2> QED BY <2>1, <2>2 DEF Joins
<1>6. V[at + 1] = Stepped(menu, at, walk, mb) /\ \A k \in 0..at : V[k] = W[k]
  BY <1>3
<1> HIDE DEF V
<1>7. Walked(menu, picked', V, at + 1)
  <2>1. V[0] = FreshWalk(menu)
    BY <1>3, <1>4, <1>6 DEF Walked
  <2>2. ASSUME NEW n \in 1..at + 1
        PROVE  V[n] = Stepped(menu, n - 1, V[n - 1], picked'[n]) /\ MayChoose(menu, Place(menu, n - 1, V[n - 1]), picked'[n])
    <3>1. CASE n \in 1..at
      <4>1. n - 1 \in 0..at /\ n \in 0..at
        BY <1>3, <3>1
      <4>2. V[n] = W[n] /\ V[n - 1] = W[n - 1] /\ picked'[n] = picked[n]
        BY <1>5, <1>6, <3>1, <4>1
      <4>3. W[n] = Stepped(menu, n - 1, W[n - 1], picked[n]) /\ MayChoose(menu, Place(menu, n - 1, W[n - 1]), picked[n])
        BY <1>4, <3>1 DEF Walked
      <4> QED BY <4>2, <4>3
    <3>2. CASE n = at + 1
      <4>1. n - 1 = at /\ at \in 0..at
        BY <1>3, <3>2
      <4>2. V[n - 1] = walk /\ V[n] = Stepped(menu, at, walk, mb) /\ picked'[n] = mb
        BY <1>4, <1>5, <1>6, <3>2, <4>1
      <4>3. MayChoose(menu, Place(menu, at, walk), mb)
        BY DEF PickOne, Here
      <4> QED BY <4>1, <4>2, <4>3
    <3> QED BY <1>3, <3>1, <3>2
  <2> QED BY <2>1, <2>2 DEF Walked
<1>8. Picking'
  BY <1>2, <1>5, <1>6, <1>7 DEF Picking, PickOne
<1>9. Throughout'
  BY <1>1, <1>3 DEF Throughout, PickOne, MbCount
<1> QED BY <1>8, <1>9 DEF FrameInvariant

(* Where the walks are, by the phase.                                        *)
StageOf(g) ==
  /\ phase = "header" => AtHeader(g)
  /\ phase = "modes" => AtModes(g)
  /\ phase = "tokens" => AtTokens(g)
  /\ phase = "carve" => AtCarve(g)
  /\ phase = "parse" => AtParse(g)
  /\ phase = "residual" => AtResidual(g)
  /\ phase = "done" => AtDone(g)

LEMMA StageIs ==
  ASSUME FrameInvariant, phase # "pick"
  PROVE  /\ LegalMenu(menu) /\ Throughout /\ MbCount = Count(menu) /\ MbCount \in Nat /\ at \in 0..MbCount
         /\ \E g : Frame(menu, picked, g) /\ FrameEnds(menu, g) /\ StageOf(g)
<1>1. LegalMenu(menu) /\ Throughout
  BY MenusAssumption DEF FrameInvariant, Throughout
<1>2. MbCount = Count(menu) /\ MbCount \in Nat /\ at \in 0..MbCount
  BY <1>1, Geometry DEF MbCount, Throughout
<1>3. PICK g : Frame(menu, picked, g) /\ Stage(g)
  BY DEF FrameInvariant, Picking
<1>4. StageOf(g)
  BY <1>3 DEF StageOf, Stage, AtHeader, AtModes, AtTokens, AtCarve, AtParse, AtResidual, AtDone
<1>5. FrameEnds(menu, g)
  BY <1>1, <1>3, EndsOfFrame
<1> QED BY <1>1, <1>2, <1>3, <1>4, <1>5

LEMMA FilterKeeps ==
  ASSUME FrameInvariant, FilterKeyPicture \/ FilterInterPicture
  PROVE  FrameInvariant'
<1>1. LegalMenu(menu) /\ Throughout /\ phase = "pick" /\ at = MbCount
  BY MenusAssumption DEF FrameInvariant, Throughout, FilterKeyPicture, FilterInterPicture, FilterPicture, StartWalk
<1>2. Picking
  BY <1>1 DEF FrameInvariant, Stage, AtHeader, AtModes, AtTokens, AtCarve, AtParse, AtResidual, AtDone
<1>3. MbCount \in Nat /\ MbCount = Count(menu)
  BY <1>1, Geometry DEF MbCount
<1>4. /\ StartWalk("pick", "header")
      /\ \E config \in FilterConfigs(menu) : filter' = [filter EXCEPT !.encoder = config]
      /\ UNCHANGED <<menu, picked, control, dct, section, decoded, synced>>
  BY DEF FilterKeyPicture, FilterInterPicture, FilterPicture, FilterConfigs
<1>5. PICK W : Walked(menu, picked, W, at) /\ walk = W[at]
  BY <1>2 DEF Picking
<1>6. PICK g : Frame(menu, picked, g)
  <2>1. Listed(picked) /\ Len(picked) = Count(menu) /\ Walked(menu, picked, W, Count(menu))
    BY <1>1, <1>2, <1>3, <1>5 DEF Picking
  <2> QED BY <1>1, <2>1, FrameExists
<1>7. FrameEnds(menu, g)
  BY <1>1, <1>6, EndsOfFrame
<1>8. AtHeader(g)'
  BY <1>2, <1>4, <1>7 DEF AtHeader, FrameEnds, StartWalk, Picking
<1>9. Throughout'
  <2>1. filter'.encoder \in FilterConfigs(menu) /\ filter' = [encoder |-> filter'.encoder, decoder |-> filter'.decoder]
    BY <1>1, <1>4 DEF Throughout
  <2> QED BY <1>1, <1>3, <1>4, <2>1 DEF Throughout, StartWalk, MbCount
<1>10. Frame(menu, picked, g)'
  BY <1>4, <1>6
<1> QED BY <1>8, <1>9, <1>10 DEF FrameInvariant, Stage

LEMMA HeaderKeeps ==
  ASSUME FrameInvariant, WriteHeader
  PROVE  FrameInvariant'
<1>1. phase = "header" /\ phase' = "modes" /\ control' = HeaderOf
      /\ UNCHANGED <<menu, at, walk, contexts, picked, filter, dct, section, decoded, synced>>
  BY DEF WriteHeader, HeaderOf
<1>2. Throughout /\ MbCount = Count(menu)
  BY <1>1, StageIs
<1>3. PICK g : Frame(menu, picked, g) /\ FrameEnds(menu, g) /\ StageOf(g)
  BY <1>1, StageIs
<1>4. AtHeader(g)
  BY <1>1, <1>3 DEF StageOf
<1>5. HeaderOf \o <<>> = HeaderOf
  BY ListedOne, ListedEmptyJoin DEF HeaderOf
<1>6. HeaderOf' = HeaderOf
  BY <1>1 DEF HeaderOf
<1>7. AtModes(g)'
  <2>1. g.modes[0] = <<>>
    BY <1>3 DEF FrameEnds
  <2> HIDE DEF HeaderOf
  <2> QED BY <1>1, <1>4, <1>5, <1>6, <2>1 DEF AtHeader, AtModes
<1>8. Throughout'
  BY <1>1, <1>2 DEF Throughout, MbCount
<1>9. Frame(menu, picked, g)'
  BY <1>1, <1>3
<1> QED BY <1>7, <1>8, <1>9 DEF FrameInvariant, Stage

LEMMA ModesKeep ==
  ASSUME FrameInvariant, WriteModes
  PROVE  FrameInvariant'
<1> DEFINE mb == picked[at + 1]  s == ModeSymbols(menu, Here, mb)
<1>1. /\ phase = "modes" /\ at < MbCount /\ at' = at + 1
      /\ control' = control \o s /\ walk' = Stepped(menu, at, walk, mb)
      /\ UNCHANGED <<menu, phase, contexts, picked, filter, dct, section, decoded, synced>>
  <2> HIDE DEF Here
  <2>1. s = IF menu.key THEN write_mode_layer(Here, mb) ELSE write_inter_modes(Here, mb)
    BY DEF ModeSymbols
  <2> QED BY <2>1 DEF WriteModes
<1>2. Throughout /\ MbCount = Count(menu) /\ MbCount \in Nat /\ at \in 0..MbCount /\ LegalMenu(menu)
  BY <1>1, StageIs
<1>3. PICK g : Frame(menu, picked, g) /\ FrameEnds(menu, g) /\ StageOf(g)
  BY <1>1, StageIs
<1>4. AtModes(g)
  BY <1>1, <1>3 DEF StageOf
<1>5. ModeReads(menu, picked, g, at)
  BY <1>1, <1>2, <1>3, ReadsModes
<1>6. Here = Place(menu, at, g.walk[at]) /\ walk = g.walk[at] /\ control = HeaderOf \o g.modes[at]
  BY <1>4 DEF Here, AtModes
<1> HIDE DEF s
<1>7. g.walk[at + 1] = walk' /\ g.modes[at + 1] = g.modes[at] \o s /\ Listed(g.modes[at]) /\ Listed(s)
  BY <1>1, <1>5, <1>6 DEF ModeReads, s
<1>8. control' = HeaderOf \o g.modes[at + 1]
  <2>1. Listed(HeaderOf)
    BY ListedOne DEF HeaderOf
  <2> DEFINE h == HeaderOf  a == g.modes[at]
  <2>2. Listed(h) /\ Listed(a) /\ Listed(s) /\ control' = (h \o a) \o s
    BY <1>1, <1>6, <1>7, <2>1
  <2> HIDE DEF h, a
  <2>3. (h \o a) \o s = h \o (a \o s)
    BY <2>2, ListedAssociative, SMTT(30)
  <2> QED BY <1>7, <2>2, <2>3 DEF h, a
<1>9. HeaderOf' = HeaderOf
  BY <1>1 DEF HeaderOf
<1>10. AtModes(g)'
  <2> HIDE DEF HeaderOf
  <2> QED BY <1>1, <1>4, <1>7, <1>8, <1>9 DEF AtModes
<1>11. Throughout'
  BY <1>1, <1>2 DEF Throughout, MbCount
<1>12. Frame(menu, picked, g)'
  BY <1>1, <1>3
<1> QED BY <1>10, <1>11, <1>12 DEF FrameInvariant, Stage

LEMMA ControlKeeps ==
  ASSUME FrameInvariant, FinishControl
  PROVE  FrameInvariant'
<1>1. /\ phase = "modes" /\ phase' = "tokens" /\ at = MbCount /\ at' = 0
      /\ walk' = FreshWalk(menu) /\ contexts' = FreshContexts(menu)
      /\ UNCHANGED <<menu, picked, filter, control, dct, section, decoded, synced>>
  BY DEF FinishControl, StartWalk
<1>2. Throughout /\ MbCount = Count(menu) /\ MbCount \in Nat
  BY <1>1, StageIs
<1>3. PICK g : Frame(menu, picked, g) /\ FrameEnds(menu, g) /\ StageOf(g)
  BY <1>1, StageIs
<1>4. AtModes(g)
  BY <1>1, <1>3 DEF StageOf
<1>5. HeaderOf' = HeaderOf /\ MbCount' = MbCount
  BY <1>1 DEF HeaderOf, MbCount
<1>6. g.walk[0] = FreshWalk(menu) /\ g.contexts[0] = FreshContexts(menu) /\ Written(menu, g, 0) = NoPieces(menu)
  BY <1>3 DEF FrameEnds
<1>7. Written(menu, g, 0)' = Written(menu, g, 0)
  BY <1>1 DEF Written
<1>8. AtTokens(g)'
  <2> HIDE DEF HeaderOf, MbCount
  <2> QED BY <1>1, <1>4, <1>5, <1>6, <1>7 DEF AtModes, AtTokens
<1>9. Throughout'
  BY <1>1, <1>2 DEF Throughout, MbCount
<1>10. Frame(menu, picked, g)'
  BY <1>1, <1>3
<1> QED BY <1>8, <1>9, <1>10 DEF FrameInvariant, Stage

LEMMA TokensKeep ==
  ASSUME FrameInvariant, WriteTokens
  PROVE  FrameInvariant'
<1> DEFINE mb == picked[at + 1]  s == CodedMb(menu, at, contexts, mb)
<1>1. /\ phase = "tokens" /\ at < MbCount /\ at' = at + 1
      /\ contexts' = SteppedContexts(menu, at, contexts, s.above, s.left)
      /\ dct' = [dct EXCEPT ![PartitionOf(menu, at)] = @ \o s.coded]
      /\ UNCHANGED <<menu, phase, walk, picked, filter, control, section, decoded, synced>>
  BY DEF WriteTokens, Partition
<1>2. Throughout /\ MbCount = Count(menu) /\ MbCount \in Nat /\ at \in 0..MbCount /\ LegalMenu(menu)
  BY <1>1, StageIs
<1>3. PICK g : Frame(menu, picked, g) /\ FrameEnds(menu, g) /\ StageOf(g)
  BY <1>1, StageIs
<1>4. AtTokens(g)
  BY <1>1, <1>3 DEF StageOf
<1>5. TokenReads(menu, picked, g, at)
  BY <1>1, <1>2, <1>3, ReadsTokens
<1>6. contexts = g.contexts[at] /\ dct = Written(menu, g, at)
  BY <1>4 DEF AtTokens
<1>7. contexts' = g.contexts[at + 1] /\ dct' = Written(menu, g, at + 1)
  BY <1>1, <1>5, <1>6 DEF TokenReads
<1>8. HeaderOf' = HeaderOf /\ MbCount' = MbCount /\ Written(menu, g, at)' = Written(menu, g, at + 1)
  BY <1>1, SMTT(30) DEF HeaderOf, MbCount, Written
<1>9. AtTokens(g)'
  <2> HIDE DEF HeaderOf, MbCount
  <2> QED BY <1>1, <1>4, <1>7, <1>8 DEF AtTokens
<1>10. Throughout'
  BY <1>1, <1>2 DEF Throughout, MbCount
<1>11. Frame(menu, picked, g)'
  BY <1>1, <1>3
<1> QED BY <1>9, <1>10, <1>11 DEF FrameInvariant, Stage

LEMMA AssembleKeeps ==
  ASSUME FrameInvariant, Assemble
  PROVE  FrameInvariant'
<1> DEFINE N == Count(menu)  K == menu.partitions  parts == [p \in 1..K |-> dct[p - 1]]
<1>1. /\ phase = "tokens" /\ phase' = "carve" /\ at = MbCount /\ at' = 0
      /\ walk' = FreshWalk(menu) /\ contexts' = FreshContexts(menu)
      /\ section' = [sizes |-> [p \in 1..K - 1 |-> Len(parts[p])], body |-> FlattenSeq(parts), counts |-> BranchCounts]
      /\ UNCHANGED <<menu, picked, filter, control, decoded, synced>>
  BY DEF Assemble, StartWalk
<1>2. Throughout /\ MbCount = N /\ N \in Nat /\ LegalMenu(menu)
  BY <1>1, StageIs
<1>3. PICK g : Frame(menu, picked, g) /\ FrameEnds(menu, g) /\ StageOf(g)
  BY <1>1, StageIs
<1>4. AtTokens(g)
  BY <1>1, <1>3 DEF StageOf
<1> DEFINE pieces == Partitions(menu, g.tokens, N)
<1>5. parts = pieces
  <2>1. dct = [p \in 0..K - 1 |-> g.tokens[p][N]]
    BY <1>1, <1>2, <1>4 DEF AtTokens, Written
  <2>2. \A p \in 1..K : p - 1 \in 0..K - 1
    BY <1>2, Geometry
  <2>3. \A p \in 1..K : dct[p - 1] = g.tokens[p - 1][N]
    BY <2>1, <2>2
  <2> QED BY <2>3 DEF Partitions
<1>6. BranchCounts = Tally(FlattenSeq(pieces))
  <2>1. Contexted(menu, picked, g.contexts, N) /\ TokenPrefixes(menu, picked, g.contexts, N, g.tokens)
        /\ Walked(menu, picked, g.walk, N)
    BY <1>3 DEF Frame
  <2>2. \A n \in 1..N : ResidualFits(picked[n])
    BY <1>2, <2>1, FrameFits
  <2>3. CountedMbs(menu, picked)[N].counts = Tally(FlattenSeq(pieces))
    BY <1>2, <2>1, <2>2, CountsMatch
  <2> QED BY <1>2, <2>3 DEF BranchCounts
<1> HIDE DEF parts, pieces
<1>7. /\ section'.sizes = [p \in 1..K - 1 |-> Len(pieces[p])] /\ section'.body = FlattenSeq(pieces)
      /\ section'.counts = Tally(section'.body)
  BY <1>1, <1>5, <1>6
<1>8. /\ HeaderOf' = HeaderOf /\ MbCount' = MbCount /\ SizesOf(menu, g)' = [p \in 1..K - 1 |-> Len(pieces[p])]
      /\ BodyOf(menu, g)' = FlattenSeq(pieces)
  BY <1>1 DEF HeaderOf, MbCount, SizesOf, BodyOf, pieces
<1>9. g.walk[0] = FreshWalk(menu) /\ g.contexts[0] = FreshContexts(menu)
  BY <1>3 DEF FrameEnds
<1>10. AtCarve(g)'
  <2> HIDE DEF HeaderOf, MbCount, N, K
  <2> QED BY <1>1, <1>4, <1>7, <1>8, <1>9 DEF AtTokens, AtCarve
<1>11. Throughout'
  BY <1>1, <1>2 DEF Throughout, MbCount
<1>12. Frame(menu, picked, g)'
  BY <1>1, <1>3
<1> QED BY <1>10, <1>11, <1>12 DEF FrameInvariant, Stage

(* The header first: what is behind it in the control partition is the modes. *)
LEMMA HeaderIsRead ==
  ASSUME NEW value, NEW rest, Listed(rest)
  PROVE  LET r == Read(Reader(<<Sym(<<"filter">>, value)>> \o rest), <<"filter">>, <<>>)
         IN r.val = value /\ Unread(r) = rest
<1> DEFINE h == <<Sym(<<"filter">>, value)>>  reader == Reader(h \o rest)
           r == Read(reader, <<"filter">>, <<>>)
<1>1. Listed(h) /\ Len(h) = 1
  BY ListedOne
<1>2. Ahead(reader, h) /\ \A r2 : Further(reader, Len(h), r2) => Unread(r2) = rest
  <2> HIDE DEF h
  <2> QED BY <1>1, StartOfQueue
<1>3. r.val = value /\ Further(reader, 1, r)
  <2> HIDE DEF reader
  <2> QED BY <1>2, ReadsNext
<1> HIDE DEF r, reader
<1>4. Unread(r) = rest
  BY <1>1, <1>2, <1>3
<1> QED BY <1>3, <1>4 DEF r, reader

LEMMA CarveKeeps ==
  ASSUME FrameInvariant, Carve
  PROVE  FrameInvariant'
<1> DEFINE N == Count(menu)  K == menu.partitions
           header == Read(Reader(control), <<"filter">>, <<>>)
           value == HeaderSymbol(menu, filter.encoder).val
<1>1. /\ phase = "carve" /\ phase' = "parse" /\ control' = Unread(header)
      /\ filter' = [filter EXCEPT !.decoder = IF menu.key THEN keyframe(header.val)
                                               ELSE interframe(header.val, menu.filter.carried)]
      /\ dct' = carve_dct_partitions(K, section.sizes, section.body)
      /\ UNCHANGED <<menu, at, walk, contexts, picked, section, decoded, synced>>
  BY DEF Carve
<1>2. Throughout /\ MbCount = N /\ N \in Nat /\ LegalMenu(menu)
  BY <1>1, StageIs
<1>3. PICK g : Frame(menu, picked, g) /\ FrameEnds(menu, g) /\ StageOf(g)
  BY <1>1, StageIs
<1>4. AtCarve(g)
  BY <1>1, <1>3 DEF StageOf
<1>5. header.val = value /\ Unread(header) = g.modes[N]
  <2>1. HeaderOf = <<Sym(<<"filter">>, value)>>
    BY DEF HeaderOf, HeaderSymbol, Sym
  <2>2. control = <<Sym(<<"filter">>, value)>> \o g.modes[N] /\ Listed(g.modes[N])
    BY <1>2, <1>3, <1>4, <2>1 DEF AtCarve, FrameEnds
  <2> DEFINE v == value  rest == g.modes[N]
  <2> HIDE DEF v, rest
  <2>3. control = <<Sym(<<"filter">>, v)>> \o rest /\ Listed(rest)
    BY <2>2 DEF v, rest
  <2>4. header.val = v /\ Unread(header) = rest
    BY <2>3, HeaderIsRead
  <2> QED BY <2>4 DEF v, rest
<1> HIDE DEF header
<1>6. filter' = [encoder |-> filter.encoder, decoder |-> DecoderFilter(menu, filter.encoder)]
  <2>1. filter = [encoder |-> filter.encoder, decoder |-> filter.decoder]
    BY <1>2 DEF Throughout
  <2>2. DecoderFilter(menu, filter.encoder)
          = IF menu.key THEN keyframe(value) ELSE interframe(value, menu.filter.carried)
    BY DEF DecoderFilter
  <2> DEFINE x == DecoderFilter(menu, filter.encoder)
  <2> HIDE DEF x, value
  <2>3. filter' = [filter EXCEPT !.decoder = x]
    BY <1>1, <1>5, <2>2 DEF x
  <2>4. filter' = [encoder |-> filter.encoder, decoder |-> x]
    BY <2>1, <2>3
  <2> QED BY <2>4 DEF x
<1>7. dct' = Pieces(menu, g, 0)
  <2> DEFINE parts == Partitions(menu, g.tokens, N)
  <2>1. K \in Nat \ {0} /\ parts = [i \in 1..K |-> parts[i]] /\ \A i \in 1..K : parts[i] = g.tokens[i - 1][N] /\ i - 1 \in 0..K - 1
    <3>1. K \in Nat \ {0}
      BY <1>2, Geometry
    <3>2. parts = [i \in 1..K |-> g.tokens[i - 1][N]]
      BY DEF Partitions
    <3> HIDE DEF K, parts, N
    <3>3. \A i \in 1..K : i - 1 \in 0..K - 1
      BY <3>1
    <3> QED BY <3>1, <3>2, <3>3
  <2>2. \A i \in 1..K : Listed(parts[i])
    BY <1>3, <2>1 DEF FrameEnds
  <2>3. dct' = carve_dct_partitions(K, [p \in 1..K - 1 |-> Len(parts[p])], FlattenSeq(parts))
    BY <1>1, <1>4 DEF AtCarve, SizesOf, BodyOf
  <2> HIDE DEF parts, K
  <2>4. dct' = [p \in 0..K - 1 |-> parts[p + 1]]
    BY <2>1, <2>2, <2>3, Carving
  <2>5. \A p \in 0..K - 1 : parts[p + 1] = g.tokens[p][N]
    <3> SUFFICES ASSUME NEW p \in 0..K - 1 PROVE parts[p + 1] = g.tokens[p][N]
      OBVIOUS
    <3> DEFINE i == p + 1
    <3>1. i \in 1..K /\ i - 1 = p
      BY <2>1
    <3> HIDE DEF i
    <3>2. parts[i] = g.tokens[p][N]
      BY <2>1, <3>1
    <3> QED BY <3>2 DEF i
  <2>6. dct' = [p \in 0..K - 1 |-> g.tokens[p][N]]
    BY <2>4, <2>5
  <2>7. Pieces(menu, g, 0) = Written(menu, g, N)
    BY <1>3 DEF FrameEnds
  <2> QED BY <2>6, <2>7 DEF Written, K
<1>8. AtParse(g)'
  <2>1. at = 0 /\ walk = g.walk[0] /\ contexts = g.contexts[0] /\ decoded = <<>> /\ (IF menu.key THEN 0 ELSE at) = 0
    BY <1>4 DEF AtCarve
  <2>2. control' = Queue(menu, g, 0)
    BY <1>1, <1>3, <1>5 DEF FrameEnds
  <2>3. Decoded(picked, 0, 0) = <<>>
    BY DEF Decoded
  <2>4. FilterRead'
    BY <1>1, <1>6 DEF FilterRead
  <2>5. at' = 0 /\ menu' = menu /\ picked' = picked /\ decoded' = decoded /\ walk' = walk /\ contexts' = contexts /\ phase' = "parse"
    BY <1>1, <2>1
  <2>6. (IF menu.key THEN 0 ELSE at)' = 0
    BY <2>5
  <2> QED BY <1>7, <2>1, <2>2, <2>3, <2>4, <2>5, <2>6 DEF AtParse
<1>9. Throughout'
  <2>1. filter'.encoder = filter.encoder /\ filter' = [encoder |-> filter'.encoder, decoder |-> filter'.decoder]
    BY <1>6
  <2> QED BY <1>1, <1>2, <2>1 DEF Throughout, MbCount
<1>10. Frame(menu, picked, g)'
  BY <1>1, <1>3
<1> QED BY <1>8, <1>9, <1>10 DEF FrameInvariant, Stage

(* A walk steps alike over a macroblock and over what the decoder records.   *)
LEMMA SteppedShown ==
  ASSUME NEW m, NEW n, NEW w, NEW mb, NEW residual
  PROVE  Stepped(m, n, w, Shown(mb, residual)) = Stepped(m, n, w, mb)
<1> DEFINE d == Shown(mb, residual)
<1>1. d.y = mb.y /\ d.bmodes = mb.bmodes /\ d.info = mb.info
  BY DEF Shown
<1> HIDE DEF d
<1>2. Edges(d) = Edges(mb)
  BY <1>1 DEF Edges
<1>3. Stepped(m, n, w, d) = Stepped(m, n, w, mb)
  BY <1>1, <1>2 DEF Stepped
<1> QED BY <1>3 DEF d

LEMMA ShownSetsResidual ==
  ASSUME NEW mb, NEW x, NEW y
  PROVE  [Shown(mb, x) EXCEPT !.residual = y] = Shown(mb, y)
BY DEF Shown

LongerBy(n, f, h, z) ==
  /\ f = [i \in 1..n |-> f[i]] /\ h = [i \in 1..n + 1 |-> h[i]]
  /\ \A i \in 1..n : h[i] = f[i]
  /\ h[n + 1] = z

LEMMA AppendIs ==
  ASSUME NEW n \in Nat, NEW f, NEW h, NEW z, LongerBy(n, f, h, z)
  PROVE  Append(f, z) = h
<1>1. /\ f = [i \in 1..n |-> f[i]] /\ h = [i \in 1..n + 1 |-> h[i]]
      /\ \A i \in 1..n : h[i] = f[i]
      /\ h[n + 1] = z
  BY Zenon DEF LongerBy
<1>2. Listed(f) /\ Len(f) = n /\ Listed(h) /\ Len(h) = n + 1
  <2>1. Listed(f) /\ Len(f) = n
    BY <1>1, ListedIs
  <2> DEFINE k == n + 1
  <2>2. k \in Nat /\ h = [i \in 1..k |-> h[i]]
    BY <1>1
  <2> HIDE DEF k
  <2>3. Listed(h) /\ Len(h) = k
    BY <2>2, ListedIs
  <2> QED BY <2>1, <2>3 DEF k
<1>3. Append(f, z) = f \o <<z>> /\ Joins(f, <<z>>, f \o <<z>>) /\ Len(<<z>>) = 1 /\ <<z>>[1] = z
  BY <1>2, ListedAppend, ListedOne, ListedJoin
<1> DEFINE s == Append(f, z)
<1>4. Listed(s) /\ Len(s) = n + 1 /\ (\A i \in 1..n : s[i] = f[i]) /\ s[n + 1] = z
  <2>1. Joins(f, <<z>>, s)
    BY <1>3
  <2> HIDE DEF s
  <2> QED BY <1>2, <1>3, <2>1 DEF Joins
<1> HIDE DEF s
<1>5. \A i \in 1..Len(s) : s[i] = h[i]
  <2>1. \A i \in 1..n + 1 : i \in 1..n \/ i = n + 1
    OBVIOUS
  <2> QED BY <1>1, <1>4, <2>1
<1>6. s = h
  BY <1>2, <1>4, <1>5, ListedEqual
<1> QED BY <1>6 DEF s

LEMMA DecodedGrows ==
  ASSUME NEW picks, NEW n \in Nat
  PROVE  /\ Append(Decoded(picks, n, 0), Shown(picks[n + 1], {})) = Decoded(picks, n + 1, 0)
         /\ Append(Decoded(picks, n, n), Shown(picks[n + 1], picks[n + 1].residual)) = Decoded(picks, n + 1, n + 1)
<1> DEFINE r(i, j) == Shown(picks[i], IF i <= j THEN picks[i].residual ELSE {})
<1>1. \A j : Decoded(picks, n, j) = [i \in 1..n |-> r(i, j)] /\ Decoded(picks, n + 1, j) = [i \in 1..n + 1 |-> r(i, j)]
  BY DEF Decoded
<1>2. r(n + 1, 0) = Shown(picks[n + 1], {}) /\ r(n + 1, n + 1) = Shown(picks[n + 1], picks[n + 1].residual)
  OBVIOUS
<1>3. \A i \in 1..n : r(i, n) = r(i, n + 1)
  OBVIOUS
<1> HIDE DEF r
<1> DEFINE f0 == Decoded(picks, n, 0)  h0 == Decoded(picks, n + 1, 0)
           f1 == Decoded(picks, n, n)  h1 == Decoded(picks, n + 1, n + 1)
           z0 == Shown(picks[n + 1], {})  z1 == Shown(picks[n + 1], picks[n + 1].residual)
<1>4. LongerBy(n, f0, h0, z0) /\ LongerBy(n, f1, h1, z1)
  <2>1. n + 1 \in 1..n + 1 /\ \A i \in 1..n : i \in 1..n + 1
    OBVIOUS
  <2>2. /\ f0 = [i \in 1..n |-> r(i, 0)] /\ h0 = [i \in 1..n + 1 |-> r(i, 0)]
        /\ f1 = [i \in 1..n |-> r(i, n)] /\ h1 = [i \in 1..n + 1 |-> r(i, n + 1)]
    BY <1>1
  <2> HIDE DEF f0, h0, f1, h1, z0, z1
  <2> QED BY <1>2, <1>3, <2>1, <2>2 DEF z0, z1, LongerBy
<1> HIDE DEF f0, h0, f1, h1, z0, z1
<1>5. Append(f0, z0) = h0 /\ Append(f1, z1) = h1
  <2>1. Append(f0, z0) = h0
    BY <1>4, AppendIs
  <2>2. Append(f1, z1) = h1
    BY <1>4, AppendIs
  <2> QED BY <2>1, <2>2
<1> QED BY <1>5 DEF f0, h0, f1, h1, z0, z1

LEMMA ParseKeyKeeps ==
  ASSUME FrameInvariant, ParseKeyMode
  PROVE  FrameInvariant'
<1> DEFINE p == parse_key_frame_macroblock(menu, Here, control)  mb == picked[at + 1]
<1>1. /\ phase = "parse" /\ menu.key /\ at < MbCount /\ at' = at + 1
      /\ decoded' = Append(decoded, p.mb) /\ walk' = Stepped(menu, at, walk, p.mb)
      /\ control' = Unread(p.reader) /\ synced' = (synced /\ p.reader.ok)
      /\ UNCHANGED <<menu, phase, contexts, picked, filter, dct, section>>
  BY DEF ParseKeyMode
<1>2. Throughout /\ MbCount = Count(menu) /\ MbCount \in Nat /\ at \in 0..MbCount /\ LegalMenu(menu)
  BY <1>1, StageIs
<1>3. PICK g : Frame(menu, picked, g) /\ FrameEnds(menu, g) /\ StageOf(g)
  BY <1>1, StageIs
<1>4. AtParse(g)
  BY <1>1, <1>3 DEF StageOf
<1>5. ModeReads(menu, picked, g, at)
  BY <1>1, <1>2, <1>3, ReadsModes
<1>6. /\ walk = g.walk[at] /\ control = Queue(menu, g, at) /\ contexts = g.contexts[0]
      /\ dct = Pieces(menu, g, 0) /\ decoded = Decoded(picked, at, 0) /\ FilterRead
  BY <1>1, <1>4 DEF AtParse
<1>7. /\ p.mb = Shown(mb, {}) /\ p.reader.ok = TRUE /\ Unread(p.reader) = Queue(menu, g, at + 1)
      /\ g.walk[at + 1] = Stepped(menu, at, walk, mb)
  <2>1. p = Parsed(menu, Place(menu, at, g.walk[at]), Queue(menu, g, at))
    BY <1>1, <1>6 DEF Parsed, Here
  <2> HIDE DEF p, mb
  <2>2. ReadBack(p, mb, Queue(menu, g, at + 1)) /\ g.walk[at + 1] = Stepped(menu, at, g.walk[at], mb)
    BY <1>5, <2>1 DEF ModeReads, mb
  <2> QED BY <1>6, <2>2 DEF ReadBack
<1> HIDE DEF p
<1>8. walk' = g.walk[at + 1]
  BY <1>1, <1>7, SteppedShown
<1>9. decoded' = Decoded(picked, at + 1, 0)
  <2>1. at \in Nat
    BY <1>2
  <2> QED BY <1>1, <1>6, <1>7, <2>1, DecodedGrows
<1>10. /\ Queue(menu, g, at)' = Queue(menu, g, at + 1) /\ Pieces(menu, g, 0)' = Pieces(menu, g, 0)
       /\ Decoded(picked, at, 0)' = Decoded(picked, at + 1, 0) /\ FilterRead' = FilterRead /\ MbCount' = MbCount
  BY <1>1 DEF Queue, Pieces, Decoded, FilterRead, MbCount
<1>11. AtParse(g)'
  <2>1. (IF menu.key THEN 0 ELSE at)' = 0
    BY <1>1
  <2>2. phase' = "parse" /\ walk' = g.walk[at'] /\ control' = Queue(menu, g, at + 1) /\ contexts' = g.contexts[0]
        /\ dct' = Pieces(menu, g, 0)
    BY <1>1, <1>6, <1>7, <1>8
  <2>3. dct' = Pieces(menu, g, (IF menu.key THEN 0 ELSE at))'
    BY <1>1, <1>10, <2>1, <2>2 DEF Pieces
  <2>4. decoded' = Decoded(picked, at, (IF menu.key THEN 0 ELSE at))'
    BY <1>1, <1>9, <2>1 DEF Decoded
  <2> QED BY <1>1, <1>6, <1>10, <2>1, <2>2, <2>3, <2>4 DEF AtParse
<1>12. Throughout'
  <2>1. synced' = TRUE
    BY <1>1, <1>2, <1>7, Zenon DEF Throughout
  <2>2. at' \in 0..MbCount
    BY <1>1, <1>2
  <2> QED BY <1>1, <1>2, <1>10, <2>1, <2>2, Zenon DEF Throughout
<1>13. Frame(menu, picked, g)'
  BY <1>1, <1>3
<1> QED BY <1>11, <1>12, <1>13 DEF FrameInvariant, Stage

LEMMA StartResidualKeeps ==
  ASSUME FrameInvariant, StartResidual
  PROVE  FrameInvariant'
<1>1. /\ phase = "parse" /\ phase' = "residual" /\ menu.key /\ at = MbCount /\ at' = 0
      /\ walk' = FreshWalk(menu) /\ contexts' = FreshContexts(menu)
      /\ UNCHANGED <<menu, picked, filter, control, dct, section, decoded, synced>>
  BY DEF StartResidual, StartWalk
<1>2. Throughout /\ MbCount = Count(menu) /\ MbCount \in Nat /\ LegalMenu(menu)
  BY <1>1, StageIs
<1>3. PICK g : Frame(menu, picked, g) /\ FrameEnds(menu, g) /\ StageOf(g)
  BY <1>1, StageIs
<1>4. AtParse(g)
  BY <1>1, <1>3 DEF StageOf
<1>5. /\ control = Queue(menu, g, MbCount) /\ dct = Pieces(menu, g, 0) /\ decoded = Decoded(picked, MbCount, 0) /\ FilterRead
  BY <1>1, <1>4 DEF AtParse
<1>6. g.walk[0] = FreshWalk(menu) /\ g.contexts[0] = FreshContexts(menu) /\ control = <<>>
  BY <1>2, <1>3, <1>5 DEF FrameEnds
<1>7. /\ Pieces(menu, g, at)' = Pieces(menu, g, 0) /\ Decoded(picked, MbCount, at)' = Decoded(picked, MbCount, 0)
      /\ FilterRead' = FilterRead /\ MbCount' = MbCount
  BY <1>1 DEF Pieces, Decoded, FilterRead, MbCount
<1>8. AtResidual(g)'
  <2> HIDE DEF MbCount
  <2> QED BY <1>1, <1>5, <1>6, <1>7 DEF AtResidual
<1>9. Throughout'
  BY <1>1, <1>2 DEF Throughout, MbCount
<1>10. Frame(menu, picked, g)'
  BY <1>1, <1>3
<1> QED BY <1>8, <1>9, <1>10 DEF FrameInvariant, Stage

LEMMA KeyResidualKeeps ==
  ASSUME FrameInvariant, ReadKeyResidual
  PROVE  FrameInvariant'
<1> DEFINE mb == picked[at + 1]  d == decoded[at + 1]  q == PartitionOf(menu, at)
           s == CodedMb(menu, at, contexts, mb)
           r == ReadResidual(menu, at, contexts, d, dct[q])
<1>1. /\ phase = "residual" /\ at < MbCount /\ at' = at + 1
      /\ decoded' = [decoded EXCEPT ![at + 1].residual = r.residual]
      /\ contexts' = SteppedContexts(menu, at, contexts, r.above, r.left)
      /\ dct' = [dct EXCEPT ![q] = Unread(r.reader)]
      /\ synced' = (synced /\ r.reader.ok)
      /\ UNCHANGED <<menu, phase, walk, picked, filter, control, section>>
  BY DEF ReadKeyResidual, Partition
<1>2. Throughout /\ MbCount = Count(menu) /\ MbCount \in Nat /\ at \in 0..MbCount /\ LegalMenu(menu)
  BY <1>1, StageIs
<1>3. PICK g : Frame(menu, picked, g) /\ FrameEnds(menu, g) /\ StageOf(g)
  BY <1>1, StageIs
<1>4. AtResidual(g)
  BY <1>1, <1>3 DEF StageOf
<1>5. TokenReads(menu, picked, g, at)
  BY <1>1, <1>2, <1>3, ReadsTokens
<1>6. /\ menu.key /\ walk = g.walk[0] /\ control = <<>> /\ contexts = g.contexts[at]
      /\ dct = Pieces(menu, g, at) /\ decoded = Decoded(picked, MbCount, at) /\ FilterRead
  BY <1>4 DEF AtResidual
<1>7. at + 1 \in 1..MbCount /\ ~(at + 1 <= at)
  BY <1>1, <1>2
<1>8. d = Shown(mb, {})
  BY <1>6, <1>7 DEF Decoded
<1>9. d.skip = mb.skip /\ d.y = mb.y
  BY <1>8 DEF Shown
<1>10. /\ r.above = s.above /\ r.left = s.left /\ r.residual = mb.residual
       /\ r.reader.ok = TRUE /\ Unread(r.reader) = Pieces(menu, g, at + 1)[q]
       /\ g.contexts[at + 1] = SteppedContexts(menu, at, contexts, s.above, s.left)
       /\ Pieces(menu, g, at + 1) = [dct EXCEPT ![q] = Pieces(menu, g, at + 1)[q]]
  <2> HIDE DEF r, s, d, mb, q
  <2>1. TokenReads(menu, picked, g, at) /\ r = ReadResidual(menu, at, contexts, d, dct[q]) /\ q = PartitionOf(menu, at)
        /\ mb = picked[at + 1] /\ s = CodedMb(menu, at, contexts, mb)
    BY <1>5 DEF r, q, mb, s
  <2>2. ResidualRead(s, r, mb, Pieces(menu, g, at + 1)[q])
        /\ g.contexts[at + 1] = SteppedContexts(menu, at, contexts, s.above, s.left)
        /\ Pieces(menu, g, at + 1) = [dct EXCEPT ![q] = Pieces(menu, g, at + 1)[q]]
    BY <1>6, <1>9, <2>1 DEF TokenReads
  <2> QED BY <2>2 DEF ResidualRead
<1> HIDE DEF r, s
<1>11. contexts' = g.contexts[at + 1] /\ dct' = Pieces(menu, g, at + 1)
  <2> HIDE DEF q
  <2> QED BY <1>1, <1>10
<1>12. decoded' = Decoded(picked, MbCount, at + 1)
  <2> DEFINE N == MbCount  n == at + 1  a == Decoded(picked, N, at)  b == Decoded(picked, N, n)
  <2>1. a[n] = Shown(mb, {}) /\ [Shown(mb, {}) EXCEPT !.residual = mb.residual] = Shown(mb, mb.residual)
    BY <1>6, <1>8, ShownSetsResidual
  <2>2. decoded' = [a EXCEPT ![n] = [a[n] EXCEPT !.residual = mb.residual]]
    BY <1>1, <1>6, <1>10
  <2>3. a = [i \in 1..N |-> a[i]] /\ b = [i \in 1..N |-> b[i]] /\ b[n] = Shown(mb, mb.residual)
        /\ \A i \in 1..N : i # n => b[i] = a[i]
    <3>1. \A i \in 1..N : i # n => (i <= n <=> i <= at)
      BY <1>2
    <3>2. n \in 1..N /\ n <= n
      BY <1>7
    <3> DEFINE e(i, j) == Shown(picked[i], IF i <= j THEN picked[i].residual ELSE {})
    <3>3. \A i \in 1..N : i # n => e(i, n) = e(i, at)
      BY <3>1
    <3>4. e(n, n) = Shown(mb, mb.residual)
      BY <3>2
    <3>5. a = [i \in 1..N |-> e(i, at)] /\ b = [i \in 1..N |-> e(i, n)]
      BY DEF Decoded
    <3> HIDE DEF N, n, mb, e, a, b
    <3> QED BY <3>2, <3>3, <3>4, <3>5
  <2>4. decoded' = [a EXCEPT ![n] = Shown(mb, mb.residual)]
    BY <2>1, <2>2
  <2> HIDE DEF a, b, N, n, mb
  <2>5. decoded' = b
    BY <2>3, <2>4
  <2> QED BY <2>5 DEF b, N, n
<1>13. /\ Pieces(menu, g, at)' = Pieces(menu, g, at + 1) /\ Decoded(picked, MbCount, at)' = Decoded(picked, MbCount, at + 1)
       /\ FilterRead' = FilterRead /\ MbCount' = MbCount
  BY <1>1 DEF Pieces, Decoded, FilterRead, MbCount
<1>14. AtResidual(g)'
  <2> HIDE DEF MbCount
  <2> QED BY <1>1, <1>6, <1>11, <1>12, <1>13 DEF AtResidual
<1>15. Throughout'
  <2>1. synced' = TRUE
    BY <1>1, <1>2, <1>10, Zenon DEF Throughout
  <2>2. at' \in 0..MbCount
    BY <1>1, <1>2
  <2> QED BY <1>1, <1>2, <1>13, <2>1, <2>2, Zenon DEF Throughout
<1>16. Frame(menu, picked, g)'
  BY <1>1, <1>3
<1> QED BY <1>14, <1>15, <1>16 DEF FrameInvariant, Stage

LEMMA DecodeInterKeeps ==
  ASSUME FrameInvariant, DecodeInterMb
  PROVE  FrameInvariant'
<1> DEFINE mb == picked[at + 1]  q == PartitionOf(menu, at)  s == CodedMb(menu, at, contexts, mb)
           p == parse_inter_frame_macroblock(menu, Here, control)
           r == ReadResidual(menu, at, contexts, p.mb, dct[q])
<1>1. /\ phase = "parse" /\ ~menu.key /\ at < MbCount /\ at' = at + 1
      /\ decoded' = Append(decoded, [p.mb EXCEPT !.residual = r.residual])
      /\ walk' = Stepped(menu, at, walk, p.mb)
      /\ contexts' = SteppedContexts(menu, at, contexts, r.above, r.left)
      /\ control' = Unread(p.reader) /\ dct' = [dct EXCEPT ![q] = Unread(r.reader)]
      /\ synced' = (synced /\ p.reader.ok /\ r.reader.ok)
      /\ UNCHANGED <<menu, phase, picked, filter, section>>
  BY DEF DecodeInterMb, Partition
<1>2. Throughout /\ MbCount = Count(menu) /\ MbCount \in Nat /\ at \in 0..MbCount /\ LegalMenu(menu)
  BY <1>1, StageIs
<1>3. PICK g : Frame(menu, picked, g) /\ FrameEnds(menu, g) /\ StageOf(g)
  BY <1>1, StageIs
<1>4. AtParse(g)
  BY <1>1, <1>3 DEF StageOf
<1>5. ModeReads(menu, picked, g, at) /\ TokenReads(menu, picked, g, at)
  BY <1>1, <1>2, <1>3, ReadsModes, ReadsTokens
<1>6. /\ walk = g.walk[at] /\ control = Queue(menu, g, at) /\ contexts = g.contexts[at]
      /\ dct = Pieces(menu, g, at) /\ decoded = Decoded(picked, at, at) /\ FilterRead
  BY <1>1, <1>4 DEF AtParse
<1>7. /\ p.mb = Shown(mb, {}) /\ p.reader.ok = TRUE /\ Unread(p.reader) = Queue(menu, g, at + 1)
      /\ g.walk[at + 1] = Stepped(menu, at, walk, mb)
  <2>1. p = Parsed(menu, Place(menu, at, g.walk[at]), Queue(menu, g, at))
    BY <1>1, <1>6 DEF Parsed, Here
  <2> HIDE DEF p, mb
  <2>2. ReadBack(p, mb, Queue(menu, g, at + 1)) /\ g.walk[at + 1] = Stepped(menu, at, g.walk[at], mb)
    BY <1>5, <2>1 DEF ModeReads, mb
  <2> QED BY <1>6, <2>2, SMTT(30) DEF ReadBack
<1>8. p.mb.skip = mb.skip /\ p.mb.y = mb.y
  BY <1>7 DEF Shown
<1>9. /\ r.above = s.above /\ r.left = s.left /\ r.residual = mb.residual
      /\ r.reader.ok = TRUE /\ Unread(r.reader) = Pieces(menu, g, at + 1)[q]
      /\ g.contexts[at + 1] = SteppedContexts(menu, at, contexts, s.above, s.left)
      /\ Pieces(menu, g, at + 1) = [dct EXCEPT ![q] = Pieces(menu, g, at + 1)[q]]
  <2> DEFINE d == p.mb
  <2> HIDE DEF r, s, p, d, mb, q
  <2>1. TokenReads(menu, picked, g, at) /\ r = ReadResidual(menu, at, contexts, d, dct[q]) /\ q = PartitionOf(menu, at)
        /\ mb = picked[at + 1] /\ s = CodedMb(menu, at, contexts, mb) /\ d.skip = mb.skip /\ d.y = mb.y
    BY <1>5, <1>8 DEF r, q, mb, s, d
  <2>2. ResidualRead(s, r, mb, Pieces(menu, g, at + 1)[q])
        /\ g.contexts[at + 1] = SteppedContexts(menu, at, contexts, s.above, s.left)
        /\ Pieces(menu, g, at + 1) = [dct EXCEPT ![q] = Pieces(menu, g, at + 1)[q]]
    BY <1>6, <2>1 DEF TokenReads
  <2> QED BY <2>2 DEF ResidualRead
<1> HIDE DEF r, s, p
<1>10. contexts' = g.contexts[at + 1] /\ dct' = Pieces(menu, g, at + 1)
  <2> HIDE DEF q
  <2> QED BY <1>1, <1>9
<1>11. walk' = g.walk[at + 1]
  BY <1>1, <1>7, SteppedShown
<1>12. decoded' = Decoded(picked, at + 1, at + 1)
  <2>1. at \in Nat
    BY <1>2
  <2> DEFINE z == Shown(mb, mb.residual)
  <2>2. [p.mb EXCEPT !.residual = r.residual] = z
    BY <1>7, <1>9, ShownSetsResidual
  <2>3. Append(Decoded(picked, at, at), z) = Decoded(picked, at + 1, at + 1)
    BY <2>1, DecodedGrows
  <2> HIDE DEF z
  <2> QED BY <1>1, <1>6, <2>2, <2>3
<1>13. /\ Queue(menu, g, at)' = Queue(menu, g, at + 1) /\ Pieces(menu, g, at)' = Pieces(menu, g, at + 1)
       /\ Decoded(picked, at, at)' = Decoded(picked, at + 1, at + 1) /\ FilterRead' = FilterRead /\ MbCount' = MbCount
  BY <1>1 DEF Queue, Pieces, Decoded, FilterRead, MbCount
<1>14. AtParse(g)'
  <2>1. (IF menu.key THEN 0 ELSE at)' = at'
    BY <1>1
  <2>2. phase' = "parse" /\ walk' = g.walk[at'] /\ control' = Queue(menu, g, at + 1) /\ contexts' = g.contexts[at']
    BY <1>1, <1>7, <1>10, <1>11
  <2>3. dct' = Pieces(menu, g, (IF menu.key THEN 0 ELSE at))'
    BY <1>1, <1>10, <2>1 DEF Pieces
  <2>4. decoded' = Decoded(picked, at, (IF menu.key THEN 0 ELSE at))'
    BY <1>1, <1>12, <2>1 DEF Decoded
  <2> QED BY <1>1, <1>6, <1>13, <2>1, <2>2, <2>3, <2>4 DEF AtParse
<1>15. Throughout'
  <2>1. synced' = TRUE
    BY <1>1, <1>2, <1>7, <1>9, Zenon DEF Throughout
  <2>2. at' \in 0..MbCount
    BY <1>1, <1>2
  <2> QED BY <1>1, <1>2, <1>13, <2>1, <2>2, Zenon DEF Throughout
<1>16. Frame(menu, picked, g)'
  BY <1>1, <1>3
<1> QED BY <1>14, <1>15, <1>16 DEF FrameInvariant, Stage

LEMMA FinishKeeps ==
  ASSUME FrameInvariant, Finish
  PROVE  FrameInvariant'
<1>1. /\ phase = (IF menu.key THEN "residual" ELSE "parse") /\ phase' = "done" /\ at = MbCount /\ at' = 0
      /\ UNCHANGED <<menu, picked, filter, control, dct, section, decoded, synced>>
  BY DEF Finish, StartWalk
<1>2. Throughout /\ MbCount = Count(menu) /\ MbCount \in Nat /\ LegalMenu(menu)
  <2>1. phase # "pick"
    BY <1>1
  <2> QED BY <2>1, StageIs
<1>3. PICK g : Frame(menu, picked, g) /\ FrameEnds(menu, g) /\ StageOf(g)
  <2>1. phase # "pick"
    BY <1>1
  <2> QED BY <2>1, StageIs
<1>4. control = <<>> /\ dct = Pieces(menu, g, MbCount) /\ decoded = Decoded(picked, MbCount, MbCount) /\ FilterRead
  <2>1. CASE menu.key
    <3>1. AtResidual(g)
      BY <1>1, <1>3, <2>1 DEF StageOf
    <3> QED BY <1>1, <3>1 DEF AtResidual
  <2>2. CASE ~menu.key
    <3>1. AtParse(g)
      BY <1>1, <1>3, <2>2 DEF StageOf
    <3>2. Queue(menu, g, MbCount) = <<>>
      BY <1>2, <1>3 DEF FrameEnds
    <3> QED BY <1>1, <2>2, <3>1, <3>2 DEF AtParse
  <2> QED BY <2>1, <2>2
<1>5. dct = NoPieces(menu)
  BY <1>2, <1>3, <1>4 DEF FrameEnds
<1>6. /\ NoPieces(menu)' = NoPieces(menu) /\ Decoded(picked, MbCount, MbCount)' = Decoded(picked, MbCount, MbCount)
      /\ FilterRead' = FilterRead /\ MbCount' = MbCount
  BY <1>1 DEF NoPieces, Decoded, FilterRead, MbCount
<1>7. AtDone(g)'
  <2> HIDE DEF MbCount
  <2> QED BY <1>1, <1>4, <1>5, <1>6 DEF AtDone
<1>8. Throughout'
  BY <1>1, <1>2 DEF Throughout, MbCount
<1>9. Frame(menu, picked, g)'
  BY <1>1, <1>3, SMTT(30)
<1> QED BY <1>7, <1>8, <1>9 DEF FrameInvariant, Stage

LEMMA FrameStays ==
  ASSUME FrameInvariant, UNCHANGED vars
  PROVE  FrameInvariant'
BY ZenonT(40) DEF FrameInvariant, Throughout, Picking, Stage, AtHeader, AtModes, AtTokens, AtCarve, AtParse, AtResidual, AtDone, vars,
       HeaderOf, FilterRead, MbCount, Written, Pieces, Decoded, Queue, NoPieces, SizesOf, BodyOf, FilterConfigs

(* Every step of a frame keeps the walks where the frame has them.           *)
LEMMA FrameInvariantKept ==
  ASSUME FrameInvariant, [Next]_vars
  PROVE  FrameInvariant'
<1>1. CASE PickKeyMb \/ PickAdaptiveKeyMb \/ PickInterMb
  <2>1. PICK mb : PickOne(mb)
    BY <1>1, PickSteps
  <2> QED BY <2>1, PickKeeps
<1>2. CASE FilterKeyPicture \/ FilterInterPicture
  BY <1>2, FilterKeeps
<1>3. CASE WriteHeader
  BY <1>3, HeaderKeeps
<1>4. CASE WriteModes
  BY <1>4, ModesKeep
<1>5. CASE FinishControl
  BY <1>5, ControlKeeps
<1>6. CASE WriteTokens
  BY <1>6, TokensKeep
<1>7. CASE Assemble
  BY <1>7, AssembleKeeps
<1>8. CASE Carve
  BY <1>8, CarveKeeps
<1>9. CASE ParseKeyMode
  BY <1>9, ParseKeyKeeps
<1>10. CASE StartResidual
  BY <1>10, StartResidualKeeps
<1>11. CASE ReadKeyResidual
  BY <1>11, KeyResidualKeeps
<1>12. CASE DecodeInterMb
  BY <1>12, DecodeInterKeeps
<1>13. CASE Finish
  BY <1>13, FinishKeeps
<1>14. CASE UNCHANGED vars
  BY <1>14, FrameStays
<1> QED BY <1>1, <1>2, <1>3, <1>4, <1>5, <1>6, <1>7, <1>8, <1>9, <1>10, <1>11, <1>12, <1>13, <1>14 DEF Next

(* In every reachable state each end's walk is where the frame has it: the   *)
(* inductive invariant of the macroblock layer.                              *)
THEOREM FrameInvariantHolds == Spec => []FrameInvariant
<1>1. Init => FrameInvariant
  BY FrameStarts
<1>2. FrameInvariant /\ [Next]_vars => FrameInvariant'
  BY FrameInvariantKept
<1> QED BY <1>1, <1>2, PTL DEF Spec

-----------------------------------------------------------------------------
(* The end of the frame, where both ends have every macroblock.              *)
LEMMA InvariantWalks ==
  ASSUME FrameInvariant
  PROVE  WalksAgree
<1>1. synced
  BY DEF FrameInvariant, Throughout
<1>2. ASSUME phase = "done" PROVE control = <<>> /\ \A p \in DOMAIN dct : dct[p] = <<>>
  <2>1. PICK g : StageOf(g)
    BY <1>2, StageIs
  <2>2. control = <<>> /\ dct = NoPieces(menu)
    BY <1>2, <2>1 DEF StageOf, AtDone
  <2> QED BY <2>2 DEF NoPieces
<1>3. ASSUME phase = "carve" PROVE section.counts = Tally(section.body)
  <2>1. PICK g : StageOf(g)
    BY <1>3, StageIs
  <2> QED BY <1>3, <2>1 DEF StageOf, AtCarve
<1> QED BY <1>1, <1>2, <1>3 DEF WalksAgree

(* What the decoder has recorded so far, in any phase.                       *)
LEMMA RecordsShown ==
  ASSUME FrameInvariant
  PROVE  \E n \in Nat, k \in Nat : decoded = Decoded(picked, n, k) /\ (phase = "done" => k = n)
<1>1. CASE phase = "pick"
  <2>1. Picking
    BY <1>1 DEF FrameInvariant, Stage, AtHeader, AtModes, AtTokens, AtCarve, AtParse, AtResidual, AtDone
  <2>2. decoded = Decoded(picked, 0, 0)
    BY <2>1 DEF Picking, Decoded
  <2> QED BY <1>1, <2>2
<1>2. CASE phase # "pick"
  <2>1. MbCount \in Nat /\ at \in Nat
    <3>1. MbCount \in Nat /\ at \in 0..MbCount
      BY <1>2, StageIs
    <3> QED BY <3>1
  <2>2. PICK g : Stage(g)
    BY <1>2 DEF FrameInvariant, Picking
  <2>3. CASE AtHeader(g) \/ AtModes(g) \/ AtTokens(g) \/ AtCarve(g)
    <3>1. decoded = Decoded(picked, 0, 0) /\ phase # "done"
      BY <2>3 DEF AtHeader, AtModes, AtTokens, AtCarve, Decoded
    <3> QED BY <3>1
  <2>4. CASE AtParse(g)
    <3> DEFINE k == IF menu.key THEN 0 ELSE at
    <3>1. k \in Nat
      BY <2>1
    <3>2. decoded = Decoded(picked, at, k) /\ phase # "done"
      BY <2>4 DEF AtParse
    <3> HIDE DEF k
    <3> QED BY <2>1, <3>1, <3>2
  <2>5. CASE AtResidual(g)
    <3>1. decoded = Decoded(picked, MbCount, at) /\ phase # "done"
      BY <2>5 DEF AtResidual
    <3> HIDE DEF MbCount
    <3> QED BY <2>1, <3>1
  <2>6. CASE AtDone(g)
    <3>1. decoded = Decoded(picked, MbCount, MbCount)
      BY <2>6 DEF AtDone
    <3> HIDE DEF MbCount
    <3> QED BY <2>1, <3>1
  <2> QED BY <2>2, <2>3, <2>4, <2>5, <2>6 DEF Stage
<1> QED BY <1>1, <1>2

LEMMA ShownFields ==
  ASSUME NEW mb, NEW x
  PROVE  /\ \A f \in DOMAIN Shown(mb, x) \ {"residual"} : Shown(mb, x)[f] = mb[f]
         /\ Shown(mb, x).residual = x
BY DEF Shown

LEMMA InvariantReaders ==
  ASSUME FrameInvariant
  PROVE  PublicReadersAgree
<1> DEFINE mb == picked[at + 1]
<1> SUFFICES ASSUME phase = "parse", ~menu.key, at < MbCount, mb.mode # Intra
             PROVE  PublicReads(menu, Here, mb, control)
  BY DEF PublicReadersAgree, PublicReads
<1>1. MbCount = Count(menu) /\ MbCount \in Nat /\ at \in 0..MbCount /\ LegalMenu(menu)
  BY StageIs
<1>2. PICK g : Frame(menu, picked, g) /\ FrameEnds(menu, g) /\ StageOf(g)
  BY StageIs
<1>3. walk = g.walk[at] /\ control = Queue(menu, g, at)
  BY <1>2 DEF StageOf, AtParse
<1>4. ModeReads(menu, picked, g, at)
  BY <1>1, <1>2, ReadsModes
<1>5. PublicReads(menu, Place(menu, at, g.walk[at]), mb, Queue(menu, g, at))
  BY <1>4 DEF ModeReads
<1> QED BY <1>3, <1>5 DEF Here

LEMMA InvariantDecodes ==
  ASSUME FrameInvariant
  PROVE  DecodesWhatWasPicked
<1>1. PICK n \in Nat, k \in Nat : decoded = Decoded(picked, n, k) /\ (phase = "done" => k = n)
  BY RecordsShown
<1>2. decoded = [i \in 1..n |-> decoded[i]] /\ Len(decoded) = n
  <2>1. decoded = [i \in 1..n |-> decoded[i]]
    BY <1>1 DEF Decoded
  <2> QED BY <2>1, ListedIs
<1>3. ASSUME NEW i \in 1..Len(decoded)
      PROVE  /\ \A f \in DOMAIN decoded[i] \ {"residual"} : decoded[i][f] = picked[i][f]
             /\ phase = "done" => decoded[i].residual = picked[i].residual
  <2> DEFINE x == IF i <= k THEN picked[i].residual ELSE {}
  <2>1. decoded[i] = Shown(picked[i], x)
    BY <1>1, <1>2 DEF Decoded
  <2>2. phase = "done" => x = picked[i].residual
    BY <1>1, <1>2
  <2> HIDE DEF x
  <2> QED BY <2>1, <2>2, ShownFields
<1> QED BY <1>3, InvariantReaders DEF DecodesWhatWasPicked

LEMMA InvariantFilters ==
  ASSUME FrameInvariant
  PROVE  FilterPlansAgree
<1> SUFFICES ASSUME phase = "done", NEW i \in 1..MbCount
             PROVE  Plan(filter.encoder, picked[i]) = Plan(filter.decoder, decoded[i])
  BY DEF FilterPlansAgree
<1> DEFINE mb == picked[i]
<1>1. MbCount = Count(menu) /\ MbCount \in Nat /\ LegalMenu(menu) /\ filter.encoder \in FilterConfigs(menu)
  BY StageIs DEF Throughout
<1>2. PICK g : Frame(menu, picked, g) /\ StageOf(g)
  BY StageIs
<1>3. decoded = Decoded(picked, MbCount, MbCount) /\ filter.decoder = DecoderFilter(menu, filter.encoder)
  BY <1>2 DEF StageOf, AtDone, FilterRead
<1>4. decoded[i] = Shown(mb, mb.residual)
  <2>1. i <= MbCount
    BY <1>1
  <2> HIDE DEF MbCount
  <2> QED BY <1>3, <2>1 DEF Decoded
<1>5. mb.segment \in Segments
  BY <1>1, <1>2, FrameFits DEF Frame
<1>6. SameFilter(filter.encoder, filter.decoder)
  BY <1>1, <1>3, FiltersAgree
<1> HIDE DEF mb
<1>7. Plan(filter.encoder, mb) = Plan(filter.decoder, Shown(mb, mb.residual))
  BY <1>5, <1>6, SamePlan
<1> QED BY <1>4, <1>7 DEF mb

(* Every symbol is read in the context it was written in, nothing is left    *)
(* unread, and the fitter counted what the partitions hold.                  *)
THEOREM WalksAlwaysAgree == Spec => []WalksAgree
BY FrameInvariantHolds, InvariantWalks, PTL

(* The decoder records, and the public readers find, what the picker chose.  *)
THEOREM AlwaysDecodesWhatWasPicked == Spec => []DecodesWhatWasPicked
BY FrameInvariantHolds, InvariantDecodes, PTL

(* Both ends filter every macroblock alike.                                  *)
THEOREM FilterPlansAlwaysAgree == Spec => []FilterPlansAgree
BY FrameInvariantHolds, InvariantFilters, PTL

-----------------------------------------------------------------------------
(* The rotation of the reference slots by moves.                            *)

(* The sources in use come from a header, and the frame is a real picture.  *)
CallIsWellFormed ==
  which # 0 => /\ entry.current \in Picture
               /\ sources = SourceOf(entry.refresh)

(* A filled destination holds what its source held on entry.                *)
FilledFromSource ==
  \A k \in 1..3 : which > k =>
    new[Destinations[k]] = Held(entry.slots, entry.current)[sources[Destinations[k]]]

(* At most one clone per filled destination: bounds clones by 2, since the  *)
(* last destination always moves.                                          *)
ClonesSoFar == which \in 1..4 => clones <= which - 1

IInv == /\ TypeOK
        /\ CallIsWellFormed
        /\ PendingSourceStillOwned
        /\ FilledFromSource
        /\ ClonesSoFar

LEMMA SourcesAreSources ==
  ASSUME NEW c \in RefreshFields
  PROVE  SourceOf(c) \in [Slot -> RotationSource]
BY DEF SourceOf, Slot, RotationSource, LastSource, GoldenSource, AltrefSource

LEMMA HeldIsContent ==
  ASSUME NEW s \in [Slot -> Content], NEW current \in Content
  PROVE  Held(s, current) \in [RotationSource -> Content]
BY DEF Held, Slot, RotationSource

(* Selection and staging are the same function of the entry slots.          *)
LEMMA RotatedIsStaged ==
  ASSUME NEW s \in [Slot -> Content], NEW current \in Content,
         NEW c \in RefreshFields
  PROVE  Rotated(s, current, c) = Ladder!StagedRotation(s, current, c)
<1> DEFINE staged == Ladder!StagedRotation(s, current, c)
<1>0. /\ c.refreshGolden \in BOOLEAN /\ c.refreshAltref \in BOOLEAN
      /\ c.refreshLast \in BOOLEAN
      /\ c.copyGolden \in 0..3 /\ c.copyAltref \in 0..3
  BY DEF RefreshFields
<1>1. Rotated(s, current, c)["last"] = staged["last"]
  BY <1>0 DEF Rotated, Held, SourceOf, LastSource, Slot, RotationSource,
              Ladder!StagedRotation, Ladder!Slot
<1>2. Rotated(s, current, c)["golden"] = staged["golden"]
  BY <1>0 DEF Rotated, Held, SourceOf, GoldenSource, Slot, RotationSource,
              Ladder!StagedRotation, Ladder!Slot, Ladder!StagedGolden
<1>3. Rotated(s, current, c)["altref"] = staged["altref"]
  BY <1>0 DEF Rotated, Held, SourceOf, AltrefSource, Slot, RotationSource,
              Ladder!StagedRotation, Ladder!Slot, Ladder!StagedAltref
<1> QED
  BY <1>1, <1>2, <1>3 DEF Rotated, Slot, Ladder!StagedRotation, Ladder!Slot

LEMMA InitInvariant == RotationInit => IInv
BY DEF RotationInit, IInv, TypeOK, CallIsWellFormed, PendingSourceStillOwned,
       FilledFromSource, ClonesSoFar, Slot, RotationSource, Content,
       Destinations, Empty, KeepAll, RefreshFields

LEMMA CallPreserves ==
  ASSUME IInv, NEW current \in Picture, NEW c \in RefreshFields,
         Call(current, c)
  PROVE  IInv'
<1>1. SourceOf(c) \in [Slot -> RotationSource]
  BY SourcesAreSources
<1>2. Held(slots, current) \in [RotationSource -> Content]
  BY HeldIsContent DEF IInv, TypeOK, Content
<1>3. TypeOK'
  BY <1>1, <1>2 DEF IInv, TypeOK, Call, Empty, Content
<1>4. CallIsWellFormed'
  BY DEF CallIsWellFormed, Call
<1>5. PendingSourceStillOwned' /\ FilledFromSource' /\ ClonesSoFar'
  BY DEF PendingSourceStillOwned, FilledFromSource, ClonesSoFar, Call
<1> QED
  BY <1>3, <1>4, <1>5 DEF IInv

LEMMA TakeForPreserves ==
  ASSUME IInv, TakeFor
  PROVE  IInv'
<1> DEFINE d == Destinations[which]
           tok == sources[d]
<1> USE DEF IInv
<1>1. which \in 1..3 /\ which' = which + 1 /\ d \in Slot
      /\ tok \in RotationSource
  BY DEF TakeFor, TypeOK, Destinations, Slot
<1>2. UNCHANGED <<slots, sources, entry>>
  BY DEF TakeFor
<1>3. new' = [new EXCEPT ![d] = owned[tok]]
  BY DEF TakeFor
<1>4. \/ LastUse(which) /\ owned' = [owned EXCEPT ![tok] = NoPicture] /\ clones' = clones
      \/ ~LastUse(which) /\ clones' \in {clones, clones + 1} /\ owned' = owned
  BY DEF TakeFor
<1>5. owned[tok] = Held(entry.slots, entry.current)[tok]
  BY <1>1 DEF PendingSourceStillOwned
<1>6. LastUse(3)
  BY DEF LastUse
<1>7. TypeOK'
  <2>1. owned' \in [RotationSource -> Content] /\ new' \in [Slot -> Content]
    BY <1>1, <1>3, <1>4 DEF TypeOK, Content
  <2>2. clones' \in 0..2
    BY <1>1, <1>4, <1>6 DEF TypeOK, ClonesSoFar
  <2> QED
    BY <2>1, <2>2, <1>1, <1>2 DEF TypeOK
<1>8. CallIsWellFormed'
  BY <1>1, <1>2 DEF CallIsWellFormed
<1>9. PendingSourceStillOwned'
  <2> SUFFICES ASSUME NEW k \in 1..3, which' \in 1..k
               PROVE  owned'[sources[Destinations[k]]]
                        = Held(entry.slots, entry.current)[sources[Destinations[k]]]
    BY <1>2 DEF PendingSourceStillOwned
  <2>1. k > which /\ which \in 1..k
    BY <1>1
  <2>2. owned[sources[Destinations[k]]]
          = Held(entry.slots, entry.current)[sources[Destinations[k]]]
    BY <2>1 DEF PendingSourceStillOwned
  <2>3. sources[Destinations[k]] \in RotationSource
    BY DEF TypeOK, Destinations, Slot
  <2>4. LastUse(which) => sources[Destinations[k]] # tok
    BY <2>1 DEF LastUse
  <2> QED
    BY <2>2, <2>3, <2>4, <1>4 DEF TypeOK
<1>10. FilledFromSource'
  <2> SUFFICES ASSUME NEW k \in 1..3, which' > k
               PROVE  new'[Destinations[k]]
                        = Held(entry.slots, entry.current)[sources[Destinations[k]]]
    BY <1>2 DEF FilledFromSource
  <2>1. CASE k = which
    BY <2>1, <1>1, <1>3, <1>5 DEF TypeOK
  <2>2. CASE k # which
    <3>1. which > k
      BY <2>2, <1>1
    <3>2. Destinations[k] # d /\ Destinations[k] \in Slot
      BY <2>2, <1>1 DEF Destinations, Slot
    <3> QED
      BY <3>1, <3>2, <1>3 DEF FilledFromSource, TypeOK
  <2> QED
    BY <2>1, <2>2
<1>11. ClonesSoFar'
  BY <1>1, <1>4 DEF ClonesSoFar, TypeOK
<1> QED
  BY <1>7, <1>8, <1>9, <1>10, <1>11

LEMMA ReturnPreserves ==
  ASSUME IInv, Return
  PROVE  IInv'
BY DEF IInv, Return, TypeOK, CallIsWellFormed, PendingSourceStillOwned,
       FilledFromSource, ClonesSoFar

LEMMA StepPreserves == IInv /\ [RotationNext]_rotation_vars => IInv'
<1> SUFFICES ASSUME IInv, [RotationNext]_rotation_vars
             PROVE  IInv'
  OBVIOUS
<1>1. ASSUME NEW current \in Picture, NEW c \in RefreshFields, Call(current, c)
      PROVE  IInv'
  BY <1>1, CallPreserves
<1>2. CASE TakeFor
  BY <1>2, TakeForPreserves
<1>3. CASE Return
  BY <1>3, ReturnPreserves
<1>4. CASE UNCHANGED rotation_vars
  BY <1>4 DEF rotation_vars, IInv, TypeOK, CallIsWellFormed, PendingSourceStillOwned,
              FilledFromSource, ClonesSoFar, LastUse
<1> QED
  BY <1>1, <1>2, <1>3, <1>4 DEF RotationNext

(* Every reachable state satisfies the inductive invariant.                 *)
THEOREM RotationInvariant == RotationSpec => []IInv
<1> QED
  BY InitInvariant, StepPreserves, PTL DEF RotationSpec

(* Type correctness, with the bound of two plane copies per rotation.       *)
THEOREM RotationTypeOK == RotationSpec => []TypeOK
<1>1. IInv => TypeOK
  BY DEF IInv
<1> QED
  BY <1>1, RotationInvariant, PTL

(* No reference picture is used after it was moved out (state.rs 207-222).  *)
THEOREM NoUseAfterMove == RotationSpec => []PendingSourceStillOwned
<1>1. IInv => PendingSourceStillOwned
  BY DEF IInv
<1> QED
  BY <1>1, RotationInvariant, PTL

(* Whatever the pictures and the header, one call of the move-based         *)
(* rotation is one step of the staged clone-everything reference.           *)
THEOREM RotationImplementsLadder == RotationSpec => ImplementsLadder
<1> DEFINE seen == IF which = 0 THEN slots ELSE entry.slots
           asked == IF which = 0 THEN {}
                    ELSE {[key |-> FALSE, current |-> entry.current,
                           refresh |-> entry.refresh]}
<1>1. RotationInit => Ladder!Init
  BY DEF RotationInit, Ladder!Init, Ladder!Slot, Slot, Content
<1>2. IInv /\ [RotationNext]_rotation_vars => [Ladder!Next]_<<seen, asked>>
  <2> SUFFICES ASSUME IInv, [RotationNext]_rotation_vars
               PROVE  [Ladder!Next]_<<seen, asked>>
    OBVIOUS
  <2>1. ASSUME NEW current \in Picture, NEW c \in RefreshFields, Call(current, c)
        PROVE  Ladder!Request
    <3> DEFINE r == [key |-> FALSE, current |-> current, refresh |-> c]
    <3>1. seen' = seen /\ asked = {} /\ asked' = {r}
      BY <2>1 DEF Call
    <3>2. r \in Ladder!Call
      BY DEF Ladder!Call, Ladder!RefreshFields, RefreshFields
    <3> QED
      BY <3>1, <3>2 DEF Ladder!Request
  <2>2. CASE TakeFor
    BY <2>2 DEF TakeFor
  <2>3. CASE Return
    <3> DEFINE r == [key |-> FALSE, current |-> entry.current,
                     refresh |-> entry.refresh]
    <3>1. sources = SourceOf(entry.refresh) /\ entry.refresh \in RefreshFields
      BY <2>3 DEF Return, IInv, CallIsWellFormed, TypeOK
    <3>2. entry.current \in Picture /\ entry.slots \in [Slot -> Content]
      BY <2>3 DEF Return, IInv, CallIsWellFormed, TypeOK
    <3>3. \A s \in Slot :
            new[s] = Held(entry.slots, entry.current)[SourceOf(entry.refresh)[s]]
      BY <2>3, <3>1 DEF Return, IInv, FilledFromSource, Destinations, Slot
    <3>4. new = Rotated(entry.slots, entry.current, entry.refresh)
      BY <3>3 DEF Rotated, IInv, TypeOK
    <3>5. seen' = Ladder!StagedRotation(seen, r.current, r.refresh)
      BY <2>3, <3>1, <3>2, <3>4, RotatedIsStaged DEF Return, Content
    <3>6. r \in asked /\ asked' = {} /\ ~r.key /\ r.current \in Picture
      BY <2>3, <3>2 DEF Return
    <3> QED
      BY <3>5, <3>6 DEF Ladder!Rotate, Ladder!Next
  <2>4. CASE UNCHANGED rotation_vars
    BY <2>4 DEF rotation_vars
  <2> QED
    BY <2>1, <2>2, <2>3, <2>4 DEF RotationNext, Ladder!Next
<1> QED
  BY <1>1, <1>2, RotationInvariant, PTL
     DEF RotationSpec, ImplementsLadder, Ladder!Spec

-----------------------------------------------------------------------------
(* What destination k received is a picture, and its source was cloned.    *)
Receives(k) == Held(entry.slots, entry.current)[sources[Destinations[k]]] # NoPicture
Cloned(k) == IF which > k /\ ~LastUse(k) /\ Receives(k) THEN 1 ELSE 0
ClonesCounted == which \in 1..4 => clones = Cloned(1) + Cloned(2) + Cloned(3)

LEMMA TakeForCounts ==
  ASSUME IInv, ClonesCounted, TakeFor
  PROVE  ClonesCounted'
<1> DEFINE tok == sources[Destinations[which]]
           held == Held(entry.slots, entry.current)
<1>1. which \in 1..3 /\ which' = which + 1 /\ UNCHANGED <<sources, entry>> /\ clones \in Nat
  BY DEF TakeFor, IInv, TypeOK
<1>2. owned[tok] = held[tok]
  BY <1>1 DEF IInv, PendingSourceStillOwned
<1>3. clones' = clones + (IF ~LastUse(which) /\ Receives(which) THEN 1 ELSE 0)
  BY <1>1, <1>2 DEF TakeFor, Receives
<1>4. \A k \in 1..3 : /\ LastUse(k)' <=> LastUse(k)
                      /\ Receives(k)' <=> Receives(k)
  BY <1>1 DEF LastUse, Receives, Held
<1>5. \A k \in 1..3 : Cloned(k)' = Cloned(k) + (IF k = which /\ ~LastUse(k) /\ Receives(k) THEN 1 ELSE 0)
  <2>1. ASSUME NEW k \in 1..3
        PROVE  Cloned(k)' = Cloned(k) + (IF k = which /\ ~LastUse(k) /\ Receives(k) THEN 1 ELSE 0)
    <3>1. CASE k = which
      BY <1>1, <1>4, <3>1 DEF Cloned
    <3>2. CASE k # which
      BY <1>1, <1>4, <3>2 DEF Cloned
    <3> QED BY <3>1, <3>2
  <2> QED BY <2>1
<1>6. Cloned(1) \in Nat /\ Cloned(2) \in Nat /\ Cloned(3) \in Nat
  BY DEF Cloned
<1>7. clones = Cloned(1) + Cloned(2) + Cloned(3)
  BY <1>1 DEF ClonesCounted
<1>8. clones' = (Cloned(1) + Cloned(2) + Cloned(3))'
  <2>1. CASE which = 1
    BY <1>3, <1>5, <1>6, <1>7, <2>1
  <2>2. CASE which = 2
    BY <1>3, <1>5, <1>6, <1>7, <2>2
  <2>3. CASE which = 3
    BY <1>3, <1>5, <1>6, <1>7, <2>3
  <2> QED BY <1>1, <2>1, <2>2, <2>3
<1> QED BY <1>8 DEF ClonesCounted

Bit == {0, 1}

(* x alone, or nothing; and how many elements three of those have together. *)
AnyOf(x, n) == IF n = 0 THEN {} ELSE {x}

LEMMA CountThree ==
  ASSUME NEW a, NEW b, NEW c, NEW p \in Bit, NEW q \in Bit, NEW r \in Bit
  PROVE  Cardinality((AnyOf(c, r) \cup AnyOf(b, q)) \cup AnyOf(a, p))
           = r + (IF r = 1 /\ b = c THEN 0 ELSE q)
               + (IF (q = 1 /\ a = b) \/ (r = 1 /\ a = c) THEN 0 ELSE p)
<1>1. ASSUME NEW S, IsFiniteSet(S), NEW x, NEW n \in Bit
      PROVE  /\ IsFiniteSet(S \cup AnyOf(x, n))
             /\ Cardinality(S \cup AnyOf(x, n)) = Cardinality(S) + (IF x \in S THEN 0 ELSE n)
             /\ Cardinality(S) \in Nat
  <2>1. Cardinality(S) \in Nat
    BY <1>1, FS_CardinalityType
  <2>2. CASE n = 1
    <3>1. S \cup AnyOf(x, n) = S \cup {x}
      BY <2>2 DEF AnyOf
    <3> QED BY <1>1, <2>1, <2>2, <3>1, FS_AddElement
  <2>3. CASE n = 0
    <3>1. S \cup AnyOf(x, n) = S
      BY <2>3 DEF AnyOf
    <3>2. (IF x \in S THEN 0 ELSE n) = 0 /\ Cardinality(S) = Cardinality(S) + 0
      BY <2>1, <2>3
    <3> QED BY <1>1, <2>1, <3>1, <3>2
  <2>4. n = 0 \/ n = 1
    BY DEF Bit
  <2> QED BY <2>2, <2>3, <2>4
<1>2. IsFiniteSet({}) /\ Cardinality({}) = 0
  BY FS_EmptySet
<1> DEFINE C == {} \cup AnyOf(c, r)
           B == C \cup AnyOf(b, q)
<1>3. IsFiniteSet(C) /\ Cardinality(C) = r
  <2>1. IsFiniteSet(C) /\ Cardinality(C) = Cardinality({}) + (IF c \in {} THEN 0 ELSE r)
    BY <1>1, <1>2
  <2> QED BY <1>2, <2>1 DEF Bit
<1> HIDE DEF C
<1>4. IsFiniteSet(B) /\ Cardinality(B) = Cardinality(C) + (IF b \in C THEN 0 ELSE q)
  BY <1>1, <1>3
<1> HIDE DEF B
<1>5. Cardinality(B \cup AnyOf(a, p)) = Cardinality(B) + (IF a \in B THEN 0 ELSE p)
  BY <1>1, <1>4
<1>6. /\ b \in C <=> (r = 1 /\ b = c)
      /\ a \in B <=> ((q = 1 /\ a = b) \/ (r = 1 /\ a = c))
  BY DEF B, C, AnyOf, Bit
<1>7. B = AnyOf(c, r) \cup AnyOf(b, q)
  BY DEF B, C
<1> QED BY <1>3, <1>4, <1>5, <1>6, <1>7 DEF Bit

(* Counted over the three destinations, the clones are those the distinct  *)
(* sources cannot save.                                                    *)
LEMMA CountedIsFewest ==
  ASSUME IInv, ClonesCounted, which = 4
  PROVE  FewestCopies
<1> DEFINE held == Held(entry.slots, entry.current)
           filled == { s \in Slot : new[s] # NoPicture }
           used == { sources[s] : s \in filled }
           a == sources["last"]
           b == sources["golden"]
           c == sources["altref"]
           Full(src) == IF held[src] # NoPicture THEN 1 ELSE 0
           p == Full(a)
           q == Full(b)
           r == Full(c)
<1>1. new["last"] = held[a] /\ new["golden"] = held[b] /\ new["altref"] = held[c]
  BY DEF IInv, FilledFromSource, Destinations
<1>2. clones = (IF a = b \/ a = c THEN p ELSE 0) + (IF b = c THEN q ELSE 0)
  <2>1. /\ LastUse(1) <=> a # b /\ a # c
        /\ LastUse(2) <=> b # c
        /\ LastUse(3)
    <3>1. Destinations[1] = "last" /\ Destinations[2] = "golden" /\ Destinations[3] = "altref"
      BY DEF Destinations
    <3> QED BY <3>1 DEF LastUse
  <2>2. (Receives(1) <=> p = 1) /\ (Receives(2) <=> q = 1)
    BY DEF Receives, Destinations
  <2>3. /\ Cloned(1) = IF a = b \/ a = c THEN p ELSE 0
        /\ Cloned(2) = IF b = c THEN q ELSE 0
        /\ Cloned(3) = 0
    BY <2>1, <2>2 DEF Cloned
  <2>4. clones = Cloned(1) + Cloned(2) + Cloned(3)
    BY DEF ClonesCounted
  <2>5. p \in {0, 1} /\ q \in {0, 1}
    OBVIOUS
  <2> HIDE DEF p, q, a, b, c
  <2> QED BY <2>3, <2>4, <2>5
<1>3. filled = (AnyOf("altref", r) \cup AnyOf("golden", q)) \cup AnyOf("last", p)
  <2> HIDE DEF held, a, b, c
  <2> QED BY <1>1 DEF Slot, AnyOf
<1>4. used = (AnyOf(c, r) \cup AnyOf(b, q)) \cup AnyOf(a, p)
  BY <1>3 DEF AnyOf
<1> HIDE DEF filled, used, held, a, b, c
<1>5. p \in Bit /\ q \in Bit /\ r \in Bit
  BY DEF Bit
<1>6. (a = b => p = q) /\ (a = c => p = r) /\ (b = c => q = r)
  OBVIOUS
<1> HIDE DEF p, q, r
<1>7. Cardinality(filled) = r + q + p
  <2> DEFINE union == (AnyOf("altref", r) \cup AnyOf("golden", q)) \cup AnyOf("last", p)
  <2>1. Cardinality(union) = r + (IF r = 1 /\ "golden" = "altref" THEN 0 ELSE q)
               + (IF (q = 1 /\ "last" = "golden") \/ (r = 1 /\ "last" = "altref") THEN 0 ELSE p)
    BY <1>5, CountThree
  <2> HIDE DEF union
  <2>2. Cardinality(union) = r + q + p
    BY <1>5, <2>1 DEF Bit
  <2> QED BY <1>3, <2>2 DEF union
<1>8. Cardinality(used) = r + (IF r = 1 /\ b = c THEN 0 ELSE q)
               + (IF (q = 1 /\ a = b) \/ (r = 1 /\ a = c) THEN 0 ELSE p)
  <2> DEFINE union == (AnyOf(c, r) \cup AnyOf(b, q)) \cup AnyOf(a, p)
  <2>1. Cardinality(union) = r + (IF r = 1 /\ b = c THEN 0 ELSE q)
               + (IF (q = 1 /\ a = b) \/ (r = 1 /\ a = c) THEN 0 ELSE p)
    BY <1>5, CountThree
  <2> QED BY <1>4, <2>1
<1>9. clones = Cardinality(filled) - Cardinality(used)
  BY <1>2, <1>5, <1>6, <1>7, <1>8 DEF Bit
<1> QED BY <1>9 DEF FewestCopies, filled, used

(* The moves save every clone that can be saved: a call copies planes only *)
(* where one source fills several slots, whatever the pictures and the     *)
(* header (state.rs 138).                                                  *)
THEOREM RotationCopiesFewest == RotationSpec => []FewestCopies
<1>1. RotationInit => ClonesCounted
  BY DEF RotationInit, ClonesCounted
<1>2. IInv /\ ClonesCounted /\ [RotationNext]_rotation_vars => ClonesCounted'
  <2> SUFFICES ASSUME IInv, ClonesCounted, [RotationNext]_rotation_vars PROVE ClonesCounted'
    OBVIOUS
  <2>1. ASSUME NEW current \in Picture, NEW c \in RefreshFields, Call(current, c) PROVE ClonesCounted'
    <3>1. which' = 1 /\ clones' = 0
      BY <2>1 DEF Call
    <3>2. Cloned(1)' = 0 /\ Cloned(2)' = 0 /\ Cloned(3)' = 0
      BY <3>1 DEF Cloned
    <3> QED BY <3>1, <3>2 DEF ClonesCounted
  <2>2. CASE Return
    BY <2>2 DEF Return, ClonesCounted
  <2>3. CASE UNCHANGED rotation_vars
    <3>1. which' = which /\ clones' = clones /\ \A k : Cloned(k)' = Cloned(k)
      BY <2>3 DEF rotation_vars, Cloned, LastUse, Receives, Held
    <3> QED BY <3>1 DEF ClonesCounted
  <2>4. CASE TakeFor
    BY <2>4, TakeForCounts
  <2> QED BY <2>1, <2>2, <2>3, <2>4 DEF RotationNext
<1>3. IInv /\ ClonesCounted => FewestCopies
  BY CountedIsFewest DEF FewestCopies
<1> QED BY <1>1, <1>2, <1>3, RotationInvariant, PTL DEF RotationSpec
=============================================================================
