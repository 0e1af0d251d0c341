--------------------------- MODULE CodedPartition ---------------------------
(***************************************************************************)
(* One partition from end to end: an encoder writes syntax elements one    *)
(* after the other and finishes, a decoder is then handed the bytes and    *)
(* parses elements of the same shapes, one read_bool at a time.            *)
(* An element has a shape both ends know and a value only the writer       *)
(* knows.  WrittenBools is what the encoder emits for it; Parse is the     *)
(* decoder's walk: NextProb names the probability of the next boolean and  *)
(* Took what the walk makes of it.  First, the coder of those booleans,    *)
(* both ends.  The encoder keeps the bottom of the current interval in 32  *)
(* wrapping bits, here the high byte hi and the 24 bits below it, lo; a    *)
(* carry out of them runs back through the bytes already written.  The     *)
(* decoder keeps a two-byte window over the bytes.                         *)
(***************************************************************************)
EXTENDS Integers, Sequences, SequencesExt

CONSTANTS MvContext,  \* probabilities of one motion vector component, 0..18
          CoeffProbs, \* token probabilities, CoeffProbs[band][ctx3][node]
          Content     \* what a partition may hold: sequences of elements

(* Applies f to x n times. *)
Times(n, f(_), x) == LET after[i \in 0..n] == IF i = 0 THEN x ELSE f(after[i - 1]) IN after[n]

Split(range, prob) == 1 + ((range - 1) * prob) \div 256

(* The doublings that bring a range back to 128..255. *)
Shift(range) == CHOOSE s \in 0..7 : range * 2^s \in 128..255

-----------------------------------------------------------------------------
NewEncoder == [out |-> <<>>, range |-> 255, hi |-> 0, lo |-> 0, bit_count |-> 24]

(* Mutant: the carry stops at the last byte. *)
AddOneToLastByte(out) ==
  [i \in DOMAIN out |-> IF i = Len(out) THEN (out[i] + 1) % 256 ELSE out[i]]

(* The carry turns the trailing 0xFF bytes to 0 and stops at the first other. *)
AddOneToOutput(out) ==
  [i \in DOMAIN out |->
     IF \A j \in i + 1..Len(out) : out[j] = 255 THEN (out[i] + 1) % 256 ELSE out[i]]

(* bottom <<= 1 *)
Doubled(e) == [e EXCEPT !.hi = (2 * @ + e.lo \div 2^23) % 256,
                        !.lo = (2 * @) % 2^24]

(* One turn of the renormalisation loop. *)
ShiftBitOut(e) ==
  LET next == [Doubled(e) EXCEPT
                 !.range = 2 * @,
                 !.out = IF e.hi >= 128 THEN AddOneToOutput(@) ELSE @,
                 !.bit_count = @ - 1]
  IN IF next.bit_count > 0 THEN next
     ELSE [next EXCEPT !.out = Append(@, next.hi), !.hi = 0, !.bit_count = 8]

WriteBool(e, prob, bit) ==
  LET split == Split(e.range, prob)
      sum == e.lo + split
      coded == IF bit
               THEN [e EXCEPT !.range = @ - split, !.lo = sum % 2^24,
                              !.hi = (@ + sum \div 2^24) % 256]
               ELSE [e EXCEPT !.range = split]
  IN Times(Shift(coded.range), ShiftBitOut, coded)

(* Bit 32 - bit_count of bottom is a carry not yet propagated. *)
CarryPending(e) ==
  IF e.bit_count <= 8 THEN (e.hi \div 2^(8 - e.bit_count)) % 2 = 1
                      ELSE (e.lo \div 2^(32 - e.bit_count)) % 2 = 1

(* Mutant: the tail is as short as the decoder's window. *)
FinishWithTwoBytes(e) ==
  LET tail == Times(e.bit_count, Doubled, e)
  IN (IF CarryPending(e) THEN AddOneToOutput(e.out) ELSE e.out)
     \o <<tail.hi, tail.lo \div 2^16>>

Finish(e) ==
  LET tail == Times(e.bit_count, Doubled, e)
  IN (IF CarryPending(e) THEN AddOneToOutput(e.out) ELSE e.out)
     \o <<tail.hi, tail.lo \div 2^16, (tail.lo \div 2^8) % 256, tail.lo % 256>>

-----------------------------------------------------------------------------
(* The window before a partition shorter than two bytes is empty. *)
InitPartition(bytes) ==
  [input |-> IF Len(bytes) >= 2 THEN SubSeq(bytes, 3, Len(bytes)) ELSE <<>>,
   range |-> 255,
   value |-> IF Len(bytes) >= 2 THEN 256 * bytes[1] + bytes[2] ELSE 0,
   bit_count |-> 0, dry |-> FALSE]

(* What the next boolean is. *)
Decide(d, prob) == d.value >= 256 * Split(d.range, prob)

(* The decoder after reading it; dry when a byte was needed and none left. *)
ReadBool(d, prob) ==
  LET split == Split(d.range, prob)
      bit == Decide(d, prob)
      range == IF bit THEN d.range - split ELSE split
      s == Shift(range)
      value == (IF bit THEN d.value - 256 * split ELSE d.value) * 2^s
      bits == d.bit_count + s
  IN IF bits < 8
     THEN [d EXCEPT !.range = range * 2^s, !.value = value, !.bit_count = bits]
     ELSE IF d.input = <<>>
     THEN [d EXCEPT !.range = range * 2^s, !.value = value, !.dry = TRUE]
     ELSE [d EXCEPT !.range = range * 2^s, !.bit_count = bits - 8,
                    !.value = value + Head(d.input) * 2^(bits - 8),
                    !.input = Tail(@)]

-----------------------------------------------------------------------------
Bool(prob, bit) == [prob |-> prob, bit |-> bit]
Abs(n) == IF n < 0 THEN -n ELSE n
Smaller(a, b) == IF a < b THEN a ELSE b
Larger(a, b) == IF a < b THEN b ELSE a
Bit(n, k) == (n \div 2^k) % 2 = 1

Literal(n, v) == [i \in 1..n |-> Bool(128, Bit(v, n - i))]
SignedLiteral(n, v) == Append(Literal(n, Abs(v)), Bool(128, v < 0))

(* An optional field is a flag and, if set, a (signed) literal. *)
OptionalField(shape, value) ==
  <<Bool(shape.flag, value # <<>>)>>
  \o IF value = <<>> THEN <<>>
     ELSE IF shape.signed THEN SignedLiteral(shape.bits, value[1])
                          ELSE Literal(shape.bits, value[1])

-----------------------------------------------------------------------------
(* A tree is a function from 0: a positive entry is a node, others leaves. *)
SmallMvTree ==
  [i \in 0..13 |-> <<2, 8, 4, 6, 0, -1, -2, -3, 10, 12, -4, -5, -6, -7>>[i + 1]]

Eob == 11
CoeffTree ==
  [i \in 0..21 |-> <<-11, 2, 0, 4, -1, 6, 8, 12, -2, 10, -3, -4, 14, 16, -5, -6,
                     18, 20, -7, -8, -9, -10>>[i + 1]]

(* The entries taken from a node to entry k. *)
EntriesTo(node, tree, k) ==
  LET to[j \in node..k] ==
        IF j < node + 2 THEN <<j>>
        ELSE Append(to[CHOOSE p \in DOMAIN tree : tree[p] = j - (j % 2)], j)
  IN to[k]

(* The booleans that lead to a leaf, from the given node on. *)
TreedFrom(node, tree, probs, leaf) ==
  LET path == EntriesTo(node, tree, CHOOSE k \in DOMAIN tree : tree[k] = -leaf)
  IN [i \in DOMAIN path |-> Bool(probs[path[i] \div 2], path[i] % 2 = 1)]

Treed(tree, probs, leaf) == TreedFrom(0, tree, probs, leaf)

-----------------------------------------------------------------------------
(* Macroblock modes.  A leaf of a mode's tree holds the mode's place in its *)
(* enumeration, counted from 0.                                             *)
IntraYMode   == <<"Dc", "V", "H", "Tm", "B">>
IntraUvMode  == <<"Dc", "V", "H", "Tm">>
IntraBmode   == <<"Dc", "Tm", "Ve", "He", "Ld", "Rd", "Vr", "Vl", "Hd", "Hu">>
InterMode    == <<"Zero", "Nearest", "Near", "New", "Split">>
MvPartition  == <<"TopBottom", "LeftRight", "Quarters", "Mv16">>
SubMvRefMode == <<"Left4x4", "Above4x4", "Zero4x4", "New4x4">>
RefFrame     == <<"Last", "Golden", "AltRef">>
SegmentId    == <<0, 1, 2, 3>>

FromZero(seq) == [i \in 0..Len(seq) - 1 |-> seq[i + 1]]
KF_YMODE_TREE     == FromZero(<<-4, 2, 4, 6, 0, -1, -2, -3>>)
IF_YMODE_TREE     == FromZero(<<0, 2, 4, 6, -1, -2, -3, -4>>)
UV_MODE_TREE      == FromZero(<<0, 2, -1, 4, -2, -3>>)
BMODE_TREE        == FromZero(<<0, 2, -1, 4, -2, 6, 8, 12, -3, 10, -5, -6, -4, 14,
                                -7, 16, -8, -9>>)
MB_SEGMENT_TREE   == FromZero(<<2, 4, 0, -1, -2, -3>>)
MV_REF_TREE       == FromZero(<<0, 2, -1, 4, -2, 6, -3, -4>>)
MV_PARTITION_TREE == FromZero(<<-3, 2, -2, 4, 0, -1>>)
SUBMV_REF_TREE    == FromZero(<<0, 2, -1, 4, -2, -3>>)

KF_YMODE_PROB            == FromZero(<<145, 156, 163, 128>>)
KF_UV_MODE_PROB          == FromZero(<<142, 114, 183>>)
IF_YMODE_PROB_DEFAULTS   == FromZero(<<112, 86, 140, 37>>)
IF_UV_MODE_PROB_DEFAULTS == FromZero(<<162, 101, 204>>)
IF_BMODE_PROB            == FromZero(<<120, 90, 79, 133, 87, 85, 80, 111, 151>>)
MV_PARTITION_PROBS       == FromZero(<<110, 111, 150>>)
SUBMV_REF_PROBS ==
  FromZero(<< <<147, 136, 18>>, <<106, 145, 1>>, <<179, 121, 1>>, <<223, 1, 34>>, <<208, 1, 1>> >>)
MV_COUNTS_TO_PROBS ==
  FromZero(<< <<7, 1, 1, 143>>, <<14, 18, 14, 107>>, <<135, 64, 57, 68>>,
              <<60, 56, 128, 65>>, <<159, 134, 128, 34>>, <<234, 188, 128, 28>> >>)
mv_ref_probs(cnt) == [slot \in 0..3 |-> MV_COUNTS_TO_PROBS[cnt[slot]][slot + 1]]

(* The readers: each walks a tree, to a leaf of which a mode belongs, with  *)
(* probabilities that are fixed or, where a context chooses them, come with *)
(* the shape.                                                               *)
Reader(modes, tree, probs) == [modes |-> modes, tree |-> tree, probs |-> probs]
InContext == [i \in {} |-> 0]
read_kf_y_mode    == Reader(IntraYMode, KF_YMODE_TREE, KF_YMODE_PROB)
read_kf_uv_mode   == Reader(IntraUvMode, UV_MODE_TREE, KF_UV_MODE_PROB)
read_kf_b_mode    == Reader(IntraBmode, BMODE_TREE, InContext)
read_if_y_mode    == Reader(IntraYMode, IF_YMODE_TREE, IF_YMODE_PROB_DEFAULTS)
read_if_uv_mode   == Reader(IntraUvMode, UV_MODE_TREE, IF_UV_MODE_PROB_DEFAULTS)
read_if_b_mode    == Reader(IntraBmode, BMODE_TREE, IF_BMODE_PROB)
read_kf_segment_id == Reader(SegmentId, MB_SEGMENT_TREE, InContext)
read_inter_mode   == Reader(InterMode, MV_REF_TREE, InContext)
read_mv_partition == Reader(MvPartition, MV_PARTITION_TREE, MV_PARTITION_PROBS)
submv_ref         == Reader(SubMvRefMode, SUBMV_REF_TREE, InContext)
Readers == [kf_y |-> read_kf_y_mode, kf_uv |-> read_kf_uv_mode, kf_b |-> read_kf_b_mode,
            if_y |-> read_if_y_mode, if_uv |-> read_if_uv_mode, if_b |-> read_if_b_mode,
            segment |-> read_kf_segment_id, inter |-> read_inter_mode,
            partition |-> read_mv_partition, sub_mv |-> submv_ref]
(* These two are read by nested conditions instead.                         *)
Nested == {"ref", "if_segment"}

ModeProbs(shape) == IF "probs" \in DOMAIN shape THEN shape.probs ELSE Readers[shape.of].probs

(* Intra modes and segments are written through their trees, the others by  *)
(* writers that spell their codes out.                                      *)
InterModeCode ==
  [Zero |-> <<FALSE>>, Nearest |-> <<TRUE, FALSE>>, Near |-> <<TRUE, TRUE, FALSE>>,
   New |-> <<TRUE, TRUE, TRUE, FALSE>>, Split |-> <<TRUE, TRUE, TRUE, TRUE>>]
RefFrameCode == [Last |-> <<FALSE>>, Golden |-> <<TRUE, FALSE>>, AltRef |-> <<TRUE, TRUE>>]
write_split_mv_partition ==
  [Mv16 |-> <<FALSE>>, Quarters |-> <<TRUE, FALSE>>,
   TopBottom |-> <<TRUE, TRUE, FALSE>>, LeftRight |-> <<TRUE, TRUE, TRUE>>]
write_submv_ref ==
  [Left4x4 |-> <<FALSE>>, Above4x4 |-> <<TRUE, FALSE>>,
   Zero4x4 |-> <<TRUE, TRUE, FALSE>>, New4x4 |-> <<TRUE, TRUE, TRUE>>]
Spelled == [inter |-> InterModeCode, ref |-> RefFrameCode,
            partition |-> write_split_mv_partition, sub_mv |-> write_submv_ref]

(* Segment ids are written alike whichever way they are read.               *)
Writer(of) == IF of = "if_segment" THEN read_kf_segment_id ELSE Readers[of]
Leaf(of, mode) ==
  CHOOSE l \in 0..Len(Writer(of).modes) - 1 : Writer(of).modes[l + 1] = mode

WrittenMode(shape, mode) ==
  LET probs == ModeProbs(shape) IN
    IF shape.of \in DOMAIN Spelled
    THEN LET code == Spelled[shape.of][mode]
         IN [k \in DOMAIN code |-> Bool(probs[k - 1], code[k])]
    ELSE Treed(Writer(shape.of).tree, probs, Leaf(shape.of, mode))

-----------------------------------------------------------------------------
(* One motion vector component: short values in a tree, long ones bit by   *)
(* bit, with bit 3 implied below 16.                                       *)
LongBits == <<0, 1, 2, 9, 8, 7, 6, 5, 4>>
ShortProbs == [i \in 0..6 |-> MvContext[2 + i]]
LongBool(a, k) == Bool(MvContext[9 + k], Bit(a, k))

MvComponent(v) ==
  LET a == Abs(v) IN
    (IF a > 7
     THEN <<Bool(MvContext[0], TRUE)>> \o [i \in 1..9 |-> LongBool(a, LongBits[i])]
          \o IF a > 15 THEN <<LongBool(a, 3)>> ELSE <<>>
     ELSE <<Bool(MvContext[0], FALSE)>> \o Treed(SmallMvTree, ShortProbs, a))
    \o IF a # 0 THEN <<Bool(MvContext[1], v < 0)>> ELSE <<>>

-----------------------------------------------------------------------------
(* Coefficient tokens: 0..4 are the values, 5..10 the categories.          *)
Bands == <<0, 1, 2, 3, 6, 4, 5, 6, 6, 6, 6, 6, 6, 6, 6, 7>>
CatBase == [t \in 5..10 |-> <<5, 7, 11, 19, 35, 67>>[t - 4]]
CatProbs == [t \in 5..10 |->
  << <<159>>, <<165, 145>>, <<173, 148, 140>>, <<176, 155, 140, 135>>,
     <<180, 157, 141, 134, 130>>,
     <<254, 254, 243, 230, 196, 177, 153, 140, 133, 130, 129>> >>[t - 4]]

ClassifyCoeffToken(a) ==
  IF a < 5 THEN a ELSE CHOOSE t \in 5..10 :
                         a >= CatBase[t] /\ (t = 10 \/ a < CatBase[t + 1])

ContextOf(a) == IF a = 0 THEN 0 ELSE IF a = 1 THEN 1 ELSE 2
ProbsAt(i, ctx3) == CoeffProbs[Bands[i + 1]][ctx3]

ExtraBits(a, t) ==
  LET n == Len(CatProbs[t])
  IN [j \in 1..n |-> Bool(CatProbs[t][j], Bit(a - CatBase[t], n - j))]

(* The booleans of the coefficient at i, after the one before it; the EOB  *)
(* branch is skipped after a zero.                                         *)
TokenAt(shape, c, i) ==
  LET a == Abs(c[i])
      t == ClassifyCoeffToken(a)
      ctx3 == IF i = shape.first THEN shape.seed ELSE ContextOf(Abs(c[i - 1]))
      start == IF i > shape.first /\ c[i - 1] = 0 THEN 2 ELSE 0
  IN TreedFrom(start, CoeffTree, ProbsAt(i, ctx3), t)
     \o (IF t >= 5 THEN ExtraBits(a, t) ELSE <<>>)
     \o (IF a # 0 THEN <<Bool(128, c[i] < 0)>> ELSE <<>>)

(* Every coefficient up to the last that is not zero, then EOB if there is  *)
(* room for one.                                                            *)
CoeffBlock(shape, c) ==
  LET nonzero == { i \in shape.first..15 : c[i] # 0 }
      end == IF nonzero = {} THEN shape.first
             ELSE 1 + CHOOSE i \in nonzero : \A j \in nonzero : j <= i
      ctx3 == IF end = shape.first THEN shape.seed ELSE ContextOf(Abs(c[end - 1]))
  IN FlattenSeq([n \in 1..end - shape.first |-> TokenAt(shape, c, shape.first + n - 1)])
     \o IF end < 16 THEN Treed(CoeffTree, ProbsAt(end, ctx3), Eob) ELSE <<>>

-----------------------------------------------------------------------------
(* Statistics.  What a boolean is priced at depends on the share of 256 its *)
(* value has; a price is a sum, listed here term by term.                   *)
bool_bits(prob, bit) == IF bit THEN Smaller(256 - prob, 255) ELSE prob

(* The tokens of a block as the statistics walk it: the state they thread   *)
(* from one coefficient to the next is the encoder's.                       *)
(* Mutant: the EOB branch is counted after a zero as well.                  *)
StepFromRoot(shape, c, last, s, i) ==
  LET a == Abs(c[i])
      token == IF i > last THEN Eob ELSE ClassifyCoeffToken(a)
  IN IF s.ended THEN s
     ELSE [tokens |-> Append(s.tokens, [at |-> i, ctx3 |-> s.ctx3, token |-> token,
                                        start |-> 0]),
           ctx3 |-> ContextOf(a), zero |-> token = 0, ended |-> token = Eob]
StatisticsStep(shape, c, last, s, i) ==
  LET a == Abs(c[i])
      token == IF i > last THEN Eob ELSE ClassifyCoeffToken(a)
  IN IF s.ended THEN s
     ELSE [tokens |-> Append(s.tokens, [at |-> i, ctx3 |-> s.ctx3, token |-> token,
                                        start |-> IF s.zero THEN 2 ELSE 0]),
           ctx3 |-> ContextOf(a), zero |-> token = 0, ended |-> token = Eob]
BlockTokens(shape, c) ==
  LET last == CHOOSE i \in -1..15 : /\ i = -1 \/ (i >= shape.first /\ c[i] # 0)
                                    /\ \A j \in shape.first..15 : c[j] # 0 => j <= i
  IN FoldLeft(LAMBDA s, i : StatisticsStep(shape, c, last, s, i),
              [tokens |-> <<>>, ctx3 |-> shape.seed, zero |-> FALSE, ended |-> FALSE],
              [n \in 1..16 - shape.first |-> shape.first + n - 1]).tokens

(* token_to_bit_path.                                                       *)
BitPath(t) ==
  EntriesTo(t.start, CoeffTree, CHOOSE k \in DOMAIN CoeffTree : CoeffTree[k] = -t.token)

(* Branches of the token tree taken, and how often.                         *)
Branch(i, ctx3, entry) ==
  [band |-> Bands[i + 1], ctx3 |-> ctx3, node |-> entry \div 2, bit |-> entry % 2]
Tally(branches) ==
  [b \in ToSet(branches) |-> Cardinality({n \in DOMAIN branches : branches[n] = b})]
count_block_branches(shape, c) ==
  LET tokens == BlockTokens(shape, c)
  IN Tally(FlattenSeq([n \in DOMAIN tokens |->
       LET path == BitPath(tokens[n])
       IN [k \in DOMAIN path |-> Branch(tokens[n].at, tokens[n].ctx3, path[k])]]))

(* What the searches expect a block and a vector component to cost.         *)
estimate_block_bits(shape, c) ==
  LET tokens == BlockTokens(shape, c)
      Priced(t) ==
        LET path == BitPath(t)
            a == Abs(c[t.at])
            extra == Larger(a - CatBase[t.token], 0)
            n == Len(CatProbs[t.token])
        IN [k \in DOMAIN path |-> bool_bits(ProbsAt(t.at, t.ctx3)[path[k] \div 2], path[k] % 2 = 1)]
           \o (IF t.token \in 5..10
               THEN [j \in 1..n |-> bool_bits(CatProbs[t.token][j], Bit(extra, n - j))] ELSE <<>>)
           \o (IF t.token \notin {0, Eob} THEN <<bool_bits(128, FALSE)>> ELSE <<>>)
  IN FlattenSeq([n \in DOMAIN tokens |-> Priced(tokens[n])])

mv_component_bits(v) ==
  LET a == Abs(v)
      BitPrice(i) == bool_bits(MvContext[9 + i], Bit(a, i))
      small == FoldLeft(LAMBDA s, k :
                          LET bit == Bit(a, k)
                          IN [at |-> SmallMvTree[s.at + IF bit THEN 1 ELSE 0],
                              bits |-> Append(s.bits, bool_bits(MvContext[2 + s.at \div 2], bit))],
                        [at |-> 0, bits |-> <<>>], <<2, 1, 0>>).bits
  IN <<bool_bits(MvContext[0], a > 7)>>
     \o (IF a > 7 THEN [i \in 1..3 |-> BitPrice(i - 1)] \o [i \in 1..6 |-> BitPrice(10 - i)]
                       \o IF a \div 16 # 0 THEN <<BitPrice(3)>> ELSE <<>>
         ELSE small)
     \o IF a # 0 THEN <<bool_bits(MvContext[1], v < 0)>> ELSE <<>>

(* Intra modes are priced along paths laid out once per tree: the booleans   *)
(* to a leaf, and the probabilities a walk that takes them comes by.         *)
LeafPath(tree, leaf) ==
  LET path == EntriesTo(0, tree, CHOOSE k \in DOMAIN tree : tree[k] = -leaf)
      bits == [k \in DOMAIN path |-> path[k] % 2]
  IN [bits |-> bits,
      prob_index |-> FoldLeft(LAMBDA s, b : [at |-> tree[s.at + b],
                                             index |-> Append(s.index, s.at \div 2)],
                              [at |-> 0, index |-> <<>>], bits).index]
treed_bits_cached(tree, probs, leaf) ==
  LET path == LeafPath(tree, leaf)
  IN [k \in DOMAIN path.bits |-> bool_bits(probs[path.prob_index[k]], path.bits[k] = 1)]

(* The others by how many of their nodes are left upwards.                   *)
Climbed(probs, nodes, n) ==
  [k \in 1..n |-> bool_bits(probs[k - 1], TRUE)]
  \o IF n < nodes THEN <<bool_bits(probs[n], FALSE)>> ELSE <<>>
mode_bits(probs, mode) ==
  Climbed(probs, 4, [Zero |-> 0, Nearest |-> 1, Near |-> 2, New |-> 3, Split |-> 4][mode])
ref_frame_tree_bits(probs, frame) ==
  Climbed(probs, 2, [Last |-> 0, Golden |-> 1, AltRef |-> 2][frame])
mv_partition_bits(p) ==
  Climbed(MV_PARTITION_PROBS, 3,
          [Mv16 |-> 0, Quarters |-> 1, TopBottom |-> 2, LeftRight |-> 3][p])
submv_ref_bits(probs, mode) ==
  Climbed(probs, 3, [Left4x4 |-> 0, Above4x4 |-> 1, Zero4x4 |-> 2, New4x4 |-> 3][mode])

PricedMode(shape, mode) ==
  LET probs == ModeProbs(shape) IN
    CASE shape.of = "inter"     -> mode_bits(probs, mode)
      [] shape.of = "ref"       -> ref_frame_tree_bits(probs, mode)
      [] shape.of = "partition" -> mv_partition_bits(mode)
      [] shape.of = "sub_mv"    -> submv_ref_bits(probs, mode)
      [] OTHER -> treed_bits_cached(Writer(shape.of).tree, probs, Leaf(shape.of, mode))

-----------------------------------------------------------------------------
WrittenBools(e) ==
  CASE e.shape.kind = "flag"     -> <<Bool(e.shape.flag, e.value)>>
    [] e.shape.kind = "literal"  -> Literal(e.shape.bits, e.value)
    [] e.shape.kind = "optional" -> OptionalField(e.shape, e.value)
    [] e.shape.kind = "mode"     -> WrittenMode(e.shape, e.value)
    [] e.shape.kind = "mv"       -> MvComponent(e.value)
    [] e.shape.kind = "block"    -> CoeffBlock(e.shape, e.value)

(* What a partition may hold: at least one element, each of which its shape  *)
(* has room for, coded with probabilities of a byte.                         *)
Prob == 0..255
Level == -2114..2114
Nodes == [kf_y |-> 4, kf_uv |-> 3, kf_b |-> 9, if_y |-> 4, if_uv |-> 3, if_b |-> 9, segment |-> 3,
          if_segment |-> 3, inter |-> 4, ref |-> 2, partition |-> 3, sub_mv |-> 3]
Modes(of) == IF of = "ref" THEN RefFrame ELSE Writer(of).modes
Fits(e) ==
  CASE e.shape.kind = "flag" -> e.shape.flag \in Prob /\ e.value \in BOOLEAN
    [] e.shape.kind = "literal" -> e.shape.bits \in 1..16 /\ e.value \in 0..2^e.shape.bits - 1
    [] e.shape.kind = "optional" ->
         /\ e.shape.flag \in Prob /\ e.shape.bits \in 1..16 /\ e.shape.signed \in BOOLEAN
         /\ \/ e.value = <<>>
            \/ \E v \in (IF e.shape.signed THEN 1 - 2^e.shape.bits ELSE 0)..2^e.shape.bits - 1 :
                 e.value = <<v>>
    [] e.shape.kind = "mode" ->
         /\ e.shape.of \in DOMAIN Nodes /\ (e.shape.of \in Nested => "probs" \in DOMAIN e.shape)
         /\ \A i \in 0..Nodes[e.shape.of] - 1 : ModeProbs(e.shape)[i] \in Prob
         /\ \E k \in 1..Len(Modes(e.shape.of)) : Modes(e.shape.of)[k] = e.value
    [] e.shape.kind = "mv" -> e.value \in -1023..1023
    [] e.shape.kind = "block" ->
         /\ e.shape.first \in 0..1 /\ e.shape.seed \in 0..2
         /\ e.value \in [0..15 -> Level] /\ \A i \in 0..15 : i < e.shape.first => e.value[i] = 0
    [] OTHER -> FALSE
ASSUME ContentAssumption ==
  /\ \A k \in 0..18 : MvContext[k] \in Prob
  /\ \A band \in 0..7, ctx3 \in 0..2, node \in 0..10 : CoeffProbs[band][ctx3][node] \in Prob
  /\ \A x \in Content : /\ x \in Seq({x[i] : i \in DOMAIN x}) /\ x # <<>>
                        /\ \A i \in DOMAIN x : Fits(x[i])

-----------------------------------------------------------------------------
(* The decoder's walk of one element: at is what it reads next, node where  *)
(* it is in a tree, a the magnitude so far, left the probabilities of extra *)
(* bits to come, c the coefficients so far and i and ctx3 the position of   *)
(* the next one.                                                            *)
NoCoeffs == [i \in 0..15 |-> 0]
StartParse(shape) ==
  [at |-> CASE shape.kind = "flag" -> "flag"
            [] shape.kind = "literal" -> "bits"
            [] shape.kind = "optional" -> "present"
            [] shape.kind = "mv" -> "form"
            [] shape.kind = "mode" /\ shape.of \in Nested -> "nested"
            [] OTHER -> "tree",
   node |-> 0, a |-> 0, n |-> 0, left |-> <<>>, c |-> NoCoeffs,
   i |-> IF shape.kind = "block" THEN shape.first ELSE 0,
   ctx3 |-> IF shape.kind = "block" THEN shape.seed ELSE 0,
   value |-> <<>>]

TreeOf(shape) == CASE shape.kind = "mode" -> Readers[shape.of].tree
                   [] shape.kind = "mv" -> SmallMvTree
                   [] shape.kind = "block" -> CoeffTree
TreeProbsOf(shape, p) == CASE shape.kind = "mode" -> ModeProbs(shape)
                           [] shape.kind = "mv" -> ShortProbs
                           [] shape.kind = "block" -> ProbsAt(p.i, p.ctx3)

NextProb(shape, p) ==
  CASE p.at \in {"flag", "present"} -> shape.flag
    [] p.at = "bits"  -> 128
    [] p.at = "tree"  -> TreeProbsOf(shape, p)[p.node \div 2]
    [] p.at = "nested" -> shape.probs[p.node]
    [] p.at = "form"  -> MvContext[0]
    [] p.at = "long"  -> MvContext[9 + LongBits[p.n + 1]]
    [] p.at = "bit3"  -> MvContext[9 + 3]
    [] p.at = "extra" -> Head(p.left)
    [] p.at = "sign"  -> IF shape.kind = "mv" THEN MvContext[1] ELSE 128

Done(p, value) == [p EXCEPT !.at = "done", !.value = value]

(* An all-read magnitude: what is left is its sign, if it has one.          *)
TookMagnitude(shape, p, a) ==
  CASE shape.kind = "literal" -> Done(p, a)
    [] shape.kind = "optional" -> IF shape.signed THEN [p EXCEPT !.at = "sign", !.a = a]
                                  ELSE Done(p, <<a>>)
    [] shape.kind = "mv" -> IF a = 0 THEN Done(p, 0) ELSE [p EXCEPT !.at = "sign", !.a = a]

TookBit(shape, p, b) ==
  LET a == 2 * p.a + b IN
    IF p.n + 1 = shape.bits THEN TookMagnitude(shape, p, a)
    ELSE [p EXCEPT !.n = @ + 1, !.a = a]

TookLongBit(shape, p, b) ==
  LET a == p.a + b * 2^LongBits[p.n + 1] IN
    IF p.n < 8 THEN [p EXCEPT !.n = @ + 1, !.a = a]
    ELSE IF a < 16 THEN TookMagnitude(shape, p, a + 8)
    ELSE [p EXCEPT !.at = "bit3", !.a = a]

(* The next coefficient, from the EOB branch or, after a zero, past it.     *)
Advance(p, value, ctx3, node) ==
  LET c == [p.c EXCEPT ![p.i] = value] IN
    IF p.i = 15 THEN Done(p, c)
    ELSE [p EXCEPT !.at = "tree", !.node = node, !.a = 0, !.c = c,
                   !.i = @ + 1, !.ctx3 = ctx3]

TookToken(p, t) ==
  IF t = Eob THEN Done(p, p.c)
  ELSE IF t = 0 THEN Advance(p, 0, 0, 2)
  ELSE IF t < 5 THEN [p EXCEPT !.at = "sign", !.a = t]
  ELSE [p EXCEPT !.at = "extra", !.a = 0, !.n = CatBase[t], !.left = CatProbs[t]]

TookExtra(p, b) ==
  LET a == 2 * p.a + b IN
    IF Len(p.left) = 1 THEN [p EXCEPT !.at = "sign", !.a = p.n + a, !.left = <<>>]
    ELSE [p EXCEPT !.a = a, !.left = Tail(@)]

TookTreeBit(shape, p, b) ==
  LET child == TreeOf(shape)[p.node + b] IN
    IF child > 0 THEN [p EXCEPT !.node = child]
    ELSE CASE shape.kind = "mode"  -> Done(p, Readers[shape.of].modes[1 - child])
           [] shape.kind = "mv"    -> TookMagnitude(shape, p, -child)
           [] shape.kind = "block" -> TookToken(p, -child)

(* Readers without a tree: the second boolean hangs on the first.           *)
select_ref_frame(p, bit) ==
  IF p.node = 0 THEN IF bit THEN [p EXCEPT !.node = 1] ELSE Done(p, "Last")
  ELSE Done(p, IF bit THEN "AltRef" ELSE "Golden")
read_segment_id(p, b) ==
  IF p.node = 0 THEN [p EXCEPT !.node = 1 + b] ELSE Done(p, IF p.node = 1 THEN b ELSE 2 + b)

TookSign(shape, p, bit) ==
  LET v == IF bit THEN -p.a ELSE p.a IN
    CASE shape.kind = "optional" -> Done(p, <<v>>)
      [] shape.kind = "mv"       -> Done(p, v)
      [] shape.kind = "block"    -> Advance(p, v, ContextOf(p.a), 0)

Took(shape, p, bit) ==
  LET b == IF bit THEN 1 ELSE 0 IN
    CASE p.at = "flag"    -> Done(p, bit)
      [] p.at = "present" -> IF bit THEN [p EXCEPT !.at = "bits"] ELSE Done(p, <<>>)
      [] p.at = "bits"    -> TookBit(shape, p, b)
      [] p.at = "tree"    -> TookTreeBit(shape, p, b)
      [] p.at = "nested"  -> IF shape.of = "ref" THEN select_ref_frame(p, bit)
                             ELSE read_segment_id(p, b)
      [] p.at = "form"    -> [p EXCEPT !.at = IF bit THEN "long" ELSE "tree"]
      [] p.at = "long"    -> TookLongBit(shape, p, b)
      [] p.at = "bit3"    -> TookMagnitude(shape, p, p.a + 8 * b)
      [] p.at = "extra"   -> TookExtra(p, b)
      [] p.at = "sign"    -> TookSign(shape, p, bit)

-----------------------------------------------------------------------------
VARIABLES plan,    \* the elements of this partition
          unsent,  \* booleans still to be written
          enc,     \* the BoolEncoder
          bytes,   \* the finished partition, empty before
          dec,     \* the BoolDecoder
          parse,   \* the decoder's walk of the current element
          got,     \* the values parsed so far
  taken    \* branches of the token tree taken in the current block

partition_vars == <<plan, unsent, enc, bytes, dec, parse, got, taken>>

PartitionInit ==
  /\ plan \in Content
  /\ unsent = FlattenSeq([i \in DOMAIN plan |-> WrittenBools(plan[i])])
  /\ enc = NewEncoder
  /\ bytes = <<>> /\ dec = InitPartition(<<>>)
  /\ parse = StartParse(plan[1].shape) /\ got = <<>> /\ taken = <<>>

(* The writers' next write_bool.                                            *)
WriteNextBool ==
  /\ bytes = <<>> /\ unsent # <<>>
  /\ enc' = WriteBool(enc, Head(unsent).prob, Head(unsent).bit)
  /\ unsent' = Tail(unsent)
  /\ UNCHANGED <<plan, bytes, dec, parse, got, taken>>

FinishPartition ==
  /\ bytes = <<>> /\ unsent = <<>>
  /\ bytes' = Finish(enc)
  /\ dec' = InitPartition(bytes')
  /\ UNCHANGED <<plan, unsent, enc, parse, got, taken>>

(* One read_bool of the current element's parser.                           *)
ReadNextBool ==
  /\ bytes # <<>> /\ Len(got) < Len(plan) /\ ~dec.dry
  /\ LET shape == plan[Len(got) + 1].shape
         prob == NextProb(shape, parse)
     IN /\ parse.at # "done"
        /\ dec' = ReadBool(dec, prob)
        /\ parse' = IF dec'.dry THEN parse ELSE Took(shape, parse, Decide(dec, prob))
        /\ taken' = IF shape.kind = "block" /\ parse.at = "tree"
                    THEN Append(taken, Branch(parse.i, parse.ctx3,
                                              parse.node + IF Decide(dec, prob) THEN 1 ELSE 0))
                    ELSE taken
  /\ UNCHANGED <<plan, unsent, enc, bytes, got>>

(* The parser returns and the next element's is entered.                    *)
ReturnValue ==
  /\ parse.at = "done"
  /\ got' = Append(got, parse.value)
  /\ parse' = StartParse(plan[IF Len(got) + 1 < Len(plan) THEN Len(got) + 2
                             ELSE Len(plan)].shape)
  /\ taken' = <<>>
  /\ UNCHANGED <<plan, unsent, enc, bytes, dec>>

PartitionNext == WriteNextBool \/ FinishPartition \/ ReadNextBool \/ ReturnValue

PartitionSpec == PartitionInit /\ [][PartitionNext]_partition_vars

-----------------------------------------------------------------------------
(* Every element is parsed as it was written, with the trees, contexts and  *)
(* implied bits each end computes for itself and whatever carries ran       *)
(* through the bytes in between; and the four tail bytes are enough for a   *)
(* decoder that reads two bytes ahead never to run out (encoder.rs 284-309, *)
(* bool_decoder.rs 36-42, 159-183).                                         *)
ReadsWhatWasWritten ==
  /\ \A i \in DOMAIN got : got[i] = plan[i].value
  /\ ~dec.dry

(* The encoder's statistics are of what is sent: the branches it counts for  *)
(* a block, to fit probabilities to, are those the decoder takes, and what   *)
(* its searches expect a block, a vector or a mode to cost is the cost of    *)
(* the booleans it is written as (encoder.rs 2203-2213, 2275-2286,           *)
(* 4206-4219, motion_vector.rs 333-345).                                    *)
Cost(bools) == [i \in DOMAIN bools |-> bool_bits(bools[i].prob, bools[i].bit)]
Priced(e) ==
  CASE e.shape.kind = "block" -> estimate_block_bits(e.shape, e.value)
    [] e.shape.kind = "mv"    -> mv_component_bits(e.value)
    [] e.shape.kind = "mode"  -> PricedMode(e.shape, e.value)
    [] OTHER                  -> Cost(WrittenBools(e))
StatisticsMatch ==
  /\ parse.at = "done" /\ plan[Len(got) + 1].shape.kind = "block" =>
       Tally(taken) = count_block_branches(plan[Len(got) + 1].shape, plan[Len(got) + 1].value)
  /\ enc = NewEncoder /\ bytes = <<>> =>
       \A i \in DOMAIN plan : SortSeq(Priced(plan[i]), <) = SortSeq(Cost(WrittenBools(plan[i])), <)
=============================================================================
