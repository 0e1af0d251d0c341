-------------------------- MODULE MCCodedPartition --------------------------
(* Partitions small enough to enumerate, and two chosen for their carries.   *)
EXTENDS CodedPartition

(* One row of DEFAULT_MV_CONTEXT.                                            *)
MCMvContext == [k \in 0..18 |->
  <<162, 128, 225, 146, 172, 147, 214, 39, 156, 128, 129, 132, 75, 145, 178,
    206, 239, 254, 254>>[k + 1]]

(* Any table will do whose entries tell bands, contexts and nodes apart.     *)
MCCoeffProbs ==
  [band \in 0..7 |-> [ctx3 \in 0..2 |-> [node \in 0..10 |->
     1 + ((37 * band + 83 * ctx3 + 23 * node) % 255)]]]

Element(shape, value) == [shape |-> shape, value |-> value]
Flag(prob, bit) == Element([kind |-> "flag", flag |-> prob], bit)
Flags(probs, n) == [1..n -> { Flag(p, b) : p \in probs, b \in BOOLEAN }]

Block(first, seed, coefs) ==
  Element([kind |-> "block", first |-> first, seed |-> seed],
          [i \in 0..15 |-> IF i \in DOMAIN coefs /\ i >= first THEN coefs[i] ELSE 0])
NoZero == [i \in 0..15 |-> IF i % 3 = 0 THEN 1 - i ELSE i]

Literals == { Element([kind |-> "literal", bits |-> 7], v) : v \in {0, 1, 64, 127} }
Optionals ==
  { Element([kind |-> "optional", flag |-> 128, bits |-> 4, signed |-> TRUE], v) :
      v \in {<<>>, <<0>>, <<5>>, <<-15>>} }
  \cup { Element([kind |-> "optional", flag |-> 252, bits |-> 8, signed |-> FALSE], v) :
      v \in {<<>>, <<0>>, <<255>>} }
Mode(of, mode) == Element([kind |-> "mode", of |-> of], mode)
With(of, probs, mode) == Element([kind |-> "mode", of |-> of, probs |-> FromZero(probs)], mode)
Fixed == { of \in DOMAIN Readers : Readers[of].probs # InContext }
ModesFrom(of) == { Mode(of, m) : m \in ToSet(Readers[of].modes) }
(* Two rows of KF_BMODE_PROB, extreme segment probabilities, and censuses    *)
(* that differ in every count.                                               *)
ModeElements ==
  UNION { ModesFrom(of) : of \in Fixed }
  \cup { With("kf_b", row, m) : m \in ToSet(IntraBmode), row \in
          { <<231, 120, 48, 89, 115, 113, 120, 152, 112>>,
            <<63, 20, 8, 114, 114, 208, 12, 9, 226>> } }
  \cup { With(of, <<255, 1, 90>>, m) : of \in {"segment", "if_segment"}, m \in ToSet(SegmentId) }
  \cup { With("ref", <<128, 30>>, m) : m \in ToSet(RefFrame) }
  \cup { Element([kind |-> "mode", of |-> "inter",
                  probs |-> mv_ref_probs([s \in 0..3 |-> (k * (s + 1)) % 6])], m) :
           k \in {0, 1, 5}, m \in ToSet(InterMode) }
  \cup { With("sub_mv", SUBMV_REF_PROBS[ctx], m) : ctx \in 0..4, m \in ToSet(SubMvRefMode) }

(* The modes of a B_PRED macroblock of a key frame and of a split one.       *)
KeyHeader ==
  <<With("segment", <<255, 1, 90>>, 2), Flag(128, FALSE), Mode("kf_y", "B")>>
  \o [j \in 1..16 |-> With("kf_b", <<231, 120, 48, 89, 115, 113, 120, 152, 112>>,
                                IntraBmode[1 + ((7 * j) % 10)])]
  \o <<Mode("kf_uv", "Tm")>>
SplitHeader ==
  <<With("if_segment", <<255, 1, 90>>, 1), Flag(128, FALSE), Flag(60, TRUE),
    With("ref", <<128, 30>>, "Golden"),
    Element([kind |-> "mode", of |-> "inter", probs |-> mv_ref_probs([s \in 0..3 |-> s])], "Split"),
    Mode("partition", "TopBottom"),
    With("sub_mv", <<223, 1, 34>>, "New4x4"),
    Element([kind |-> "mv"], -9), Element([kind |-> "mv"], 3),
    With("sub_mv", <<208, 1, 1>>, "Left4x4")>>

Vectors ==
  { Element([kind |-> "mv"], v) :
      v \in {0, 1, -1, 7, -7, 8, -8, 15, 16, -16, 23, 24, 256, 1015, 1023, -1023} }
Blocks ==
  { Block(first, seed, coefs) : first \in {0, 1}, seed \in 0..2, coefs \in
      { <<>>, [i \in {0} |-> -3], [i \in {1} |-> -1], [i \in {2} |-> 2],
        [i \in {15} |-> 1],
        [i \in {1, 3} |-> 4 * i], [i \in {1, 2, 5} |-> 10 * i + 1],
        [i \in 1..3 |-> 16 * i + 2], [i \in {3, 4} |-> IF i = 3 THEN 67 ELSE -66],
        [i \in {1, 2} |-> IF i = 1 THEN -2114 ELSE 2048], NoZero } }

Fields == Literals \cup Optionals \cup Vectors

(* Its carry is still pending at the end and runs back through two 0xFF      *)
(* bytes; written on, it is shifted out instead.                             *)
CarryFlags == <<
  Flag(235, TRUE),  Flag(235, TRUE),  Flag(128, FALSE), Flag(20, TRUE),
  Flag(235, FALSE), Flag(235, TRUE),  Flag(128, FALSE), Flag(235, FALSE),
  Flag(128, FALSE), Flag(20, TRUE),   Flag(235, FALSE), Flag(128, FALSE),
  Flag(128, FALSE), Flag(20, TRUE),   Flag(235, FALSE), Flag(128, TRUE),
  Flag(235, TRUE),  Flag(20, TRUE),   Flag(128, TRUE),  Flag(235, FALSE),
  Flag(20, FALSE),  Flag(128, TRUE),  Flag(235, FALSE), Flag(235, TRUE),
  Flag(20, TRUE),   Flag(235, FALSE), Flag(20, TRUE),   Flag(128, FALSE),
  Flag(128, FALSE), Flag(235, TRUE),  Flag(128, FALSE), Flag(20, TRUE),
  Flag(128, TRUE),  Flag(20, TRUE),   Flag(128, FALSE), Flag(20, TRUE),
  Flag(235, TRUE) >>

MCContent ==
  UNION { Flags({1, 128, 255}, n) : n \in 1..4 }
  \cup { <<x, y>> : x \in Fields \cup Blocks, y \in Fields }
  \cup { <<x, y>> : x \in ModeElements, y \in Optionals } \cup {KeyHeader, SplitHeader}
  \cup { <<x, y>> : x \in Literals, y \in Blocks }
  \cup { CarryFlags \o [i \in 1..n |-> Flag(128, FALSE)] : n \in {0, 3, 20} }
=============================================================================
