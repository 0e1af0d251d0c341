---------------------------- MODULE EncoderChoices ---------------------------
(* Choices of the encoder: the levels of a coefficient block by what they     *)
(* distort and cost (encoder.rs trellis_quantize_block), the probability a    *)
(* token position is given from its branch counts (fit_token_prob_updates),   *)
(* and the mode of an interframe macroblock (pick_mb_for_ref and the loop     *)
(* that calls it).  Costs are whole numbers here.                             *)
EXTENDS Integers, Sequences, SequencesExt

(* A block has n scan positions; spec is                                      *)
(*   first        the first position that is coded                            *)
(*   entry        the token context of its neighbours                         *)
(*   dc, ac       the quantiser steps                                         *)
(*   lambda       the price of a bit; with none the block is just rounded     *)
(*   norm         what the transform makes of an error at each position.      *)
CONSTANTS
  Rate(_, _, _, _),   \* bits of a level, by position, context, whether the
                      \* level before was 0 (after which a block cannot end)
  Eob(_, _),          \* bits of ending the block, by position and context
  BitCost             \* BitCost[p] of coding an event with probability p / 256
Magnitude(v) == IF v < 0 THEN -v ELSE v
Step(spec, k) == IF k = 0 THEN spec.dc ELSE spec.ac
Rounded(x, spec, k) == (Magnitude(x[k]) + Step(spec, k) \div 2) \div Step(spec, k)
Signed(x, k, level) == IF x[k] < 0 THEN -level ELSE level

level_ctx3(level) == CASE level = 0 -> 0 [] level = 1 -> 1 [] level >= 2 -> 2
Candidates(x, spec, k) ==
  LET m == Rounded(x, spec, k) IN {c \in {m, m - 1, 0} : c >= 0}
Distortion(x, spec, k, level) ==
  LET err == Magnitude(x[k]) - level * Step(spec, k) IN spec.norm[k] * err * err

enc_quantize_block_range(x, spec, n) ==
  [k \in 0..n - 1 |-> IF k < spec.first THEN 0 ELSE Signed(x, k, Rounded(x, spec, k))]

(* Survivors: the cheapest way to reach each context, for the levels of the   *)
(* positions first..k; a context says whether the last level was 0.           *)
Cheapest(S) == CHOOSE s \in S : \A t \in S : s.cost <= t.cost
(* Mutant: keeps one way in all.                                            *)
OneOverall(S) == {Cheapest(S)}

OnePerContext(S) == {Cheapest({s \in S : s.ctx = c}) : c \in {s.ctx : s \in S}}
Start(spec) == {[ctx |-> spec.entry, after_zero |-> FALSE, cost |-> 0, levels |-> << >>]}
Extended(S, x, spec, k) ==
  OnePerContext({[ctx |-> level_ctx3(m), after_zero |-> m = 0,
                  cost |-> s.cost + Distortion(x, spec, k, m)
                           + spec.lambda * Rate(k, s.ctx, s.after_zero, m),
                  levels |-> Append(s.levels, m)]
                 : s \in S, m \in Candidates(x, spec, k)})

(* A block ends after a level that is not 0, or before the first one; what is *)
(* left out is distortion.                                                    *)
Ended(s, next, x, spec, n) ==
  [levels |-> s.levels,
   cost |-> s.cost + (IF next < n THEN spec.lambda * Eob(next, s.ctx) ELSE 0)
            + MapThenSumSet(LAMBDA k : Distortion(x, spec, k, 0), next..n - 1)]

trellis_quantize_block(x, spec, n) ==
  LET nonzero == {k \in spec.first..n - 1 : Rounded(x, spec, k) # 0}
      survivors[k \in spec.first - 1..n - 1] ==
        IF k < spec.first THEN Start(spec) ELSE Extended(survivors[k - 1], x, spec, k)
      ends == {Ended(s, spec.first, x, spec, n) : s \in Start(spec)}
              \cup UNION {{Ended(s, k + 1, x, spec, n) : s \in {s \in survivors[k] : ~s.after_zero}}
                          : k \in spec.first..Max(nonzero)}
      best == Cheapest(ends).levels
  IN CASE spec.lambda <= 0 -> enc_quantize_block_range(x, spec, n)
       [] spec.lambda > 0 /\ nonzero = {} -> [k \in 0..n - 1 |-> 0]
       [] OTHER -> [k \in 0..n - 1 |->
            IF k \in spec.first..spec.first + Len(best) - 1
            THEN Signed(x, k, best[k - spec.first + 1]) ELSE 0]

-----------------------------------------------------------------------------
(* One position of the token table: n0 and n1 branches taken, the default     *)
(* probability and that of an update's flag, and the saving below which an    *)
(* update is not worth the risk.                                              *)
BoolBits(prob, bit) == BitCost[IF bit THEN 256 - prob ELSE prob]
BodyBits(n0, n1, prob) == n0 * BoolBits(prob, FALSE) + n1 * BoolBits(prob, TRUE)
UpdateBits(update_prob) == BoolBits(update_prob, TRUE) + 8 * BitCost[128] - BoolBits(update_prob, FALSE)
(* Mutant: the share of the ones.                                             *)
ShareOfOnes(n0, n1) ==
  LET raw == (256 * n1 + (n0 + n1) \div 2) \div (n0 + n1)
  IN IF raw < 1 THEN 1 ELSE IF raw > 255 THEN 255 ELSE raw
LikeliestProb(n0, n1) ==
  LET raw == (256 * n0 + (n0 + n1) \div 2) \div (n0 + n1)
  IN IF raw < 1 THEN 1 ELSE IF raw > 255 THEN 255 ELSE raw
fit_token_prob_update(n0, n1, p_old, update_prob, min_saving) ==
  IF n0 + n1 = 0 THEN <<>>
  ELSE LET p_new == LikeliestProb(n0, n1)
           saving == BodyBits(n0, n1, p_old) - BodyBits(n0, n1, p_new)
       IN IF p_new # p_old /\ saving > UpdateBits(update_prob) + min_saving THEN <<p_new>> ELSE <<>>
------------------------------------------------------------------------------
(* What an interframe macroblock is coded as.  A cost is                      *)
(* distortion plus the price of the bits; here it is a number, and an offer   *)
(* has one for every alternative:                                             *)
(*   offer.refs       the references that can be used, in order               *)
(*   offer.of[ref]    zero, nearest, near, new: costs of the whole modes, the *)
(*                    last three only if eligible; split[layout]: cost of a   *)
(*                    layout if it can be coded; split_bits, ref_bits: prices *)
(*                    of the split mode and of naming the reference           *)
(*   offer.intra      cost of the best intra mode, with intra_bits and        *)
(*                    inter_bits the prices of saying which it is             *)
Infinite == 1000000

(* Later alternatives have to be strictly cheaper.                            *)
WholeModes == <<"zero", "nearest", "near", "new">>
PickedWhole(costs) ==
  FoldLeft(LAMBDA best, m : IF m \in DOMAIN costs /\ costs[m] < best.j
                            THEN [best EXCEPT !.mode = m, !.j = costs[m]] ELSE best,
           [mode |-> "zero", j |-> costs.zero, layout |-> "none"], WholeModes)

(* What is kept of a layout already has the price of the split mode in it;    *)
(* the comparison adds it once more.                                          *)
PartitionOrder == <<"top_bottom", "left_right", "quarters", "mv16">>
NoSplit == [layout |-> "none", j |-> Infinite]
KeptSplit(split, bits) ==
  FoldLeft(LAMBDA best, p : IF p \in DOMAIN split
                               /\ (best = NoSplit \/ split[p] + bits < best.j + bits)
                            THEN [layout |-> p, j |-> split[p] + bits] ELSE best,
           NoSplit, PartitionOrder)

pick_mb_for_ref(costs) ==
  LET whole == PickedWhole(costs.whole)
      kept == KeptSplit(costs.split, costs.split_bits)
  IN IF kept.j < whole.j THEN [mode |-> "split", j |-> kept.j, layout |-> kept.layout] ELSE whole

(* The cheapest reference, then inter against intra, which is only tried when *)
(* the caller asks for it.                                                    *)
PickedReference(offer) ==
  FoldLeft(LAMBDA best, ref :
             LET pick == pick_mb_for_ref(offer.of[ref])
                 total == pick.j + offer.of[ref].ref_bits
             IN IF total < best.total THEN [ref |-> ref, pick |-> pick, total |-> total] ELSE best,
           [ref |-> "none", pick |-> NoSplit, total |-> Infinite], offer.refs)
PickedMb(offer) ==
  LET inter == PickedReference(offer)
  IN IF offer.pick_intra /\ offer.intra + offer.intra_bits < inter.total + offer.inter_bits
     THEN [ref |-> "intra", mode |-> "intra", layout |-> "none",
           total |-> offer.intra + offer.intra_bits]
     ELSE [ref |-> inter.ref, mode |-> inter.pick.mode, layout |-> inter.pick.layout,
           total |-> inter.total]
==============================================================================
