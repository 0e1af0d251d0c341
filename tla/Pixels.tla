------------------------------- MODULE Pixels -------------------------------
(* Pixel planes and blocks, as the prediction and search kernels share them.  *)
EXTENDS Integers

(* A plane is [h, w, px], px a function of row and then of column; a block is *)
(* such a function by itself.                                                 *)
Square(n, Px(_, _)) == [r \in 0..n - 1 |-> [c \in 0..n - 1 |-> Px(r, c)]]

AtMost(v, hi) == IF v > hi THEN hi ELSE v
Clamp(v, lo, hi) == IF v < lo THEN lo ELSE AtMost(v, hi)
clamp255(v) == Clamp(v, 0, 255)

(* The sum of n terms, numbered from 0.                                       *)
SumBelow(n, Term(_)) ==
  LET sum[lo \in 0..n, hi \in 0..n] ==
        CASE hi = lo -> 0
          [] hi = lo + 1 -> Term(lo)
          [] hi > lo + 1 -> sum[lo, (lo + hi) \div 2] + sum[(lo + hi) \div 2, hi]
  IN sum[0, n]
=============================================================================
