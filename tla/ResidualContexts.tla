-------------------------- MODULE ResidualContexts --------------------------
(***************************************************************************)
(* The residual blocks of a macroblock and the predictors they are coded   *)
(* against (dct_tokens.rs, encoder.rs): which blocks there are, in what    *)
(* order, and which neighbours' emptiness each one's first token depends   *)
(* on.  A context is the set of the slots whose last block was not empty.  *)
(***************************************************************************)
EXTENDS Integers, SequencesExt

Y2Block == 24
LumaBlocks == 0..15
Slots == 0..8

left_context_index(b) ==
  CASE b \in 0..15  -> b \div 4
    [] b \in 16..19 -> 4 + (b - 16) \div 2
    [] b \in 20..23 -> 6 + (b - 20) \div 2
    [] b = Y2Block  -> 8

above_context_index(b) ==
  CASE b \in 0..15  -> b % 4
    [] b \in 16..19 -> 4 + (b % 2)
    [] b \in 20..23 -> 6 + (b % 2)
    [] b = Y2Block  -> 8

ResidualOrder(has_y2) ==
  (IF has_y2 THEN <<Y2Block>> ELSE <<>>) \o [i \in 1..24 |-> i - 1]

(* Luma starts at coefficient 1 where a Y2 block has taken the DCs.         *)
BlockType(b, has_y2) ==
  CASE b = Y2Block -> "Y2"
    [] b \in LumaBlocks -> IF has_y2 THEN "YAfterY2" ELSE "YNoY2"
    [] OTHER -> "UV"

NoContext == {}
Noted(context, slot, has_coeffs) ==
  IF has_coeffs THEN context \cup {slot} ELSE context \ {slot}

Ctx3(above, left, b) ==
  (IF above_context_index(b) \in above THEN 1 ELSE 0)
    + (IF left_context_index(b) \in left THEN 1 ELSE 0)

TokenContext(above, left, b, has_y2) ==
  <<"block", BlockType(b, has_y2), Ctx3(above, left, b)>>

-----------------------------------------------------------------------------
(* The encoder.  residual is the set of its blocks with a coefficient; a     *)
(* macroblock's blocks are walked in order, after[k] being where the first k *)
(* of them leave the walk.                                                  *)

encode_block_with_ctx(s, b, has_y2, residual) ==
  [above |-> Noted(s.above, above_context_index(b), b \in residual),
   left |-> Noted(s.left, left_context_index(b), b \in residual),
   coded |-> Append(s.coded, [ctx |-> TokenContext(s.above, s.left, b, has_y2),
                              val |-> b \in residual])]

EncodedBlocks(residual, has_y2, above, left) ==
  LET order == ResidualOrder(has_y2)
      after[k \in 0..Len(order)] ==
        IF k = 0 THEN [above |-> above, left |-> left, coded |-> <<>>]
        ELSE encode_block_with_ctx(after[k - 1], order[k], has_y2, residual)
  IN after
encode_mb_tokens(residual, has_y2, above, left) ==
  EncodedBlocks(residual, has_y2, above, left)[Len(ResidualOrder(has_y2))]

(* The fitter's count of a macroblock: every block in turn, in contexts of   *)
(* its own, and how often each context coded which value.                    *)
count_block_branches(s, b, has_y2, residual) ==
  LET event == [ctx |-> TokenContext(s.above, s.left, b, has_y2), val |-> b \in residual]
  IN [above |-> Noted(s.above, above_context_index(b), b \in residual),
      left |-> Noted(s.left, left_context_index(b), b \in residual),
      counts |-> s.counts (+) SetToBag({event})]

CountedBlocks(residual, use_bpred, s) ==
  LET order == ResidualOrder(~use_bpred)
      after[k \in 0..Len(order)] ==
        IF k = 0 THEN s ELSE count_block_branches(after[k - 1], order[k], ~use_bpred, residual)
  IN after
count_mb_branches(residual, use_bpred, s) ==
  CountedBlocks(residual, use_bpred, s)[Len(ResidualOrder(~use_bpred))]

(* Mutant: the Y2 context is cleared whether or not there is a Y2 block.    *)
clear_skip_ctx_with_y2(context, use_bpred) == context \ ((0..7) \cup {8})

clear_skip_ctx(context, use_bpred) ==
  IF use_bpred THEN context \ (0..7) ELSE context \ ((0..7) \cup {8})

-----------------------------------------------------------------------------
(* The decoder.  A reader is a queue of coded symbols, the next one, and    *)
(* whether each so far was read in the context it was written in; one that  *)
(* is not yields some other legal value.                                    *)

Reader(queue) == [src |-> queue, at |-> 1, ok |-> TRUE, val |-> FALSE]

Read(r, ctx, garbled) ==
  LET good == r.ok /\ r.at <= Len(r.src) /\ r.src[r.at].ctx = ctx
  IN [src |-> r.src, at |-> r.at + 1, ok |-> good,
      val |-> IF good THEN r.src[r.at].val ELSE garbled]

Unread(r) == SubSeq(r.src, r.at, Len(r.src))

decode_one(s, b, has_y2) ==
  LET r == Read(s.reader, TokenContext(s.above, s.left, b, has_y2), FALSE)
  IN [reader |-> r,
      above |-> Noted(s.above, above_context_index(b), r.val),
      left |-> Noted(s.left, left_context_index(b), r.val),
      residual |-> IF r.val THEN s.residual \cup {b} ELSE s.residual]

reset_for_skip(context, has_y2) ==
  (context \ (0..7)) \ (IF has_y2 THEN {8} ELSE {})

DecodedBlocks(reader, has_y2, above, left) ==
  LET order == ResidualOrder(has_y2)
      after[k \in 0..Len(order)] ==
        IF k = 0 THEN [reader |-> reader, above |-> above, left |-> left, residual |-> {}]
        ELSE decode_one(after[k - 1], order[k], has_y2)
  IN after
decode_mb_coeffs(reader, skip, has_y2, above, left) ==
  IF skip
  THEN [reader |-> reader, residual |-> {},
        above |-> reset_for_skip(above, has_y2), left |-> reset_for_skip(left, has_y2)]
  ELSE DecodedBlocks(reader, has_y2, above, left)[Len(ResidualOrder(has_y2))]
=============================================================================
