--------------------------- MODULE MacroblockLayer ---------------------------
(***************************************************************************)
(* One frame's macroblocks, from the encoder's picker to the decoder's     *)
(* records.  The encoder walks the frame four times - it picks, it writes   *)
(* the mode layer into the control partition, it writes the residual        *)
(* tokens into the DCT partitions, it counts them for the probability       *)
(* fitter - and the decoder walks it once (an interframe) or twice (a key   *)
(* frame).  Every walk keeps neighbour records                              *)
(* of its own, and every symbol is coded in a context taken from them, so   *)
(* the walks must agree at each macroblock, symbol by symbol.               *)
(*                                                                         *)
(* A coded symbol is its context and its value; an entropy-coded symbol     *)
(* read in any other context yields some other legal value.  What the       *)
(* pictures decide (which candidate costs least, which blocks have a        *)
(* coefficient) is a choice from the frame's menu.                          *)
(***************************************************************************)
EXTENDS MotionVectors, ResidualContexts, LoopFilterLevels

CONSTANT Menus  \* the frames to code, each a record of settings and candidates

VARIABLES
  menu,      \* the frame being coded
  phase,     \* "pick", "header", "modes", "tokens", "carve", "parse", "residual", "done"
  at,        \* raster index of the walk in progress
  walk,      \* its neighbour records, above (one per column), left, aboveleft
  contexts,  \* its residual contexts, above (one per column), left
  picked,    \* what the encoder chose, one per macroblock
  filter,    \* the configuration each end filters the picture with
  control,   \* symbols in the control partition, not yet read
  dct,       \* symbols in each DCT partition, not yet read
  section,   \* the DCT partitions as one body, the sizes of all but the last, and
             \* the branch counts of their tokens
  decoded,   \* what the decoder recorded, one per macroblock
  synced     \* every symbol so far was read in the context it was written in

vars == <<menu, phase, at, walk, contexts, picked, filter, control, dct, section, decoded, synced>>

Count(m) == m.rows * m.cols
MbCount == Count(menu)
Row(m, n) == n \div m.cols
Col(m, n) == n % m.cols
PartitionOf(m, n) == Row(m, n) % m.partitions
Partition == PartitionOf(menu, at)
Segmented(m) == m.segments # {}

HasY2(mb) == mb.y # "b"
NoBias == {}  \* sign_bias_golden and sign_bias_alternate are written as 0

(* The frames an encoder may be asked for: vectors are 16-bit, a split plan   *)
(* chooses for every group of its layout, only frames with segments have      *)
(* filter levels of segments, and key frames send no loop filter deltas.      *)
BModes == {"b_dc", "b_tm", "b_ve", "b_he", "b_ld", "b_rd", "b_vr", "b_vl", "b_hd", "b_hu"}
SubMvModes == {"left4x4", "above4x4", "zero4x4", "new4x4"}
LegalPlan(plan) ==
  /\ plan.layout \in Layouts
  /\ Len(plan.choices) = Cardinality(Groups(plan.layout))
  /\ \A g \in 1..Len(plan.choices) :
       plan.choices[g].mode \in SubMvModes /\ plan.choices[g].mv \in Mv
LegalFilter(m) ==
  LET f == m.filter
  IN /\ f.levels \subseteq 0..63
     /\ ~Segmented(m) => f.lf_delta = NoUpdate
     /\ f.deltas.enabled \in BOOLEAN /\ (m.key => ~f.deltas.enabled)
     /\ f.carried.ref \in [DeltaRefs -> Int] /\ f.carried.mode \in [DeltaModes -> Int]
LegalMenu(m) ==
  /\ m.key \in BOOLEAN
  /\ m.rows \in Nat \ {0} /\ m.cols \in Nat \ {0} /\ m.partitions \in Nat \ {0}
  /\ m.segments \subseteq Segments
  /\ m.news \subseteq Mv
  /\ \A plan \in m.splits : LegalPlan(plan)
  /\ m.bmodes \subseteq [0..15 -> BModes]
  /\ m.base_q \in 0..127
  /\ LegalFilter(m)
ASSUME MenusAssumption == \A m \in Menus : LegalMenu(m)

-----------------------------------------------------------------------------
(* Neighbour records of a walk.  On an interframe they are MbInfo; on a key  *)
(* frame the sub-block modes along the macroblock's bottom and right edges.  *)

project_to_subblock_context(y) ==
  CASE y = "dc" -> "b_dc" [] y = "v" -> "b_ve" [] y = "h" -> "b_he" [] y = "tm" -> "b_tm"

Edges(mb) ==
  IF mb.y = "b"
  THEN [bottom |-> [c \in 0..3 |-> mb.bmodes[12 + c]], right |-> [r \in 0..3 |-> mb.bmodes[4 * r + 3]]]
  ELSE LET m == project_to_subblock_context(mb.y)
       IN [bottom |-> [c \in 0..3 |-> m], right |-> [r \in 0..3 |-> m]]

Outside(m) ==
  IF m.key THEN Edges([y |-> "dc"]) ELSE Border

FreshWalk(m) == [above |-> [c \in 0..m.cols - 1 |-> Outside(m)],
                 left |-> Outside(m), aboveleft |-> Outside(m)]
FreshContexts(m) == [above |-> [c \in 0..m.cols - 1 |-> NoContext], left |-> NoContext]

(* The records of a walk that has taken macroblock n: left and aboveleft     *)
(* start over with each row; above lasts the frame.                         *)
Stepped(m, n, w, mb) ==
  LET record == IF m.key THEN Edges(mb) ELSE mb.info
      row_ends == Col(m, n) = m.cols - 1
  IN [above |-> [w.above EXCEPT ![Col(m, n)] = record],
      left |-> IF row_ends THEN Outside(m) ELSE record,
      aboveleft |-> IF row_ends THEN Outside(m) ELSE w.above[Col(m, n)]]

SteppedContexts(m, n, c, above, left) ==
  [above |-> [c.above EXCEPT ![Col(m, n)] = above],
   left |-> IF Col(m, n) = m.cols - 1 THEN NoContext ELSE left]

(* What a walk knows when it comes to a macroblock.                         *)
Place(m, n, w) ==
  [row |-> Row(m, n), col |-> Col(m, n), rows |-> m.rows, cols |-> m.cols,
   segmented |-> Segmented(m),
   above |-> w.above[Col(m, n)], left |-> w.left, aboveleft |-> w.aboveleft]
Here == Place(menu, at, walk)

Near3(here, ref) == find_near_mvs(here.above, here.left, here.aboveleft, ref, NoBias)
Bounds(here) == MvClampRect(here.row, here.col, here.rows, here.cols)
BestHere(here, ref) == clamp_mv(Best(Near3(here, ref)), Bounds(here))

-----------------------------------------------------------------------------
(* The picker.  Its search results and its residuals come from the menu; the *)
(* vectors the modes stand for come from its own walk.                      *)

DiffInRange(v, best) ==
  v.row - best.row \in -1023..1023 /\ v.col - best.col \in -1023..1023

WholeCandidates(m, here, ref) ==
  LET near == Near3(here, ref)
      nearest == clamp_mv(Nearest(near), Bounds(here))
      second == clamp_mv(Near(near), Bounds(here))
      News == { v \in m.news : v # ZeroMv /\ DiffInRange(v, BestHere(here, ref)) }
      PickWhole(mode, v) ==
        [mode |-> mode, y |-> "dc", bmodes |-> <<>>, info |-> Whole(ref, v), split |-> <<>>]
  IN {PickWhole("zero", ZeroMv)}
     \cup { PickWhole("nearest", v) : v \in {nearest} \ {ZeroMv} }
     \cup { PickWhole("near", v) : v \in {second} \ {ZeroMv} }
     \cup { PickWhole("new", v) : v \in News }

(* score_split_partition: a plan names, group by group, the sub-mode chosen  *)
(* and the vector the group's own search found.                             *)
SplitVector(here, mvs, anchor, choice) ==
  CASE choice.mode = "left4x4"  -> left_block_mv(mvs, here.left, anchor)
    [] choice.mode = "above4x4" -> above_block_mv(mvs, here.above, anchor)
    [] choice.mode = "zero4x4"  -> ZeroMv
    [] choice.mode = "new4x4"   -> choice.mv

SplitWalk(here, plan) ==
  LET after[g \in 0..Len(plan.choices)] ==
        IF g = 0 THEN [b \in 0..15 |-> ZeroMv]
        ELSE Filled(after[g - 1], plan.layout, g - 1,
                    SplitVector(here, after[g - 1], Anchor(plan.layout, g - 1), plan.choices[g]))
  IN after

SplitCandidate(here, ref, plan) ==
  LET groups == 1..Len(plan.choices)
      Diff(choice) == IF choice.mode = "new4x4" THEN Minus(choice.mv, BestHere(here, ref)) ELSE ZeroMv
  IN [mode |-> "split", y |-> "b", bmodes |-> <<>>,
      info |-> SplitInto(ref, SplitWalk(here, plan)[Len(plan.choices)]),
      split |-> [layout |-> plan.layout,
                 modes |-> [g \in groups |-> plan.choices[g].mode],
                 diffs |-> [g \in groups |-> Diff(plan.choices[g])]]]

InterCandidates(m, here) ==
  UNION { WholeCandidates(m, here, ref) \cup { SplitCandidate(here, ref, p) : p \in m.splits } : ref \in m.refs }

(* An intra macroblock: with sub-block modes on a key frame only.           *)
IntraCandidate(y, bmodes) ==
  [mode |-> Intra, y |-> y, bmodes |-> bmodes, info |-> Border, split |-> <<>>]
IntraCandidates(m) == { IntraCandidate(y, <<>>) : y \in m.intra }
KeyCandidates(m) ==
  { IntraCandidate(y, <<>>) : y \in m.intra \ {"b"} }
  \cup { IntraCandidate(y, modes) : y \in m.intra \cap {"b"}, modes \in m.bmodes }

BlocksOf(y) == IF y = "b" THEN 0..23 ELSE 0..24

Quantizer(m, segment) ==
  LET q == m.base_q + m.quant_delta[segment] IN Clamped(q, 0, 127)

(* A macroblock without a coefficient is skipped.                           *)
Chosen(c, segment, q, uv, residual) ==
  [segment |-> segment, skip |-> residual = {}, mode |-> c.mode, y |-> c.y, bmodes |-> c.bmodes,
   uv |-> uv, info |-> c.info, split |-> c.split, residual |-> residual, q |-> q]

Pick(candidates, segment, q) ==
  /\ phase = "pick" /\ at < MbCount
  /\ \E c \in candidates :
     \E uv \in IF c.mode = Intra THEN menu.uv ELSE {"dc"} :
     \E residual \in menu.residuals :
       /\ residual \subseteq BlocksOf(c.y)
       /\ LET mb == Chosen(c, segment, q, uv, residual)
          IN picked' = Append(picked, mb) /\ walk' = Stepped(menu, at, walk, mb)
  /\ at' = at + 1
  /\ UNCHANGED <<menu, phase, contexts, filter, control, dct, section, decoded, synced>>

(* A key frame without segments, one with (its own entry point), and an      *)
(* interframe.                                                              *)
PickKeyMb == menu.key /\ ~Segmented(menu) /\ Pick(KeyCandidates(menu), 0, menu.base_q)
PickAdaptiveKeyMb ==
  /\ menu.key
  /\ \E segment \in menu.segments : Pick(KeyCandidates(menu), segment, Quantizer(menu, segment))
PickInterMb ==
  /\ ~menu.key
  /\ \E segment \in IF Segmented(menu) THEN menu.segments ELSE {0} :
       Pick(InterCandidates(menu, Here) \cup IntraCandidates(menu), segment,
            IF Segmented(menu) THEN Quantizer(menu, segment) ELSE menu.base_q)

(* The end of one walk of the frame is the start of the next.               *)
StartWalk(from, to) ==
  /\ phase = from /\ at = MbCount
  /\ phase' = to /\ at' = 0
  /\ walk' = FreshWalk(menu) /\ contexts' = FreshContexts(menu)

(* With the whole frame picked and before a bit is written, the encoder      *)
(* filters its picture: at its caller's level, or at one it selects now.     *)
FilterPicture(configs) ==
  /\ StartWalk("pick", "header")
  /\ \E config \in configs : filter' = [filter EXCEPT !.encoder = config]
  /\ UNCHANGED <<menu, picked, control, dct, section, decoded, synced>>
KeyConfigs(m) == { KeyConfig(level, m.filter.lf_delta) : level \in m.filter.levels }
FilterKeyPicture == menu.key /\ FilterPicture(KeyConfigs(menu))
InterConfigs(m) ==
  LET f == m.filter
  IN { InterConfig(level, Segmented(m), f.lf_delta, f.deltas, f.carried) : level \in f.levels }
FilterInterPicture == ~menu.key /\ FilterPicture(InterConfigs(menu))

Sym(context, value) == [ctx |-> context, val |-> value]

(* Of the header, what the macroblocks depend on.                           *)
HeaderSymbol(m, config) ==
  Sym(<<"filter">>, LoopFilterHeader(config.level, Segmented(m), m.filter.lf_delta, m.filter.deltas))
WriteHeader ==
  /\ phase = "header"
  /\ phase' = "modes"
  /\ control' = <<HeaderSymbol(menu, filter.encoder)>>
  /\ UNCHANGED <<menu, at, walk, contexts, picked, filter, dct, section, decoded, synced>>

-----------------------------------------------------------------------------
(* The mode layer.                                                          *)

SegmentSymbols(here, mb) == IF here.segmented THEN <<Sym(<<"segment">>, mb.segment)>> ELSE <<>>

AboveBMode(here, modes, b) == IF b < 4 THEN here.above.bottom[b] ELSE modes[b - 4]
LeftBMode(here, modes, b) == IF b % 4 = 0 THEN here.left.right[b \div 4] ELSE modes[b - 1]
BModeContext(here, modes, b) == <<"kf_b", AboveBMode(here, modes, b), LeftBMode(here, modes, b)>>

write_mode_layer(here, mb) ==
  SegmentSymbols(here, mb) \o <<Sym(<<"skip">>, mb.skip), Sym(<<"kf_y">>, mb.y)>>
    \o (IF mb.y = "b"
        THEN [j \in 1..16 |-> Sym(BModeContext(here, mb.bmodes, j - 1), mb.bmodes[j - 1])]
        ELSE <<>>)
    \o <<Sym(<<"kf_uv">>, mb.uv)>>

(* mv_ref_probs: the mode tree's four probabilities are picked by the counts. *)
ModeContext(near) == <<"mode", near.cnt[0], near.cnt[1], near.cnt[2], near.cnt[3]>>

SubMvContext(here, mvs, anchor) ==
  <<"submv", submv_ref_context(left_block_mv(mvs, here.left, anchor),
                               above_block_mv(mvs, here.above, anchor))>>

(* running_split: the vectors of the groups already written.                *)
Running(mb, g) ==
  [b \in 0..15 |-> IF Group(mb.split.layout, b) < g THEN mb.info.split_mvs[b] ELSE ZeroMv]
GroupSymbols(here, mb, g) ==
  LET mode == mb.split.modes[g + 1]
  IN <<Sym(SubMvContext(here, Running(mb, g), Anchor(mb.split.layout, g)), mode)>>
     \o (IF mode = "new4x4" THEN <<Sym(<<"mv">>, mb.split.diffs[g + 1])>> ELSE <<>>)
SplitSymbols(here, mb) ==
  <<Sym(<<"layout">>, mb.split.layout)>>
    \o FlattenSeq([g \in 1..Len(mb.split.modes) |-> GroupSymbols(here, mb, g - 1)])

(* Mutant: NEWMV is coded against the unclamped best vector.                *)
InterSymbolsUnclamped(here, mb) ==
  LET near == Near3(here, mb.info.ref)
  IN <<Sym(<<"ref">>, mb.info.ref), Sym(ModeContext(near), mb.mode)>>
     \o (IF mb.mode = "new" THEN <<Sym(<<"mv">>, Minus(mb.info.mv, Best(near)))>>
         ELSE IF mb.mode = "split" THEN SplitSymbols(here, mb) ELSE <<>>)
InterSymbols(here, mb) ==
  LET near == Near3(here, mb.info.ref)
  IN <<Sym(<<"ref">>, mb.info.ref), Sym(ModeContext(near), mb.mode)>>
     \o (IF mb.mode = "new" THEN <<Sym(<<"mv">>, Minus(mb.info.mv, BestHere(here, mb.info.ref)))>>
         ELSE IF mb.mode = "split" THEN SplitSymbols(here, mb) ELSE <<>>)

write_inter_modes(here, mb) ==
  SegmentSymbols(here, mb) \o <<Sym(<<"skip">>, mb.skip), Sym(<<"inter">>, mb.mode # Intra)>>
    \o (IF mb.mode = Intra THEN <<Sym(<<"if_y">>, mb.y), Sym(<<"if_uv">>, mb.uv)>>
        ELSE InterSymbols(here, mb))

WriteModes ==
  /\ phase = "modes" /\ at < MbCount
  /\ LET mb == picked[at + 1]
     IN /\ control' = control \o (IF menu.key THEN write_mode_layer(Here, mb)
                                   ELSE write_inter_modes(Here, mb))
        /\ walk' = Stepped(menu, at, walk, mb)
  /\ at' = at + 1
  /\ UNCHANGED <<menu, phase, contexts, picked, filter, dct, section, decoded, synced>>

FinishControl ==
  /\ StartWalk("modes", "tokens")
  /\ UNCHANGED <<menu, picked, filter, control, dct, section, decoded, synced>>

-----------------------------------------------------------------------------
(* The token layer: row r goes to partition r % N.                          *)

(* What a macroblock adds to its partition, and the contexts it leaves.      *)
CodedMb(m, n, c, mb) ==
  LET above == c.above[Col(m, n)]
      s == encode_mb_tokens(mb.residual, HasY2(mb), above, c.left)
  IN IF mb.skip
     THEN [above |-> clear_skip_ctx(above, ~HasY2(mb)), left |-> clear_skip_ctx(c.left, ~HasY2(mb)),
           coded |-> <<>>]
     ELSE s
WriteTokens ==
  /\ phase = "tokens" /\ at < MbCount
  /\ LET s == CodedMb(menu, at, contexts, picked[at + 1])
     IN /\ contexts' = SteppedContexts(menu, at, contexts, s.above, s.left)
        /\ dct' = [dct EXCEPT ![Partition] = @ \o s.coded]
  /\ at' = at + 1
  /\ UNCHANGED <<menu, phase, walk, picked, filter, control, section, decoded, synced>>

(* count_keyframe_branches and count_inter_frame_branches: a walk of the     *)
(* whole frame for the probability fitter, after the tokens are written.     *)
CountOne(m, mb, s, r) ==
  LET c == Col(m, r)
      left == IF c = 0 THEN NoContext ELSE s.left
      skipped == [above |-> clear_skip_ctx(s.above[c], ~HasY2(mb)),
                  left |-> clear_skip_ctx(left, ~HasY2(mb)), counts |-> s.counts]
      counted == count_mb_branches(mb.residual, ~HasY2(mb),
                                   [above |-> s.above[c], left |-> left, counts |-> s.counts])
      t == IF mb.skip THEN skipped ELSE counted
  IN [above |-> [s.above EXCEPT ![c] = t.above], left |-> t.left, counts |-> t.counts]
CountedMbs(m, picks) ==
  LET after[r \in 0..Count(m)] ==
        IF r = 0 THEN [above |-> FreshContexts(m).above, left |-> NoContext, counts |-> EmptyBag]
        ELSE CountOne(m, picks[r], after[r - 1], r - 1)
  IN after
BranchCounts == CountedMbs(menu, picked)[MbCount].counts

(* The partitions one after the other, behind the sizes of all but the last. *)
Assemble ==
  /\ StartWalk("tokens", "carve")
  /\ LET parts == [p \in 1..menu.partitions |-> dct[p - 1]]
     IN section' = [sizes |-> [p \in 1..menu.partitions - 1 |-> Len(parts[p])],
                    body |-> FlattenSeq(parts), counts |-> BranchCounts]
  /\ dct' = [p \in 0..menu.partitions - 1 |-> <<>>]
  /\ UNCHANGED <<menu, picked, filter, control, decoded, synced>>

-----------------------------------------------------------------------------
(* The decoder.                                                             *)

(* carve_dct_partitions, of n partitions whose sizes fit, as an encoder's do. *)
Starts(n, sizes) ==
  LET start[p \in 0..n - 1] == IF p = 0 THEN 0 ELSE start[p - 1] + sizes[p] IN start
carve_dct_partitions(n, sizes, body) ==
  LET start == Starts(n, sizes)
      End(p) == IF p = n - 1 THEN Len(body) ELSE start[p] + sizes[p + 1]
  IN [p \in 0..n - 1 |-> SubSeq(body, start[p] + 1, End(p))]

(* The header, its loop filter's configuration, and the token partitions.    *)
Carve ==
  /\ phase = "carve"
  /\ LET header == Read(Reader(control), <<"filter">>, <<>>)
     IN /\ control' = Unread(header)
        /\ filter' = [filter EXCEPT !.decoder = IF menu.key THEN keyframe(header.val)
                                                ELSE interframe(header.val, menu.filter.carried)]
  /\ dct' = carve_dct_partitions(menu.partitions, section.sizes, section.body)
  /\ phase' = "parse"
  /\ UNCHANGED <<menu, at, walk, contexts, picked, section, decoded, synced>>

(* for_segment, on the same baseline.                                       *)
DecodedQuantizer(m, segment) ==
  LET q == IF Segmented(m) THEN m.base_q + m.quant_delta[segment] ELSE m.base_q
  IN Clamped(q, 0, 127)

(* What the decoder is left with after the two flags every macroblock has.   *)
ReadPrefix(m, queue) ==
  LET s == IF Segmented(m) THEN Read(Reader(queue), <<"segment">>, 0)
           ELSE [Reader(queue) EXCEPT !.val = 0]
      k == Read(s, <<"skip">>, FALSE)
  IN [reader |-> k, segment |-> s.val, q |-> DecodedQuantizer(m, s.val), skip |-> k.val]

Record(prefix, mode, y, bmodes, uv, info, reader) ==
  [mb |-> [segment |-> prefix.segment, skip |-> prefix.skip, mode |-> mode, y |-> y,
           bmodes |-> bmodes, uv |-> uv, info |-> info, residual |-> {}, q |-> prefix.q],
   reader |-> reader]

(* The sixteen sub-block modes, after[k] once the first k are read.          *)
ReadBModes(here, reader) ==
  LET WithMode(s, b) == LET r == Read(s.reader, BModeContext(here, s.modes, b), "b_dc")
                        IN [reader |-> r, modes |-> [s.modes EXCEPT ![b] = r.val]]
      after[k \in 0..16] ==
        IF k = 0 THEN [reader |-> reader, modes |-> [b \in 0..15 |-> "b_dc"]]
        ELSE WithMode(after[k - 1], k - 1)
  IN after

parse_key_frame_macroblock(m, here, queue) ==
  LET prefix == ReadPrefix(m, queue)
      y == Read(prefix.reader, <<"kf_y">>, "dc")
      subs == IF y.val = "b" THEN ReadBModes(here, y)[16] ELSE [reader |-> y, modes |-> <<>>]
      uv == Read(subs.reader, <<"kf_uv">>, "dc")
  IN Record(prefix, Intra, y.val, subs.modes, uv.val, Border, uv)

parse_inter_frame_intra_macroblock_modes(prefix, reader) ==
  LET y == Read(reader, <<"if_y">>, "dc")
      uv == Read(y, <<"if_uv">>, "dc")
  IN Record(prefix, Intra, y.val, <<>>, uv.val, Border, uv)

DecodeSplitGroup(here, s, layout, g, best) ==
  LET anchor == Anchor(layout, g)
      r == Read(s.reader, SubMvContext(here, s.mvs, anchor), "zero4x4")
      d == IF r.val = "new4x4" THEN Read(r, <<"mv">>, ZeroMv) ELSE r
      mv == CASE r.val = "left4x4"  -> left_block_mv(s.mvs, here.left, anchor)
              [] r.val = "above4x4" -> above_block_mv(s.mvs, here.above, anchor)
              [] r.val = "zero4x4"  -> ZeroMv
              [] r.val = "new4x4"   -> Plus(best, d.val)
  IN [reader |-> d, mvs |-> Filled(s.mvs, layout, g, mv)]

DecodedGroups(here, layout, count, reader, best) ==
  LET after[g \in 0..count] ==
        IF g = 0 THEN [reader |-> reader, mvs |-> [b \in 0..15 |-> ZeroMv]]
        ELSE DecodeSplitGroup(here, after[g - 1], layout, g - 1, best)
  IN after
decode_split_mv(here, reader, best) ==
  LET l == Read(reader, <<"layout">>, "top_bottom")
      count == Cardinality(Groups(l.val))
  IN DecodedGroups(here, l.val, count, l, best)[count]

(* resolve_inter_mb_mv_after_mode.                                          *)
parse_inter_macroblock(here, prefix, reader) ==
  LET ref == Read(reader, <<"ref">>, "last")
      near == Near3(here, ref.val)
      mode == Read(ref, ModeContext(near), "zero")
      best == BestHere(here, ref.val)
      diff == Read(mode, <<"mv">>, ZeroMv)
      split == decode_split_mv(here, mode, best)
      Done(v, r) == Record(prefix, mode.val, "dc", <<>>, "dc", Whole(ref.val, v), r)
  IN CASE mode.val = "zero"    -> Done(ZeroMv, mode)
       [] mode.val = "nearest" -> Done(clamp_mv(Nearest(near), Bounds(here)), mode)
       [] mode.val = "near"    -> Done(clamp_mv(Near(near), Bounds(here)), mode)
       [] mode.val = "new"     -> Done(Plus(best, diff.val), diff)
       [] mode.val = "split"   -> Record(prefix, "split", "b", <<>>, "dc",
                                         SplitInto(ref.val, split.mvs), split.reader)

(* The readers the crate offers beside its own decoder, which resolve mode    *)
(* and vector in one call, for whole macroblocks and for split ones; each     *)
(* refuses the other's.                                                       *)
resolve_inter_mb_mv(here, ref, reader) ==
  LET near == Near3(here, ref)
      mode == Read(reader, ModeContext(near), "zero")
      best == BestHere(here, ref)
      diff == Read(mode, <<"mv">>, ZeroMv)
      Resolved(split, mv, r) == [split |-> split, mv |-> mv, reader |-> r]
  IN CASE mode.val = "zero"    -> Resolved(FALSE, ZeroMv, mode)
       [] mode.val = "nearest" -> Resolved(FALSE, clamp_mv(Nearest(near), Bounds(here)), mode)
       [] mode.val = "near"    -> Resolved(FALSE, clamp_mv(Near(near), Bounds(here)), mode)
       [] mode.val = "new"     -> Resolved(FALSE, Plus(best, diff.val), diff)
       [] mode.val = "split"   -> Resolved(TRUE, best, mode)
Refused == [refused |-> TRUE]
decode_inter_mb(here, ref, reader) ==
  LET r == resolve_inter_mb_mv(here, ref, reader)
  IN IF r.split THEN Refused ELSE [refused |-> FALSE, info |-> Whole(ref, r.mv)]
decode_split_mv_mb(here, ref, reader) ==
  LET r == resolve_inter_mb_mv(here, ref, reader)
  IN IF ~r.split THEN Refused
     ELSE [refused |-> FALSE, info |-> SplitInto(ref, decode_split_mv(here, r.reader, r.mv).mvs)]

parse_inter_frame_macroblock(m, here, queue) ==
  LET prefix == ReadPrefix(m, queue)
      inter == Read(prefix.reader, <<"inter">>, TRUE)
  IN IF inter.val THEN parse_inter_macroblock(here, prefix, inter)
     ELSE parse_inter_frame_intra_macroblock_modes(prefix, inter)

ReadResidual(m, n, c, mb, queue) ==
  decode_mb_coeffs(Reader(queue), mb.skip, HasY2(mb), c.above[Col(m, n)], c.left)

(* decode_key_frame reads every mode first ...                              *)
ParseKeyMode ==
  /\ phase = "parse" /\ menu.key /\ at < MbCount
  /\ \E p \in {parse_key_frame_macroblock(menu, Here, control)} :
       /\ decoded' = Append(decoded, p.mb)
       /\ walk' = Stepped(menu, at, walk, p.mb)
       /\ control' = Unread(p.reader)
       /\ synced' = (synced /\ p.reader.ok)
  /\ at' = at + 1
  /\ UNCHANGED <<menu, phase, contexts, picked, filter, dct, section>>

StartResidual ==
  /\ menu.key
  /\ StartWalk("parse", "residual")
  /\ UNCHANGED <<menu, picked, filter, control, dct, section, decoded, synced>>

(* ... and then every residual.                                             *)
ReadKeyResidual ==
  /\ phase = "residual" /\ at < MbCount
  /\ LET mb == decoded[at + 1]
         r == ReadResidual(menu, at, contexts, mb, dct[Partition])
     IN /\ decoded' = [decoded EXCEPT ![at + 1].residual = r.residual]
        /\ contexts' = SteppedContexts(menu, at, contexts, r.above, r.left)
        /\ dct' = [dct EXCEPT ![Partition] = Unread(r.reader)]
        /\ synced' = (synced /\ r.reader.ok)
  /\ at' = at + 1
  /\ UNCHANGED <<menu, phase, walk, picked, filter, control, section>>

(* An interframe interleaves the two partitions, macroblock by macroblock.   *)
DecodeInterMb ==
  /\ phase = "parse" /\ ~menu.key /\ at < MbCount
  /\ \E p \in {parse_inter_frame_macroblock(menu, Here, control)} :
     \E r \in {ReadResidual(menu, at, contexts, p.mb, dct[Partition])} :
       /\ decoded' = Append(decoded, [p.mb EXCEPT !.residual = r.residual])
       /\ walk' = Stepped(menu, at, walk, p.mb)
       /\ contexts' = SteppedContexts(menu, at, contexts, r.above, r.left)
       /\ control' = Unread(p.reader)
       /\ dct' = [dct EXCEPT ![Partition] = Unread(r.reader)]
       /\ synced' = (synced /\ p.reader.ok /\ r.reader.ok)
  /\ at' = at + 1
  /\ UNCHANGED <<menu, phase, picked, filter, section>>

Finish ==
  /\ StartWalk(IF menu.key THEN "residual" ELSE "parse", "done")
  /\ UNCHANGED <<menu, picked, filter, control, dct, section, decoded, synced>>

-----------------------------------------------------------------------------

Init ==
  /\ menu \in Menus
  /\ phase = "pick" /\ at = 0
  /\ walk = FreshWalk(menu) /\ contexts = FreshContexts(menu)
  /\ picked = <<>> /\ decoded = <<>>
  /\ filter = [encoder |-> <<>>, decoder |-> <<>>]
  /\ control = <<>> /\ dct = [p \in 0..menu.partitions - 1 |-> <<>>]
  /\ section = [sizes |-> <<>>, body |-> <<>>, counts |-> EmptyBag]
  /\ synced = TRUE

Next ==
  \/ PickKeyMb \/ PickAdaptiveKeyMb \/ PickInterMb
  \/ FilterKeyPicture \/ FilterInterPicture \/ WriteHeader
  \/ WriteModes \/ FinishControl
  \/ WriteTokens \/ Assemble
  \/ Carve \/ ParseKeyMode \/ StartResidual \/ ReadKeyResidual
  \/ DecodeInterMb \/ Finish

Spec == Init /\ [][Next]_vars

-----------------------------------------------------------------------------
(* Properties.                                                              *)

(* How often each symbol comes in a sequence.                              *)
Tally(s) == [e \in Range(s) |-> Cardinality({ i \in DOMAIN s : s[i] = e })]

(* All the walks keep their neighbour records alike: every symbol of the    *)
(* mode layer and of the token layer is read in the context it was written   *)
(* in, when the frame is done no partition has a symbol left, and what the   *)
(* probability fitter counted is what the partitions hold.                   *)
WalksAgree ==
  /\ synced
  /\ phase = "done" => control = <<>> /\ \A p \in DOMAIN dct : dct[p] = <<>>
  /\ phase = "carve" => section.counts = Tally(section.body)

(* The decoder's record of a macroblock - segment, quantizer, mode, every    *)
(* vector, residual - is what the picker chose and reconstructed from; the   *)
(* crate's public readers, each given its kind of macroblock, find the same  *)
(* vectors.                                                                  *)
PublicReadersAgree ==
  phase = "parse" /\ ~menu.key /\ at < MbCount /\ picked[at + 1].mode # Intra =>
    LET mb == picked[at + 1]
        inter == Read(ReadPrefix(menu, control).reader, <<"inter">>, TRUE)
    IN \A reader \in {Read(inter, <<"ref">>, "last")} :
         [refused |-> FALSE, info |-> mb.info]
           = IF mb.mode = "split" THEN decode_split_mv_mb(Here, mb.info.ref, reader)
             ELSE decode_inter_mb(Here, mb.info.ref, reader)
DecodesWhatWasPicked ==
  /\ \A i \in 1..Len(decoded) :
       LET d == decoded[i]  p == picked[i]
       IN /\ \A f \in DOMAIN d \ {"residual"} : d[f] = p[f]
          /\ phase = "done" => d.residual = p.residual
  /\ PublicReadersAgree

(* The loop filter runs with the same strength on the same edges at both     *)
(* ends.                                                                     *)
Plan(config, mb) ==
  IF config.level = 0 THEN [level |-> 0, inner |-> FALSE]
  ELSE FilterPlan(config, mb.segment, mb.info.ref, mb.y, mb.mode, mb.residual # {})
FilterPlansAgree ==
  phase = "done" =>
    \A i \in 1..MbCount : Plan(filter.encoder, picked[i]) = Plan(filter.decoder, decoded[i])
=============================================================================
