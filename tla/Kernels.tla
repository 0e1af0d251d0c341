------------------------------- MODULE Kernels -------------------------------
(* The numerical kernels, each run on inputs of its own: every action is one  *)
(* call, and the state keeps what it was given and what it returned.  Intra   *)
(* prediction is a walk over a picture, whose pixels are numbered after their *)
(* place so that a pixel read tells where it came from.                       *)
EXTENDS Integers, Sequences, SequencesExt, FiniteSets, FiniteSetsExt, TLC

Inter == INSTANCE InterPrediction
Search == INSTANCE MotionSearch
Coding == INSTANCE Transforms
Strength == INSTANCE LoopFilterLevels
Deblock == INSTANCE LoopFilterPixels

CONSTANTS
  References,      \* pictures to predict from: a sequence of [y, uv] planes
  Places,          \* macroblock positions in them: records [row, col]
  MotionVectors,   \* vectors to predict with
  Sources,         \* luma planes to search a match for, likewise
  Starts,          \* vectors to start a search from
  BlockGroups,     \* groups of blocks that share a vector: <<layout, group>>
  Windows,         \* frames around an anchor, of one size: sequences of [y, u, v]
  Steps,           \* of the search that aligns them, 8, 4, 2 and 1 in the code
  BlockEdge,       \* of the blocks aligned, 16 in the code
  Predictions,     \* pixel blocks (functions on 0..15) to add a residue to
  Residues,        \* residues of such blocks
  Factors,         \* quantiser steps: see Transforms
  Fractions,       \* eighths of a pixel to interpolate at
  Blocks,          \* coefficient blocks, in scan order
  BlockLength,     \* and their length, 16 in the code
  Specs,           \* trellis parameters: see EncoderChoices
  Rate(_, _, _, _), Eob(_, _),
  BitCost,         \* in 1/256 bits, by probability in 1/256
  BranchCounts,    \* pairs of branch counts of a position of the token table
  Defaults,        \* probabilities: [old, update] of a position
  Offers,          \* costs to pick a macroblock's coding from: see EncoderChoices
  Runs,            \* eight pixels across an edge, as tuples
  FilterParams,    \* what LoopFilterLevels derives from a level
  Plans,           \* how strongly to filter a picture: see StartFilter
  Scores,          \* errors of a filtered picture, on 0..63 \X 0..7
  Edges,           \* neighbours of a 4x4 block: records [above, left, topleft]
  MbRows, MbCols,  \* size of the picture of the intra walk
  TokenBits(_, _, _), YModeBits(_), UvModeBits(_), SubblockModeBits(_, _, _),
  InterYModeBits(_), InterUvModeBits(_)  \* prices: see IntraMacroblocks

Intra == INSTANCE IntraMacroblocks
Picks == INSTANCE EncoderChoices

VARIABLES job, walk
vars == <<job, walk>>
Idle == [kernel |-> "none"]
Called(kernel) == job.kernel = kernel
MaxRounds == 8

Filters == {Inter!filter_set_for_version(v) : v \in {0, 3}}
PredictWhole ==
  /\ job = Idle
  /\ \E ref \in DOMAIN References, at \in Places, mv \in MotionVectors, full \in BOOLEAN, f \in Filters :
       job' = [kernel |-> "whole", ref |-> ref, at |-> at, mv |-> mv, full |-> full, filters |-> f,
               out |-> Inter!predict_inter_mb(References[ref], at, mv, full, f)]
  /\ UNCHANGED walk

(* All sixteen vectors are (a), or those of the lower half are (b).           *)
PredictSplit ==
  /\ job = Idle
  /\ \E ref \in DOMAIN References, at \in Places, f \in Filters, a, b \in MotionVectors :
       LET mvs == [k \in 0..15 |-> IF k < 8 THEN a ELSE b]
       IN job' = [kernel |-> "split", ref |-> ref, at |-> at, mvs |-> mvs, filters |-> f,
                  out |-> Inter!predict_split_mv(References[ref], at, mvs, FALSE, f)]
  /\ UNCHANGED walk

(* A macroblock's search: rounds on whole pixels, then half and quarters.     *)
StartSearch ==
  /\ job = Idle
  /\ \E ref \in DOMAIN References, src \in DOMAIN Sources, at \in Places, start \in Starts :
       job' = [kernel |-> "search", ref |-> ref, src |-> src, at |-> at, start |-> start,
               phase |-> "whole", rounds |-> 0,
               best |-> Search!small_diamond_start(References[ref].y, Sources[src], at, start)]
  /\ UNCHANGED walk
Searching(phase) == Called("search") /\ job.phase = phase
SearchRound ==
  /\ Searching("whole")
  /\ LET next == Search!small_diamond_search_luma(References[job.ref].y, Sources[job.src], job.at, job.best)
     IN job' = [job EXCEPT !.best = next, !.rounds = @ + 1,
                           !.phase = IF next = job.best \/ job.rounds + 1 = MaxRounds THEN "half" ELSE @]
  /\ UNCHANGED walk
RefineHalf ==
  /\ Searching("half")
  /\ job' = [job EXCEPT !.phase = "quarter", !.best =
               Search!half_pixel_refine_luma(References[job.ref].y, Sources[job.src], job.at, @.mv)]
  /\ UNCHANGED walk
RefineQuarter ==
  /\ Searching("quarter")
  /\ job' = [job EXCEPT !.phase = "done", !.best =
               Search!quarter_pixel_refine_luma(References[job.ref].y, Sources[job.src], job.at, @.mv)]
  /\ UNCHANGED walk

SearchGroup ==
  /\ job = Idle
  /\ \E ref \in DOMAIN References, src \in DOMAIN Sources, at \in Places, start \in Starts, g \in BlockGroups :
       LET group == Search!PartitionGroup(g[1], g[2])
       IN job' = [kernel |-> "group", ref |-> ref, src |-> src, at |-> at, start |-> start, blocks |-> group.members,
                  out |-> Search!group_small_diamond_search(References[ref].y, Sources[src], at, group, start, 4)]
  /\ UNCHANGED walk

(* An altref anchor, block by block of every other frame of its window; log   *)
(* keeps how each was aligned.  A window of one frame, or no strength, leaves *)
(* the frame as it is.  Frames of different sizes are refused beforehand (see *)
(* AltrefStreamEncoder).                                                      *)
Center == Windows[job.win][job.center]
PiecesOf(frames, center) ==
  LET blocks == Search!BlocksOf(frames[center].y, BlockEdge)
      Of(f) == IF f = center THEN <<>> ELSE [k \in DOMAIN blocks |-> [frame |-> f, blk |-> blocks[k]]]
  IN FlattenSeq([f \in DOMAIN frames |-> Of(f)])
PassesThrough(frames, strength) == strength = 0 \/ Len(frames) < 2
StartAnchor ==
  /\ job = Idle
  /\ \E win \in DOMAIN Windows, center \in 1..3, strength \in {0, 3, 9} :
       /\ center \in DOMAIN Windows[win]
       /\ LET frames == Windows[win]
              ctr == frames[center]
          IN job' = [kernel |-> "anchor", win |-> win, center |-> center, strength |-> strength, log |-> <<>>,
                     left |-> IF PassesThrough(frames, strength) THEN <<>> ELSE PiecesOf(frames, center),
                     out |-> IF PassesThrough(frames, strength) THEN ctr ELSE <<>>,
                     acc |-> [y |-> Search!accumulate_center(ctr.y), u |-> Search!accumulate_center(ctr.u),
                              v |-> Search!accumulate_center(ctr.v)]]
  /\ UNCHANGED walk
BlendBlock ==
  /\ Called("anchor") /\ job.left # <<>>
  /\ LET piece == Head(job.left)
         other == Windows[job.win][piece.frame]
     IN \E found \in {Search!refine_search(Center.y, other.y, piece.blk, Steps)} :
          job' = [job EXCEPT !.left = Tail(@), !.log = Append(@, piece @@ [found |-> found]),
                    !.acc = Search!Blend(@, Center, other, piece.blk, found, Search!weight_table(job.strength))]
  /\ UNCHANGED walk
ResolveAnchor ==
  /\ Called("anchor") /\ job.left = <<>> /\ job.out = <<>>
  /\ job' = [job EXCEPT !.out = [y |-> Search!resolve_plane(Center.y, job.acc.y),
                                 u |-> Search!resolve_plane(Center.u, job.acc.u),
                                 v |-> Search!resolve_plane(Center.v, job.acc.v)]]
  /\ UNCHANGED walk

(* A macroblock coded with a residue that varies from block to block, as one  *)
(* with a block of DCs and as one without.                                    *)
CodeBlocks ==
  /\ job = Idle
  /\ \E p \in Predictions, r1, r2 \in Residues, factors \in Factors :
     \E residual \in {[b \in 0..15 |-> IF b % 3 = 0 THEN r1 ELSE r2]} :
     \E raw \in {Coding!transform_whole_mb(residual, [b \in 0..3 |-> residual[b]], factors)} :
     \E apart \in {Coding!transform_split_mv_mb(residual, [b \in 0..3 |-> residual[b]], factors)} :
       LET pred == [y |-> [b \in 0..15 |-> p], uv |-> [b \in 0..3 |-> p]]
       IN job' = [kernel |-> "code", pred |-> pred, residual |-> residual, factors |-> factors,
                  whole |-> Coding!AsWhole(pred, raw, factors),
                  kept |-> [y |-> Coding!reconstruct_whole_block_luma(pred.y, raw, factors),
                            uv |-> Coding!reconstruct_chroma_plane(pred.uv, raw.uv, factors)],
                  split |-> Coding!AsSplit(pred, apart, factors)]
  /\ UNCHANGED walk

(* Every transform of one residue, four lanes at a time or not.               *)
TransformBlock ==
  /\ job = Idle
  /\ \E x \in Residues, p \in Predictions :
       job' = [kernel |-> "transform", x |-> x, pred |-> p,
               out |-> <<Coding!forward_dct_4x4(x), Coding!forward_wht_4x4(x),
                         Coding!inverse_dct_4x4(x), Coding!inverse_wht_4x4(x),
                         Coding!inverse_dct_4x4_add_into(x, p)>>,
               lane |-> <<Coding!forward_dct_4x4_simd(x), Coding!forward_wht_4x4_simd(x),
                          Coding!inverse_dct_4x4_simd(x), Coding!inverse_wht_4x4_simd(x),
                          Coding!inverse_dct_4x4_add_into_simd(x, p)>>]
  /\ UNCHANGED walk

(* The interpolation filters on a halo of each size.                          *)
Interpolate ==
  /\ job = Idle
  /\ \E ref \in DOMAIN References, at \in Places, mx, my \in Fractions, f \in Filters, size \in {4, 8, 16} :
       LET plane == References[ref].y
           mv == [row |-> -8, col |-> 8]
           block == Inter!fetch_block_halo(plane, 16 * at.row, 16 * at.col, mv)
           luma == Inter!fetch_luma_mb_halo(plane, 16 * at.row, 16 * at.col, mv)
           chroma == Inter!fetch_chroma_mb_halo(plane, 8 * at.row, 8 * at.col, mv)
       IN job' = [kernel |-> "taps", mx |-> mx, my |-> my, filters |-> f, size |-> size,
                  out |-> CASE size = 4  -> Inter!sixtap_2d(block, mx, my, f)
                            [] size = 8  -> Inter!sixtap_mb_chroma(chroma, mx, my, f)
                            [] size = 16 -> Inter!sixtap_mb_luma(luma, mx, my, f),
                  lane |-> CASE size = 4  -> Inter!sixtap_2d_simd(block, mx, my, f)
                             [] size = 8  -> Inter!sixtap_mb_chroma_simd(chroma, mx, my, f)
                             [] size = 16 -> Inter!sixtap_mb_luma_simd(luma, mx, my, f)]
  /\ UNCHANGED walk

QuantizeBlock ==
  /\ job = Idle
  /\ \E x \in Blocks, spec \in Specs :
       job' = [kernel |-> "trellis", x |-> x, spec |-> spec,
               out |-> Picks!trellis_quantize_block(x, spec, BlockLength)]
  /\ UNCHANGED walk

MinSaving == 2 * BitCost[128]
FitProbability ==
  /\ job = Idle
  /\ \E n \in BranchCounts, p \in Defaults :
       job' = [kernel |-> "fit", n |-> n, p |-> p,
               out |-> Picks!fit_token_prob_update(n[1], n[2], p.old, p.update, MinSaving)]
  /\ UNCHANGED walk

PickMb ==
  /\ job = Idle
  /\ \E offer \in Offers : job' = [kernel |-> "pick", offer |-> offer, out |-> Picks!PickedMb(offer)]
  /\ UNCHANGED walk

EdgeKinds == {[simple |-> s, mb |-> m] : s, m \in BOOLEAN}
FilterRun ==
  /\ job = Idle
  /\ \E seg \in Runs, params \in FilterParams, kind \in EdgeKinds :
       job' = [kernel |-> "run", seg |-> seg, out |-> Deblock!FilteredRun(kind, params, seg),
               lane |-> Deblock!FilteredLane(kind, params, seg)]
  /\ UNCHANGED walk

(* A picture of macroblocks of size pixels, each at its level, its inner      *)
(* edges filtered or not; edge by edge, by both kinds of kernel.              *)
EdgesOf(plan) ==
  LET cols == References[1].y.w \div plan.size
      Of(index) ==
        LET mb == plan.mbs[index]
            params == Strength!derive(mb.level, plan.sharpness, FALSE)
            edges == Deblock!MacroblockEdges((index - 1) \div cols, (index - 1) % cols,
                                             plan.size, mb.inner, plan.simple)
        IN IF mb.level = 0 THEN <<>> ELSE [k \in DOMAIN edges |-> [edge |-> edges[k], params |-> params]]
  IN FlattenSeq([index \in DOMAIN plan.mbs |-> Of(index)])
StartFilter ==
  /\ job = Idle
  /\ \E plan \in Plans :
       job' = [kernel |-> "filter", plan |-> plan, left |-> EdgesOf(plan),
               scalar |-> References[1].y.px, lanes |-> References[1].y.px]
  /\ UNCHANGED walk
FilterEdge ==
  /\ Called("filter") /\ job.left # <<>>
  /\ LET next == Head(job.left)
     IN job' = [job EXCEPT !.left = Tail(@), !.scalar = Deblock!filter_edge(@, next.edge, next.params),
                           !.lanes = Deblock!filter_edge_simd(@, next.edge, next.params)]
  /\ UNCHANGED walk

SelectFilter ==
  /\ job = Idle
  /\ \E score \in Scores, sharpness \in {0, 3, 7} :
       job' = [kernel |-> "select", score |-> score, base |-> sharpness,
               out |-> Deblock!select_filter_params(score, sharpness)]
  /\ UNCHANGED walk

SubblockModes == {"dc", "tm", "ve", "he", "ld", "rd", "vr", "vl", "hd", "hu"}
PredictSubblock ==
  /\ job = Idle
  /\ \E nb \in Edges, mode \in SubblockModes :
       job' = [kernel |-> "subblock", nb |-> nb, mode |-> mode, out |-> Intra!predict_b4x4(mode, nb)]
  /\ UNCHANGED walk

(* An intra macroblock of a key frame: coded whole and in subblocks, and      *)
(* decoded from whichever is sent.  In an inter frame it is coded in one call.*)
Planes(src, at) ==
  LET Cut(n) == Intra!Square(n, LAMBDA r, c : src.px[n * at.row + r][n * at.col + c])
      Chroma(plane) == [src |-> Intra!InBlocks(Cut(8), 2),
                        above |-> Intra!AboveEdge(plane, 8, at.row, at.col),
                        left |-> Intra!LeftEdge(plane, 8, at.row, at.col),
                        topleft |-> Intra!TopLeft(plane, 8, at.row, at.col)]
  IN [nb |-> Intra!gather_neighbors(References[1].y, at.row, at.col),
      src |-> Intra!InBlocks(Cut(16), 4),
      u |-> Chroma(References[1].uv), v |-> Chroma(References[1].y)]
StartIntra ==
  /\ job = Idle
  /\ \E src \in DOMAIN Sources, at \in Places, factors \in Factors :
       LET in == Planes(Sources[src], at)
       IN job' = [kernel |-> "intra", in |-> in, factors |-> factors, coding |-> Intra!StartSubblocks(in.nb),
                  whole |-> Intra!pick_y16x16_mode(in.src, in.nb, factors),
                  uv |-> Intra!pick_uv8x8_mode(in.u, in.v, factors), mb |-> <<>>, next |-> 0, got |-> <<>>]
  /\ UNCHANGED walk
EncodeSubblock ==
  /\ Called("intra") /\ job.coding.next < 16
  /\ job' = [job EXCEPT !.coding = Intra!encode_bpred_luma(job.in.src, @, job.factors)]
  /\ UNCHANGED walk
EncodeMb ==
  /\ Called("intra") /\ job.coding.next = 16 /\ job.mb = <<>>
  /\ job' = [job EXCEPT !.mb = Intra!encode_mb_block_set(job.whole, job.coding, job.uv, job.factors),
                        !.got = Intra!build_bpred_work_buffer(job.in.nb)]
  /\ UNCHANGED walk
Received(mb, factors) ==
  LET Of(chroma) == Coding!decode_and_dequantize_mb([y |-> mb.y, y2 |-> mb.y2, uv |-> chroma], mb.y_mode # "b", factors)
      luma == Of(mb.u)
  IN [y |-> luma.y, y2 |-> luma.y2, u |-> luma.uv, v |-> Of(mb.v).uv]
Decoding == Called("intra") /\ job.mb # <<>> /\ job.next < 16
DecodeSubblock ==
  /\ Decoding /\ job.mb.y_mode = "b"
  /\ job' = [job EXCEPT !.next = @ + 1, !.got =
               Intra!decode_keyframe_mb_bpred(@, job.next, job.mb.modes[job.next], Intra!NothingToSend(job.mb),
                                           Received(job.mb, job.factors).y[job.next])]
  /\ UNCHANGED walk
DecodeMb ==
  /\ Decoding /\ job.mb.y_mode # "b"
  /\ job' = [job EXCEPT !.next = 16, !.got =
               Intra!DecodedWhole(job.in.nb, job.mb.y_mode, Intra!NothingToSend(job.mb),
                               Received(job.mb, job.factors))]
  /\ UNCHANGED walk
PickIntra ==
  /\ job = Idle
  /\ \E src \in DOMAIN Sources, at \in Places, factors \in Factors :
       LET in == Planes(Sources[src], at)
       IN job' = [kernel |-> "intrapick", in |-> in, factors |-> factors,
                  out |-> Intra!pick_intra_mb_all(in.src, in.nb, in.u, in.v, factors)]
  /\ UNCHANGED walk

Unfinished ==
  \/ Called("search") /\ job.phase # "done"
  \/ Called("filter") /\ job.left # <<>>
  \/ Called("anchor") /\ job.out = <<>>
  \/ Called("intra") /\ job.next < 16
Return == job.kernel \notin {"none", "walk"} /\ ~Unfinished /\ job' = Idle /\ UNCHANGED walk

-----------------------------------------------------------------------------
(* The intra walk, macroblock by macroblock: walk has the picture so far, the *)
(* macroblock's place and the next of its subblocks, and the buffer.          *)

Place(r, c) == 1000 * (r + 1) + c
Blank == [h |-> 16 * MbRows, w |-> 16 * MbCols,
          px |-> [r \in 0..16 * MbRows - 1 |-> [c \in 0..16 * MbCols - 1 |-> 0]]]
Nothing == [r \in 0..16 |-> [c \in 0..20 |-> 0]]
Walking == Called("walk")
Row == walk.index \div MbCols
Col == walk.index % MbCols

StartWalk == job = Idle /\ job' = [kernel |-> "walk"] /\ UNCHANGED walk
Gather ==
  /\ Walking /\ walk.next = -1 /\ walk.index < MbRows * MbCols
  /\ walk' = [walk EXCEPT !.next = 0,
                          !.buf = Intra!build_bpred_work_buffer(Intra!gather_neighbors(walk.plane, Row, Col))]
  /\ UNCHANGED job
CodeSubblock ==
  /\ Walking /\ walk.next \in 0..15
  /\ LET Px(r, c) == Place(16 * Row + 4 * (walk.next \div 4) + r, 16 * Col + 4 * (walk.next % 4) + c)
     IN walk' = [walk EXCEPT !.next = @ + 1,
                             !.buf = Intra!WithSubblock(@, walk.next, Intra!Square(4, Px))]
  /\ UNCHANGED job
Written(recon) ==
  walk' = [walk EXCEPT !.next = -1, !.buf = Nothing, !.index = @ + 1,
                       !.plane = Intra!write_mb(@, Row, Col, recon)]
WriteSubblocks ==
  /\ Walking /\ walk.next = 16
  /\ Written(Intra!ReconstructionArea(walk.buf))
  /\ UNCHANGED job
WriteWhole ==
  /\ Walking /\ walk.next = -1 /\ walk.index < MbRows * MbCols
  /\ LET Px(r, c) == Place(16 * Row + r, 16 * Col + c) IN Written(Intra!Square(16, Px))
  /\ UNCHANGED job
EndWalk ==
  /\ Walking /\ walk.index = MbRows * MbCols
  /\ job' = Idle
  /\ walk' = [index |-> 0, next |-> -1, buf |-> Nothing, plane |-> Blank]

Init == job = Idle /\ walk = [index |-> 0, next |-> -1, buf |-> Nothing, plane |-> Blank]
Next ==
  \/ PredictWhole \/ PredictSplit \/ SearchGroup
  \/ StartSearch \/ SearchRound \/ RefineHalf \/ RefineQuarter
  \/ StartAnchor \/ BlendBlock \/ ResolveAnchor
  \/ Interpolate \/ CodeBlocks \/ TransformBlock \/ PredictSubblock
  \/ QuantizeBlock \/ FitProbability \/ PickMb
  \/ FilterRun \/ StartFilter \/ FilterEdge \/ SelectFilter \/ Return
  \/ StartIntra \/ EncodeSubblock \/ EncodeMb \/ DecodeSubblock \/ DecodeMb \/ PickIntra
  \/ StartWalk \/ Gather \/ CodeSubblock \/ WriteSubblocks \/ WriteWhole \/ EndWalk
Spec == Init /\ [][Next]_vars
-----------------------------------------------------------------------------
(* What motion compensation promises: the plane goes on beyond its edges, and *)
(* every pixel is filtered along the row and then along the column.           *)
Extended(plane, r, c) ==
  plane.px[Inter!Clamp(r, 0, plane.h - 1)][Inter!Clamp(c, 0, plane.w - 1)]
Filtered(plane, row, col, mv, filters) ==
  LET Across(r) == Inter!interp(filters[(mv.col % 8) + 1],
                     [k \in 1..6 |-> Extended(plane, r, col + (mv.col \div 8) + k - 3)])
  IN Inter!interp(filters[(mv.row % 8) + 1], [k \in 1..6 |-> Across(row + (mv.row \div 8) + k - 3)])
Eighths(mv, full) == LET twice == Inter!stored_luma_mv(mv) IN Inter!FullPixelOf(twice, full)

(* Whichever path a block is fetched on and whichever passes are left out,    *)
(* a predicted luma pixel is the filtered pixel of the extended plane; and a  *)
(* macroblock split into sixteen equal vectors is predicted like a whole one, *)
(* chroma included, as long as doubling the vector does not wrap.  Where the  *)
(* predictor for whole vectors accepts one, it predicts the same.             *)
(* motion_comp.rs: fetch_*, sixtap_identity_elide, predict_split_mv.          *)
PredictionMatchesDefinition ==
  /\ Called("whole") =>
       /\ \A r, c \in 0..15 :
            job.out.y[r][c] = Filtered(References[job.ref].y, 16 * job.at.row + r, 16 * job.at.col + c,
                                          Eighths(job.mv, job.full), job.filters)
       /\ LET whole == Inter!predict_inter_mb_whole_pixel(References[job.ref], job.at, job.mv, job.full)
          IN whole # <<>> => whole = job.out
  /\ Called("split") =>
       /\ \A r, c \in 0..15 :
            job.out.y[r][c] = Filtered(References[job.ref].y, 16 * job.at.row + r, 16 * job.at.col + c,
                                       Eighths(job.mvs[4 * (r \div 4) + (c \div 4)], FALSE), job.filters)
       /\ LET mv == job.mvs[0]
          IN (\A k \in 0..15 : job.mvs[k] = mv) /\ Inter!stored_luma_mv(mv).row = 2 * mv.row
                /\ Inter!stored_luma_mv(mv).col = 2 * mv.col
             => job.out.uv = Inter!predict_inter_mb(References[job.ref], job.at, mv, FALSE, job.filters).uv

(* A search reports the difference its vector will really leave once the      *)
(* macroblock is predicted with it, never a worse one than where it started,  *)
(* and stays within the vectors the stream can carry; a diamond search for a  *)
(* macroblock ends on whole pixels.  The search for a group measures what the *)
(* prediction will be wherever it ends on whole pixels.  The search that      *)
(* aligns a frame with an anchor measures the pixels it then blends, although *)
(* it gives candidates up half way, and ends on the best of its last round; a *)
(* pixel of the anchor, chroma included, takes one weighted share of every    *)
(* frame whose block there was like enough, and ends within their range.      *)
(* motion_search.rs, encoder.rs group_small_diamond_search, arnr.rs.          *)
Legal(mv) == mv.row \in -1023..1023 /\ mv.col \in -1023..1023
WholePixel(mv) == mv.row % 4 = 0 /\ mv.col % 4 = 0
Left(ref, src, at, mv, blocks) ==
  LET pred == Inter!PredictedLuma(References[ref].y, 16 * at.row, 16 * at.col,
                                  Inter!stored_luma_mv(mv), Inter!SixtapFilters)
  IN Search!Sad(blocks, LAMBDA r, c : Sources[src].px[16 * at.row + r][16 * at.col + c],
                        LAMBDA r, c : pred[r][c])
Displaced(plane, r, c, mv) == Extended(plane, r + mv.row, c + mv.col)
BlockDifference(ctr, other, blk, mv) ==
  Search!SumBelow(blk.h, LAMBDA r : Search!SumBelow(blk.w, LAMBDA c :
    Search!Difference(ctr.px[blk.row + r][blk.col + c], Displaced(other, blk.row + r, blk.col + c, mv))))
Around(mv) == {[row |-> mv.row + dr, col |-> mv.col + dc] : dr, dc \in -1..1}
MeasuresAlignment(ctr, other, blk, found) ==
  /\ \A v \in {found.mv.row, found.mv.col} : Search!Difference(v, 0) < 2 * Steps[1]
  /\ found.sad = BlockDifference(ctr, other, blk, found.mv)
  /\ found.sad <= BlockDifference(ctr, other, blk, [row |-> 0, col |-> 0])
  /\ \E last \in Around(found.mv) : \A mv \in Around(last) :
       Search!InReach(mv, Steps) => found.sad <= BlockDifference(ctr, other, blk, mv)
(* The shares of one pixel: those aligned with the block its place is in.     *)
Shares(name, scale, r, c) ==
  LET Covers(l) == /\ scale * r \in l.blk.row..l.blk.row + l.blk.h - 1
                   /\ scale * c \in l.blk.col..l.blk.col + l.blk.w - 1
      Halved(v) == IF scale = 1 THEN v ELSE Search!TowardsZero(v)
      Pixel(l) == Displaced(Windows[job.win][l.frame][name], r, c,
                            [row |-> Halved(l.found.mv.row), col |-> Halved(l.found.mv.col)])
      used == SelectSeq(job.log, LAMBDA l : Search!Matches(l.blk, l.found) /\ Covers(l))
  IN [k \in DOMAIN used |-> Pixel(used[k])]
TakesItsShares(ctr, out, acc, r, c, shares) ==
  LET pixels == {ctr.px[r][c]} \cup {shares[k] : k \in DOMAIN shares}
      table == Search!weight_table(job.strength)
  IN /\ acc[r][c].weight = 16 + FoldLeft(LAMBDA w, px : w + table[Search!Difference(px, ctr.px[r][c])], 0, shares)
     /\ out.px[r][c] \in Min(pixels)..Max(pixels)
AnchorTakesItsShares ==
  /\ \A k \in DOMAIN job.log :
       LET l == job.log[k] IN MeasuresAlignment(Center.y, Windows[job.win][l.frame].y, l.blk, l.found)
  /\ job.out # <<>> =>
       \A name \in {"y", "u", "v"} : \A r \in DOMAIN Center[name].px : \A c \in DOMAIN Center[name].px[r] :
         TakesItsShares(Center[name], job.out[name], job.acc[name], r, c,
                        Shares(name, IF name = "y" THEN 1 ELSE 2, r, c))
SearchMeasuresPrediction ==
  /\ Called("anchor") => AnchorTakesItsShares
  /\ Called("search") =>
       /\ Legal(job.best.mv)
       /\ job.phase \in {"whole", "half"} => WholePixel(job.best.mv)
       /\ job.best.sad = Left(job.ref, job.src, job.at, job.best.mv, 0..15)
       /\ job.best.sad <= Left(job.ref, job.src, job.at, Search!OnGrid(job.start), 0..15)
  /\ Called("group") =>
       /\ Legal(job.out.mv)
       /\ WholePixel(job.out.mv) =>
            job.out.sad = Left(job.ref, job.src, job.at, job.out.mv, job.blocks)

(* The encoder reconstructs what the decoder will: the blocks it keeps as the *)
(* next reference are those that come out of the decoder's own dequantiser    *)
(* and inverse transforms, whether the decoder takes the shortcut for blocks  *)
(* with only a DC (as it does in inter macroblocks and in chroma) or not (as  *)
(* in luma of intra ones), and a macroblock whose levels are all 0 can be     *)
(* sent as skipped.  With the finest steps the result is the source, but for  *)
(* the rounding of the transforms.  Subblocks that are predicted from each    *)
(* other decode, one after the other, to the pixels the encoder went on from, *)
(* and an intra macroblock of an inter frame leaves the pixels that the key   *)
(* frame's encoder would.                                                     *)
(* encoder.rs reconstruct_whole_block_luma, reconstruct_chroma_plane,         *)
(* encode_bpred_luma, score_intra_mb_candidate; reconstruct.rs                *)
(* decode_keyframe_mb_non_bpred, decode_keyframe_mb_bpred; motion_comp.rs     *)
(* reconstruct_inter_mb, reconstruct_split_mv_mb; inverse_transform.rs.       *)
AllZero(quant) ==
  \A k \in 0..15 : /\ quant.y2[k] = 0
                   /\ \A b \in 0..15 : quant.y[b][k] = 0
                   /\ \A b \in 0..3 : quant.uv[b][k] = 0
Finest(factors) == factors.y1.ac <= 4 /\ factors.y2.ac <= 8
RoundingError == 4
CloseTo(px, pred, residual) ==
  \A b \in DOMAIN px, k \in 0..15 :
    Search!Difference(px[b][k], Coding!clamp255(pred[b][k] + residual[b][k])) <= RoundingError
DecodedLuma == IF job.mb.y_mode = "b" THEN Intra!InBlocks(Intra!ReconstructionArea(job.got), 4) ELSE job.got
KeptLuma ==
  IF job.mb.y_mode = "b" THEN Intra!InBlocks(Intra!ReconstructionArea(job.coding.buf), 4) ELSE job.whole.recon
IntraReconstructionAgrees ==
  /\ Called("intra") /\ job.next > 0 =>
       LET sent == Received(job.mb, job.factors)
           Decoded(plane, coeffs) == Intra!DecodedChroma(plane, job.mb.uv_mode, Intra!NothingToSend(job.mb), coeffs)
       IN /\ \A b \in 0..job.next - 1 : DecodedLuma[b] = KeptLuma[b]
          /\ job.uv.recon = [u |-> Decoded(job.in.u, sent.u), v |-> Decoded(job.in.v, sent.v)]
  /\ Called("intrapick") =>
       job.out.recon = [y |-> Intra!WholeLuma(job.in.src, job.in.nb, job.out.mb.y_mode, job.factors).recon,
                        u |-> Intra!ChromaPlane(job.in.u, job.out.mb.uv_mode, job.factors).recon,
                        v |-> Intra!ChromaPlane(job.in.v, job.out.mb.uv_mode, job.factors).recon]
CodedAsKept ==
  Called("code") =>
    \A coeffs \in {Coding!decode_and_dequantize_mb(job.whole.raw, TRUE, job.factors)} :
    \A apart \in {Coding!decode_and_dequantize_mb(job.split.raw, FALSE, job.factors)} :
    \A sent \in {Coding!reconstruct_inter_mb(job.pred, AllZero(job.whole.raw), coeffs)} :
    \A split \in {Coding!reconstruct_split_mv_mb(job.pred, AllZero(job.split.raw), apart)} :
       /\ job.kept = sent /\ job.whole.recon = sent /\ job.split.recon = split
       /\ job.whole.skip = AllZero(job.whole.raw) /\ job.split.skip = AllZero(job.split.raw)
       /\ Coding!decode_keyframe_mb_non_bpred(job.pred.y, AllZero(job.whole.raw), coeffs) = sent.y
       /\ \A b \in 0..15 :
            split.y[b] = Coding!reconstruct_block_4x4(job.pred.y[b], job.split.raw.y[b], job.factors.y1)
       /\ split.uv = sent.uv
       /\ Finest(job.factors) =>
            CloseTo(sent.y, job.pred.y, job.residual) /\ CloseTo(split.y, job.pred.y, job.residual)

ReconstructionAgrees == CodedAsKept /\ IntraReconstructionAgrees

(* No choice of levels among the candidates is cheaper than the one the       *)
(* trellis makes, although it keeps only one way to reach each context.       *)
(* encoder.rs trellis_quantize_block.                                         *)
Priced(x, spec, levels) ==
  LET coded == {k \in spec.first..BlockLength - 1 : levels[k] # 0}
      last == IF coded = {} THEN spec.first - 1 ELSE Max(coded)
      Ctx(k) == IF k = spec.first THEN spec.entry ELSE Picks!level_ctx3(levels[k - 1])
      AfterZero(k) == k > spec.first /\ levels[k - 1] = 0
      bits == MapThenSumSet(LAMBDA k : Rate(k, Ctx(k), AfterZero(k), levels[k]), spec.first..last)
              + (IF last + 1 < BlockLength THEN Eob(last + 1, Ctx(last + 1)) ELSE 0)
  IN spec.lambda * bits
     + MapThenSumSet(LAMBDA k : Picks!Distortion(x, spec, k, levels[k]), spec.first..BlockLength - 1)
LevelChoices(x, spec) ==
  {l \in [0..BlockLength - 1 -> 0..8] :
     \A k \in 0..BlockLength - 1 :
       l[k] \in IF k < spec.first THEN {0} ELSE Picks!Candidates(x, spec, k)}
TrellisIsCheapest ==
  Called("trellis") /\ job.spec.lambda > 0 =>
    LET kept == [k \in 0..BlockLength - 1 |-> Picks!Magnitude(job.out[k])]
    IN \A other \in LevelChoices(job.x, job.spec) : Priced(job.x, job.spec, kept) <= Priced(job.x, job.spec, other)

(* What a macroblock is coded as costs no more than any whole mode of any     *)
(* reference, and no more than intra where that is allowed.                   *)
(* encoder.rs pick_mb_for_ref and its caller.                                 *)
PickIsCheapest ==
  Called("pick") =>
    LET offer == job.offer
        Whole(ref, m) == offer.of[ref].whole[m] + offer.of[ref].ref_bits
        inter == IF job.out.ref = "intra" THEN offer.intra + offer.intra_bits - offer.inter_bits
                 ELSE job.out.total
    IN /\ \A ref \in {offer.refs[i] : i \in DOMAIN offer.refs} :
            \A m \in DOMAIN offer.of[ref].whole : inter <= Whole(ref, m)
       /\ offer.pick_intra /\ job.out.ref # "intra" =>
            job.out.total + offer.inter_bits <= offer.intra + offer.intra_bits

(* No update of a position of the token table would save more than the        *)
(* fitter's choice does, but for the saving it holds too small and the        *)
(* rounding to a byte.                                                        *)
(* encoder.rs fit_token_prob_updates.                                         *)
SentBits(n, p, update) ==
  IF update = <<>> THEN Picks!BodyBits(n[1], n[2], p.old)
  ELSE Picks!BodyBits(n[1], n[2], update[1]) + Picks!UpdateBits(p.update)
RoundingBits(n) == 4 * (n[1] + n[2])
FitIsCheapest ==
  Called("fit") =>
    /\ SentBits(job.n, job.p, job.out) <= SentBits(job.n, job.p, <<>>)
    /\ \A prob \in 1..255 :
         SentBits(job.n, job.p, job.out)
           <= SentBits(job.n, job.p, <<prob>>) + MinSaving + RoundingBits(job.n)

(* The level and sharpness chosen never do worse than leaving the picture     *)
(* alone, and the level is the best there is for a curve with one valley.     *)
(* loop_filter.rs select_filter_params.                                       *)
OneValley(curve) ==
  \E m \in 0..63 : \A l \in 0..62 : IF l < m THEN curve[l] > curve[l + 1] ELSE curve[l] < curve[l + 1]
FilterIsWorthIt ==
  Called("select") =>
    LET curve == [l \in 0..63 |-> job.score[l, job.base]]
    IN /\ job.score[job.out.level, job.out.sharpness] <= job.score[0, 0]
       /\ OneValley(curve) => \A l \in 0..63 : curve[job.out.level] <= curve[l]
       /\ \A s \in 0..7 : job.score[job.out.level, job.out.sharpness] <= job.score[job.out.level, s]

(* The price an intra macroblock is picked for is the error its decoded       *)
(* pixels really have and the bits of what is really sent, and no whole mode  *)
(* has a lower one.                                                           *)
(* encoder.rs encode_mb_block_set, encode_bpred_luma, pick_y16x16_mode.       *)
SentLumaBits(mb) ==
  YModeBits(mb.y_mode)
  + (IF mb.y_mode # "b" THEN Intra!estimate_whole_block_luma_bits(mb)
     ELSE MapThenSumSet(LAMBDA b :
            TokenBits("YNoY2", Intra!ContextIn(mb.y, b, 4, 0), mb.y[b])
            + SubblockModeBits(Intra!AboveMode(mb.modes, b), Intra!LeftMode(mb.modes, b), mb.modes[b]), 0..15))
IntraIsCheapest ==
  Called("intra") /\ job.next = 16 =>
    /\ job.mb.cost = Intra!Cost(Intra!Distortion(DecodedLuma, job.in.src, 16), SentLumaBits(job.mb), job.factors)
    /\ \A mode \in {"dc", "v", "h", "tm"} :
         job.mb.cost <= Intra!WholeLuma(job.in.src, job.in.nb, mode, job.factors).cost
ChoicesAreCheapest ==
  TrellisIsCheapest /\ FitIsCheapest /\ PickIsCheapest /\ FilterIsWorthIt /\ IntraIsCheapest

(* The kernels written for several pixels at a time do what the plain ones    *)
(* do, in every lane and over a whole picture filtered in the plain order;    *)
(* and a pixel changes only if it is within three of the border of a filtered *)
(* macroblock or two of an edge inside one (one, for the simple filter).      *)
(* loop_filter.rs filter_v_edge_normal and its siblings, motion_comp.rs       *)
(* sixtap_identity_elide and sixtap_2d_simd, the transforms and dequantiser,  *)
(* predict_tm_simd.                                                           *)
Reached(plan, r, c) ==
  LET cols == References[1].y.w \div plan.size
      Mb(y, x) == plan.mbs[y * cols + x + 1]
      reach == [mb |-> IF plan.simple THEN 1 ELSE 3, inner |-> IF plan.simple THEN 1 ELSE 2]
      \* From edge at p, pixels p - n .. p + n - 1 are within n.
      Near(at, p, n) == at \in p - n..p + n - 1
      Within(y, x, down) ==
        LET at == (IF down THEN c - plan.size * x ELSE r - plan.size * y)
        IN /\ Mb(y, x).level # 0
           /\ \/ (IF down THEN x > 0 ELSE y > 0) /\ Near(at, 0, reach.mb)
              \/ Mb(y, x).inner /\ \E q \in 1..plan.size \div 4 - 1 : Near(at, 4 * q, reach.inner)
      rows == Len(plan.mbs) \div cols
      y == r \div plan.size
      x == c \div plan.size
  IN \/ Within(y, x, TRUE) \/ Within(y, x, FALSE)
     \/ x + 1 < cols /\ Within(y, x + 1, TRUE)
     \/ y + 1 < rows /\ Within(y + 1, x, FALSE)
LanesMatchScalars ==
  /\ job.kernel \in {"run", "taps", "transform"} => job.lane = job.out
  /\ Called("code") =>
       /\ \A b \in 0..15 : Coding!dequant_block_simd(job.whole.raw.y[b], job.factors.y1)
                             = Coding!dequant_block(job.whole.raw.y[b], job.factors.y1)
       /\ Coding!decode_and_dequantize_mb(job.whole.raw, TRUE, job.factors) = Coding!dequantize_mb(job.whole.raw, job.factors)
       /\ Coding!decode_and_dequantize_mb(job.split.raw, FALSE, job.factors) = Coding!dequantize_mb(job.split.raw, job.factors)
  /\ Called("intrapick") =>
       LET nb == job.in.nb
           above == Intra!OrElse(nb.above, 16, 127)
           left == Intra!OrElse(nb.left, 16, 129)
       IN Intra!predict_tm_simd(16, above, left, nb.topleft)
            = Intra!PredictWhole(16, "tm", nb.above, nb.left, nb.topleft)
  /\ Called("filter") => job.lanes = job.scalar
  /\ Called("filter") /\ job.left = <<>> =>
       \A r, c \in 0..31 : job.scalar[r][c] # References[1].y.px[r][c] => Reached(job.plan, r, c)

(* Every pixel a predictor is given is the decoded pixel at that place of the *)
(* picture, or the constant for a place above or to the left of it; the four  *)
(* pixels above and to the right of the last column of subblocks are those of *)
(* the row above the macroblock, whose last pixel stands in at the right edge *)
(* of the picture.  The encoder's buffer is the decoder's.                    *)
(* frame.rs gather_neighbors, reconstruct.rs build_bpred_work_buffer.         *)
At(r, c) == IF r < 0 THEN 127 ELSE IF c < 0 THEN 129 ELSE Place(r, c)
AboveMacroblock(k) ==
  IF Row > 0 /\ Col = MbCols - 1 THEN At(16 * Row - 1, 16 * Col + 15) ELSE At(16 * Row - 1, 16 * Col + 16 + k)
PixelsAreDecodedNeighbours ==
  /\ Walking /\ walk.next \in 0..15 =>
       LET y == 16 * Row + 4 * (walk.next \div 4)
           x == 16 * Col + 4 * (walk.next % 4)
           nb == Intra!SubblockNeighbors(walk.buf, walk.next)
       IN /\ nb.topleft = At(y - 1, x - 1)
          /\ \A r \in 0..3 : nb.left[r] = At(y + r, x - 1)
          /\ \A k \in 0..3 : nb.above[k] = At(y - 1, x + k)
          /\ \A k \in 4..7 : nb.above[k] = IF walk.next % 4 = 3 THEN AboveMacroblock(k - 4) ELSE At(y - 1, x + k)
  /\ Walking /\ walk.next = 0 =>
       walk.buf = Intra!build_enc_bpred_buffer(Intra!gather_neighbors(walk.plane, Row, Col))
  /\ Walking /\ walk.next = -1 /\ walk.index < MbRows * MbCols =>
       LET nb == Intra!gather_neighbors(walk.plane, Row, Col)
           above == Intra!OrElse(nb.above, 16, 127)
           left == Intra!OrElse(nb.left, 16, 129)
       IN \A k \in 0..15 : above[k] = At(16 * Row - 1, 16 * Col + k) /\ left[k] = At(16 * Row + k, 16 * Col - 1)

(* Directions come in pairs: with the neighbours mirrored about the diagonal, *)
(* and nothing new to the right of those above, a mode predicts the mirror    *)
(* image of what its partner does.  Only three modes look to the right at     *)
(* all, and none leaves the range of its neighbours but true motion.          *)
(* intra_predict.rs predict_b4x4.                                             *)
Partner == [dc |-> "dc", tm |-> "tm", ve |-> "he", he |-> "ve", rd |-> "rd", vr |-> "hd", hd |-> "vr",
            vl |-> "hu", hu |-> "vl"]
Repeated(nb) == [nb EXCEPT !.above = [k \in 0..7 |-> @[Inter!AtMost(k, 3)]]]
Mirrored(nb) == [topleft |-> nb.topleft, left |-> [k \in 0..3 |-> nb.above[k]],
                 above |-> [k \in 0..7 |-> nb.left[Inter!AtMost(k, 3)]]]
DirectionsMirror ==
  Called("subblock") =>
    /\ job.mode # "ld" =>
         LET here == Intra!predict_b4x4(job.mode, Repeated(job.nb))
             there == Intra!predict_b4x4(Partner[job.mode], Mirrored(job.nb))
         IN \A r, c \in 0..3 : here[r][c] = there[c][r]
    /\ job.mode \notin {"ve", "ld", "vl"} => job.out = Intra!predict_b4x4(job.mode, Repeated(job.nb))
    /\ job.mode # "tm" =>
         LET near == {job.nb.topleft} \cup {job.nb.above[k] : k \in 0..7} \cup {job.nb.left[k] : k \in 0..3}
         IN \A r, c \in 0..3 : job.out[r][c] \in Min(near)..Max(near)
=============================================================================
