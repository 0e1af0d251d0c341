# Verification of oxideav-vp8

oxideav-vp8 is a VP8 video codec (RFC 6386) in Rust: a decoder that carries
state from frame to frame, stream encoders that mirror that state, the coding
of a frame at both ends, and adapters that put all of it behind the
send/receive interface of the `oxideav` framework. Nothing in it runs
concurrently. Two things make it hard. *State outlives a call*: VP8 predicts
each frame from three reference pictures and a set of adaptive tables. And
*everything is written twice*: what the encoder codes, in which context and
from which pixels, the decoder has to find again by code of its own. Where two
ends disagree the result is a wrong picture without an error. This project
models that state, and both sides of what is written twice.

Paths below are relative to the repository (`src/state.rs` is
`src/src/state.rs` in `PROJECT.json`).

## 1. Inventory

| Part | State it keeps | Operations | What makes it correct |
|---|---|---|---|
| `state.rs` `rotate_reference_slots` | three slots, by-value sources during a call | one call per interframe | same result as the staged reference; no use after move; fewest copies |
| `state.rs` `Vp8DecoderState` | slots, token / MV / intra tables, sign biases, loop-filter deltas, visible format, `last_frame_shown`, pixel cap | `decode_frame` | a failed call changes nothing; tables are those of the last kept update; slots always match the format |
| `decoder.rs` `Vp8Decoder` (adapter) | packet queue, `eof`, `shape`, `generation`, `held` | `send_packet`, `receive_frame`, `flush`, `reset`, `output_params` | packets answered once and in order; a new shape is announced before its picture; flush drains to `Eof` |
| `stream.rs` `Vp8InterStreamEncoder`, `Vp8KeyframeStreamEncoder` | dimensions, frame count, last key frame, slots, carried deltas, P-frame count | `encode_frame*`, `encode_p_frame_with_refresh*`, previews | the mirror equals the decoder's state however the entry points are mixed |
| `stream.rs` `Vp8AltrefStreamEncoder` | lookahead group, its start and key flag, frame count, slots | `push_frame`, `finish` | no source frame lost or reordered; key frames and cuts close groups; anchors and promotions mirrored |
| `encoder.rs` `Vp8LaggedEncoder`, `Vp8FrameEncoder` (adapters) | times queue, packet queue, `eof`, the stream wrapped | `send_frame`, `receive_packet`, `flush`, `reconfigure_target` | times and pixels stay with their frames across lag, strides, resizes and the drain |
| `encoder.rs` `Vp8TwoPassEncoder`, rate control | per-frame statistics, byte account, base index, last reconstruction | study a clip, encode its frames | the packets stay a chain; a clip comes out within its bytes |
| `bool_decoder.rs`, `BoolEncoder` in `encoder.rs` | range coder state | read / write a bool | decoding inverts encoding, carries propagate, the tail is long enough |
| `coded_header.rs`, `frame_header.rs`, `frame_tag.rs`, partition carving in `decoder.rs` | none outside a call | parse, carve, and their writers in `encoder.rs` | field order, errors, slices that tile the packet |
| `near_mv.rs`, `motion_vector.rs`, `dct_tokens.rs`, the walks of `encoder.rs` and `state.rs` | neighbour records of one frame | pick, write modes, write tokens, count, parse | every walk finds the same context for every symbol |
| `loop_filter.rs` | none | levels, thresholds, edges | both ends filter the same edges alike |
| `dequant.rs`, transforms, `reconstruct.rs`, `motion_comp.rs`, `intra_predict.rs` | none | pixel arithmetic | the encoder's picture is the decoder's; lanes equal plain code |
| `motion_search.rs`, `arnr.rs`, choices in `encoder.rs` | none | searches, trellis, fitters | a cost belongs to the candidate that is coded; no dearer one is kept |
| `ivf.rs`; `lib.rs`, `registry.rs`, `error.rs` | none | container; surface | not modelled (section 8) |

How they interact: the decoder adapter calls the decoder state and reads back
its format and `last_frame_shown`; the decoder state calls the parsers, walks
the macroblocks and rotates the slots; the stream encoders hold their own copy
of slots and deltas and emit bytes that a decoder state will consume later;
they call the frame writers, which pick, write and rebuild macroblocks with
code that mirrors the decoder's; the lagged adapter owns an altref stream
encoder and replaces it on a resize. All calls are synchronous; the only
"messages" are the coded frames, and the only failures are errors returned
from the middle of a call.

Hard behaviours: long legal sequences of calls that end in a wrong state
(mixed entry points, resets between an event and its picture), one step of
several failing, state cached and used later, order of moves, contexts kept
apart in several walks, arithmetic at the ends of its ranges. Each is listed
at its line under `hazards` in `PROJECT.json`, with the properties that watch
it.

## 2. Modules

```
state across frames
  RefSlots ----+-- SlotLadder        abstract: the test's staged rotation
               +-- RefRotation       the moves            => SlotLadder
               +-- FrameHeader --+-- DecoderState         => SlotLadder, DecoderContract
                                 +-- StreamPeer --+-- InterStreamEncoder
                                                  +-- AltrefStreamEncoder => AltrefContract
  DecoderContract  abstract: accept or refuse a frame
    +-- DecoderAdapter
  AltrefContract   abstract: whole groups, in order
    +-- EncoderAdapters
  TwoPassEncoder

one frame at both ends
  HeaderSyntax, PartitionCarving ---------------------- FrameLayout
  CodedPartition
  MotionVectors, ResidualContexts, LoopFilterLevels --- MacroblockLayer
  Pixels --+-- InterPrediction --- MotionSearch --+
           +-- Transforms, LoopFilterPixels ------+---- Kernels
           +-- IntraMacroblocks ------------------+
  EncoderChoices ---------------------------------+

*_proofs                                          theorems
MC*                                               instances for TLC
```

### State across frames

**RefSlots** holds the selection part of the rotation: the refresh fields of a
header, the source each slot resolves to, and the slots afterwards. Copy codes
are kept as numbers, 3 included, because the decoder accepts 3 and treats it
as "no copy".

**RefRotation** takes `rotate_reference_slots` apart. `Call` takes the slots
out of the decoder, `TakeFor` fills one destination (LAST, GOLDEN, ALTREF in
that order) and clones or moves depending on `sources[which+1..].contains`,
`Return` puts the slots back. Empty slots are pictures of their own
(`NoPicture`), as `Option::None` is. **SlotLadder** is
`clone_everything_reference` of the repository's test, between a request that
names the picture and the refresh fields and its answer: the implementation
must rotate by exactly what it was given, or not at all.

**FrameHeader** is a coded frame reduced to what outlives it: one optional
entry per table position, the delta updates, the refresh fields, the key-frame
format, and the first place where its bytes are broken. Table positions are
abstract cells: the code treats each position alike.

**DecoderState** has one variable per carried field. `Call` hands over a
frame. A key frame is refused (`RefuseKeyFrame`) or decoded and committed in
one step (`DecodeKeyFrame`): nothing is assigned before the last call that
can fail. An interframe is refused (`RefuseInterFrame`) or starts
(`StartInterFrame`), then decodes one macroblock per step
(`DecodeIntraMacroblock`, `DecodeInterMacroblock`, `FailMacroblock`), then
commits (`CommitInterFrame`). A picture is the position of its frame since the
key frame and the macroblock grid it covers. **DecoderContract** is that
decoder seen by the adapter: the frame it was given is accepted as a whole
(`AcceptFrame`) or refused without a trace.

**DecoderAdapter** has one action per exit of each method. `receive_frame` is
a loop; `StartReceive` enters it and each packet is one step until an answer.
While it runs no other call can, which is what `&mut self` gives. Decoding is
`DecoderContract`'s `AcceptFrame`.

**StreamPeer** is one coded frame at both ends: what the encoder writes and
coded it against (`CodedKey`, `CodedInter`), and what the decoder does with it
(`DecodeNext`). A frame decoded against anything else yields the picture
`Drifted`, and drift propagates through the slots as it does in the code.
The decoder side uses the header operators of DecoderState.

**InterStreamEncoder** has an action per group of entry points:
`EncodeFrame` (plain and forced), `EncodeFrameVariant` (intra-pick and
fitted), `EncodePFrameWithRefresh` (the seven manual variants), and the
refusals. Its key-frame path is all of `Vp8KeyframeStreamEncoder`.
**AltrefStreamEncoder** splits `push_frame` and `finish` into the steps of
`flush_group` (key, anchor, interframes), because each may fail with the slots
already moved; `AltrefContract` is what is left seen from outside. Anchors
carry no `source_index` in the code; in the model they carry that of the last
frame of their group, which is where they are made from.

**EncoderAdapters** is both framework adapters under one caller, the lagged
one over `AltrefContract`, the immediate one over a key frame per call. Frames
are numbered, and the time a frame carries is its number, so a packet with a
foreign time is visible as `pts # frame`. `send_frame` takes the planes as
offset and stride: what it refuses and what it packs are those of the code, on
`MaxUsize`-wide arithmetic.

**TwoPassEncoder** is the caller's session: study a clip with the encoder's
own first pass or the free function, then code its frames, some of which are
refused. It holds the code's choices in whole numbers: logarithms are cut,
ratios are in hundredths, `Shrink` tabulates (reference step / step)^γ, and
`Coded` gives the bytes a frame may come out as. Sums over the frames of a clip
are recursive functions (`Running`), the solver's seven rounds of bisection are
another (`Bisected`). `encode_sequence` is a loop over the same calls.

### One frame at both ends

**CodedPartition** is what the entropy coder is given, and the coder. The
encoder's 32-bit `bottom` is a high byte and 24 low bits, so that every value
stays within TLC's integers; `AddOneToOutput` is the carry that runs back
through bytes already written. An element is a flag, a literal, an optional or
a signed field, a motion vector component, a block of coefficients, or a
macroblock's modes. Modes have the code's trees and probability tables; the
writers that spell a code out by hand (`InterModeCode`,
`write_split_mv_partition`, `write_submv_ref`) stand beside the readers that
walk the tree or nest their questions (`select_ref_frame`, `read_segment_id`),
and beside the prices the encoder's choices use (`treed_bits_cached`,
`mv_partition_bits`). `WriteNextBool`, `FinishPartition`, `ReadNextBool` (which
may find the bytes exhausted) and `ReturnValue` join the ends; the fitter's
branch counts are taken beside the writer.

**HeaderSyntax** is the sequence of fields each of the encoder's four entry
points writes. **PartitionCarving** is `carve_dct_partitions`, one size per
step, saturating and checking where it does. **FrameLayout** puts a frame
together (`WriteKeyframe`, `WriteAdaptive`, `WriteInter`, `WriteSilent`, or a
foreign writer's), cuts bytes off its end, and reads it back a group of fields
per action, then its rows of macroblocks from their partitions. What the fields
were is said apart from how they were written: `Meant` gives the fields of a
call, `Layout` the one order in which RFC 6386 lays fields out.

**MotionVectors**, **ResidualContexts** and **LoopFilterLevels** hold census,
clamping and split layouts; the order and contexts of residual blocks; and
levels, thresholds and which edges are filtered. **MacroblockLayer** runs them
in a frame: the encoder picks (`PickKeyMb`, `PickAdaptiveKeyMb` or
`PickInterMb`), filters (`FilterKeyPicture`, `FilterInterPicture`), writes the
header, the modes (`WriteModes`) and the tokens (`WriteTokens`, counted by
`BranchCounts`) and assembles the packet; the decoder carves it and parses,
mode records before residuals in a key frame (`ParseKeyMode`,
`ReadKeyResidual`), both at once in an interframe (`DecodeInterMb`).
Each walk keeps neighbour records of its own, as in the code. A coded symbol
is its context and its value: read in any other context it means nothing. What
pictures decide, which candidate is cheapest, which blocks are empty, comes
from the frame's menu. `MenusAssumption` says which frames an encoder may
be asked for: at least one macroblock and one partition, 16-bit vectors, a
sub-mode for every group of a split, levels of segments only with segments, no
filter deltas in a key frame.

**Pixels** holds planes and blocks. **InterPrediction** is six-tap and
bilinear motion compensation with its three fetch paths, the chroma vectors and
splits; **Transforms** the transforms, quantisers and their indices, and
reconstruction; **LoopFilterPixels** the filters at a pixel edge, plain and
in lanes; **IntraMacroblocks** gathering neighbours, the ten modes, the
encoder's coding of intra macroblocks and the decoder's rebuilding;
**MotionSearch** the four searches and the temporal filter; **EncoderChoices**
the trellis, the probability fitter, the choice among codings, the filter
level. **Kernels** gives each an action: one call on an input of its own,
or one step of it where the call is a search or a walk over a picture.

Left out throughout: the wording of errors, and allocation.

## 3. Runs

| Run | Question | Bounds |
|---|---|---|
| `decoder_state` | Is the carried state right after any sequence of frames? | a key frame and up to 3 more kept in the log; two sizes (1 and 2 macroblocks), one zero size, one above the cap; each kind of update; each kind of broken frame |
| `decoder_adapter` | Are packets, events and Eof right? | 4 packets of 10 kinds, any calls between |
| `inter_stream` | Do encoder and decoder stay in step? | 4 frames, key interval 3, golden interval 2, 2 in flight |
| `altref_stream` | Are groups, anchors and promotions right? | 6 source frames, window 3, key interval 4, cuts anywhere, one failing frame |
| `altref_failure` | Is every packet decodable? *(violated)* | same |
| `encoder_adapters` | Do times and pixels stay with their frames? | 6 frames, window 3, two resizes, one failing call; two widths, strides from narrower than a row to overflowing |
| `two_pass` | Is the output a chain, within its bytes? | 9 frames, 2 clips of 5 kinds, 5 configurations |
| `two_pass_size` | Is each frame shown at its own size? *(violated)* | same |
| `coded_partition` | Does a decoder read what an encoder wrote? | every sequence of up to 4 flags at probabilities 1, 128 and 255; pairs of elements with values at every boundary; every mode of every tree, whole B_PRED and split headers; long carries |
| `frame_layout` | Is a frame laid out as it is read? | each entry point with fields at the ends of their ranges and past them; 3 token and 2 vector probabilities; five rows in up to eight partitions; sizes 0, 2 and 16777215, sections of 0 to 12 bytes |
| `macroblock_layer` | Do the walks over a frame agree, and are the moves into the slots right? | 15 menus of frames of 1 to 4 macroblocks; 3 pictures, every filling of the slots, every legal header |
| `kernels` | Does each kernel compute what it should? | small textured pictures, blocks and costs chosen at every branch |

Why the bounds are enough. In `macroblock_layer` the rotation begins once the
frame of one macroblock is decoded, from empty slots, and goes on for ever, so
that every filling of the slots is met; the frames do not depend on it. A
rotation reads at most three entry slots and one
new picture, so three distinct pictures and a marker for empty are every case.
In the decoder all table positions behave alike and independently; two values
tell "default" from "updated", and two token positions tell "this one" from
"another". Four frames give update, keep, override and forget in every order.
The log is a history variable that bounds interframes only (`MaxLog`); key
frames restart it, so runs are unbounded in length. Two sizes of 1 and 2
macroblocks let a frame break in the middle, and let a slot of another size be
noticed. In the decoder adapter, a scenario needs a first picture, an
invisible key frame, a picture of another shape and one more after a reset:
four packets, of four formats (two shapes, a variant that is only displayed
differently, and one above the caller's cap but not above the default one,
which a decoder rebuilt without the cap would let through). In the inter
stream four frames pass a scheduled key frame and a golden refresh and leave
room for a manual one; in the altref stream six are a full group, an early
close and a single-frame group. The two-pass clips pass a scene cut, a golden
refresh, a second study, a change of size within a grid and to another grid, a
frame without pixels, an index above 127 and a filter level above 63.
Counters are capped by `MaxPackets`, `MaxFrames`, `MaxFailures`, `MaxResizes`,
`MaxClips` and `InFlight`; each is a guard of the action that increases it and
nothing else depends on it.

The values of `coded_partition` stand on both sides of every branch of the
coders: motion vector components 7, 8, 15, 16 and 23 around the implied bit,
coefficients at the ends of the token categories up to 2114, blocks that are
empty, full, begin with zeros or have zeros between. Every leaf of every mode
tree is coded, sub-block modes in two rows of their table, inter modes after
several censuses, segments at the ends of their probabilities. Carries through 0xFF bytes
are so rare that short inputs never make one: `CarryFlags` in the MC module is
37 flags found by search whose carry is still pending at the end and turns two
0xFF bytes, and which, continued, shift that carry out.

Two to four macroblocks are a corner, an edge and an interior neighbour. Each
menu of `macroblock_layer` makes one mechanism happen: the census with
every weight, clamping at each border, neighbours of another reference, each
split layout with each sub-vector context, residual contexts past skipped
macroblocks and over two partitions, key-frame sub-block modes, segments,
filter deltas.

The pictures of `kernels` are 32 pixels square and every pixel is told from
its neighbours. Vectors are whole, half, quarter and odd; inside the picture,
across each border and far outside, and so long that the doubling for storage
wraps. The temporal filter runs with blocks of 4 and steps 2 and 1 in place of
16 and 8, 4, 2, 1. Costs are whole numbers with ties.

`CHECK_DEADLOCK FALSE` is set for `inter_stream`, `altref_stream`,
`altref_failure`, `two_pass`, `two_pass_size`, `coded_partition`,
`frame_layout` and `macroblock_layer`: after the last frame, clip or value, and with everything
delivered, nothing is left to do.

### What the passing runs establish

- *rotation*: no destination is filled from a moved slot
  (`PendingSourceStillOwned`), no picture is cloned without need
  (`FewestCopies`), and the result is the ladder's (`ImplementsLadder`).
- *decoder*: a failed or running call is invisible (`FailureIsInvisible`);
  tables and deltas are those of the last kept update
  (`EntropyIsLastKeptUpdate`, `DeltasAreLastUpdate`); motion compensation never
  finds an empty or a differently sized slot (`SlotsMatchFormat`); the whole is
  the adapter's contract.
- *decoder adapter*: each packet is queued, held, answered or dropped by a
  reset (`PacketsConserved`); pictures come in order, once, visible ones only
  and none above the cap (`DeliveredInOrder`), in the shape last announced
  (`PictureMatchesAnnouncement`); a flushed decoder drains (`DrainReachesEof`).
- *inter stream*: no frame drifts (`NoDrift`), a key frame cuts every
  dependence on the past (`KeyframeIsAccessPoint`), the previews foretell what
  the next unforced `encode_frame` emits (`PreviewsHold`).
- *altref stream*: frames due as key frames are, and anchors stay inside a
  scene (`ScenesKeptApart`); an anchored group has its own anchor in ALTREF and
  the key frame or anchor before that in GOLDEN (`GoldenBrackets`); every packet decodes as coded until a call fails, and
  again after the next key frame (`DecodesAsCodedUntilFailure`); and the
  contract, failing calls included.
- *encoder adapters*: a frame is packed from its own pixels and packets wait in
  order, after failures too; times stay with their frames until a call fails
  (`FramesStayWhole`); sizes that change at key frames only
  (`SizeChangesAtKeyFrame`), `EofMeansAllOut` and `DrainReachesEof`.
- *two-pass*: a player that takes the packets in order has what each was coded
  against, on its grid of macroblocks (`ChainDecodes`); and `RateIsHeld`: the debt is the bytes coded less
  the bytes allotted (`AccountIsExact`); where 24 steps of the index suffice
  (`Affordable`) it stays within a frame or five allotments however long the
  clip (`DebtStaysSmall`); the solver centres on the finest index whose
  prediction fits (`CentresOnFinest`); with no debt the encoder codes what the
  free functions schedule where they answer, that is with a base index of at
  most 127 (`FollowsTheSchedule`).
- *partition*: every element is parsed as it was written and the encoder's
  four tail bytes are enough for a decoder that reads ahead
  (`ReadsWhatWasWritten`); the fitter counts the branches that are written, and
  the price of an element is that of the bools it is written with
  (`StatisticsMatch`).
- *frame layout*: each field is read as the one that was meant
  (`HeaderReadsBack`), each partition and each row from its own place
  (`PartitionsAreFound`, `RowsAreFound`; together `FrameReadsBack`); slices lie end to end
  (`SlicesTileTheBody`), and when sizes do not fit one of them is named, no
  length being negative (`OvershootIsNamed`).
- *macroblock layer*: walks code and count each symbol in one context
  (`WalksAgree`), the decoder's records are the encoder's picks
  (`DecodesWhatWasPicked`), both ends filter alike (`FilterPlansAgree`).
- *kernels*: `PredictionMatchesDefinition` (against the interpolation formula
  on an unbounded, clamped picture), `SearchMeasuresPrediction` (a vector's
  score is what that vector predicts; each pixel of an anchor takes one share of
  each frame), `ReconstructionAgrees` (the encoder's picture is the decoder's),
  `ChoicesAreCheapest` (against every other choice), `PixelsAreDecodedNeighbours`
  (each predicted pixel is read from where the format says),
  `DirectionsMirror` (mirrored modes on mirrored edges),
  `LanesMatchScalars`. The cargo feature `simd` is off by default, so the other
  properties follow the plain code and the last one compares the lanes with it.

### Where code and documentation disagree

Two disagreements are runs expected to be violated and entries under
`findings`.

`altref_failure`: an error inside `flush_group`
(`src/stream.rs:2563`) drops packets that the slots already count; later
interframes are undecodable until the next key frame, while
`src/stream.rs:2412` says "every packet self-decodes in pixel lockstep".
`DecodesAsCodedUntilFailure` says precisely when it holds.

`two_pass_size`: `Vp8TwoPassEncoder::encode_frame` looks at no size, and the
interframe coder compares grids of macroblocks only (`src/encoder.rs:9497`). A
frame of another size on the same grid is coded as an interframe, which states
no size, and a decoder shows it cropped to the size of the last key frame,
while `src/encoder.rs:12117` says "Caller-supplied frame dimensions are
honoured frame-by-frame" and the round-trip test
(`tests/two_pass_roundtrip.rs:237`) that a frame decodes to its own width and
height. The decoded macroblocks are the encoder's all the same, which is what
`ChainDecodes` says.

The others met while modelling; the models follow the code.

- Adapters: a `reset` between an event and its picture keeps the announced
  shape (`src/decoder.rs:976`). Before the first picture `output_params` peeks
  at a queued key frame that may yet be refused or invisible
  (`src/decoder.rs:985`). The lagged adapter queues a frame's time before the
  push that may fail (`src/encoder.rs:11019`), so that after a failure every
  later packet takes an older time. The zero-latency adapter accepts
  `send_frame` after `flush`.
- Streams: only `encode_frame` keeps the counter `p_frames_since_keyframe`
  (`src/stream.rs:540`).
- Two-pass: budgets are said to be advisory and not to alter the bytes
  (`src/encoder.rs:11694`), but they drive the solver; without analysis "every
  frame gets `base.qindex`" (`src/encoder.rs:11881`) except at scene cuts; the
  "multiplied by 100" of `src/encoder.rs:11840` is not done. A clip on another
  grid is refused until a scene cut, since refused frames do not advance the
  golden interval. The free functions refuse a base index above 127, and a fuzz
  target says that it "surfaces as `Vp8Error`"
  (`fuzz/fuzz_targets/panic_free_two_pass_stream.rs:28`); `encode_frame` clamps
  it and codes.
- Encoder: the split pick stores a cost that includes its bits and adds them
  again when comparing (`src/encoder.rs:7570`, against 6424 and 6457); the
  group search clamps after snapping and its candidates are not snapped
  (`src/encoder.rs:6700`, against `src/motion_search.rs:389`); fractional
  vectors inherited by a split group are scored by their whole-pixel part
  (`src/encoder.rs:6518`). A segment's quantiser delta can be -128
  although the field holds 127 at most.
- `src/arnr.rs:381` expects a chroma block to overhang an odd plane; from
  `build_arnr_altref` none does.

## 4. Fairness

Only the two drain properties need any. `WF_vars(Receive)` in DecoderAdapter
and `WF_vars(ReceivePacket)` in EncoderAdapters say that the *caller* goes on
receiving, which is the framework's protocol after a flush; inside the code
the loop of `receive_frame` runs to an answer without anyone's help. No
fairness is assumed of sends, resets or deliveries. `DrainReachesEof` for the
decoder excuses a reset, which clears `eof`.

## 5. Proofs

Proved by TLAPS for every value of the constants that satisfies the named
assumptions. The theorems are listed in `PROJECT.json` with the property each
states.

**DecodedPicture_proofs** follows a picture into the slots, in two parts.

*The frame* (`MenusAssumption`), for any size, any number of partitions, any
picks. What has to agree is spread over the frame: a symbol is written from the
records of one walk and read, after the whole frame was written, from those of
another. So the invariant (`FrameInvariant`) names a whole frame `g`, which no
variable holds: the neighbour walk of the frame, its residual contexts, and for
the control partition and each DCT partition what has been laid out before each
macroblock (`Frame`). `FrameExists` shows that the picks determine one as soon
as picking ends. From then on each stage (`AtModes`, `AtTokens`, ...,
`AtResidual`) has its walk at its place in that same `g`, what it wrote equal to
what `g` has before that place, and what it has left to read equal to what `g` has
after it. A step then needs one macroblock only. `ReadsMacroblock` says that a
macroblock's modes are read back whatever follows them, `ReadsResidual` the same
of its tokens and of the contexts left behind, both by walking its sub-blocks
(`ReadsBModes`), split groups (`ReadsGroups`) or residual blocks (`Decoding`)
one at a time. The slices carved are the partitions assembled because they tile
the body (`Carving`). `WalksAlwaysAgree` needs in
addition that a tally of the laid-out tokens does not depend on the order in which
rows went to partitions (`CountsMatch`), since the fitter counts in raster order.
`AlwaysDecodesWhatWasPicked` includes the public readers (`decode_inter_mb`,
`decode_split_mv_mb`), which must find what the frame walk finds.
`FilterPlansAlwaysAgree` needs that a decoder takes a quantiser index and a filter
level from the header the way the encoder took them from its settings
(`ChosenQuantizer`, `FiltersAgree`). TLC cannot
evaluate `FrameInvariant`, which quantifies over all `g`; it checks the three
properties that follow from it.

*The rotation* (`NoPictureAssumption`: the empty slot is not a picture). The
inductive invariant says that in the middle of a call every source some
unfilled destination still selects is owned and unchanged, that every filled
destination holds what its source held on entry, and that `sources` is the
resolution of some header. `PendingSourceStillOwned` alone is not inductive:
it does not say what has been filled. From it follow type correctness,
`NoUseAfterMove` and the refinement `RotationImplementsLadder`, in which the
abstract slots are the entry slots during a call. `ClonesCounted` adds that the
clones so far are the filled destinations whose source some later one still
wanted; with a count of what three slots can hold, `RotationCopiesFewest`
follows.

**DecoderState_proofs** (`ValueAssumption`, `FormatAssumption`,
`PacketAssumption`, `DecoderAssumption`: values are distinct from the "absent"
markers, packets are of their type and carry delta updates only under
`loop_filter_adj_enable`). The inductive invariant adds to the checked
properties that a call in progress has changed nothing, that the tables of the
current frame are well typed, that the log begins with a key frame and holds
interframes after it, and that packets in it are legal. From it follow type
correctness, the run's four invariants, that no reference is ever empty, and
two refinements. `EntropyTracksKeptUpdates` and `DeltasTrackUpdates` rest on
one lemma about "the latest write": appending a write to the log either
overrides the value or leaves it.

**DecoderInput_proofs** has what reaches the decoder: the adapter's packets and
a partition's elements.

*The adapter* (`AdapterAssumption`, `AbsentAssumption`: the absent
markers are no shapes and no pictures). The inductive invariant adds that
nothing is held inside a call, that the shape last told is the one carried,
that the carried format and the held picture are within the cap, and that what
was delivered, what is held and what is pending follow each other in arrival
order. From it follow type correctness and the three safety properties of the
run.

*The partition* (`ContentAssumption`: elements fit their shapes, as literals of
at most 16 bits, vector components of ten and levels up to 67 + 2^11 - 1, with
probabilities of a byte, 0 included). Three layers.

1. The bytes as a number. The encoder's register and the bytes before it stand
   for the bottom of its interval (`Low`); a carry adds one to a number of bytes
   that are not all 0xFF, because there is room above the bottom
   (`CarryReaches`), and `write_bool` cuts the interval and doubles it
   (`Writes`). Every interval lies within those before it, so the number the
   finished partition stands for is inside each of them (`Inside`).
2. The decoder. After n booleans its window and the bytes still ahead are that
   number less the bottom of the n-th interval (`DecodedTo`), with the lowest bits
   of the window still empty; these cannot tip the comparison, so it decides as
   was written (`DecodesNext`). With four bytes behind the bottom and at most
   two in the window, a byte is there whenever one is needed.
3. The parser. A walk (`Walking`) answers each boolean with what it asks next.
   The booleans of a literal, a field, a tree from any of its nodes, a spelled
   code, a vector or a token each lead the walk from one record to another
   (`Leads`), and such stretches join (`LeadsJoin`). A block is a stretch per
   coefficient, with the context and the entry node the parser works out for
   itself (`CtxBefore`, `NodeBefore`), and EOB if there is room
   (`BlockEnds`). `ElementEnds` is the sum.

`PartitionInvariant` says how many booleans are written, or which element is
being parsed and how far, and where its booleans are among all of them.

**InterStreamEncoder_proofs** (`StreamAssumption`). The two ends agree only
when nothing is in flight, so the invariant speaks of the wire: the frames on
it form a *chain*. The decoder holds what the first was coded against, what
each leaves behind is what the next was coded against, and what the last
leaves is what the encoder carries. Beside it, no slot is older than the last
key frame. `NoDrift`, `KeyframeIsAccessPoint` and `PreviewsHold` follow.

**AltrefStreamEncoder_proofs** (`AltrefAssumption`). Three parts above type
correctness: frames pending and in the group are consecutive and of one scene,
packets are key frames where one is due; while a group is flushed, an
interframe is coded only where LAST exists and no key frame is due; and the
chain again, weakened by failures: from some position of the queue on there is
a chain up to the encoder's slots, and it starts with a key frame or with what
the decoder holds. That position is the front until a call fails. For the
refinement `AltrefImplementsContract` the invariant (`Progress`) says in
addition how the group stands in the window of its call site (`Window`) and
that the packets coded so far are the first of those the group is to become
(`Plan`); a call that ends in the middle keeps none of them. For
`GroupsAreBracketed` it names the packets that GOLDEN and ALTREF were coded as,
and that no reference was coded between them (`Bracketed`).

**EncoderAdapters_proofs** (`AdaptersAssumption`). The lookahead holds the last
frames of its stream, at least as many times wait as frames, both ascend, and
visible packets wait in order and ahead of all that is still inside. While no
call failed, times are exactly those of the frames inside, and sizes change
along the packets only at key frames. Planes are packed pixel by pixel, which
rests on two lemmas about division (`RowAndColumn`, `PlaceInPlane`). Lemmas
about a whole group (`GroupShape`, `GroupTimes`, `GroupOut`) say which frame
and time each of its packets takes. All three safety properties follow.

**FrameLayout_proofs** (`LayoutAssumption`, `CarvingAssumption`: arguments of
the entry points are of their types, a foreign packet is some layout of fields
behind a tag, there is a partition). First the carving alone: its invariant
keeps the running sums equal to those of the sizes read so far and bounds each
walk's position; `CarvedSlicesTile` and `OvershootAlwaysNamed` follow for any
sizes. Then the frame, in three layers. Of the syntax: a literal, a flag, a
signed field, an optional entry and a table of entries are read back from where
they stand, the cursor behind them (`LiteralReads` to `OptionalsReads`, by
least counterexamples), and a header field by field after them. Of the entry
points: the header each writes is `Layout` of the fields its call means
(`Meant`), although none is written that way (`SilentHeader`, `KeyHeader`,
`AdaptiveKeyHeader`, `InterHeaderIsWritten`), and so are its tag and its size
table. Of the reader: `FrameInv` says at each stage which of the meant fields
it holds and where its cursor is, that the carving reads the table laid out,
and that each row leaves its partition where the next row of it begins.
`HeaderAlwaysReadsBack` needs nothing more. `FrameAlwaysReadsBack` has one
condition, `SizesFit`: the encoder pushes the low three bytes of a partition's
length and checks nothing (`encoder.rs` 5672-5676), so a partition of 2^24 bytes
or more would be found in the wrong place. The last partition has no size word.

**TwoPassEncoder_proofs** (`TwoPassAssumption`). For `ChainNeverBreaks` the
invariant adds that the frames since the last key frame are as many as the
encoder's frame counter says, and that the size an interframe inherits is one
of the reference's grid. `RateAlwaysHeld` proves all four parts of
`RateIsHeld` for any clips, configurations and bytes a frame may come out as:
`RateInv` adds that what the encoder learnt is what its first pass finds in the
clip (`Informed`). The debt is bounded because a debt of five allotments moves
the index by all 24 steps (`FeedbackAnswers`), and those are enough. The sums
over a clip and the rounds of the bisection are recursive functions of a number;
what is said of them (`TotalsGrow`, `BisectionFindsFinest`) is proved by
induction in the form of a least counterexample, which needs no theorem with an
operator as parameter.

Checked by TLC only:

- `StatisticsMatch` and all of `kernels`: they compute with folds and recursive
  functions over data. The library's induction theorems take an operator as a
  parameter, which the provers cannot instantiate. Inductions over sets
  (`NaturalInduction`, `StepByStep`) and least counterexamples do without, but
  every function and every walk needs one by hand, as each walk of a frame, each
  turn of the boolean coder and each stretch of a parse did. For `StatisticsMatch`
  that would be one per price list and a fact about `SortSeq`, for the kernels
  256-entry tables and pixel sums.
- Liveness.

## 6. Mutants

Every property of a passing run has a mutant: an operator named for the bug it
introduces (`LastUseScanStartsLate`, `ResetForgetsCap`, `CarryAlways`, ...)
that stands just before the definition it would replace. With that replacement
TLC finds the property violated under the run's own configuration.
`RateIsHeld`, `FramesStayWhole` and `SearchMeasuresPrediction`, which have
several parts, have two.

## 7. Plan

Done, in this order: the rotation, the decoder state, the decoder adapter, the
stream encoders, the coded partition; both encoder adapters; a frame's
layout, its macroblocks, its kernels; the two-pass encoder; proofs of the
rotation, the decoder, the coded partition, a frame's layout, its carving and its
macroblocks, both stream encoders and the altref contract, the three adapters, the two-pass encoder
and its rate control.

What would come next:

1. `StatisticsMatch` as a theorem: prices walk the same trees as the parser, so
   `TreeLeads` has a counterpart for them, and what remains is that sums do not
   depend on the order of their terms.
2. A frame whose contexts and pixels meet: MacroblockLayer's menus replaced by
   pictures small enough for Kernels' predictors, so that the pick and what it
   predicts are one state.
3. Larger frames in `macroblock_layer`: a three-by-three frame has a macroblock
   with a neighbour on every side.

## 8. Not modelled

The IVF container (`src/ivf.rs`) is a parser and a writer of a fixed header
without state. The crate's surface (`lib.rs`, `registry.rs`, `error.rs`)
re-exports, registers and converts errors. Benches, fuzz targets and examples
are callers.

Inside modelled parts: allocation; the wording of errors; the
floating-point values of costs and rates, which are whole numbers here (their
comparisons and their order are kept); segmentation in the altref stream, of
which a decoder keeps nothing across frames; the alignment step of the temporal
filter at its full block size; strides in the pixel kernels, where a plane is a
function of row and column (the adapters' strides are modelled).
`predict_inter_mb_whole_pixel`, `reconstruct_inter_mb_whole_pixel` and
`inverse_wht_4x4_dc_only` are public but no caller in the crate decodes with
them.
