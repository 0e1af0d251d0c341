---------------------------- MODULE MCFrameLayout ----------------------------
(* Calls at the ends of every field's range and past them, three token and   *)
(* two vector probabilities, frames of five rows in up to eight partitions,  *)
(* and a foreign header with everything the encoder never writes.            *)
EXTENDS FrameLayout, TLC

MCCoeffUpdateProbs == <<255, 176, 1>>
MCMvUpdateProbs == <<237, 254>>
MCCounts == {1, 2, 4, 8}
MCSizes == {0, 2, 16777215}
MCSectionLens == 0..12

Call == [width |-> 33, height |-> 80, hscale |-> 0, vscale |-> 0, first |-> 300, q |-> 20, count |-> 2,
         filter |-> [simple |-> FALSE, level |-> 12, sharpness |-> 3],
         rows |-> <<2, 0, 5, 1, 3>>, tokens |-> NoneOf(3)]
Filters == {[simple |-> s, level |-> l, sharpness |-> h] : s \in BOOLEAN, l \in {0, 63}, h \in {0, 7}}
TokenTables == {NoneOf(3), <<None, Some(1), None>>, <<Some(255), None, Some(128)>>}
Edges ==
  {[Call EXCEPT !.q = q, !.count = c] : q \in {0, 127}, c \in {1, 2, 4, 8}}
  \cup {[Call EXCEPT !.width = 16383, !.height = 1], [Call EXCEPT !.width = 16384], [Call EXCEPT !.height = 0],
        [Call EXCEPT !.q = 128], [Call EXCEPT !.count = 3],
        [Call EXCEPT !.first = 524287], [Call EXCEPT !.first = 524288],
        [Call EXCEPT !.filter.level = 64], [Call EXCEPT !.filter.sharpness = 8]}

MCSilent == Edges
MCKeys == Edges \cup {[Call EXCEPT !.filter = f] : f \in Filters} \cup {[Call EXCEPT !.tokens = t] : t \in TokenTables}

QuantDeltas == {<<8, 0, -6, -12>>, <<127, -127, 0, 1>>}
LfDeltas == {None, Some(<<63, -63, 0, 1>>)}
MCAdaptive == {[c EXCEPT !.rows = <<4, 1>>] @@ [quant_delta |-> q, lf_delta |-> l] :
                 c \in {[Call EXCEPT !.q = 0], [Call EXCEPT !.q = 127], [Call EXCEPT !.filter.level = 0]},
                 q \in QuantDeltas, l \in LfDeltas}

Refresh(g, a, cg, ca, l) ==
  [refreshGolden |-> g, refreshAltref |-> a, copyGolden |-> cg, copyAltref |-> ca, refreshLast |-> l]
Refreshes == {Refresh(FALSE, FALSE, 1, 2, TRUE), Refresh(TRUE, FALSE, 0, 1, FALSE),
              Refresh(FALSE, TRUE, 2, 0, FALSE), Refresh(TRUE, TRUE, 0, 0, TRUE)}
Off == [enabled |-> FALSE, update |-> FALSE, ref |-> NoneOf(4), mode |-> NoneOf(4)]
DeltaTables == {Off, [Off EXCEPT !.enabled = TRUE, !.ref = <<Some(5), None, None, None>>],
                [Off EXCEPT !.enabled = TRUE, !.update = TRUE, !.ref = <<Some(-63), None, Some(0), Some(63)>>,
                            !.mode = <<None, Some(-1), None, Some(7)>>]}
SegmentSets == {None, Some([quant_delta |-> <<127, -127, 0, 1>>, lf_delta |-> None, counts |-> <<0, 0, 3, 9>>]),
                Some([quant_delta |-> <<8, 0, -6, -12>>, lf_delta |-> Some(<<63, -63, 0, 1>>),
                      counts |-> <<5, 0, 0, 0>>])}
Inter == Call @@ [refresh |-> Refresh(FALSE, FALSE, 0, 0, TRUE), deltas |-> Off, segments |-> None, show |-> TRUE,
                  pick_intra |-> FALSE, intra |-> 0, inter |-> 9, prob_last |-> 128, prob_gf |-> 128]
MCInters ==
  {c @@ Inter : c \in Edges}
  \cup {[Inter EXCEPT !.refresh = r, !.deltas = d, !.tokens = t] :
          r \in Refreshes, d \in DeltaTables, t \in TokenTables}
  \cup {[Inter EXCEPT !.segments = s, !.deltas = d, !.q = q] : s \in SegmentSets, d \in DeltaTables, q \in {0, 126}}
  \cup {[Inter EXCEPT !.pick_intra = TRUE, !.intra = n, !.inter = m, !.show = FALSE,
                      !.prob_last = l, !.prob_gf = 256 - l] : n \in {0, 1, 9}, m \in {0, 2}, l \in {1, 255}}

(* Layouts that the encoder's parts can write, though its entry points do    *)
(* not: a key frame with one half of the segmentation each, and an           *)
(* interframe with all the tables an interframe may have.                    *)
OtherLayers ==
  {[map |-> FALSE, data |-> TRUE, absolute |-> TRUE, quantizer |-> <<None, Some(-7), None, None>>,
    loop_filter |-> <<Some(1), None, None, Some(-2)>>, probs |-> NoneOf(3)],
   [map |-> TRUE, data |-> FALSE, absolute |-> FALSE, quantizer |-> NoneOf(4),
    loop_filter |-> NoneOf(4), probs |-> <<None, Some(0), Some(255)>>]}
OtherFields ==
  [space |-> Some(<<TRUE, TRUE>>), segmentation |-> None,
   filter |-> [simple |-> TRUE, level |-> 5, sharpness |-> 0], deltas |-> Off, count |-> 4,
   quant |-> [y_ac_qi |-> 3, deltas |-> <<Some(-15), None, Some(15), Some(0), Some(-1)>>],
   entropy |-> TRUE, refresh |-> None, tokens |-> NoneOf(3), skip |-> None, modes |-> None]
OtherShared ==
  write_loop_filter(OtherFields.filter) \o write_token_partition_count(4)
  \o write_quant_indices(3, OtherFields.quant.deltas)
OtherKeys ==
  {[key |-> TRUE, show |-> FALSE, first |-> 77, width |-> w, height |-> 16, hscale |-> 1, vscale |-> 3, count |-> 4,
    tag |-> write_frame_tag(TRUE, 1, FALSE, 77, w, 16, 1, 3),
    fields |-> [OtherFields EXCEPT !.segmentation = Some(layer)],
    bits |-> Flag(128, TRUE) \o Flag(128, TRUE) \o write_update_segmentation(layer) \o OtherShared
             \o Flag(128, TRUE) \o write_no_token_prob_updates \o write_mb_no_skip_coeff(FALSE, 0)] :
     layer \in OtherLayers, w \in {0, 16}}
OtherInter ==
  [key |-> FALSE, show |-> TRUE, first |-> 5, count |-> 4, tag |-> write_frame_tag(FALSE, 3, TRUE, 5, 0, 0, 0, 0),
   fields |-> [OtherFields EXCEPT !.space = None,
     !.refresh = Some([golden |-> TRUE, altref |-> FALSE, copyGolden |-> None, copyAltref |-> Some(2),
                       biases |-> <<FALSE, TRUE>>, last |-> FALSE]),
     !.modes = Some([intra |-> 9, last |-> 200, gf |-> 1, y |-> Some(<<1, 2, 3, 4>>), uv |-> Some(<<255, 0, 7>>),
                     mv |-> <<Some(1), Some(200)>>])],
   bits |-> write_segment_update_flags \o OtherShared
            \o Flag(128, TRUE) \o Flag(128, FALSE) \o Literal(2, 2) \o Flag(128, FALSE) \o Flag(128, TRUE)
            \o Flag(128, TRUE) \o Flag(128, FALSE)
            \o write_no_token_prob_updates \o write_mb_no_skip_coeff(FALSE, 0)
            \o Literal(9, 8) \o Literal(200, 8) \o Literal(1, 8)
            \o Flag(128, TRUE) \o Literal(1, 8) \o Literal(2, 8) \o Literal(3, 8) \o Literal(4, 8)
            \o Flag(128, TRUE) \o Literal(255, 8) \o Literal(0, 8) \o Literal(7, 8)
            \o Optionals(<<Some(0), Some(100)>>, MCMvUpdateProbs, 7, FALSE)]
MCForeign == OtherKeys \cup {OtherInter}
MCCuts == {0, 3, 4, 8, 60}
=============================================================================
