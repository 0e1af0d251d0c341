------------------------ MODULE MCInterStreamEncoder ------------------------
(***************************************************************************)
(* Streams of a few frames: every kind of refresh ladder, the delta layer  *)
(* off, on without and on with an update, token updates of one position.   *)
(***************************************************************************)
EXTENDS InterStreamEncoder

CONSTANTS c1, dflt, hi, none, small, large

MCCoeffCell == {c1}
MCMvCell == {}
MCProb == {dflt, hi}
MCDelta == {0, 5, -3}
MCShape == [width |-> 16, height |-> 16]
MCFormat == {MCShape}
MCDimensions == {small, large}

MCTokens == {[c \in MCCoeffCell |-> none], [c \in MCCoeffCell |-> hi]}

Updates(i, v) == [[j \in DeltaIndex |-> none] EXCEPT ![i] = v]
On(u, r, m) == [enabled |-> TRUE, update |-> u, ref |-> r, mode |-> m]
MCDeltas == { LoopFilterDeltasOff,
              On(FALSE, Updates(1, 5), Updates(1, 5)),
              On(TRUE, Updates(1, 5), Updates(2, -3)) }

MCRefresh ==
  { RefreshLastOnly,
    [RefreshLastOnly EXCEPT !.refreshGolden = TRUE, !.copyGolden = 1],
    [RefreshLastOnly EXCEPT !.copyGolden = 2, !.copyAltref = 2],
    [RefreshLastOnly EXCEPT !.refreshAltref = TRUE, !.refreshLast = FALSE],
    [RefreshLastOnly EXCEPT !.refreshGolden = TRUE, !.copyAltref = 1],
    [RefreshLastOnly EXCEPT !.copyGolden = 1, !.refreshLast = FALSE] }

(* The frames these requests can put on the wire. *)
MCPacket ==
  { KeyPacket(t) : t \in MCTokens } \cup
  { InterPacket(TRUE, c, l, t) :
      c \in (MCRefresh \cap RefreshFields) \cup { RefreshLastAndGolden },
      l \in MCDeltas, t \in MCTokens }
=============================================================================
