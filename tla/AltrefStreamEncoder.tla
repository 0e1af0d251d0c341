------------------------ MODULE AltrefStreamEncoder ------------------------
(***************************************************************************)
(* Vp8AltrefStreamEncoder: frames wait in a lookahead group; a full group, *)
(* or one that a key frame or a scene cut closes early, is coded as        *)
(* [key frame] [invisible ALTREF anchor] [interframes].  push_frame and    *)
(* finish are single calls, but they work on the encoder's own slots one   *)
(* frame at a time and any of those frames can fail, so each is a step.    *)
(***************************************************************************)
EXTENDS StreamPeer

CONSTANTS KeyframeInterval, AltrefWindow, GoldenPromotion, SceneCuts,
          NoDimensions, Dimensions, \* the frame sizes callers pass
          Tokens,                   \* the token updates the fitter may find
          MaxFrames,                \* bound on the source frames pushed
          MaxFailures,              \* bound on the frames that fail to code
          InFlight                  \* bound on the packets between the two ends

ASSUME AltrefAssumption ==
  /\ KeyframeInterval \in Nat /\ AltrefWindow \in Nat \ {0}
  /\ GoldenPromotion \in BOOLEAN /\ SceneCuts \in BOOLEAN
  /\ NoDimensions \notin Dimensions /\ NoPicture # Drifted
  /\ NoPicture \notin [kind : {"visible", "anchor"}, index : Nat]
  /\ NoUpdates(CoeffCell) \in Tokens /\ Tokens \subseteq Update(CoeffCell)
  /\ MaxFrames \in Nat /\ MaxFailures \in Nat /\ InFlight \in Nat

VARIABLES dimensions, pending, pending_start, pending_forced_key, input_count,
          slots,
          pc,       \* idle, or the frame flush_group codes next, or its end
          caller,   \* the call site of the flush: before, full or finish
          arriving, \* the frame push_frame holds is a cut
          group,    \* the source indices flush_group took
          done,     \* how many of them are coded
          anchored,
          out,      \* the packets of this call
          cuts,     \* history: the accepted frames that were cuts
          shipped,  \* history: the packets returned, oldest first
          failures, \* history: the calls that returned an error
          broken    \* history: one of them lost packets the slots had counted,
                    \*   and no key frame was coded since

buffer == <<dimensions, pending, pending_start, pending_forced_key, input_count, cuts>>
flush == <<pc, caller, arriving, group, done, anchored>>
history == <<shipped, failures, broken>>
vars == <<buffer, flush, slots, out, history, wire, peer>>

Init ==
  /\ dimensions = NoDimensions
  /\ pending = <<>> /\ pending_start = 0 /\ pending_forced_key = FALSE
  /\ input_count = 0 /\ slots = AllSlots(NoPicture)
  /\ pc = "idle" /\ caller = "none" /\ arriving = FALSE
  /\ group = <<>> /\ done = 0 /\ anchored = FALSE /\ out = <<>>
  /\ cuts = {} /\ shipped = <<>> /\ failures = 0 /\ broken = FALSE
  /\ PeerInit

Visible(i) == [kind |-> "visible", index |-> i]
Anchor(i) == [kind |-> "anchor", index |-> i]
Carried == [slots |-> slots, refDeltas |-> ZeroDeltas, modeDeltas |-> ZeroDeltas]
Output(kind, index, coded) == [kind |-> kind, index |-> index, coded |-> coded]

-----------------------------------------------------------------------------
IsKeyIndex(i) == i = 0 \/ (KeyframeInterval > 0 /\ i % KeyframeInterval = 0)

(* A group is keyed when its first frame is scheduled as a key frame or was *)
(* a cut, or when there is no reference yet.                               *)
KeyDue(start, forced) == IsKeyIndex(start) \/ forced \/ slots["last"] = NoPicture

(* flush_group's opening: it takes the buffer, whatever happens next.       *)
Take(frames, start, forced, site) ==
  /\ group' = frames /\ done' = 0 /\ anchored' = FALSE
  /\ caller' = site
  /\ pc' = CASE KeyDue(start, forced)                         -> "key"
             [] ~KeyDue(start, forced) /\ Len(frames) >= 2    -> "anchor"
             [] OTHER                                         -> "inter"
  /\ pending' = <<>> /\ pending_start' = start /\ pending_forced_key' = FALSE

(* A call returns its packets.                                             *)
Return(packets) ==
  /\ wire' = wire \o [i \in DOMAIN packets |-> packets[i].coded]
  /\ shipped' = shipped \o [i \in DOMAIN packets |-> [kind |-> packets[i].kind,
                                                      index |-> packets[i].index]]
  /\ out' = <<>>
  /\ pc' = "idle" /\ caller' = "none"
  /\ group' = <<>> /\ done' = 0 /\ anchored' = FALSE /\ arriving' = FALSE

WindowFull(frames) == Len(frames) >= AltrefWindow

(* Mutant: pending_start is left where the last group began.                *)
StartNeverMoves == pending_start

GroupStart == IF pending = <<>> THEN input_count ELSE pending_start

(* push_frame from the point where the frame enters the buffer.             *)
Accept(cut) ==
  LET frames == Append(pending, input_count)
      start == GroupStart
      forced == IF pending = <<>> THEN cut ELSE pending_forced_key
  IN
  /\ input_count' = input_count + 1
  /\ cuts' = IF cut THEN cuts \cup {input_count} ELSE cuts
  /\ \/ /\ WindowFull(frames)
        /\ Take(frames, start, forced, "full")
        /\ arriving' = FALSE
        /\ UNCHANGED <<out, shipped, wire>>
     \/ /\ ~WindowFull(frames)
        /\ pending' = frames /\ pending_start' = start
        /\ pending_forced_key' = forced
        /\ Return(out)

(* Mutant: only the schedule closes a group early.                          *)
ClosesGroupOnSchedule(cut) == IsKeyIndex(input_count) /\ pending # <<>>

(* A scene cut or a scheduled key frame closes the group before it.         *)
ClosesGroup(cut) == (cut \/ IsKeyIndex(input_count)) /\ pending # <<>>

CanCall == pc = "idle" /\ Len(wire) <= InFlight

PushFrame(d, cut) ==
  /\ CanCall /\ input_count < MaxFrames
  /\ dimensions \in {NoDimensions, d}
  /\ cut => SceneCuts /\ input_count > 0
  /\ dimensions' = d
  /\ \/ /\ ClosesGroup(cut)
        /\ Take(pending, pending_start, pending_forced_key, "before")
        /\ arriving' = cut
        /\ UNCHANGED <<input_count, cuts, out, shipped, wire>>
     \/ /\ ~ClosesGroup(cut)
        /\ Accept(cut)
  /\ UNCHANGED <<slots, failures, broken, peer>>

RefuseDimensions(d) ==
  CanCall /\ dimensions \notin {NoDimensions, d} /\ UNCHANGED vars

Finish ==
  /\ CanCall /\ pending # <<>>
  /\ Take(pending, pending_start, pending_forced_key, "finish")
  /\ UNCHANGED <<dimensions, input_count, cuts, arriving, slots, out, history,
                 wire, peer>>

-----------------------------------------------------------------------------
(* One coded frame joins the call's packets.                               *)
Push(packet) ==
  /\ out' = Append(out, packet)
  /\ UNCHANGED <<buffer, caller, arriving, group, shipped, failures, wire, peer>>

(* The frame coded next, and the source_index its packet gets.             *)
NextFrame == group[done + 1]
NextIndex == pending_start + done

SlotsAfterKey(picture) == AllSlots(picture)

EncodeKey(tokens) ==
  LET picture == Visible(NextFrame) IN
  /\ pc = "key"
  /\ slots' = SlotsAfterKey(picture)
  /\ broken' = FALSE
  /\ done' = 1
  /\ pc' = IF Len(group) >= 2 THEN "anchor" ELSE "done"
  /\ Push(Output("key", NextIndex, CodedKey(picture, Carried, tokens)))
  /\ UNCHANGED anchored

(* Mutant: the anchor also refreshes GOLDEN in the encoder's mirror.        *)
SlotsAfterAnchorBoth(picture) ==
  [slots EXCEPT !["altref"] = picture, !["golden"] = picture]

SlotsAfterAnchor(picture) == [slots EXCEPT !["altref"] = picture]

AnchorRefresh == [refreshGolden |-> FALSE, refreshAltref |-> TRUE,
                  copyGolden |-> 0, copyAltref |-> 0, refreshLast |-> FALSE]

(* build_arnr_altref and the invisible update: aligned to the last frame.   *)
EncodeAnchor(tokens) ==
  LET picture == Anchor(group[Len(group)]) IN
  /\ pc = "anchor"
  /\ slots' = SlotsAfterAnchor(picture)
  /\ anchored' = TRUE
  /\ pc' = "inter"
  /\ Push(Output("anchor", picture.index,
                 CodedInter(picture, Carried, FALSE, AnchorRefresh,
                            LoopFilterDeltasOff, tokens)))
  /\ UNCHANGED <<done, broken>>

(* Mutant: the promotion rides on the group's second frame.                 *)
PromotesOnFirst == GoldenPromotion /\ anchored /\ done = 1

Promotes == GoldenPromotion /\ anchored /\ done + 1 = Len(group)

(* copy_buffer_to_golden = 2 reads the ALTREF slot before the refresh.      *)
PromotionRefresh == [refreshGolden |-> FALSE, refreshAltref |-> FALSE,
                     copyGolden |-> 2, copyAltref |-> 0, refreshLast |-> TRUE]

EncodeInter(tokens) ==
  LET picture == Visible(NextFrame)
      refresh == IF Promotes THEN PromotionRefresh ELSE RefreshLastOnly
  IN
  /\ pc = "inter"
  /\ slots' = [slots EXCEPT !["golden"] = IF Promotes THEN slots["altref"] ELSE @,
                            !["last"] = picture]
  /\ done' = done + 1
  /\ pc' = IF done + 1 = Len(group) THEN "done" ELSE "inter"
  /\ Push(Output("inter", NextIndex,
                 CodedInter(picture, Carried, TRUE, refresh,
                            LoopFilterDeltasOff, tokens)))
  /\ UNCHANGED <<anchored, broken>>

(* flush_group returns to its call site.                                   *)
EndFlush ==
  /\ pc = "done"
  /\ \/ /\ caller = "before"
        /\ Accept(arriving)
     \/ /\ caller # "before"
        /\ Return(out)
        /\ UNCHANGED <<pending, pending_start, pending_forced_key, input_count, cuts>>
  /\ UNCHANGED <<dimensions, slots, failures, broken, peer>>

(* A frame fails to code: the error leaves through every `?` on the way up, *)
(* the call's packets and the group are gone, the slots stay as they are.   *)
FailFrame ==
  /\ pc \in {"key", "anchor", "inter"} /\ failures < MaxFailures
  /\ failures' = failures + 1
  /\ broken' = (broken \/ out # <<>>)
  /\ Return(<<>>)
  /\ UNCHANGED <<buffer, slots, peer>>

Deliver ==
  DecodeNext /\ UNCHANGED <<buffer, flush, slots, out, history>>

Encode == \E t \in Tokens : EncodeKey(t) \/ EncodeAnchor(t) \/ EncodeInter(t)

Next ==
  \/ \E d \in Dimensions : \/ \E cut \in BOOLEAN : PushFrame(d, cut)
                           \/ RefuseDimensions(d)
  \/ Finish \/ Encode \/ EndFlush \/ FailFrame \/ Deliver

Spec == Init /\ [][Next]_vars

-----------------------------------------------------------------------------
SourceIndex == 0..MaxFrames
Picture == [kind : {"visible", "anchor"}, index : SourceIndex]
Summary(packets) ==
  [i \in DOMAIN packets |-> [kind |-> packets[i].kind, index |-> packets[i].index]]

(* Everything coded so far, oldest first: returned, then still in the call. *)
Coded == shipped \o Summary(out)

(* A scheduled frame and the first frame of a scene are only ever shown as  *)
(* key frames, also after failed calls (stream.rs 2115-2118, 2138-2149).    *)
KeyedWhereDue ==
  \A i \in DOMAIN Coded :
    Coded[i].kind = "inter" => /\ ~IsKeyIndex(Coded[i].index)
                               /\ Coded[i].index \notin cuts

(* An anchor is blended from frames of one scene: past its first frame a    *)
(* group holds neither a cut nor a scheduled key frame (stream.rs 2523-2537).*)
AnchorStaysInScene ==
  \A frames \in {group, pending} : \A i \in 2..Len(frames) :
    ~IsKeyIndex(frames[i]) /\ frames[i] \notin cuts
ScenesKeptApart == KeyedWhereDue /\ AnchorStaysInScene

(* The last of the first n frames coded that can be predicted from.        *)
LatestReference(i, n) ==
  /\ i \in 1..n /\ Coded[i].kind # "inter"
  /\ \A j \in i + 1..n : Coded[j].kind = "inter"
PictureOf(p) == IF p.kind = "key" THEN Visible(p.index) ELSE Anchor(p.index)

(* With promotion on, an anchored group predicts from a bracketing pair:    *)
(* ALTREF is its own anchor, the reference coded last, and GOLDEN the key   *)
(* frame or the anchor coded before that (stream.rs 2129-2137).             *)
GoldenBrackets ==
  pc = "inter" /\ anchored /\ GoldenPromotion /\ failures = 0 =>
    \E a \in DOMAIN Coded : \E b \in DOMAIN Coded :
      /\ LatestReference(a, Len(Coded)) /\ LatestReference(b, a - 1)
      /\ PictureOf(Coded[a]) = Anchor(group[Len(group)])
      /\ slots["altref"] = PictureOf(Coded[a])
      /\ slots["golden"] = PictureOf(Coded[b])

(* Until a call fails the decoder reconstructs every frame from what it was *)
(* coded against, anchors and promotions included.  A failed call that had  *)
(* coded nothing leaves the stream intact, and any other is repaired by the *)
(* next key frame: between calls, with everything delivered, both ends      *)
(* carry the same slots and tables (stream.rs 2411-2414).                   *)
DecodesAsCodedUntilFailure ==
  /\ failures = 0 => NextDecodesAsCoded
  /\ pc = "idle" /\ wire = <<>> /\ ~broken => peer = [EmptyPeer EXCEPT !.slots = slots]

(* Seen from outside, a call returns whole groups or nothing, and a failed  *)
(* one loses exactly the group it was coding: what the lagged adapter       *)
(* relies on (stream.rs 2507-2559).                                         *)
CountedFrames == IF caller = "full" THEN input_count - 1 ELSE input_count
BufferedFrames ==
  CASE caller = "none" -> pending
    [] caller = "full" -> SubSeq(group, 1, Len(group) - 1)
    [] OTHER           -> group
Contract ==
  INSTANCE AltrefContract WITH input_count <- CountedFrames, buffered <- BufferedFrames
ImplementsContract == Contract!Spec

(* "every packet self-decodes in pixel lockstep" (stream.rs 2412-2413).     *)
EveryPacketDecodesAsCoded == NextDecodesAsCoded
=============================================================================
