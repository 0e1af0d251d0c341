--------------------------- MODULE EncoderAdapters --------------------------
(***************************************************************************)
(* The framework's two encoder adapters.  Vp8LaggedEncoder sits over the   *)
(* altref stream encoder: a queue of presentation times on the way in, a   *)
(* queue of packets on the way out.  Times and packets meet only by their  *)
(* order: the k-th visible packet takes the k-th time.  Vp8FrameEncoder    *)
(* codes every frame at once, as a key frame.  A frame is its number,      *)
(* which is also the time it carries.                                      *)
(***************************************************************************)
EXTENDS Integers, Sequences, FiniteSets

CONSTANTS Adapters, \* "lagged", "immediate"
          AltrefWindow, Widths, Heights, Strides,
          NoPts, NoPacket, Unset, MaxUsize,
          MaxFrames,   \* bound on the frames sent
          MaxResizes,  \* bound on the resizes
          MaxFailures  \* bound on the failing calls of the stream encoder

ASSUME AdaptersAssumption ==
  /\ Adapters \subseteq {"lagged", "immediate"}
  /\ AltrefWindow \in Nat \ {0} /\ Widths \subseteq Nat /\ Heights \subseteq Nat
  /\ Strides \subseteq Nat /\ MaxUsize \in Nat
  /\ MaxFrames \in Nat /\ MaxResizes \in Nat /\ MaxFailures \in Nat
  /\ NoPts \notin Nat
  /\ NoPacket \notin [kind : {"key", "anchor", "inter"}, size : Widths \X Heights,
                      frame : Nat, pts : Nat \cup {NoPts}]

VARIABLES adapter,                           \* which of the two this is
          size, pts_queue, pending, eof,     \* its state
          input_count, buffered, shipped,    \* the lagged adapter's stream
          sent,      \* frames sent so far
          resizes, failures,
          response,  \* what receive_packet answered last
          packed,    \* the planes of the last frame taken
          accepted,  \* history: the frames of this stream, by source index
          delivered  \* history: the last packet received

stream_vars == <<input_count, buffered, shipped>>
vars == <<adapter, size, pts_queue, pending, eof, stream_vars,
          sent, resizes, failures, response, packed, accepted, delivered>>

Stream == INSTANCE AltrefContract

-----------------------------------------------------------------------------
(* How a frame and a change of parameters are taken in: the planes of a       *)
(* frame, which may have padding after each row, are checked and packed.  A   *)
(* plane is [stride, data]; dims are <<width, height>>.                       *)

DivCeil2(n) == (n + 1) \div 2

(* The last row needs no padding after it.                                    *)
Needed(plane, row_w, rows) == plane.stride * (rows - 1) + row_w
validate_plane(plane, row_w, rows) ==
  rows > 0 =>
    /\ plane.stride >= row_w
    /\ plane.stride * (rows - 1) <= MaxUsize /\ Needed(plane, row_w, rows) <= MaxUsize
    /\ Len(plane.data) >= Needed(plane, row_w, rows)

repack_plane(plane, w, h) ==
  [p \in 1..w * h |-> plane.data[((p - 1) \div w) * plane.stride + ((p - 1) % w) + 1]]

(* What the three planes of a frame measure.                                  *)
PlaneSizes(dims) == <<dims, <<DivCeil2(dims[1]), DivCeil2(dims[2])>>, <<DivCeil2(dims[1]), DivCeil2(dims[2])>>>>
(* Mutant: a narrow stride goes through if the buffer is long enough.         *)
AcceptsAnyStride(planes, dims) ==
  /\ Len(planes) >= 3
  /\ \A i \in 1..3 : Len(planes[i].data) >= PlaneSizes(dims)[i][1] * PlaneSizes(dims)[i][2]
Accepts(planes, dims) ==
  /\ Len(planes) >= 3
  /\ \A i \in 1..3 : validate_plane(planes[i], PlaneSizes(dims)[i][1], PlaneSizes(dims)[i][2])
packed_planes_from_video_frame(planes, dims) ==
  [i \in 1..3 |-> repack_plane(planes[i], PlaneSizes(dims)[i][1], PlaneSizes(dims)[i][2])]

(* A size the frame header can state.                                         *)
Codable(dims) == dims[1] > 0 /\ dims[1] <= 16383 /\ dims[2] > 0 /\ dims[2] <= 16383
Or(value, otherwise) == IF value = Unset THEN otherwise ELSE value

(* The size a StreamParams event asks for, and whether it is taken.           *)
reconfigure_target(event, dims) == <<Or(event.width, dims[1]), Or(event.height, dims[2])>>
Followed(event, dims) ==
  /\ event.media_type = "video" /\ event.pixel_format \in {Unset, "Yuv420P"}
  /\ Codable(reconfigure_target(event, dims))

(* The parameters an encoder may be built with.                               *)
validate_video_params(params) ==
  /\ params.width # Unset /\ params.height # Unset
  /\ Codable(<<params.width, params.height>>)
  /\ params.pixel_format \in {Unset, "Yuv420P"}

(* The frames and events a caller may send.  Rows may be closer than they are *)
(* long, a buffer may be too short or too long, and there may be no planes at *)
(* all.  A pixel is its row and column, and padding is 0.                     *)
Rows(w, h, stride, extra) ==
  [stride |-> stride,
   data |-> [p \in 1..stride * (h - 1) + w + extra |->
               IF (p - 1) % stride < w THEN 100 * ((p - 1) \div stride) + ((p - 1) % stride) + 1 ELSE 0]]
Video(dims, stride, extra) ==
  [i \in 1..3 |-> LET d == PlaneSizes(dims)[i] IN Rows(d[1], d[2], stride, extra)]
Videos(dims) ==
  {Video(dims, stride, extra) : stride \in Strides, extra \in {-1, 0, 1}} \cup {<<>>}
Events ==
  [media_type : {"video", "audio"}, pixel_format : {Unset, "Yuv420P", "Yuv444P"},
   width : Widths \cup {Unset, 0}, height : Heights \cup {Unset}]

Init ==
  /\ adapter \in Adapters
  /\ \E w \in Widths, h \in Heights :
       /\ validate_video_params([width |-> w, height |-> h, pixel_format |-> Unset])
       /\ size = <<w, h>>
  /\ pts_queue = <<>> /\ pending = <<>> /\ eof = FALSE
  /\ Stream!Init
  /\ sent = 0 /\ resizes = 0 /\ failures = 0 /\ response = "none"
  /\ packed = [dims |-> size, planes |-> <<>>] /\ accepted = <<>> /\ delivered = NoPacket

-----------------------------------------------------------------------------
(* How many times the first i packets of a batch take: an anchor takes none. *)
TimesTaken(batch, i) == Cardinality({j \in 1..i : batch[j].kind # "anchor"})

(* enqueue: the packets of a batch, with the times in the queue.           *)
Packets(batch, times, frames) ==
  [i \in DOMAIN batch |->
     LET n == TimesTaken(batch, i) IN
     [ kind |-> batch[i].kind, size |-> size,
       frame |-> frames[batch[i].index + 1],
       pts |-> IF batch[i].kind # "anchor" /\ n <= Len(times) THEN times[n]
               ELSE NoPts ]]

Enqueue(batch, times, frames) ==
  /\ pending' = pending \o Packets(batch, times, frames)
  /\ pts_queue' = SubSeq(times, TimesTaken(batch, Len(batch)) + 1, Len(times))

(* The stream encoder fails and takes no packet or time back.               *)
Fails == failures < MaxFailures /\ failures' = failures + 1 /\ UNCHANGED pending

(* A frame is taken in: its planes are checked and packed.                  *)
Taken ==
  [dims \in Widths \X Heights |->
     {[dims |-> dims, planes |-> packed_planes_from_video_frame(video, dims)] :
        video \in {v \in Videos(dims) : Accepts(v, dims)}}]
Takes(n) == sent < MaxFrames /\ sent' = n /\ packed' \in Taken[size]

(* A frame before the flush, of the stream's size; others change nothing.   *)
SendFrame ==
  LET times == Append(pts_queue, sent + 1)
      frames == Append(accepted, sent + 1)
  IN
  /\ adapter = "lagged" /\ ~eof
  /\ Takes(sent + 1)
  /\ \/ /\ \E batch \in Stream!PushBatches :
             Stream!Push(batch) /\ Enqueue(batch, times, frames)
        /\ accepted' = frames
        /\ UNCHANGED failures
     \/ /\ Stream!PushFails /\ Fails
        /\ pts_queue' = times
        /\ accepted' = IF input_count' = input_count THEN accepted ELSE frames
  /\ UNCHANGED <<adapter, size, eof, resizes, response, delivered>>

(* The immediate adapter goes on taking frames after a flush.               *)
SendFrameNow ==
  /\ adapter = "immediate"
  /\ Takes(sent + 1)
  /\ \/ /\ pending' = Append(pending, [kind |-> "key", size |-> size, frame |-> sent + 1, pts |-> sent + 1])
        /\ UNCHANGED failures
     \/ Fails
  /\ response' = "none"
  /\ UNCHANGED <<adapter, size, pts_queue, eof, stream_vars, resizes, accepted, delivered>>

(* Mutant: a resize opens the new stream over frames still buffered.        *)
CloseStreamAbruptly(s) ==
  /\ size' = s
  /\ input_count' = 0 /\ buffered' = <<>> /\ shipped' = <<>>
  /\ accepted' = <<>>
  /\ UNCHANGED <<failures, pending, pts_queue>>

(* Mutant: the old stream goes on at the new size.                          *)
KeepStream(s) ==
  /\ \E batch \in Stream!FinishBatches :
       Stream!Finish(batch) /\ Enqueue(batch, pts_queue, accepted)
  /\ size' = s
  /\ UNCHANGED <<accepted, failures>>

(* The old stream's frames are coded at the old size, then a stream opens.  *)
CloseStream(s) ==
  /\ \E batch \in Stream!FinishBatches : Enqueue(batch, pts_queue, accepted)
  /\ size' = s
  /\ input_count' = 0 /\ buffered' = <<>> /\ shipped' = <<>>
  /\ accepted' = <<>>
  /\ UNCHANGED failures

(* A StreamParams event that is followed and asks for another size.         *)
Targets ==
  [dims \in Widths \X Heights |->
     {reconfigure_target(event, dims) : event \in {e \in Events : Followed(e, dims)}} \ {dims}]
Resize(target) ==
  /\ resizes < MaxResizes
  /\ resizes' = resizes + 1
  /\ \/ adapter = "lagged" /\ ~eof /\ CloseStream(target)
     \/ /\ adapter = "lagged" /\ ~eof
        /\ Stream!FinishFails /\ Fails
        /\ UNCHANGED <<size, pts_queue, accepted>>
     \/ /\ adapter = "immediate" /\ size' = target
        /\ UNCHANGED <<pts_queue, pending, stream_vars, failures, accepted>>
  /\ UNCHANGED <<adapter, eof, sent, response, packed, delivered>>

(* Mutant: an empty queue keeps answering NeedMore after the flush.         *)
ReceivePacketIgnoresEof ==
  /\ IF pending # <<>>
     THEN /\ pending' = Tail(pending)
          /\ delivered' = Head(pending) /\ response' = "packet"
     ELSE response' = "needMore" /\ UNCHANGED <<pending, delivered>>
  /\ UNCHANGED <<adapter, size, pts_queue, eof, stream_vars, sent,
                 resizes, failures, packed, accepted>>

ReceivePacket ==
  /\ \/ /\ pending # <<>>
        /\ pending' = Tail(pending)
        /\ delivered' = Head(pending) /\ response' = "packet"
     \/ /\ pending = <<>>
        /\ response' = IF eof THEN "eof" ELSE "needMore"
        /\ UNCHANGED <<pending, delivered>>
  /\ UNCHANGED <<adapter, size, pts_queue, eof, stream_vars, sent,
                 resizes, failures, packed, accepted>>

(* Mutant: the tail group is left in the lookahead.                         *)
FlushForgetsTail ==
  /\ eof' = TRUE
  /\ UNCHANGED <<adapter, size, pts_queue, pending, stream_vars, sent,
                 resizes, failures, response, packed, accepted, delivered>>

(* The first flush that succeeds ends the stream; later ones do nothing.    *)
Flush ==
  /\ ~eof
  /\ \/ /\ adapter = "lagged"
        /\ \E batch \in Stream!FinishBatches :
             Stream!Finish(batch) /\ Enqueue(batch, pts_queue, accepted)
        /\ eof' = TRUE
        /\ UNCHANGED failures
     \/ /\ adapter = "lagged"
        /\ Stream!FinishFails /\ Fails
        /\ UNCHANGED <<eof, pts_queue>>
     \/ /\ adapter = "immediate" /\ eof' = TRUE
        /\ UNCHANGED <<pts_queue, pending, stream_vars, failures>>
  /\ UNCHANGED <<adapter, size, sent, resizes, response, packed, accepted, delivered>>

Next == \/ SendFrame \/ SendFrameNow \/ ReceivePacket \/ Flush
        \/ \E target \in Targets[size] : Resize(target)

Spec == Init /\ [][Next]_vars

(* The caller goes on calling receive_packet.                              *)
FairSpec == Spec /\ WF_vars(ReceivePacket)

-----------------------------------------------------------------------------
Visible(p) == p # NoPacket /\ p.kind # "anchor"

(* While no call has failed, the times waiting are exactly those of the     *)
(* frames inside the stream encoder, across resizes too; failures or not,   *)
(* visible packets wait in the order of their frames and never with a time  *)
(* older than one already given (encoder.rs 10925-10941, "pts of pushed     *)
(* source frames not yet emitted").  The planes given to the encoder are    *)
(* the frame's pixels, without what stands between its rows (11199-11278).  *)
FramesStayWhole ==
  /\ failures = 0 => pts_queue = [i \in DOMAIN buffered |-> accepted[buffered[i] + 1]]
  /\ \A i, j \in DOMAIN pending :
       i < j /\ Visible(pending[i]) /\ Visible(pending[j]) =>
         pending[i].frame < pending[j].frame /\ pending[i].pts < pending[j].pts
  /\ \A i \in DOMAIN packed.planes :
       LET d == PlaneSizes(packed.dims)[i] IN
       packed.planes[i] = [p \in 1..d[1] * d[2] |-> 100 * ((p - 1) \div d[1]) + ((p - 1) % d[1]) + 1]

(* Packets change size only at a key frame, unless a failed call lost the   *)
(* key frame (encoder.rs 10997-10999).                                      *)
SizeChangesAtKeyFrame ==
  [][failures = 0 /\ delivered # NoPacket /\ delivered'.size # delivered.size
       => delivered'.kind = "key"]_<<delivered, failures>>

(* After Eof nothing is left behind: with no failed call every frame sent   *)
(* has come out, and the last visible packet was the last frame.            *)
EofMeansAllOut ==
  response = "eof" /\ failures = 0 =>
    /\ pts_queue = <<>> /\ buffered = <<>>
    /\ sent > 0 => delivered # NoPacket /\ delivered.frame = sent

(* Once flushed, a caller that keeps receiving reaches Eof.                 *)
DrainReachesEof == eof ~> response = "eof"
=============================================================================
