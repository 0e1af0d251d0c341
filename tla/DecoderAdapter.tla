--------------------------- MODULE DecoderAdapter ---------------------------
(***************************************************************************)
(* Vp8Decoder, the framework adapter: a queue of packets in front of the   *)
(* decoder state, and an in-band event in front of the first shown picture *)
(* of every new shape.  The caller may send, receive, flush and reset in   *)
(* any order; receive_frame is a loop that consumes packets until it has   *)
(* something to answer, so the model takes it one packet at a time while   *)
(* no other call can run.                                                  *)
(***************************************************************************)
EXTENDS Naturals, Sequences

CONSTANTS Format,      \* what a key frame declares: shape and display hints
          Kind,        \* packets up to their arrival number, see KindType
          NoFormat, NoShow, NoShape, NoPicture,
          PixelCap,    \* the caller's limits.max_pixels_per_frame
          DefaultCap,  \* DEFAULT_MAX_PIXELS_PER_FRAME
          MaxPackets   \* bound on the packets sent

(* fault: "none", "header" (the headers do not parse) or "body" (they do,   *)
(* but the frame does not decode).                                          *)
KindType == [key : BOOLEAN, show : BOOLEAN, format : Format,
             fault : {"none", "header", "body"}]

ASSUME AdapterAssumption ==
  /\ Kind \subseteq KindType
  /\ PixelCap \in Nat /\ DefaultCap \in Nat /\ MaxPackets \in Nat
  /\ \A f \in Format : f.width \in Nat /\ f.height \in Nat
  /\ NoFormat \notin Format /\ NoShow \notin BOOLEAN

VARIABLES pending, eof, shape, generation, held, \* Vp8Decoder
          format, last_frame_shown, cap,         \* its Vp8DecoderState
          receiving,  \* inside receive_frame's loop
          sent,       \* packets sent so far
          response,   \* what receive_frame answered last
          delivered,  \* history: the last picture returned
          told,       \* history: the shape in-band information announces
          settled     \* history: packets the adapter is done with

state == <<format, last_frame_shown, cap>>
history == <<delivered, told, settled>>
vars == <<pending, eof, shape, generation, held, state, receiving, sent,
          response, history>>

(* One decode_frame call is one step here: none is ever in progress.        *)
Dec == INSTANCE DecoderContract WITH calls <- {}

Shape == { [width |-> f.width, height |-> f.height, color |-> f.color] : f \in Format }
ShapeOf(f) == [width |-> f.width, height |-> f.height, color |-> f.color]
Picture == [pts : Nat, shape : Shape, show : BOOLEAN]

ASSUME AbsentAssumption == NoShape \notin Shape /\ NoPicture \notin Picture

Answer(kind) == [kind |-> kind, shape |-> NoShape, picture |-> NoPicture]
Video(picture) == [kind |-> "video", shape |-> picture.shape, picture |-> picture]
StreamParams(s) == [kind |-> "params", shape |-> s, picture |-> NoPicture]

Init ==
  /\ pending = <<>> /\ eof = FALSE /\ shape = NoShape
  /\ generation = 0 /\ held = NoPicture
  /\ Dec!Init /\ cap = PixelCap
  /\ receiving = FALSE /\ sent = 0 /\ response = Answer("none")
  /\ delivered = NoPicture /\ told = NoShape /\ settled = 0

-----------------------------------------------------------------------------
(* Mutant: the queue takes a new packet at its head.                        *)
SendPacketAtHead(kind) ==
  /\ ~receiving /\ sent < MaxPackets
  /\ sent' = sent + 1
  /\ pending' = <<[pts |-> sent + 1, kind |-> kind]>> \o pending
  /\ UNCHANGED <<eof, shape, generation, held, state, receiving, response, history>>

SendPacket(kind) ==
  /\ ~receiving /\ sent < MaxPackets
  /\ sent' = sent + 1
  /\ pending' = Append(pending, [pts |-> sent + 1, kind |-> kind])
  /\ UNCHANGED <<eof, shape, generation, held, state, receiving, response, history>>

(* The held picture goes out before anything else.                         *)
ReceiveHeld ==
  /\ ~receiving /\ held # NoPicture
  /\ response' = Video(held)
  /\ held' = NoPicture
  /\ delivered' = held /\ settled' = settled + 1
  /\ UNCHANGED <<pending, eof, shape, generation, state, receiving, sent, told>>

StartReceive ==
  /\ ~receiving /\ held = NoPicture
  /\ receiving' = TRUE
  /\ UNCHANGED <<pending, eof, shape, generation, held, state, sent, response, history>>

(* Mutant: an empty queue keeps answering NeedMore after the flush.         *)
ReceiveEmptyIgnoresEof ==
  /\ receiving /\ pending = <<>>
  /\ receiving' = FALSE
  /\ response' = Answer("needMore")
  /\ UNCHANGED <<pending, eof, shape, generation, held, state, sent, history>>

ReceiveEmpty ==
  /\ receiving /\ pending = <<>>
  /\ receiving' = FALSE
  /\ response' = Answer(IF eof THEN "eof" ELSE "needMore")
  /\ UNCHANGED <<pending, eof, shape, generation, held, state, sent, history>>

(* decode_frame's verdict, by the order of its checks.                     *)
Decodable(kind) ==
  /\ kind.fault = "none"
  /\ IF kind.key
     THEN /\ kind.format.width > 0 /\ kind.format.height > 0
          /\ kind.format.width * kind.format.height <= cap
     ELSE format # NoFormat

PopPending == receiving /\ pending # <<>> /\ pending' = Tail(pending)

(* The packet is consumed although it did not decode.                      *)
ReceiveError ==
  /\ PopPending
  /\ ~Decodable(Head(pending).kind)
  /\ receiving' = FALSE /\ response' = Answer("error")
  /\ settled' = settled + 1
  /\ UNCHANGED <<eof, shape, generation, held, state, sent, delivered, told>>

(* An invisible frame is decoded for its references and the loop goes on.   *)
ReceiveInvisible ==
  /\ PopPending
  /\ Decodable(Head(pending).kind)
  /\ Dec!AcceptFrame(Head(pending).kind)
  /\ last_frame_shown' = FALSE
  /\ settled' = settled + 1
  /\ UNCHANGED <<eof, shape, generation, held, cap, receiving, sent, response,
                 delivered, told>>

(* The shape of a decoded frame is that of the key frame in force.         *)
NewPicture == [pts |-> Head(pending).pts, shape |-> ShapeOf(format'),
               show |-> Head(pending).kind.show]

(* Mutant: the shape in force is taken from the key frame decoded so far    *)
(* before this picture, not from the last picture's.                        *)
MustAnnounceByKeyFrame == format # NoFormat /\ ShapeOf(format) # ShapeOf(format')

(* Whether the picture about to be returned must be announced.             *)
MustAnnounce == shape # NoShape /\ shape # ShapeOf(format')

ReceiveShown ==
  /\ PopPending
  /\ Decodable(Head(pending).kind)
  /\ Dec!AcceptFrame(Head(pending).kind)
  /\ last_frame_shown' # FALSE
  /\ shape' = ShapeOf(format')
  /\ receiving' = FALSE
  /\ \/ /\ MustAnnounce
        /\ generation' = generation + 1
        /\ held' = NewPicture
        /\ response' = StreamParams(shape')
        /\ told' = shape'
        /\ UNCHANGED <<delivered, settled>>
     \/ /\ ~MustAnnounce
        /\ response' = Video(NewPicture)
        /\ told' = IF told = NoShape THEN shape' ELSE told
        /\ delivered' = NewPicture /\ settled' = settled + 1
        /\ UNCHANGED <<generation, held>>
  /\ UNCHANGED <<eof, cap, sent>>

Flush ==
  /\ ~receiving
  /\ eof' = TRUE
  /\ UNCHANGED <<pending, shape, generation, held, state, receiving, sent,
                 response, history>>

(* Mutant: the rebuilt state has the default cap.                           *)
ResetForgetsCap ==
  /\ ~receiving
  /\ pending' = <<>> /\ held' = NoPicture /\ eof' = FALSE
  /\ format' = NoFormat /\ last_frame_shown' = NoShow /\ cap' = DefaultCap
  /\ settled' = sent
  /\ UNCHANGED <<shape, generation, receiving, sent, response, delivered, told>>

(* Mutant: the held picture outlives the reset.                             *)
ResetKeepsHeld ==
  /\ ~receiving
  /\ pending' = <<>> /\ eof' = FALSE
  /\ format' = NoFormat /\ last_frame_shown' = NoShow /\ cap' = cap
  /\ settled' = sent
  /\ UNCHANGED <<held, shape, generation, receiving, sent, response, delivered, told>>

Reset ==
  /\ ~receiving
  /\ pending' = <<>> /\ held' = NoPicture /\ eof' = FALSE
  /\ format' = NoFormat /\ last_frame_shown' = NoShow /\ cap' = cap
  /\ settled' = sent
  /\ UNCHANGED <<shape, generation, receiving, sent, response, delivered, told>>

Receive == ReceiveHeld \/ StartReceive \/ ReceiveEmpty \/ ReceiveError
           \/ ReceiveInvisible \/ ReceiveShown

Next == \/ \E kind \in Kind : SendPacket(kind)
        \/ Receive \/ Flush \/ Reset

Spec == Init /\ [][Next]_vars

(* The caller goes on calling receive_frame.                               *)
FairSpec == Spec /\ WF_vars(Receive)

-----------------------------------------------------------------------------
(* Every packet sent is waiting, held behind its event, or was answered for *)
(* exactly once: no call sequence loses or repeats one (decoder.rs 927-963, *)
(* 970-979).                                                                *)
PacketsConserved ==
  settled + Len(pending) + (IF held = NoPicture THEN 0 ELSE 1) = sent

(* A consumer that sizes its buffers by the first picture and then by the   *)
(* events alone is never handed a picture of another shape, whatever was    *)
(* flushed, reset, invisible or broken in between; a held picture is the    *)
(* one its event announced, and the event the last answer (decoder.rs       *)
(* 741-751, 773-775).                                                       *)
PictureMatchesAnnouncement ==
  /\ response.kind = "video" => response.shape = told
  /\ held # NoPicture => held.shape = shape /\ response = StreamParams(shape)

(* Pictures come out in the order their packets went in, and only those     *)
(* that are shown and within the caller's cap, also after a reset rebuilt   *)
(* the decoder's state (decoder.rs 723-729, 970-979).                       *)
ShownAndCapped(picture) ==
  picture.show /\ picture.shape.width * picture.shape.height <= PixelCap
DeliveredInOrder ==
  [][delivered' # delivered =>
       /\ delivered = NoPicture \/ delivered.pts < delivered'.pts
       /\ delivered' # NoPicture => ShownAndCapped(delivered')]_vars

(* Once flushed, a caller that keeps receiving reaches Eof unless it resets *)
(* the decoder: no error, event or invisible frame can keep it from the end *)
(* (decoder.rs 931-939).                                                    *)
DrainReachesEof == eof ~> (response.kind = "eof" \/ ~eof)
=============================================================================
