------------------------ MODULE DecoderInput_proofs ------------------------
(***************************************************************************)
(* What reaches the decoder, and in which order.  First the adapter's      *)
(* promises to its caller, which hold for any packets, any caps and any    *)
(* number of calls: nothing is lost, a picture has the announced shape,    *)
(* and pictures come out in order, shown and within the cap.  Then one     *)
(* partition inside a packet, whatever its elements: the boolean coder's   *)
(* bytes, read as a number, stay inside the interval the encoder is left   *)
(* with, so that the decoder decides every boolean as it was written and   *)
(* never runs out of bytes; and its parser, which follows the booleans one *)
(* at a time, comes to the value of every element.                         *)
(***************************************************************************)
EXTENDS DecoderAdapter, CodedPartition, SequenceTheorems, FunctionTheorems, FiniteSetTheorems, TLAPS

Waiting == [pts : Nat, kind : Kind]
Response ==
  [kind : {"none", "needMore", "eof", "error", "video", "params"},
   shape : Shape \cup {NoShape}, picture : Picture \cup {NoPicture}]

TypeOK ==
  /\ pending \in Seq(Waiting) /\ eof \in BOOLEAN
  /\ shape \in Shape \cup {NoShape} /\ generation \in Nat
  /\ held \in Picture \cup {NoPicture}
  /\ format \in Format \cup {NoFormat} /\ last_frame_shown \in BOOLEAN \cup {NoShow}
  /\ cap = PixelCap
  /\ receiving \in BOOLEAN /\ sent \in Nat /\ response \in Response
  /\ delivered \in Picture \cup {NoPicture} /\ told \in Shape \cup {NoShape}
  /\ settled \in Nat

(* A call in progress holds no picture: it would have answered with it.     *)
NothingHeldInside == receiving => held = NoPicture

(* The shape compared with is the one the consumer knows.                   *)
ToldTheShape == told = shape

FormatCapped == format # NoFormat => format.width * format.height <= PixelCap
HeldIsPresentable == held # NoPicture => ShownAndCapped(held)

(* What was delivered, what is held and what waits came in this order.      *)
Later(picture, pts) == picture # NoPicture => picture.pts < pts
Ordered ==
  /\ \A i, j \in 1..Len(pending) : i < j => pending[i].pts < pending[j].pts
  /\ \A i \in 1..Len(pending) :
       /\ pending[i].pts <= sent
       /\ Later(delivered, pending[i].pts) /\ Later(held, pending[i].pts)
  /\ Later(delivered, sent + 1) /\ Later(held, sent + 1)
  /\ held # NoPicture => Later(delivered, held.pts)

Inv ==
  /\ TypeOK /\ NothingHeldInside /\ ToldTheShape /\ FormatCapped
  /\ HeldIsPresentable /\ Ordered /\ PacketsConserved /\ PictureMatchesAnnouncement

LEMMA InitInvariant == Init => Inv
<1> SUFFICES ASSUME Init PROVE Inv
  OBVIOUS
<1> USE AdapterAssumption
<1>1. TypeOK
  BY EmptySeq, Zenon DEF Init, TypeOK, Dec!Init, Response, Answer
<1>2. NothingHeldInside /\ ToldTheShape /\ FormatCapped /\ HeldIsPresentable
  BY DEF Init, Dec!Init, NothingHeldInside, ToldTheShape, FormatCapped, HeldIsPresentable
<1>3. Ordered
  BY DEF Init, Ordered, Later
<1>4. PacketsConserved /\ PictureMatchesAnnouncement
  BY DEF Init, PacketsConserved, PictureMatchesAnnouncement, Answer
<1> QED
  BY <1>1, <1>2, <1>3, <1>4 DEF Inv

(* Consuming the packet at the head: what is left is in order behind it.    *)
LEMMA Popped ==
  ASSUME Inv, PopPending
  PROVE  /\ Head(pending) \in Waiting /\ pending' \in Seq(Waiting)
         /\ Len(pending') \in Nat /\ Len(pending) = Len(pending') + 1
         /\ \A i, j \in 1..Len(pending') : i < j => pending'[i].pts < pending'[j].pts
         /\ \A i \in 1..Len(pending') :
              /\ pending'[i].pts <= sent /\ Head(pending).pts < pending'[i].pts
              /\ Later(delivered, pending'[i].pts)
         /\ Head(pending).pts \in Nat /\ Head(pending).pts <= sent
         /\ Later(delivered, Head(pending).pts)
         /\ held = NoPicture /\ receiving
<1> USE DEF Inv
<1>1. pending \in Seq(Waiting) /\ pending # <<>> /\ pending' = Tail(pending)
  BY DEF TypeOK, PopPending
<1>2. /\ Head(pending) \in Waiting /\ pending' \in Seq(Waiting)
      /\ Len(pending') = Len(pending) - 1
      /\ \A i \in 1..Len(pending') : pending'[i] = pending[i + 1]
  BY <1>1, HeadTailProperties
<1>3. Len(pending) \in Nat /\ Len(pending') \in Nat
  BY <1>1, <1>2, LenProperties
<1>4. 1 \in 1..Len(pending) /\ Head(pending) = pending[1]
  BY <1>1, <1>2, <1>3
<1>5. /\ \A i, j \in 1..Len(pending) : i < j => pending[i].pts < pending[j].pts
      /\ \A i \in 1..Len(pending) : pending[i].pts <= sent /\ Later(delivered, pending[i].pts)
  BY DEF Ordered
<1>6. \A i \in 1..Len(pending') : i + 1 \in 1..Len(pending) /\ 1 < i + 1
  BY <1>2, <1>3
<1>7. \A i, j \in 1..Len(pending') : i < j => pending'[i].pts < pending'[j].pts
  <2> SUFFICES ASSUME NEW i \in 1..Len(pending'), NEW j \in 1..Len(pending'), i < j
               PROVE  pending'[i].pts < pending'[j].pts
    OBVIOUS
  <2>1. i + 1 \in 1..Len(pending) /\ j + 1 \in 1..Len(pending) /\ i + 1 < j + 1
    BY <1>6
  <2>2. pending'[i] = pending[i + 1] /\ pending'[j] = pending[j + 1]
    BY <1>2, <1>3
  <2> QED BY <1>5, <2>1, <2>2
<1>8. \A i \in 1..Len(pending') :
        /\ pending'[i].pts <= sent /\ Head(pending).pts < pending'[i].pts
        /\ Later(delivered, pending'[i].pts)
  BY <1>2, <1>4, <1>5, <1>6, Zenon
<1>9. held = NoPicture /\ receiving
  BY DEF PopPending, NothingHeldInside
<1> QED
  BY <1>2, <1>3, <1>4, <1>5, <1>7, <1>8, <1>9 DEF Waiting

(* What decode_frame leaves behind when it accepts the packet at the head.  *)
LEMMA Accepted ==
  ASSUME Inv, PopPending, Decodable(Head(pending).kind), Dec!AcceptFrame(Head(pending).kind)
  PROVE  /\ format' \in Format /\ last_frame_shown' = Head(pending).kind.show
         /\ last_frame_shown' \in BOOLEAN
         /\ ShapeOf(format') \in Shape
         /\ format'.width * format'.height <= PixelCap
<1>1. Head(pending).kind \in KindType
  BY Popped, AdapterAssumption DEF Waiting
<1>2. cap = PixelCap /\ format \in Format \cup {NoFormat}
  BY DEF Inv, TypeOK
<1>3. /\ format' = IF Head(pending).kind.key THEN Head(pending).kind.format ELSE format
      /\ last_frame_shown' = Head(pending).kind.show
  BY DEF Dec!AcceptFrame
<1>4. CASE Head(pending).kind.key
  BY <1>1, <1>2, <1>3, <1>4 DEF KindType, Decodable, Shape, ShapeOf
<1>5. CASE ~Head(pending).kind.key
  <2>1. format # NoFormat /\ format' = format
    BY <1>1, <1>3, <1>5 DEF Decodable, KindType
  <2>2. format.width * format.height <= PixelCap
    BY <2>1 DEF Inv, FormatCapped
  <2> QED
    BY <1>1, <1>2, <1>3, <2>1, <2>2 DEF KindType, Shape, ShapeOf
<1> QED
  BY <1>4, <1>5

LEMMA SendKeepsInvariant == ASSUME Inv, NEW kind \in Kind, SendPacket(kind) PROVE Inv'
<1> USE DEF Inv
<1> DEFINE w == [pts |-> sent + 1, kind |-> kind]
<1>1. /\ pending \in Seq(Waiting) /\ sent \in Nat /\ w \in Waiting
      /\ sent' = sent + 1 /\ pending' = Append(pending, w) /\ ~receiving
      /\ UNCHANGED <<eof, shape, generation, held, format, last_frame_shown, cap, receiving,
                     response, delivered, told, settled>>
  BY DEF TypeOK, SendPacket, Waiting, state, history
<1>2. /\ pending' \in Seq(Waiting) /\ Len(pending') = Len(pending) + 1 /\ Len(pending) \in Nat
      /\ \A i \in 1..Len(pending) : pending'[i] = pending[i]
      /\ pending'[Len(pending) + 1] = w
  BY <1>1, AppendProperties, LenProperties
<1>3. TypeOK'
  BY <1>1, <1>2 DEF TypeOK
<1>4. (NothingHeldInside /\ ToldTheShape /\ FormatCapped /\ HeldIsPresentable /\ PictureMatchesAnnouncement)'
  BY <1>1 DEF NothingHeldInside, ToldTheShape, FormatCapped, HeldIsPresentable, ShownAndCapped,
              PictureMatchesAnnouncement
<1>5. Ordered'
  <2>1. \A i \in 1..Len(pending) : pending[i] \in Waiting
    BY <1>1, ElementOfSeq
  <2>2. \A i \in 1..Len(pending) : pending[i].pts \in Nat /\ pending[i].pts < sent + 1
    <3> SUFFICES ASSUME NEW i \in 1..Len(pending) PROVE pending[i].pts \in Nat /\ pending[i].pts < sent + 1
      OBVIOUS
    <3>1. pending[i].pts \in Nat
      BY <2>1 DEF Waiting
    <3>2. pending[i].pts <= sent /\ sent \in Nat
      BY <1>1 DEF Ordered
    <3> QED BY <3>1, <3>2
  <2>3. \A i \in 1..Len(pending') : i \in 1..Len(pending) \/ (i = Len(pending) + 1 /\ pending'[i].pts = sent + 1)
    BY <1>2
  <2>4. \A i, j \in 1..Len(pending') : i < j => pending'[i].pts < pending'[j].pts
    <3> SUFFICES ASSUME NEW i \in 1..Len(pending'), NEW j \in 1..Len(pending'), i < j
                 PROVE  pending'[i].pts < pending'[j].pts
      OBVIOUS
    <3>1. i \in 1..Len(pending)
      BY <1>2
    <3> QED
      BY <3>1, <2>2, <2>3, <1>2 DEF Ordered
  <2>5. /\ held # NoPicture => held.pts \in Nat
        /\ delivered # NoPicture => delivered.pts \in Nat
    BY DEF TypeOK, Picture
  <2>6. \A i \in 1..Len(pending') :
          /\ pending'[i].pts <= sent'
          /\ Later(delivered, pending'[i].pts) /\ Later(held, pending'[i].pts)
    BY <1>1, <1>2, <2>2, <2>3, <2>5 DEF Ordered, Later
  <2> QED
    BY <1>1, <2>4, <2>5, <2>6 DEF Ordered, Later
<1>6. PacketsConserved'
  BY <1>1, <1>2 DEF PacketsConserved, TypeOK
<1> QED
  BY <1>3, <1>4, <1>5, <1>6

LEMMA CallsKeepInvariant ==
  ASSUME Inv, ReceiveHeld \/ StartReceive \/ ReceiveEmpty \/ Flush \/ Reset
  PROVE  Inv'
<1> USE DEF Inv, state, history, NothingHeldInside, ToldTheShape, FormatCapped, HeldIsPresentable,
            ShownAndCapped, PictureMatchesAnnouncement
<1>0. pending \in Seq(Waiting) /\ Len(pending) \in Nat /\ sent \in Nat /\ settled \in Nat
  BY LenProperties DEF TypeOK
<1>1. CASE ReceiveHeld
  <2>1. TypeOK'
    BY <1>1 DEF TypeOK, ReceiveHeld, Video, Response, Picture
  <2>2. Ordered'
    BY <1>1 DEF ReceiveHeld, Ordered, Later
  <2>3. PacketsConserved'
    BY <1>0, <1>1 DEF ReceiveHeld, PacketsConserved
  <2> QED
    BY <1>1, <2>1, <2>2, <2>3 DEF ReceiveHeld, Video
<1>2. CASE StartReceive \/ Flush
  <2>1. TypeOK'
    BY <1>2, Zenon DEF TypeOK, StartReceive, Flush
  <2> QED
    BY <1>2, <2>1 DEF StartReceive, Flush, Ordered, Later, PacketsConserved
<1>3. CASE ReceiveEmpty
  <2>1. TypeOK'
    BY <1>3, Zenon DEF TypeOK, ReceiveEmpty, Answer, Response
  <2> QED
    BY <1>3, <2>1 DEF ReceiveEmpty, Answer, Ordered, Later, PacketsConserved
<1>4. CASE Reset
  <2>1. TypeOK'
    BY <1>4, EmptySeq, Zenon DEF TypeOK, Reset
  <2>2. Ordered'
    BY <1>4 DEF Reset, Ordered, Later
  <2>3. PacketsConserved'
    BY <1>0, <1>4 DEF Reset, PacketsConserved
  <2> QED
    BY <1>4, <2>1, <2>2, <2>3 DEF Reset
<1> QED
  BY <1>1, <1>2, <1>3, <1>4

LEMMA PacketsKeepInvariant ==
  ASSUME Inv, ReceiveError \/ ReceiveInvisible \/ ReceiveShown
  PROVE  Inv'
<1>0. PopPending
  BY Zenon DEF ReceiveError, ReceiveInvisible, ReceiveShown
<1>1. /\ pending' \in Seq(Waiting) /\ Len(pending') \in Nat /\ Len(pending) = Len(pending') + 1
      /\ sent \in Nat /\ settled \in Nat /\ generation \in Nat
      /\ held = NoPicture /\ receiving /\ told = shape
      /\ settled + Len(pending) = sent
  BY <1>0, Popped DEF Inv, TypeOK, ToldTheShape, PacketsConserved
<1>2. CASE ReceiveError
  <2>0. Answer("error") \in Response
    BY DEF Answer, Response
  <2>a. /\ eof' \in BOOLEAN /\ receiving' \in BOOLEAN
        /\ last_frame_shown' \in BOOLEAN \cup {NoShow} /\ format' \in Format \cup {NoFormat}
    BY <1>2, Zenon DEF Inv, TypeOK, ReceiveError, state
  <2>b. /\ held' \in Picture \cup {NoPicture} /\ delivered' \in Picture \cup {NoPicture}
        /\ cap' = PixelCap /\ shape' \in Shape \cup {NoShape} /\ told' \in Shape \cup {NoShape}
        /\ generation' \in Nat /\ sent' \in Nat /\ settled' \in Nat /\ response' \in Response
    BY <1>1, <1>2, <2>0 DEF Inv, TypeOK, ReceiveError, state
  <2>1. TypeOK'
    BY <1>1, <2>a, <2>b DEF TypeOK
  <2>2. Ordered'
    BY <1>0, <1>1, <1>2, Popped DEF Inv, ReceiveError, Ordered, Later, state
  <2>3. PacketsConserved'
    BY <1>1, <1>2 DEF ReceiveError, PacketsConserved
  <2> QED
    BY <1>1, <1>2, <2>1, <2>2, <2>3
    DEF Inv, ReceiveError, Answer, NothingHeldInside, ToldTheShape, FormatCapped, HeldIsPresentable,
        PictureMatchesAnnouncement, state
<1>3. CASE ReceiveInvisible
  <2>1. format' \in Format /\ last_frame_shown' \in BOOLEAN /\ format'.width * format'.height <= PixelCap
    BY <1>0, <1>3, Accepted DEF ReceiveInvisible
  <2>2. TypeOK'
    BY <1>1, <1>3, <2>1 DEF Inv, TypeOK, ReceiveInvisible
  <2>3. Ordered'
    BY <1>0, <1>1, <1>3, Popped DEF Inv, ReceiveInvisible, Ordered, Later
  <2>4. PacketsConserved'
    BY <1>1, <1>3 DEF ReceiveInvisible, PacketsConserved
  <2> QED
    BY <1>1, <1>3, <2>1, <2>2, <2>3, <2>4
    DEF Inv, ReceiveInvisible, NothingHeldInside, ToldTheShape, FormatCapped, HeldIsPresentable,
        PictureMatchesAnnouncement
<1>4. CASE ReceiveShown
  <2>1. /\ format' \in Format /\ last_frame_shown' = Head(pending).kind.show
        /\ last_frame_shown' \in BOOLEAN /\ ShapeOf(format') \in Shape
        /\ format'.width * format'.height <= PixelCap
    BY <1>0, <1>4, Accepted DEF ReceiveShown
  <2>2. /\ Head(pending).pts \in Nat /\ Head(pending).pts <= sent
        /\ Later(delivered, Head(pending).pts)
    BY <1>0, Popped
  <2>3. NewPicture \in Picture /\ ShownAndCapped(NewPicture) /\ NewPicture.shape = ShapeOf(format')
        /\ NewPicture.pts = Head(pending).pts /\ NewPicture # NoPicture
    <3>1. Head(pending).kind.show = TRUE
      BY <2>1, <1>4, Zenon DEF ReceiveShown
    <3>2. NewPicture \in Picture
      BY <2>1, <2>2, <3>1 DEF NewPicture, Picture
    <3>3. ShownAndCapped(NewPicture)
      BY <2>1, <3>1 DEF NewPicture, ShownAndCapped, ShapeOf
    <3> QED
      BY <3>2, <3>3, AbsentAssumption DEF NewPicture
  <2>4. /\ \A i, j \in 1..Len(pending') : i < j => pending'[i].pts < pending'[j].pts
        /\ \A i \in 1..Len(pending') : /\ pending'[i].pts <= sent /\ NewPicture.pts < pending'[i].pts
                                       /\ Later(delivered, pending'[i].pts)
    BY <1>0, <2>3, Popped
  <2>5. CASE MustAnnounce /\ generation' = generation + 1 /\ held' = NewPicture
             /\ response' = StreamParams(shape') /\ told' = shape' /\ UNCHANGED <<delivered, settled>>
    <3>0. shape' \in Shape /\ response' \in Response /\ told' \in Shape
      BY <1>4, <2>1, <2>5 DEF ReceiveShown, StreamParams, Response
    <3>a. eof' \in BOOLEAN /\ receiving' \in BOOLEAN
      BY <1>4, Zenon DEF Inv, TypeOK, ReceiveShown
    <3>b. /\ held' \in Picture /\ delivered' \in Picture \cup {NoPicture} /\ cap' = PixelCap
          /\ generation' \in Nat /\ sent' \in Nat /\ settled' \in Nat
      BY <1>1, <1>4, <2>3, <2>5 DEF Inv, TypeOK, ReceiveShown
    <3>1. TypeOK'
      BY <1>1, <2>1, <3>0, <3>a, <3>b DEF TypeOK
    <3>2. Ordered'
      BY <1>1, <1>4, <2>2, <2>3, <2>4, <2>5 DEF Inv, Ordered, ReceiveShown, Later
    <3>3. PacketsConserved'
      BY <1>1, <1>4, <2>3, <2>5 DEF ReceiveShown, PacketsConserved
    <3> QED
      BY <1>1, <1>4, <2>1, <2>3, <2>5, <3>1, <3>2, <3>3
      DEF Inv, ReceiveShown, StreamParams, NothingHeldInside, ToldTheShape, FormatCapped,
          HeldIsPresentable, PictureMatchesAnnouncement
  <2>6. CASE ~MustAnnounce /\ response' = Video(NewPicture)
             /\ told' = (IF told = NoShape THEN shape' ELSE told)
             /\ delivered' = NewPicture /\ settled' = settled + 1 /\ UNCHANGED <<generation, held>>
    <3>0. shape' \in Shape /\ response' \in Response
      BY <1>4, <2>1, <2>3, <2>6 DEF ReceiveShown, Video, Response
    <3>a. eof' \in BOOLEAN /\ receiving' \in BOOLEAN /\ told' \in Shape \cup {NoShape}
      BY <1>1, <1>4, <2>6, <3>0, Zenon DEF Inv, TypeOK, ReceiveShown
    <3>b. /\ held' \in Picture \cup {NoPicture} /\ delivered' \in Picture /\ cap' = PixelCap
          /\ generation' \in Nat /\ sent' \in Nat /\ settled' \in Nat
      BY <1>1, <1>4, <2>3, <2>6 DEF Inv, TypeOK, ReceiveShown
    <3>1. TypeOK'
      BY <1>1, <2>1, <3>0, <3>a, <3>b DEF TypeOK
    <3>2. Ordered'
      BY <1>1, <1>4, <2>2, <2>3, <2>4, <2>6 DEF Inv, Ordered, ReceiveShown, Later
    <3>3. PacketsConserved'
      BY <1>1, <1>4, <2>6 DEF ReceiveShown, PacketsConserved
    <3>4. told' = shape'
      BY <1>1, <1>4, <2>6 DEF ReceiveShown, MustAnnounce
    <3> QED
      BY <1>1, <1>4, <2>1, <2>3, <2>6, <3>1, <3>2, <3>3, <3>4
      DEF Inv, ReceiveShown, Video, NothingHeldInside, ToldTheShape, FormatCapped,
          HeldIsPresentable, PictureMatchesAnnouncement
  <2> QED
    BY <1>4, <2>5, <2>6 DEF ReceiveShown
<1> QED
  BY <1>2, <1>3, <1>4

LEMMA StutterKeepsInvariant == ASSUME Inv, UNCHANGED vars PROVE Inv'
  BY DEF Inv, TypeOK, NothingHeldInside, ToldTheShape, FormatCapped, HeldIsPresentable, ShownAndCapped,
         Ordered, Later, PacketsConserved, PictureMatchesAnnouncement, vars, state, history

(* The inductive invariant: beside what the caller is promised, nothing is   *)
(* held inside a call, the consumer knows the shape the adapter compares     *)
(* with, and what was delivered, is held and waits is in order of arrival.   *)
THEOREM InductiveInvariant == Spec => []Inv
<1>1. Inv /\ [Next]_vars => Inv'
  BY SendKeepsInvariant, CallsKeepInvariant, PacketsKeepInvariant, StutterKeepsInvariant DEF Next, Receive
<1> QED
  BY InitInvariant, <1>1, PTL DEF Spec

(* Type correctness of the adapter, for any packets and caps.               *)
THEOREM AdapterTypeOK == Spec => []TypeOK
  BY InductiveInvariant, PTL DEF Inv

(* However sends, receives, flushes and resets are mixed, every packet is   *)
(* waiting, held, or was answered for exactly once.                         *)
THEOREM NoPacketLost == Spec => []PacketsConserved
  BY InductiveInvariant, PTL DEF Inv

(* No consumer that listens to the events is handed a picture of a shape it *)
(* was not told of.                                                         *)
THEOREM AnnouncedBeforeReturned == Spec => []PictureMatchesAnnouncement
  BY InductiveInvariant, PTL DEF Inv

(* Pictures are returned in the order of their packets, only those shown    *)
(* and within the caller's cap, across any resets.                          *)
THEOREM PicturesInOrder == Spec => DeliveredInOrder
<1>1. ASSUME Inv, [Next]_vars, delivered' # delivered
      PROVE  /\ delivered = NoPicture \/ delivered.pts < delivered'.pts
             /\ delivered' # NoPicture => ShownAndCapped(delivered')
  <2>1. ReceiveHeld \/ (ReceiveShown /\ delivered' = NewPicture)
    BY <1>1, Zenon DEF Next, Receive, SendPacket, StartReceive, ReceiveEmpty, ReceiveError, ReceiveInvisible,
                ReceiveShown, Flush, Reset, vars, history
  <2>2. CASE ReceiveHeld
    BY <1>1, <2>2 DEF ReceiveHeld, Inv, HeldIsPresentable, Ordered, Later
  <2>3. CASE ReceiveShown /\ delivered' = NewPicture
    <3>1. PopPending /\ Later(delivered, Head(pending).pts)
      BY <1>1, <2>3, Popped DEF ReceiveShown
    <3>2. /\ format'.width * format'.height <= PixelCap
          /\ last_frame_shown' = Head(pending).kind.show /\ last_frame_shown' \in BOOLEAN
      BY <1>1, <2>3, <3>1, Accepted DEF ReceiveShown
    <3> QED
      BY <2>3, <3>1, <3>2, Zenon DEF ReceiveShown, NewPicture, ShapeOf, ShownAndCapped, Later
  <2> QED
    BY <2>1, <2>2, <2>3
<1> QED
  BY InductiveInvariant, <1>1, PTL DEF Spec, DeliveredInOrder

-----------------------------------------------------------------------------
(* Induction on the naturals, with the property as a set.                    *)
LEMMA NaturalInduction ==
  ASSUME NEW S, 0 \in S, \A n \in Nat : n \in S => n + 1 \in S
  PROVE  \A n \in Nat : n \in S
<1> DEFINE T == Nat \ S
<1> SUFFICES ASSUME T # {} PROVE FALSE
  OBVIOUS
<1> DEFINE R == OpToRel(<, Nat)
<1>1. IsWellFoundedOn(R, Nat)
  BY NatLessThanWellFounded, Zenon
<1> HIDE DEF R
<1>2. PICK m \in T : \A y \in T : ~(<<y, m>> \in R)
  <2>1. T \subseteq Nat
    OBVIOUS
  <2> HIDE DEF T
  <2> QED BY <1>1, <2>1, WFMin, Zenon
<1>3. m # 0 /\ m - 1 \in Nat
  OBVIOUS
<1>4. m - 1 \in T
  BY <1>3
<1>5. <<m - 1, m>> \in R
  BY <1>3 DEF R, OpToRel
<1> QED BY <1>2, <1>4, <1>5

(* The values, all in X, that begin with a and follow each other by step.     *)
StepsFrom(f, N, X, a, step) ==
  f \in [0..N -> X] /\ f[0] = a /\ \A n \in 1..N : f[n] = step[<<n, f[n - 1]>>]

LEMMA StepByStep ==
  ASSUME NEW N \in Nat, NEW X, NEW a \in X, NEW step,
         \A n \in 1..N, x \in X : step[<<n, x>>] \in X
  PROVE  \E f : StepsFrom(f, N, X, a, step)
<1> DEFINE Rec(f, m) == f \in [0..m -> X] /\ f[0] = a /\ \A n \in 1..m : f[n] = step[<<n, f[n - 1]>>]
           S == {m \in Nat : m <= N => \E f : Rec(f, m)}
<1>1. 0 \in S
  <2>1. Rec([n \in 0..0 |-> a], 0)
    OBVIOUS
  <2>2. \E f : Rec(f, 0)
    BY <2>1, Zenon
  <2> HIDE DEF Rec
  <2> QED BY <2>2
<1>2. ASSUME NEW m \in Nat, m \in S PROVE m + 1 \in S
  <2> SUFFICES ASSUME m + 1 <= N PROVE \E f : Rec(f, m + 1)
    OBVIOUS
  <2>1. PICK f : Rec(f, m)
    <3> HIDE DEF Rec
    <3> QED BY <1>2
  <2> DEFINE last == step[<<m + 1, f[m]>>]
             g == [n \in 0..m + 1 |-> IF n = m + 1 THEN last ELSE f[n]]
  <2>2. last \in X /\ f[m] \in X
    BY <2>1
  <2>3. g \in [0..m + 1 -> X] /\ g[0] = a
    <3> HIDE DEF last
    <3> QED BY <2>1, <2>2
  <2>4. ASSUME NEW n \in 1..m + 1 PROVE g[n] = step[<<n, g[n - 1]>>]
    <3>1. CASE n = m + 1
      <4>1. n - 1 = m /\ g[m] = f[m] /\ g[n] = last
        BY <3>1
      <4> HIDE DEF g
      <4> QED BY <4>1, <3>1
    <3>2. CASE n # m + 1
      <4>1. n \in 1..m /\ g[n] = f[n] /\ g[n - 1] = f[n - 1]
        BY <3>2
      <4> HIDE DEF g
      <4> QED BY <4>1, <2>1
    <3> QED BY <3>1, <3>2
  <2>5. Rec(g, m + 1)
    <3> HIDE DEF g
    <3> QED BY <2>3, <2>4
  <2> HIDE DEF Rec
  <2> QED BY <2>5
<1>3. N \in S
  <2> HIDE DEF S
  <2> QED BY <1>1, <1>2, NaturalInduction
<1> QED BY <1>3 DEF StepsFrom

-----------------------------------------------------------------------------
(* Powers of two, of every natural.                                          *)
Doubling(N) == [p \in (1..N) \X (Nat \ {0}) |-> 2 * p[2]]
PowersTo(N) == CHOOSE f : StepsFrom(f, N, Nat \ {0}, 1, Doubling(N))
Power(n) == PowersTo(n)[n]

LEMMA PowersToExist ==
  ASSUME NEW N \in Nat
  PROVE  /\ PowersTo(N) \in [0..N -> Nat \ {0}] /\ PowersTo(N)[0] = 1
         /\ \A n \in 1..N : PowersTo(N)[n] = 2 * PowersTo(N)[n - 1]
<1>1. \A n \in 1..N, x \in Nat \ {0} : Doubling(N)[<<n, x>>] = 2 * x /\ 2 * x \in Nat \ {0}
  BY DEF Doubling
<1>2. \E f : StepsFrom(f, N, Nat \ {0}, 1, Doubling(N))
  <2> DEFINE X == Nat \ {0}  st == Doubling(N)
  <2>1. 1 \in X /\ \A n \in 1..N, x \in X : st[<<n, x>>] \in X
    BY <1>1
  <2> HIDE DEF X, st
  <2>2. \E f : StepsFrom(f, N, X, 1, st)
    BY <2>1, StepByStep, Zenon
  <2> QED BY <2>2 DEF X, st
<1> DEFINE F == PowersTo(N)
<1>3. StepsFrom(F, N, Nat \ {0}, 1, Doubling(N))
  BY <1>2 DEF PowersTo
<1> HIDE DEF F
<1>4. F \in [0..N -> Nat \ {0}] /\ F[0] = 1
  BY <1>3 DEF StepsFrom
<1>5. ASSUME NEW n \in 1..N PROVE F[n] = 2 * F[n - 1]
  <2>1. F[n - 1] \in Nat \ {0} /\ F[n] = Doubling(N)[<<n, F[n - 1]>>]
    BY <1>3, <1>4 DEF StepsFrom
  <2> QED BY <1>1, <2>1
<1> QED BY <1>4, <1>5 DEF F

LEMMA PowerFacts ==
  /\ Power(0) = 1
  /\ \A n \in Nat : Power(n) \in Nat \ {0} /\ Power(n + 1) = 2 * Power(n)
<1>1. Power(0) = 1
  <2>1. 0 \in Nat
    OBVIOUS
  <2> QED BY <2>1, PowersToExist DEF Power
<1>2. ASSUME NEW n \in Nat PROVE Power(n) \in Nat \ {0} /\ Power(n + 1) = 2 * Power(n)
  <2> DEFINE f == PowersTo(n)  g == PowersTo(n + 1)
             S == {i \in Nat : i <= n => f[i] = g[i]}
  <2>1. /\ f \in [0..n -> Nat \ {0}] /\ f[0] = 1 /\ \A i \in 1..n : f[i] = 2 * f[i - 1]
    BY PowersToExist
  <2>2. /\ g \in [0..n + 1 -> Nat \ {0}] /\ g[0] = 1 /\ \A i \in 1..n + 1 : g[i] = 2 * g[i - 1]
    <3>1. n + 1 \in Nat
      OBVIOUS
    <3> QED BY <3>1, PowersToExist
  <2> HIDE DEF f, g
  <2>3. 0 \in S
    BY <2>1, <2>2
  <2>4. ASSUME NEW i \in Nat, i \in S PROVE i + 1 \in S
    <3> SUFFICES ASSUME i + 1 <= n PROVE f[i + 1] = g[i + 1]
      OBVIOUS
    <3>1. i + 1 \in 1..n /\ i + 1 \in 1..n + 1 /\ (i + 1) - 1 = i /\ f[i] = g[i]
      BY <2>4
    <3> QED BY <2>1, <2>2, <3>1
  <2>5. \A i \in Nat : i \in S
    <3> HIDE DEF S
    <3> QED BY <2>3, <2>4, NaturalInduction
  <2>6. f[n] = g[n]
    BY <2>5
  <2>7. g[n + 1] = 2 * g[n] /\ f[n] \in Nat \ {0}
    <3>1. n + 1 \in 1..n + 1 /\ (n + 1) - 1 = n /\ n \in 0..n
      OBVIOUS
    <3> QED BY <2>1, <2>2, <3>1
  <2> QED BY <2>6, <2>7 DEF Power, f, g
<1> QED BY <1>1, <1>2

LEMMA PowerPlus ==
  ASSUME NEW n \in Nat
  PROVE  /\ Power(n) \in Nat \ {0}
         /\ Power(n + 1) = 2 * Power(n) /\ Power(n + 2) = 4 * Power(n) /\ Power(n + 3) = 8 * Power(n)
         /\ Power(n + 4) = 16 * Power(n) /\ Power(n + 5) = 32 * Power(n) /\ Power(n + 6) = 64 * Power(n)
         /\ Power(n + 7) = 128 * Power(n) /\ Power(n + 8) = 256 * Power(n)
<1>1. /\ Power(n) \in Nat \ {0} /\ Power(n + 1) = 2 * Power(n)
      /\ Power((n + 1) + 1) = 2 * Power(n + 1) /\ Power((n + 2) + 1) = 2 * Power(n + 2)
      /\ Power((n + 3) + 1) = 2 * Power(n + 3) /\ Power((n + 4) + 1) = 2 * Power(n + 4)
      /\ Power((n + 5) + 1) = 2 * Power(n + 5) /\ Power((n + 6) + 1) = 2 * Power(n + 6)
      /\ Power((n + 7) + 1) = 2 * Power(n + 7)
  BY PowerFacts
<1>2. /\ (n + 1) + 1 = n + 2 /\ (n + 2) + 1 = n + 3 /\ (n + 3) + 1 = n + 4 /\ (n + 4) + 1 = n + 5
      /\ (n + 5) + 1 = n + 6 /\ (n + 6) + 1 = n + 7 /\ (n + 7) + 1 = n + 8
  OBVIOUS
<1> QED BY <1>1, <1>2

LEMMA SmallPowers ==
  /\ Power(0) = 1 /\ Power(1) = 2 /\ Power(2) = 4 /\ Power(3) = 8 /\ Power(4) = 16
  /\ Power(5) = 32 /\ Power(6) = 64 /\ Power(7) = 128 /\ Power(8) = 256 /\ Power(9) = 512
  /\ Power(16) = 65536 /\ Power(24) = 2^24 /\ Power(32) = 2^32
<1>1. Power(0) = 1
  BY PowerFacts
<1>2. /\ Power(0 + 1) = 2 /\ Power(0 + 2) = 4 /\ Power(0 + 3) = 8 /\ Power(0 + 4) = 16
      /\ Power(0 + 5) = 32 /\ Power(0 + 6) = 64 /\ Power(0 + 7) = 128 /\ Power(0 + 8) = 256
  <2>1. 0 \in Nat
    OBVIOUS
  <2> QED BY <1>1, <2>1, PowerPlus
<1>3. Power(8 + 1) = 512 /\ Power(8 + 8) = 65536
  <2>1. 8 \in Nat /\ Power(8) = 256
    BY <1>2
  <2> QED BY <2>1, PowerPlus
<1>4. Power(16 + 8) = 2^24
  <2>1. 16 \in Nat /\ Power(16) = 65536
    BY <1>3
  <2> QED BY <2>1, PowerPlus
<1>5. Power(24 + 8) = 2^32
  <2>1. 24 \in Nat /\ Power(24) = 2^24
    BY <1>4
  <2> QED BY <2>1, PowerPlus
<1> QED BY <1>1, <1>2, <1>3, <1>4, <1>5

-----------------------------------------------------------------------------
(* The number a sequence of bytes stands for, first byte first; f has the     *)
(* numbers of its prefixes.                                                  *)
Byte == 0..255
Counts(b, f) ==
  /\ f \in [0..Len(b) -> Nat] /\ f[0] = 0
  /\ \A i \in 1..Len(b) : f[i] = 256 * f[i - 1] + b[i]
Partials(b) == CHOOSE f : Counts(b, f)
Number(b) == Partials(b)[Len(b)]

LEMMA BytesAreSmall == \A x : x \in Byte <=> x \in Nat /\ x <= 255
BY DEF Byte

LEMMA CountsOnce ==
  ASSUME NEW b \in Seq(Byte), NEW f, NEW g, Counts(b, f), Counts(b, g)
  PROVE  f = g
<1> DEFINE S == {i \in Nat : i <= Len(b) => f[i] = g[i]}
<1>1. Len(b) \in Nat
  BY LenProperties
<1>2. 0 \in S
  BY DEF Counts
<1>3. ASSUME NEW i \in Nat, i \in S PROVE i + 1 \in S
  <2> SUFFICES ASSUME i + 1 <= Len(b) PROVE f[i + 1] = g[i + 1]
    OBVIOUS
  <2>1. i + 1 \in 1..Len(b) /\ (i + 1) - 1 = i /\ f[i] = g[i]
    BY <1>1, <1>3
  <2> QED BY <2>1 DEF Counts
<1>4. \A i \in Nat : i \in S
  <2> HIDE DEF S
  <2> QED BY <1>2, <1>3, NaturalInduction
<1>5. \A i \in 0..Len(b) : f[i] = g[i]
  BY <1>1, <1>4
<1> QED BY <1>1, <1>5 DEF Counts

LEMMA PrefixesAre ==
  ASSUME NEW b \in Seq(Byte), NEW f, Counts(b, f)
  PROVE  Partials(b) = f /\ Number(b) = f[Len(b)]
<1>1. Counts(b, Partials(b))
  BY DEF Partials
<1>2. Partials(b) = f
  BY <1>1, CountsOnce
<1> QED BY <1>2 DEF Number

Bytewise(b) == [p \in (1..Len(b)) \X Nat |-> 256 * p[2] + b[p[1]]]

LEMMA PrefixesCount ==
  ASSUME NEW b \in Seq(Byte)
  PROVE  Counts(b, Partials(b))
<1> DEFINE N == Len(b)  st == Bytewise(b)
<1>1. N \in Nat /\ 0 \in Nat /\ \A i \in 1..N : b[i] \in Nat
  <2>1. N \in Nat /\ \A i \in 1..N : b[i] \in Byte
    BY LenProperties, ElementOfSeq
  <2> HIDE DEF N
  <2> QED BY <2>1, BytesAreSmall
<1>2. \A n \in 1..N, x \in Nat : st[<<n, x>>] = 256 * x + b[n] /\ 256 * x + b[n] \in Nat
  BY <1>1 DEF Bytewise
<1> HIDE DEF st
<1>3. PICK f : StepsFrom(f, N, Nat, 0, st)
  <2> HIDE DEF N
  <2>1. \A n \in 1..N, x \in Nat : st[<<n, x>>] \in Nat
    <3>1. ASSUME NEW n \in 1..N, NEW x \in Nat PROVE st[<<n, x>>] \in Nat
      <4>1. st[<<n, x>>] = 256 * x + b[n] /\ 256 * x + b[n] \in Nat
        BY <1>2
      <4> QED BY <4>1
    <3> QED BY <3>1, Zenon
  <2>2. \E f : StepsFrom(f, N, Nat, 0, st)
    BY <1>1, <2>1, StepByStep, Zenon
  <2> QED BY <2>2
<1>4. Counts(b, f)
  <2>1. f \in [0..N -> Nat] /\ f[0] = 0
    BY <1>3 DEF StepsFrom
  <2>2. ASSUME NEW i \in 1..N PROVE f[i] = 256 * f[i - 1] + b[i]
    <3> HIDE DEF N
    <3>1. f[i] = st[<<i, f[i - 1]>>]
      BY <1>3 DEF StepsFrom
    <3>2. i - 1 \in 0..N
      BY <1>1
    <3>3. f[i - 1] \in Nat
      BY <2>1, <3>2
    <3> QED BY <1>2, <3>1, <3>3
  <2> QED BY <2>1, <2>2 DEF Counts
<1> QED BY <1>4 DEF Partials

LEMMA NumberOfNone == Number(<<>>) = 0 /\ <<>> \in Seq(Byte)
<1>1. <<>> \in Seq(Byte) /\ Len(<<>>) = 0
  OBVIOUS
<1>2. Counts(<<>>, [i \in 0..0 |-> 0])
  BY <1>1 DEF Counts
<1> DEFINE f == [i \in 0..0 |-> 0]
<1>3. Number(<<>>) = f[Len(<<>>)]
  <2>1. Counts(<<>>, f)
    BY <1>2
  <2> HIDE DEF f
  <2> QED BY <1>1, <2>1, PrefixesAre, Zenon
<1> QED BY <1>1, <1>3

LEMMA NumberOfAppend ==
  ASSUME NEW b \in Seq(Byte), NEW x \in Byte
  PROVE  /\ Append(b, x) \in Seq(Byte) /\ Len(Append(b, x)) = Len(b) + 1
         /\ Number(Append(b, x)) = 256 * Number(b) + x
         /\ \A i \in 0..Len(b) : Partials(Append(b, x))[i] = Partials(b)[i]
<1> DEFINE N == Len(b)  c == Append(b, x)  f == Partials(b)
           g == [i \in 0..N + 1 |-> IF i <= N THEN f[i] ELSE 256 * f[N] + x]
<1>1. c \in Seq(Byte) /\ Len(c) = N + 1 /\ N \in Nat /\ x \in Nat
      /\ (\A i \in 1..N : c[i] = b[i]) /\ c[N + 1] = x
  <2>1. c \in Seq(Byte) /\ Len(c) = N + 1 /\ N \in Nat
        /\ (\A i \in 1..N : c[i] = b[i]) /\ c[N + 1] = x
    BY AppendProperties, LenProperties
  <2>2. x \in Nat
    BY DEF Byte
  <2> HIDE DEF c, N
  <2> QED BY <2>1, <2>2
<1>2. f \in [0..N -> Nat] /\ f[0] = 0 /\ \A i \in 1..N : f[i] = 256 * f[i - 1] + b[i]
  BY PrefixesCount DEF Counts
<1> HIDE DEF f, c
<1>3. g \in [0..N + 1 -> Nat] /\ g[0] = 0
  BY <1>1, <1>2
<1>4. ASSUME NEW i \in 1..N + 1 PROVE g[i] = 256 * g[i - 1] + c[i]
  <2>1. CASE i = N + 1
    BY <1>1, <1>2, <2>1
  <2>2. CASE i # N + 1
    <3>1. i \in 1..N /\ g[i] = f[i] /\ g[i - 1] = f[i - 1] /\ c[i] = b[i]
      BY <1>1, <2>2
    <3> HIDE DEF g
    <3> QED BY <1>2, <3>1
  <2> QED BY <2>1, <2>2
<1>5. Counts(c, g)
  <2> HIDE DEF g
  <2> QED BY <1>1, <1>3, <1>4 DEF Counts
<1>6. Partials(c) = g /\ Number(c) = g[N + 1]
  <2> HIDE DEF g
  <2> QED BY <1>1, <1>5, PrefixesAre
<1>7. g[N + 1] = 256 * f[N] + x /\ \A i \in 0..N : g[i] = f[i]
  BY <1>1
<1> QED BY <1>1, <1>6, <1>7 DEF c, f, Number

(* n bytes stand for a number below 256^n; so do the bytes after m.           *)
LEMMA NumberBounds ==
  ASSUME NEW b \in Seq(Byte), NEW m \in 0..Len(b)
  PROVE  /\ Partials(b)[m] \in Nat /\ Number(b) \in Nat
         /\ Partials(b)[m] * Power(8 * (Len(b) - m)) <= Number(b)
         /\ Number(b) < (Partials(b)[m] + 1) * Power(8 * (Len(b) - m))
         /\ Number(b) < Power(8 * Len(b))
<1> DEFINE N == Len(b)  f == Partials(b)
           P(i) == f[i] * Power(8 * (N - i)) <= f[N] /\ f[N] < (f[i] + 1) * Power(8 * (N - i))
           S == {j \in Nat : j <= N => P(N - j)}
<1>1. N \in Nat /\ \A i \in 1..N : b[i] \in 0..255
  BY LenProperties, ElementOfSeq DEF Byte
<1>2. f \in [0..N -> Nat] /\ f[0] = 0 /\ \A i \in 1..N : f[i] = 256 * f[i - 1] + b[i]
  BY PrefixesCount DEF Counts
<1> HIDE DEF f, N
<1>3. 0 \in S
  <2>1. N - 0 = N /\ 8 * (N - N) = 0 /\ f[N] \in Nat /\ Power(0) = 1
    BY <1>1, <1>2, SmallPowers
  <2>2. f[N] * 1 <= f[N] /\ f[N] < (f[N] + 1) * 1
    BY <2>1
  <2> QED BY <2>1, <2>2
<1>4. ASSUME NEW j \in Nat, j \in S PROVE j + 1 \in S
  <2> SUFFICES ASSUME j + 1 <= N PROVE P(N - (j + 1))
    OBVIOUS
  <2> DEFINE i == N - j  p == Power(8 * j)  q == Power(8 * (j + 1))
  <2>1. P(i)
    <3>1. j <= N
      BY <1>1
    <3> HIDE DEF P
    <3> QED BY <1>4, <3>1
  <2>2. i \in 1..N /\ i - 1 = N - (j + 1) /\ N - i = j /\ N - (i - 1) = j + 1
    BY <1>1
  <2>3. f[i] = 256 * f[i - 1] + b[i] /\ b[i] \in 0..255 /\ f[i - 1] \in Nat /\ f[i] \in Nat /\ f[N] \in Nat
    BY <1>1, <1>2, <2>2
  <2>4. p \in Nat \ {0} /\ q = 256 * p
    <3> DEFINE k == 8 * j
    <3>1. k \in Nat /\ k + 8 = 8 * (j + 1)
      OBVIOUS
    <3>2. Power(k) \in Nat \ {0} /\ Power(k + 8) = 256 * Power(k)
      <4> HIDE DEF k
      <4> QED BY <3>1, PowerPlus, Zenon
    <3> QED BY <3>1, <3>2
  <2>5. f[i] * p <= f[N] /\ f[N] < (f[i] + 1) * p
    <3>1. Power(8 * (N - i)) = p
      BY <2>2
    <3> QED BY <2>1, <3>1
  <2> HIDE DEF p, q
  <2> DEFINE x == f[i - 1]  y == f[i]  v == f[N]  z == b[i]
  <2>6. /\ x \in Nat /\ y \in Nat /\ v \in Nat /\ z \in 0..255 /\ y = 256 * x + z
        /\ y * p <= v /\ v < (y + 1) * p
    BY <2>3, <2>5
  <2> HIDE DEF x, y, v, z
  <2>7. x * q <= v /\ v < (x + 1) * q
    <3>1. y * p = 256 * (x * p) + z * p /\ x * q = 256 * (x * p)
      BY <2>4, <2>6
    <3>2. z * p \in Nat /\ (x + 1) * q = 256 * (x * p) + 256 * p
      BY <2>4, <2>6
    <3>3. (y + 1) * p = 256 * (x * p) + (z + 1) * p
      BY <2>4, <2>6
    <3>4. (z + 1) * p <= 256 * p
      BY <2>4, <2>6
    <3>5. x * p \in Nat /\ (z + 1) * p \in Nat
      BY <2>4, <2>6
    <3> DEFINE xp == x * p  zp == z * p  z1p == (z + 1) * p
    <3>6. /\ xp \in Nat /\ zp \in Nat /\ z1p \in Nat /\ p \in Nat /\ z1p <= 256 * p
          /\ y * p = 256 * xp + zp /\ x * q = 256 * xp /\ (x + 1) * q = 256 * xp + 256 * p
          /\ (y + 1) * p = 256 * xp + z1p
      BY <3>1, <3>2, <3>3, <3>4, <3>5, <2>4
    <3> HIDE DEF xp, zp, z1p
    <3> DEFINE A == y * p  B == x * q  C == (x + 1) * q  D == (y + 1) * p
    <3>7. A <= v /\ v < D /\ A = 256 * xp + zp /\ B = 256 * xp /\ C = 256 * xp + 256 * p /\ D = 256 * xp + z1p
      BY <2>6, <3>6
    <3> HIDE DEF A, B, C, D
    <3>8. B <= v /\ v < C
      BY <2>6, <3>6, <3>7
    <3> QED BY <3>8 DEF B, C
  <2>8. Power(8 * (N - (i - 1))) = q
    BY <2>2 DEF q
  <2>9. P(i - 1)
    BY <2>7, <2>8 DEF x, v
  <2> QED BY <2>2, <2>9
<1>5. \A j \in Nat : j \in S
  <2> HIDE DEF S
  <2> QED BY <1>3, <1>4, NaturalInduction
<1>6. ASSUME NEW i \in 0..N PROVE P(i)
  <2>1. N - i \in Nat /\ N - i <= N /\ N - (N - i) = i
    BY <1>1
  <2>2. P(N - (N - i))
    BY <1>5, <2>1
  <2> QED BY <2>1, <2>2
<1>7. f[m] \in Nat /\ f[N] \in Nat /\ P(m) /\ P(0)
  <2>1. m \in 0..N /\ 0 \in 0..N /\ N \in 0..N
    <3>1. m \in 0..N
      BY DEF N
    <3> HIDE DEF N
    <3> QED BY <1>1, <3>1
  <2>2. P(m)
    BY <1>6, <2>1
  <2>3. P(0)
    BY <1>6, <2>1
  <2>4. f[m] \in Nat /\ f[N] \in Nat
    <3> HIDE DEF N
    <3> QED BY <1>2, <2>1, Zenon
  <2> HIDE DEF P
  <2> QED BY <2>2, <2>3, <2>4
<1>8. f[N] < Power(8 * N)
  <2>1. f[0] = 0 /\ N - 0 = N /\ f[N] < (f[0] + 1) * Power(8 * (N - 0))
    BY <1>1, <1>2, <1>7
  <2>2. (0 + 1) * Power(8 * N) = Power(8 * N)
    <3>1. 8 * N \in Nat
      BY <1>1
    <3>2. Power(8 * N) \in Nat
      BY <3>1, PowerFacts, Zenon
    <3> QED BY <3>2
  <2> QED BY <2>1, <2>2
<1> QED BY <1>7, <1>8 DEF N, f, Number

(* A carry out of the register is an addition of one to the bytes before it:  *)
(* they are not all 0xFF, or it would have nowhere to go.                     *)
CarryReaches(b, i) == \A j \in i + 1..Len(b) : b[j] = 255

LEMMA AllOnes ==
  ASSUME NEW b \in Seq(Byte), CarryReaches(b, 0)
  PROVE  Number(b) + 1 = Power(8 * Len(b))
<1> DEFINE N == Len(b)  f == Partials(b)  S == {i \in Nat : i <= N => f[i] + 1 = Power(8 * i)}
<1>1. N \in Nat /\ \A i \in 1..N : b[i] = 255
  BY LenProperties DEF CarryReaches
<1>2. f \in [0..N -> Nat] /\ f[0] = 0 /\ \A i \in 1..N : f[i] = 256 * f[i - 1] + b[i]
  BY PrefixesCount DEF Counts
<1> HIDE DEF f, N
<1>3. 0 \in S
  <2>1. 8 * 0 = 0 /\ Power(0) = 1
    BY PowerFacts
  <2> QED BY <1>2, <2>1
<1>4. ASSUME NEW i \in Nat, i \in S PROVE i + 1 \in S
  <2> SUFFICES ASSUME i + 1 <= N PROVE f[i + 1] + 1 = Power(8 * (i + 1))
    OBVIOUS
  <2>1. i + 1 \in 1..N /\ (i + 1) - 1 = i /\ f[i] + 1 = Power(8 * i) /\ i \in 0..N
    BY <1>1, <1>4
  <2>2. f[i + 1] = 256 * f[i] + 255 /\ f[i] \in Nat
    BY <1>1, <1>2, <2>1
  <2>3. Power(8 * (i + 1)) = 256 * Power(8 * i)
    <3> DEFINE k == 8 * i
    <3>1. k \in Nat /\ k + 8 = 8 * (i + 1)
      OBVIOUS
    <3>2. Power(k + 8) = 256 * Power(k)
      <4> HIDE DEF k
      <4> QED BY <3>1, PowerPlus
    <3> QED BY <3>1, <3>2
  <2> QED BY <2>1, <2>2, <2>3
<1>5. \A i \in Nat : i \in S
  <2> HIDE DEF S
  <2> QED BY <1>3, <1>4, NaturalInduction
<1>6. f[N] + 1 = Power(8 * N)
  BY <1>1, <1>5
<1> QED BY <1>6 DEF f, N, Number

LEMMA CarryAddsOne ==
  ASSUME NEW b \in Seq(Byte), Number(b) + 1 < Power(8 * Len(b))
  PROVE  /\ AddOneToOutput(b) \in Seq(Byte) /\ Len(AddOneToOutput(b)) = Len(b)
         /\ Number(AddOneToOutput(b)) = Number(b) + 1
<1> DEFINE N == Len(b)  f == Partials(b)  c == AddOneToOutput(b)
           g == [i \in 0..N |-> IF CarryReaches(b, i) THEN f[i] + 1 ELSE f[i]]
<1>1. N \in Nat /\ \A i \in 1..N : b[i] \in Nat /\ b[i] <= 255
  <2>1. N \in Nat /\ \A i \in 1..N : b[i] \in Byte
    BY LenProperties, ElementOfSeq
  <2> HIDE DEF N
  <2> QED BY <2>1, BytesAreSmall
<1>2. f \in [0..N -> Nat] /\ f[0] = 0 /\ \A i \in 1..N : f[i] = 256 * f[i - 1] + b[i]
  BY PrefixesCount DEF Counts
<1>3. ~CarryReaches(b, 0)
  <2>1. N \in Nat /\ Number(b) \in Nat
    <3>1. f[N] \in Nat
      BY <1>1, <1>2
    <3> QED BY <1>1, <3>1 DEF Number
  <2> SUFFICES ASSUME CarryReaches(b, 0) PROVE FALSE
    OBVIOUS
  <2>2. Number(b) + 1 = Power(8 * Len(b))
    BY AllOnes
  <2> QED BY <2>1, <2>2
<1>4. /\ c = [i \in 1..N |-> c[i]]
      /\ \A i \in 1..N : c[i] = IF CarryReaches(b, i) THEN (b[i] + 1) % 256 ELSE b[i]
  <2>1. DOMAIN b = 1..N
    BY LenProperties
  <2>2. c = [i \in 1..N |-> IF CarryReaches(b, i) THEN (b[i] + 1) % 256 ELSE b[i]]
    BY <2>1 DEF AddOneToOutput, CarryReaches
  <2> QED BY <2>2
<1> HIDE DEF c, f
<1>5. c \in Seq(Byte) /\ Len(c) = N
  <2>1. ASSUME NEW i \in 1..N PROVE c[i] \in Byte
    <3>1. c[i] \in Nat /\ c[i] <= 255
      <4>1. b[i] \in Nat /\ b[i] <= 255 /\ (c[i] = (b[i] + 1) % 256 \/ c[i] = b[i])
        BY <1>1, <1>4
      <4> QED BY <4>1
    <3> QED BY <3>1, BytesAreSmall
  <2>2. c \in [1..N -> Byte]
    <3> HIDE DEF N
    <3> QED BY <1>4, <2>1
  <2>3. c \in Seq(Byte)
    BY <1>1, <2>2, IsASeq
  <2> QED BY <1>1, <2>2, <2>3, LenProperties
<1>6. ASSUME NEW i \in 1..N
      PROVE  CarryReaches(b, i - 1) <=> CarryReaches(b, i) /\ b[i] = 255
  BY <1>1 DEF CarryReaches
<1>7. g \in [0..N -> Nat] /\ g[0] = 0
  BY <1>1, <1>2, <1>3
<1>8. ASSUME NEW i \in 1..N PROVE g[i] = 256 * g[i - 1] + c[i]
  <2>1. i \in 0..N /\ i - 1 \in 0..N
    BY <1>1
  <2>2. /\ g[i] = (IF CarryReaches(b, i) THEN f[i] + 1 ELSE f[i])
        /\ g[i - 1] = (IF CarryReaches(b, i - 1) THEN f[i - 1] + 1 ELSE f[i - 1])
    <3> HIDE DEF CarryReaches
    <3> QED BY <2>1
  <2> HIDE DEF g
  <2>a. f[i] \in Nat /\ f[i - 1] \in Nat /\ f[i] = 256 * f[i - 1] + b[i]
    BY <1>2, <2>1
  <2>b. c[i] = IF CarryReaches(b, i) THEN (b[i] + 1) % 256 ELSE b[i]
    BY <1>4
  <2>c. b[i] \in Nat /\ b[i] <= 255
    BY <1>1
  <2>3. CASE CarryReaches(b, i) /\ b[i] = 255
    <3>1. CarryReaches(b, i - 1) /\ (255 + 1) % 256 = 0
      BY <1>6, <2>3
    <3>2. g[i] = f[i] + 1 /\ g[i - 1] = f[i - 1] + 1 /\ c[i] = 0
      BY <2>2, <2>b, <2>3, <3>1
    <3> QED BY <2>a, <2>3, <3>2
  <2>4. CASE CarryReaches(b, i) /\ b[i] # 255
    <3>1. ~CarryReaches(b, i - 1)
      BY <1>6, <2>4
    <3>2. (b[i] + 1) % 256 = b[i] + 1
      <4> DEFINE z == b[i]
      <4>1. z \in Nat /\ z <= 254
        BY <2>c, <2>4
      <4> HIDE DEF z
      <4>2. (z + 1) % 256 = z + 1
        BY <4>1
      <4> QED BY <4>2 DEF z
    <3>3. g[i] = f[i] + 1 /\ g[i - 1] = f[i - 1] /\ c[i] = b[i] + 1
      BY <2>2, <2>b, <2>4, <3>1, <3>2
    <3> QED BY <2>a, <2>c, <3>3
  <2>5. CASE ~CarryReaches(b, i)
    <3>1. ~CarryReaches(b, i - 1) /\ g[i] = f[i] /\ g[i - 1] = f[i - 1] /\ c[i] = b[i]
      BY <1>6, <2>2, <2>b, <2>5
    <3> QED BY <2>a, <3>1
  <2> QED BY <2>3, <2>4, <2>5
<1>9. Counts(c, g)
  <2> HIDE DEF g, N
  <2> QED BY <1>5, <1>7, <1>8 DEF Counts
<1>10. Number(c) = g[N]
  <2> HIDE DEF g
  <2> QED BY <1>5, <1>9, PrefixesAre
<1>11. g[N] = f[N] + 1
  BY <1>1 DEF CarryReaches
<1> QED BY <1>5, <1>10, <1>11 DEF c, f, Number

-----------------------------------------------------------------------------
LEMMA PowerMonotone ==
  ASSUME NEW m \in Nat, NEW n \in Nat, m <= n
  PROVE  Power(m) <= Power(n)
<1> DEFINE S == {k \in Nat : Power(m) <= Power(m + k)}
<1>1. 0 \in S
  <2>1. m + 0 = m /\ Power(m) \in Nat
    BY PowerFacts
  <2> QED BY <2>1
<1>2. ASSUME NEW k \in Nat, k \in S PROVE k + 1 \in S
  <2>1. m + k \in Nat /\ (m + k) + 1 = m + (k + 1)
    OBVIOUS
  <2>2. Power(m) \in Nat /\ Power(m + k) \in Nat /\ Power((m + k) + 1) = 2 * Power(m + k)
    BY <2>1, PowerFacts
  <2>3. Power(m) <= Power(m + k)
    BY <1>2
  <2> QED BY <2>1, <2>2, <2>3
<1>3. \A k \in Nat : k \in S
  <2> HIDE DEF S
  <2> QED BY <1>1, <1>2, NaturalInduction
<1>4. n - m \in Nat /\ m + (n - m) = n
  OBVIOUS
<1>5. n - m \in S
  <2> HIDE DEF S
  <2> QED BY <1>3, <1>4
<1> QED BY <1>4, <1>5

LEMMA LargerPowers ==
  /\ Power(23) = 2^23 /\ Power(25) = 2^25 /\ Power(31) = 2^31
  /\ \A n \in Nat : Power(n + 24) = 2^24 * Power(n) /\ Power(n + 31) = 2^31 * Power(n)
                    /\ Power(n + 32) = 2^32 * Power(n)
<1>1. Power(16 + 7) = 2^23 /\ Power(24 + 1) = 2^25 /\ Power(24 + 7) = 2^31
  <2>1. 16 \in Nat /\ 24 \in Nat /\ Power(16) = 65536 /\ Power(24) = 2^24
    BY SmallPowers
  <2>2. Power(16 + 7) = 128 * Power(16)
    BY <2>1, PowerPlus
  <2>3. Power(24 + 1) = 2 * Power(24) /\ Power(24 + 7) = 128 * Power(24)
    BY <2>1, PowerPlus
  <2> QED BY <2>1, <2>2, <2>3
<1>2. ASSUME NEW n \in Nat
      PROVE  Power(n + 24) = 2^24 * Power(n) /\ Power(n + 31) = 2^31 * Power(n)
             /\ Power(n + 32) = 2^32 * Power(n)
  <2>1. Power(n) \in Nat /\ Power(n + 8) = 256 * Power(n)
    BY PowerPlus
  <2>2. Power((n + 8) + 8) = 256 * Power(n + 8)
    <3>1. n + 8 \in Nat
      OBVIOUS
    <3> QED BY <3>1, PowerPlus
  <2>3. Power((n + 16) + 8) = 256 * Power(n + 16)
    <3>1. n + 16 \in Nat
      OBVIOUS
    <3> QED BY <3>1, PowerPlus
  <2>4. Power((n + 24) + 7) = 128 * Power(n + 24) /\ Power((n + 24) + 8) = 256 * Power(n + 24)
    <3>1. n + 24 \in Nat
      OBVIOUS
    <3> QED BY <3>1, PowerPlus
  <2>5. (n + 8) + 8 = n + 16 /\ (n + 16) + 8 = n + 24 /\ (n + 24) + 7 = n + 31 /\ (n + 24) + 8 = n + 32
    OBVIOUS
  <2> QED BY <2>1, <2>2, <2>3, <2>4, <2>5
<1> QED BY <1>1, <1>2

(* The encoder between two turns.  Low is the bottom of the current interval  *)
(* in units in which the whole is 2^(8 + Scale): the bytes written stand      *)
(* before the 32 - bit_count bits of the register that are still to come,     *)
(* and one bit above those is a carry.                                       *)
Bottom(e) == e.hi * 2^24 + e.lo
Scale(e) == (24 + 8 * Len(e.out)) - e.bit_count
Low(e) == Number(e.out) * Power(32 - e.bit_count) + Bottom(e)
Register(o, r, h, l, c) == [out |-> o, range |-> r, hi |-> h, lo |-> l, bit_count |-> c]
OfRegister(e) ==
  /\ e = Register(e.out, e.range, e.hi, e.lo, e.bit_count)
  /\ e.out \in Seq(Byte) /\ e.range \in Nat /\ e.hi \in Nat /\ e.lo \in Nat /\ e.bit_count \in Nat
  /\ e.range >= 1 /\ e.range <= 255 /\ e.hi <= 255 /\ e.lo < 2^24
  /\ e.bit_count >= 1 /\ e.bit_count <= 24
Coding(e) ==
  /\ OfRegister(e)
  /\ Bottom(e) + e.range <= Power(33 - e.bit_count)
  /\ Low(e) + e.range <= Power(8 + Scale(e))

(* A register with some fields replaced.                                     *)
WithOut(e, x) == [e EXCEPT !.out = x]
WithRange(e, x) == [e EXCEPT !.range = x]
WithHi(e, x) == [e EXCEPT !.hi = x]
WithLo(e, x) == [e EXCEPT !.lo = x]
WithCount(e, x) == [e EXCEPT !.bit_count = x]
WithHiLo(e, a, b) == [e EXCEPT !.hi = a, !.lo = b]
WithRangeOutCount(e, a, b, c) == [e EXCEPT !.range = a, !.out = b, !.bit_count = c]
WithOutHiCount(e, a, b, c) == [e EXCEPT !.out = a, !.hi = b, !.bit_count = c]
WithRangeLoHi(e, a, b, c) == [e EXCEPT !.range = a, !.lo = b, !.hi = c]

LEMMA OneField ==
  ASSUME NEW o, NEW r, NEW h, NEW l, NEW c, NEW x
  PROVE  /\ WithOut(Register(o, r, h, l, c), x) = Register(x, r, h, l, c)
         /\ WithRange(Register(o, r, h, l, c), x) = Register(o, x, h, l, c)
         /\ WithHi(Register(o, r, h, l, c), x) = Register(o, r, x, l, c)
         /\ WithLo(Register(o, r, h, l, c), x) = Register(o, r, h, x, c)
         /\ WithCount(Register(o, r, h, l, c), x) = Register(o, r, h, l, x)
BY DEF Register, WithOut, WithRange, WithHi, WithLo, WithCount

LEMMA FieldsAre ==
  ASSUME NEW o, NEW r, NEW h, NEW l, NEW c
  PROVE  /\ Register(o, r, h, l, c).out = o /\ Register(o, r, h, l, c).range = r
         /\ Register(o, r, h, l, c).hi = h /\ Register(o, r, h, l, c).lo = l
         /\ Register(o, r, h, l, c).bit_count = c
BY DEF Register

LEMMA FieldByField ==
  ASSUME NEW e, NEW a, NEW b, NEW c
  PROVE  /\ WithRangeOutCount(e, a, b, c) = WithCount(WithOut(WithRange(e, a), b), c)
         /\ WithOutHiCount(e, a, b, c) = WithCount(WithHi(WithOut(e, a), b), c)
         /\ WithRangeLoHi(e, a, b, c) = WithHi(WithLo(WithRange(e, a), b), c)
BY DEF WithOut, WithRange, WithHi, WithLo, WithCount, WithRangeOutCount,
       WithOutHiCount, WithRangeLoHi

LEMMA TwoFields ==
  ASSUME NEW o, NEW r, NEW h, NEW l, NEW c, NEW x, NEW y
  PROVE  WithHiLo(Register(o, r, h, l, c), x, y) = Register(o, r, x, y, c)
<1> DEFINE e == Register(o, r, h, l, c)
<1>1. WithHiLo(e, x, y) = WithLo(WithHi(e, x), y)
  BY DEF WithHiLo, WithHi, WithLo
<1> QED BY <1>1, OneField

LEMMA SeveralFields ==
  ASSUME NEW o, NEW r, NEW h, NEW l, NEW c, NEW x, NEW y, NEW z
  PROVE  /\ WithRangeOutCount(Register(o, r, h, l, c), x, y, z) = Register(y, x, h, l, z)
         /\ WithOutHiCount(Register(o, r, h, l, c), x, y, z) = Register(x, r, y, l, z)
         /\ WithRangeLoHi(Register(o, r, h, l, c), x, y, z) = Register(o, x, z, y, c)
BY FieldByField, OneField

LEMMA CodingStarts == Coding(NewEncoder) /\ Low(NewEncoder) = 0 /\ Scale(NewEncoder) = 0
<1> DEFINE e == NewEncoder
<1>0. e = Register(<<>>, 255, 0, 0, 24)
  BY DEF NewEncoder, Register
<1> HIDE DEF e
<1>1. e.out = <<>> /\ e.range = 255 /\ e.hi = 0 /\ e.lo = 0 /\ e.bit_count = 24
  BY <1>0, FieldsAre
<1>r. OfRegister(e)
  <2>1. 0 < 2^24 /\ <<>> \in Seq(Byte)
    BY NumberOfNone
  <2>2. e = Register(e.out, e.range, e.hi, e.lo, e.bit_count)
    BY <1>0, <1>1, Zenon
  <2>3. /\ e.out \in Seq(Byte) /\ e.range \in Nat /\ e.hi \in Nat /\ e.lo \in Nat /\ e.bit_count \in Nat
        /\ e.range >= 1 /\ e.range <= 255 /\ e.hi <= 255 /\ e.lo < 2^24
        /\ e.bit_count >= 1 /\ e.bit_count <= 24
    BY <1>1, <2>1
  <2> QED BY <2>2, <2>3 DEF OfRegister
<1>2. Bottom(e) = 0
  BY <1>1 DEF Bottom
<1>3. Scale(e) = 0
  BY <1>1 DEF Scale
<1>4. Low(e) = 0
  <2>1. 32 - 24 = 8 /\ Power(8) = 256 /\ Number(<<>>) = 0
    BY SmallPowers, NumberOfNone
  <2> QED BY <1>1, <1>2, <2>1 DEF Low
<1>5. Power(33 - e.bit_count) = 512 /\ Power(8 + 0) = 256
  <2>1. 33 - 24 = 9 /\ 8 + 0 = 8
    OBVIOUS
  <2> QED BY <1>1, <2>1, SmallPowers
<1>6. Coding(e)
  <2>1. Bottom(e) + e.range <= Power(33 - e.bit_count)
    BY <1>1, <1>2, <1>5
  <2>2. Low(e) + e.range <= Power(8 + Scale(e))
    BY <1>1, <1>3, <1>4, <1>5
  <2> QED BY <1>r, <2>1, <2>2 DEF Coding
<1> QED BY <1>3, <1>4, <1>6 DEF e

LEMMA DoubledIs ==
  ASSUME NEW e, OfRegister(e)
  PROVE  Doubled(e) = Register(e.out, e.range, (2 * e.hi + e.lo \div 2^23) % 256,
                               (2 * e.lo) % 2^24, e.bit_count)
<1> DEFINE hi1 == (2 * e.hi + e.lo \div 2^23) % 256  lo1 == (2 * e.lo) % 2^24
<1>1. Doubled(e) = WithHiLo(e, hi1, lo1)
  BY DEF Doubled, WithHiLo
<1> DEFINE o == e.out  r == e.range  h == e.hi  l == e.lo  c == e.bit_count
<1>2. e = Register(o, r, h, l, c)
  BY DEF OfRegister
<1> HIDE DEF hi1, lo1, o, r, h, l, c
<1>3. Doubled(e) = Register(o, r, hi1, lo1, c)
  <2>1. WithHiLo(Register(o, r, h, l, c), hi1, lo1) = Register(o, r, hi1, lo1, c)
    BY TwoFields
  <2> QED BY <1>1, <1>2, <2>1, Zenon
<1> QED BY <1>3 DEF hi1, lo1, o, r, c

Shifted(e) ==
  LET hi == (2 * e.hi + e.lo \div 2^23) % 256
      out == IF e.hi >= 128 THEN AddOneToOutput(e.out) ELSE e.out
  IN Register(IF e.bit_count > 1 THEN out ELSE Append(out, hi), 2 * e.range,
              IF e.bit_count > 1 THEN hi ELSE 0, (2 * e.lo) % 2^24,
              IF e.bit_count > 1 THEN e.bit_count - 1 ELSE 8)

LEMMA ShiftedIs ==
  ASSUME NEW e, OfRegister(e)
  PROVE  ShiftBitOut(e) = Shifted(e)
<1> DEFINE hi1 == (2 * e.hi + e.lo \div 2^23) % 256
           lo1 == (2 * e.lo) % 2^24
           out1 == IF e.hi >= 128 THEN AddOneToOutput(e.out) ELSE e.out
           d == Doubled(e)
           o == e.out  r == e.range  c == e.bit_count
           dout == IF e.hi >= 128 THEN AddOneToOutput(d.out) ELSE d.out
           next == WithRangeOutCount(d, 2 * d.range, dout, d.bit_count - 1)
<1>1. ShiftBitOut(e) = IF next.bit_count > 0 THEN next
                       ELSE WithOutHiCount(next, Append(next.out, next.hi), 0, 8)
  BY DEF ShiftBitOut, WithRangeOutCount, WithOutHiCount
<1>2. d = Register(o, r, hi1, lo1, c)
  BY DoubledIs
<1> HIDE DEF hi1, lo1, d
<1>3. d.out = o /\ d.range = r /\ d.bit_count = c
  BY <1>2, FieldsAre
<1>4. next = WithRangeOutCount(d, 2 * r, out1, c - 1)
  BY <1>3
<1> HIDE DEF next, out1
<1>5. next = Register(out1, 2 * r, hi1, lo1, c - 1)
  BY <1>2, <1>4, SeveralFields
<1>6. next.bit_count = c - 1 /\ next.out = out1 /\ next.hi = hi1
  BY <1>5, FieldsAre
<1>7. c \in Nat /\ (c - 1 > 0 <=> c > 1)
  BY DEF OfRegister
<1>8. CASE c > 1
  <2>1. ShiftBitOut(e) = next
    BY <1>1, <1>6, <1>7, <1>8
  <2> QED BY <1>5, <1>8, <2>1 DEF Shifted, hi1, lo1, out1
<1>9. CASE ~(c > 1)
  <2>1. ShiftBitOut(e) = WithOutHiCount(next, Append(out1, hi1), 0, 8)
    BY <1>1, <1>6, <1>7, <1>9
  <2>2. ShiftBitOut(e) = Register(Append(out1, hi1), 2 * r, 0, lo1, 8)
    BY <1>5, <2>1, SeveralFields
  <2> QED BY <1>9, <2>2 DEF Shifted, hi1, lo1, out1
<1> QED BY <1>8, <1>9

LEMMA OfRegisterIs ==
  ASSUME NEW o \in Seq(Byte), NEW r \in 1..255, NEW h \in 0..255, NEW l \in Nat, l < 2^24, NEW c \in 1..24
  PROVE  OfRegister(Register(o, r, h, l, c))
<1> DEFINE e == Register(o, r, h, l, c)
<1>1. e.out = o /\ e.range = r /\ e.hi = h /\ e.lo = l /\ e.bit_count = c
  BY FieldsAre
<1>2. e = Register(e.out, e.range, e.hi, e.lo, e.bit_count)
  BY <1>1, Zenon
<1> HIDE DEF e
<1>3. /\ e.out \in Seq(Byte) /\ e.range \in Nat /\ e.hi \in Nat /\ e.lo \in Nat /\ e.bit_count \in Nat
      /\ e.range >= 1 /\ e.range <= 255 /\ e.hi <= 255 /\ e.lo < 2^24
      /\ e.bit_count >= 1 /\ e.bit_count <= 24
  BY <1>1
<1>4. OfRegister(e)
  BY <1>2, <1>3 DEF OfRegister
<1> QED BY <1>4 DEF e

(* What a register holds, number by number.                                  *)
Holds(e, o, r, h, l, c, v, b, k) ==
  /\ e.out = o /\ e.range = r /\ e.hi = h /\ e.lo = l /\ e.bit_count = c
  /\ o \in Seq(Byte) /\ r \in 1..255 /\ h \in 0..255 /\ l \in 0..2^24 - 1 /\ c \in 1..24
  /\ v = Number(o) /\ v \in Nat /\ b = h * 2^24 + l /\ b \in Nat /\ k = Len(o) /\ k \in Nat
  /\ Bottom(e) = b /\ Low(e) = v * Power(32 - c) + b /\ Scale(e) = (24 + 8 * k) - c

LEMMA Held ==
  ASSUME NEW e, OfRegister(e)
  PROVE  Holds(e, e.out, e.range, e.hi, e.lo, e.bit_count, Number(e.out), Bottom(e), Len(e.out))
<1> DEFINE o == e.out  r == e.range  h == e.hi  l == e.lo  c == e.bit_count  v == Number(o)
           b == Bottom(e)  k == Len(o)
<1>1. o \in Seq(Byte) /\ r \in 1..255 /\ h \in 0..255 /\ l \in 0..2^24 - 1 /\ c \in 1..24
  <2>1. /\ o \in Seq(Byte) /\ r \in Nat /\ h \in Nat /\ l \in Nat /\ c \in Nat
        /\ r >= 1 /\ r <= 255 /\ h <= 255 /\ l < 2^24 /\ c >= 1 /\ c <= 24
    BY DEF OfRegister
  <2> HIDE DEF o, r, h, l, c
  <2> QED BY <2>1
<1>2. k \in Nat /\ v \in Nat
  <2>1. k \in Nat
    BY <1>1, LenProperties
  <2>2. 0 \in 0..k
    BY <2>1
  <2>3. v \in Nat
    BY <1>1, <2>2, NumberBounds
  <2> QED BY <2>1, <2>3
<1>3. b = h * 2^24 + l /\ b \in Nat
  <2>1. b = h * 2^24 + l
    BY DEF Bottom
  <2> HIDE DEF b, h, l
  <2> QED BY <1>1, <2>1
<1>4. Low(e) = v * Power(32 - c) + b
  BY DEF Low
<1>5. Scale(e) = (24 + 8 * k) - c
  BY DEF Scale
<1> HIDE DEF o, r, h, l, c, v, b, k
<1>6. Holds(e, o, r, h, l, c, v, b, k)
  <2>1. e.out = o /\ e.range = r /\ e.hi = h /\ e.lo = l /\ e.bit_count = c /\ v = Number(o) /\ b = Bottom(e)
        /\ k = Len(o)
    BY DEF o, r, h, l, c, v, b, k
  <2> QED BY <1>1, <1>2, <1>3, <1>4, <1>5, <2>1, Zenon DEF Holds
<1> QED BY <1>6 DEF o, r, h, l, c, v, b, k

LEMMA HeldByRegister ==
  ASSUME NEW o \in Seq(Byte), NEW r \in 1..255, NEW h \in 0..255, NEW l \in 0..2^24 - 1, NEW c \in 1..24
  PROVE  LET e == Register(o, r, h, l, c)
         IN OfRegister(e) /\ Holds(e, o, r, h, l, c, Number(o), h * 2^24 + l, Len(o))
<1> DEFINE e == Register(o, r, h, l, c)
<1>1. OfRegister(e)
  <2>1. l \in Nat /\ l < 2^24
    OBVIOUS
  <2> QED BY <2>1, OfRegisterIs, Zenon
<1>2. e.out = o /\ e.range = r /\ e.hi = h /\ e.lo = l /\ e.bit_count = c
  BY FieldsAre
<1> HIDE DEF e
<1>3. Holds(e, o, r, h, l, c, Number(o), Bottom(e), Len(o))
  BY <1>1, <1>2, Held
<1>4. Bottom(e) = h * 2^24 + l
  BY <1>2 DEF Bottom
<1> QED BY <1>1, <1>3, <1>4 DEF e

(* One turn of the renormalisation doubles what the register stands for: a    *)
(* carry is met only when its bit is about to leave, with room before it.     *)
Turned(e, n, s) ==
  /\ Coding(n) /\ n.range = e.range * Power(s) /\ Low(n) = Low(e) * Power(s) /\ Scale(n) = Scale(e) + s

LEMMA ShiftKeeps ==
  ASSUME NEW e, Coding(e), e.range <= 127
  PROVE  Turned(e, ShiftBitOut(e), 1)
<1> DEFINE o == e.out  r == e.range  h == e.hi  l == e.lo  c == e.bit_count  v == Number(o)
           b == Bottom(e)  k == Len(o)  n == ShiftBitOut(e)  P == Power(32 - c)  T == Power(8 + Scale(e))
           h2 == (2 * h + l \div 2^23) % 256  l2 == (2 * l) % 2^24
<1>1. OfRegister(e) /\ b + r <= Power(33 - c) /\ Low(e) + r <= T /\ r <= 127
  BY DEF Coding
<1>2. Holds(e, o, r, h, l, c, v, b, k)
  BY <1>1, Held
<1>3. n = Register(IF c > 1 THEN (IF h >= 128 THEN AddOneToOutput(o) ELSE o)
                   ELSE Append(IF h >= 128 THEN AddOneToOutput(o) ELSE o, h2), 2 * r,
                   IF c > 1 THEN h2 ELSE 0, l2, IF c > 1 THEN c - 1 ELSE 8)
  BY <1>1, ShiftedIs DEF Shifted
<1> HIDE DEF o, r, h, l, c, v, b, k, n, P, T, h2, l2
<1>4. /\ o \in Seq(Byte) /\ r \in 1..127 /\ h \in 0..255 /\ l \in 0..2^24 - 1 /\ c \in 1..24
      /\ v = Number(o) /\ v \in Nat /\ b = h * 2^24 + l /\ b \in Nat /\ k = Len(o) /\ k \in Nat
      /\ Low(e) = v * P + b /\ Scale(e) = (24 + 8 * k) - c
  <2>1. 1 <= 127 /\ \A x \in 1..255 : x <= 127 => x \in 1..127
    OBVIOUS
  <2> QED BY <1>1, <1>2, <2>1 DEF Holds, P
<1>5. /\ P \in Nat \ {0} /\ Power(33 - c) = 2 * P /\ Power(34 - c) = 4 * P
  <2> DEFINE x == 32 - c
  <2>1. x \in Nat /\ x + 1 = 33 - c /\ x + 2 = 34 - c
    BY <1>4
  <2>2. Power(x) \in Nat \ {0} /\ Power(x + 1) = 2 * Power(x) /\ Power(x + 2) = 4 * Power(x)
    <3> HIDE DEF x
    <3> QED BY <2>1, PowerPlus, Zenon
  <2> QED BY <2>1, <2>2 DEF P
<1>6. T \in Nat \ {0} /\ Power(9 + Scale(e)) = 2 * T
  <2> DEFINE x == 8 + Scale(e)
  <2>1. x \in Nat /\ x + 1 = 9 + Scale(e)
    BY <1>4
  <2>2. Power(x) \in Nat \ {0} /\ Power(x + 1) = 2 * Power(x)
    <3> HIDE DEF x
    <3> QED BY <2>1, PowerPlus, Zenon
  <2> QED BY <2>1, <2>2 DEF T
<1>7. /\ h2 \in 0..255 /\ l2 \in 0..2^24 - 1
      /\ h2 * 2^24 + l2 = 2 * (h * 2^24 + l) - (IF h >= 128 THEN 2^32 ELSE 0)
  <2>1. h \in 0..255 /\ l \in 0..2^24 - 1
    BY <1>4
  <2>2. h2 = (2 * h + l \div 2^23) % 256 /\ l2 = (2 * l) % 2^24
    BY DEF h2, l2
  <2> HIDE DEF h, l
  <2>3. CASE l < 2^23
    BY ONLY <2>1, <2>2, <2>3
  <2>4. CASE l >= 2^23
    BY ONLY <2>1, <2>2, <2>4
  <2> QED BY <2>1, <2>3, <2>4
<1>8. 2 * r \in 1..255 /\ 2 * r <= 254 /\ Power(1) = 2
  <2>1. Power(1) = 2
    BY SmallPowers
  <2>2. r \in 1..127
    BY <1>4
  <2> HIDE DEF r
  <2>3. 2 * r \in 1..255 /\ 2 * r <= 254
    BY ONLY <2>2
  <2> QED BY <2>1, <2>3
<1>9. e.range = r
  BY DEF r
<1>10. CASE c > 1
  <2>1. h < 128
    <3>1. 33 - c \in Nat /\ 31 \in Nat /\ 33 - c <= 31
      BY <1>4, <1>10
    <3>2. Power(33 - c) <= 2^31
      <4>1. Power(33 - c) <= Power(31)
        BY <3>1, PowerMonotone
      <4> QED BY <4>1, LargerPowers
    <3>3. b < 2^31
      <4>1. Power(33 - c) \in Nat
        BY <3>1, PowerFacts
      <4> QED BY <1>1, <1>4, <3>2, <4>1
    <3> QED BY <1>4, <3>3
  <2>2. n = Register(o, 2 * r, h2, l2, c - 1) /\ c - 1 \in 1..24
    BY <1>3, <1>4, <1>10, <2>1
  <2>3. OfRegister(n) /\ Holds(n, o, 2 * r, h2, l2, c - 1, v, h2 * 2^24 + l2, k)
    <3> DEFINE r2 == 2 * r  c2 == c - 1  m == Register(o, r2, h2, l2, c2)
    <3>1. r2 \in 1..255 /\ c2 \in 1..24
      BY <1>8, <2>2
    <3> HIDE DEF r2, c2
    <3>2. OfRegister(m) /\ Holds(m, o, r2, h2, l2, c2, Number(o), h2 * 2^24 + l2, Len(o))
      BY <1>4, <1>7, <3>1, HeldByRegister, Zenon
    <3> QED BY <1>4, <2>2, <3>2 DEF r2, c2
  <2>4. /\ Bottom(n) = 2 * b /\ n.range = 2 * r /\ n.bit_count = c - 1
        /\ Low(n) = v * Power(32 - (c - 1)) + 2 * b /\ Scale(n) = (24 + 8 * k) - (c - 1)
    <3>1. h2 * 2^24 + l2 = 2 * b
      BY <1>4, <1>7, <2>1
    <3> QED BY <2>3, <3>1 DEF Holds
  <2>5. 32 - (c - 1) = 33 - c /\ 33 - (c - 1) = 34 - c /\ Scale(n) = Scale(e) + 1 /\ 8 + Scale(n) = 9 + Scale(e)
    BY <1>4, <2>4
  <2>6. Low(n) = 2 * Low(e)
    <3>1. v * (2 * P) = 2 * (v * P)
      BY <1>4, <1>5
    <3>2. Low(n) = v * (2 * P) + 2 * b
      BY <1>5, <2>4, <2>5
    <3>3. v * P \in Nat
      BY <1>4, <1>5
    <3> DEFINE vp == v * P  vq == v * (2 * P)
    <3>4. vq = 2 * vp /\ Low(n) = vq + 2 * b /\ Low(e) = vp + b /\ vp \in Nat
      BY <1>4, <3>1, <3>2, <3>3
    <3> HIDE DEF vp, vq
    <3> QED BY <1>4, <3>4
  <2>7. Bottom(n) + n.range <= Power(33 - n.bit_count)
    <3>1. Power(33 - n.bit_count) = 4 * P /\ b + r <= 2 * P
      BY <1>1, <1>5, <2>4, <2>5
    <3> QED BY <1>4, <1>5, <2>4, <3>1
  <2>8. Low(e) \in Nat
    <3>1. v * P \in Nat
      BY <1>4, <1>5
    <3> QED BY <1>4, <3>1
  <2>9. Low(n) + n.range <= Power(8 + Scale(n))
    <3> DEFINE le == Low(e)  ln == Low(n)  rn == n.range  top == Power(8 + Scale(n))
    <3>1. top = 2 * T
      BY <1>6, <2>5
    <3>2. ln = 2 * le
      BY <2>6
    <3>3. rn = 2 * r
      BY <2>4
    <3>4. le \in Nat /\ T \in Nat /\ r \in Nat
      BY <1>4, <1>6, <2>8
    <3>5. le + r <= T
      BY <1>1, <1>4
    <3> HIDE DEF le, ln, rn, top, T, r
    <3>6. ln + rn <= top
      BY ONLY <3>1, <3>2, <3>3, <3>4, <3>5
    <3> QED BY <3>6 DEF ln, rn, top
  <2>10. Coding(n)
    BY <2>3, <2>7, <2>9 DEF Coding
  <2>11. n.range = e.range * Power(1) /\ Low(n) = Low(e) * Power(1) /\ Scale(n) = Scale(e) + 1
    BY <1>4, <1>8, <1>9, <2>4, <2>5, <2>6, <2>8
  <2> QED BY <2>10, <2>11 DEF Turned, n
<1>11. CASE ~(c > 1)
  <2>1. c = 1 /\ P = 2^31
    <3>1. c = 1
      BY <1>4, <1>11
    <3>2. 32 - 1 = 31
      OBVIOUS
    <3> QED BY <3>1, <3>2, LargerPowers DEF P
  <2> DEFINE carry == IF h >= 128 THEN 1 ELSE 0
             o1 == IF h >= 128 THEN AddOneToOutput(o) ELSE o
             o2 == Append(o1, h2)
  <2>2. o1 \in Seq(Byte) /\ Len(o1) = k /\ Number(o1) = v + carry
    <3>1. CASE h >= 128
      <4>1. v + 1 < Power(8 * k)
        <5> DEFINE x == 8 * k  W == Power(x)
        <5>1. x \in Nat /\ 8 + Scale(e) = x + 31
          BY <1>4, <2>1
        <5>2. T = 2^31 * W /\ W \in Nat
          <6> HIDE DEF x
          <6>1. T = Power(x + 31)
            BY <5>1 DEF T
          <6>2. Power(x + 31) = 2^31 * Power(x) /\ Power(x) \in Nat
            BY <5>1, LargerPowers, PowerFacts, Zenon
          <6> QED BY <6>1, <6>2
        <5> HIDE DEF W
        <5>3. b >= 2^31 /\ r >= 1
          BY <1>4, <3>1
        <5>4. v * 2^31 + b + r <= 2^31 * W
          BY <1>1, <1>4, <2>1, <5>2
        <5>5. v + 1 < W
          BY <1>4, <5>2, <5>3, <5>4
        <5> QED BY <5>5 DEF W
      <4>2. AddOneToOutput(o) \in Seq(Byte) /\ Len(AddOneToOutput(o)) = k /\ Number(AddOneToOutput(o)) = v + 1
        BY <1>4, <4>1, CarryAddsOne
      <4> QED BY <3>1, <4>2
    <3>2. CASE ~(h >= 128)
      BY <1>4, <3>2
    <3> QED BY <3>1, <3>2
  <2> HIDE DEF o1
  <2>3. o2 \in Seq(Byte) /\ Len(o2) = k + 1 /\ Number(o2) = 256 * (v + carry) + h2
    <3>1. h2 \in Byte
      BY <1>7, BytesAreSmall
    <3> QED BY <2>2, <3>1, NumberOfAppend
  <2> HIDE DEF o2
  <2>4. n = Register(o2, 2 * r, 0, l2, 8)
    BY <1>3, <1>11 DEF o1, o2
  <2>5. OfRegister(n) /\ Holds(n, o2, 2 * r, 0, l2, 8, Number(o2), 0 * 2^24 + l2, Len(o2))
    <3> DEFINE r2 == 2 * r  m == Register(o2, r2, 0, l2, 8)
    <3>1. r2 \in 1..255 /\ 8 \in 1..24 /\ 0 \in 0..255
      BY <1>8
    <3> HIDE DEF r2
    <3>2. OfRegister(m) /\ Holds(m, o2, r2, 0, l2, 8, Number(o2), 0 * 2^24 + l2, Len(o2))
      BY <1>7, <2>3, <3>1, HeldByRegister, Zenon
    <3> QED BY <2>4, <3>2 DEF r2
  <2>6. /\ Bottom(n) = l2 /\ n.range = 2 * r /\ n.bit_count = 8
        /\ Low(n) = Number(o2) * Power(32 - 8) + l2 /\ Scale(n) = (24 + 8 * Len(o2)) - 8
    <3>1. 0 * 2^24 + l2 = l2
      BY <1>7
    <3> QED BY <2>5, <3>1 DEF Holds
  <2>7. Scale(n) = Scale(e) + 1 /\ 8 + Scale(n) = 9 + Scale(e)
    BY <1>4, <2>1, <2>3, <2>6
  <2>8. Low(n) = 2 * Low(e) /\ Low(e) \in Nat
    <3>1. 32 - 8 = 24 /\ Power(24) = 2^24
      BY SmallPowers
    <3>2. Low(n) = (256 * (v + carry) + h2) * 2^24 + l2
      BY <2>3, <2>6, <3>1
    <3>3. Low(e) = v * 2^31 + b
      BY <1>4, <2>1
    <3>4. h2 * 2^24 + l2 = 2 * b - carry * 2^32
      BY <1>4, <1>7
    <3>5. carry \in Nat
      OBVIOUS
    <3> HIDE DEF carry
    <3>6. Low(e) \in Nat
      BY <1>4, <3>3
    <3>7. (256 * (v + carry) + h2) * 2^24 + l2 = v * 2^32 + carry * 2^32 + (h2 * 2^24 + l2)
      <4> DEFINE w == v + carry
      <4>1. w \in Nat /\ h2 \in Nat /\ l2 \in Nat /\ v * 2^32 + carry * 2^32 = w * 2^32
        BY <1>4, <1>7, <3>5
      <4> HIDE DEF w
      <4>2. (256 * w + h2) * 2^24 + l2 = w * 2^32 + (h2 * 2^24 + l2)
        BY <4>1
      <4> QED BY <4>1, <4>2 DEF w
    <3>8. Low(n) = v * 2^32 + carry * 2^32 + (2 * b - carry * 2^32)
      BY <3>2, <3>4, <3>7
    <3>9. v * 2^32 = 2 * (v * 2^31)
      BY <1>4
    <3> QED BY <1>4, <3>3, <3>5, <3>6, <3>8, <3>9
  <2>9. Bottom(n) + n.range <= Power(33 - n.bit_count)
    <3>1. 33 - 8 = 25 /\ Power(25) = 2^25
      BY LargerPowers
    <3>2. l2 + 2 * r <= 2^25
      BY <1>7, <1>8
    <3> QED BY <2>6, <3>1, <3>2
  <2>10. Low(n) + n.range <= Power(8 + Scale(n))
    <3> DEFINE le == Low(e)  ln == Low(n)  rn == n.range  top == Power(8 + Scale(n))
    <3>1. top = 2 * T
      BY <1>6, <2>7
    <3>2. ln = 2 * le
      BY <2>8
    <3>3. rn = 2 * r
      BY <2>6
    <3>4. le \in Nat /\ T \in Nat /\ r \in Nat
      BY <1>4, <1>6, <2>8
    <3>5. le + r <= T
      BY <1>1, <1>4
    <3> HIDE DEF le, ln, rn, top, T, r
    <3>6. ln + rn <= top
      BY ONLY <3>1, <3>2, <3>3, <3>4, <3>5
    <3> QED BY <3>6 DEF ln, rn, top
  <2>11. Coding(n)
    BY <2>5, <2>9, <2>10 DEF Coding
  <2>12. n.range = e.range * Power(1) /\ Low(n) = Low(e) * Power(1) /\ Scale(n) = Scale(e) + 1
    BY <1>4, <1>8, <1>9, <2>6, <2>7, <2>8
  <2> QED BY <2>11, <2>12 DEF Turned, n
<1> QED BY <1>10, <1>11

-----------------------------------------------------------------------------
ShiftedOut(s, x) == Times(s, ShiftBitOut, x)
Again(f, x, m) == f = [i \in 0..m |-> IF i = 0 THEN x ELSE ShiftBitOut(f[i - 1])]

LEMMA ShiftedOutTimes ==
  ASSUME NEW s \in Nat, NEW x
  PROVE  \E f : ShiftedOut(s, x) = f[s] /\ f[0] = x /\ \A i \in 1..s : f[i] = ShiftBitOut(f[i - 1])
<1> DEFINE S == {m \in Nat : \E f : Again(f, x, m)}
<1>1. 0 \in S
  <2> DEFINE g == [i \in 0..0 |-> x]
  <2>1. Again(g, x, 0)
    BY DEF Again
  <2> QED BY <2>1
<1>2. ASSUME NEW m \in Nat, m \in S PROVE m + 1 \in S
  <2>1. PICK f : Again(f, x, m)
    BY <1>2
  <2>2. f[0] = x /\ \A i \in 1..m : f[i] = ShiftBitOut(f[i - 1])
    BY <2>1 DEF Again
  <2> DEFINE g == [i \in 0..m + 1 |-> IF i = m + 1 THEN ShiftBitOut(f[m]) ELSE f[i]]
  <2>3. ASSUME NEW i \in 0..m + 1 PROVE g[i] = IF i = 0 THEN x ELSE ShiftBitOut(g[i - 1])
    <3>1. CASE i = 0
      BY <2>2, <3>1
    <3>2. CASE i = m + 1
      <4>1. i # 0 /\ i - 1 = m /\ m \in 0..m + 1 /\ m # m + 1
        BY <3>2
      <4>2. g[i] = ShiftBitOut(f[m]) /\ g[m] = f[m]
        BY <3>2, <4>1
      <4> QED BY <4>1, <4>2
    <3>3. CASE i # 0 /\ i # m + 1
      <4>1. i \in 1..m /\ g[i] = f[i] /\ g[i - 1] = f[i - 1]
        BY <3>3
      <4> QED BY <2>2, <3>3, <4>1
    <3> QED BY <3>1, <3>2, <3>3
  <2>4. Again(g, x, m + 1)
    <3>1. g = [i \in 0..m + 1 |-> g[i]]
      OBVIOUS
    <3> HIDE DEF g
    <3> QED BY <2>3, <3>1, Zenon DEF Again
  <2> HIDE DEF g
  <2> QED BY <2>4
<1>3. s \in S
  <2>1. \A n \in Nat : n \in S
    <3> HIDE DEF S
    <3> QED BY <1>1, <1>2, NaturalInduction
  <2> QED BY <2>1
<1> DEFINE F == CHOOSE f : Again(f, x, s)
<1>4. Again(F, x, s)
  BY <1>3
<1>5. ShiftedOut(s, x) = F[s]
  BY DEF ShiftedOut, Times, Again
<1> HIDE DEF F
<1>6. F[0] = x /\ \A i \in 1..s : F[i] = ShiftBitOut(F[i - 1])
  BY <1>4 DEF Again
<1> QED BY <1>5, <1>6

LEMMA ShiftsAre ==
  ASSUME NEW r \in 1..255
  PROVE  /\ Shift(r) \in 0..7 /\ r * Power(Shift(r)) \in 128..255
         /\ Power(Shift(r)) = 2^Shift(r) /\ \A i \in 0..7 : i < Shift(r) => r * Power(i) <= 127
<1>1. ASSUME NEW s \in 0..7 PROVE Power(s) = 2^s
  <2>1. s = 0 \/ s = 1 \/ s = 2 \/ s = 3 \/ s = 4 \/ s = 5 \/ s = 6 \/ s = 7
    OBVIOUS
  <2>2. CASE s = 0
    <3>1. 2^0 = 1 /\ Power(0) = 1
      BY SmallPowers
    <3> QED BY <2>2, <3>1, Zenon
  <2>3. CASE s = 1
    <3>1. 2^1 = 2 /\ Power(1) = 2
      BY SmallPowers
    <3> QED BY <2>3, <3>1, Zenon
  <2>4. CASE s = 2
    <3>1. 2^2 = 4 /\ Power(2) = 4
      BY SmallPowers
    <3> QED BY <2>4, <3>1, Zenon
  <2>5. CASE s = 3
    <3>1. 2^3 = 8 /\ Power(3) = 8
      BY SmallPowers
    <3> QED BY <2>5, <3>1, Zenon
  <2>6. CASE s = 4
    <3>1. 2^4 = 16 /\ Power(4) = 16
      BY SmallPowers
    <3> QED BY <2>6, <3>1, Zenon
  <2>7. CASE s = 5
    <3>1. 2^5 = 32 /\ Power(5) = 32
      BY SmallPowers
    <3> QED BY <2>7, <3>1, Zenon
  <2>8. CASE s = 6
    <3>1. 2^6 = 64 /\ Power(6) = 64
      BY SmallPowers
    <3> QED BY <2>8, <3>1, Zenon
  <2>9. CASE s = 7
    <3>1. 2^7 = 128 /\ Power(7) = 128
      BY SmallPowers
    <3> QED BY <2>9, <3>1, Zenon
  <2> QED BY <2>1, <2>2, <2>3, <2>4, <2>5, <2>6, <2>7, <2>8, <2>9
<1>2. \E s \in 0..7 : r * Power(s) \in 128..255
  <2>1. CASE r >= 128
    <3>1. 0 \in 0..7 /\ r * Power(0) \in 128..255
      BY <2>1, SmallPowers
    <3> QED BY <3>1
  <2>2. CASE r >= 64 /\ r < 128
    <3>1. 1 \in 0..7 /\ r * Power(1) \in 128..255
      BY <2>2, SmallPowers
    <3> QED BY <3>1
  <2>3. CASE r >= 32 /\ r < 64
    <3>1. 2 \in 0..7 /\ r * Power(2) \in 128..255
      BY <2>3, SmallPowers
    <3> QED BY <3>1
  <2>4. CASE r >= 16 /\ r < 32
    <3>1. 3 \in 0..7 /\ r * Power(3) \in 128..255
      BY <2>4, SmallPowers
    <3> QED BY <3>1
  <2>5. CASE r >= 8 /\ r < 16
    <3>1. 4 \in 0..7 /\ r * Power(4) \in 128..255
      BY <2>5, SmallPowers
    <3> QED BY <3>1
  <2>6. CASE r >= 4 /\ r < 8
    <3>1. 5 \in 0..7 /\ r * Power(5) \in 128..255
      BY <2>6, SmallPowers
    <3> QED BY <3>1
  <2>7. CASE r >= 2 /\ r < 4
    <3>1. 6 \in 0..7 /\ r * Power(6) \in 128..255
      BY <2>7, SmallPowers
    <3> QED BY <3>1
  <2>8. CASE r < 2
    <3>1. 7 \in 0..7 /\ r * Power(7) \in 128..255
      BY <2>8, SmallPowers
    <3> QED BY <3>1
  <2> QED BY <2>1, <2>2, <2>3, <2>4, <2>5, <2>6, <2>7, <2>8
<1>3. Shift(r) = CHOOSE s \in 0..7 : r * Power(s) \in 128..255
  BY <1>1, Zenon DEF Shift
<1>4. Shift(r) \in 0..7 /\ r * Power(Shift(r)) \in 128..255
  BY <1>2, <1>3
<1>5. ASSUME NEW i \in 0..7, i < Shift(r) PROVE r * Power(i) <= 127
  <2> DEFINE s == Shift(r)  p == Power(i)  q == Power(s)
  <2>1. 2 * p <= q /\ p \in Nat /\ q \in Nat
    <3>1. i + 1 \in Nat /\ s \in Nat /\ i + 1 <= s /\ i \in Nat
      BY <1>4, <1>5
    <3>2. Power(i + 1) <= Power(s)
      <4> HIDE DEF s
      <4> QED BY <3>1, PowerMonotone
    <3>3. Power(i + 1) = 2 * p /\ p \in Nat /\ q \in Nat
      BY <3>1, PowerFacts
    <3> QED BY <3>2, <3>3
  <2>2. r * q <= 255
    BY <1>4
  <2> HIDE DEF p, q
  <2>3. r * (2 * p) <= r * q
    BY <2>1
  <2>4. r * (2 * p) = 2 * (r * p) /\ r * p \in Nat /\ r * q \in Nat
    BY <2>1
  <2> DEFINE rp == r * p  rq == r * q  r2p == r * (2 * p)
  <2>5. r2p <= rq /\ r2p = 2 * rp /\ rp \in Nat /\ rq \in Nat /\ rq <= 255
    BY <2>2, <2>3, <2>4
  <2> HIDE DEF rp, rq, r2p
  <2>6. rp <= 127
    BY <2>5
  <2> QED BY <2>6 DEF rp, p
<1> QED BY <1>1, <1>4, <1>5, Zenon

LEMMA PowerSum ==
  ASSUME NEW m \in Nat, NEW n \in Nat
  PROVE  Power(m + n) = Power(m) * Power(n)
<1> DEFINE S == {k \in Nat : Power(m + k) = Power(m) * Power(k)}
<1>1. 0 \in S
  <2>1. m + 0 = m /\ Power(m) \in Nat /\ Power(0) = 1
    BY PowerFacts
  <2> QED BY <2>1
<1>2. ASSUME NEW k \in Nat, k \in S PROVE k + 1 \in S
  <2>1. m + k \in Nat /\ (m + k) + 1 = m + (k + 1)
    OBVIOUS
  <2>2. Power((m + k) + 1) = 2 * Power(m + k) /\ Power(k + 1) = 2 * Power(k) /\ Power(m) \in Nat /\ Power(k) \in Nat
    BY <2>1, PowerFacts
  <2>3. Power(m + k) = Power(m) * Power(k)
    BY <1>2
  <2> DEFINE a == Power(m)  b == Power(k)
  <2>4. Power(m + (k + 1)) = 2 * (a * b) /\ Power(k + 1) = 2 * b /\ a \in Nat /\ b \in Nat
    BY <2>1, <2>2, <2>3
  <2> HIDE DEF a, b
  <2>5. a * (2 * b) = 2 * (a * b)
    BY <2>4
  <2>6. Power(m + (k + 1)) = a * Power(k + 1)
    BY <2>4, <2>5
  <2> QED BY <2>6 DEF a
<1>3. \A k \in Nat : k \in S
  <2> HIDE DEF S
  <2> QED BY <1>1, <1>2, NaturalInduction
<1> QED BY <1>3

LEMMA Renormalised ==
  ASSUME NEW e, Coding(e), NEW s \in 0..7, \A i \in 0..7 : i < s => e.range * Power(i) <= 127
  PROVE  Turned(e, ShiftedOut(s, e), s)
<1>1. PICK f : /\ ShiftedOut(s, e) = f[s] /\ f[0] = e
               /\ \A i \in 1..s : f[i] = ShiftBitOut(f[i - 1])
  <2>1. s \in Nat
    OBVIOUS
  <2> QED BY <2>1, ShiftedOutTimes
<1> DEFINE S == {i \in Nat : i <= s => Turned(e, f[i], i)}
<1>2. OfRegister(e)
  BY DEF Coding
<1>3. e.range \in Nat /\ Low(e) \in Nat /\ Scale(e) \in Int
  <2>1. Holds(e, e.out, e.range, e.hi, e.lo, e.bit_count, Number(e.out), Bottom(e), Len(e.out))
    BY <1>2, Held
  <2> DEFINE p == Power(32 - e.bit_count)  v == Number(e.out)  b == Bottom(e)  k == Len(e.out)
             r == e.range  c == e.bit_count
  <2>3. v \in Nat /\ b \in Nat /\ Low(e) = v * p + b /\ r \in 1..255
        /\ c \in 1..24 /\ k \in Nat /\ Scale(e) = (24 + 8 * k) - c
    BY <2>1 DEF Holds
  <2> HIDE DEF v, b, k, r, c
  <2>2. p \in Nat
    <3>1. 32 - c \in Nat
      BY <2>3
    <3>2. Power(32 - c) \in Nat
      <4> DEFINE x == 32 - c
      <4> HIDE DEF x
      <4> QED BY <3>1, PowerFacts DEF x
    <3> QED BY <3>2 DEF c
  <2> HIDE DEF p
  <2>4. v * p \in Nat
    BY <2>2, <2>3
  <2>5. r \in Nat /\ Low(e) \in Nat /\ Scale(e) \in Int
    BY <2>3, <2>4
  <2> QED BY <2>5 DEF r
<1>4. 0 \in S
  <2>1. Power(0) = 1
    BY PowerFacts
  <2>2. Turned(e, e, 0)
    BY <1>3, <2>1 DEF Turned
  <2> QED BY <1>1, <2>2
<1>5. ASSUME NEW i \in Nat, i \in S PROVE i + 1 \in S
  <2> SUFFICES ASSUME i + 1 <= s PROVE Turned(e, f[i + 1], i + 1)
    OBVIOUS
  <2>1. Turned(e, f[i], i) /\ f[i + 1] = ShiftBitOut(f[i])
    <3>1. i + 1 \in 1..s /\ (i + 1) - 1 = i /\ i <= s
      OBVIOUS
    <3> QED BY <1>1, <1>5, <3>1
  <2> DEFINE m == f[i]  n == f[i + 1]  p == Power(i)
  <2>2. i \in 0..7 /\ i < s /\ e.range * p <= 127
    <3>1. i \in 0..7 /\ i < s
      OBVIOUS
    <3> QED BY <3>1
  <2>3. Coding(m) /\ m.range = e.range * p /\ Low(m) = Low(e) * p /\ Scale(m) = Scale(e) + i
    BY <2>1 DEF Turned
  <2>4. n = ShiftBitOut(m)
    BY <2>1
  <2>5. p \in Nat /\ Power(i + 1) = 2 * p /\ Power(1) = 2
    BY PowerFacts, SmallPowers
  <2> HIDE DEF m, n, p
  <2>6. Turned(m, n, 1)
    BY <2>2, <2>3, <2>4, ShiftKeeps
  <2>7. Coding(n) /\ n.range = (e.range * p) * 2 /\ Low(n) = (Low(e) * p) * 2 /\ Scale(n) = (Scale(e) + i) + 1
    BY <2>3, <2>5, <2>6 DEF Turned
  <2>8. (e.range * p) * 2 = e.range * (2 * p) /\ (Low(e) * p) * 2 = Low(e) * (2 * p) /\ (Scale(e) + i) + 1 = Scale(e) + (i + 1)
    BY <1>3, <2>5
  <2>9. Turned(e, n, i + 1)
    BY <2>5, <2>7, <2>8 DEF Turned
  <2> QED BY <2>9 DEF n
<1>6. Turned(e, f[s], s)
  <2>1. \A i \in Nat : i \in S
    <3> HIDE DEF S
    <3> QED BY <1>4, <1>5, NaturalInduction
  <2> QED BY <2>1
<1> QED BY <1>1, <1>6

(* A boolean takes one side of the split and leaves the other.               *)
Taken(r, prob, bit) == IF bit THEN r - Split(r, prob) ELSE Split(r, prob)
Skipped(r, prob, bit) == IF bit THEN Split(r, prob) ELSE 0
Ready(e) == Coding(e) /\ e.range >= 128

LEMMA SplitInside ==
  ASSUME NEW r \in 128..255, NEW prob \in 0..255
  PROVE  Split(r, prob) \in 1..r - 1
<1> DEFINE x == (r - 1) * prob  y == x \div 256
<1>1. x \in Nat /\ x <= (r - 1) * 255
  <2>1. r - 1 \in Nat /\ prob \in Nat /\ prob <= 255
    OBVIOUS
  <2> DEFINE m == r - 1
  <2>2. m * prob \in Nat /\ m * prob <= m * 255
    <3>1. m \in Nat
      OBVIOUS
    <3> HIDE DEF m
    <3> QED BY <2>1, <3>1
  <2> QED BY <2>2
<1> HIDE DEF x
<1>2. y \in Nat /\ y * 256 <= x
  BY <1>1
<1> HIDE DEF y
<1>3. y <= r - 2
  BY <1>1, <1>2
<1>4. Split(r, prob) = 1 + y
  BY DEF Split, x, y
<1> QED BY <1>2, <1>3, <1>4

Coded(e, prob, bit) ==
  IF bit THEN Register(e.out, e.range - Split(e.range, prob),
                       (e.hi + (e.lo + Split(e.range, prob)) \div 2^24) % 256,
                       (e.lo + Split(e.range, prob)) % 2^24, e.bit_count)
  ELSE Register(e.out, Split(e.range, prob), e.hi, e.lo, e.bit_count)

LEMMA WriteBoolIs ==
  ASSUME NEW e, OfRegister(e), NEW prob, NEW bit \in BOOLEAN
  PROVE  /\ Coded(e, prob, bit).range = Taken(e.range, prob, bit)
         /\ WriteBool(e, prob, bit) = ShiftedOut(Shift(Taken(e.range, prob, bit)), Coded(e, prob, bit))
<1> DEFINE o == e.out  r == e.range  h == e.hi  l == e.lo  c == e.bit_count
           split == Split(r, prob)  l2 == (l + split) % 2^24  h2 == (h + (l + split) \div 2^24) % 256
           coded == IF bit THEN WithRangeLoHi(e, r - split, l2, h2) ELSE WithRange(e, split)
<1>1. WriteBool(e, prob, bit) = ShiftedOut(Shift(coded.range), coded)
  BY DEF WriteBool, ShiftedOut, WithRangeLoHi, WithRange
<1>2. e = Register(o, r, h, l, c)
  BY DEF OfRegister
<1> DEFINE r2 == r - split
<1>3. coded = Coded(e, prob, bit)
  <2>1. WithRangeLoHi(e, r2, l2, h2) = Register(o, r2, h2, l2, c)
    <3> HIDE DEF o, r, h, l, c, split, l2, h2, r2
    <3>1. WithRangeLoHi(Register(o, r, h, l, c), r2, l2, h2) = Register(o, r2, h2, l2, c)
      BY SeveralFields
    <3> QED BY <1>2, <3>1, Zenon
  <2>2. WithRange(e, split) = Register(o, split, h, l, c)
    <3> HIDE DEF o, r, h, l, c, split, l2, h2, r2
    <3>1. WithRange(Register(o, r, h, l, c), split) = Register(o, split, h, l, c)
      BY OneField
    <3> QED BY <1>2, <3>1, Zenon
  <2>3. CASE bit = TRUE
    <3>1. coded = Register(o, r2, h2, l2, c)
      BY <2>1, <2>3
    <3> QED BY <2>3, <3>1 DEF Coded
  <2>4. CASE bit = FALSE
    <3>1. coded = Register(o, split, h, l, c)
      BY <2>2, <2>4
    <3> QED BY <2>4, <3>1 DEF Coded
  <2> QED BY <2>3, <2>4, Zenon
<1>4. Coded(e, prob, bit).range = Taken(r, prob, bit)
  BY FieldsAre DEF Coded, Taken
<1> HIDE DEF coded
<1> QED BY <1>1, <1>3, <1>4

LEMMA CodeKeeps ==
  ASSUME NEW e, Ready(e), NEW prob \in 0..255, NEW bit \in BOOLEAN
  PROVE  LET m == Coded(e, prob, bit)
         IN /\ Coding(m) /\ m.range \in 1..254 /\ Scale(m) = Scale(e)
            /\ Low(m) = Low(e) + Skipped(e.range, prob, bit)
<1> DEFINE o == e.out  r == e.range  h == e.hi  l == e.lo  c == e.bit_count  v == Number(o)
           b == Bottom(e)  k == Len(o)  P == Power(32 - c)  W == Power(33 - c)  T == Power(8 + Scale(e))
           split == Split(r, prob)  l2 == (l + split) % 2^24  h2 == (h + (l + split) \div 2^24) % 256
           m == Coded(e, prob, bit)  vp == v * P
<1>1. OfRegister(e) /\ b + r <= W /\ Low(e) + r <= T /\ r >= 128
  BY DEF Ready, Coding
<1>2. Holds(e, o, r, h, l, c, v, b, k)
  BY <1>1, Held
<1>3. m = IF bit THEN Register(o, r - split, h2, l2, c) ELSE Register(o, split, h, l, c)
  BY DEF Coded
<1> HIDE DEF o, r, h, l, c, v, b, k, P, W, T, h2, l2, split, m, vp
<1>4. /\ o \in Seq(Byte) /\ r \in 128..255 /\ h \in 0..255 /\ l \in 0..2^24 - 1 /\ c \in 1..24
      /\ v = Number(o) /\ v \in Nat /\ b = h * 2^24 + l /\ b \in Nat /\ k = Len(o) /\ k \in Nat
      /\ Low(e) = vp + b /\ Scale(e) = (24 + 8 * k) - c
  <2>1. \A x \in 1..255 : x >= 128 => x \in 128..255
    OBVIOUS
  <2> QED BY <1>1, <1>2, <2>1 DEF Holds, P, vp
<1>5. split \in 1..r - 1
  BY <1>4, SplitInside, Zenon DEF split
<1>6. W <= 2^32 /\ W \in Nat /\ P \in Nat /\ T \in Nat
  <2>1. 33 - c \in Nat /\ 32 \in Nat /\ 33 - c <= 32 /\ 32 - c \in Nat /\ 8 + Scale(e) \in Nat
    BY <1>4
  <2> DEFINE x == 33 - c  y == 32 - c  z == 8 + Scale(e)
  <2>2. Power(x) <= Power(32) /\ Power(x) \in Nat /\ Power(y) \in Nat /\ Power(z) \in Nat
    <3> HIDE DEF x, y, z
    <3> QED BY <2>1, PowerMonotone, PowerFacts DEF x, y, z
  <2> QED BY <2>2, SmallPowers DEF W, P, T
<1>7. vp \in Nat
  BY <1>4, <1>6 DEF vp
<1>8. CASE bit = TRUE
  <2> DEFINE r2 == r - split
  <2>1. m = Register(o, r2, h2, l2, c)
    BY <1>3, <1>8
  <2>2. h2 \in 0..255 /\ l2 \in 0..2^24 - 1 /\ h2 * 2^24 + l2 = b + split
    <3>1. b + split < 2^32
      BY <1>1, <1>4, <1>5, <1>6
    <3>2. split \in 0..255
      BY <1>4, <1>5
    <3>3. CASE l + split < 2^24
      <4>1. (l + split) \div 2^24 = 0 /\ l2 = l + split
        BY <1>4, <3>2, <3>3 DEF l2
      <4>2. h2 = h
        <5>1. h2 = (h + 0) % 256
          BY <4>1 DEF h2
        <5> QED BY <1>4, <5>1
      <4> QED BY <1>4, <3>2, <3>3, <4>1, <4>2
    <3>4. CASE l + split >= 2^24
      <4>1. (l + split) \div 2^24 = 1 /\ l2 = l + split - 2^24
        BY <1>4, <3>2, <3>4 DEF l2
      <4>2. h + 1 <= 255
        <5>1. h * 2^24 + 2^24 < 2^32
          BY <1>4, <3>1, <3>2, <3>4
        <5> QED BY <1>4, <5>1
      <4>3. h2 = h + 1
        <5>1. h2 = (h + 1) % 256
          BY <4>1 DEF h2
        <5> QED BY <1>4, <4>2, <5>1
      <4> QED BY <1>4, <3>2, <3>4, <4>1, <4>2, <4>3
    <3> QED BY <1>4, <3>2, <3>3, <3>4
  <2>3. r2 \in 1..254 /\ r2 + split = r
    BY <1>4, <1>5
  <2> HIDE DEF r2
  <2>4. OfRegister(m) /\ Holds(m, o, r2, h2, l2, c, Number(o), h2 * 2^24 + l2, Len(o))
    <3>1. r2 \in 1..255
      BY <2>3
    <3> QED BY <1>4, <2>1, <2>2, <3>1, HeldByRegister, Zenon
  <2>5. /\ Bottom(m) = b + split /\ m.range = r2 /\ m.bit_count = c /\ Low(m) = vp + (b + split)
        /\ Scale(m) = Scale(e)
    BY <1>4, <2>2, <2>4 DEF Holds, vp, P
  <2>6. Bottom(m) + m.range <= Power(33 - m.bit_count)
    <3>1. b + r <= W /\ Power(33 - m.bit_count) = W
      BY <1>1, <2>5 DEF W
    <3> QED BY <1>4, <1>5, <2>3, <2>5, <3>1
  <2>7. Low(m) + m.range <= Power(8 + Scale(m))
    <3>1. Power(8 + Scale(m)) = T
      BY <2>5 DEF T
    <3> QED BY <1>1, <1>4, <1>5, <1>6, <1>7, <2>3, <2>5, <3>1
  <2>8. Coding(m)
    BY <2>4, <2>6, <2>7 DEF Coding
  <2>9. Skipped(e.range, prob, bit) = split
    BY <1>8 DEF Skipped, split, r
  <2>10. Low(m) = Low(e) + split
    BY <1>4, <1>5, <1>7, <2>5
  <2> QED BY <2>3, <2>5, <2>8, <2>9, <2>10 DEF m
<1>9. CASE bit = FALSE
  <2>1. m = Register(o, split, h, l, c)
    BY <1>3, <1>9
  <2>2. split \in 1..254 /\ split < r
    BY <1>4, <1>5
  <2>3. OfRegister(m) /\ Holds(m, o, split, h, l, c, Number(o), h * 2^24 + l, Len(o))
    <3>1. split \in 1..255
      BY <2>2
    <3> QED BY <1>4, <2>1, <3>1, HeldByRegister, Zenon
  <2>4. /\ Bottom(m) = b /\ m.range = split /\ m.bit_count = c /\ Low(m) = vp + b /\ Scale(m) = Scale(e)
    BY <1>4, <2>3 DEF Holds, vp, P
  <2>5. Bottom(m) + m.range <= Power(33 - m.bit_count)
    <3>1. b + r <= W /\ Power(33 - m.bit_count) = W
      BY <1>1, <2>4 DEF W
    <3> QED BY <1>4, <1>6, <2>2, <2>4, <3>1
  <2>6. Low(m) + m.range <= Power(8 + Scale(m))
    <3>1. Power(8 + Scale(m)) = T
      BY <2>4 DEF T
    <3> QED BY <1>1, <1>4, <1>6, <1>7, <2>2, <2>4, <3>1
  <2>7. Coding(m)
    BY <2>3, <2>5, <2>6 DEF Coding
  <2>8. Skipped(e.range, prob, bit) = 0 /\ Low(m) = Low(e) + 0
    BY <1>4, <1>7, <1>9, <2>4 DEF Skipped
  <2> QED BY <2>2, <2>4, <2>7, <2>8 DEF m
<1> QED BY <1>8, <1>9, Zenon

(* What write_bool does to the interval: s doublings of the side it takes.    *)
Writes(e, prob, bit, n) ==
  LET s == Shift(Taken(e.range, prob, bit))
  IN /\ s \in 0..7 /\ Ready(n)
     /\ Taken(e.range, prob, bit) * 2^s = Taken(e.range, prob, bit) * Power(s)
     /\ n.range = Taken(e.range, prob, bit) * Power(s)
     /\ Low(n) = (Low(e) + Skipped(e.range, prob, bit)) * Power(s)
     /\ Scale(n) = Scale(e) + s

LEMMA WriteKeeps ==
  ASSUME NEW e, Ready(e), NEW prob \in 0..255, NEW bit \in BOOLEAN
  PROVE  Writes(e, prob, bit, WriteBool(e, prob, bit))
<1> DEFINE m == Coded(e, prob, bit)  t == Taken(e.range, prob, bit)  s == Shift(t)  n == WriteBool(e, prob, bit)
           k == Skipped(e.range, prob, bit)
<1>1. OfRegister(e)
  BY DEF Ready, Coding
<1>2. m.range = t /\ n = ShiftedOut(s, m)
  BY <1>1, WriteBoolIs
<1>3. Coding(m) /\ m.range \in 1..254 /\ Scale(m) = Scale(e) /\ Low(m) = Low(e) + k
  BY CodeKeeps, Zenon
<1> HIDE DEF m, t, n, k
<1>4. t \in 1..255
  BY <1>2, <1>3
<1>5. s \in 0..7 /\ t * Power(s) \in 128..255 /\ Power(s) = 2^s /\ \A i \in 0..7 : i < s => t * Power(i) <= 127
  BY <1>4, ShiftsAre, Zenon
<1> HIDE DEF s
<1>6. Turned(m, n, s)
  BY <1>2, <1>3, <1>5, Renormalised
<1>7. /\ Coding(n) /\ n.range = t * Power(s) /\ Low(n) = (Low(e) + k) * Power(s) /\ Scale(n) = Scale(e) + s
  BY <1>2, <1>3, <1>6 DEF Turned
<1>8. n.range >= 128
  BY <1>5, <1>7
<1> QED BY <1>5, <1>7, <1>8 DEF Writes, Ready, t, s, n, k

-----------------------------------------------------------------------------
LEMMA PowersOfTwo ==
  ASSUME NEW n \in 0..23
  PROVE  Power(n) = 2^n
<1>1. Power(0) = 2^0
  BY PowerFacts
<1>2. Power(1) = 2^1
  <2>1. 0 \in Nat /\ 0 + 1 = 1 /\ 2^1 = 2 * 2^0
    OBVIOUS
  <2>2. Power(0 + 1) = 2 * Power(0)
    BY <2>1, PowerFacts
  <2> QED BY <1>1, <2>1, <2>2
<1>3. Power(2) = 2^2
  <2>1. 1 \in Nat /\ 1 + 1 = 2 /\ 2^2 = 2 * 2^1
    OBVIOUS
  <2>2. Power(1 + 1) = 2 * Power(1)
    BY <2>1, PowerFacts
  <2> QED BY <1>2, <2>1, <2>2
<1>4. Power(3) = 2^3
  <2>1. 2 \in Nat /\ 2 + 1 = 3 /\ 2^3 = 2 * 2^2
    OBVIOUS
  <2>2. Power(2 + 1) = 2 * Power(2)
    BY <2>1, PowerFacts
  <2> QED BY <1>3, <2>1, <2>2
<1>5. Power(4) = 2^4
  <2>1. 3 \in Nat /\ 3 + 1 = 4 /\ 2^4 = 2 * 2^3
    OBVIOUS
  <2>2. Power(3 + 1) = 2 * Power(3)
    BY <2>1, PowerFacts
  <2> QED BY <1>4, <2>1, <2>2
<1>6. Power(5) = 2^5
  <2>1. 4 \in Nat /\ 4 + 1 = 5 /\ 2^5 = 2 * 2^4
    OBVIOUS
  <2>2. Power(4 + 1) = 2 * Power(4)
    BY <2>1, PowerFacts
  <2> QED BY <1>5, <2>1, <2>2
<1>7. Power(6) = 2^6
  <2>1. 5 \in Nat /\ 5 + 1 = 6 /\ 2^6 = 2 * 2^5
    OBVIOUS
  <2>2. Power(5 + 1) = 2 * Power(5)
    BY <2>1, PowerFacts
  <2> QED BY <1>6, <2>1, <2>2
<1>8. Power(7) = 2^7
  <2>1. 6 \in Nat /\ 6 + 1 = 7 /\ 2^7 = 2 * 2^6
    OBVIOUS
  <2>2. Power(6 + 1) = 2 * Power(6)
    BY <2>1, PowerFacts
  <2> QED BY <1>7, <2>1, <2>2
<1>9. Power(8) = 2^8
  <2>1. 7 \in Nat /\ 7 + 1 = 8 /\ 2^8 = 2 * 2^7
    OBVIOUS
  <2>2. Power(7 + 1) = 2 * Power(7)
    BY <2>1, PowerFacts
  <2> QED BY <1>8, <2>1, <2>2
<1>10. Power(9) = 2^9
  <2>1. 8 \in Nat /\ 8 + 1 = 9 /\ 2^9 = 2 * 2^8
    OBVIOUS
  <2>2. Power(8 + 1) = 2 * Power(8)
    BY <2>1, PowerFacts
  <2> QED BY <1>9, <2>1, <2>2
<1>11. Power(10) = 2^10
  <2>1. 9 \in Nat /\ 9 + 1 = 10 /\ 2^10 = 2 * 2^9
    OBVIOUS
  <2>2. Power(9 + 1) = 2 * Power(9)
    BY <2>1, PowerFacts
  <2> QED BY <1>10, <2>1, <2>2
<1>12. Power(11) = 2^11
  <2>1. 10 \in Nat /\ 10 + 1 = 11 /\ 2^11 = 2 * 2^10
    OBVIOUS
  <2>2. Power(10 + 1) = 2 * Power(10)
    BY <2>1, PowerFacts
  <2> QED BY <1>11, <2>1, <2>2
<1>13. Power(12) = 2^12
  <2>1. 11 \in Nat /\ 11 + 1 = 12 /\ 2^12 = 2 * 2^11
    OBVIOUS
  <2>2. Power(11 + 1) = 2 * Power(11)
    BY <2>1, PowerFacts
  <2> QED BY <1>12, <2>1, <2>2
<1>14. Power(13) = 2^13
  <2>1. 12 \in Nat /\ 12 + 1 = 13 /\ 2^13 = 2 * 2^12
    OBVIOUS
  <2>2. Power(12 + 1) = 2 * Power(12)
    BY <2>1, PowerFacts
  <2> QED BY <1>13, <2>1, <2>2
<1>15. Power(14) = 2^14
  <2>1. 13 \in Nat /\ 13 + 1 = 14 /\ 2^14 = 2 * 2^13
    OBVIOUS
  <2>2. Power(13 + 1) = 2 * Power(13)
    BY <2>1, PowerFacts
  <2> QED BY <1>14, <2>1, <2>2
<1>16. Power(15) = 2^15
  <2>1. 14 \in Nat /\ 14 + 1 = 15 /\ 2^15 = 2 * 2^14
    OBVIOUS
  <2>2. Power(14 + 1) = 2 * Power(14)
    BY <2>1, PowerFacts
  <2> QED BY <1>15, <2>1, <2>2
<1>17. Power(16) = 2^16
  <2>1. 15 \in Nat /\ 15 + 1 = 16 /\ 2^16 = 2 * 2^15
    OBVIOUS
  <2>2. Power(15 + 1) = 2 * Power(15)
    BY <2>1, PowerFacts
  <2> QED BY <1>16, <2>1, <2>2
<1>18. Power(17) = 2^17
  <2>1. 16 \in Nat /\ 16 + 1 = 17 /\ 2^17 = 2 * 2^16
    OBVIOUS
  <2>2. Power(16 + 1) = 2 * Power(16)
    BY <2>1, PowerFacts
  <2> QED BY <1>17, <2>1, <2>2
<1>19. Power(18) = 2^18
  <2>1. 17 \in Nat /\ 17 + 1 = 18 /\ 2^18 = 2 * 2^17
    OBVIOUS
  <2>2. Power(17 + 1) = 2 * Power(17)
    BY <2>1, PowerFacts
  <2> QED BY <1>18, <2>1, <2>2
<1>20. Power(19) = 2^19
  <2>1. 18 \in Nat /\ 18 + 1 = 19 /\ 2^19 = 2 * 2^18
    OBVIOUS
  <2>2. Power(18 + 1) = 2 * Power(18)
    BY <2>1, PowerFacts
  <2> QED BY <1>19, <2>1, <2>2
<1>21. Power(20) = 2^20
  <2>1. 19 \in Nat /\ 19 + 1 = 20 /\ 2^20 = 2 * 2^19
    OBVIOUS
  <2>2. Power(19 + 1) = 2 * Power(19)
    BY <2>1, PowerFacts
  <2> QED BY <1>20, <2>1, <2>2
<1>22. Power(21) = 2^21
  <2>1. 20 \in Nat /\ 20 + 1 = 21 /\ 2^21 = 2 * 2^20
    OBVIOUS
  <2>2. Power(20 + 1) = 2 * Power(20)
    BY <2>1, PowerFacts
  <2> QED BY <1>21, <2>1, <2>2
<1>23. Power(22) = 2^22
  <2>1. 21 \in Nat /\ 21 + 1 = 22 /\ 2^22 = 2 * 2^21
    OBVIOUS
  <2>2. Power(21 + 1) = 2 * Power(21)
    BY <2>1, PowerFacts
  <2> QED BY <1>22, <2>1, <2>2
<1>24. Power(23) = 2^23
  <2>1. 22 \in Nat /\ 22 + 1 = 23 /\ 2^23 = 2 * 2^22
    OBVIOUS
  <2>2. Power(22 + 1) = 2 * Power(22)
    BY <2>1, PowerFacts
  <2> QED BY <1>23, <2>1, <2>2
<1>25. \/ n = 0 \/ n = 1 \/ n = 2 \/ n = 3 \/ n = 4 \/ n = 5 \/ n = 6 \/ n = 7 \/ n = 8 \/ n = 9 \/ n = 10 \/ n = 11
       \/ n = 12 \/ n = 13 \/ n = 14 \/ n = 15 \/ n = 16 \/ n = 17 \/ n = 18 \/ n = 19 \/ n = 20 \/ n = 21 \/ n = 22 \/ n = 23
  OBVIOUS
<1>26. CASE n = 0
  BY <1>1, <1>26, Zenon
<1>27. CASE n = 1
  BY <1>2, <1>27, Zenon
<1>28. CASE n = 2
  BY <1>3, <1>28, Zenon
<1>29. CASE n = 3
  BY <1>4, <1>29, Zenon
<1>30. CASE n = 4
  BY <1>5, <1>30, Zenon
<1>31. CASE n = 5
  BY <1>6, <1>31, Zenon
<1>32. CASE n = 6
  BY <1>7, <1>32, Zenon
<1>33. CASE n = 7
  BY <1>8, <1>33, Zenon
<1>34. CASE n = 8
  BY <1>9, <1>34, Zenon
<1>35. CASE n = 9
  BY <1>10, <1>35, Zenon
<1>36. CASE n = 10
  BY <1>11, <1>36, Zenon
<1>37. CASE n = 11
  BY <1>12, <1>37, Zenon
<1>38. CASE n = 12
  BY <1>13, <1>38, Zenon
<1>39. CASE n = 13
  BY <1>14, <1>39, Zenon
<1>40. CASE n = 14
  BY <1>15, <1>40, Zenon
<1>41. CASE n = 15
  BY <1>16, <1>41, Zenon
<1>42. CASE n = 16
  BY <1>17, <1>42, Zenon
<1>43. CASE n = 17
  BY <1>18, <1>43, Zenon
<1>44. CASE n = 18
  BY <1>19, <1>44, Zenon
<1>45. CASE n = 19
  BY <1>20, <1>45, Zenon
<1>46. CASE n = 20
  BY <1>21, <1>46, Zenon
<1>47. CASE n = 21
  BY <1>22, <1>47, Zenon
<1>48. CASE n = 22
  BY <1>23, <1>48, Zenon
<1>49. CASE n = 23
  BY <1>24, <1>49, Zenon
<1> QED BY <1>25, <1>26, <1>27, <1>28, <1>29, <1>30, <1>31, <1>32, <1>33, <1>34, <1>35, <1>36, <1>37,
           <1>38, <1>39, <1>40, <1>41, <1>42, <1>43, <1>44, <1>45, <1>46, <1>47, <1>48, <1>49

DoubledOut(s, x) == Times(s, Doubled, x)
AgainDoubled(f, x, m) == f = [i \in 0..m |-> IF i = 0 THEN x ELSE Doubled(f[i - 1])]

LEMMA DoubledTimes ==
  ASSUME NEW s \in Nat, NEW x
  PROVE  \E f : DoubledOut(s, x) = f[s] /\ f[0] = x /\ \A i \in 1..s : f[i] = Doubled(f[i - 1])
<1> DEFINE S == {m \in Nat : \E f : AgainDoubled(f, x, m)}
<1>1. 0 \in S
  <2> DEFINE g == [i \in 0..0 |-> x]
  <2>1. AgainDoubled(g, x, 0)
    BY DEF AgainDoubled
  <2> QED BY <2>1
<1>2. ASSUME NEW m \in Nat, m \in S PROVE m + 1 \in S
  <2>1. PICK f : AgainDoubled(f, x, m)
    BY <1>2
  <2>2. f[0] = x /\ \A i \in 1..m : f[i] = Doubled(f[i - 1])
    BY <2>1 DEF AgainDoubled
  <2> DEFINE g == [i \in 0..m + 1 |-> IF i = m + 1 THEN Doubled(f[m]) ELSE f[i]]
  <2>3. ASSUME NEW i \in 0..m + 1 PROVE g[i] = IF i = 0 THEN x ELSE Doubled(g[i - 1])
    <3>1. CASE i = 0
      BY <2>2, <3>1
    <3>2. CASE i = m + 1
      <4>1. i # 0 /\ i - 1 = m /\ m \in 0..m + 1 /\ m # m + 1
        BY <3>2
      <4>2. g[i] = Doubled(f[m]) /\ g[m] = f[m]
        BY <3>2, <4>1
      <4> QED BY <4>1, <4>2
    <3>3. CASE i # 0 /\ i # m + 1
      <4>1. i \in 1..m /\ g[i] = f[i] /\ g[i - 1] = f[i - 1]
        BY <3>3
      <4> QED BY <2>2, <3>3, <4>1
    <3> QED BY <3>1, <3>2, <3>3
  <2>4. AgainDoubled(g, x, m + 1)
    <3>1. g = [i \in 0..m + 1 |-> g[i]]
      OBVIOUS
    <3> HIDE DEF g
    <3> QED BY <2>3, <3>1, Zenon DEF AgainDoubled
  <2> HIDE DEF g
  <2> QED BY <2>4
<1>3. s \in S
  <2>1. \A n \in Nat : n \in S
    <3> HIDE DEF S
    <3> QED BY <1>1, <1>2, NaturalInduction
  <2> QED BY <2>1
<1> DEFINE F == CHOOSE f : AgainDoubled(f, x, s)
<1>4. AgainDoubled(F, x, s)
  BY <1>3
<1>5. DoubledOut(s, x) = F[s]
  BY DEF DoubledOut, Times, AgainDoubled
<1> HIDE DEF F
<1>6. F[0] = x /\ \A i \in 1..s : F[i] = Doubled(F[i - 1])
  BY <1>4 DEF AgainDoubled
<1> QED BY <1>5, <1>6

(* One more bit of the register is above what the bytes will show.           *)
LEMMA DoubledOnce ==
  ASSUME NEW e, OfRegister(e)
  PROVE  /\ OfRegister(Doubled(e)) /\ Bottom(e) \in Nat
         /\ Bottom(Doubled(e)) = 2 * Bottom(e) - (IF Bottom(e) >= 2^31 THEN 2^32 ELSE 0)
<1> DEFINE o == e.out  r == e.range  h == e.hi  l == e.lo  c == e.bit_count  b == Bottom(e)  d == Doubled(e)
           h2 == (2 * h + l \div 2^23) % 256  l2 == (2 * l) % 2^24
<1>1. Holds(e, o, r, h, l, c, Number(o), b, Len(o))
  BY Held
<1>2. d = Register(o, r, h2, l2, c)
  BY DoubledIs
<1>3. h \in 0..255 /\ l \in 0..2^24 - 1
  BY <1>1 DEF Holds
<1>4. /\ h2 \in 0..255 /\ l2 \in 0..2^24 - 1
      /\ h2 * 2^24 + l2 = 2 * (h * 2^24 + l) - (IF h >= 128 THEN 2^32 ELSE 0)
  <2>1. h2 = (2 * h + l \div 2^23) % 256 /\ l2 = (2 * l) % 2^24
    OBVIOUS
  <2> HIDE DEF h, l, h2, l2
  <2>2. CASE l < 2^23
    BY ONLY <1>3, <2>1, <2>2
  <2>3. CASE l >= 2^23
    BY ONLY <1>3, <2>1, <2>3
  <2> QED BY <1>3, <2>2, <2>3
<1> HIDE DEF o, r, h, l, c, b, d, h2, l2
<1>5. o \in Seq(Byte) /\ r \in 1..255 /\ c \in 1..24 /\ b = h * 2^24 + l /\ b \in Nat
  BY <1>1 DEF Holds
<1>6. OfRegister(d) /\ Holds(d, o, r, h2, l2, c, Number(o), h2 * 2^24 + l2, Len(o))
  BY <1>2, <1>4, <1>5, HeldByRegister, Zenon
<1>7. Bottom(d) = h2 * 2^24 + l2
  BY <1>6 DEF Holds
<1>8. h >= 128 <=> b >= 2^31
  BY <1>3, <1>5
<1>9. Bottom(d) = 2 * b - (IF b >= 2^31 THEN 2^32 ELSE 0)
  BY <1>4, <1>5, <1>7, <1>8
<1> QED BY <1>5, <1>6, <1>9 DEF d, b

LEMMA TailBits ==
  ASSUME NEW e, OfRegister(e), Bottom(e) < Power(33 - e.bit_count)
  PROVE  LET t == DoubledOut(e.bit_count, e)
         IN /\ OfRegister(t)
            /\ Bottom(t) = Bottom(e) * Power(e.bit_count)
                           - (IF Bottom(e) >= Power(32 - e.bit_count) THEN 2^32 ELSE 0)
<1> DEFINE c == e.bit_count  b == Bottom(e)
<1>1. c \in 1..24 /\ b \in Nat /\ b < Power(33 - c)
  <2>1. Holds(e, e.out, e.range, e.hi, e.lo, c, Number(e.out), b, Len(e.out))
    BY Held
  <2> HIDE DEF b, c
  <2>2. c \in 1..24 /\ b \in Nat
    BY <2>1 DEF Holds
  <2> QED BY <2>2 DEF b, c
<1> HIDE DEF b, c
<1>2. PICK f : DoubledOut(c, e) = f[c] /\ f[0] = e /\ \A i \in 1..c : f[i] = Doubled(f[i - 1])
  <2>1. c \in Nat
    BY <1>1
  <2> QED BY <2>1, DoubledTimes
<1> DEFINE S == {i \in Nat : i <= c - 1 => OfRegister(f[i]) /\ Bottom(f[i]) = b * Power(i)}
<1>3. 0 \in S
  <2>1. Power(0) = 1 /\ b * 1 = b
    BY <1>1, PowerFacts
  <2>2. OfRegister(f[0]) /\ Bottom(f[0]) = b
    BY <1>2 DEF b
  <2> QED BY <2>1, <2>2
<1>4. ASSUME NEW i \in Nat, i \in S PROVE i + 1 \in S
  <2> SUFFICES ASSUME i + 1 <= c - 1 PROVE OfRegister(f[i + 1]) /\ Bottom(f[i + 1]) = b * Power(i + 1)
    OBVIOUS
  <2> DEFINE m == f[i]  n == f[i + 1]  p == Power(i)
  <2>1. OfRegister(m) /\ Bottom(m) = b * p
    <3>1. i <= c - 1
      BY <1>1
    <3> QED BY <1>4, <3>1
  <2>2. n = Doubled(m)
    <3>1. i + 1 \in 1..c /\ (i + 1) - 1 = i
      BY <1>1
    <3> QED BY <1>2, <3>1
  <2>3. p \in Nat \ {0} /\ Power(i + 1) = 2 * p
    BY PowerFacts
  <2>4. b * p < 2^31
    <3> DEFINE x == 33 - c  W == Power(x)
    <3>1. x \in Nat /\ x + i \in Nat /\ x + i <= 31 /\ 31 \in Nat
      BY <1>1
    <3>2. Power(x + i) <= Power(31) /\ Power(x + i) = Power(x) * Power(i) /\ Power(x) \in Nat
      <4> HIDE DEF x
      <4> QED BY <3>1, PowerMonotone, PowerSum, PowerFacts, Zenon
    <3>3. W * p <= 2^31 /\ W \in Nat /\ b < W
      BY <1>1, <3>2, LargerPowers
    <3> HIDE DEF W, p
    <3>4. b * p < W * p
      BY <1>1, <2>3, <3>3
    <3>5. b * p \in Nat /\ W * p \in Nat
      BY <1>1, <2>3, <3>3
    <3> QED BY <3>3, <3>4, <3>5
  <2> HIDE DEF m, n, p
  <2>5. OfRegister(n) /\ Bottom(n) = 2 * Bottom(m)
    <3>1. /\ OfRegister(n)
          /\ Bottom(n) = 2 * Bottom(m) - (IF Bottom(m) >= 2^31 THEN 2^32 ELSE 0)
      BY <2>1, <2>2, DoubledOnce
    <3>2. Bottom(m) \in Nat /\ ~(Bottom(m) >= 2^31)
      <4>1. Bottom(m) \in Nat
        BY <2>1, DoubledOnce
      <4> QED BY <2>1, <2>4, <4>1
    <3> QED BY <3>1, <3>2
  <2>6. b * (2 * p) = 2 * (b * p)
    BY <1>1, <2>3
  <2>7. OfRegister(n) /\ Bottom(n) = b * Power(i + 1)
    BY <2>1, <2>3, <2>5, <2>6
  <2> QED BY <2>7 DEF n
<1>5. OfRegister(f[c - 1]) /\ Bottom(f[c - 1]) = b * Power(c - 1)
  <2>1. \A i \in Nat : i \in S
    <3> HIDE DEF S
    <3> QED BY <1>3, <1>4, NaturalInduction
  <2>2. c - 1 \in Nat
    BY <1>1
  <2> QED BY <2>1, <2>2
<1> DEFINE m == f[c - 1]  t == f[c]  p == Power(c - 1)  P == Power(32 - c)
<1>6. t = Doubled(m)
  <2>1. c \in 1..c
    BY <1>1
  <2> QED BY <1>2, <2>1
<1>7. p \in Nat \ {0} /\ Power(c) = 2 * p /\ P \in Nat \ {0} /\ P * p = 2^31
  <2> DEFINE x == c - 1  y == 32 - c
  <2>1. x \in Nat /\ x + 1 = c /\ y \in Nat /\ y + x = 31
    BY <1>1
  <2>2. Power(x) \in Nat \ {0} /\ Power(x + 1) = 2 * Power(x) /\ Power(y) \in Nat \ {0}
        /\ Power(y + x) = Power(y) * Power(x)
    <3> HIDE DEF x, y
    <3> QED BY <2>1, PowerFacts, PowerSum, Zenon
  <2>3. Power(31) = 2^31
    BY LargerPowers
  <2> QED BY <2>1, <2>2, <2>3
<1>8. OfRegister(m) /\ Bottom(m) = b * p
  BY <1>5
<1> HIDE DEF m, t, p, P
<1>9. OfRegister(t) /\ Bottom(t) = 2 * Bottom(m) - (IF Bottom(m) >= 2^31 THEN 2^32 ELSE 0)
  BY <1>6, <1>8, DoubledOnce
<1>10. b * p >= 2^31 <=> b >= P
  <2>1. b * p \in Nat /\ P * p \in Nat
    BY <1>1, <1>7
  <2>2. CASE b >= P
    <3>1. b * p >= P * p
      BY <1>1, <1>7, <2>2
    <3> QED BY <1>7, <2>1, <2>2, <3>1
  <2>3. CASE b < P
    <3>1. b * p < P * p
      BY <1>1, <1>7, <2>3
    <3>2. ~(b >= P)
      BY <1>1, <1>7, <2>3
    <3> QED BY <1>7, <2>1, <3>1, <3>2
  <2> QED BY <1>1, <1>7, <2>2, <2>3
<1>11. b * (2 * p) = 2 * (b * p)
  BY <1>1, <1>7
<1>12. OfRegister(t) /\ Bottom(t) = b * Power(c) - (IF b >= P THEN 2^32 ELSE 0)
  BY <1>7, <1>8, <1>9, <1>10, <1>11
<1>13. DoubledOut(c, e) = t
  BY <1>2 DEF t
<1> QED BY <1>12, <1>13 DEF P, b, c

LEMMA CarryPendingIs ==
  ASSUME NEW e, OfRegister(e), Bottom(e) < Power(33 - e.bit_count)
  PROVE  CarryPending(e) <=> Bottom(e) >= Power(32 - e.bit_count)
<1> DEFINE c == e.bit_count  b == Bottom(e)  h == e.hi  l == e.lo
<1>1. Holds(e, e.out, e.range, h, l, c, Number(e.out), b, Len(e.out))
  BY Held
<1>2. CarryPending(e) <=> IF c <= 8 THEN (h \div 2^(8 - c)) % 2 = 1 ELSE (l \div 2^(32 - c)) % 2 = 1
  BY DEF CarryPending
<1> HIDE DEF b, c, h, l
<1>3. c \in 1..24 /\ b = h * 2^24 + l /\ h \in 0..255 /\ l \in 0..2^24 - 1
  BY <1>1 DEF Holds
<1> DEFINE P == Power(32 - c)
<1>4. b < 2 * P /\ P \in Nat
  <2> DEFINE x == 32 - c
  <2>1. x \in Nat /\ x + 1 = 33 - c
    BY <1>3
  <2>2. Power(x + 1) = 2 * Power(x) /\ Power(x) \in Nat
    <3> HIDE DEF x
    <3> QED BY <2>1, PowerFacts
  <2>3. b < Power(33 - c)
    BY DEF b, c
  <2> QED BY <2>1, <2>2, <2>3
<1>5. CASE c <= 8
  <2> DEFINE y == 8 - c  p == Power(y)
  <2>1. y \in Nat /\ y \in 0..23 /\ y + 24 = 32 - c
    BY <1>3, <1>5
  <2>2. p = 2^y /\ p \in Nat \ {0} /\ P = 2^24 * p
    <3>1. Power(y) = 2^y /\ Power(y) \in Nat \ {0} /\ Power(y + 24) = 2^24 * Power(y)
      <4> HIDE DEF y
      <4> QED BY <2>1, PowersOfTwo, PowerFacts, LargerPowers, Zenon
    <3> QED BY <2>1, <3>1
  <2> HIDE DEF P, p, y
  <2>3. h < 2 * p /\ (b >= P <=> h >= p)
    BY <1>3, <1>4, <2>2
  <2>4. (h \div p) % 2 = 1 <=> h >= p
    <3>1. CASE h >= p
      <4>1. h \div p = 1
        BY <1>3, <2>2, <2>3, <3>1
      <4> QED BY <3>1, <4>1
    <3>2. CASE h < p
      <4>1. h \in Nat /\ p \in Nat \ {0}
        BY <1>3, <2>2
      <4>2. h \div p = 0 /\ ~(h >= p)
        BY ONLY <3>2, <4>1
      <4> QED BY <4>2
    <3> QED BY <1>3, <2>2, <3>1, <3>2
  <2>5. CarryPending(e) <=> (h \div p) % 2 = 1
    BY <1>2, <1>5, <2>2 DEF y
  <2> QED BY <2>3, <2>4, <2>5 DEF P, b, c
<1>6. CASE ~(c <= 8)
  <2> DEFINE y == 32 - c  p == Power(y)
  <2>1. y \in Nat /\ y \in 0..23 /\ 23 \in Nat /\ y <= 23
    BY <1>3, <1>6
  <2>2. p = 2^y /\ p \in Nat \ {0} /\ p <= 2^23 /\ P = p
    <3>1. Power(y) = 2^y /\ Power(y) \in Nat \ {0} /\ Power(y) <= Power(23)
      <4> HIDE DEF y
      <4> QED BY <2>1, PowersOfTwo, PowerFacts, PowerMonotone, Zenon
    <3> QED BY <2>1, <3>1, LargerPowers
  <2> HIDE DEF P, p, y
  <2>3. h = 0 /\ b = l /\ l < 2 * p
    BY <1>3, <1>4, <2>2
  <2>4. (l \div p) % 2 = 1 <=> l >= p
    <3>1. CASE l >= p
      <4>1. l \div p = 1
        BY <1>3, <2>2, <2>3, <3>1
      <4> QED BY <3>1, <4>1
    <3>2. CASE l < p
      <4>1. l \div p = 0 /\ ~(l >= p)
        BY <1>3, <2>2, <3>2
      <4> QED BY <4>1
    <3> QED BY <1>3, <2>2, <3>1, <3>2
  <2>5. CarryPending(e) <=> (l \div p) % 2 = 1
    BY <1>2, <1>6, <2>2 DEF y
  <2> QED BY <2>2, <2>3, <2>4, <2>5 DEF P, b, c
<1> QED BY <1>5, <1>6

LEMMA Products ==
  /\ \A x, y, z \in Int : (x + y) * z = x * z + y * z
  /\ \A x, y, z \in Int : (x * y) * z = x * (y * z)
  /\ \A x, y \in Int : x * y = y * x /\ x * y \in Int
  /\ \A x, y \in Nat : x * y \in Nat
OBVIOUS

(* A word of four bytes written after others.                                *)
LEMMA FourAppended ==
  ASSUME NEW o \in Seq(Byte), NEW x1 \in Byte, NEW x2 \in Byte, NEW x3 \in Byte, NEW x4 \in Byte
  PROVE  o \o <<x1, x2, x3, x4>> = Append(Append(Append(Append(o, x1), x2), x3), x4)
<1> DEFINE w == <<x1, x2, x3, x4>>  a == o \o w
           b1 == Append(o, x1)  b2 == Append(b1, x2)  b3 == Append(b2, x3)  b4 == Append(b3, x4)  k == Len(o)
<1>1. w \in Seq(Byte) /\ Len(w) = 4 /\ w[1] = x1 /\ w[2] = x2 /\ w[3] = x3 /\ w[4] = x4 /\ k \in Nat
  BY LenProperties
<1> HIDE DEF w, k
<1>2. /\ a \in Seq(Byte) /\ Len(a) = k + 4
      /\ \A i \in 1..k + 4 : a[i] = IF i <= k THEN o[i] ELSE w[i - k]
  <2>1. /\ a \in Seq(Byte) /\ Len(a) = Len(o) + Len(w)
        /\ \A i \in 1..Len(o) + Len(w) : a[i] = IF i <= Len(o) THEN o[i] ELSE w[i - Len(o)]
    BY <1>1, ConcatProperties, Zenon
  <2> HIDE DEF a
  <2> QED BY <1>1, <2>1 DEF k
<1>3. b1 \in Seq(Byte) /\ Len(b1) = k + 1 /\ (\A i \in 1..k : b1[i] = o[i]) /\ b1[k + 1] = x1
  BY AppendProperties DEF k
<1> HIDE DEF b1
<1>4. b2 \in Seq(Byte) /\ Len(b2) = k + 2 /\ (\A i \in 1..k + 1 : b2[i] = b1[i]) /\ b2[k + 2] = x2
  <2>1. b2 \in Seq(Byte) /\ Len(b2) = Len(b1) + 1 /\ (\A i \in 1..Len(b1) : b2[i] = b1[i]) /\ b2[Len(b1) + 1] = x2
    BY <1>3, AppendProperties
  <2> HIDE DEF b2
  <2> QED BY <1>1, <1>3, <2>1
<1> HIDE DEF b2
<1>5. b3 \in Seq(Byte) /\ Len(b3) = k + 3 /\ (\A i \in 1..k + 2 : b3[i] = b2[i]) /\ b3[k + 3] = x3
  <2>1. b3 \in Seq(Byte) /\ Len(b3) = Len(b2) + 1 /\ (\A i \in 1..Len(b2) : b3[i] = b2[i]) /\ b3[Len(b2) + 1] = x3
    BY <1>4, AppendProperties
  <2> HIDE DEF b3
  <2> QED BY <1>1, <1>4, <2>1
<1> HIDE DEF b3
<1>6. b4 \in Seq(Byte) /\ Len(b4) = k + 4 /\ (\A i \in 1..k + 3 : b4[i] = b3[i]) /\ b4[k + 4] = x4
  <2>1. b4 \in Seq(Byte) /\ Len(b4) = Len(b3) + 1 /\ (\A i \in 1..Len(b3) : b4[i] = b3[i]) /\ b4[Len(b3) + 1] = x4
    BY <1>5, AppendProperties
  <2> HIDE DEF b4
  <2> QED BY <1>1, <1>5, <2>1
<1> HIDE DEF b4
<1> HIDE DEF a
<1>7. ASSUME NEW i \in 1..Len(a) PROVE a[i] = b4[i]
  <2>1. i \in 1..k \/ i = k + 1 \/ i = k + 2 \/ i = k + 3 \/ i = k + 4
    BY <1>1, <1>2
  <2>2. CASE i \in 1..k
    <3>1. a[i] = o[i] /\ i \in 1..k + 1 /\ i \in 1..k + 2 /\ i \in 1..k + 3
      BY <1>1, <1>2, <2>2
    <3> QED BY <1>3, <1>4, <1>5, <1>6, <2>2, <3>1, Zenon
  <2>3. CASE i = k + 1
    <3>1. a[i] = w[1] /\ i \in 1..k + 1 /\ i \in 1..k + 2 /\ i \in 1..k + 3
      <4>1. ~(i <= k) /\ i - k = 1 /\ i \in 1..k + 4
        BY <1>1, <2>3
      <4> QED BY <1>1, <1>2, <2>3, <4>1
    <3> QED BY <1>1, <1>3, <1>4, <1>5, <1>6, <2>3, <3>1
  <2>4. CASE i = k + 2
    <3>1. a[i] = w[2] /\ i \in 1..k + 2 /\ i \in 1..k + 3
      <4>1. ~(i <= k) /\ i - k = 2 /\ i \in 1..k + 4
        BY <1>1, <2>4
      <4> QED BY <1>1, <1>2, <2>4, <4>1
    <3> QED BY <1>1, <1>4, <1>5, <1>6, <2>4, <3>1
  <2>5. CASE i = k + 3
    <3>1. a[i] = w[3] /\ i \in 1..k + 3
      <4>1. ~(i <= k) /\ i - k = 3 /\ i \in 1..k + 4
        BY <1>1, <2>5
      <4> QED BY <1>1, <1>2, <2>5, <4>1
    <3> QED BY <1>1, <1>5, <1>6, <2>5, <3>1
  <2>6. CASE i = k + 4
    <3>1. a[i] = w[4]
      <4>1. ~(i <= k) /\ i - k = 4 /\ i \in 1..k + 4
        BY <1>1, <2>6
      <4> QED BY <1>1, <1>2, <2>6, <4>1
    <3> QED BY <1>1, <1>6, <2>6, <3>1
  <2> QED BY <2>1, <2>2, <2>3, <2>4, <2>5, <2>6
<1>8. a = b4
  BY <1>2, <1>6, <1>7, SeqEqual
<1> QED BY <1>8, Zenon DEF a, b4, b3, b2, b1, w

Word(h, l) == <<h, l \div 2^16, (l \div 2^8) % 256, l % 256>>

LEMMA NumberOfWord ==
  ASSUME NEW o \in Seq(Byte), NEW h \in 0..255, NEW l \in 0..2^24 - 1
  PROVE  LET z == o \o Word(h, l)
         IN /\ z \in Seq(Byte) /\ Len(z) = Len(o) + 4
            /\ Number(z) = Number(o) * 2^32 + (h * 2^24 + l)
<1> DEFINE x2 == l \div 2^16  x3 == (l \div 2^8) % 256  x4 == l % 256  v == Number(o)  k == Len(o)
           b1 == Append(o, h)  b2 == Append(b1, x2)  b3 == Append(b2, x3)  b4 == Append(b3, x4)
<1>1. /\ x2 \in 0..255 /\ x3 \in 0..255 /\ x4 \in 0..255
      /\ x2 * 2^16 + x3 * 2^8 + x4 = l
  OBVIOUS
<1> HIDE DEF x2, x3, x4
<1>2. h \in Byte /\ x2 \in Byte /\ x3 \in Byte /\ x4 \in Byte
  BY <1>1 DEF Byte
<1>3. b1 \in Seq(Byte) /\ Len(b1) = k + 1 /\ Number(b1) = 256 * v + h
  BY <1>2, NumberOfAppend
<1>4. k \in Nat /\ v \in Nat
  <2>1. k \in Nat
    BY LenProperties
  <2>2. 0 \in 0..k
    BY <2>1
  <2> QED BY <2>1, <2>2, NumberBounds
<1> HIDE DEF b1, v, k
<1>5. b2 \in Seq(Byte) /\ Len(b2) = (k + 1) + 1 /\ Number(b2) = 256 * (256 * v + h) + x2
  BY <1>2, <1>3, NumberOfAppend
<1> HIDE DEF b2
<1>6. b3 \in Seq(Byte) /\ Len(b3) = ((k + 1) + 1) + 1 /\ Number(b3) = 256 * (256 * (256 * v + h) + x2) + x3
  BY <1>2, <1>5, NumberOfAppend
<1> HIDE DEF b3
<1>7. b4 \in Seq(Byte) /\ Len(b4) = (((k + 1) + 1) + 1) + 1
      /\ Number(b4) = 256 * (256 * (256 * (256 * v + h) + x2) + x3) + x4
  BY <1>2, <1>6, NumberOfAppend
<1> HIDE DEF b4
<1>8. Number(b4) = v * 2^32 + (h * 2^24 + l)
  <2>1. h \in Nat
    OBVIOUS
  <2> QED BY <1>1, <1>4, <1>7, <2>1
<1>9. o \o <<h, x2, x3, x4>> = b4
  <2> DEFINE four == Append(Append(Append(Append(o, h), x2), x3), x4)
  <2>1. b4 = four
    BY DEF b1, b2, b3, b4
  <2> HIDE DEF four, x2, x3, x4
  <2>2. o \o <<h, x2, x3, x4>> = four
    <3>1. o \o <<h, x2, x3, x4>> = Append(Append(Append(Append(o, h), x2), x3), x4)
      BY <1>2, FourAppended, SMTT(30)
    <3> QED BY <3>1, Zenon DEF four
  <2> QED BY <2>1, <2>2, Zenon
<1>10. Len(b4) = k + 4
  BY <1>4, <1>7
<1> QED BY <1>7, <1>8, <1>9, <1>10, Zenon DEF Word, x2, x3, x4, v, k

(* The finished partition stands for the bottom of the last interval.        *)
LEMMA FinishIs ==
  ASSUME NEW e, Coding(e)
  PROVE  /\ Finish(e) \in Seq(Byte) /\ Len(Finish(e)) = Len(e.out) + 4
         /\ Number(Finish(e)) = Low(e) * Power(e.bit_count)
<1> DEFINE o == e.out  r == e.range  c == e.bit_count  v == Number(o)
           b == Bottom(e)  k == Len(o)  P == Power(32 - c)  W == Power(33 - c)  T == Power(8 + Scale(e))
           o1 == IF CarryPending(e) THEN AddOneToOutput(o) ELSE o  t == DoubledOut(c, e)
           p == Power(c)  vp == v * P  carry == IF b >= P THEN 1 ELSE 0
<1>1. OfRegister(e) /\ b + r <= W /\ Low(e) + r <= T
  BY DEF Coding
<1>2. Holds(e, o, r, e.hi, e.lo, c, v, b, k)
  BY <1>1, Held
<1>3. Finish(e) = o1 \o Word(t.hi, t.lo)
  BY DEF Finish, DoubledOut, Word
<1> HIDE DEF o, r, c, v, b, k, P, W, T, o1, t, p, vp, carry
<1>4. /\ o \in Seq(Byte) /\ r \in 1..255 /\ c \in 1..24 /\ v = Number(o) /\ v \in Nat /\ b \in Nat
      /\ k = Len(o) /\ k \in Nat /\ Low(e) = vp + b /\ Scale(e) = (24 + 8 * k) - c
  BY <1>2 DEF Holds, vp, P
<1>5. /\ P \in Nat \ {0} /\ W = 2 * P /\ T = P * Power(8 * k) /\ Power(8 * k) \in Nat \ {0}
      /\ p \in Nat \ {0} /\ P * p = 2^32
  <2> DEFINE x == 32 - c  y == 8 * k
  <2>1. x \in Nat /\ y \in Nat /\ c \in Nat /\ x + 1 = 33 - c /\ x + y = 8 + Scale(e) /\ x + c = 32
    BY <1>4
  <2>2. /\ Power(x) \in Nat \ {0} /\ Power(x + 1) = 2 * Power(x) /\ Power(x + y) = Power(x) * Power(y)
        /\ Power(y) \in Nat \ {0} /\ Power(c) \in Nat \ {0} /\ Power(x + c) = Power(x) * Power(c)
    <3> HIDE DEF x, y
    <3> QED BY <2>1, PowerFacts, PowerSum, Zenon
  <2>3. Power(32) = 2^32
    BY SmallPowers
  <2> QED BY <2>1, <2>2, <2>3 DEF P, W, T, p
<1>6. b < W
  BY <1>1, <1>4, <1>5
<1>7. OfRegister(t) /\ Bottom(t) = b * p - (IF b >= P THEN 2^32 ELSE 0) /\ (CarryPending(e) <=> b >= P)
  <2>1. Bottom(e) < Power(33 - e.bit_count)
    BY <1>6 DEF b, W, c
  <2> QED BY <1>1, <2>1, TailBits, CarryPendingIs DEF t, b, p, P, c
<1>8. vp \in Nat /\ vp = v * P
  BY <1>4, <1>5 DEF vp
<1>9. o1 \in Seq(Byte) /\ Len(o1) = k /\ Number(o1) = v + carry
  <2>1. CASE b >= P
    <3>1. v + 1 < Power(8 * k)
      <4> DEFINE q == Power(8 * k)
      <4>1. q \in Nat /\ v * P + b + r <= P * q
        BY <1>1, <1>4, <1>5, <1>8
      <4> HIDE DEF q
      <4>2. (v + 1) * P < q * P
        <5>1. (v + 1) * P = v * P + P /\ q * P = P * q /\ v * P \in Nat /\ P * q \in Nat
          <6>1. v \in Int /\ 1 \in Int /\ P \in Int /\ q \in Int /\ v \in Nat /\ P \in Nat /\ 1 * P = P
            BY <1>4, <1>5, <4>1
          <6> HIDE DEF P
          <6> QED BY ONLY <4>1, <6>1, Products
        <5> DEFINE A == v * P  B == P * q  C == (v + 1) * P
        <5>2. C = A + P /\ A \in Nat /\ B \in Nat /\ A + b + r <= B
          BY <4>1, <5>1
        <5> HIDE DEF A, B, C
        <5>3. C < B
          <6>1. b >= P /\ r >= 1 /\ r \in Nat /\ b \in Nat /\ P \in Nat
            BY <1>4, <1>5, <2>1
          <6> QED BY <5>2, <6>1
        <5> QED BY <5>1, <5>3 DEF B, C
      <4>3. v + 1 < q
        <5> SUFFICES ASSUME q <= v + 1 PROVE FALSE
          BY <1>4, <4>1
        <5>1. q * P <= (v + 1) * P
          BY <1>4, <1>5, <4>1
        <5>2. q * P \in Nat /\ (v + 1) * P \in Nat
          <6>1. v + 1 \in Nat /\ P \in Nat
            BY <1>4, <1>5
          <6> QED BY <4>1, <6>1, Products
        <5> QED BY <4>2, <5>1, <5>2
      <4> QED BY <4>3 DEF q
    <3>2. /\ AddOneToOutput(o) \in Seq(Byte) /\ Len(AddOneToOutput(o)) = k
          /\ Number(AddOneToOutput(o)) = v + 1
      BY <1>4, <3>1, CarryAddsOne
    <3> QED BY <1>7, <2>1, <3>2 DEF o1, carry
  <2>2. CASE ~(b >= P)
    BY <1>4, <1>7, <2>2 DEF o1, carry
  <2> QED BY <2>1, <2>2
<1> DEFINE h2 == t.hi  l2 == t.lo
<1>10. h2 \in 0..255 /\ l2 \in 0..2^24 - 1 /\ Bottom(t) = h2 * 2^24 + l2
  <2>1. Holds(t, t.out, t.range, h2, l2, t.bit_count, Number(t.out), Bottom(t), Len(t.out))
    BY <1>7, Held
  <2> HIDE DEF h2, l2
  <2> QED BY <2>1 DEF Holds
<1> HIDE DEF h2, l2
<1> DEFINE z == o1 \o Word(h2, l2)
<1>11. z \in Seq(Byte) /\ Len(z) = Len(o1) + 4 /\ Number(z) = Number(o1) * 2^32 + (h2 * 2^24 + l2)
  BY <1>9, <1>10, NumberOfWord, Zenon
<1>12. Finish(e) = z
  BY <1>3 DEF h2, l2
<1> HIDE DEF z
<1>13. Number(z) = (v + carry) * 2^32 + (b * p - carry * 2^32)
  <2>1. Bottom(t) = b * p - carry * 2^32
    <3>1. CASE b >= P
      BY <1>7, <3>1 DEF carry
    <3>2. CASE ~(b >= P)
      <4>1. b * p \in Nat
        BY <1>4, <1>5
      <4> QED BY <1>7, <3>2, <4>1 DEF carry
    <3> QED BY <3>1, <3>2
  <2> QED BY <1>9, <1>10, <1>11, <2>1
<1>14. Low(e) * p = v * 2^32 + b * p
  <2>1. (v * P + b) * p = v * (P * p) + b * p
    <3>1. v \in Int /\ P \in Int /\ p \in Int /\ b \in Int
      BY <1>4, <1>5
    <3>2. v * P \in Int
      BY <3>1, Products
    <3> QED BY ONLY <3>1, <3>2, Products
  <2> QED BY <1>4, <1>5, <1>8, <2>1
<1>15. carry \in Nat /\ b * p \in Nat
  BY <1>4, <1>5 DEF carry
<1>16. Number(z) = Low(e) * p
  <2> DEFINE bp == b * p
  <2>1. Number(z) = (v + carry) * 2^32 + (bp - carry * 2^32) /\ Low(e) * p = v * 2^32 + bp /\ bp \in Nat
    BY <1>13, <1>14, <1>15
  <2> HIDE DEF bp
  <2>2. (v + carry) * 2^32 = v * 2^32 + carry * 2^32
    BY <1>4, <1>15
  <2> QED BY <1>4, <1>15, <2>1, <2>2
<1> QED BY <1>9, <1>11, <1>12, <1>16 DEF k, o, p, c

-----------------------------------------------------------------------------
(* A partition: the booleans s, the encoder before and after each, and the    *)
(* bytes it finishes to.                                                     *)
Booleans == [prob : 0..255, bit : BOOLEAN]
Trail(s, f, m) == f = [i \in 0..m |-> IF i = 0 THEN NewEncoder ELSE WriteBool(f[i - 1], s[i].prob, s[i].bit)]
Encoders(s) == CHOOSE f : Trail(s, f, Len(s))
Coder(s, n) == Encoders(s)[n]
Partition(s) == Finish(Coder(s, Len(s)))

LEMMA CoderSteps ==
  ASSUME NEW s \in Seq(Booleans)
  PROVE  /\ Coder(s, 0) = NewEncoder
         /\ \A i \in 1..Len(s) : Coder(s, i) = WriteBool(Coder(s, i - 1), s[i].prob, s[i].bit)
<1> DEFINE S == {m \in Nat : \E f : Trail(s, f, m)}
<1>1. 0 \in S
  <2> DEFINE g == [i \in 0..0 |-> NewEncoder]
  <2>1. Trail(s, g, 0)
    BY DEF Trail
  <2> QED BY <2>1
<1>2. ASSUME NEW m \in Nat, m \in S PROVE m + 1 \in S
  <2>1. PICK f : Trail(s, f, m)
    BY <1>2
  <2> DEFINE step(i, x) == WriteBool(x, s[i].prob, s[i].bit)
  <2>2. f[0] = NewEncoder /\ \A i \in 1..m : f[i] = step(i, f[i - 1])
    BY <2>1 DEF Trail
  <2> DEFINE g == [i \in 0..m + 1 |-> IF i = m + 1 THEN step(m + 1, f[m]) ELSE f[i]]
  <2> HIDE DEF step
  <2>3. ASSUME NEW i \in 0..m + 1 PROVE g[i] = IF i = 0 THEN NewEncoder ELSE step(i, g[i - 1])
    <3>1. CASE i = 0
      BY <2>2, <3>1
    <3>2. CASE i = m + 1
      <4>1. i # 0 /\ i - 1 = m /\ m \in 0..m + 1 /\ m # m + 1
        BY <3>2
      <4>2. g[i] = step(i, f[m]) /\ g[m] = f[m]
        BY <3>2, <4>1
      <4> QED BY <4>1, <4>2
    <3>3. CASE i # 0 /\ i # m + 1
      <4>1. i \in 1..m /\ g[i] = f[i] /\ g[i - 1] = f[i - 1]
        BY <3>3
      <4> QED BY <2>2, <3>3, <4>1
    <3> QED BY <3>1, <3>2, <3>3
  <2>4. Trail(s, g, m + 1)
    <3>1. g = [i \in 0..m + 1 |-> g[i]]
      OBVIOUS
    <3> HIDE DEF g
    <3> QED BY <2>3, <3>1, Zenon DEF Trail, step
  <2> HIDE DEF g
  <2> QED BY <2>4
<1>3. Len(s) \in S
  <2>1. \A n \in Nat : n \in S
    <3> HIDE DEF S
    <3> QED BY <1>1, <1>2, NaturalInduction
  <2> QED BY <2>1, LenProperties
<1> DEFINE F == Encoders(s)
<1>4. Trail(s, F, Len(s))
  BY <1>3 DEF Encoders
<1> HIDE DEF F
<1>5. Len(s) \in Nat
  BY LenProperties
<1>6. F[0] = NewEncoder /\ \A i \in 1..Len(s) : F[i] = WriteBool(F[i - 1], s[i].prob, s[i].bit)
  <2> DEFINE step(i, x) == WriteBool(x, s[i].prob, s[i].bit)  N == Len(s)
  <2>1. F = [i \in 0..N |-> IF i = 0 THEN NewEncoder ELSE step(i, F[i - 1])]
    BY <1>4, Zenon DEF Trail
  <2> HIDE DEF step, N
  <2>2. F[0] = NewEncoder
    <3>1. 0 \in 0..N
      BY <1>5 DEF N
    <3> QED BY <2>1, <3>1
  <2>3. ASSUME NEW i \in 1..N PROVE F[i] = step(i, F[i - 1])
    <3>1. i \in 0..N /\ i # 0
      BY <1>5 DEF N
    <3> QED BY <2>1, <3>1, Zenon
  <2> QED BY <2>2, <2>3 DEF step, N
<1> QED BY <1>6 DEF Coder, F

LEMMA BooleanFields ==
  ASSUME NEW s \in Seq(Booleans), NEW i \in 1..Len(s)
  PROVE  s[i].prob \in 0..255 /\ s[i].bit \in BOOLEAN
<1>1. s[i] \in Booleans
  BY ElementOfSeq
<1> QED BY <1>1, Zenon DEF Booleans

LEMMA CodersReady ==
  ASSUME NEW s \in Seq(Booleans)
  PROVE  /\ \A n \in 0..Len(s) : Ready(Coder(s, n))
         /\ \A n \in 1..Len(s) : Writes(Coder(s, n - 1), s[n].prob, s[n].bit, Coder(s, n))
<1> DEFINE N == Len(s)  S == {n \in Nat : n <= N => Ready(Coder(s, n))}
<1>1. N \in Nat
  BY LenProperties
<1>2. 0 \in S
  <2>1. Coder(s, 0) = NewEncoder /\ NewEncoder.range = 255
    BY CoderSteps DEF NewEncoder
  <2>2. Ready(Coder(s, 0))
    BY <2>1, CodingStarts DEF Ready
  <2> QED BY <2>2
<1>3. ASSUME NEW n \in 1..N, Ready(Coder(s, n - 1))
      PROVE  Writes(Coder(s, n - 1), s[n].prob, s[n].bit, Coder(s, n))
  <2> DEFINE e == Coder(s, n - 1)  p == s[n].prob  b == s[n].bit
  <2>1. p \in 0..255 /\ b \in BOOLEAN
    BY BooleanFields, Zenon
  <2>2. Coder(s, n) = WriteBool(e, p, b)
    BY CoderSteps
  <2> HIDE DEF e, p, b
  <2>3. Writes(e, p, b, WriteBool(e, p, b))
    <3>1. Ready(e)
      BY <1>3 DEF e
    <3> QED BY <2>1, <3>1, WriteKeeps, Zenon
  <2> QED BY <2>2, <2>3 DEF e, p, b
<1>4. ASSUME NEW n \in Nat, n \in S PROVE n + 1 \in S
  <2> SUFFICES ASSUME n + 1 <= N PROVE Ready(Coder(s, n + 1))
    OBVIOUS
  <2>1. n + 1 \in 1..N /\ (n + 1) - 1 = n /\ n <= N
    BY <1>1
  <2>2. Ready(Coder(s, n))
    BY <1>4, <2>1
  <2>3. Writes(Coder(s, n), s[n + 1].prob, s[n + 1].bit, Coder(s, n + 1))
    BY <1>3, <2>1, <2>2
  <2> QED BY <2>3 DEF Writes
<1>5. \A n \in Nat : n \in S
  <2> HIDE DEF S
  <2> QED BY <1>2, <1>4, NaturalInduction
<1>6. \A n \in 0..N : Ready(Coder(s, n))
  BY <1>1, <1>5
<1>7. ASSUME NEW n \in 1..N PROVE Writes(Coder(s, n - 1), s[n].prob, s[n].bit, Coder(s, n))
  <2>1. n - 1 \in 0..N
    BY <1>1
  <2> QED BY <1>3, <1>6, <2>1
<1> QED BY <1>6, <1>7

(* Where the number the bytes stand for lies in the interval of each turn, in *)
(* units of the last: Unit of them make one of that interval's.              *)
Rest(s, n) == 8 * (Len(Partition(s)) - 1) - Scale(Coder(s, n))
Unit(s, n) == Power(Rest(s, n))
Offset(s, n) == Number(Partition(s)) - Low(Coder(s, n)) * Unit(s, n)
Inside(s, n) ==
  /\ Rest(s, n) \in Nat /\ Rest(s, n) >= 1 /\ Offset(s, n) \in Nat
  /\ Offset(s, n) < Coder(s, n).range * Unit(s, n)
Turn(s, n) ==
  LET e == Coder(s, n - 1)
      skip == Skipped(e.range, s[n].prob, s[n].bit)
      take == Taken(e.range, s[n].prob, s[n].bit)
      sh == Shift(take)
  IN /\ Rest(s, n - 1) = Rest(s, n) + sh
     /\ skip * Unit(s, n - 1) <= Offset(s, n - 1)
     /\ Offset(s, n - 1) < (skip + take) * Unit(s, n - 1)
     /\ Offset(s, n) = Offset(s, n - 1) - skip * Unit(s, n - 1)

LEMMA CodedNumbers ==
  ASSUME NEW e, Ready(e)
  PROVE  /\ e.range \in 128..255 /\ Low(e) \in Nat /\ Scale(e) \in Int /\ Len(e.out) \in Nat
         /\ e.bit_count \in 1..24 /\ Scale(e) = (24 + 8 * Len(e.out)) - e.bit_count
<1> DEFINE o == e.out  r == e.range  c == e.bit_count  v == Number(o)  b == Bottom(e)  k == Len(o)  P == Power(32 - c)
<1>1. OfRegister(e) /\ r >= 128
  BY DEF Ready, Coding
<1>2. Holds(e, o, r, e.hi, e.lo, c, v, b, k)
  BY <1>1, Held
<1> HIDE DEF o, r, c, v, b, k, P
<1>3. r \in 1..255 /\ c \in 1..24 /\ v \in Nat /\ b \in Nat /\ k \in Nat /\ Low(e) = v * P + b
      /\ Scale(e) = (24 + 8 * k) - c
  BY <1>2 DEF Holds, P
<1>4. P \in Nat
  <2> DEFINE x == 32 - c
  <2>1. x \in Nat
    BY <1>3
  <2>2. Power(x) \in Nat
    <3> HIDE DEF x
    <3> QED BY <2>1, PowerFacts
  <2> QED BY <2>2 DEF P
<1>5. v * P \in Nat
  BY <1>3, <1>4, Products
<1>6. r \in 128..255 /\ Low(e) \in Nat /\ Scale(e) \in Int
  BY <1>1, <1>3, <1>5
<1> QED BY <1>3, <1>6 DEF o, r, c, k

LEMMA InsideAtEnd ==
  ASSUME NEW s \in Seq(Booleans)
  PROVE  /\ Inside(s, Len(s)) /\ Partition(s) \in Seq(Byte) /\ Len(Partition(s)) \in Nat
         /\ Len(Partition(s)) >= 4 /\ Number(Partition(s)) \in Nat
<1> DEFINE N == Len(s)  e == Coder(s, N)  b == Partition(s)  c == e.bit_count  k == Len(e.out)  L == Low(e)
           p == Power(c)
<1>1. Ready(e)
  <2>1. N \in 0..N
    BY LenProperties
  <2> QED BY <2>1, CodersReady
<1>2. b = Finish(e)
  BY DEF Partition
<1> HIDE DEF e, b, N
<1>3. b \in Seq(Byte) /\ Len(b) = k + 4 /\ Number(b) = L * p
  <2>1. Coding(e)
    BY <1>1 DEF Ready
  <2> QED BY <1>2, <2>1, FinishIs
<1>4. e.range \in 128..255 /\ L \in Nat /\ k \in Nat /\ c \in 1..24 /\ Scale(e) = (24 + 8 * k) - c
  BY <1>1, CodedNumbers
<1>5. p \in Nat \ {0}
  <2> HIDE DEF c
  <2>1. c \in Nat
    BY <1>4
  <2> QED BY <2>1, PowerFacts, Zenon
<1> HIDE DEF c, k, L, p
<1>6. Rest(s, N) = c /\ Unit(s, N) = p
  <2>1. Rest(s, N) = 8 * (Len(b) - 1) - Scale(e)
    BY DEF Rest, e, b
  <2>2. Rest(s, N) = c
    BY <1>3, <1>4, <2>1
  <2> QED BY <2>2 DEF Unit, p
<1>7. Offset(s, N) = 0
  <2>1. Offset(s, N) = Number(b) - L * Unit(s, N)
    BY DEF Offset, e, b, L
  <2>2. L * p \in Nat
    BY <1>4, <1>5, Products
  <2> QED BY <1>3, <1>6, <2>1, <2>2
<1>8. 0 < e.range * p
  <2> DEFINE r == e.range
  <2>0. r \in 128..255
    BY <1>4
  <2> HIDE DEF r
  <2>1. r \in Nat \ {0}
    BY <2>0
  <2>2. 0 < r * p
    BY <1>5, <2>1
  <2> QED BY <2>2 DEF r
<1>9. Number(b) \in Nat
  BY <1>3, <1>4, <1>5, Products
<1>10. Inside(s, N)
  <2>1. c \in Nat /\ c >= 1
    BY <1>4
  <2> QED BY <1>6, <1>7, <1>8, <2>1 DEF Inside, e
<1> QED BY <1>3, <1>4, <1>9, <1>10 DEF N, b

LEMMA InsideBefore ==
  ASSUME NEW s \in Seq(Booleans), NEW n \in 1..Len(s), Inside(s, n)
  PROVE  Inside(s, n - 1) /\ Turn(s, n)
<1> DEFINE e == Coder(s, n - 1)  e2 == Coder(s, n)  prob == s[n].prob  bit == s[n].bit
           skip == Skipped(e.range, prob, bit)  take == Taken(e.range, prob, bit)  sh == Shift(take)
           F == Number(Partition(s))  Q == Unit(s, n - 1)  Q2 == Unit(s, n)  L == Low(e)  r == e.range
           R == Rest(s, n - 1)  R2 == Rest(s, n)  p == Power(sh)  X == Offset(s, n - 1)  X2 == Offset(s, n)
           B == 8 * (Len(Partition(s)) - 1)
<1>1. Ready(e) /\ Writes(e, prob, bit, e2) /\ Ready(e2) /\ prob \in 0..255 /\ bit \in BOOLEAN
  <2>1. n - 1 \in 0..Len(s) /\ n \in 0..Len(s)
    BY LenProperties
  <2> QED BY <2>1, CodersReady, BooleanFields
<1>2. F \in Nat /\ B \in Int
  <2>1. F \in Nat /\ Len(Partition(s)) \in Nat
    BY InsideAtEnd
  <2> QED BY <2>1
<1>3. /\ X = F - L * Q /\ X2 = F - Low(e2) * Q2 /\ Q = Power(R) /\ Q2 = Power(R2)
      /\ R = B - Scale(e) /\ R2 = B - Scale(e2)
  BY DEF Offset, Unit, Rest
<1>4. R2 \in Nat /\ R2 >= 1 /\ X2 \in Nat /\ X2 < e2.range * Q2
  BY DEF Inside
<1>5. r \in 128..255 /\ L \in Nat /\ Scale(e) \in Int /\ Scale(e2) \in Int /\ Low(e2) \in Nat
  BY <1>1, CodedNumbers
<1>6. /\ sh \in 0..7 /\ e2.range = take * p /\ Low(e2) = (L + skip) * p /\ Scale(e2) = Scale(e) + sh
  BY <1>1 DEF Writes
<1>7. take \in Nat /\ skip \in Nat /\ skip + take <= r
  <2>1. Split(r, prob) \in 1..r - 1
    BY <1>1, <1>5, SplitInside, Zenon
  <2> DEFINE sp == Split(r, prob)
  <2>2. CASE bit = TRUE
    <3>1. take = r - sp /\ skip = sp
      BY <2>2 DEF Taken, Skipped
    <3> HIDE DEF take, skip, sp, r
    <3> QED BY <1>5, <2>1, <3>1 DEF sp
  <2>3. CASE bit = FALSE
    <3>1. take = sp /\ skip = 0
      BY <2>3 DEF Taken, Skipped
    <3> HIDE DEF take, skip, sp, r
    <3> QED BY <1>5, <2>1, <3>1 DEF sp
  <2> QED BY <1>1, <2>2, <2>3, Zenon
<1> HIDE DEF e, e2, prob, bit, skip, take, F, Q, Q2, L, r, R, R2, X, X2, B
<1>8. p \in Nat \ {0} /\ Q2 \in Nat \ {0} /\ R = R2 + sh /\ R \in Nat /\ Q = p * Q2
  <2> HIDE DEF sh
  <2>1. R = R2 + sh /\ R \in Nat /\ sh \in Nat
    <3>1. R2 \in Nat /\ sh \in Nat
      BY <1>4, <1>6
    <3>2. R = R2 + sh
      <4> DEFINE se == Scale(e)  se2 == Scale(e2)
      <4>1. R = B - se /\ R2 = B - se2 /\ se2 = se + sh
        BY <1>3, <1>6
      <4>2. B \in Int /\ se \in Int /\ se2 \in Int
        BY <1>2, <1>5
      <4> HIDE DEF se, se2
      <4> QED BY ONLY <3>1, <4>1, <4>2
    <3> QED BY ONLY <3>1, <3>2
  <2>2. Power(R2 + sh) = Power(R2) * Power(sh) /\ Power(sh) \in Nat \ {0} /\ Power(R2) \in Nat \ {0}
    BY <1>4, <2>1, PowerSum, PowerFacts, Zenon
  <2>3. Power(sh) * Power(R2) = Power(R2) * Power(sh)
    BY <2>2
  <2> QED BY <1>3, <2>1, <2>2, <2>3
<1> HIDE DEF p, sh
<1>9. Q \in Nat \ {0}
  BY <1>8
<1>10. X2 = X - skip * Q
  <2>1. ((L + skip) * p) * Q2 = L * Q + skip * Q
    <3>1. L \in Int /\ skip \in Int /\ p \in Int /\ Q2 \in Int /\ L + skip \in Int /\ Q \in Int
      BY <1>5, <1>7, <1>8, <1>9
    <3>2. ((L + skip) * p) * Q2 = (L + skip) * (p * Q2)
      BY ONLY <3>1, Products
    <3>3. (L + skip) * Q = L * Q + skip * Q
      BY ONLY <3>1, Products
    <3> QED BY <1>8, <3>2, <3>3
  <2>2. X2 = F - (L * Q + skip * Q)
    BY <1>3, <1>6, <2>1
  <2>3. L * Q \in Int /\ skip * Q \in Int
    BY <1>5, <1>7, <1>9, Products
  <2> QED BY <1>2, <1>3, <2>2, <2>3
<1>11. X2 < take * Q
  <2>1. (take * p) * Q2 = take * (p * Q2)
    <3>1. take \in Int /\ p \in Int /\ Q2 \in Int
      BY <1>7, <1>8
    <3> QED BY ONLY <3>1, Products
  <2> QED BY <1>4, <1>6, <1>8, <2>1
<1>12. skip * Q \in Nat /\ take * Q \in Nat /\ (skip + take) * Q = skip * Q + take * Q /\ (skip + take) * Q <= r * Q
       /\ r * Q \in Nat /\ L * Q \in Nat
  <2>1. (skip + take) * Q = skip * Q + take * Q
    <3>1. skip \in Int /\ take \in Int /\ Q \in Int
      BY <1>7, <1>9
    <3> QED BY ONLY <3>1, Products
  <2>2. skip + take \in Nat /\ r \in Nat
    BY <1>5, <1>7
  <2>3. (skip + take) * Q <= r * Q
    <3> DEFINE z == skip + take
    <3>1. z \in Nat /\ z <= r
      BY <1>7, <2>2
    <3> HIDE DEF z
    <3>2. z * Q <= r * Q
      BY <1>9, <2>2, <3>1
    <3> QED BY <3>2 DEF z
  <2> QED BY <1>5, <1>7, <1>9, <2>1, <2>2, <2>3, Products
<1>13. /\ X \in Nat /\ skip * Q <= X /\ X < (skip + take) * Q /\ X < r * Q
  <2> DEFINE a == skip * Q  b == take * Q  c == (skip + take) * Q  d == r * Q  x == L * Q
  <2>1. /\ a \in Nat /\ b \in Nat /\ c = a + b /\ c <= d /\ d \in Nat /\ x \in Nat
        /\ X2 = X - a /\ X2 < b /\ X = F - x /\ X2 \in Nat /\ F \in Nat
    BY <1>2, <1>3, <1>4, <1>10, <1>11, <1>12
  <2> HIDE DEF a, b, c, d, x
  <2>2. X \in Nat /\ a <= X /\ X < c /\ X < d
    BY <2>1
  <2> QED BY <2>2 DEF a, c, d
<1>14. Inside(s, n - 1)
  <2>1. R >= 1
    <3>1. sh \in Nat
      BY <1>6
    <3> QED BY <1>4, <1>8, <3>1
  <2> QED BY <1>8, <1>13, <2>1 DEF Inside, R, Q, X, r, e
<1>15. Turn(s, n)
  <2>1. /\ R = R2 + sh /\ skip * Q <= X /\ X < (skip + take) * Q /\ X2 = X - skip * Q
    BY <1>8, <1>10, <1>13
  <2> QED BY <2>1 DEF Turn, R, R2, sh, skip, take, X, X2, Q, e, prob, bit
<1> QED BY <1>14, <1>15

LEMMA AlwaysInside ==
  ASSUME NEW s \in Seq(Booleans)
  PROVE  (\A n \in 0..Len(s) : Inside(s, n)) /\ (\A n \in 1..Len(s) : Turn(s, n))
<1> DEFINE N == Len(s)  S == {j \in Nat : j <= N => Inside(s, N - j)}
<1>1. N \in Nat
  BY LenProperties
<1>2. 0 \in S
  <2>1. Inside(s, N) /\ N - 0 = N
    BY <1>1, InsideAtEnd
  <2> QED BY <2>1
<1>3. ASSUME NEW j \in Nat, j \in S PROVE j + 1 \in S
  <2> SUFFICES ASSUME j + 1 <= N PROVE Inside(s, N - (j + 1))
    OBVIOUS
  <2> DEFINE n == N - j
  <2>1. n \in 1..N /\ n - 1 = N - (j + 1) /\ j <= N
    BY <1>1
  <2>2. Inside(s, n)
    BY <1>3, <2>1
  <2> HIDE DEF n
  <2>3. Inside(s, n - 1)
    BY <2>1, <2>2, InsideBefore
  <2> QED BY <2>1, <2>3
<1>4. \A j \in Nat : j \in S
  <2> HIDE DEF S
  <2> QED BY <1>2, <1>3, NaturalInduction
<1>5. ASSUME NEW n \in 0..N PROVE Inside(s, n)
  <2>1. N - n \in Nat /\ N - n <= N /\ N - (N - n) = n
    BY <1>1
  <2>2. Inside(s, N - (N - n))
    BY <1>4, <2>1
  <2> QED BY <2>1, <2>2
<1>6. ASSUME NEW n \in 1..N PROVE Turn(s, n)
  <2>1. n \in 0..N
    BY <1>1
  <2> QED BY <1>5, <2>1, InsideBefore
<1> QED BY <1>5, <1>6

-----------------------------------------------------------------------------
(* The decoder after n of the booleans: m bytes are in its window or behind   *)
(* it, the bits of the window below the last c are zero, and window and       *)
(* remaining bytes together say where in the interval the number lies.        *)
Window(i, r, v, c, y) == [input |-> i, range |-> r, value |-> v, bit_count |-> c, dry |-> y]
After(b, m) == Number(b) - Partials(b)[m] * Power(8 * (Len(b) - m))
ReadUpTo(s, d, n, m, u, c) ==
  /\ d = Window(SubSeq(Partition(s), m + 1, Len(Partition(s))), Coder(s, n).range, u * Power(c), c, d.dry)
  /\ ~d.dry
  /\ Scale(Coder(s, n)) = c + 8 * (m - 2)
  /\ 256 * Offset(s, n) = (u * Power(c)) * Unit(s, n) + 256 * After(Partition(s), m)
DecodedTo(s, d, n) ==
  \E m \in 2..Len(Partition(s)), u \in Nat, c \in 0..7 : ReadUpTo(s, d, n, m, u, c)

RangeValueCount(d, a, b, c) == [d EXCEPT !.range = a, !.value = b, !.bit_count = c]
RangeValueDry(d, a, b, x) == [d EXCEPT !.range = a, !.value = b, !.dry = x]
RangeCountValueInput(d, a, c, b) == [d EXCEPT !.range = a, !.bit_count = c, !.value = b, !.input = Tail(@)]
WithValue(d, x) == [d EXCEPT !.value = x]
WithDry(d, x) == [d EXCEPT !.dry = x]
WithInput(d, x) == [d EXCEPT !.input = x]

LEMMA WindowField ==
  ASSUME NEW i, NEW r, NEW v, NEW c, NEW y, NEW x
  PROVE  /\ WithRange(Window(i, r, v, c, y), x) = Window(i, x, v, c, y)
         /\ WithValue(Window(i, r, v, c, y), x) = Window(i, r, x, c, y)
         /\ WithCount(Window(i, r, v, c, y), x) = Window(i, r, v, x, y)
         /\ WithDry(Window(i, r, v, c, y), x) = Window(i, r, v, c, x)
         /\ WithInput(Window(i, r, v, c, y), x) = Window(x, r, v, c, y)
BY DEF Window, WithRange, WithValue, WithCount, WithDry, WithInput

LEMMA WindowFieldsAre ==
  ASSUME NEW i, NEW r, NEW v, NEW c, NEW y
  PROVE  /\ Window(i, r, v, c, y).input = i /\ Window(i, r, v, c, y).range = r
         /\ Window(i, r, v, c, y).value = v /\ Window(i, r, v, c, y).bit_count = c
         /\ Window(i, r, v, c, y).dry = y
BY DEF Window

LEMMA WindowFields ==
  ASSUME NEW i, NEW r, NEW v, NEW c, NEW y, NEW r2, NEW v2, NEW c2, NEW x
  PROVE  /\ RangeValueCount(Window(i, r, v, c, y), r2, v2, c2) = Window(i, r2, v2, c2, y)
         /\ RangeValueDry(Window(i, r, v, c, y), r2, v2, x) = Window(i, r2, v2, c, x)
         /\ RangeCountValueInput(Window(i, r, v, c, y), r2, c2, v2) = Window(Tail(i), r2, v2, c2, y)
<1> DEFINE d == Window(i, r, v, c, y)
<1>1. /\ RangeValueCount(d, r2, v2, c2) = WithCount(WithValue(WithRange(d, r2), v2), c2)
      /\ RangeValueDry(d, r2, v2, x) = WithDry(WithValue(WithRange(d, r2), v2), x)
  BY DEF WithRange, WithValue, WithCount, WithDry, RangeValueCount, RangeValueDry
<1>2. RangeCountValueInput(d, r2, c2, v2) = WithInput(WithValue(WithCount(WithRange(d, r2), c2), v2), Tail(d.input))
  BY DEF WithRange, WithValue, WithCount, WithInput, RangeCountValueInput
<1>3. d.input = i
  BY WindowFieldsAre
<1> HIDE DEF d
<1>0. d = Window(i, r, v, c, y)
  BY DEF d
<1>4. /\ WithRange(d, r2) = Window(i, r2, v, c, y) /\ WithValue(Window(i, r2, v, c, y), v2) = Window(i, r2, v2, c, y)
      /\ WithCount(Window(i, r2, v2, c, y), c2) = Window(i, r2, v2, c2, y)
      /\ WithDry(Window(i, r2, v2, c, y), x) = Window(i, r2, v2, c, x)
      /\ WithCount(Window(i, r2, v, c, y), c2) = Window(i, r2, v, c2, y)
      /\ WithValue(Window(i, r2, v, c2, y), v2) = Window(i, r2, v2, c2, y)
      /\ WithInput(Window(i, r2, v2, c2, y), Tail(i)) = Window(Tail(i), r2, v2, c2, y)
  BY <1>0, WindowField
<1>5. /\ RangeValueCount(d, r2, v2, c2) = Window(i, r2, v2, c2, y)
      /\ RangeValueDry(d, r2, v2, x) = Window(i, r2, v2, c, x)
      /\ RangeCountValueInput(d, r2, c2, v2) = Window(Tail(i), r2, v2, c2, y)
  BY <1>1, <1>2, <1>3, <1>4
<1> QED BY <1>0, <1>5

Deciding(i, r, v, c, y, prob, bit) ==
  v \in Int /\ bit \in BOOLEAN /\ Decide(Window(i, r, v, c, y), prob) = bit
Decoded(i, r, v, c, y, prob, bit) ==
  LET take == Taken(r, prob, bit)
      s == Shift(take)
      value == (v - 256 * Skipped(r, prob, bit)) * 2^s
  IN IF c + s < 8 THEN Window(i, take * 2^s, value, c + s, y)
     ELSE IF i = <<>> THEN Window(i, take * 2^s, value, c, TRUE)
     ELSE Window(Tail(i), take * 2^s, value + Head(i) * 2^((c + s) - 8), (c + s) - 8, y)

LEMMA ReadBoolIs ==
  ASSUME NEW i, NEW r, NEW v, NEW c, NEW y, NEW prob, NEW bit, Deciding(i, r, v, c, y, prob, bit)
  PROVE  ReadBool(Window(i, r, v, c, y), prob) = Decoded(i, r, v, c, y, prob, bit)
<1>0. v \in Int /\ bit \in BOOLEAN /\ Decide(Window(i, r, v, c, y), prob) = bit
  BY DEF Deciding
<1> USE <1>0
<1> DEFINE d == Window(i, r, v, c, y)  split == Split(r, prob)
           range == IF bit THEN r - split ELSE split  s == Shift(range)
           value == (IF bit THEN v - 256 * split ELSE v) * 2^s  bits == c + s
<1>1. d.input = i /\ d.range = r /\ d.value = v /\ d.bit_count = c
  BY WindowFieldsAre
<1>2. ReadBool(d, prob) =
        IF bits < 8 THEN RangeValueCount(d, range * 2^s, value, bits)
        ELSE IF i = <<>> THEN RangeValueDry(d, range * 2^s, value, TRUE)
        ELSE RangeCountValueInput(d, range * 2^s, bits - 8, value + Head(i) * 2^(bits - 8))
  <2> HIDE DEF d
  <2> QED BY <1>1 DEF ReadBool, RangeValueCount, RangeValueDry, RangeCountValueInput, d
<1>3. range = Taken(r, prob, bit)
  BY DEF Taken
<1>4. (IF bit THEN v - 256 * split ELSE v) = v - 256 * Skipped(r, prob, bit)
  BY DEF Skipped
<1>5. ASSUME NEW r2, NEW v2, NEW c2, NEW x
      PROVE  /\ RangeValueCount(d, r2, v2, c2) = Window(i, r2, v2, c2, y)
             /\ RangeValueDry(d, r2, v2, x) = Window(i, r2, v2, c, x)
             /\ RangeCountValueInput(d, r2, c2, v2) = Window(Tail(i), r2, v2, c2, y)
  BY WindowFields
<1>6. ReadBool(d, prob) =
        IF bits < 8 THEN Window(i, range * 2^s, value, bits, y)
        ELSE IF i = <<>> THEN Window(i, range * 2^s, value, c, TRUE)
        ELSE Window(Tail(i), range * 2^s, value + Head(i) * 2^(bits - 8), bits - 8, y)
  <2> DEFINE x1 == range * 2^s  x2 == value + Head(i) * 2^(bits - 8)  b2 == bits - 8
  <2>1. /\ RangeValueCount(d, x1, value, bits) = Window(i, x1, value, bits, y)
        /\ RangeCountValueInput(d, x1, b2, x2) = Window(Tail(i), x1, x2, b2, y)
    <3> HIDE DEF d, x1, x2, b2, value, bits
    <3> QED BY <1>5
  <2>2. \A x : RangeValueDry(d, x1, value, x) = Window(i, x1, value, c, x)
    <3> HIDE DEF d, x1, value
    <3> QED BY <1>5
  <2>3. RangeValueDry(d, x1, value, TRUE) = Window(i, x1, value, c, TRUE)
    <3> HIDE DEF d, x1, value
    <3> QED BY <2>2, Zenon
  <2> HIDE DEF d, x1, x2, b2, value, bits
  <2> QED BY <1>2, <2>1, <2>3, Zenon DEF x1, x2, b2
<1> DEFINE take == Taken(r, prob, bit)  w == (v - 256 * Skipped(r, prob, bit)) * 2^Shift(take)
<1>7. range = take /\ s = Shift(take) /\ value = w
  BY <1>3, <1>4
<1> HIDE DEF range, s, value
<1> QED BY <1>6, <1>7 DEF take, w, Decoded

-----------------------------------------------------------------------------
LEMMA RestOfBytes ==
  ASSUME NEW b \in Seq(Byte), NEW m \in 0..Len(b) - 1
  PROVE  LET i == SubSeq(b, m + 1, Len(b))
         IN i # <<>> /\ Head(i) = b[m + 1] /\ Tail(i) = SubSeq(b, m + 2, Len(b))
<1> DEFINE N == Len(b)  i == SubSeq(b, m + 1, N)  t == SubSeq(b, m + 2, N)  k == N - m
<1>1. N \in Nat /\ m \in Nat /\ m + 1 <= N
  BY LenProperties
<1>2. i \in Seq(Byte) /\ Len(i) = k /\ \A j \in 1..k : i[j] = b[m + j]
  <2>1. i = [j \in 1..k |-> b[m + j]]
    <3>1. i = [j \in 1..((1 + N) - (m + 1)) |-> b[((m + 1) + j) - 1]]
      OBVIOUS
    <3>2. ((1 + N) - (m + 1)) = k /\ \A j \in 1..k : ((m + 1) + j) - 1 = m + j
      BY <1>1
    <3> QED BY <3>1, <3>2
  <2>2. \A j \in 1..k : b[m + j] \in Byte
    <3>1. \A j \in 1..k : m + j \in 1..N
      BY <1>1
    <3> QED BY <3>1, ElementOfSeq
  <2> DEFINE x(j) == b[m + j]
  <2>3. i = [j \in 1..k |-> x(j)] /\ (\A j \in 1..k : x(j) \in Byte) /\ k \in Nat
    BY <1>1, <2>1, <2>2
  <2> HIDE DEF x, i, k
  <2>4. i \in Seq(Byte) /\ Len(i) = k /\ \A j \in 1..k : i[j] = x(j)
    <3>1. i \in [1..k -> Byte]
      BY <2>3
    <3>2. i \in Seq(Byte) /\ Len(i) = k
      BY <2>3, <3>1, SeqDef, LenProperties
    <3> QED BY <2>3, <3>2
  <2> QED BY <2>4 DEF x
<1> HIDE DEF i
<1>3. i # <<>> /\ Head(i) = i[1] /\ k >= 1 /\ k \in Nat
  <2>1. k >= 1 /\ k \in Nat
    BY <1>1
  <2>2. i # <<>>
    BY <1>2, <2>1, EmptySeq
  <2> QED BY <1>2, <2>1, <2>2, HeadTailProperties
<1>4. t = [j \in 1..k - 1 |-> b[(m + 1) + j]]
  <2>1. t = [j \in 1..((1 + N) - (m + 2)) |-> b[((m + 2) + j) - 1]]
    OBVIOUS
  <2>2. ((1 + N) - (m + 2)) = k - 1 /\ \A j \in 1..k - 1 : ((m + 2) + j) - 1 = (m + 1) + j
    BY <1>1
  <2> QED BY <2>1, <2>2
<1>5. Tail(i) = [j \in 1..k - 1 |-> i[j + 1]]
  <2>1. Tail(i) \in Seq(Byte) /\ Len(Tail(i)) = k - 1 /\ \A j \in 1..k - 1 : Tail(i)[j] = i[j + 1]
    BY <1>2, <1>3, HeadTailProperties
  <2> DEFINE z == Tail(i)
  <2>2. z = [j \in 1..Len(z) |-> z[j]]
    <3> HIDE DEF z
    <3>1. z \in Seq(Byte)
      BY <2>1 DEF z
    <3> QED BY <3>1, LenProperties
  <2> HIDE DEF k
  <2> QED BY <2>1, <2>2
<1>6. \A j \in 1..k - 1 : i[j + 1] = b[(m + 1) + j]
  <2>1. \A j \in 1..k - 1 : j + 1 \in 1..k /\ m + (j + 1) = (m + 1) + j
    BY <1>1, <1>3
  <2> HIDE DEF k
  <2> QED BY <1>2, <2>1
<1>7. Tail(i) = t
  <2> HIDE DEF k, t
  <2> QED BY <1>4, <1>5, <1>6, Zenon
<1>8. Head(i) = b[m + 1]
  <2>1. 1 \in 1..k
    BY <1>3
  <2> HIDE DEF k
  <2> QED BY <1>2, <1>3, <2>1
<1> QED BY <1>3, <1>7, <1>8 DEF i

LEMMA Cancelled ==
  ASSUME NEW x \in Int, NEW y \in Int, NEW q \in Nat \ {0}
  PROVE  /\ x <= y => x * q <= y * q
         /\ x < y => x * q < y * q
         /\ x * q <= y * q => x <= y
         /\ x * q < y * q => x < y
<1>1. x <= y => x * q <= y * q
  OBVIOUS
<1>2. x < y => x * q < y * q
  OBVIOUS
<1>3. y <= x => y * q <= x * q
  OBVIOUS
<1>4. y < x => y * q < x * q
  OBVIOUS
<1>5. x * q \in Int /\ y * q \in Int
  OBVIOUS
<1> QED BY <1>1, <1>2, <1>3, <1>4, <1>5

(* The window is far enough to decide: what is below its last c bits cannot   *)
(* tip the balance.                                                          *)
Balance(u, w, p, Q, T, X, y, split) ==
  /\ u \in Nat /\ w \in Nat /\ p \in Nat \ {0} /\ Q \in Nat \ {0} /\ T \in Nat /\ X \in Nat
  /\ y \in Nat /\ split \in Nat /\ 256 * X = (u * p) * Q + 256 * T /\ 256 * T < p * Q
  /\ y = w * p /\ y = 256 * split

LEMMA WindowDecides ==
  ASSUME NEW u, NEW w, NEW p, NEW Q, NEW T, NEW X, NEW y, NEW split, Balance(u, w, p, Q, T, X, y, split)
  PROVE  /\ split * Q <= X => y <= u * p
         /\ X < split * Q => u * p < y
<1> DEFINE v == u * p  vq == v * Q  pq == p * Q  sq == split * Q  yq == y * Q
<1>0. /\ u \in Nat /\ w \in Nat /\ p \in Nat \ {0} /\ Q \in Nat \ {0} /\ T \in Nat /\ X \in Nat
      /\ y \in Nat /\ split \in Nat /\ 256 * X = (u * p) * Q + 256 * T /\ 256 * T < p * Q
      /\ y = w * p /\ y = 256 * split
  BY DEF Balance
<1> USE <1>0
<1>1. v \in Nat /\ vq \in Nat /\ pq \in Nat /\ sq \in Nat /\ yq \in Nat
  <2>1. v \in Nat
    OBVIOUS
  <2> HIDE DEF v
  <2> QED BY <2>1
<1>2. yq = 256 * sq
  <2>1. (256 * split) * Q = 256 * (split * Q)
    <3>1. 256 \in Int /\ split \in Int /\ Q \in Int
      OBVIOUS
    <3> QED BY ONLY <3>1, Products
  <2> QED BY <2>1
<1>3. (v + p) * Q = vq + pq
  <2>1. v \in Int /\ p \in Int /\ Q \in Int
    BY <1>1
  <2> QED BY ONLY <2>1, Products
<1>4. (u + 1) * p = v + p
  <2>1. u \in Int /\ 1 \in Int /\ p \in Int
    OBVIOUS
  <2>2. (u + 1) * p = u * p + 1 * p
    BY ONLY <2>1, Products
  <2> QED BY <2>1, <2>2
<1>5. /\ 256 * X = vq + 256 * T /\ 256 * T < pq
  OBVIOUS
<1> HIDE DEF vq, pq, sq, yq
<1>6. ASSUME sq <= X PROVE y <= v
  <2>1. yq < vq + pq
    BY <1>1, <1>2, <1>5, <1>6
  <2>2. y * Q < (v + p) * Q
    BY <1>3, <2>1 DEF yq
  <2>3. y < v + p
    <3> DEFINE z == v + p
    <3>1. z \in Int /\ y \in Int /\ y * Q < z * Q
      BY <1>1, <2>2
    <3> HIDE DEF z
    <3>2. y < z
      BY <3>1, Cancelled
    <3> QED BY <3>2 DEF z
  <2>4. w * p < (u + 1) * p
    BY <1>4, <2>3
  <2>5. w < u + 1
    <3> DEFINE z == u + 1
    <3>1. z \in Int /\ w \in Int /\ w * p < z * p
      BY <2>4
    <3> HIDE DEF z
    <3>2. w < z
      BY <3>1, Cancelled
    <3> QED BY <3>2 DEF z
  <2>6. w <= u
    BY <2>5
  <2>7. w * p <= u * p
    <3>1. w \in Int /\ u \in Int
      OBVIOUS
    <3> QED BY <2>6, <3>1, Cancelled
  <2> QED BY <2>7
<1>7. ASSUME X < sq PROVE v < y
  <2>1. vq < yq
    BY <1>1, <1>2, <1>5, <1>7
  <2> HIDE DEF v
  <2>2. v * Q < y * Q
    BY <2>1 DEF vq, yq
  <2>3. v \in Int /\ y \in Int
    BY <1>1
  <2> QED BY <2>2, <2>3, Cancelled
<1> QED BY <1>6, <1>7 DEF sq

-----------------------------------------------------------------------------
LEMMA PowerSplit ==
  ASSUME NEW c \in 0..8
  PROVE  Power(8 - c) \in Nat \ {0} /\ Power(c) \in Nat \ {0} /\ Power(8 - c) * Power(c) = 256
<1>1. c \in Nat /\ 8 - c \in Nat /\ (8 - c) + c = 8 /\ Power(8) = 256
  BY SmallPowers
<1> DEFINE x == 8 - c
<1>2. Power(x + c) = Power(x) * Power(c) /\ Power(x) \in Nat \ {0} /\ Power(c) \in Nat \ {0}
  <2>1. x \in Nat /\ c \in Nat
    BY <1>1
  <2> HIDE DEF x
  <2>2. Power(x + c) = Power(x) * Power(c)
    BY <2>1, PowerSum
  <2>3. Power(x) \in Nat \ {0} /\ Power(c) \in Nat \ {0}
    BY <2>1, PowerFacts
  <2> QED BY <2>2, <2>3
<1> QED BY <1>1, <1>2

(* What the bytes after the m-th are worth.                                  *)
LEMMA AfterBytes ==
  ASSUME NEW b \in Seq(Byte), NEW m \in 0..Len(b)
  PROVE  /\ After(b, m) \in Nat /\ After(b, m) < Power(8 * (Len(b) - m))
         /\ m < Len(b) => After(b, m) = After(b, m + 1) + b[m + 1] * Power(8 * (Len(b) - (m + 1)))
<1> DEFINE N == Len(b)  g == Partials(b)[m]  F == Number(b)  p == Power(8 * (N - m))  x == 8 * (N - m)
<1>1. N \in Nat /\ x \in Nat
  BY LenProperties
<1>2. g \in Nat /\ F \in Nat /\ g * p <= F /\ F < (g + 1) * p
  BY NumberBounds
<1>3. p \in Nat \ {0}
  <2>1. p = Power(x)
    OBVIOUS
  <2> HIDE DEF x
  <2> QED BY <1>1, <2>1, PowerFacts
<1>4. After(b, m) = F - g * p
  BY DEF After
<1> HIDE DEF g, F, p, N
<1>5. (g + 1) * p = g * p + p /\ g * p \in Nat
  <2>1. g \in Int /\ 1 \in Int /\ p \in Int
    BY <1>2, <1>3
  <2>2. (g + 1) * p = g * p + 1 * p
    BY ONLY <2>1, Products
  <2> QED BY <1>2, <1>3, <2>2, Products
<1>6. After(b, m) \in Nat /\ After(b, m) < p
  BY <1>2, <1>3, <1>4, <1>5
<1>7. ASSUME m < N PROVE After(b, m) = After(b, m + 1) + b[m + 1] * Power(8 * (N - (m + 1)))
  <2> DEFINE q == Power(8 * (N - (m + 1)))  z == b[m + 1]  h == Partials(b)[m + 1]  y == 8 * (N - (m + 1))
  <2>1. y \in Nat /\ y + 8 = x /\ m + 1 \in 1..N /\ (m + 1) - 1 = m
    BY <1>1, <1>7
  <2>2. p = 256 * q /\ q \in Nat \ {0}
    <3>1. q = Power(y) /\ p = Power(x)
      BY DEF p
    <3> HIDE DEF y, q, x
    <3> QED BY <2>1, <3>1, PowerPlus
  <2>3. h = 256 * g + z
    <3>1. Counts(b, Partials(b))
      BY PrefixesCount
    <3> QED BY <2>1, <3>1 DEF Counts, g, N
  <2>4. z \in Nat
    <3>1. z \in Byte
      BY <2>1, ElementOfSeq DEF N
    <3> QED BY <3>1, BytesAreSmall
  <2>5. After(b, m + 1) = F - h * q
    BY DEF After, F, N
  <2> HIDE DEF q, z, h, y, x
  <2>6. h * q = g * p + z * q /\ z * q \in Nat
    <3>1. g \in Int /\ 256 * g \in Int /\ z \in Int /\ q \in Int /\ 256 \in Int
      BY <1>2, <2>2, <2>4
    <3>2. (256 * g + z) * q = (256 * g) * q + z * q
      BY ONLY <3>1, Products
    <3>3. (256 * g) * q = 256 * (g * q)
      BY ONLY <3>1, Products
    <3>4. g * (256 * q) = 256 * (g * q)
      <4>1. g * (256 * q) = (g * 256) * q /\ g * 256 = 256 * g
        BY ONLY <3>1, Products
      <4> QED BY <3>3, <4>1
    <3>5. z * q \in Nat
      BY <2>2, <2>4, Products
    <3> QED BY <2>2, <2>3, <3>2, <3>3, <3>4, <3>5
  <2>7. After(b, m) = After(b, m + 1) + z * q
    BY <1>2, <1>4, <1>5, <2>5, <2>6
  <2> QED BY <2>7 DEF z, q
<1> QED BY <1>6, <1>7 DEF p, N

LEMMA DecodingStarts ==
  ASSUME NEW s \in Seq(Booleans)
  PROVE  DecodedTo(s, InitPartition(Partition(s)), 0)
<1> DEFINE b == Partition(s)  N == Len(b)  F == Number(b)  v == 256 * b[1] + b[2]  c == Coder(s, 0)
<1>1. b \in Seq(Byte) /\ N \in Nat /\ N >= 4 /\ F \in Nat
  BY InsideAtEnd
<1>2. c.range = 255 /\ Low(c) = 0 /\ Scale(c) = 0
  <2>1. c = NewEncoder /\ NewEncoder.range = 255
    BY CoderSteps DEF NewEncoder
  <2> QED BY <2>1, CodingStarts
<1>3. Partials(b)[2] = v /\ v \in Nat
  <2>1. Counts(b, Partials(b))
    BY <1>1, PrefixesCount
  <2> DEFINE f == Partials(b)
  <2>2. 1 \in 1..N /\ 2 \in 1..N
    BY <1>1
  <2>3. f[0] = 0 /\ f[1] = 256 * f[0] + b[1] /\ f[2] = 256 * f[1] + b[2]
    <3>1. f[0] = 0 /\ f[1] = 256 * f[1 - 1] + b[1] /\ f[2] = 256 * f[2 - 1] + b[2]
      BY <2>1, <2>2 DEF Counts
    <3> QED BY <3>1
  <2>4. b[1] \in Nat /\ b[2] \in Nat
    <3>1. b[1] \in Byte /\ b[2] \in Byte
      BY <1>1, <2>2, ElementOfSeq
    <3> QED BY <3>1, BytesAreSmall
  <2> HIDE DEF b, f
  <2> QED BY <2>3, <2>4 DEF f
<1>4. InitPartition(b) = Window(SubSeq(b, 3, N), 255, v, 0, FALSE)
  <2>1. Len(b) >= 2
    BY <1>1
  <2> HIDE DEF b
  <2>2. (IF Len(b) >= 2 THEN SubSeq(b, 3, Len(b)) ELSE <<>>) = SubSeq(b, 3, Len(b))
    BY <2>1, Zenon
  <2>3. (IF Len(b) >= 2 THEN 256 * b[1] + b[2] ELSE 0) = 256 * b[1] + b[2]
    BY <2>1
  <2> QED BY <2>2, <2>3, Zenon DEF InitPartition, Window
<1>5. Offset(s, 0) = F
  <2>1. Offset(s, 0) = F - Low(c) * Unit(s, 0)
    BY DEF Offset
  <2>2. Unit(s, 0) \in Int
    <3>1. Rest(s, 0) \in Nat
      <4>1. Rest(s, 0) = 8 * (N - 1) - Scale(c)
        BY DEF Rest
      <4> HIDE DEF N, c
      <4> QED BY <1>1, <1>2, <4>1
    <3> QED BY <3>1, PowerFacts DEF Unit
  <2> HIDE DEF F, c
  <2> QED BY <1>1, <1>2, <2>1, <2>2
<1>6. Unit(s, 0) = 256 * Power(8 * (N - 2)) /\ Power(8 * (N - 2)) \in Nat
  <2> DEFINE x == 8 * (N - 2)
  <2>1. x \in Nat /\ Rest(s, 0) = x + 8
    <3>1. Rest(s, 0) = 8 * (N - 1) - Scale(c)
      BY DEF Rest
    <3> HIDE DEF N, c
    <3> QED BY <1>1, <1>2, <3>1
  <2>2. Power(x + 8) = 256 * Power(x) /\ Power(x) \in Nat
    <3> HIDE DEF x
    <3> QED BY <2>1, PowerPlus, Zenon
  <2> QED BY <2>1, <2>2 DEF Unit
<1>7. 256 * Offset(s, 0) = v * Unit(s, 0) + 256 * After(b, 2)
  <2> DEFINE q == Power(8 * (N - 2))
  <2>1. After(b, 2) = F - v * q
    BY <1>3 DEF After
  <2>2. q \in Nat /\ Unit(s, 0) = 256 * q
    BY <1>6
  <2> HIDE DEF q, v, F
  <2>3. v * (256 * q) = 256 * (v * q) /\ v * q \in Nat
    BY <1>3, <2>2
  <2> QED BY <1>1, <1>5, <2>1, <2>2, <2>3
<1>8. ReadUpTo(s, InitPartition(b), 0, 2, v, 0)
  <2>1. v * Power(0) = v
    <3> HIDE DEF v
    <3> QED BY <1>3, SmallPowers
  <2>2. 2 + 1 = 3 /\ 0 + 8 * (2 - 2) = 0
    OBVIOUS
  <2> DEFINE d == InitPartition(b)
  <2>3. ~d.dry
    BY DEF InitPartition
  <2>4. d.dry = FALSE
    BY DEF InitPartition
  <2> HIDE DEF v, d
  <2>5. d = Window(SubSeq(b, 3, N), 255, v, 0, d.dry)
    BY <1>4, <2>4, Zenon DEF d
  <2>6. ReadUpTo(s, d, 0, 2, v, 0)
    BY <1>2, <1>7, <2>1, <2>2, <2>3, <2>5 DEF ReadUpTo
  <2> QED BY <2>6 DEF d
<1>9. 2 \in 2..N /\ 0 \in 0..7
  BY <1>1
<1> HIDE DEF v
<1> QED BY <1>3, <1>8, <1>9 DEF DecodedTo

-----------------------------------------------------------------------------
LEMMA UnitsAre ==
  ASSUME NEW s \in Seq(Booleans), NEW n \in 0..Len(s)
  PROVE  Unit(s, n) \in Nat \ {0} /\ Rest(s, n) \in Nat /\ Rest(s, n) >= 1 /\ Offset(s, n) \in Nat
<1>1. Inside(s, n)
  BY AlwaysInside
<1> DEFINE R == Rest(s, n)
<1>2. R \in Nat /\ R >= 1 /\ Offset(s, n) \in Nat
  BY <1>1 DEF Inside
<1>3. Unit(s, n) = Power(R)
  BY DEF Unit
<1> HIDE DEF R
<1>4. Power(R) \in Nat \ {0}
  BY <1>2, PowerFacts, Zenon
<1> QED BY <1>2, <1>3, <1>4 DEF R

ScaledAt(s, n, m, c) ==
  /\ s \in Seq(Booleans) /\ n \in 0..Len(s) /\ m \in 2..Len(Partition(s)) /\ c \in 0..7
  /\ Scale(Coder(s, n)) = c + 8 * (m - 2)

LEMMA UnitAt ==
  ASSUME NEW s, NEW n, NEW m, NEW c, ScaledAt(s, n, m, c)
  PROVE  /\ Rest(s, n) = (8 * (Len(Partition(s)) - m) + 8) - c
         /\ Power(c) * Unit(s, n) = 256 * Power(8 * (Len(Partition(s)) - m))
<1> DEFINE N == Len(Partition(s))  x == 8 * (N - m)  R == Rest(s, n)
<1>0. /\ s \in Seq(Booleans) /\ n \in 0..Len(s) /\ m \in 2..Len(Partition(s)) /\ c \in 0..7
      /\ Scale(Coder(s, n)) = c + 8 * (m - 2)
  BY DEF ScaledAt
<1> USE <1>0
<1>1. N \in Nat /\ x \in Nat
  BY InsideAtEnd
<1>2. R = (x + 8) - c /\ R \in Nat /\ R + c = x + 8 /\ c \in Nat
  <2>1. R = 8 * (N - 1) - Scale(Coder(s, n))
    BY DEF Rest
  <2> HIDE DEF N, R
  <2> QED BY <1>1, <2>1
<1> HIDE DEF x, R
<1>3. Power(R + c) = Power(R) * Power(c) /\ Power(x + 8) = 256 * Power(x) /\ Power(R) \in Nat \ {0}
      /\ Power(c) \in Nat
  <2>1. Power(R + c) = Power(R) * Power(c)
    BY <1>2, PowerSum
  <2>2. Power(x + 8) = 256 * Power(x)
    BY <1>1, PowerPlus
  <2> QED BY <1>2, <2>1, <2>2, PowerFacts
<1>4. Power(c) * Power(R) = 256 * Power(x)
  <2>1. Power(c) * Power(R) = Power(R) * Power(c)
    BY <1>3
  <2> QED BY <1>2, <1>3, <2>1
<1> QED BY <1>2, <1>3, <1>4 DEF Unit, R, x

(* The decision is the boolean written.                                      *)
LEMMA DecidesRight ==
  ASSUME NEW s \in Seq(Booleans), NEW n \in 1..Len(s), NEW d, NEW m \in 2..Len(Partition(s)), NEW u \in Nat,
         NEW c \in 0..7, ReadUpTo(s, d, n - 1, m, u, c)
  PROVE  /\ Decide(d, s[n].prob) = s[n].bit
         /\ Skipped(Coder(s, n - 1).range, s[n].prob, s[n].bit) * Power(8 - c) <= u
<1> DEFINE b == Partition(s)  N == Len(b)  r == Coder(s, n - 1).range  prob == s[n].prob  bit == s[n].bit
           split == Split(r, prob)  p == Power(c)  Q == Unit(s, n - 1)  X == Offset(s, n - 1)
           T == After(b, m)  w == split * Power(8 - c)  y == 256 * split  a == Power(8 - c)
<1>1. prob \in 0..255 /\ bit \in BOOLEAN
  BY BooleanFields, Zenon
<1>2. b \in Seq(Byte) /\ N \in Nat
  BY InsideAtEnd
<1>3. d = Window(SubSeq(b, m + 1, N), r, u * p, c, d.dry) /\ Scale(Coder(s, n - 1)) = c + 8 * (m - 2)
      /\ 256 * X = (u * p) * Q + 256 * T
  BY DEF ReadUpTo
<1>4. n - 1 \in 0..Len(s)
  BY LenProperties
<1>5. Q \in Nat \ {0} /\ p * Q = 256 * Power(8 * (N - m))
  <2>1. Scale(Coder(s, n - 1)) = c + 8 * (m - 2)
    BY <1>3
  <2>2. Power(c) * Unit(s, n - 1) = 256 * Power(8 * (Len(Partition(s)) - m))
    <3> DEFINE k == n - 1
    <3>1. k \in 0..Len(s) /\ Scale(Coder(s, k)) = c + 8 * (m - 2)
      BY <1>4, <2>1
    <3>3. ScaledAt(s, k, m, c)
      BY <3>1 DEF ScaledAt
    <3> HIDE DEF k
    <3>2. Power(c) * Unit(s, k) = 256 * Power(8 * (Len(Partition(s)) - m))
      BY <3>3, UnitAt
    <3> QED BY <3>2 DEF k
  <2> QED BY <1>4, <2>2, UnitsAre, Zenon
<1>6. T \in Nat /\ T < Power(8 * (N - m))
  <2>1. m \in 0..N
    BY <1>2
  <2> HIDE DEF b
  <2> QED BY <1>2, <2>1, AfterBytes
<1>7. X \in Nat
  BY <1>4, UnitsAre, Zenon
<1>8. r \in 128..255
  <2>1. Ready(Coder(s, n - 1))
    BY <1>4, CodersReady
  <2> QED BY <2>1, CodedNumbers
<1>9. split \in 1..r - 1
  <2> HIDE DEF r, prob
  <2> QED BY <1>1, <1>8, SplitInside, Zenon
<1>10. p \in Nat \ {0} /\ a \in Nat \ {0} /\ a * p = 256
  <2>1. c \in 0..8
    OBVIOUS
  <2> QED BY <2>1, PowerSplit, Zenon
<1>11. Turn(s, n)
  BY AlwaysInside
<1>12. d.value = u * p /\ d.range = r
  BY <1>3, WindowFieldsAre
<1> DEFINE z == Power(8 * (N - m))
<1>13. 256 * T < p * Q
  <2>1. z \in Nat
    <3> DEFINE x == 8 * (N - m)
    <3>1. x \in Nat
      BY <1>2
    <3>2. Power(x) \in Nat
      <4> HIDE DEF x
      <4> QED BY <3>1, PowerFacts, Zenon
    <3> QED BY <3>2
  <2>2. p * Q = 256 * z /\ T \in Nat /\ T < z
    BY <1>5, <1>6
  <2> HIDE DEF z, T, p, Q
  <2> QED BY <2>1, <2>2
<1> HIDE DEF b, N, r, p, Q, X, T, a, z
<1>14. Decide(d, prob) <=> u * p >= 256 * split
  BY <1>12 DEF Decide
<1>15. split \in Nat
  BY <1>8, <1>9
<1>16. bit => split * Q <= X
  <2>1. ASSUME bit PROVE Skipped(r, prob, bit) = split
    BY <2>1 DEF Skipped
  <2>2. Skipped(r, prob, bit) * Q <= X
    BY <1>11 DEF Turn, Q, X, r
  <2> QED BY <2>1, <2>2, Zenon
<1>17. ~bit => X < split * Q
  <2>1. ASSUME ~bit PROVE Skipped(r, prob, bit) = 0 /\ Taken(r, prob, bit) = split
    BY <2>1 DEF Skipped, Taken
  <2>2. X < (Skipped(r, prob, bit) + Taken(r, prob, bit)) * Q
    BY <1>11 DEF Turn, Q, X, r
  <2>3. 0 + split = split
    BY <1>15
  <2> QED BY <2>1, <2>2, <2>3
<1> HIDE DEF prob, bit, split
<1>18. w \in Nat /\ y \in Nat /\ y = w * p
  <2>1. w = split * a
    BY DEF w, a
  <2>2. w \in Nat
    BY <1>10, <1>15, <2>1, Products
  <2>3. split \in Int /\ a \in Int /\ p \in Int
    BY <1>10, <1>15
  <2>4. (split * a) * p = split * (a * p)
    BY ONLY <2>3, Products
  <2>5. y = 256 * split /\ split * 256 = 256 * split
    BY <1>15
  <2> HIDE DEF y, w
  <2>6. y \in Nat
    BY <1>15, <2>5
  <2> QED BY <1>10, <2>1, <2>2, <2>4, <2>5, <2>6
<1>19. (split * Q <= X => y <= u * p) /\ (X < split * Q => u * p < y)
  <2>1. y = 256 * split
    OBVIOUS
  <2> HIDE DEF y, w
  <2>2. Balance(u, w, p, Q, T, X, y, split)
    BY <1>3, <1>5, <1>7, <1>6, <1>10, <1>13, <1>15, <1>18, <2>1, Zenon DEF Balance
  <2> QED BY <2>2, WindowDecides
<1>20. u * p \in Nat
  BY <1>10, Products
<1>21. Decide(d, prob) = bit
  <2>1. Decide(d, prob) \in BOOLEAN
    BY DEF Decide
  <2>2. Decide(d, prob) <=> bit
    <3> DEFINE v == u * p
    <3>1. v \in Nat /\ (bit => 256 * split <= v) /\ (~bit => v < 256 * split) /\ (Decide(d, prob) <=> v >= 256 * split)
      BY <1>14, <1>16, <1>17, <1>19, <1>20
    <3> HIDE DEF v
    <3> QED BY <1>15, <3>1
  <2> QED BY <1>1, <2>1, <2>2
<1>22. Skipped(r, prob, bit) * a <= u
  <2>1. CASE bit
    <3>1. Skipped(r, prob, bit) = split
      BY <2>1 DEF Skipped, split
    <3>2. w * p <= u * p
      BY <1>16, <1>18, <1>19, <2>1
    <3>3. w <= u
      <4>1. w \in Int /\ u \in Int
        BY <1>18
      <4> HIDE DEF w
      <4> QED BY <1>10, <3>2, <4>1, Cancelled
    <3> QED BY <3>1, <3>3 DEF w, a
  <2>2. CASE ~bit
    <3>1. Skipped(r, prob, bit) = 0
      BY <2>2 DEF Skipped
    <3>2. 0 * a = 0
      BY <1>10
    <3> QED BY <3>1, <3>2
  <2> QED BY <2>1, <2>2
<1> QED BY <1>21, <1>22 DEF prob, bit, r, a

-----------------------------------------------------------------------------
Shifting(u, k, p, a, h, Q, Q2, X, X2, T, u1, P2) ==
  /\ u \in Nat /\ k \in Nat /\ p \in Nat \ {0} /\ a \in Nat \ {0} /\ h \in Nat \ {0} /\ Q \in Nat \ {0} /\ Q2 \in Nat \ {0}
  /\ X \in Nat /\ X2 \in Nat /\ T \in Nat /\ u1 \in Nat /\ P2 \in Nat
  /\ a * p = 256 /\ Q = h * Q2 /\ u1 = u - k * a /\ P2 = p * h
  /\ 256 * X = (u * p) * Q + 256 * T /\ X2 = X - k * Q

LEMMA WindowShifts ==
  ASSUME NEW u, NEW k, NEW p, NEW a, NEW h, NEW Q, NEW Q2, NEW X, NEW X2, NEW T, NEW u1, NEW P2,
         Shifting(u, k, p, a, h, Q, Q2, X, X2, T, u1, P2)
  PROVE  (u * p - 256 * k) * h = u1 * P2 /\ 256 * X2 = (u1 * P2) * Q2 + 256 * T
<1>1. /\ u \in Nat /\ k \in Nat /\ p \in Nat \ {0} /\ a \in Nat \ {0} /\ h \in Nat \ {0} /\ Q \in Nat \ {0} /\ Q2 \in Nat \ {0}
      /\ X \in Nat /\ X2 \in Nat /\ T \in Nat /\ u1 \in Nat /\ P2 \in Nat
      /\ a * p = 256 /\ Q = h * Q2 /\ u1 = u - k * a /\ P2 = p * h
      /\ 256 * X = (u * p) * Q + 256 * T /\ X2 = X - k * Q
  BY DEF Shifting
<1>2. /\ u \in Int /\ k \in Int /\ p \in Int /\ a \in Int /\ h \in Int /\ Q \in Int /\ Q2 \in Int
      /\ X \in Int /\ T \in Int /\ u1 \in Int /\ P2 \in Int /\ 256 \in Int
  BY <1>1
<1>3. k * a \in Int /\ u * p \in Int /\ u1 * p \in Int /\ k * 256 = 256 * k /\ 256 * k \in Int
  BY ONLY <1>2, Products
<1>4. u = u1 + k * a
  BY <1>1, <1>2, <1>3
<1>5. u * p = u1 * p + 256 * k
  <2>1. (u1 + k * a) * p = u1 * p + (k * a) * p
    BY ONLY <1>2, <1>3, Products
  <2>2. (k * a) * p = k * (a * p)
    BY ONLY <1>2, Products
  <2> QED BY <1>1, <1>3, <1>4, <2>1, <2>2
<1>6. u * p - 256 * k = u1 * p
  BY <1>3, <1>5
<1>7. (u1 * p) * h = u1 * P2
  <2>1. (u1 * p) * h = u1 * (p * h)
    BY ONLY <1>2, Products
  <2> QED BY <1>1, <2>1
<1>8. 256 * X2 = (u1 * P2) * Q2 + 256 * T
  <2>1. (u1 * p + 256 * k) * Q = (u1 * p) * Q + (256 * k) * Q
    BY ONLY <1>2, <1>3, Products
  <2>2. (256 * k) * Q = 256 * (k * Q) /\ k * Q \in Int /\ (u1 * p) * Q \in Int
    BY ONLY <1>2, <1>3, Products
  <2>3. (u1 * p) * (h * Q2) = ((u1 * p) * h) * Q2
    BY ONLY <1>2, <1>3, Products
  <2>4. (u1 * p) * Q = (u1 * P2) * Q2
    BY <1>1, <1>7, <2>3
  <2>5. (u * p) * Q = (u1 * p) * Q + 256 * (k * Q)
    BY <1>5, <2>1, <2>2
  <2> DEFINE y1 == (u * p) * Q  y2 == (u1 * p) * Q  y3 == k * Q
  <2>6. y1 = y2 + 256 * y3 /\ y2 \in Int /\ y3 \in Int /\ 256 * X = y1 + 256 * T /\ X2 = X - y3
    BY <1>1, <2>2, <2>5
  <2> HIDE DEF y1, y2, y3
  <2>7. 256 * X2 = y2 + 256 * T
    BY <1>2, <2>6
  <2> QED BY <2>4, <2>7 DEF y2
<1> QED BY <1>6, <1>7, <1>8

Refilling(X2, T, T2, z, q, pb, Q2, u1, P2) ==
  /\ X2 \in Nat /\ T2 \in Nat /\ z \in Nat /\ q \in Nat /\ pb \in Nat \ {0} /\ Q2 \in Nat \ {0} /\ u1 \in Nat
  /\ 256 * X2 = (u1 * P2) * Q2 + 256 * T /\ T = T2 + z * q /\ pb * Q2 = 256 * q /\ P2 = 256 * pb

LEMMA WindowRefills ==
  ASSUME NEW X2, NEW T, NEW T2, NEW z, NEW q, NEW pb, NEW Q2, NEW u1, NEW P2,
         Refilling(X2, T, T2, z, q, pb, Q2, u1, P2)
  PROVE  u1 * P2 + z * pb = (256 * u1 + z) * pb /\ 256 * X2 = ((256 * u1 + z) * pb) * Q2 + 256 * T2
<1>1. /\ X2 \in Nat /\ T2 \in Nat /\ z \in Nat /\ q \in Nat /\ pb \in Nat \ {0} /\ Q2 \in Nat \ {0} /\ u1 \in Nat
      /\ 256 * X2 = (u1 * P2) * Q2 + 256 * T /\ T = T2 + z * q /\ pb * Q2 = 256 * q /\ P2 = 256 * pb
  BY DEF Refilling
<1>2. /\ X2 \in Int /\ T2 \in Int /\ z \in Int /\ q \in Int /\ pb \in Int /\ Q2 \in Int /\ u1 \in Int /\ 256 \in Int
      /\ 256 * u1 \in Int
  BY <1>1
<1>3. u1 * P2 + z * pb = (256 * u1 + z) * pb
  <2>1. (256 * u1 + z) * pb = (256 * u1) * pb + z * pb
    BY ONLY <1>2, Products
  <2>2. (256 * u1) * pb = u1 * (256 * pb)
    <3>1. (u1 * 256) * pb = u1 * (256 * pb) /\ u1 * 256 = 256 * u1
      BY ONLY <1>2, Products
    <3> QED BY <3>1
  <2> QED BY <1>1, <2>1, <2>2
<1>4. u1 * P2 \in Int /\ z * pb \in Int /\ z * q \in Int /\ (u1 * P2) * Q2 \in Int
  <2>1. P2 \in Int
    BY <1>1, <1>2
  <2>2. u1 * P2 \in Int /\ z * pb \in Int /\ z * q \in Int
    BY ONLY <1>2, <2>1, Products
  <2>3. (u1 * P2) * Q2 \in Int
    BY ONLY <1>2, <2>2, Products
  <2> QED BY <2>2, <2>3
<1>5. ((256 * u1 + z) * pb) * Q2 = (u1 * P2) * Q2 + 256 * (z * q)
  <2>1. (u1 * P2 + z * pb) * Q2 = (u1 * P2) * Q2 + (z * pb) * Q2
    BY ONLY <1>2, <1>4, Products
  <2>2. (z * pb) * Q2 = z * (pb * Q2)
    BY ONLY <1>2, Products
  <2>3. z * (256 * q) = 256 * (z * q)
    <3>1. (z * 256) * q = z * (256 * q) /\ z * 256 = 256 * z /\ (256 * z) * q = 256 * (z * q)
      BY ONLY <1>2, Products
    <3> QED BY <3>1
  <2> QED BY <1>1, <1>3, <2>1, <2>2, <2>3
<1>6. 256 * X2 = ((256 * u1 + z) * pb) * Q2 + 256 * T2
  <2> DEFINE y1 == (u1 * P2) * Q2  y2 == z * q  y3 == ((256 * u1 + z) * pb) * Q2
  <2>1. 256 * X2 = y1 + 256 * T /\ T = T2 + y2 /\ y3 = y1 + 256 * y2 /\ y1 \in Int /\ y2 \in Int
    BY <1>1, <1>4, <1>5
  <2> HIDE DEF y1, y2, y3
  <2>2. 256 * X2 = y3 + 256 * T2
    BY <1>2, <2>1
  <2> QED BY <2>2 DEF y3
<1> QED BY <1>3, <1>6

-----------------------------------------------------------------------------
(* A decoder that has read the first booleans of a partition decides the next *)
(* as it was written, and is then where the rest of the bytes, less what the  *)
(* encoder's interval leaves below, stands in its window (bool_decoder.rs     *)
(* 159-183).                                                                 *)
THEOREM DecodesNext ==
  ASSUME NEW s \in Seq(Booleans), NEW n \in 1..Len(s), NEW d, DecodedTo(s, d, n - 1)
  PROVE  Decide(d, s[n].prob) = s[n].bit /\ DecodedTo(s, ReadBool(d, s[n].prob), n)
<1> DEFINE b == Partition(s)  N == Len(b)
<1>1. PICK m \in 2..N, u \in Nat, c \in 0..7 : ReadUpTo(s, d, n - 1, m, u, c)
  BY Zenon DEF DecodedTo
<1> DEFINE e == Coder(s, n - 1)  e2 == Coder(s, n)  r == e.range  prob == s[n].prob  bit == s[n].bit
           skip == Skipped(r, prob, bit)  take == Taken(r, prob, bit)  sh == Shift(take)
           p == Power(c)  a == Power(8 - c)  h == Power(sh)  Q == Unit(s, n - 1)  Q2 == Unit(s, n)
           X == Offset(s, n - 1)  X2 == Offset(s, n)  T == After(b, m)  i == SubSeq(b, m + 1, N)
           u1 == u - skip * a  bc == c + sh  P2 == Power(bc)  y == d.dry  d2 == ReadBool(d, prob)
<1>2. Decide(d, prob) = bit /\ skip * a <= u
  BY <1>1, DecidesRight
<1>3. prob \in 0..255 /\ bit \in BOOLEAN
  BY BooleanFields
<1>4. n - 1 \in 0..Len(s) /\ n \in 0..Len(s)
  BY LenProperties
<1>5. d = Window(i, r, u * p, c, y) /\ ~y /\ Scale(e) = c + 8 * (m - 2)
      /\ 256 * X = (u * p) * Q + 256 * T
  BY <1>1 DEF ReadUpTo
<1>6. b \in Seq(Byte) /\ N \in Nat
  BY InsideAtEnd
<1>7. Q \in Nat \ {0} /\ Q2 \in Nat \ {0} /\ X \in Nat /\ X2 \in Nat /\ Rest(s, n) >= 1 /\ Rest(s, n) \in Nat
  BY <1>4, UnitsAre
<1>8. Writes(e, prob, bit, e2)
  BY CodersReady
<1>9. e2.range = take * h /\ Scale(e2) = Scale(e) + sh /\ sh \in 0..7
  BY <1>8 DEF Writes
<1>10. Rest(s, n - 1) = Rest(s, n) + sh /\ X2 = X - skip * Q
  <2>1. Turn(s, n)
    BY AlwaysInside
  <2> QED BY <2>1 DEF Turn
<1>11. r \in 128..255
  <2>1. Ready(e)
    BY <1>4, CodersReady
  <2> QED BY <2>1, CodedNumbers
<1>12. take \in 1..255 /\ skip \in Nat
  <2> DEFINE sp == Split(r, prob)
  <2> HIDE DEF r, prob, bit
  <2>1. sp \in 1..r - 1
    BY <1>3, <1>11, SplitInside, Zenon
  <2>2. CASE bit
    <3>1. take = r - sp /\ skip = sp
      BY <2>2 DEF Taken, Skipped
    <3> HIDE DEF take, skip, sp
    <3> QED BY <1>11, <2>1, <3>1
  <2>3. CASE ~bit
    <3>1. take = sp /\ skip = 0
      BY <2>3 DEF Taken, Skipped
    <3> HIDE DEF take, skip, sp
    <3> QED BY <1>11, <2>1, <3>1
  <2> QED BY <2>2, <2>3
<1>13. h = 2^sh
  <2> HIDE DEF take
  <2> QED BY <1>12, ShiftsAre, Zenon
<1>14. T \in Nat /\ (m < N => T = After(b, m + 1) + b[m + 1] * Power(8 * (N - (m + 1))))
  <2>1. m \in 0..N
    BY <1>6
  <2> HIDE DEF b
  <2> QED BY <1>6, <2>1, AfterBytes
<1>15. p \in Nat \ {0} /\ a \in Nat \ {0} /\ a * p = 256
  <2>1. c \in 0..8
    OBVIOUS
  <2> QED BY <2>1, PowerSplit, Zenon
<1> HIDE DEF b, N, e, e2, prob, bit, skip, take, p, a, Q, Q2, X, X2, T, y
<1>16. Rest(s, n) = ((8 * (N - m) + 8) - c) - sh
  <2> DEFINE k == n - 1
  <2>1. ScaledAt(s, k, m, c)
    BY <1>4, <1>5 DEF ScaledAt, N, b, e
  <2> HIDE DEF k
  <2>2. Rest(s, k) = (8 * (N - m) + 8) - c
    BY <2>1, UnitAt DEF N, b
  <2>3. Rest(s, k) = Rest(s, n) + sh
    BY <1>10 DEF k
  <2> HIDE DEF sh
  <2> QED BY <1>6, <1>7, <1>9, <2>2, <2>3
<1>17. h \in Nat \ {0} /\ P2 = p * h /\ P2 \in Nat /\ bc \in Nat
  <2> HIDE DEF sh
  <2>1. sh \in Nat /\ c \in Nat
    BY <1>9
  <2>2. Power(c + sh) = Power(c) * Power(sh) /\ Power(sh) \in Nat \ {0}
    BY <2>1, PowerSum, PowerFacts, Zenon
  <2>3. c + sh \in Nat
    BY <2>1
  <2>4. p * h \in Nat
    BY <1>15, <2>2, Products DEF h
  <2> QED BY <2>2, <2>3, <2>4 DEF p
<1>18. Q = h * Q2
  <2> DEFINE R == Rest(s, n)
  <2> HIDE DEF sh
  <2>1. R \in Nat /\ sh \in Nat /\ Rest(s, n - 1) = R + sh
    BY <1>7, <1>9, <1>10
  <2> HIDE DEF R
  <2>2. Power(R + sh) = Power(R) * Power(sh) /\ Power(sh) \in Nat /\ Power(R) \in Nat
    BY <2>1, PowerSum, PowerFacts, Zenon
  <2>3. Q = Power(R + sh) /\ Q2 = Power(R)
    BY <2>1 DEF Q, Q2, Unit, R
  <2> QED BY <2>2, <2>3 DEF h
<1> HIDE DEF sh, h
<1>19. u1 \in Nat
  <2>1. skip * a \in Nat
    BY <1>12, <1>15, Products
  <2> QED BY <1>2, <2>1
<1> HIDE DEF bc, P2
<1>20. (u * p - 256 * skip) * h = u1 * P2 /\ 256 * X2 = (u1 * P2) * Q2 + 256 * T
  <2>1. u1 = u - skip * a
    OBVIOUS
  <2> HIDE DEF u1
  <2>2. Shifting(u, skip, p, a, h, Q, Q2, X, X2, T, u1, P2)
    BY <1>5, <1>7, <1>10, <1>12, <1>14, <1>15, <1>17, <1>18, <1>19, <2>1 DEF Shifting
  <2> QED BY <2>2, WindowShifts
<1> HIDE DEF u1, i
<1>21. d2 = IF bc < 8 THEN Window(i, e2.range, u1 * P2, bc, y)
            ELSE IF i = <<>> THEN Window(i, e2.range, u1 * P2, c, TRUE)
            ELSE Window(Tail(i), e2.range, u1 * P2 + Head(i) * 2^(bc - 8), bc - 8, y)
  <2> DEFINE v == u * p
  <2>1. v \in Int
    BY <1>15
  <2> HIDE DEF v
  <2>2. Decide(Window(i, r, v, c, y), prob) = bit
    BY <1>2, <1>5 DEF v
  <2>3. ReadBool(Window(i, r, v, c, y), prob) =
          IF c + Shift(Taken(r, prob, bit)) < 8
          THEN Window(i, Taken(r, prob, bit) * 2^Shift(Taken(r, prob, bit)),
                      (v - 256 * Skipped(r, prob, bit)) * 2^Shift(Taken(r, prob, bit)),
                      c + Shift(Taken(r, prob, bit)), y)
          ELSE IF i = <<>>
          THEN Window(i, Taken(r, prob, bit) * 2^Shift(Taken(r, prob, bit)),
                      (v - 256 * Skipped(r, prob, bit)) * 2^Shift(Taken(r, prob, bit)), c, TRUE)
          ELSE Window(Tail(i), Taken(r, prob, bit) * 2^Shift(Taken(r, prob, bit)),
                      (v - 256 * Skipped(r, prob, bit)) * 2^Shift(Taken(r, prob, bit))
                        + Head(i) * 2^((c + Shift(Taken(r, prob, bit))) - 8),
                      (c + Shift(Taken(r, prob, bit))) - 8, y)
    <3> HIDE DEF r
    <3>1. Deciding(i, r, v, c, y, prob, bit)
      BY <1>3, <2>1, <2>2 DEF Deciding
    <3>2. ReadBool(Window(i, r, v, c, y), prob) = Decoded(i, r, v, c, y, prob, bit)
      BY <3>1, ReadBoolIs
    <3> QED BY <3>2 DEF Decoded
  <2>4. /\ Taken(r, prob, bit) * 2^Shift(Taken(r, prob, bit)) = e2.range
        /\ (v - 256 * Skipped(r, prob, bit)) * 2^Shift(Taken(r, prob, bit)) = u1 * P2
        /\ c + Shift(Taken(r, prob, bit)) = bc
    BY <1>9, <1>13, <1>20 DEF v, take, skip, sh, bc
  <2>5. d2 = ReadBool(Window(i, r, v, c, y), prob)
    BY <1>5 DEF v
  <2> HIDE DEF d2, r
  <2> QED BY <2>3, <2>4, <2>5, Zenon
<1> HIDE DEF d2, r
<1>22. CASE bc < 8
  <2>1. bc \in 0..7
    BY <1>17, <1>22
  <2>2. d2 = Window(i, e2.range, u1 * P2, bc, y)
    BY <1>21, <1>22
  <2>3. d2.dry = y
    BY <2>2, WindowFieldsAre
  <2>4. Scale(e2) = bc + 8 * (m - 2)
    BY <1>5, <1>9, <1>6 DEF bc
  <2>5. ReadUpTo(s, d2, n, m, u1, bc)
    BY <1>5, <1>20, <2>2, <2>3, <2>4 DEF ReadUpTo, i, e2, b, N, X2, Q2, T, P2
  <2>6. DecodedTo(s, d2, n)
    BY <1>19, <2>1, <2>5, Zenon DEF DecodedTo, N, b
  <2> QED BY <1>2, <2>6 DEF d2, prob, bit
<1>23. CASE ~(bc < 8)
  <2> DEFINE k == bc - 8  pb == Power(k)  z == b[m + 1]  T2 == After(b, m + 1)  q == Power(8 * (N - (m + 1)))
             u2 == 256 * u1 + z
  <2>1. m < N /\ k \in 0..7 /\ m + 1 \in 2..N /\ bc = k + 8
    BY <1>6, <1>7, <1>9, <1>16, <1>17, <1>23 DEF bc
  <2>2. i # <<>> /\ Head(i) = z /\ Tail(i) = SubSeq(b, m + 2, N)
    <3>1. m \in 0..N - 1
      BY <1>6, <2>1
    <3> QED BY <1>6, <3>1, RestOfBytes DEF i, N
  <2>3. 2^k = pb /\ P2 = 256 * pb /\ pb \in Nat \ {0}
    <3> HIDE DEF k
    <3>1. k \in Nat /\ k \in 0..23
      BY <2>1
    <3>2. Power(k) = 2^k
      BY <3>1, PowersOfTwo, Zenon
    <3>3. Power(k + 8) = 256 * Power(k) /\ Power(k) \in Nat \ {0}
      BY <3>1, PowerPlus, Zenon
    <3> QED BY <2>1, <3>2, <3>3 DEF P2
  <2>4. z \in Nat /\ T2 \in Nat
    <3>1. z \in Byte
      <4>1. m + 1 \in 1..N
        BY <1>6, <2>1
      <4> QED BY <1>6, <4>1, ElementOfSeq DEF N
    <3>2. T2 \in Nat
      <4> DEFINE j == m + 1
      <4>1. j \in 0..N
        BY <1>6, <2>1
      <4> HIDE DEF j
      <4>2. After(b, j) \in Nat
        BY <1>6, <4>1, AfterBytes DEF N
      <4> QED BY <4>2 DEF j
    <3> QED BY <3>1, <3>2, BytesAreSmall
  <2>5. Scale(e2) = k + 8 * ((m + 1) - 2)
    BY <1>5, <1>6, <1>9 DEF bc
  <2>6. pb * Q2 = 256 * q
    <3> DEFINE j == m + 1
    <3>1. ScaledAt(s, n, j, k)
      BY <1>4, <2>1, <2>5 DEF ScaledAt, N, b, e2
    <3> HIDE DEF j, k
    <3>2. Power(k) * Unit(s, n) = 256 * Power(8 * (Len(Partition(s)) - j))
      BY <3>1, UnitAt
    <3> QED BY <3>2 DEF Q2, N, b, j
  <2>7. q \in Nat
    <3> DEFINE x == 8 * (N - (m + 1))
    <3>1. x \in Nat
      BY <1>6, <2>1
    <3> HIDE DEF x
    <3>2. Power(x) \in Nat
      BY <3>1, PowerFacts, Zenon
    <3> QED BY <3>2 DEF x
  <2>8. T = T2 + z * q
    BY <1>14, <2>1
  <2> HIDE DEF k, pb, z, T2, q
  <2>9. u1 * P2 + z * pb = u2 * pb /\ 256 * X2 = (u2 * pb) * Q2 + 256 * T2
    <3>1. Refilling(X2, T, T2, z, q, pb, Q2, u1, P2)
      BY <1>7, <1>19, <1>20, <2>3, <2>4, <2>6, <2>7, <2>8 DEF Refilling
    <3> QED BY <3>1, WindowRefills
  <2>10. u2 \in Nat
    BY <1>19, <2>4
  <2> HIDE DEF u2
  <2>11. d2 = Window(SubSeq(b, m + 2, N), e2.range, u2 * pb, k, y)
    <3>1. d2 = Window(Tail(i), e2.range, u1 * P2 + Head(i) * 2^k, k, y)
      BY <1>21, <1>23, <2>2 DEF k
    <3> QED BY <2>2, <2>3, <2>9, <3>1, Zenon
  <2>12. d2.dry = y
    BY <2>11, WindowFieldsAre
  <2> DEFINE j == m + 1
  <2>13. j + 1 = m + 2 /\ j \in 2..N /\ Scale(e2) = k + 8 * (j - 2)
    BY <2>1, <2>5
  <2>14. T2 = After(b, j)
    BY DEF T2
  <2> HIDE DEF j
  <2>15. ReadUpTo(s, d2, n, j, u2, k)
    BY <1>5, <2>9, <2>11, <2>12, <2>13, <2>14 DEF ReadUpTo, e2, b, N, X2, Q2, pb
  <2>16. DecodedTo(s, d2, n)
    BY <2>1, <2>10, <2>13, <2>15, Zenon DEF DecodedTo, N, b
  <2> QED BY <1>2, <2>16 DEF d2, prob, bit
<1> QED BY <1>22, <1>23

LEMMA NeverDry ==
  ASSUME NEW s, NEW n, NEW d, DecodedTo(s, d, n)
  PROVE  ~d.dry
BY DEF DecodedTo, ReadUpTo

-----------------------------------------------------------------------------
(* Sequences of symbols, of whatever kind.                                   *)
Listed(s) == \E T : s \in Seq(T)

LEMMA ListedFacts ==
  ASSUME NEW s, Listed(s)
  PROVE  Len(s) \in Nat /\ DOMAIN s = 1..Len(s) /\ s = [i \in 1..Len(s) |-> s[i]]
<1> PICK T : s \in Seq(T)
  BY DEF Listed
<1> QED BY LenProperties

LEMMA ListedIs ==
  ASSUME NEW n \in Nat, NEW s, s = [i \in 1..n |-> s[i]]
  PROVE  Listed(s) /\ Len(s) = n
<1> DEFINE T == {s[i] : i \in 1..n}
<1>1. s \in [1..n -> T]
  OBVIOUS
<1> HIDE DEF T
<1>2. s \in Seq(T)
  BY <1>1
<1>3. Len(s) = n
  BY <1>1, <1>2, LenProperties
<1> QED BY <1>2, <1>3, Zenon DEF Listed

LEMMA ListedNone == Listed(<<>>) /\ Len(<<>>) = 0
<1>1. <<>> \in Seq({})
  OBVIOUS
<1> QED BY <1>1 DEF Listed

LEMMA ListedOne ==
  ASSUME NEW x
  PROVE  Listed(<<x>>) /\ Len(<<x>>) = 1 /\ <<x>>[1] = x
<1>1. <<x>> \in Seq({x})
  OBVIOUS
<1> QED BY <1>1, Zenon DEF Listed

LEMMA ListedTwo ==
  ASSUME NEW x, NEW y
  PROVE  <<x, y>> = <<x>> \o <<y>>
<1>1. <<x>> \in Seq({x, y}) /\ <<y>> \in Seq({x, y}) /\ <<x, y>> \in Seq({x, y})
  OBVIOUS
<1>2. Len(<<x, y>>) = 2 /\ Len(<<x>>) = 1 /\ Len(<<y>>) = 1
  OBVIOUS
<1>3. /\ <<x>> \o <<y>> \in Seq({x, y}) /\ Len(<<x>> \o <<y>>) = 2
      /\ (<<x>> \o <<y>>)[1] = x /\ (<<x>> \o <<y>>)[2] = y
  BY <1>1, <1>2, ConcatProperties
<1> DEFINE a == <<x, y>>  b == <<x>> \o <<y>>
<1>4. a \in Seq({x, y}) /\ b \in Seq({x, y}) /\ Len(a) = Len(b) /\ Len(a) = 2
      /\ a[1] = b[1] /\ a[2] = b[2]
  BY <1>1, <1>2, <1>3
<1> HIDE DEF a, b
<1>5. \A i \in 1..Len(a) : a[i] = b[i]
  BY <1>4
<1>6. a = b
  BY <1>4, <1>5, SeqEqual, Zenon
<1> QED BY <1>6 DEF a, b

LEMMA ListedCommon ==
  ASSUME NEW a, NEW b, Listed(a), Listed(b)
  PROVE  \E T : a \in Seq(T) /\ b \in Seq(T)
<1> PICK A : a \in Seq(A)
  BY DEF Listed
<1> PICK B : b \in Seq(B)
  BY DEF Listed
<1>1. A \subseteq A \cup B /\ B \subseteq A \cup B
  OBVIOUS
<1>2. a \in Seq(A \cup B) /\ b \in Seq(A \cup B)
  BY <1>1, SeqMonotonic
<1> QED BY <1>2

(* c is a, then b.                                                            *)
Joins(a, b, c) ==
  /\ Listed(c) /\ Len(c) = Len(a) + Len(b) /\ Len(a) \in Nat /\ Len(b) \in Nat
  /\ \A k \in 1..Len(a) : c[k] = a[k]
  /\ \A k \in 1..Len(b) : c[Len(a) + k] = b[k]

LEMMA ListedJoin ==
  ASSUME NEW a, NEW b, Listed(a), Listed(b)
  PROVE  Joins(a, b, a \o b)
<1> PICK T : a \in Seq(T) /\ b \in Seq(T)
  BY ListedCommon
<1>1. /\ a \o b \in Seq(T) /\ Len(a \o b) = Len(a) + Len(b)
      /\ \A i \in 1..Len(a) + Len(b) : (a \o b)[i] = IF i <= Len(a) THEN a[i] ELSE b[i - Len(a)]
  BY ConcatProperties
<1>2. Len(a) \in Nat /\ Len(b) \in Nat
  BY LenProperties
<1>3. \A k \in 1..Len(a) : (a \o b)[k] = a[k]
  BY <1>1, <1>2
<1>4. ASSUME NEW k \in 1..Len(b) PROVE (a \o b)[Len(a) + k] = b[k]
  <2>1. Len(a) + k \in 1..Len(a) + Len(b) /\ ~(Len(a) + k <= Len(a)) /\ (Len(a) + k) - Len(a) = k
    BY <1>2
  <2> QED BY <1>1, <2>1
<1> QED BY <1>1, <1>2, <1>3, <1>4, Zenon DEF Listed, Joins

LEMMA ListedEmptyJoin ==
  ASSUME NEW a, Listed(a)
  PROVE  a \o <<>> = a /\ <<>> \o a = a
<1> PICK T : a \in Seq(T)
  BY DEF Listed
<1> QED BY ConcatEmptySeq

LEMMA ListedAssociative ==
  ASSUME NEW a, NEW b, NEW c, Listed(a), Listed(b), Listed(c)
  PROVE  (a \o b) \o c = a \o (b \o c)
<1> PICK T : a \in Seq(T) /\ b \in Seq(T)
  BY ListedCommon
<1> PICK C : c \in Seq(C)
  BY DEF Listed
<1>1. a \in Seq(T \cup C) /\ b \in Seq(T \cup C) /\ c \in Seq(T \cup C)
  <2>1. T \subseteq T \cup C /\ C \subseteq T \cup C
    OBVIOUS
  <2> QED BY <2>1, SeqMonotonic
<1> QED BY <1>1, ConcatAssociative, SMTT(30)

LEMMA ListedEqual ==
  ASSUME NEW a, NEW b, Listed(a), Listed(b), Len(a) = Len(b), \A k \in 1..Len(a) : a[k] = b[k]
  PROVE  a = b
<1>1. Len(a) \in Nat /\ a = [i \in 1..Len(a) |-> a[i]] /\ b = [i \in 1..Len(a) |-> b[i]]
  BY ListedFacts
<1> QED BY <1>1

LEMMA ListedAppend ==
  ASSUME NEW a, NEW x, Listed(a)
  PROVE  Append(a, x) = a \o <<x>>
<1> PICK T : a \in Seq(T)
  BY DEF Listed
<1>1. T \subseteq T \cup {x} /\ x \in T \cup {x}
  OBVIOUS
<1>2. a \in Seq(T \cup {x})
  BY <1>1, SeqMonotonic
<1> QED BY <1>1, <1>2, AppendIsConcat

-----------------------------------------------------------------------------
(* Lists of lists, one after the other: F[i] is the first i of them.          *)
PrefixesOf(F, n, parts) ==
  /\ F[0] = <<>> /\ \A i \in 1..n : F[i] = F[i - 1] \o parts[i]
  /\ \A i \in 0..n : Listed(F[i])

LEMMA ListedOver ==
  ASSUME NEW s, Listed(s), NEW U, \A k \in 1..Len(s) : s[k] \in U
  PROVE  s \in Seq(U)
<1>1. Len(s) \in Nat /\ s = [i \in 1..Len(s) |-> s[i]]
  BY ListedFacts
<1> DEFINE n == Len(s)
<1> HIDE DEF n
<1>2. s \in [1..n -> U] /\ n \in Nat
  BY <1>1 DEF n
<1> QED BY <1>2

LEMMA PrefixesExist ==
  ASSUME NEW n \in Nat, NEW parts, \A i \in 1..n : Listed(parts[i])
  PROVE  \E F : PrefixesOf(F, n, parts)
<1> DEFINE U == UNION { {parts[i][k] : k \in 1..Len(parts[i])} : i \in 1..n }
           X == Seq(U)
           step == [x \in (1..n) \X X |-> x[2] \o parts[x[1]]]
<1>1. \A i \in 1..n : parts[i] \in X
  <2> SUFFICES ASSUME NEW i \in 1..n PROVE parts[i] \in X
    OBVIOUS
  <2>1. \A k \in 1..Len(parts[i]) : parts[i][k] \in U
    OBVIOUS
  <2> HIDE DEF U
  <2> QED BY <2>1, ListedOver
<1>2. <<>> \in X
  <2> HIDE DEF U
  <2> QED BY EmptySeq
<1>3. \A i \in 1..n, s \in X : s \o parts[i] \in X
  <2> HIDE DEF U
  <2> QED BY <1>1, ConcatProperties
<1>4. \A i \in 1..n, s \in X : step[<<i, s>>] = s \o parts[i]
  <2> HIDE DEF X
  <2> QED BY Zenon
<1>5. \A s \in X : Listed(s)
  BY DEF Listed
<1> HIDE DEF X, step
<1>6. PICK f : StepsFrom(f, n, X, <<>>, step)
  <2>1. \A i \in 1..n, s \in X : step[<<i, s>>] \in X
    BY <1>3, <1>4, Zenon
  <2> QED BY <1>2, <2>1, StepByStep, Zenon
<1>7. f \in [0..n -> X] /\ f[0] = <<>>
  BY <1>6 DEF StepsFrom
<1>8. ASSUME NEW i \in 1..n PROVE f[i] = f[i - 1] \o parts[i]
  <2>1. i - 1 \in 0..n
    OBVIOUS
  <2>2. f[i] = step[<<i, f[i - 1]>>] /\ f[i - 1] \in X
    BY <1>6, <1>7, <2>1 DEF StepsFrom
  <2> QED BY <1>4, <2>2, Zenon
<1>9. PrefixesOf(f, n, parts)
  BY <1>5, <1>7, <1>8, Zenon DEF PrefixesOf
<1> QED BY <1>9

LEMMA Flattening ==
  ASSUME NEW n \in Nat \ {0}, NEW parts, parts = [i \in 1..n |-> parts[i]], NEW F, PrefixesOf(F, n, parts),
         Listed(parts[1])
  PROVE  FlattenSeq(parts) = F[n]
<1> DEFINE G == [i \in 1..n |-> F[i]]
           Rule(f) == f = [i \in 1..n |-> IF i = 1 THEN parts[i] ELSE f[i - 1] \o parts[i]]
           K == CHOOSE f : Rule(f)
           S == {i \in Nat : i + 1 <= n => K[i + 1] = F[i + 1]}
<1>1. Len(parts) = n
  BY ListedIs
<1>2. FlattenSeq(parts) = K[n]
  BY <1>1 DEF FlattenSeq
<1>3. F[1] = parts[1]
  <2>1. 1 \in 1..n /\ 1 - 1 = 0
    OBVIOUS
  <2>2. F[1] = <<>> \o parts[1]
    BY <2>1, Zenon DEF PrefixesOf
  <2> QED BY <2>2, ListedEmptyJoin
<1>4. Rule(G)
  <2>1. ASSUME NEW i \in 1..n PROVE G[i] = IF i = 1 THEN parts[i] ELSE G[i - 1] \o parts[i]
    <3>1. CASE i = 1
      BY <1>3, <3>1
    <3>2. CASE i # 1
      <4>1. i - 1 \in 1..n /\ F[i] = F[i - 1] \o parts[i]
        BY <3>2 DEF PrefixesOf
      <4> QED BY <3>2, <4>1
    <3> QED BY <3>1, <3>2
  <2>2. G = [i \in 1..n |-> G[i]]
    OBVIOUS
  <2> HIDE DEF G
  <2> QED BY <2>1, <2>2, Zenon
<1>5. Rule(K)
  <2> HIDE DEF Rule, G
  <2> QED BY <1>4
<1> HIDE DEF K
<1>6. K[1] = parts[1] /\ \A i \in 1..n : i # 1 => K[i] = K[i - 1] \o parts[i]
  <2>1. 1 \in 1..n
    OBVIOUS
  <2> QED BY <1>5, <2>1, Zenon
<1>7. 0 \in S
  BY <1>3, <1>6
<1>8. ASSUME NEW i \in Nat, i \in S PROVE i + 1 \in S
  <2> SUFFICES ASSUME (i + 1) + 1 <= n PROVE K[(i + 1) + 1] = F[(i + 1) + 1]
    OBVIOUS
  <2> DEFINE j == (i + 1) + 1
  <2>1. j \in 1..n /\ j # 1 /\ j - 1 = i + 1 /\ K[i + 1] = F[i + 1]
    BY <1>8
  <2> HIDE DEF j
  <2>2. K[j] = K[j - 1] \o parts[j] /\ F[j] = F[j - 1] \o parts[j]
    BY <1>6, <2>1, Zenon DEF PrefixesOf
  <2>3. K[j] = F[j]
    BY <2>1, <2>2, Zenon
  <2> QED BY <2>3 DEF j
<1>9. \A i \in Nat : i \in S
  <2> HIDE DEF S
  <2> QED BY <1>7, <1>8, NaturalInduction
<1>10. n - 1 \in S /\ (n - 1) + 1 = n
  <2>1. n - 1 \in Nat
    OBVIOUS
  <2> QED BY <1>9, <2>1
<1> QED BY <1>2, <1>10

-----------------------------------------------------------------------------
(* A walk of a layout: what the parser makes of the booleans r, one at a time, *)
(* is f; the probability it asks for is the one each was written with.       *)
Walking(layout, f, r) ==
  \A i \in 1..Len(r) :
    f[i - 1].at # "done" /\ NextProb(layout, f[i - 1]) = r[i].prob /\ f[i] = Took(layout, f[i - 1], r[i].bit)
Leads(layout, p, r, q) ==
  r \in Seq(Booleans) /\ \E f : f[0] = p /\ f[Len(r)] = q /\ Walking(layout, f, r)

LEMMA LeadsNone ==
  ASSUME NEW layout, NEW p
  PROVE  Leads(layout, p, <<>>, p)
<1> DEFINE f == [i \in 0..0 |-> p]
<1>1. f[0] = p /\ Len(<<>>) = 0 /\ <<>> \in Seq(Booleans) /\ Walking(layout, f, <<>>)
  BY DEF Walking
<1> HIDE DEF f
<1> QED BY <1>1 DEF Leads

LEMMA BooleanIs ==
  ASSUME NEW prob \in 0..255, NEW bit \in BOOLEAN
  PROVE  Bool(prob, bit) \in Booleans /\ Bool(prob, bit).prob = prob /\ Bool(prob, bit).bit = bit
BY DEF Bool, Booleans

LEMMA LeadsOne ==
  ASSUME NEW layout, NEW p, NEW x \in Booleans, p.at # "done", NextProb(layout, p) = x.prob
  PROVE  Leads(layout, p, <<x>>, Took(layout, p, x.bit))
<1> DEFINE q == Took(layout, p, x.bit)  f == [i \in 0..1 |-> IF i = 0 THEN p ELSE q]  r == <<x>>
<1>1. Len(r) = 1 /\ r[1] = x /\ r \in Seq(Booleans)
  OBVIOUS
<1>2. f[0] = p /\ f[1] = q
  OBVIOUS
<1> HIDE DEF f, r
<1>3. Walking(layout, f, r)
  <2>1. \A i \in 1..Len(r) : i = 1 /\ i - 1 = 0
    BY <1>1
  <2> QED BY <1>1, <1>2, <2>1 DEF Walking
<1>4. f[Len(r)] = q
  BY <1>1, <1>2
<1> HIDE DEF q
<1> QED BY <1>1, <1>2, <1>3, <1>4 DEF Leads, q, r

LEMMA LeadsJoin ==
  ASSUME NEW layout, NEW p, NEW q, NEW z, NEW r, NEW t, Leads(layout, p, r, q), Leads(layout, q, t, z)
  PROVE  Leads(layout, p, r \o t, z)
<1> DEFINE m == Len(r)  n == Len(t)  b == r \o t
<1>1. PICK f : f[0] = p /\ f[m] = q /\ Walking(layout, f, r)
  BY DEF Leads
<1>2. PICK g : g[0] = q /\ g[n] = z /\ Walking(layout, g, t)
  BY DEF Leads
<1>3. r \in Seq(Booleans) /\ t \in Seq(Booleans)
  BY DEF Leads
<1>4. b \in Seq(Booleans) /\ Len(b) = m + n /\ m \in Nat /\ n \in Nat
      /\ \A i \in 1..m + n : b[i] = IF i <= m THEN r[i] ELSE t[i - m]
  BY <1>3, ConcatProperties, LenProperties
<1> HIDE DEF b, m, n
<1> DEFINE h == [i \in 0..m + n |-> IF i <= m THEN f[i] ELSE g[i - m]]
<1>5. h[0] = p
  BY <1>1, <1>4
<1>6. h[m + n] = z
  <2>1. CASE n = 0
    <3>1. m + n = m /\ f[m] = z
      BY <1>1, <1>2, <1>4, <2>1
    <3> QED BY <1>4, <3>1
  <2>2. CASE n # 0
    <3>1. ~(m + n <= m) /\ (m + n) - m = n /\ m + n \in 0..m + n
      BY <1>4, <2>2
    <3> QED BY <1>2, <3>1
  <2> QED BY <2>1, <2>2
<1>7. ASSUME NEW i \in 1..m + n
      PROVE  h[i - 1].at # "done" /\ NextProb(layout, h[i - 1]) = b[i].prob /\ h[i] = Took(layout, h[i - 1], b[i].bit)
  <2>1. CASE i <= m
    <3>1. i \in 1..m /\ h[i - 1] = f[i - 1] /\ h[i] = f[i] /\ b[i] = r[i]
      BY <1>4, <2>1
    <3> HIDE DEF h
    <3> QED BY <1>1, <3>1 DEF Walking, m
  <2>2. CASE ~(i <= m)
    <3> DEFINE j == i - m
    <3>1. j \in 1..n /\ h[i] = g[j] /\ b[i] = t[j]
      BY <1>4, <2>2
    <3>2. h[i - 1] = g[j - 1]
      <4>1. CASE j = 1
        <5>1. i - 1 = m /\ j - 1 = 0 /\ i - 1 \in 0..m + n
          BY <1>4, <4>1
        <5> QED BY <1>1, <1>2, <1>4, <5>1
      <4>2. CASE j # 1
        <5>1. ~(i - 1 <= m) /\ (i - 1) - m = j - 1 /\ i - 1 \in 0..m + n
          BY <1>4, <2>2, <4>2
        <5> QED BY <5>1
      <4> QED BY <4>1, <4>2
    <3> HIDE DEF h, j
    <3> QED BY <1>2, <3>1, <3>2 DEF Walking, n
  <2> QED BY <2>1, <2>2
<1>8. Walking(layout, h, b)
  <2> HIDE DEF h
  <2> QED BY <1>4, <1>7 DEF Walking
<1> HIDE DEF h
<1> QED BY <1>4, <1>5, <1>6, <1>8 DEF Leads, b

-----------------------------------------------------------------------------
(* The parser's record, and what each update makes of it.                    *)
Walk(at, node, a, n, left, c, i, ctx3, value) ==
  [at |-> at, node |-> node, a |-> a, n |-> n, left |-> left, c |-> c, i |-> i, ctx3 |-> ctx3, value |-> value]
AtSet(p, x) == [p EXCEPT !.at = x]
NodeSet(p, x) == [p EXCEPT !.node = x]
ASet(p, x) == [p EXCEPT !.a = x]
NSet(p, x) == [p EXCEPT !.n = x]
LeftSet(p, x) == [p EXCEPT !.left = x]
CSet(p, x) == [p EXCEPT !.c = x]
ISet(p, x) == [p EXCEPT !.i = x]
CtxSet(p, x) == [p EXCEPT !.ctx3 = x]
ValueSet(p, x) == [p EXCEPT !.value = x]
AtASet(p, x, y) == [p EXCEPT !.at = x, !.a = y]
NASet(p, x, y) == [p EXCEPT !.n = x, !.a = y]
ALeftSet(p, x, y) == [p EXCEPT !.a = x, !.left = y]
AtALeftSet(p, x, y, z) == [p EXCEPT !.at = x, !.a = y, !.left = z]
AtANLeftSet(p, x, y, z, l) == [p EXCEPT !.at = x, !.a = y, !.n = z, !.left = l]
Advanced(p, x, y, z, l, m, o) ==
  [p EXCEPT !.at = x, !.node = y, !.a = z, !.c = l, !.i = m, !.ctx3 = o]

LEMMA WalkFields ==
  ASSUME NEW at, NEW node, NEW a, NEW n, NEW left, NEW c, NEW i, NEW ctx3, NEW value
  PROVE  LET w == Walk(at, node, a, n, left, c, i, ctx3, value)
         IN /\ w.at = at /\ w.node = node /\ w.a = a /\ w.n = n /\ w.left = left /\ w.c = c /\ w.i = i
            /\ w.ctx3 = ctx3 /\ w.value = value
BY DEF Walk

LEMMA WalkUpdates ==
  ASSUME NEW at, NEW node, NEW a, NEW n, NEW left, NEW c, NEW i, NEW ctx3, NEW value, NEW x
  PROVE  LET w == Walk(at, node, a, n, left, c, i, ctx3, value)
         IN /\ AtSet(w, x) = Walk(x, node, a, n, left, c, i, ctx3, value)
            /\ NodeSet(w, x) = Walk(at, x, a, n, left, c, i, ctx3, value)
            /\ ASet(w, x) = Walk(at, node, x, n, left, c, i, ctx3, value)
            /\ NSet(w, x) = Walk(at, node, a, x, left, c, i, ctx3, value)
            /\ LeftSet(w, x) = Walk(at, node, a, n, x, c, i, ctx3, value)
            /\ CSet(w, x) = Walk(at, node, a, n, left, x, i, ctx3, value)
            /\ ISet(w, x) = Walk(at, node, a, n, left, c, x, ctx3, value)
            /\ CtxSet(w, x) = Walk(at, node, a, n, left, c, i, x, value)
            /\ ValueSet(w, x) = Walk(at, node, a, n, left, c, i, ctx3, x)
BY DEF Walk, AtSet, NodeSet, ASet, NSet, LeftSet, CSet, ISet, CtxSet, ValueSet

LEMMA WalkDone ==
  ASSUME NEW at, NEW node, NEW a, NEW n, NEW left, NEW c, NEW i, NEW ctx3, NEW value, NEW x
  PROVE  Done(Walk(at, node, a, n, left, c, i, ctx3, value), x)
           = Walk("done", node, a, n, left, c, i, ctx3, x)
<1> DEFINE w == Walk(at, node, a, n, left, c, i, ctx3, value)
<1>1. Done(w, x) = ValueSet(AtSet(w, "done"), x)
  BY DEF AtSet, NodeSet, ASet, NSet, LeftSet, CSet, ISet, CtxSet, ValueSet, Done
<1> QED BY <1>1, WalkUpdates

LEMMA WalkAtA ==
  ASSUME NEW at, NEW node, NEW a, NEW n, NEW left, NEW c, NEW i, NEW ctx3, NEW value, NEW x, NEW y
  PROVE  LET w == Walk(at, node, a, n, left, c, i, ctx3, value)
         IN /\ AtASet(w, x, y) = Walk(x, node, y, n, left, c, i, ctx3, value)
            /\ NASet(w, x, y) = Walk(at, node, y, x, left, c, i, ctx3, value)
            /\ ALeftSet(w, x, y) = Walk(at, node, x, n, y, c, i, ctx3, value)
<1> DEFINE w == Walk(at, node, a, n, left, c, i, ctx3, value)
<1>1. /\ AtASet(w, x, y) = ASet(AtSet(w, x), y) /\ NASet(w, x, y) = ASet(NSet(w, x), y)
      /\ ALeftSet(w, x, y) = LeftSet(ASet(w, x), y)
  BY DEF AtSet, NodeSet, ASet, NSet, LeftSet, CSet, ISet, CtxSet, ValueSet, AtASet, NASet, ALeftSet
<1> QED BY <1>1, WalkUpdates

LEMMA WalkMore ==
  ASSUME NEW at, NEW node, NEW a, NEW n, NEW left, NEW c, NEW i, NEW ctx3, NEW value, NEW x, NEW y, NEW z
  PROVE  AtALeftSet(Walk(at, node, a, n, left, c, i, ctx3, value), x, y, z) = Walk(x, node, y, n, z, c, i, ctx3, value)
<1> DEFINE w == Walk(at, node, a, n, left, c, i, ctx3, value)
<1>1. AtALeftSet(w, x, y, z) = LeftSet(ASet(AtSet(w, x), y), z)
  BY DEF AtSet, NodeSet, ASet, NSet, LeftSet, CSet, ISet, CtxSet, ValueSet, AtALeftSet
<1> QED BY <1>1, WalkUpdates

LEMMA WalkMost ==
  ASSUME NEW at, NEW node, NEW a, NEW n, NEW left, NEW c, NEW i, NEW ctx3, NEW value, NEW x, NEW y, NEW z, NEW l
  PROVE  AtANLeftSet(Walk(at, node, a, n, left, c, i, ctx3, value), x, y, z, l)
           = Walk(x, node, y, z, l, c, i, ctx3, value)
<1> DEFINE w == Walk(at, node, a, n, left, c, i, ctx3, value)
<1>1. AtANLeftSet(w, x, y, z, l) = LeftSet(NSet(ASet(AtSet(w, x), y), z), l)
  BY DEF AtSet, NodeSet, ASet, NSet, LeftSet, CSet, ISet, CtxSet, ValueSet, AtANLeftSet
<1> QED BY <1>1, WalkUpdates

LEMMA WalkAdvanced ==
  ASSUME NEW at, NEW node, NEW a, NEW n, NEW left, NEW c, NEW i, NEW ctx3, NEW value,
         NEW x, NEW y, NEW z, NEW l, NEW m, NEW o
  PROVE  Advanced(Walk(at, node, a, n, left, c, i, ctx3, value), x, y, z, l, m, o)
           = Walk(x, y, z, n, left, l, m, o, value)
<1> DEFINE w == Walk(at, node, a, n, left, c, i, ctx3, value)
<1>1. Advanced(w, x, y, z, l, m, o) = CtxSet(ISet(CSet(ASet(NodeSet(AtSet(w, x), y), z), l), m), o)
  BY DEF AtSet, NodeSet, ASet, NSet, LeftSet, CSet, ISet, CtxSet, ValueSet, Advanced
<1> QED BY <1>1, WalkUpdates

-----------------------------------------------------------------------------
Ends(layout, p, r, v) == \E q : Leads(layout, p, r, q) /\ q.at = "done" /\ q.value = v

LEMMA EndsAfter ==
  ASSUME NEW layout, NEW p, NEW q, NEW r, NEW t, NEW v, Leads(layout, p, r, q), Ends(layout, q, t, v)
  PROVE  Ends(layout, p, r \o t, v)
<1>1. PICK z : Leads(layout, q, t, z) /\ z.at = "done" /\ z.value = v
  BY DEF Ends
<1>2. Leads(layout, p, r \o t, z)
  BY <1>1, LeadsJoin
<1> QED BY <1>1, <1>2 DEF Ends

LEMMA EndsDone ==
  ASSUME NEW layout, NEW p, NEW r, NEW at, NEW node, NEW a, NEW n, NEW left, NEW c, NEW i, NEW ctx3, NEW value, NEW v,
         Leads(layout, p, r, Done(Walk(at, node, a, n, left, c, i, ctx3, value), v))
  PROVE  Ends(layout, p, r, v)
<1> DEFINE q == Walk("done", node, a, n, left, c, i, ctx3, v)
<1>1. Leads(layout, p, r, q)
  BY WalkDone
<1>2. q.at = "done" /\ q.value = v
  BY WalkFields
<1> HIDE DEF q
<1> QED BY <1>1, <1>2 DEF Ends

LEMMA BitIs ==
  ASSUME NEW v, NEW k
  PROVE  Bit(v, k) \in BOOLEAN /\ (Bit(v, k) <=> (v \div 2^k) % 2 = 1)
BY DEF Bit

(* The bits of a magnitude, most significant first.                          *)
LEMMA HalfOf ==
  ASSUME NEW v \in Nat, NEW q \in Nat \ {0}
  PROVE  v \div q = 2 * (v \div (2 * q)) + ((v \div q) % 2)
<1> DEFINE x == v \div (2 * q)  y == v \div q  qx == q * x  qy == q * y
<1>1. x \in Nat /\ y \in Nat /\ 2 * q \in Nat \ {0}
  OBVIOUS
<1>2. (2 * q) * x <= v /\ v < (2 * q) * x + 2 * q
  <2> DEFINE d == 2 * q
  <2>1. d \in Nat \ {0}
    OBVIOUS
  <2> HIDE DEF d
  <2>2. d * (v \div d) <= v /\ v < d * (v \div d) + d
    BY <2>1
  <2> QED BY <2>2 DEF d
<1>3. q * y <= v /\ v < q * y + q
  OBVIOUS
<1> HIDE DEF x, y
<1>4. (2 * q) * x = 2 * (q * x)
  BY <1>1
<1>5. 2 * x <= y
  <2>1. SUFFICES ASSUME y + 1 <= 2 * x PROVE FALSE
    BY <1>1
  <2>2. q * (y + 1) <= q * (2 * x)
    BY <1>1, <2>1
  <2>3. q * (y + 1) = q * y + q /\ q * (2 * x) = 2 * (q * x) /\ q * x \in Nat /\ q * y \in Nat
    BY <1>1
  <2> HIDE DEF qx, qy
  <2>4. qy + q <= 2 * qx /\ 2 * qx <= v /\ v < qy + q
    BY <1>2, <1>3, <1>4, <2>2, <2>3 DEF qx, qy
  <2>5. qx \in Nat /\ qy \in Nat
    BY <2>3 DEF qx, qy
  <2> QED BY <2>4, <2>5
<1>6. y <= 2 * x + 1
  <2>1. SUFFICES ASSUME 2 * x + 2 <= y PROVE FALSE
    BY <1>1
  <2>2. q * (2 * x + 2) <= q * y
    BY <1>1, <2>1
  <2>3. q * (2 * x + 2) = 2 * (q * x) + 2 * q /\ q * x \in Nat /\ q * y \in Nat
    BY <1>1
  <2> HIDE DEF qx, qy
  <2>4. 2 * qx + 2 * q <= qy /\ qy <= v /\ v < 2 * qx + 2 * q
    BY <1>2, <1>3, <1>4, <2>2, <2>3 DEF qx, qy
  <2>5. qx \in Nat /\ qy \in Nat
    BY <2>3 DEF qx, qy
  <2> QED BY <2>4, <2>5
<1>7. y = 2 * x + (y % 2)
  BY <1>1, <1>5, <1>6
<1> QED BY <1>7 DEF x, y

LEMMA LiteralIs ==
  ASSUME NEW n \in 1..16, NEW v \in Nat
  PROVE  /\ Literal(n, v) \in Seq(Booleans) /\ Len(Literal(n, v)) = n
         /\ \A k \in 1..n : Literal(n, v)[k].prob = 128 /\ Literal(n, v)[k].bit = Bit(v, n - k)
<1> DEFINE l == Literal(n, v)  x(k) == Bool(128, Bit(v, n - k))
<1>1. l = [k \in 1..n |-> x(k)]
  BY DEF Literal
<1>2. \A k \in 1..n : x(k) \in Booleans /\ x(k).prob = 128 /\ x(k).bit = Bit(v, n - k)
  <2> TAKE k \in 1..n
  <2> DEFINE b == Bit(v, n - k)
  <2>1. b \in BOOLEAN
    BY BitIs
  <2> HIDE DEF b
  <2>2. Bool(128, b) \in Booleans /\ Bool(128, b).prob = 128 /\ Bool(128, b).bit = b
    BY <2>1, BooleanIs
  <2> QED BY <2>2 DEF b
<1> HIDE DEF l, x
<1>3. l \in [1..n -> Booleans]
  BY <1>1, <1>2
<1>4. l \in Seq(Booleans) /\ Len(l) = n
  BY <1>3, LenProperties
<1> QED BY <1>1, <1>2, <1>4 DEF l

LEMMA BitsAre ==
  ASSUME NEW n \in 1..16, NEW v \in Nat, NEW k \in 1..n
  PROVE  v \div Power(n - k) = 2 * (v \div Power((n - k) + 1)) + (IF Bit(v, n - k) THEN 1 ELSE 0)
<1> DEFINE m == n - k  q == Power(m)
<1>1. m \in 0..23 /\ m \in Nat
  OBVIOUS
<1> HIDE DEF m
<1>2. 2^m = q /\ q \in Nat \ {0} /\ Power(m + 1) = 2 * q
  BY <1>1, PowersOfTwo, PowerFacts, Zenon
<1>3. v \div q = 2 * (v \div (2 * q)) + ((v \div q) % 2)
  <2> HIDE DEF q
  <2> QED BY <1>2, HalfOf, Zenon
<1>4. (v \div q) % 2 = IF Bit(v, m) THEN 1 ELSE 0
  <2>1. Bit(v, m) <=> (v \div q) % 2 = 1
    BY <1>2, BitIs
  <2> HIDE DEF q
  <2>2. v \div q \in Nat
    BY <1>2
  <2>3. (v \div q) % 2 = 0 \/ (v \div q) % 2 = 1
    BY <2>2
  <2> QED BY <2>1, <2>3
<1> QED BY <1>2, <1>3, <1>4 DEF m

-----------------------------------------------------------------------------
BitOf(bit) == IF bit THEN 1 ELSE 0

LEMMA TakesBit ==
  ASSUME NEW layout, NEW node, NEW a, NEW n, NEW left, NEW c, NEW i, NEW ctx3, NEW value, NEW bit
  PROVE  LET w == Walk("bits", node, a, n, left, c, i, ctx3, value)
         IN /\ w.at # "done" /\ NextProb(layout, w) = 128
            /\ Took(layout, w, bit) =
                 IF n + 1 = layout.bits THEN TookMagnitude(layout, w, 2 * a + BitOf(bit))
                 ELSE Walk("bits", node, 2 * a + BitOf(bit), n + 1, left, c, i, ctx3, value)
<1> DEFINE w == Walk("bits", node, a, n, left, c, i, ctx3, value)
<1>1. w.at = "bits" /\ w.a = a /\ w.n = n
  BY WalkFields
<1>2. NASet(w, n + 1, 2 * a + BitOf(bit)) = Walk("bits", node, 2 * a + BitOf(bit), n + 1, left, c, i, ctx3, value)
  BY WalkAtA
<1> HIDE DEF w
<1>3. NextProb(layout, w) = 128 /\ w.at # "done"
  BY <1>1 DEF NextProb
<1>4. Took(layout, w, bit) = TookBit(layout, w, BitOf(bit))
  BY <1>1 DEF Took, BitOf
<1>5. TookBit(layout, w, BitOf(bit)) =
        IF n + 1 = layout.bits THEN TookMagnitude(layout, w, 2 * a + BitOf(bit)) ELSE NASet(w, n + 1, 2 * a + BitOf(bit))
  BY <1>1 DEF TookBit, NASet
<1> QED BY <1>2, <1>3, <1>4, <1>5 DEF w

LEMMA TakesLiteral ==
  ASSUME NEW layout, layout.bits \in 1..16, NEW v \in Nat, v < 2^layout.bits,
         NEW node, NEW left, NEW c, NEW i, NEW ctx3, NEW value
  PROVE  \E a, n : Leads(layout, Walk("bits", node, 0, 0, left, c, i, ctx3, value), Literal(layout.bits, v),
                         TookMagnitude(layout, Walk("bits", node, a, n, left, c, i, ctx3, value), v))
<1> DEFINE n == layout.bits  r == Literal(n, v)
           W(a, k) == Walk("bits", node, a, k, left, c, i, ctx3, value)
           A(k) == v \div Power(n - k)
           z == TookMagnitude(layout, W(A(n - 1), n - 1), v)
           f == [k \in 0..n |-> IF k = n THEN z ELSE W(A(k), k)]
<1>1. r \in Seq(Booleans) /\ Len(r) = n /\ \A k \in 1..n : r[k].prob = 128 /\ r[k].bit = Bit(v, n - k)
  <2> HIDE DEF n
  <2>1. n \in 1..16
    BY DEF n
  <2> QED BY <2>1, LiteralIs, Zenon
<1> HIDE DEF r
<1>2. n \in 1..16
  OBVIOUS
<1>3. A(0) = 0
  <2>1. v < Power(n)
    <3> HIDE DEF n
    <3>1. n \in 0..23
      BY <1>2
    <3>2. Power(n) = 2^n
      BY <3>1, PowersOfTwo, Zenon
    <3>3. v < 2^n
      BY DEF n
    <3> QED BY <3>2, <3>3
  <2>2. n - 0 = n /\ n \in Nat
    OBVIOUS
  <2> DEFINE q == Power(n)
  <2>3. q \in Nat \ {0}
    BY <2>2, PowerFacts
  <2> HIDE DEF q
  <2>4. v \div q = 0
    BY <2>1, <2>3 DEF q
  <2> QED BY <2>2, <2>4 DEF q
<1>4. ASSUME NEW k \in 1..n PROVE A(k) = 2 * A(k - 1) + BitOf(Bit(v, n - k))
  <2>1. (n - k) + 1 = n - (k - 1)
    OBVIOUS
  <2>2. v \div Power(n - k) = 2 * (v \div Power((n - k) + 1)) + (IF Bit(v, n - k) THEN 1 ELSE 0)
    <3> HIDE DEF n
    <3> QED BY <1>2, BitsAre
  <2> QED BY <2>1, <2>2 DEF BitOf
<1>5. A(n) = v
  <2>1. n - n = 0 /\ Power(0) = 1
    BY PowerFacts
  <2> QED BY <2>1
<1> HIDE DEF A, z
<1>6. f[0] = W(0, 0) /\ f[n] = z
  <2> HIDE DEF W
  <2>1. 0 \in 0..n /\ n \in 0..n /\ 0 # n
    BY <1>2
  <2>2. f[0] = W(A(0), 0)
    BY <2>1
  <2>3. f[n] = z
    BY <2>1
  <2> HIDE DEF f
  <2> QED BY <1>3, <2>2, <2>3
<1>7. ASSUME NEW k \in 1..n
      PROVE  f[k - 1].at # "done" /\ NextProb(layout, f[k - 1]) = r[k].prob /\ f[k] = Took(layout, f[k - 1], r[k].bit)
  <2> DEFINE b == r[k].bit  m == k - 1
  <2>1. f[m] = W(A(m), m) /\ m + 1 = k /\ 2 * A(m) + BitOf(b) = A(k)
    BY <1>1, <1>2, <1>4
  <2> HIDE DEF b, f
  <2>2. /\ W(A(m), m).at # "done" /\ NextProb(layout, W(A(m), m)) = 128
        /\ Took(layout, W(A(m), m), b) =
             IF m + 1 = n THEN TookMagnitude(layout, W(A(m), m), 2 * A(m) + BitOf(b)) ELSE W(2 * A(m) + BitOf(b), m + 1)
    <3> DEFINE x == A(m)
    <3> HIDE DEF x, m
    <3> QED BY TakesBit
  <2>3. r[k].prob = 128
    BY <1>1
  <2>4. f[k] = IF k = n THEN z ELSE W(A(k), k)
    BY <1>2 DEF f
  <2>5. CASE k = n
    <3>1. m = n - 1 /\ z = TookMagnitude(layout, W(A(m), m), v)
      BY <2>5 DEF z
    <3> HIDE DEF W
    <3> QED BY <1>5, <2>1, <2>2, <2>3, <2>4, <2>5, <3>1 DEF b
  <2>6. CASE k # n
    <3> HIDE DEF W
    <3> QED BY <2>1, <2>2, <2>3, <2>4, <2>6 DEF b
  <2> QED BY <2>5, <2>6
<1>8. Walking(layout, f, r)
  <2> HIDE DEF f, n
  <2> QED BY <1>1, <1>7, Zenon DEF Walking
<1>9. Leads(layout, W(0, 0), r, z)
  <2> HIDE DEF f, n, W
  <2> QED BY <1>1, <1>6, <1>8 DEF Leads
<1>10. Leads(layout, W(0, 0), r, TookMagnitude(layout, W(A(n - 1), n - 1), v))
  BY <1>9 DEF z
<1> QED BY <1>10 DEF r

-----------------------------------------------------------------------------
(* Flags, literals and optional fields.                                      *)
LEMMA StartIs ==
  ASSUME NEW layout
  PROVE  StartParse(layout) =
           Walk(CASE layout.kind = "flag" -> "flag"
                  [] layout.kind = "literal" -> "bits"
                  [] layout.kind = "optional" -> "present"
                  [] layout.kind = "mv" -> "form"
                  [] layout.kind = "mode" /\ layout.of \in Nested -> "nested"
                  [] OTHER -> "tree",
                0, 0, 0, <<>>, NoCoeffs, IF layout.kind = "block" THEN layout.first ELSE 0,
                IF layout.kind = "block" THEN layout.seed ELSE 0, <<>>)
BY DEF StartParse, Walk

LEMMA FlagEnds ==
  ASSUME NEW e, e.shape.kind = "flag", Fits(e)
  PROVE  Ends(e.shape, StartParse(e.shape), WrittenBools(e), e.value)
<1> DEFINE s == e.shape  p == StartParse(s)  b == e.value  x == Bool(s.flag, b)
<1>1. s.flag \in 0..255 /\ b \in BOOLEAN /\ s.kind = "flag"
  BY DEF Fits, Prob
<1>2. WrittenBools(e) = <<x>>
  BY DEF WrittenBools
<1>3. p = Walk("flag", 0, 0, 0, <<>>, NoCoeffs, 0, 0, <<>>)
  BY <1>1, StartIs
<1>4. p.at = "flag"
  BY <1>3, WalkFields
<1> HIDE DEF s, p, b
<1>5. x \in Booleans /\ x.prob = s.flag /\ x.bit = b
  BY <1>1, BooleanIs, Zenon
<1>6. NextProb(s, p) = s.flag /\ Took(s, p, b) = Done(p, b) /\ p.at # "done"
  BY <1>4 DEF NextProb, Took
<1> HIDE DEF x
<1>7. Leads(s, p, <<x>>, Done(p, b))
  BY <1>5, <1>6, LeadsOne
<1>8. Ends(s, p, <<x>>, b)
  BY <1>3, <1>7, EndsDone
<1> QED BY <1>2, <1>8 DEF s, p, b

LEMMA LiteralEnds ==
  ASSUME NEW e, e.shape.kind = "literal", Fits(e)
  PROVE  Ends(e.shape, StartParse(e.shape), WrittenBools(e), e.value)
<1> DEFINE s == e.shape  p == StartParse(s)  v == e.value
<1>1. s.bits \in 1..16 /\ v \in 0..2^s.bits - 1 /\ s.kind = "literal"
  BY DEF Fits
<1>2. WrittenBools(e) = Literal(s.bits, v)
  BY DEF WrittenBools
<1>3. p = Walk("bits", 0, 0, 0, <<>>, NoCoeffs, 0, 0, <<>>)
  BY <1>1, StartIs
<1> HIDE DEF s, p, v
<1>4. v \in Nat /\ v < 2^s.bits
  BY <1>1
<1>5. PICK a, n : Leads(s, p, Literal(s.bits, v), TookMagnitude(s, Walk("bits", 0, a, n, <<>>, NoCoeffs, 0, 0, <<>>), v))
  BY <1>1, <1>3, <1>4, TakesLiteral
<1> DEFINE w == Walk("bits", 0, a, n, <<>>, NoCoeffs, 0, 0, <<>>)
<1>6. TookMagnitude(s, w, v) = Done(w, v)
  BY <1>1 DEF TookMagnitude
<1>7. Ends(s, p, Literal(s.bits, v), v)
  BY <1>5, <1>6, EndsDone
<1> QED BY <1>2, <1>7 DEF s, p, v

(* The sign of a magnitude.                                                  *)
LEMMA SignLeads ==
  ASSUME NEW layout, layout.kind # "mv", NEW v \in Int, NEW node, NEW a, NEW n, NEW left, NEW c, NEW i, NEW ctx3, NEW value
  PROVE  LET w == Walk("sign", node, a, n, left, c, i, ctx3, value)
         IN Leads(layout, w, <<Bool(128, v < 0)>>, TookSign(layout, w, v < 0))
<1> DEFINE w == Walk("sign", node, a, n, left, c, i, ctx3, value)  b == v < 0  x == Bool(128, b)
<1>1. w.at = "sign"
  BY WalkFields
<1>2. b \in BOOLEAN
  OBVIOUS
<1> HIDE DEF w, b
<1>3. x \in Booleans /\ x.prob = 128 /\ x.bit = b
  BY <1>2, BooleanIs
<1>4. w.at # "done" /\ NextProb(layout, w) = 128 /\ Took(layout, w, b) = TookSign(layout, w, b)
  BY <1>1 DEF NextProb, Took
<1>5. Leads(layout, w, <<x>>, TookSign(layout, w, b))
  <2> HIDE DEF x
  <2> QED BY <1>3, <1>4, LeadsOne
<1> QED BY <1>5 DEF w, b

LEMMA SignedMagnitude ==
  ASSUME NEW v \in Int
  PROVE  Abs(v) \in Nat /\ (IF v < 0 THEN -Abs(v) ELSE Abs(v)) = v /\ (v >= 0 => Abs(v) = v)
BY DEF Abs

LEMMA OptionalEnds ==
  ASSUME NEW e, e.shape.kind = "optional", Fits(e)
  PROVE  Ends(e.shape, StartParse(e.shape), WrittenBools(e), e.value)
<1> DEFINE s == e.shape  p == StartParse(s)  v == e.value
           P(at) == Walk(at, 0, 0, 0, <<>>, NoCoeffs, 0, 0, <<>>)
<1>1. s.flag \in 0..255 /\ s.bits \in 1..16 /\ s.signed \in BOOLEAN /\ s.kind = "optional"
  BY DEF Fits, Prob
<1>2. WrittenBools(e) = OptionalField(s, v)
  BY DEF WrittenBools
<1>3. p = P("present")
  BY <1>1, StartIs
<1>4. v = <<>> \/ \E x \in (IF s.signed THEN 1 - 2^s.bits ELSE 0)..2^s.bits - 1 : v = <<x>>
  BY DEF Fits
<1> HIDE DEF s, p, v
<1>5. ASSUME NEW b \in BOOLEAN
      PROVE  Leads(s, p, <<Bool(s.flag, b)>>, IF b THEN P("bits") ELSE Done(p, <<>>))
  <2> DEFINE x == Bool(s.flag, b)
  <2>1. p.at = "present"
    BY <1>3, WalkFields
  <2>2. x \in Booleans /\ x.prob = s.flag /\ x.bit = b
    <3> DEFINE prob == s.flag
    <3>1. prob \in 0..255
      BY <1>1
    <3> HIDE DEF prob
    <3>2. Bool(prob, b) \in Booleans /\ Bool(prob, b).prob = prob /\ Bool(prob, b).bit = b
      BY ONLY <3>1, b \in BOOLEAN, BooleanIs, Zenon
    <3> QED BY <3>2 DEF prob
  <2>3. AtSet(p, "bits") = P("bits")
    BY <1>3, WalkUpdates
  <2>4. p.at # "done" /\ NextProb(s, p) = s.flag /\ Took(s, p, b) = IF b THEN AtSet(p, "bits") ELSE Done(p, <<>>)
    BY <2>1 DEF NextProb, Took, AtSet
  <2> HIDE DEF x, P
  <2>5. Leads(s, p, <<x>>, Took(s, p, b))
    BY <2>2, <2>4, LeadsOne
  <2> QED BY <2>3, <2>4, <2>5 DEF x
<1>6. CASE v = <<>>
  <2>1. OptionalField(s, v) = <<Bool(s.flag, FALSE)>>
    <3> DEFINE z == <<Bool(s.flag, FALSE)>>
    <3>1. OptionalField(s, v) = z \o <<>>
      BY <1>6, Zenon DEF OptionalField
    <3>2. Listed(z)
      BY ListedOne
    <3> HIDE DEF z
    <3>3. z \o <<>> = z
      BY <3>2, ListedEmptyJoin
    <3> QED BY <3>1, <3>3 DEF z
  <2>2. Leads(s, p, <<Bool(s.flag, FALSE)>>, Done(p, <<>>))
    BY <1>5, Zenon
  <2>3. Ends(s, p, <<Bool(s.flag, FALSE)>>, <<>>)
    BY <1>3, <2>2, EndsDone
  <2> QED BY <1>2, <1>6, <2>1, <2>3, Zenon DEF s, p, v
<1>7. ASSUME NEW x \in (IF s.signed THEN 1 - 2^s.bits ELSE 0)..2^s.bits - 1, v = <<x>>
      PROVE  Ends(s, p, OptionalField(s, v), v)
  <2> DEFINE m == Abs(x)  l == Literal(s.bits, m)  o == <<Bool(s.flag, TRUE)>>
  <2>0. 2^s.bits \in Int
    BY <1>1
  <2>1. x \in Int /\ m \in Nat /\ m < 2^s.bits /\ (~s.signed => x >= 0)
    <3> DEFINE z == 2^s.bits
    <3>1. z \in Int /\ x \in (IF s.signed THEN 1 - z ELSE 0)..z - 1
      BY <1>7, <2>0
    <3> HIDE DEF z
    <3>2. x \in Int /\ m \in Nat /\ m < z /\ (~s.signed => x >= 0)
      BY <1>1, <3>1 DEF Abs
    <3> QED BY <3>2 DEF z
  <2> HIDE DEF m
  <2>2. PICK a, n : Leads(s, P("bits"), l, TookMagnitude(s, Walk("bits", 0, a, n, <<>>, NoCoeffs, 0, 0, <<>>), m))
    BY <1>1, <2>1, TakesLiteral, Zenon
  <2> DEFINE w == Walk("bits", 0, a, n, <<>>, NoCoeffs, 0, 0, <<>>)
  <2>3. Leads(s, p, o, P("bits"))
    BY <1>5, Zenon
  <2>4. v # <<>> /\ v[1] = x
    BY <1>7
  <2>5. CASE s.signed
    <3> DEFINE y == Walk("sign", 0, m, n, <<>>, NoCoeffs, 0, 0, <<>>)  g == <<Bool(128, x < 0)>>
    <3>1. TookMagnitude(s, w, m) = y
      <4>1. AtASet(w, "sign", m) = y
        BY WalkAtA
      <4> HIDE DEF w, y
      <4> QED BY <1>1, <2>5, <4>1 DEF TookMagnitude, AtASet
    <3>2. Leads(s, y, g, TookSign(s, y, x < 0))
      BY <1>1, <2>1, SignLeads, Zenon
    <3>3. y.a = m
      BY WalkFields
    <3>4. TookSign(s, y, x < 0) = Done(y, <<x>>)
      <4>1. (IF x < 0 THEN -m ELSE m) = x
        BY <2>1, SignedMagnitude DEF m
      <4> HIDE DEF y
      <4> QED BY <1>1, <3>3, <4>1 DEF TookSign
    <3>5. Ends(s, y, g, v)
      BY <1>7, <3>2, <3>4, EndsDone
    <3>6. Ends(s, P("bits"), l \o g, v)
      <4> HIDE DEF l, g, y, P
      <4> QED BY <2>2, <3>1, <3>5, EndsAfter DEF w
    <3>7. Ends(s, p, o \o (l \o g), v)
      <4> HIDE DEF l, g, o, P
      <4> QED BY <2>3, <3>6, EndsAfter
    <3>8. SignedLiteral(s.bits, x) = l \o g
      <4>1. Listed(l)
        <5>1. l \in Seq(Booleans)
          BY <1>1, <2>1, LiteralIs, Zenon
        <5> QED BY <5>1 DEF Listed
      <4>2. SignedLiteral(s.bits, x) = Append(l, Bool(128, x < 0))
        BY DEF SignedLiteral, m
      <4> HIDE DEF l
      <4> QED BY <4>1, <4>2, ListedAppend
    <3>9. OptionalField(s, v) = o \o (l \o g)
      BY <2>4, <2>5, <3>8, Zenon DEF OptionalField
    <3> QED BY <3>7, <3>9
  <2>6. CASE ~s.signed
    <3>1. m = x
      BY <2>1, <2>6, SignedMagnitude DEF m
    <3>2. TookMagnitude(s, w, m) = Done(w, v)
      <4> HIDE DEF w
      <4> QED BY <1>1, <1>7, <2>6, <3>1 DEF TookMagnitude
    <3>3. Ends(s, P("bits"), l, v)
      BY <2>2, <3>2, EndsDone
    <3>4. Ends(s, p, o \o l, v)
      <4> HIDE DEF l, o, P
      <4> QED BY <2>3, <3>3, EndsAfter
    <3>5. OptionalField(s, v) = o \o l
      BY <2>4, <2>6, <3>1, Zenon DEF OptionalField
    <3> QED BY <3>4, <3>5
  <2> QED BY <1>1, <2>5, <2>6
<1>8. ASSUME v # <<>> PROVE Ends(s, p, OptionalField(s, v), v)
  BY <1>4, <1>7, <1>8
<1> QED BY <1>2, <1>6, <1>8 DEF s, p, v

-----------------------------------------------------------------------------
(* A path of entries through a tree, from a node to entry k.                 *)
TreePath(t, node, P, k) ==
  /\ P \in Seq(DOMAIN t) /\ DOMAIN t \subseteq Nat /\ Len(P) >= 1 /\ P[1] \in node..node + 1 /\ P[Len(P)] = k
  /\ \A i \in 1..Len(P) - 1 : t[P[i]] = P[i + 1] - (P[i + 1] % 2) /\ t[P[i]] > 0
Along(P, probs, r) ==
  /\ r \in Seq(Booleans) /\ Len(r) = Len(P)
  /\ \A i \in 1..Len(P) : r[i].prob = probs[P[i] \div 2] /\ (r[i].bit <=> P[i] % 2 = 1)
TreeProbs(layout, i, ctx3) ==
  CASE layout.kind = "mode" -> ModeProbs(layout)
    [] layout.kind = "mv" -> ShortProbs
    [] layout.kind = "block" -> ProbsAt(i, ctx3)
Treelike(layout) == layout.kind \in {"mode", "mv", "block"}
Leafed(layout, w, child) ==
  CASE layout.kind = "mode"  -> Done(w, Readers[layout.of].modes[1 - child])
    [] layout.kind = "mv"    -> TookMagnitude(layout, w, -child)
    [] layout.kind = "block" -> TookToken(w, -child)

LEMMA TakesTreeBit ==
  ASSUME NEW layout, Treelike(layout), NEW node, NEW a, NEW n, NEW left, NEW c, NEW i, NEW ctx3, NEW value, NEW bit
  PROVE  LET w == Walk("tree", node, a, n, left, c, i, ctx3, value)
             child == TreeOf(layout)[node + BitOf(bit)]
         IN /\ w.at # "done" /\ NextProb(layout, w) = TreeProbs(layout, i, ctx3)[node \div 2]
            /\ Took(layout, w, bit) =
                 IF child > 0 THEN Walk("tree", child, a, n, left, c, i, ctx3, value) ELSE Leafed(layout, w, child)
<1> DEFINE w == Walk("tree", node, a, n, left, c, i, ctx3, value)  child == TreeOf(layout)[node + BitOf(bit)]
<1>1. w.at = "tree" /\ w.node = node /\ w.i = i /\ w.ctx3 = ctx3
  BY WalkFields
<1>2. NodeSet(w, child) = Walk("tree", child, a, n, left, c, i, ctx3, value)
  BY WalkUpdates
<1> HIDE DEF w
<1>3. TreeProbsOf(layout, w) = TreeProbs(layout, i, ctx3)
  BY <1>1 DEF TreeProbsOf, TreeProbs, Treelike
<1>4. NextProb(layout, w) = TreeProbsOf(layout, w)[node \div 2] /\ w.at # "done"
  BY <1>1 DEF NextProb
<1>5. Took(layout, w, bit) = TookTreeBit(layout, w, BitOf(bit))
  BY <1>1 DEF Took, BitOf
<1>6. TookTreeBit(layout, w, BitOf(bit)) = IF child > 0 THEN NodeSet(w, child) ELSE Leafed(layout, w, child)
  BY <1>1 DEF TookTreeBit, NodeSet, Leafed
<1> QED BY <1>2, <1>3, <1>4, <1>5, <1>6 DEF w

LEMMA PathLeads ==
  ASSUME NEW layout, Treelike(layout), NEW node \in Nat, node % 2 = 0, NEW P, NEW k, TreePath(TreeOf(layout), node, P, k),
         ~(TreeOf(layout)[k] > 0), NEW a, NEW n, NEW left, NEW c, NEW i, NEW ctx3, NEW value,
         NEW r, Along(P, TreeProbs(layout, i, ctx3), r)
  PROVE  \E x : Leads(layout, Walk("tree", node, a, n, left, c, i, ctx3, value), r,
                      Leafed(layout, Walk("tree", x, a, n, left, c, i, ctx3, value), TreeOf(layout)[k]))
<1> DEFINE t == TreeOf(layout)  L == Len(P)  W(x) == Walk("tree", x, a, n, left, c, i, ctx3, value)
           N(j) == P[j + 1] - (P[j + 1] % 2)  z == Leafed(layout, W(N(L - 1)), t[k])  probs == TreeProbs(layout, i, ctx3)
           f == [j \in 0..L |-> IF j = L THEN z ELSE W(N(j))]
<1>1. /\ P \in Seq(DOMAIN t) /\ DOMAIN t \subseteq Nat /\ L >= 1 /\ P[1] \in node..node + 1 /\ P[L] = k /\ L \in Nat
      /\ \A j \in 1..L - 1 : t[P[j]] = P[j + 1] - (P[j + 1] % 2) /\ t[P[j]] > 0
  BY LenProperties DEF TreePath
<1>2. r \in Seq(Booleans) /\ Len(r) = L /\ \A j \in 1..L : r[j].prob = probs[P[j] \div 2] /\ (r[j].bit <=> P[j] % 2 = 1)
  BY DEF Along
<1>3. \A j \in 1..L : P[j] \in Nat
  BY <1>1, ElementOfSeq
<1>4. N(0) = node
  <2>1. P[0 + 1] = P[1] /\ P[1] \in Nat
    BY <1>1
  <2> DEFINE y == P[1]
  <2>2. y \in node..node + 1
    BY <1>1
  <2> HIDE DEF y
  <2>3. y - (y % 2) = node
    <3>1. y = node \/ y = node + 1
      BY <2>2
    <3>2. (node + 1) % 2 = 1
      OBVIOUS
    <3> QED BY <3>1, <3>2
  <2> QED BY <2>1, <2>3 DEF y
<1> HIDE DEF L, t, probs
<1>5. f[0] = W(node) /\ f[L] = z
  <2>1. 0 \in 0..L /\ L \in 0..L /\ 0 # L
    BY <1>1
  <2>2. f[0] = W(N(0)) /\ f[L] = z
    <3> HIDE DEF N, z, W
    <3> QED BY <2>1
  <2> QED BY <1>4, <2>2
<1>6. ASSUME NEW j \in 1..L
      PROVE  f[j - 1].at # "done" /\ NextProb(layout, f[j - 1]) = r[j].prob /\ f[j] = Took(layout, f[j - 1], r[j].bit)
  <2> DEFINE b == r[j].bit  m == j - 1  x == N(m)  child == t[x + BitOf(b)]
  <2>1. f[m] = W(x) /\ m + 1 = j /\ j \in 0..L /\ m \in 0..L - 1
    <3>1. m + 1 = j /\ j \in 0..L /\ m \in 0..L /\ m # L /\ m \in 0..L - 1
      BY <1>1
    <3> HIDE DEF m, N, W, z
    <3> QED BY <3>1
  <2>2. x + BitOf(b) = P[j] /\ x \div 2 = P[j] \div 2
    <3> DEFINE y == P[j]
    <3>1. y \in Nat /\ (b <=> y % 2 = 1) /\ x = y - (y % 2)
      BY <1>2, <1>3, <2>1
    <3> HIDE DEF y, x, b
    <3>2. y % 2 = 0 \/ y % 2 = 1
      BY <3>1
    <3>3. x + BitOf(b) = y
      BY <3>1, <3>2 DEF BitOf
    <3>4. x \div 2 = y \div 2
      BY <3>1, <3>2
    <3> QED BY <3>3, <3>4 DEF y
  <2> HIDE DEF b, x
  <2>3. /\ W(x).at # "done" /\ NextProb(layout, W(x)) = probs[x \div 2]
        /\ Took(layout, W(x), b) = IF child > 0 THEN W(child) ELSE Leafed(layout, W(x), child)
    BY TakesTreeBit DEF t, probs
  <2>4. r[j].prob = probs[x \div 2]
    BY <1>2, <2>2
  <2>5. f[j] = IF j = L THEN z ELSE W(N(j))
    <3> HIDE DEF N, z, W
    <3> QED BY <2>1
  <2> HIDE DEF f, W
  <2>6. CASE j = L
    <3>1. child = t[k] /\ m = L - 1
      BY <1>1, <2>2, <2>6
    <3>2. ~(t[k] > 0)
      BY DEF t
    <3>3. z = Leafed(layout, W(x), child)
      BY <3>1 DEF z, x
    <3> QED BY <2>1, <2>3, <2>4, <2>5, <2>6, <3>1, <3>2, <3>3 DEF b
  <2>7. CASE j # L
    <3>1. j \in 1..L - 1
      BY <1>1, <2>7
    <3>2. child = N(j) /\ child > 0
      BY <1>1, <2>2, <3>1
    <3> QED BY <2>1, <2>3, <2>4, <2>5, <2>7, <3>2 DEF b
  <2> QED BY <2>6, <2>7
<1>7. Walking(layout, f, r)
  <2> HIDE DEF f
  <2> QED BY <1>2, <1>6 DEF Walking
<1>8. Leads(layout, W(node), r, z)
  <2> HIDE DEF f, z, W
  <2> QED BY <1>2, <1>5, <1>7 DEF Leads
<1> QED BY <1>8 DEF t, z

-----------------------------------------------------------------------------
(* A tree in which every node but the first is the child of one entry before  *)
(* it.                                                                       *)
Rooted(t, node, M) ==
  /\ node \in Nat /\ node % 2 = 0 /\ M \in Nat /\ DOMAIN t = 0..M
  /\ \A j \in node + 2..M :
       \E p \in node..j - 1 : t[p] = j - (j % 2) /\ \A q \in 0..M : t[q] = j - (j % 2) => q = p
ParentOf(t, j) == CHOOSE p \in DOMAIN t : t[p] = j - (j % 2)
Entries(t, node, f, m) ==
  f = [j \in node..m |-> IF j < node + 2 THEN <<j>> ELSE Append(f[ParentOf(t, j)], j)]

LEMMA ParentIs ==
  ASSUME NEW t, NEW node, NEW M, Rooted(t, node, M), NEW j \in node + 2..M
  PROVE  ParentOf(t, j) \in node..j - 1 /\ t[ParentOf(t, j)] = j - (j % 2)
<1>1. PICK p \in node..j - 1 : t[p] = j - (j % 2) /\ \A q \in 0..M : t[q] = j - (j % 2) => q = p
  BY DEF Rooted
<1>2. p \in DOMAIN t /\ DOMAIN t = 0..M
  BY DEF Rooted
<1>3. ParentOf(t, j) \in 0..M /\ t[ParentOf(t, j)] = j - (j % 2)
  BY <1>1, <1>2 DEF ParentOf
<1> QED BY <1>1, <1>3

LEMMA EntriesExist ==
  ASSUME NEW t, NEW node, NEW M, Rooted(t, node, M), NEW k \in node..M
  PROVE  \E f : Entries(t, node, f, k)
<1> DEFINE S == {m \in Nat : node + m <= M => \E f : Entries(t, node, f, node + m)}
<1>0. node \in Nat /\ M \in Nat
  BY DEF Rooted
<1>1. 0 \in S
  <2> DEFINE g == [j \in node..node |-> <<j>>]
  <2>1. \A j \in node..node : j < node + 2
    BY <1>0
  <2>2. Entries(t, node, g, node)
    BY <2>1 DEF Entries
  <2>3. node + 0 = node
    BY <1>0
  <2> HIDE DEF g
  <2> QED BY <2>2, <2>3
<1>2. ASSUME NEW m \in Nat, m \in S PROVE m + 1 \in S
  <2> SUFFICES ASSUME node + (m + 1) <= M PROVE \E f : Entries(t, node, f, node + (m + 1))
    OBVIOUS
  <2> DEFINE x == node + m  y == node + (m + 1)
  <2>1. x \in Nat /\ y = x + 1 /\ x <= M /\ x >= node
    BY <1>0
  <2>2. PICK f : Entries(t, node, f, x)
    BY <1>2, <2>1
  <2> DEFINE body(h, j) == IF j < node + 2 THEN <<j>> ELSE Append(h[ParentOf(t, j)], j)
             g == [j \in node..y |-> IF j = y THEN body(f, y) ELSE f[j]]
  <2> HIDE DEF x, y
  <2>3. \A j \in node..x : f[j] = body(f, j)
    BY <2>2, Zenon DEF Entries
  <2>4. ASSUME NEW j \in node..y PROVE g[j] = body(g, j)
    <3> DEFINE p == ParentOf(t, j)
    <3>1. j >= node + 2 => p \in node..j - 1 /\ p \in node..y /\ p # y
      <4>1. SUFFICES ASSUME j >= node + 2 PROVE p \in node..j - 1 /\ p \in node..y /\ p # y
        OBVIOUS
      <4>2. j \in node + 2..M
        BY <1>0, <2>1, <4>1 DEF y
      <4>3. p \in node..j - 1
        BY <4>2, ParentIs
      <4> HIDE DEF p
      <4> QED BY <1>0, <2>1, <4>3
    <3>2. body(g, j) = body(f, j)
      <4>1. CASE j < node + 2
        BY <4>1
      <4>2. CASE ~(j < node + 2)
        <5>1. g[p] = f[p]
          <6> HIDE DEF p, body
          <6> QED BY <1>0, <3>1, <4>2
        <5> HIDE DEF g
        <5> QED BY <5>1
      <4> QED BY <4>1, <4>2
    <3>3. CASE j = y
      <4>1. g[j] = body(f, y)
        <5> HIDE DEF body
        <5> QED BY <3>3
      <4> QED BY <3>2, <3>3, <4>1
    <3>4. CASE j # y
      <4>1. j \in node..x
        BY <1>0, <2>1, <3>4
      <4>2. g[j] = f[j]
        <5> HIDE DEF body
        <5> QED BY <3>4
      <4> HIDE DEF body, g
      <4> QED BY <2>3, <3>2, <4>1, <4>2
    <3> QED BY <3>3, <3>4
  <2>5. g = [j \in node..y |-> body(g, j)]
    <3>1. g = [j \in node..y |-> g[j]]
      OBVIOUS
    <3> HIDE DEF g, body
    <3> QED BY <2>4, <3>1
  <2>6. Entries(t, node, g, y)
    <3> HIDE DEF g
    <3> QED BY <2>5, Zenon DEF Entries
  <2> HIDE DEF g
  <2> QED BY <2>6 DEF y
<1>3. k - node \in Nat /\ node + (k - node) = k /\ k <= M
  BY <1>0
<1>4. \A m \in Nat : m \in S
  <2> HIDE DEF S
  <2> QED BY <1>1, <1>2, NaturalInduction
<1>5. k - node \in S
  <2> HIDE DEF S
  <2> QED BY <1>3, <1>4
<1> QED BY <1>3, <1>5

LEMMA EntriesPath ==
  ASSUME NEW t, NEW node, NEW M, Rooted(t, node, M), NEW k \in node..M
  PROVE  TreePath(t, node, EntriesTo(node, t, k), k)
<1> DEFINE F == CHOOSE f : Entries(t, node, f, k)
<1>0. node \in Nat /\ M \in Nat /\ DOMAIN t = 0..M
  BY DEF Rooted
<1>1. Entries(t, node, F, k)
  BY EntriesExist
<1>2. EntriesTo(node, t, k) = F[k]
  BY DEF EntriesTo, Entries, ParentOf
<1> HIDE DEF F
<1>3. \A j \in node..k : F[j] = IF j < node + 2 THEN <<j>> ELSE Append(F[ParentOf(t, j)], j)
  BY <1>1, Zenon DEF Entries
<1> DEFINE S == {m \in Nat : \A j \in node..k : j <= node + m => TreePath(t, node, F[j], j)}
<1>4. ASSUME NEW j \in node..k, j < node + 2 PROVE TreePath(t, node, F[j], j)
  <2> DEFINE P == <<j>>
  <2>0. F[j] = P
    BY <1>3, <1>4, Zenon
  <2>1. j \in Nat /\ j \in node..node + 1
    <3> HIDE DEF P
    <3> QED BY <1>0, <1>4
  <2>2. P \in Seq(DOMAIN t) /\ Len(P) = 1 /\ P[1] = j /\ DOMAIN t \subseteq Nat
    BY <1>0, <2>1
  <2> HIDE DEF P
  <2>3. \A i \in 1..Len(P) - 1 : FALSE
    BY <2>2
  <2> QED BY <2>0, <2>1, <2>2, <2>3 DEF TreePath
<1>5. 0 \in S
  <2>1. \A j \in node..k : j <= node + 0 => j < node + 2
    BY <1>0
  <2> QED BY <1>4, <2>1
<1>6. ASSUME NEW m \in Nat, m \in S PROVE m + 1 \in S
  <2> SUFFICES ASSUME NEW j \in node..k, j <= node + (m + 1) PROVE TreePath(t, node, F[j], j)
    OBVIOUS
  <2>1. CASE j < node + 2
    BY <1>4, <2>1
  <2>2. CASE ~(j < node + 2)
    <3> DEFINE p == ParentOf(t, j)  Q == F[p]  R == Append(Q, j)  n == Len(Q)
    <3>1. p \in node..j - 1 /\ t[p] = j - (j % 2)
      <4>1. j \in node + 2..M
        BY <1>0, <2>2
      <4> QED BY <4>1, ParentIs
    <3> HIDE DEF p
    <3>2. p \in node..k /\ p <= node + m /\ j \in Nat /\ j \in DOMAIN t
      BY <1>0, <3>1
    <3>3. TreePath(t, node, Q, p)
      BY <1>6, <3>2
    <3>4. F[j] = R
      BY <1>3, <2>2, Zenon DEF p
    <3> HIDE DEF Q
    <3>5. /\ Q \in Seq(DOMAIN t) /\ DOMAIN t \subseteq Nat /\ n >= 1 /\ Q[1] \in node..node + 1 /\ Q[n] = p /\ n \in Nat
          /\ \A i \in 1..n - 1 : t[Q[i]] = Q[i + 1] - (Q[i + 1] % 2) /\ t[Q[i]] > 0
      BY <3>3, LenProperties DEF TreePath
    <3>6. R \in Seq(DOMAIN t) /\ Len(R) = n + 1 /\ R[n + 1] = j /\ \A i \in 1..n : R[i] = Q[i]
      BY <3>2, <3>5, AppendProperties
    <3> HIDE DEF R, n
    <3>7. j - (j % 2) > 0
      <4>1. j >= 2 /\ (j % 2 = 0 \/ j % 2 = 1)
        BY <1>0, <2>2, <3>2
      <4> QED BY <3>2, <4>1
    <3>8. ASSUME NEW i \in 1..(n + 1) - 1 PROVE t[R[i]] = R[i + 1] - (R[i + 1] % 2) /\ t[R[i]] > 0
      <4>1. CASE i = n
        <5>1. R[i] = p /\ R[i + 1] = j
          <6>1. n \in 1..n
            BY <3>5
          <6> QED BY <3>5, <3>6, <4>1, <6>1
        <5> QED BY <3>1, <3>7, <5>1
      <4>2. CASE i # n
        <5>1. i \in 1..n - 1 /\ i \in 1..n /\ i + 1 \in 1..n
          BY <3>5, <4>2
        <5>2. R[i] = Q[i] /\ R[i + 1] = Q[i + 1]
          BY <3>6, <5>1
        <5> QED BY <3>5, <5>1, <5>2
      <4> QED BY <4>1, <4>2
    <3>9. Len(R) >= 1 /\ R[1] \in node..node + 1
      <4>1. 1 \in 1..n
        BY <3>5
      <4> QED BY <3>5, <3>6, <4>1
    <3> QED BY <3>4, <3>5, <3>6, <3>8, <3>9 DEF TreePath
  <2> QED BY <2>1, <2>2
<1>7. \A m \in Nat : m \in S
  <2> HIDE DEF S
  <2> QED BY <1>5, <1>6, NaturalInduction
<1>8. k - node \in S /\ k <= node + (k - node) /\ k \in node..k
  <2>1. k - node \in Nat /\ k <= node + (k - node) /\ k \in node..k
    BY <1>0
  <2> HIDE DEF S
  <2> QED BY <1>7, <2>1
<1>9. TreePath(t, node, F[k], k)
  BY <1>8
<1> QED BY <1>2, <1>9

-----------------------------------------------------------------------------
(* What is written along a tree is read along it.                            *)
Probable(probs, M) == \A x \in 0..M \div 2 : probs[x] \in 0..255
LeafOf(t, node, leaf) ==
  leaf \in Nat /\ (\E k \in DOMAIN t : t[k] = -leaf) /\ \A k \in DOMAIN t : t[k] = -leaf => k >= node

LEMMA PathAlong ==
  ASSUME NEW t, NEW M \in Nat, DOMAIN t = 0..M, NEW node, NEW P, NEW k, TreePath(t, node, P, k),
         NEW probs, Probable(probs, M)
  PROVE  Along(P, probs, [i \in DOMAIN P |-> Bool(probs[P[i] \div 2], P[i] % 2 = 1)])
<1> DEFINE L == Len(P)  x(i) == Bool(probs[P[i] \div 2], P[i] % 2 = 1)  r == [i \in DOMAIN P |-> x(i)]
<1>1. P \in Seq(DOMAIN t) /\ L \in Nat /\ DOMAIN P = 1..L
  BY LenProperties DEF TreePath
<1>2. \A i \in 1..L : P[i] \in 0..M
  BY <1>1, ElementOfSeq
<1> HIDE DEF L
<1>3. ASSUME NEW i \in 1..L
      PROVE  x(i) \in Booleans /\ x(i).prob = probs[P[i] \div 2] /\ (x(i).bit <=> P[i] % 2 = 1)
  <2> DEFINE y == P[i]  b == (y % 2 = 1)  q == probs[y \div 2]
  <2>1. y \in 0..M
    BY <1>2
  <2> HIDE DEF y
  <2>2. y \div 2 \in 0..M \div 2
    BY <2>1
  <2>3. q \in 0..255 /\ b \in BOOLEAN
    BY <2>2, Zenon DEF Probable
  <2> HIDE DEF q, b
  <2>4. Bool(q, b) \in Booleans /\ Bool(q, b).prob = q /\ Bool(q, b).bit = b
    BY <2>3, BooleanIs, Zenon
  <2> QED BY <2>4, Zenon DEF q, b, y
<1>4. r = [i \in 1..L |-> x(i)]
  BY <1>1
<1> HIDE DEF x, r
<1>5. r \in [1..L -> Booleans]
  BY <1>3, <1>4
<1>6. r \in Seq(Booleans) /\ Len(r) = L
  BY <1>1, <1>5, LenProperties
<1>7. \A i \in 1..L : r[i] = x(i)
  BY <1>4
<1>8. Along(P, probs, r)
  BY <1>3, <1>6, <1>7 DEF Along, L
<1> QED BY <1>8 DEF r, x

LEMMA TreeLeads ==
  ASSUME NEW layout, Treelike(layout), NEW node, NEW M, Rooted(TreeOf(layout), node, M),
         NEW leaf, LeafOf(TreeOf(layout), node, leaf),
         NEW a, NEW n, NEW left, NEW c, NEW i, NEW ctx3, NEW value, Probable(TreeProbs(layout, i, ctx3), M)
  PROVE  \E x : Leads(layout, Walk("tree", node, a, n, left, c, i, ctx3, value),
                      TreedFrom(node, TreeOf(layout), TreeProbs(layout, i, ctx3), leaf),
                      Leafed(layout, Walk("tree", x, a, n, left, c, i, ctx3, value), -leaf))
<1> DEFINE t == TreeOf(layout)  k == CHOOSE k \in DOMAIN t : t[k] = -leaf  P == EntriesTo(node, t, k)
           probs == TreeProbs(layout, i, ctx3)  r == [j \in DOMAIN P |-> Bool(probs[P[j] \div 2], P[j] % 2 = 1)]
<1>1. node \in Nat /\ node % 2 = 0 /\ M \in Nat /\ DOMAIN t = 0..M
  BY DEF Rooted
<1>2. k \in DOMAIN t /\ t[k] = -leaf /\ leaf \in Nat
  BY DEF LeafOf
<1>3. k >= node
  <2> HIDE DEF k
  <2> QED BY <1>2 DEF LeafOf
<1> HIDE DEF k
<1>4. k \in node..M
  BY <1>1, <1>2, <1>3
<1>5. TreePath(t, node, P, k)
  BY <1>4, EntriesPath
<1> HIDE DEF P
<1>6. Along(P, probs, r)
  <2> HIDE DEF t, probs, r
  <2>1. Probable(probs, M)
    BY DEF probs
  <2> QED BY <1>1, <1>5, <2>1, PathAlong DEF r
<1>7. ~(t[k] > 0)
  <2> HIDE DEF t
  <2> QED BY <1>2
<1>8. \E x : Leads(layout, Walk("tree", node, a, n, left, c, i, ctx3, value), r,
                   Leafed(layout, Walk("tree", x, a, n, left, c, i, ctx3, value), t[k]))
  <2> HIDE DEF r
  <2> QED BY <1>1, <1>5, <1>6, <1>7, PathLeads
<1>9. TreedFrom(node, t, probs, leaf) = r
  BY DEF TreedFrom, P, k
<1> HIDE DEF r
<1> QED BY <1>2, <1>8, <1>9

(* Codes that are spelled out climb a tree that leans to one side.           *)
Rungs(code) == [j \in 1..Len(code) |-> 2 * (j - 1) + BitOf(code[j])]
Leaning(t, code, M) ==
  /\ DOMAIN t = 0..M /\ M \in Nat /\ code \in Seq(BOOLEAN) /\ Len(code) >= 1 /\ 2 * Len(code) - 1 <= M
  /\ \A j \in 1..Len(code) - 1 : code[j] /\ t[2 * j - 1] = 2 * j

LEMMA RungsLead ==
  ASSUME NEW t, NEW code, NEW M, Leaning(t, code, M)
  PROVE  TreePath(t, 0, Rungs(code), 2 * (Len(code) - 1) + BitOf(code[Len(code)]))
<1> DEFINE L == Len(code)  P == Rungs(code)
<1>1. /\ DOMAIN t = 0..M /\ M \in Nat /\ L \in Nat /\ L >= 1 /\ 2 * L - 1 <= M
      /\ \A j \in 1..L - 1 : code[j] /\ t[2 * j - 1] = 2 * j
      /\ \A j \in 1..L : code[j] \in BOOLEAN
  BY LenProperties, ElementOfSeq DEF Leaning
<1>2. P = [j \in 1..L |-> 2 * (j - 1) + BitOf(code[j])]
  BY DEF Rungs
<1> HIDE DEF P, L
<1>3. ASSUME NEW j \in 1..L PROVE P[j] = 2 * (j - 1) + BitOf(code[j]) /\ P[j] \in 0..M
  <2>1. P[j] = 2 * (j - 1) + BitOf(code[j])
    BY <1>2
  <2>2. BitOf(code[j]) \in 0..1
    BY DEF BitOf
  <2> QED BY <1>1, <2>1, <2>2
<1>4. P \in [1..L -> 0..M]
  BY <1>2, <1>3
<1>5. P \in Seq(0..M) /\ Len(P) = L
  <2> DEFINE X == 0..M
  <2>1. P \in [1..L -> X] /\ L \in Nat
    BY <1>1, <1>4
  <2> HIDE DEF X
  <2>2. P \in Seq(X)
    BY <2>1
  <2>3. Len(P) = L
    BY <2>1, <2>2, LenProperties
  <2> QED BY <2>2, <2>3 DEF X
<1>6. P[1] \in 0..1 /\ P[L] = 2 * (L - 1) + BitOf(code[L])
  <2>1. 1 \in 1..L /\ L \in 1..L
    BY <1>1
  <2>2. BitOf(code[1]) \in 0..1
    BY DEF BitOf
  <2>3. P[1] = 2 * (1 - 1) + BitOf(code[1])
    BY <1>3, <2>1
  <2> QED BY <1>3, <2>1, <2>2, <2>3
<1>7. ASSUME NEW j \in 1..L - 1 PROVE t[P[j]] = P[j + 1] - (P[j + 1] % 2) /\ t[P[j]] > 0
  <2> DEFINE b == BitOf(code[j + 1])
  <2>1. j \in 1..L /\ j + 1 \in 1..L
    BY <1>1
  <2>2. b \in 0..1 /\ BitOf(code[j]) = 1
    BY <1>1 DEF BitOf
  <2>3. P[j] = 2 * (j - 1) + BitOf(code[j]) /\ P[j + 1] = 2 * ((j + 1) - 1) + b
    BY <1>3, <2>1
  <2> HIDE DEF b
  <2>4. P[j] = 2 * j - 1 /\ P[j + 1] = 2 * j + b
    BY <2>2, <2>3
  <2>5. t[P[j]] = 2 * j
    BY <1>1, <2>4
  <2>6. (2 * j + b) - ((2 * j + b) % 2) = 2 * j
    BY <2>2
  <2> QED BY <2>4, <2>5, <2>6
<1>8. 0..M \subseteq Nat
  BY <1>1
<1> QED BY <1>1, <1>5, <1>6, <1>7, <1>8 DEF TreePath, L, P

LEMMA RungsAlong ==
  ASSUME NEW t, NEW code, NEW M, Leaning(t, code, M), NEW probs, Probable(probs, M)
  PROVE  Along(Rungs(code), probs, [k \in DOMAIN code |-> Bool(probs[k - 1], code[k])])
<1> DEFINE L == Len(code)  P == Rungs(code)  x(k) == Bool(probs[k - 1], code[k])  r == [k \in DOMAIN code |-> x(k)]
<1>1. /\ M \in Nat /\ L \in Nat /\ 2 * L - 1 <= M /\ DOMAIN code = 1..L
      /\ \A j \in 1..L : code[j] \in BOOLEAN
  BY LenProperties, ElementOfSeq DEF Leaning
<1>2. P = [j \in 1..L |-> 2 * (j - 1) + BitOf(code[j])]
  BY DEF Rungs
<1> HIDE DEF P, L
<1>3. ASSUME NEW j \in 1..L
      PROVE  P[j] \div 2 = j - 1 /\ (code[j] <=> P[j] % 2 = 1) /\ probs[j - 1] \in 0..255
  <2> DEFINE b == BitOf(code[j])  y == P[j]
  <2>1. y = 2 * (j - 1) + b
    BY <1>2
  <2>2. b \in 0..1 /\ (code[j] <=> b = 1)
    BY <1>1 DEF BitOf
  <2> HIDE DEF b, y
  <2>3. y \div 2 = j - 1 /\ y % 2 = b
    BY <2>1, <2>2
  <2>4. j - 1 \in 0..M \div 2
    BY <1>1
  <2> QED BY <2>2, <2>3, <2>4 DEF Probable, y
<1>4. ASSUME NEW j \in 1..L PROVE x(j) \in Booleans /\ x(j).prob = probs[j - 1] /\ x(j).bit = code[j]
  <2> DEFINE q == probs[j - 1]  b == code[j]
  <2>1. q \in 0..255 /\ b \in BOOLEAN
    BY <1>1, <1>3
  <2> HIDE DEF q, b
  <2>2. Bool(q, b) \in Booleans /\ Bool(q, b).prob = q /\ Bool(q, b).bit = b
    BY <2>1, BooleanIs, Zenon
  <2> QED BY <2>2 DEF q, b
<1>5. r = [k \in 1..L |-> x(k)]
  BY <1>1
<1> HIDE DEF x, r
<1>6. r \in [1..L -> Booleans]
  BY <1>4, <1>5
<1>7. r \in Seq(Booleans) /\ Len(r) = L
  BY <1>1, <1>6, LenProperties
<1>8. \A j \in 1..L : r[j] = x(j)
  BY <1>5
<1>9. P \in [1..L -> Int]
  <2>1. \A j \in 1..L : P[j] \in Int
    <3> TAKE j \in 1..L
    <3>1. P[j] = 2 * (j - 1) + BitOf(code[j]) /\ BitOf(code[j]) \in Int
      BY <1>2 DEF BitOf
    <3> QED BY <3>1
  <2> QED BY <1>2, <2>1
<1>10. Len(P) = L
  BY <1>1, <1>9, LenProperties
<1>11. Along(P, probs, r)
  BY <1>3, <1>4, <1>7, <1>8, <1>10 DEF Along
<1> QED BY <1>11 DEF r, x, P

-----------------------------------------------------------------------------
(* The trees, entry by entry.                                                *)
LEMMA KeyYTreeIs ==
  /\ DOMAIN KF_YMODE_TREE = 0..7
  /\ KF_YMODE_TREE[0] = -4 /\ KF_YMODE_TREE[1] = 2 /\ KF_YMODE_TREE[2] = 4 /\ KF_YMODE_TREE[3] = 6
  /\ KF_YMODE_TREE[4] = 0 /\ KF_YMODE_TREE[5] = -1 /\ KF_YMODE_TREE[6] = -2 /\ KF_YMODE_TREE[7] = -3
BY DEF KF_YMODE_TREE, FromZero

LEMMA KeyYTreeRooted ==
  Rooted(KF_YMODE_TREE, 0, 7) /\ \A leaf \in 0..4 : LeafOf(KF_YMODE_TREE, 0, leaf)
<1> DEFINE t == KF_YMODE_TREE
<1>1. DOMAIN t = 0..7 /\ t[0] = -4 /\ t[1] = 2 /\ t[2] = 4 /\ t[3] = 6 /\ t[4] = 0 /\ t[5] = -1 /\ t[6] = -2 /\ t[7] = -3
  BY KeyYTreeIs
<1> HIDE DEF t
<1>2. \A q \in 0..7 : q = 0 \/ q = 1 \/ q = 2 \/ q = 3 \/ q = 4 \/ q = 5 \/ q = 6 \/ q = 7
  OBVIOUS
<1>3. ASSUME NEW j \in {2, 3}
      PROVE  \E p \in 0..j - 1 : t[p] = j - (j % 2) /\ \A q \in 0..7 : t[q] = j - (j % 2) => q = p
  <2>1. j - (j % 2) = 2 /\ 1 \in 0..j - 1
    OBVIOUS
  <2>2. t[1] = 2 /\ \A q \in 0..7 : t[q] = 2 => q = 1
    BY <1>1, <1>2
  <2> QED BY <2>1, <2>2
<1>4. ASSUME NEW j \in {4, 5}
      PROVE  \E p \in 0..j - 1 : t[p] = j - (j % 2) /\ \A q \in 0..7 : t[q] = j - (j % 2) => q = p
  <2>1. j - (j % 2) = 4 /\ 2 \in 0..j - 1
    OBVIOUS
  <2>2. t[2] = 4 /\ \A q \in 0..7 : t[q] = 4 => q = 2
    BY <1>1, <1>2
  <2> QED BY <2>1, <2>2
<1>5. ASSUME NEW j \in {6, 7}
      PROVE  \E p \in 0..j - 1 : t[p] = j - (j % 2) /\ \A q \in 0..7 : t[q] = j - (j % 2) => q = p
  <2>1. j - (j % 2) = 6 /\ 3 \in 0..j - 1
    OBVIOUS
  <2>2. t[3] = 6 /\ \A q \in 0..7 : t[q] = 6 => q = 3
    BY <1>1, <1>2
  <2> QED BY <2>1, <2>2
<1>6. \A j \in 0+2..7 : j \in {2, 3} \/ j \in {4, 5} \/ j \in {6, 7}
  OBVIOUS
<1>7. Rooted(t, 0, 7)
  <2>1. ASSUME NEW j \in 0+2..7 PROVE \E p \in 0..j - 1 : t[p] = j - (j % 2) /\ \A q \in 0..7 : t[q] = j - (j % 2) => q = p
    <3>1. j \in {2, 3} \/ j \in {4, 5} \/ j \in {6, 7}
      BY <1>6
    <3> QED BY <1>3, <1>4, <1>5, <3>1
  <2>2. DOMAIN t = 0..7 /\ 0 % 2 = 0
    BY <1>1
  <2> QED BY <2>1, <2>2 DEF Rooted
<1>8. ASSUME NEW leaf \in 0..4 PROVE LeafOf(t, 0, leaf)
  <2>1. \E q \in DOMAIN t : t[q] = -leaf
    <3>1. leaf = 0 \/ leaf = 1 \/ leaf = 2 \/ leaf = 3 \/ leaf = 4
      OBVIOUS
    <3> QED BY <1>1, <3>1
  <2>2. \A q \in DOMAIN t : t[q] = -leaf => q >= 0
    BY <1>1
  <2> QED BY <2>1, <2>2 DEF LeafOf
<1> QED BY <1>7, <1>8 DEF t

LEMMA InterYTreeIs ==
  /\ DOMAIN IF_YMODE_TREE = 0..7
  /\ IF_YMODE_TREE[0] = 0 /\ IF_YMODE_TREE[1] = 2 /\ IF_YMODE_TREE[2] = 4 /\ IF_YMODE_TREE[3] = 6
  /\ IF_YMODE_TREE[4] = -1 /\ IF_YMODE_TREE[5] = -2 /\ IF_YMODE_TREE[6] = -3 /\ IF_YMODE_TREE[7] = -4
BY DEF IF_YMODE_TREE, FromZero

LEMMA InterYTreeRooted ==
  Rooted(IF_YMODE_TREE, 0, 7) /\ \A leaf \in 0..4 : LeafOf(IF_YMODE_TREE, 0, leaf)
<1> DEFINE t == IF_YMODE_TREE
<1>1. DOMAIN t = 0..7 /\ t[0] = 0 /\ t[1] = 2 /\ t[2] = 4 /\ t[3] = 6 /\ t[4] = -1 /\ t[5] = -2 /\ t[6] = -3 /\ t[7] = -4
  BY InterYTreeIs
<1> HIDE DEF t
<1>2. \A q \in 0..7 : q = 0 \/ q = 1 \/ q = 2 \/ q = 3 \/ q = 4 \/ q = 5 \/ q = 6 \/ q = 7
  OBVIOUS
<1>3. ASSUME NEW j \in {2, 3}
      PROVE  \E p \in 0..j - 1 : t[p] = j - (j % 2) /\ \A q \in 0..7 : t[q] = j - (j % 2) => q = p
  <2>1. j - (j % 2) = 2 /\ 1 \in 0..j - 1
    OBVIOUS
  <2>2. t[1] = 2 /\ \A q \in 0..7 : t[q] = 2 => q = 1
    BY <1>1, <1>2
  <2> QED BY <2>1, <2>2
<1>4. ASSUME NEW j \in {4, 5}
      PROVE  \E p \in 0..j - 1 : t[p] = j - (j % 2) /\ \A q \in 0..7 : t[q] = j - (j % 2) => q = p
  <2>1. j - (j % 2) = 4 /\ 2 \in 0..j - 1
    OBVIOUS
  <2>2. t[2] = 4 /\ \A q \in 0..7 : t[q] = 4 => q = 2
    BY <1>1, <1>2
  <2> QED BY <2>1, <2>2
<1>5. ASSUME NEW j \in {6, 7}
      PROVE  \E p \in 0..j - 1 : t[p] = j - (j % 2) /\ \A q \in 0..7 : t[q] = j - (j % 2) => q = p
  <2>1. j - (j % 2) = 6 /\ 3 \in 0..j - 1
    OBVIOUS
  <2>2. t[3] = 6 /\ \A q \in 0..7 : t[q] = 6 => q = 3
    BY <1>1, <1>2
  <2> QED BY <2>1, <2>2
<1>6. \A j \in 0+2..7 : j \in {2, 3} \/ j \in {4, 5} \/ j \in {6, 7}
  OBVIOUS
<1>7. Rooted(t, 0, 7)
  <2>1. ASSUME NEW j \in 0+2..7 PROVE \E p \in 0..j - 1 : t[p] = j - (j % 2) /\ \A q \in 0..7 : t[q] = j - (j % 2) => q = p
    <3>1. j \in {2, 3} \/ j \in {4, 5} \/ j \in {6, 7}
      BY <1>6
    <3> QED BY <1>3, <1>4, <1>5, <3>1
  <2>2. DOMAIN t = 0..7 /\ 0 % 2 = 0
    BY <1>1
  <2> QED BY <2>1, <2>2 DEF Rooted
<1>8. ASSUME NEW leaf \in 0..4 PROVE LeafOf(t, 0, leaf)
  <2>1. \E q \in DOMAIN t : t[q] = -leaf
    <3>1. leaf = 0 \/ leaf = 1 \/ leaf = 2 \/ leaf = 3 \/ leaf = 4
      OBVIOUS
    <3> QED BY <1>1, <3>1
  <2>2. \A q \in DOMAIN t : t[q] = -leaf => q >= 0
    BY <1>1
  <2> QED BY <2>1, <2>2 DEF LeafOf
<1> QED BY <1>7, <1>8 DEF t

LEMMA UvTreeIs ==
  /\ DOMAIN UV_MODE_TREE = 0..5
  /\ UV_MODE_TREE[0] = 0 /\ UV_MODE_TREE[1] = 2 /\ UV_MODE_TREE[2] = -1 /\ UV_MODE_TREE[3] = 4
  /\ UV_MODE_TREE[4] = -2 /\ UV_MODE_TREE[5] = -3
BY DEF UV_MODE_TREE, FromZero

LEMMA UvTreeRooted ==
  Rooted(UV_MODE_TREE, 0, 5) /\ \A leaf \in 0..3 : LeafOf(UV_MODE_TREE, 0, leaf)
<1> DEFINE t == UV_MODE_TREE
<1>1. DOMAIN t = 0..5 /\ t[0] = 0 /\ t[1] = 2 /\ t[2] = -1 /\ t[3] = 4 /\ t[4] = -2 /\ t[5] = -3
  BY UvTreeIs
<1> HIDE DEF t
<1>2. \A q \in 0..5 : q = 0 \/ q = 1 \/ q = 2 \/ q = 3 \/ q = 4 \/ q = 5
  OBVIOUS
<1>3. ASSUME NEW j \in {2, 3}
      PROVE  \E p \in 0..j - 1 : t[p] = j - (j % 2) /\ \A q \in 0..5 : t[q] = j - (j % 2) => q = p
  <2>1. j - (j % 2) = 2 /\ 1 \in 0..j - 1
    OBVIOUS
  <2>2. t[1] = 2 /\ \A q \in 0..5 : t[q] = 2 => q = 1
    BY <1>1, <1>2
  <2> QED BY <2>1, <2>2
<1>4. ASSUME NEW j \in {4, 5}
      PROVE  \E p \in 0..j - 1 : t[p] = j - (j % 2) /\ \A q \in 0..5 : t[q] = j - (j % 2) => q = p
  <2>1. j - (j % 2) = 4 /\ 3 \in 0..j - 1
    OBVIOUS
  <2>2. t[3] = 4 /\ \A q \in 0..5 : t[q] = 4 => q = 3
    BY <1>1, <1>2
  <2> QED BY <2>1, <2>2
<1>5. \A j \in 0+2..5 : j \in {2, 3} \/ j \in {4, 5}
  OBVIOUS
<1>6. Rooted(t, 0, 5)
  <2>1. ASSUME NEW j \in 0+2..5 PROVE \E p \in 0..j - 1 : t[p] = j - (j % 2) /\ \A q \in 0..5 : t[q] = j - (j % 2) => q = p
    <3>1. j \in {2, 3} \/ j \in {4, 5}
      BY <1>5
    <3> QED BY <1>3, <1>4, <3>1
  <2>2. DOMAIN t = 0..5 /\ 0 % 2 = 0
    BY <1>1
  <2> QED BY <2>1, <2>2 DEF Rooted
<1>7. ASSUME NEW leaf \in 0..3 PROVE LeafOf(t, 0, leaf)
  <2>1. \E q \in DOMAIN t : t[q] = -leaf
    <3>1. leaf = 0 \/ leaf = 1 \/ leaf = 2 \/ leaf = 3
      OBVIOUS
    <3> QED BY <1>1, <3>1
  <2>2. \A q \in DOMAIN t : t[q] = -leaf => q >= 0
    BY <1>1
  <2> QED BY <2>1, <2>2 DEF LeafOf
<1> QED BY <1>6, <1>7 DEF t

LEMMA SubblockTreeIs ==
  /\ DOMAIN BMODE_TREE = 0..17
  /\ BMODE_TREE[0] = 0 /\ BMODE_TREE[1] = 2 /\ BMODE_TREE[2] = -1 /\ BMODE_TREE[3] = 4
  /\ BMODE_TREE[4] = -2 /\ BMODE_TREE[5] = 6 /\ BMODE_TREE[6] = 8 /\ BMODE_TREE[7] = 12
  /\ BMODE_TREE[8] = -3 /\ BMODE_TREE[9] = 10 /\ BMODE_TREE[10] = -5 /\ BMODE_TREE[11] = -6
  /\ BMODE_TREE[12] = -4 /\ BMODE_TREE[13] = 14 /\ BMODE_TREE[14] = -7 /\ BMODE_TREE[15] = 16
  /\ BMODE_TREE[16] = -8 /\ BMODE_TREE[17] = -9
BY DEF BMODE_TREE, FromZero

LEMMA SubblockTreeRooted ==
  Rooted(BMODE_TREE, 0, 17) /\ \A leaf \in 0..9 : LeafOf(BMODE_TREE, 0, leaf)
<1> DEFINE t == BMODE_TREE
<1>1. DOMAIN t = 0..17 /\ t[0] = 0 /\ t[1] = 2 /\ t[2] = -1 /\ t[3] = 4 /\ t[4] = -2 /\ t[5] = 6 /\ t[6] = 8 /\ t[7] = 12
     /\ t[8] = -3 /\ t[9] = 10 /\ t[10] = -5 /\ t[11] = -6 /\ t[12] = -4 /\ t[13] = 14 /\ t[14] = -7
     /\ t[15] = 16 /\ t[16] = -8 /\ t[17] = -9
  BY SubblockTreeIs
<1> HIDE DEF t
<1>2. \A q \in 0..17 : q = 0 \/ q = 1 \/ q = 2 \/ q = 3 \/ q = 4 \/ q = 5 \/ q = 6 \/ q = 7 \/ q = 8 \/ q = 9 \/ q = 10
       \/ q = 11 \/ q = 12 \/ q = 13 \/ q = 14 \/ q = 15 \/ q = 16 \/ q = 17
  OBVIOUS
<1>3. ASSUME NEW j \in {2, 3}
      PROVE  \E p \in 0..j - 1 : t[p] = j - (j % 2) /\ \A q \in 0..17 : t[q] = j - (j % 2) => q = p
  <2>1. j - (j % 2) = 2 /\ 1 \in 0..j - 1
    OBVIOUS
  <2>2. t[1] = 2 /\ \A q \in 0..17 : t[q] = 2 => q = 1
    BY <1>1, <1>2
  <2> QED BY <2>1, <2>2
<1>4. ASSUME NEW j \in {4, 5}
      PROVE  \E p \in 0..j - 1 : t[p] = j - (j % 2) /\ \A q \in 0..17 : t[q] = j - (j % 2) => q = p
  <2>1. j - (j % 2) = 4 /\ 3 \in 0..j - 1
    OBVIOUS
  <2>2. t[3] = 4 /\ \A q \in 0..17 : t[q] = 4 => q = 3
    BY <1>1, <1>2
  <2> QED BY <2>1, <2>2
<1>5. ASSUME NEW j \in {6, 7}
      PROVE  \E p \in 0..j - 1 : t[p] = j - (j % 2) /\ \A q \in 0..17 : t[q] = j - (j % 2) => q = p
  <2>1. j - (j % 2) = 6 /\ 5 \in 0..j - 1
    OBVIOUS
  <2>2. t[5] = 6 /\ \A q \in 0..17 : t[q] = 6 => q = 5
    BY <1>1, <1>2
  <2> QED BY <2>1, <2>2
<1>6. ASSUME NEW j \in {8, 9}
      PROVE  \E p \in 0..j - 1 : t[p] = j - (j % 2) /\ \A q \in 0..17 : t[q] = j - (j % 2) => q = p
  <2>1. j - (j % 2) = 8 /\ 6 \in 0..j - 1
    OBVIOUS
  <2>2. t[6] = 8 /\ \A q \in 0..17 : t[q] = 8 => q = 6
    BY <1>1, <1>2
  <2> QED BY <2>1, <2>2
<1>7. ASSUME NEW j \in {10, 11}
      PROVE  \E p \in 0..j - 1 : t[p] = j - (j % 2) /\ \A q \in 0..17 : t[q] = j - (j % 2) => q = p
  <2>1. j - (j % 2) = 10 /\ 9 \in 0..j - 1
    OBVIOUS
  <2>2. t[9] = 10 /\ \A q \in 0..17 : t[q] = 10 => q = 9
    BY <1>1, <1>2
  <2> QED BY <2>1, <2>2
<1>8. ASSUME NEW j \in {12, 13}
      PROVE  \E p \in 0..j - 1 : t[p] = j - (j % 2) /\ \A q \in 0..17 : t[q] = j - (j % 2) => q = p
  <2>1. j - (j % 2) = 12 /\ 7 \in 0..j - 1
    OBVIOUS
  <2>2. t[7] = 12 /\ \A q \in 0..17 : t[q] = 12 => q = 7
    BY <1>1, <1>2
  <2> QED BY <2>1, <2>2
<1>9. ASSUME NEW j \in {14, 15}
      PROVE  \E p \in 0..j - 1 : t[p] = j - (j % 2) /\ \A q \in 0..17 : t[q] = j - (j % 2) => q = p
  <2>1. j - (j % 2) = 14 /\ 13 \in 0..j - 1
    OBVIOUS
  <2>2. t[13] = 14 /\ \A q \in 0..17 : t[q] = 14 => q = 13
    BY <1>1, <1>2
  <2> QED BY <2>1, <2>2
<1>10. ASSUME NEW j \in {16, 17}
      PROVE  \E p \in 0..j - 1 : t[p] = j - (j % 2) /\ \A q \in 0..17 : t[q] = j - (j % 2) => q = p
  <2>1. j - (j % 2) = 16 /\ 15 \in 0..j - 1
    OBVIOUS
  <2>2. t[15] = 16 /\ \A q \in 0..17 : t[q] = 16 => q = 15
    BY <1>1, <1>2
  <2> QED BY <2>1, <2>2
<1>11. \A j \in 0+2..17 : j \in {2, 3} \/ j \in {4, 5} \/ j \in {6, 7} \/ j \in {8, 9} \/ j \in {10, 11} \/ j \in {12, 13}
       \/ j \in {14, 15} \/ j \in {16, 17}
  OBVIOUS
<1>12. Rooted(t, 0, 17)
  <2>1. ASSUME NEW j \in 0+2..17 PROVE \E p \in 0..j - 1 : t[p] = j - (j % 2) /\ \A q \in 0..17 : t[q] = j - (j % 2) => q = p
    <3>1. j \in {2, 3} \/ j \in {4, 5} \/ j \in {6, 7} \/ j \in {8, 9} \/ j \in {10, 11} \/ j \in {12, 13}
         \/ j \in {14, 15} \/ j \in {16, 17}
      BY <1>11
    <3> QED BY <1>3, <1>4, <1>5, <1>6, <1>7, <1>8, <1>9, <1>10, <3>1, Zenon
  <2>2. DOMAIN t = 0..17 /\ 0 % 2 = 0
    BY <1>1
  <2> QED BY <2>1, <2>2, Zenon DEF Rooted
<1>13. ASSUME NEW leaf \in 0..9 PROVE LeafOf(t, 0, leaf)
  <2>1. \E q \in DOMAIN t : t[q] = -leaf
    <3>1. leaf = 0 \/ leaf = 1 \/ leaf = 2 \/ leaf = 3 \/ leaf = 4 \/ leaf = 5 \/ leaf = 6 \/ leaf = 7
            \/ leaf = 8 \/ leaf = 9
      OBVIOUS
    <3> QED BY <1>1, <3>1
  <2>2. \A q \in DOMAIN t : t[q] = -leaf => q >= 0
    BY <1>1
  <2> QED BY <2>1, <2>2 DEF LeafOf
<1> QED BY <1>12, <1>13 DEF t

LEMMA SegmentTreeIs ==
  /\ DOMAIN MB_SEGMENT_TREE = 0..5
  /\ MB_SEGMENT_TREE[0] = 2 /\ MB_SEGMENT_TREE[1] = 4 /\ MB_SEGMENT_TREE[2] = 0
  /\ MB_SEGMENT_TREE[3] = -1 /\ MB_SEGMENT_TREE[4] = -2 /\ MB_SEGMENT_TREE[5] = -3
BY DEF MB_SEGMENT_TREE, FromZero

LEMMA SegmentTreeRooted ==
  Rooted(MB_SEGMENT_TREE, 0, 5) /\ \A leaf \in 0..3 : LeafOf(MB_SEGMENT_TREE, 0, leaf)
<1> DEFINE t == MB_SEGMENT_TREE
<1>1. DOMAIN t = 0..5 /\ t[0] = 2 /\ t[1] = 4 /\ t[2] = 0 /\ t[3] = -1 /\ t[4] = -2 /\ t[5] = -3
  BY SegmentTreeIs
<1> HIDE DEF t
<1>2. \A q \in 0..5 : q = 0 \/ q = 1 \/ q = 2 \/ q = 3 \/ q = 4 \/ q = 5
  OBVIOUS
<1>3. ASSUME NEW j \in {2, 3}
      PROVE  \E p \in 0..j - 1 : t[p] = j - (j % 2) /\ \A q \in 0..5 : t[q] = j - (j % 2) => q = p
  <2>1. j - (j % 2) = 2 /\ 0 \in 0..j - 1
    OBVIOUS
  <2>2. t[0] = 2 /\ \A q \in 0..5 : t[q] = 2 => q = 0
    BY <1>1, <1>2
  <2> QED BY <2>1, <2>2
<1>4. ASSUME NEW j \in {4, 5}
      PROVE  \E p \in 0..j - 1 : t[p] = j - (j % 2) /\ \A q \in 0..5 : t[q] = j - (j % 2) => q = p
  <2>1. j - (j % 2) = 4 /\ 1 \in 0..j - 1
    OBVIOUS
  <2>2. t[1] = 4 /\ \A q \in 0..5 : t[q] = 4 => q = 1
    BY <1>1, <1>2
  <2> QED BY <2>1, <2>2
<1>5. \A j \in 0+2..5 : j \in {2, 3} \/ j \in {4, 5}
  OBVIOUS
<1>6. Rooted(t, 0, 5)
  <2>1. ASSUME NEW j \in 0+2..5 PROVE \E p \in 0..j - 1 : t[p] = j - (j % 2) /\ \A q \in 0..5 : t[q] = j - (j % 2) => q = p
    <3>1. j \in {2, 3} \/ j \in {4, 5}
      BY <1>5
    <3> QED BY <1>3, <1>4, <3>1
  <2>2. DOMAIN t = 0..5 /\ 0 % 2 = 0
    BY <1>1
  <2> QED BY <2>1, <2>2 DEF Rooted
<1>7. ASSUME NEW leaf \in 0..3 PROVE LeafOf(t, 0, leaf)
  <2>1. \E q \in DOMAIN t : t[q] = -leaf
    <3>1. leaf = 0 \/ leaf = 1 \/ leaf = 2 \/ leaf = 3
      OBVIOUS
    <3> QED BY <1>1, <3>1
  <2>2. \A q \in DOMAIN t : t[q] = -leaf => q >= 0
    BY <1>1
  <2> QED BY <2>1, <2>2 DEF LeafOf
<1> QED BY <1>6, <1>7 DEF t

LEMMA ShortTreeIs ==
  /\ DOMAIN SmallMvTree = 0..13
  /\ SmallMvTree[0] = 2 /\ SmallMvTree[1] = 8 /\ SmallMvTree[2] = 4 /\ SmallMvTree[3] = 6
  /\ SmallMvTree[4] = 0 /\ SmallMvTree[5] = -1 /\ SmallMvTree[6] = -2 /\ SmallMvTree[7] = -3
  /\ SmallMvTree[8] = 10 /\ SmallMvTree[9] = 12 /\ SmallMvTree[10] = -4 /\ SmallMvTree[11] = -5
  /\ SmallMvTree[12] = -6 /\ SmallMvTree[13] = -7
BY DEF SmallMvTree

LEMMA ShortTreeRooted ==
  Rooted(SmallMvTree, 0, 13) /\ \A leaf \in 0..7 : LeafOf(SmallMvTree, 0, leaf)
<1> DEFINE t == SmallMvTree
<1>1. DOMAIN t = 0..13 /\ t[0] = 2 /\ t[1] = 8 /\ t[2] = 4 /\ t[3] = 6 /\ t[4] = 0 /\ t[5] = -1 /\ t[6] = -2 /\ t[7] = -3
     /\ t[8] = 10 /\ t[9] = 12 /\ t[10] = -4 /\ t[11] = -5 /\ t[12] = -6 /\ t[13] = -7
  BY ShortTreeIs
<1> HIDE DEF t
<1>2. \A q \in 0..13 : q = 0 \/ q = 1 \/ q = 2 \/ q = 3 \/ q = 4 \/ q = 5 \/ q = 6 \/ q = 7 \/ q = 8 \/ q = 9 \/ q = 10
       \/ q = 11 \/ q = 12 \/ q = 13
  OBVIOUS
<1>3. ASSUME NEW j \in {2, 3}
      PROVE  \E p \in 0..j - 1 : t[p] = j - (j % 2) /\ \A q \in 0..13 : t[q] = j - (j % 2) => q = p
  <2>1. j - (j % 2) = 2 /\ 0 \in 0..j - 1
    OBVIOUS
  <2>2. t[0] = 2 /\ \A q \in 0..13 : t[q] = 2 => q = 0
    BY <1>1, <1>2
  <2> QED BY <2>1, <2>2
<1>4. ASSUME NEW j \in {4, 5}
      PROVE  \E p \in 0..j - 1 : t[p] = j - (j % 2) /\ \A q \in 0..13 : t[q] = j - (j % 2) => q = p
  <2>1. j - (j % 2) = 4 /\ 2 \in 0..j - 1
    OBVIOUS
  <2>2. t[2] = 4 /\ \A q \in 0..13 : t[q] = 4 => q = 2
    BY <1>1, <1>2
  <2> QED BY <2>1, <2>2
<1>5. ASSUME NEW j \in {6, 7}
      PROVE  \E p \in 0..j - 1 : t[p] = j - (j % 2) /\ \A q \in 0..13 : t[q] = j - (j % 2) => q = p
  <2>1. j - (j % 2) = 6 /\ 3 \in 0..j - 1
    OBVIOUS
  <2>2. t[3] = 6 /\ \A q \in 0..13 : t[q] = 6 => q = 3
    BY <1>1, <1>2
  <2> QED BY <2>1, <2>2
<1>6. ASSUME NEW j \in {8, 9}
      PROVE  \E p \in 0..j - 1 : t[p] = j - (j % 2) /\ \A q \in 0..13 : t[q] = j - (j % 2) => q = p
  <2>1. j - (j % 2) = 8 /\ 1 \in 0..j - 1
    OBVIOUS
  <2>2. t[1] = 8 /\ \A q \in 0..13 : t[q] = 8 => q = 1
    BY <1>1, <1>2
  <2> QED BY <2>1, <2>2
<1>7. ASSUME NEW j \in {10, 11}
      PROVE  \E p \in 0..j - 1 : t[p] = j - (j % 2) /\ \A q \in 0..13 : t[q] = j - (j % 2) => q = p
  <2>1. j - (j % 2) = 10 /\ 8 \in 0..j - 1
    OBVIOUS
  <2>2. t[8] = 10 /\ \A q \in 0..13 : t[q] = 10 => q = 8
    BY <1>1, <1>2
  <2> QED BY <2>1, <2>2
<1>8. ASSUME NEW j \in {12, 13}
      PROVE  \E p \in 0..j - 1 : t[p] = j - (j % 2) /\ \A q \in 0..13 : t[q] = j - (j % 2) => q = p
  <2>1. j - (j % 2) = 12 /\ 9 \in 0..j - 1
    OBVIOUS
  <2>2. t[9] = 12 /\ \A q \in 0..13 : t[q] = 12 => q = 9
    BY <1>1, <1>2
  <2> QED BY <2>1, <2>2
<1>9. \A j \in 0+2..13 : j \in {2, 3} \/ j \in {4, 5} \/ j \in {6, 7} \/ j \in {8, 9} \/ j \in {10, 11} \/ j \in {12, 13}
  OBVIOUS
<1>10. Rooted(t, 0, 13)
  <2>1. ASSUME NEW j \in 0+2..13 PROVE \E p \in 0..j - 1 : t[p] = j - (j % 2) /\ \A q \in 0..13 : t[q] = j - (j % 2) => q = p
    <3>1. j \in {2, 3} \/ j \in {4, 5} \/ j \in {6, 7} \/ j \in {8, 9} \/ j \in {10, 11} \/ j \in {12, 13}
      BY <1>9
    <3> QED BY <1>3, <1>4, <1>5, <1>6, <1>7, <1>8, <3>1
  <2>2. DOMAIN t = 0..13 /\ 0 % 2 = 0
    BY <1>1
  <2> QED BY <2>1, <2>2, Zenon DEF Rooted
<1>11. ASSUME NEW leaf \in 0..7 PROVE LeafOf(t, 0, leaf)
  <2>1. \E q \in DOMAIN t : t[q] = -leaf
    <3>1. leaf = 0 \/ leaf = 1 \/ leaf = 2 \/ leaf = 3 \/ leaf = 4 \/ leaf = 5 \/ leaf = 6 \/ leaf = 7
      OBVIOUS
    <3> QED BY <1>1, <3>1
  <2>2. \A q \in DOMAIN t : t[q] = -leaf => q >= 0
    BY <1>1
  <2> QED BY <2>1, <2>2 DEF LeafOf
<1> QED BY <1>10, <1>11 DEF t

LEMMA TokenTreeIs ==
  /\ DOMAIN CoeffTree = 0..21
  /\ CoeffTree[0] = -11 /\ CoeffTree[1] = 2 /\ CoeffTree[2] = 0 /\ CoeffTree[3] = 4 /\ CoeffTree[4] = -1
  /\ CoeffTree[5] = 6 /\ CoeffTree[6] = 8 /\ CoeffTree[7] = 12 /\ CoeffTree[8] = -2 /\ CoeffTree[9] = 10
  /\ CoeffTree[10] = -3 /\ CoeffTree[11] = -4 /\ CoeffTree[12] = 14 /\ CoeffTree[13] = 16
  /\ CoeffTree[14] = -5 /\ CoeffTree[15] = -6 /\ CoeffTree[16] = 18 /\ CoeffTree[17] = 20
  /\ CoeffTree[18] = -7 /\ CoeffTree[19] = -8 /\ CoeffTree[20] = -9 /\ CoeffTree[21] = -10
BY DEF CoeffTree

LEMMA TokenTreeRooted ==
  Rooted(CoeffTree, 0, 21) /\ \A leaf \in 0..11 : LeafOf(CoeffTree, 0, leaf)
<1> DEFINE t == CoeffTree
<1>1. DOMAIN t = 0..21 /\ t[0] = -11 /\ t[1] = 2 /\ t[2] = 0 /\ t[3] = 4 /\ t[4] = -1 /\ t[5] = 6 /\ t[6] = 8 /\ t[7] = 12
     /\ t[8] = -2 /\ t[9] = 10 /\ t[10] = -3 /\ t[11] = -4 /\ t[12] = 14 /\ t[13] = 16 /\ t[14] = -5
     /\ t[15] = -6 /\ t[16] = 18 /\ t[17] = 20 /\ t[18] = -7 /\ t[19] = -8 /\ t[20] = -9 /\ t[21] = -10
  BY TokenTreeIs
<1> HIDE DEF t
<1>2. \A q \in 0..21 : q = 0 \/ q = 1 \/ q = 2 \/ q = 3 \/ q = 4 \/ q = 5 \/ q = 6 \/ q = 7 \/ q = 8 \/ q = 9 \/ q = 10
       \/ q = 11 \/ q = 12 \/ q = 13 \/ q = 14 \/ q = 15 \/ q = 16 \/ q = 17 \/ q = 18 \/ q = 19 \/ q = 20
       \/ q = 21
  OBVIOUS
<1>3. ASSUME NEW j \in {2, 3}
      PROVE  \E p \in 0..j - 1 : t[p] = j - (j % 2) /\ \A q \in 0..21 : t[q] = j - (j % 2) => q = p
  <2>1. j - (j % 2) = 2 /\ 1 \in 0..j - 1
    OBVIOUS
  <2>2. t[1] = 2 /\ \A q \in 0..21 : t[q] = 2 => q = 1
    BY <1>1, <1>2
  <2> QED BY <2>1, <2>2
<1>4. ASSUME NEW j \in {4, 5}
      PROVE  \E p \in 0..j - 1 : t[p] = j - (j % 2) /\ \A q \in 0..21 : t[q] = j - (j % 2) => q = p
  <2>1. j - (j % 2) = 4 /\ 3 \in 0..j - 1
    OBVIOUS
  <2>2. t[3] = 4 /\ \A q \in 0..21 : t[q] = 4 => q = 3
    BY <1>1, <1>2
  <2> QED BY <2>1, <2>2
<1>5. ASSUME NEW j \in {6, 7}
      PROVE  \E p \in 0..j - 1 : t[p] = j - (j % 2) /\ \A q \in 0..21 : t[q] = j - (j % 2) => q = p
  <2>1. j - (j % 2) = 6 /\ 5 \in 0..j - 1
    OBVIOUS
  <2>2. t[5] = 6 /\ \A q \in 0..21 : t[q] = 6 => q = 5
    BY <1>1, <1>2
  <2> QED BY <2>1, <2>2
<1>6. ASSUME NEW j \in {8, 9}
      PROVE  \E p \in 0..j - 1 : t[p] = j - (j % 2) /\ \A q \in 0..21 : t[q] = j - (j % 2) => q = p
  <2>1. j - (j % 2) = 8 /\ 6 \in 0..j - 1
    OBVIOUS
  <2>2. t[6] = 8 /\ \A q \in 0..21 : t[q] = 8 => q = 6
    BY <1>1, <1>2
  <2> QED BY <2>1, <2>2
<1>7. ASSUME NEW j \in {10, 11}
      PROVE  \E p \in 0..j - 1 : t[p] = j - (j % 2) /\ \A q \in 0..21 : t[q] = j - (j % 2) => q = p
  <2>1. j - (j % 2) = 10 /\ 9 \in 0..j - 1
    OBVIOUS
  <2>2. t[9] = 10 /\ \A q \in 0..21 : t[q] = 10 => q = 9
    BY <1>1, <1>2
  <2> QED BY <2>1, <2>2
<1>8. ASSUME NEW j \in {12, 13}
      PROVE  \E p \in 0..j - 1 : t[p] = j - (j % 2) /\ \A q \in 0..21 : t[q] = j - (j % 2) => q = p
  <2>1. j - (j % 2) = 12 /\ 7 \in 0..j - 1
    OBVIOUS
  <2>2. t[7] = 12 /\ \A q \in 0..21 : t[q] = 12 => q = 7
    BY <1>1, <1>2
  <2> QED BY <2>1, <2>2
<1>9. ASSUME NEW j \in {14, 15}
      PROVE  \E p \in 0..j - 1 : t[p] = j - (j % 2) /\ \A q \in 0..21 : t[q] = j - (j % 2) => q = p
  <2>1. j - (j % 2) = 14 /\ 12 \in 0..j - 1
    OBVIOUS
  <2>2. t[12] = 14 /\ \A q \in 0..21 : t[q] = 14 => q = 12
    BY <1>1, <1>2
  <2> QED BY <2>1, <2>2
<1>10. ASSUME NEW j \in {16, 17}
      PROVE  \E p \in 0..j - 1 : t[p] = j - (j % 2) /\ \A q \in 0..21 : t[q] = j - (j % 2) => q = p
  <2>1. j - (j % 2) = 16 /\ 13 \in 0..j - 1
    OBVIOUS
  <2>2. t[13] = 16 /\ \A q \in 0..21 : t[q] = 16 => q = 13
    BY <1>1, <1>2
  <2> QED BY <2>1, <2>2
<1>11. ASSUME NEW j \in {18, 19}
      PROVE  \E p \in 0..j - 1 : t[p] = j - (j % 2) /\ \A q \in 0..21 : t[q] = j - (j % 2) => q = p
  <2>1. j - (j % 2) = 18 /\ 16 \in 0..j - 1
    OBVIOUS
  <2>2. t[16] = 18 /\ \A q \in 0..21 : t[q] = 18 => q = 16
    BY <1>1, <1>2
  <2> QED BY <2>1, <2>2
<1>12. ASSUME NEW j \in {20, 21}
      PROVE  \E p \in 0..j - 1 : t[p] = j - (j % 2) /\ \A q \in 0..21 : t[q] = j - (j % 2) => q = p
  <2>1. j - (j % 2) = 20 /\ 17 \in 0..j - 1
    OBVIOUS
  <2>2. t[17] = 20 /\ \A q \in 0..21 : t[q] = 20 => q = 17
    BY <1>1, <1>2
  <2> QED BY <2>1, <2>2
<1>13. \A j \in 0+2..21 : j \in {2, 3} \/ j \in {4, 5} \/ j \in {6, 7} \/ j \in {8, 9} \/ j \in {10, 11} \/ j \in {12, 13}
       \/ j \in {14, 15} \/ j \in {16, 17} \/ j \in {18, 19} \/ j \in {20, 21}
  OBVIOUS
<1>14. Rooted(t, 0, 21)
  <2>1. ASSUME NEW j \in 0+2..21 PROVE \E p \in 0..j - 1 : t[p] = j - (j % 2) /\ \A q \in 0..21 : t[q] = j - (j % 2) => q = p
    <3>1. j \in {2, 3} \/ j \in {4, 5} \/ j \in {6, 7} \/ j \in {8, 9} \/ j \in {10, 11} \/ j \in {12, 13}
         \/ j \in {14, 15} \/ j \in {16, 17} \/ j \in {18, 19} \/ j \in {20, 21}
      BY <1>13
    <3> QED BY <1>3, <1>4, <1>5, <1>6, <1>7, <1>8, <1>9, <1>10, <1>11, <1>12, <3>1, Zenon
  <2>2. DOMAIN t = 0..21 /\ 0 % 2 = 0
    BY <1>1
  <2> QED BY <2>1, <2>2, Zenon DEF Rooted
<1>15. ASSUME NEW leaf \in 0..11 PROVE LeafOf(t, 0, leaf)
  <2>1. \E q \in DOMAIN t : t[q] = -leaf
    <3>1. leaf = 0 \/ leaf = 1 \/ leaf = 2 \/ leaf = 3 \/ leaf = 4 \/ leaf = 5 \/ leaf = 6 \/ leaf = 7
            \/ leaf = 8 \/ leaf = 9 \/ leaf = 10 \/ leaf = 11
      OBVIOUS
    <3> QED BY <1>1, <3>1
  <2>2. \A q \in DOMAIN t : t[q] = -leaf => q >= 0
    BY <1>1
  <2> QED BY <2>1, <2>2 DEF LeafOf
<1> QED BY <1>14, <1>15 DEF t

LEMMA TokenTreeUpper ==
  Rooted(CoeffTree, 2, 21) /\ \A leaf \in 0..10 : LeafOf(CoeffTree, 2, leaf)
<1> DEFINE t == CoeffTree
<1>1. DOMAIN t = 0..21 /\ t[0] = -11 /\ t[1] = 2 /\ t[2] = 0 /\ t[3] = 4 /\ t[4] = -1 /\ t[5] = 6 /\ t[6] = 8 /\ t[7] = 12
     /\ t[8] = -2 /\ t[9] = 10 /\ t[10] = -3 /\ t[11] = -4 /\ t[12] = 14 /\ t[13] = 16 /\ t[14] = -5
     /\ t[15] = -6 /\ t[16] = 18 /\ t[17] = 20 /\ t[18] = -7 /\ t[19] = -8 /\ t[20] = -9 /\ t[21] = -10
  BY TokenTreeIs
<1> HIDE DEF t
<1>2. \A q \in 0..21 : q = 0 \/ q = 1 \/ q = 2 \/ q = 3 \/ q = 4 \/ q = 5 \/ q = 6 \/ q = 7 \/ q = 8 \/ q = 9 \/ q = 10
       \/ q = 11 \/ q = 12 \/ q = 13 \/ q = 14 \/ q = 15 \/ q = 16 \/ q = 17 \/ q = 18 \/ q = 19 \/ q = 20
       \/ q = 21
  OBVIOUS
<1>3. ASSUME NEW j \in {4, 5}
      PROVE  \E p \in 2..j - 1 : t[p] = j - (j % 2) /\ \A q \in 0..21 : t[q] = j - (j % 2) => q = p
  <2>1. j - (j % 2) = 4 /\ 3 \in 2..j - 1
    OBVIOUS
  <2>2. t[3] = 4 /\ \A q \in 0..21 : t[q] = 4 => q = 3
    BY <1>1, <1>2
  <2> QED BY <2>1, <2>2
<1>4. ASSUME NEW j \in {6, 7}
      PROVE  \E p \in 2..j - 1 : t[p] = j - (j % 2) /\ \A q \in 0..21 : t[q] = j - (j % 2) => q = p
  <2>1. j - (j % 2) = 6 /\ 5 \in 2..j - 1
    OBVIOUS
  <2>2. t[5] = 6 /\ \A q \in 0..21 : t[q] = 6 => q = 5
    BY <1>1, <1>2
  <2> QED BY <2>1, <2>2
<1>5. ASSUME NEW j \in {8, 9}
      PROVE  \E p \in 2..j - 1 : t[p] = j - (j % 2) /\ \A q \in 0..21 : t[q] = j - (j % 2) => q = p
  <2>1. j - (j % 2) = 8 /\ 6 \in 2..j - 1
    OBVIOUS
  <2>2. t[6] = 8 /\ \A q \in 0..21 : t[q] = 8 => q = 6
    BY <1>1, <1>2
  <2> QED BY <2>1, <2>2
<1>6. ASSUME NEW j \in {10, 11}
      PROVE  \E p \in 2..j - 1 : t[p] = j - (j % 2) /\ \A q \in 0..21 : t[q] = j - (j % 2) => q = p
  <2>1. j - (j % 2) = 10 /\ 9 \in 2..j - 1
    OBVIOUS
  <2>2. t[9] = 10 /\ \A q \in 0..21 : t[q] = 10 => q = 9
    BY <1>1, <1>2
  <2> QED BY <2>1, <2>2
<1>7. ASSUME NEW j \in {12, 13}
      PROVE  \E p \in 2..j - 1 : t[p] = j - (j % 2) /\ \A q \in 0..21 : t[q] = j - (j % 2) => q = p
  <2>1. j - (j % 2) = 12 /\ 7 \in 2..j - 1
    OBVIOUS
  <2>2. t[7] = 12 /\ \A q \in 0..21 : t[q] = 12 => q = 7
    BY <1>1, <1>2
  <2> QED BY <2>1, <2>2
<1>8. ASSUME NEW j \in {14, 15}
      PROVE  \E p \in 2..j - 1 : t[p] = j - (j % 2) /\ \A q \in 0..21 : t[q] = j - (j % 2) => q = p
  <2>1. j - (j % 2) = 14 /\ 12 \in 2..j - 1
    OBVIOUS
  <2>2. t[12] = 14 /\ \A q \in 0..21 : t[q] = 14 => q = 12
    BY <1>1, <1>2
  <2> QED BY <2>1, <2>2
<1>9. ASSUME NEW j \in {16, 17}
      PROVE  \E p \in 2..j - 1 : t[p] = j - (j % 2) /\ \A q \in 0..21 : t[q] = j - (j % 2) => q = p
  <2>1. j - (j % 2) = 16 /\ 13 \in 2..j - 1
    OBVIOUS
  <2>2. t[13] = 16 /\ \A q \in 0..21 : t[q] = 16 => q = 13
    BY <1>1, <1>2
  <2> QED BY <2>1, <2>2
<1>10. ASSUME NEW j \in {18, 19}
      PROVE  \E p \in 2..j - 1 : t[p] = j - (j % 2) /\ \A q \in 0..21 : t[q] = j - (j % 2) => q = p
  <2>1. j - (j % 2) = 18 /\ 16 \in 2..j - 1
    OBVIOUS
  <2>2. t[16] = 18 /\ \A q \in 0..21 : t[q] = 18 => q = 16
    BY <1>1, <1>2
  <2> QED BY <2>1, <2>2
<1>11. ASSUME NEW j \in {20, 21}
      PROVE  \E p \in 2..j - 1 : t[p] = j - (j % 2) /\ \A q \in 0..21 : t[q] = j - (j % 2) => q = p
  <2>1. j - (j % 2) = 20 /\ 17 \in 2..j - 1
    OBVIOUS
  <2>2. t[17] = 20 /\ \A q \in 0..21 : t[q] = 20 => q = 17
    BY <1>1, <1>2
  <2> QED BY <2>1, <2>2
<1>12. \A j \in 2+2..21 : j \in {4, 5} \/ j \in {6, 7} \/ j \in {8, 9} \/ j \in {10, 11} \/ j \in {12, 13} \/ j \in {14, 15}
       \/ j \in {16, 17} \/ j \in {18, 19} \/ j \in {20, 21}
  OBVIOUS
<1>13. Rooted(t, 2, 21)
  <2>1. ASSUME NEW j \in 2+2..21 PROVE \E p \in 2..j - 1 : t[p] = j - (j % 2) /\ \A q \in 0..21 : t[q] = j - (j % 2) => q = p
    <3>1. j \in {4, 5} \/ j \in {6, 7} \/ j \in {8, 9} \/ j \in {10, 11} \/ j \in {12, 13} \/ j \in {14, 15}
         \/ j \in {16, 17} \/ j \in {18, 19} \/ j \in {20, 21}
      BY <1>12
    <3> QED BY <1>3, <1>4, <1>5, <1>6, <1>7, <1>8, <1>9, <1>10, <1>11, <3>1, Zenon
  <2>2. DOMAIN t = 0..21 /\ 2 % 2 = 0
    BY <1>1
  <2> QED BY <2>1, <2>2, Zenon DEF Rooted
<1>14. ASSUME NEW leaf \in 0..10 PROVE LeafOf(t, 2, leaf)
  <2>1. \E q \in DOMAIN t : t[q] = -leaf
    <3>1. leaf = 0 \/ leaf = 1 \/ leaf = 2 \/ leaf = 3 \/ leaf = 4 \/ leaf = 5 \/ leaf = 6 \/ leaf = 7
            \/ leaf = 8 \/ leaf = 9 \/ leaf = 10
      OBVIOUS
    <3> QED BY <1>1, <3>1
  <2>2. \A q \in DOMAIN t : t[q] = -leaf => q >= 2
    <3>1. -leaf # -11 /\ -leaf # 2
      OBVIOUS
    <3> QED BY <1>1, <1>2, <3>1
  <2> QED BY <2>1, <2>2 DEF LeafOf
<1> QED BY <1>13, <1>14 DEF t

-----------------------------------------------------------------------------
(* Modes written through the trees they are read along.                      *)
ModeTree(of, t, M, modes) ==
  /\ Rooted(t, 0, M) /\ \A leaf \in 0..Len(modes) - 1 : LeafOf(t, 0, leaf)
  /\ Readers[of].tree = t /\ Readers[of].modes = modes /\ Writer(of) = Readers[of] /\ Modes(of) = modes
  /\ Nodes[of] = M \div 2 + 1 /\ of \notin DOMAIN Spelled /\ of \notin Nested /\ Len(modes) \in Nat

LEMMA ModeFits ==
  ASSUME NEW e, e.shape.kind = "mode", Fits(e)
  PROVE  /\ e.shape.of \in DOMAIN Nodes /\ (e.shape.of \in Nested => "probs" \in DOMAIN e.shape)
         /\ \A i \in 0..Nodes[e.shape.of] - 1 : ModeProbs(e.shape)[i] \in 0..255
         /\ \E k \in 1..Len(Modes(e.shape.of)) : Modes(e.shape.of)[k] = e.value
         /\ WrittenBools(e) = WrittenMode(e.shape, e.value)
<1>1. WrittenBools(e) = WrittenMode(e.shape, e.value)
  BY DEF WrittenBools
<1> QED BY <1>1 DEF Fits, Prob

LEMMA ModeProbable ==
  ASSUME NEW e, e.shape.kind = "mode", Fits(e), NEW M \in Nat, Nodes[e.shape.of] = M \div 2 + 1
  PROVE  Probable(ModeProbs(e.shape), M)
<1> DEFINE n == Nodes[e.shape.of]
<1>1. \A i \in 0..n - 1 : ModeProbs(e.shape)[i] \in 0..255
  BY ModeFits
<1>2. n = M \div 2 + 1
  OBVIOUS
<1> HIDE DEF n
<1>3. 0..n - 1 = 0..M \div 2
  BY <1>2
<1> QED BY <1>1, <1>3, Zenon DEF Probable

LEMMA TreedModeEnds ==
  ASSUME NEW e, e.shape.kind = "mode", Fits(e), NEW t, NEW M, NEW modes, ModeTree(e.shape.of, t, M, modes)
  PROVE  Ends(e.shape, StartParse(e.shape), WrittenBools(e), e.value)
<1> DEFINE s == e.shape  p == StartParse(s)  v == e.value  of == s.of  probs == ModeProbs(s)  l == Leaf(of, v)
<1>1. /\ Rooted(t, 0, M) /\ M \in Nat /\ Readers[of].tree = t /\ Readers[of].modes = modes /\ Writer(of) = Readers[of]
      /\ of \notin DOMAIN Spelled /\ of \notin Nested /\ Nodes[of] = M \div 2 + 1
  BY DEF ModeTree, Rooted
<1>2. s.kind = "mode" /\ Treelike(s) /\ TreeOf(s) = t
  BY <1>1 DEF Treelike, TreeOf
<1>3. \A i, ctx3 : TreeProbs(s, i, ctx3) = probs
  BY <1>2 DEF TreeProbs
<1>4. Probable(probs, M)
  BY <1>1, ModeProbable
<1>5. l \in 0..Len(modes) - 1 /\ modes[l + 1] = v
  <2>1. PICK k \in 1..Len(modes) : modes[k] = v
    BY <1>1, ModeFits DEF ModeTree
  <2> DEFINE m == k - 1
  <2>2. m \in 0..Len(modes) - 1 /\ m + 1 = k
    BY DEF ModeTree
  <2> HIDE DEF m
  <2>3. m \in 0..Len(modes) - 1 /\ modes[m + 1] = v
    BY <2>1, <2>2
  <2>4. l = CHOOSE x \in 0..Len(modes) - 1 : modes[x + 1] = v
    BY <1>1, Zenon DEF Leaf
  <2> HIDE DEF l
  <2> QED BY <2>3, <2>4, Zenon
<1> HIDE DEF l
<1>6. LeafOf(t, 0, l)
  BY <1>5 DEF ModeTree
<1>7. WrittenBools(e) = TreedFrom(0, t, probs, l)
  <2>1. WrittenBools(e) = WrittenMode(s, v)
    BY ModeFits
  <2>2. WrittenMode(s, v) = Treed(Writer(of).tree, probs, Leaf(of, v))
    BY <1>1 DEF WrittenMode
  <2> QED BY <1>1, <2>1, <2>2 DEF Treed, l
<1>8. p = Walk("tree", 0, 0, 0, <<>>, NoCoeffs, 0, 0, <<>>)
  BY <1>1, <1>2, StartIs
<1> HIDE DEF s, p, v, probs, of
<1>9. PICK x : Leads(s, p, TreedFrom(0, t, probs, l), Leafed(s, Walk("tree", x, 0, 0, <<>>, NoCoeffs, 0, 0, <<>>), -l))
  <2>1. Probable(TreeProbs(s, 0, 0), M) /\ TreeProbs(s, 0, 0) = probs
    BY <1>3, <1>4
  <2> QED BY <1>1, <1>2, <1>6, <1>8, <2>1, TreeLeads
<1> DEFINE w == Walk("tree", x, 0, 0, <<>>, NoCoeffs, 0, 0, <<>>)
<1>10. Leafed(s, w, -l) = Done(w, v)
  <2> HIDE DEF w
  <2>1. Leafed(s, w, -l) = Done(w, Readers[of].modes[1 - (-l)])
    BY <1>2 DEF Leafed, of
  <2>2. 1 - (-l) = l + 1
    BY <1>5 DEF ModeTree
  <2> QED BY <1>1, <1>5, <2>1, <2>2
<1>11. Ends(s, p, TreedFrom(0, t, probs, l), v)
  BY <1>9, <1>10, EndsDone
<1> QED BY <1>7, <1>11 DEF s, p, v

(* Modes whose codes are spelled out.                                        *)
ModeRungs(of, mode, t, M, modes, leaf) ==
  LET code == Spelled[of][mode]
  IN /\ Leaning(t, code, M) /\ t[2 * (Len(code) - 1) + BitOf(code[Len(code)])] = -leaf
     /\ leaf \in Nat /\ modes[leaf + 1] = mode /\ Readers[of].tree = t /\ Readers[of].modes = modes
     /\ of \in DOMAIN Spelled /\ of \notin Nested /\ Nodes[of] = M \div 2 + 1

LEMMA SpelledModeEnds ==
  ASSUME NEW e, e.shape.kind = "mode", Fits(e), NEW t, NEW M, NEW modes, NEW leaf,
         ModeRungs(e.shape.of, e.value, t, M, modes, leaf)
  PROVE  Ends(e.shape, StartParse(e.shape), WrittenBools(e), e.value)
<1> DEFINE s == e.shape  p == StartParse(s)  v == e.value  of == s.of  probs == ModeProbs(s)  code == Spelled[of][v]
           k == 2 * (Len(code) - 1) + BitOf(code[Len(code)])  r == [j \in DOMAIN code |-> Bool(probs[j - 1], code[j])]
<1>1. /\ Readers[of].tree = t /\ Readers[of].modes = modes /\ of \in DOMAIN Spelled /\ of \notin Nested
      /\ Nodes[of] = M \div 2 + 1 /\ Leaning(t, code, M) /\ t[k] = -leaf /\ leaf \in Nat /\ modes[leaf + 1] = v
  BY DEF ModeRungs
<1>2. s.kind = "mode" /\ Treelike(s) /\ TreeOf(s) = t /\ M \in Nat
  BY <1>1 DEF Treelike, TreeOf, Leaning
<1>3. \A i, ctx3 : TreeProbs(s, i, ctx3) = probs
  BY <1>2 DEF TreeProbs
<1>4. Probable(probs, M)
  BY <1>1, <1>2, ModeProbable
<1>5. WrittenBools(e) = r
  <2>1. WrittenBools(e) = WrittenMode(s, v)
    BY ModeFits
  <2>2. WrittenMode(s, v) = r
    BY <1>1 DEF WrittenMode
  <2> QED BY <2>1, <2>2
<1>6. p = Walk("tree", 0, 0, 0, <<>>, NoCoeffs, 0, 0, <<>>)
  BY <1>1, <1>2, StartIs, Zenon
<1> HIDE DEF s, p, v, probs, of, code
<1>7. TreePath(t, 0, Rungs(code), k) /\ Along(Rungs(code), probs, r)
  BY <1>1, <1>4, RungsLead, RungsAlong
<1> HIDE DEF k, r
<1>8. PICK x : Leads(s, p, r, Leafed(s, Walk("tree", x, 0, 0, <<>>, NoCoeffs, 0, 0, <<>>), t[k]))
  <2>1. Along(Rungs(code), TreeProbs(s, 0, 0), r) /\ ~(t[k] > 0) /\ 0 % 2 = 0
    BY <1>1, <1>3, <1>7
  <2> QED BY <1>2, <1>6, <1>7, <2>1, PathLeads
<1> DEFINE w == Walk("tree", x, 0, 0, <<>>, NoCoeffs, 0, 0, <<>>)
<1>9. Leafed(s, w, t[k]) = Done(w, v)
  <2> HIDE DEF w
  <2>1. Leafed(s, w, t[k]) = Done(w, Readers[of].modes[1 - t[k]])
    BY <1>2 DEF Leafed, of
  <2>2. 1 - t[k] = leaf + 1
    BY <1>1
  <2> QED BY <1>1, <2>1, <2>2
<1>10. Ends(s, p, r, v)
  BY <1>8, <1>9, EndsDone
<1> QED BY <1>5, <1>10 DEF s, p, v

-----------------------------------------------------------------------------
(* Every mode is read as it was written.                                     *)
LEMMA NegatedZero ==
  ASSUME NEW l \in Int, l <= 0, l >= 0
  PROVE  -l = 0
OBVIOUS

LEMMA SpelledOnly == DOMAIN Spelled = {"inter", "ref", "partition", "sub_mv"}
BY DEF Spelled

LEMMA KeyYModes == ModeTree("kf_y", KF_YMODE_TREE, 7, IntraYMode)
<1>1. Rooted(KF_YMODE_TREE, 0, 7) /\ \A leaf \in 0..4 : LeafOf(KF_YMODE_TREE, 0, leaf)
  BY KeyYTreeRooted
<1>2. Len(IntraYMode) = 5
  BY DEF IntraYMode
<1>3. \A leaf \in 0..Len(IntraYMode) - 1 : LeafOf(KF_YMODE_TREE, 0, leaf)
  <2>1. 5 - 1 = 4
    OBVIOUS
  <2> QED BY <1>1, <1>2, <2>1
<1>4. Readers["kf_y"] = read_kf_y_mode
  BY DEF Readers
<1>5. read_kf_y_mode.tree = KF_YMODE_TREE /\ read_kf_y_mode.modes = IntraYMode
  BY DEF read_kf_y_mode, Reader
<1>6. Writer("kf_y") = Readers["kf_y"] /\ Modes("kf_y") = Writer("kf_y").modes
  BY DEF Writer, Modes
<1>7. Nodes["kf_y"] = 7 \div 2 + 1
  <2>1. 7 \div 2 + 1 = 4
    OBVIOUS
  <2> QED BY <2>1 DEF Nodes
<1>8. "kf_y" \notin DOMAIN Spelled /\ "kf_y" \notin Nested
  BY SpelledOnly DEF Nested
<1> QED BY <1>1, <1>2, <1>3, <1>4, <1>5, <1>6, <1>7, <1>8 DEF ModeTree

LEMMA KeyUvModes == ModeTree("kf_uv", UV_MODE_TREE, 5, IntraUvMode)
<1>1. Rooted(UV_MODE_TREE, 0, 5) /\ \A leaf \in 0..3 : LeafOf(UV_MODE_TREE, 0, leaf)
  BY UvTreeRooted
<1>2. Len(IntraUvMode) = 4
  BY DEF IntraUvMode
<1>3. \A leaf \in 0..Len(IntraUvMode) - 1 : LeafOf(UV_MODE_TREE, 0, leaf)
  <2>1. 4 - 1 = 3
    OBVIOUS
  <2> QED BY <1>1, <1>2, <2>1
<1>4. Readers["kf_uv"] = read_kf_uv_mode
  BY DEF Readers
<1>5. read_kf_uv_mode.tree = UV_MODE_TREE /\ read_kf_uv_mode.modes = IntraUvMode
  BY DEF read_kf_uv_mode, Reader
<1>6. Writer("kf_uv") = Readers["kf_uv"] /\ Modes("kf_uv") = Writer("kf_uv").modes
  BY DEF Writer, Modes
<1>7. Nodes["kf_uv"] = 5 \div 2 + 1
  <2>1. 5 \div 2 + 1 = 3
    OBVIOUS
  <2> QED BY <2>1 DEF Nodes
<1>8. "kf_uv" \notin DOMAIN Spelled /\ "kf_uv" \notin Nested
  BY SpelledOnly DEF Nested
<1> QED BY <1>1, <1>2, <1>3, <1>4, <1>5, <1>6, <1>7, <1>8 DEF ModeTree

LEMMA KeyBModes == ModeTree("kf_b", BMODE_TREE, 17, IntraBmode)
<1>1. Rooted(BMODE_TREE, 0, 17) /\ \A leaf \in 0..9 : LeafOf(BMODE_TREE, 0, leaf)
  BY SubblockTreeRooted
<1>2. Len(IntraBmode) = 10
  BY DEF IntraBmode
<1>3. \A leaf \in 0..Len(IntraBmode) - 1 : LeafOf(BMODE_TREE, 0, leaf)
  <2>1. 10 - 1 = 9
    OBVIOUS
  <2> QED BY <1>1, <1>2, <2>1
<1>4. Readers["kf_b"] = read_kf_b_mode
  BY DEF Readers
<1>5. read_kf_b_mode.tree = BMODE_TREE /\ read_kf_b_mode.modes = IntraBmode
  BY DEF read_kf_b_mode, Reader
<1>6. Writer("kf_b") = Readers["kf_b"] /\ Modes("kf_b") = Writer("kf_b").modes
  BY DEF Writer, Modes
<1>7. Nodes["kf_b"] = 17 \div 2 + 1
  <2>1. 17 \div 2 + 1 = 9
    OBVIOUS
  <2> QED BY <2>1 DEF Nodes
<1>8. "kf_b" \notin DOMAIN Spelled /\ "kf_b" \notin Nested
  BY SpelledOnly DEF Nested
<1> QED BY <1>1, <1>2, <1>3, <1>4, <1>5, <1>6, <1>7, <1>8 DEF ModeTree

LEMMA InterYModes == ModeTree("if_y", IF_YMODE_TREE, 7, IntraYMode)
<1>1. Rooted(IF_YMODE_TREE, 0, 7) /\ \A leaf \in 0..4 : LeafOf(IF_YMODE_TREE, 0, leaf)
  BY InterYTreeRooted
<1>2. Len(IntraYMode) = 5
  BY DEF IntraYMode
<1>3. \A leaf \in 0..Len(IntraYMode) - 1 : LeafOf(IF_YMODE_TREE, 0, leaf)
  <2>1. 5 - 1 = 4
    OBVIOUS
  <2> QED BY <1>1, <1>2, <2>1
<1>4. Readers["if_y"] = read_if_y_mode
  BY DEF Readers
<1>5. read_if_y_mode.tree = IF_YMODE_TREE /\ read_if_y_mode.modes = IntraYMode
  BY DEF read_if_y_mode, Reader
<1>6. Writer("if_y") = Readers["if_y"] /\ Modes("if_y") = Writer("if_y").modes
  BY DEF Writer, Modes
<1>7. Nodes["if_y"] = 7 \div 2 + 1
  <2>1. 7 \div 2 + 1 = 4
    OBVIOUS
  <2> QED BY <2>1 DEF Nodes
<1>8. "if_y" \notin DOMAIN Spelled /\ "if_y" \notin Nested
  BY SpelledOnly DEF Nested
<1> QED BY <1>1, <1>2, <1>3, <1>4, <1>5, <1>6, <1>7, <1>8 DEF ModeTree

LEMMA InterUvModes == ModeTree("if_uv", UV_MODE_TREE, 5, IntraUvMode)
<1>1. Rooted(UV_MODE_TREE, 0, 5) /\ \A leaf \in 0..3 : LeafOf(UV_MODE_TREE, 0, leaf)
  BY UvTreeRooted
<1>2. Len(IntraUvMode) = 4
  BY DEF IntraUvMode
<1>3. \A leaf \in 0..Len(IntraUvMode) - 1 : LeafOf(UV_MODE_TREE, 0, leaf)
  <2>1. 4 - 1 = 3
    OBVIOUS
  <2> QED BY <1>1, <1>2, <2>1
<1>4. Readers["if_uv"] = read_if_uv_mode
  BY DEF Readers
<1>5. read_if_uv_mode.tree = UV_MODE_TREE /\ read_if_uv_mode.modes = IntraUvMode
  BY DEF read_if_uv_mode, Reader
<1>6. Writer("if_uv") = Readers["if_uv"] /\ Modes("if_uv") = Writer("if_uv").modes
  BY DEF Writer, Modes
<1>7. Nodes["if_uv"] = 5 \div 2 + 1
  <2>1. 5 \div 2 + 1 = 3
    OBVIOUS
  <2> QED BY <2>1 DEF Nodes
<1>8. "if_uv" \notin DOMAIN Spelled /\ "if_uv" \notin Nested
  BY SpelledOnly DEF Nested
<1> QED BY <1>1, <1>2, <1>3, <1>4, <1>5, <1>6, <1>7, <1>8 DEF ModeTree

LEMMA InterBModes == ModeTree("if_b", BMODE_TREE, 17, IntraBmode)
<1>1. Rooted(BMODE_TREE, 0, 17) /\ \A leaf \in 0..9 : LeafOf(BMODE_TREE, 0, leaf)
  BY SubblockTreeRooted
<1>2. Len(IntraBmode) = 10
  BY DEF IntraBmode
<1>3. \A leaf \in 0..Len(IntraBmode) - 1 : LeafOf(BMODE_TREE, 0, leaf)
  <2>1. 10 - 1 = 9
    OBVIOUS
  <2> QED BY <1>1, <1>2, <2>1
<1>4. Readers["if_b"] = read_if_b_mode
  BY DEF Readers
<1>5. read_if_b_mode.tree = BMODE_TREE /\ read_if_b_mode.modes = IntraBmode
  BY DEF read_if_b_mode, Reader
<1>6. Writer("if_b") = Readers["if_b"] /\ Modes("if_b") = Writer("if_b").modes
  BY DEF Writer, Modes
<1>7. Nodes["if_b"] = 17 \div 2 + 1
  <2>1. 17 \div 2 + 1 = 9
    OBVIOUS
  <2> QED BY <2>1 DEF Nodes
<1>8. "if_b" \notin DOMAIN Spelled /\ "if_b" \notin Nested
  BY SpelledOnly DEF Nested
<1> QED BY <1>1, <1>2, <1>3, <1>4, <1>5, <1>6, <1>7, <1>8 DEF ModeTree

LEMMA SegmentModes == ModeTree("segment", MB_SEGMENT_TREE, 5, SegmentId)
<1>1. Rooted(MB_SEGMENT_TREE, 0, 5) /\ \A leaf \in 0..3 : LeafOf(MB_SEGMENT_TREE, 0, leaf)
  BY SegmentTreeRooted
<1>2. Len(SegmentId) = 4
  BY DEF SegmentId
<1>3. \A leaf \in 0..Len(SegmentId) - 1 : LeafOf(MB_SEGMENT_TREE, 0, leaf)
  <2>1. 4 - 1 = 3
    OBVIOUS
  <2> QED BY <1>1, <1>2, <2>1
<1>4. Readers["segment"] = read_kf_segment_id
  BY DEF Readers
<1>5. read_kf_segment_id.tree = MB_SEGMENT_TREE /\ read_kf_segment_id.modes = SegmentId
  BY DEF read_kf_segment_id, Reader
<1>6. Writer("segment") = Readers["segment"] /\ Modes("segment") = Writer("segment").modes
  BY DEF Writer, Modes
<1>7. Nodes["segment"] = 5 \div 2 + 1
  <2>1. 5 \div 2 + 1 = 3
    OBVIOUS
  <2> QED BY <2>1 DEF Nodes
<1>8. "segment" \notin DOMAIN Spelled /\ "segment" \notin Nested
  BY SpelledOnly DEF Nested
<1> QED BY <1>1, <1>2, <1>3, <1>4, <1>5, <1>6, <1>7, <1>8 DEF ModeTree

LEMMA MvRefTreeIs ==
  /\ DOMAIN MV_REF_TREE = 0..7
  /\ MV_REF_TREE[0] = 0 /\ MV_REF_TREE[1] = 2 /\ MV_REF_TREE[2] = -1 /\ MV_REF_TREE[3] = 4 /\ MV_REF_TREE[4] = -2 /\ MV_REF_TREE[5] = 6 /\ MV_REF_TREE[6] = -3 /\ MV_REF_TREE[7] = -4
BY DEF MV_REF_TREE, FromZero

LEMMA InterReader ==
  /\ Readers["inter"].tree = MV_REF_TREE /\ Readers["inter"].modes = InterMode /\ Modes("inter") = InterMode
  /\ Nodes["inter"] = 4 /\ "inter" \in DOMAIN Spelled /\ "inter" \notin Nested /\ Spelled["inter"] = InterModeCode
<1>1. Readers["inter"] = read_inter_mode
  BY DEF Readers
<1>2. read_inter_mode.tree = MV_REF_TREE /\ read_inter_mode.modes = InterMode
  BY DEF read_inter_mode, Reader
<1>3. Modes("inter") = Readers["inter"].modes
  BY DEF Writer, Modes
<1>4. Nodes["inter"] = 4
  BY DEF Nodes
<1>5. "inter" \in DOMAIN Spelled /\ "inter" \notin Nested
  BY SpelledOnly DEF Nested
<1>6. Spelled["inter"] = InterModeCode
  BY DEF Spelled
<1> QED BY <1>1, <1>2, <1>3, <1>4, <1>5, <1>6

LEMMA InterModes ==
  ASSUME NEW mode, \E k \in 1..Len(Modes("inter")) : Modes("inter")[k] = mode
  PROVE  \E leaf : ModeRungs("inter", mode, MV_REF_TREE, 7, InterMode, leaf)
<1> DEFINE t == MV_REF_TREE
<1>1. DOMAIN t = 0..7 /\ t[0] = 0 /\ t[1] = 2 /\ t[2] = -1 /\ t[3] = 4 /\ t[4] = -2 /\ t[5] = 6 /\ t[6] = -3 /\ t[7] = -4
  BY MvRefTreeIs
<1> HIDE DEF t
<1>2. 7 \div 2 + 1 = 4
  OBVIOUS
<1>3. Len(InterMode) = 5 /\ InterMode[1] = "Zero" /\ InterMode[2] = "Nearest" /\ InterMode[3] = "Near" /\ InterMode[4] = "New" /\ InterMode[5] = "Split"
  BY DEF InterMode
<1>4. mode = "Zero" \/ mode = "Nearest" \/ mode = "Near" \/ mode = "New" \/ mode = "Split"
  <2>1. PICK k \in 1..Len(InterMode) : InterMode[k] = mode
    BY InterReader
  <2>2. k = 1 \/ k = 2 \/ k = 3 \/ k = 4 \/ k = 5
    BY <1>3
  <2> QED BY <1>3, <2>1, <2>2
<1>5. CASE mode = "Zero"
  <2> DEFINE code == <<FALSE>>
  <2>1. Spelled["inter"][mode] = code
    <3>1. InterModeCode["Zero"] = code
      BY Zenon DEF InterModeCode
    <3> HIDE DEF code
    <3> QED BY <1>5, <3>1, InterReader
  <2>2. code \in Seq(BOOLEAN) /\ Len(code) = 1 /\ ~code[1]
    OBVIOUS
  <2> HIDE DEF code
  <2>3. \A j \in 1..Len(code) - 1 : FALSE
    BY <2>2
  <2>4. \A j \in 1..Len(code) - 1 : code[j] /\ t[2 * j - 1] = 2 * j
    <3> TAKE j \in 1..Len(code) - 1
    <3> QED BY <2>3
  <2>5. Leaning(t, code, 7)
    <3>1. DOMAIN t = 0..7 /\ Len(code) >= 1 /\ 2 * Len(code) - 1 <= 7
      BY <1>1, <2>2
    <3> QED BY <2>2, <2>4, <3>1 DEF Leaning
  <2>6. 2 * (Len(code) - 1) + BitOf(code[Len(code)]) = 0
    BY <2>2 DEF BitOf
  <2> DEFINE l == 0
  <2>7. l = 0
    OBVIOUS
  <2> HIDE DEF l
  <2>8. t[0] = -l /\ l \in Nat /\ InterMode[l + 1] = mode
    <3>1. l + 1 = 1 /\ -l = 0 /\ l \in Nat
      <4>1. l \in Int /\ l <= 0 /\ l >= 0 /\ l + 1 = 1 /\ l \in Nat
        BY <2>7
      <4>2. -l = 0
        BY ONLY <4>1, NegatedZero
      <4> QED BY <4>1, <4>2
    <3>2. t[0] = 0 /\ InterMode[1] = mode
      BY <1>1, <1>3, <1>5
    <3> QED BY <3>1, <3>2
  <2>9. ModeRungs("inter", mode, MV_REF_TREE, 7, InterMode, l)
    BY <1>2, <2>1, <2>5, <2>6, <2>8, InterReader DEF ModeRungs, t
  <2> QED BY <2>9
<1>6. CASE mode = "Nearest"
  <2> DEFINE code == <<TRUE, FALSE>>
  <2>1. Spelled["inter"][mode] = code
    <3>1. InterModeCode["Nearest"] = code
      BY Zenon DEF InterModeCode
    <3> HIDE DEF code
    <3> QED BY <1>6, <3>1, InterReader
  <2>2. code \in Seq(BOOLEAN) /\ Len(code) = 2 /\ code[1] /\ ~code[2]
    OBVIOUS
  <2> HIDE DEF code
  <2>3. \A j \in 1..Len(code) - 1 : j = 1
    BY <2>2
  <2>4. \A j \in 1..Len(code) - 1 : code[j] /\ t[2 * j - 1] = 2 * j
    <3> TAKE j \in 1..Len(code) - 1
    <3>1. CASE j = 1
      <4>1. 2 * j - 1 = 1 /\ 2 * j = 2
        BY <3>1
      <4> QED BY <1>1, <2>2, <3>1, <4>1
    <3> QED BY <2>3, <3>1
  <2>5. Leaning(t, code, 7)
    <3>1. DOMAIN t = 0..7 /\ Len(code) >= 1 /\ 2 * Len(code) - 1 <= 7
      BY <1>1, <2>2
    <3> QED BY <2>2, <2>4, <3>1 DEF Leaning
  <2>6. 2 * (Len(code) - 1) + BitOf(code[Len(code)]) = 2
    BY <2>2 DEF BitOf
  <2> DEFINE l == 1
  <2>7. l = 1
    OBVIOUS
  <2> HIDE DEF l
  <2>8. t[2] = -l /\ l \in Nat /\ InterMode[l + 1] = mode
    <3>1. l + 1 = 2 /\ -l = -1 /\ l \in Nat
      BY <2>7
    <3>2. t[2] = -1 /\ InterMode[2] = mode
      BY <1>1, <1>3, <1>6
    <3> QED BY <3>1, <3>2
  <2>9. ModeRungs("inter", mode, MV_REF_TREE, 7, InterMode, l)
    BY <1>2, <2>1, <2>5, <2>6, <2>8, InterReader DEF ModeRungs, t
  <2> QED BY <2>9
<1>7. CASE mode = "Near"
  <2> DEFINE code == <<TRUE, TRUE, FALSE>>
  <2>1. Spelled["inter"][mode] = code
    <3>1. InterModeCode["Near"] = code
      BY Zenon DEF InterModeCode
    <3> HIDE DEF code
    <3> QED BY <1>7, <3>1, InterReader
  <2>2. code \in Seq(BOOLEAN) /\ Len(code) = 3 /\ code[1] /\ code[2] /\ ~code[3]
    OBVIOUS
  <2> HIDE DEF code
  <2>3. \A j \in 1..Len(code) - 1 : j = 1 \/ j = 2
    BY <2>2
  <2>4. \A j \in 1..Len(code) - 1 : code[j] /\ t[2 * j - 1] = 2 * j
    <3> TAKE j \in 1..Len(code) - 1
    <3>1. CASE j = 1
      <4>1. 2 * j - 1 = 1 /\ 2 * j = 2
        BY <3>1
      <4> QED BY <1>1, <2>2, <3>1, <4>1
    <3>2. CASE j = 2
      <4>1. 2 * j - 1 = 3 /\ 2 * j = 4
        BY <3>2
      <4> QED BY <1>1, <2>2, <3>2, <4>1
    <3> QED BY <2>3, <3>1, <3>2
  <2>5. Leaning(t, code, 7)
    <3>1. DOMAIN t = 0..7 /\ Len(code) >= 1 /\ 2 * Len(code) - 1 <= 7
      BY <1>1, <2>2
    <3> QED BY <2>2, <2>4, <3>1 DEF Leaning
  <2>6. 2 * (Len(code) - 1) + BitOf(code[Len(code)]) = 4
    BY <2>2 DEF BitOf
  <2> DEFINE l == 2
  <2>7. l = 2
    OBVIOUS
  <2> HIDE DEF l
  <2>8. t[4] = -l /\ l \in Nat /\ InterMode[l + 1] = mode
    <3>1. l + 1 = 3 /\ -l = -2 /\ l \in Nat
      BY <2>7
    <3>2. t[4] = -2 /\ InterMode[3] = mode
      BY <1>1, <1>3, <1>7
    <3> QED BY <3>1, <3>2
  <2>9. ModeRungs("inter", mode, MV_REF_TREE, 7, InterMode, l)
    BY <1>2, <2>1, <2>5, <2>6, <2>8, InterReader DEF ModeRungs, t
  <2> QED BY <2>9
<1>8. CASE mode = "New"
  <2> DEFINE code == <<TRUE, TRUE, TRUE, FALSE>>
  <2>1. Spelled["inter"][mode] = code
    <3>1. InterModeCode["New"] = code
      BY Zenon DEF InterModeCode
    <3> HIDE DEF code
    <3> QED BY <1>8, <3>1, InterReader
  <2>2. code \in Seq(BOOLEAN) /\ Len(code) = 4 /\ code[1] /\ code[2] /\ code[3] /\ ~code[4]
    OBVIOUS
  <2> HIDE DEF code
  <2>3. \A j \in 1..Len(code) - 1 : j = 1 \/ j = 2 \/ j = 3
    BY <2>2
  <2>4. \A j \in 1..Len(code) - 1 : code[j] /\ t[2 * j - 1] = 2 * j
    <3> TAKE j \in 1..Len(code) - 1
    <3>1. CASE j = 1
      <4>1. 2 * j - 1 = 1 /\ 2 * j = 2
        BY <3>1
      <4> QED BY <1>1, <2>2, <3>1, <4>1
    <3>2. CASE j = 2
      <4>1. 2 * j - 1 = 3 /\ 2 * j = 4
        BY <3>2
      <4> QED BY <1>1, <2>2, <3>2, <4>1
    <3>3. CASE j = 3
      <4>1. 2 * j - 1 = 5 /\ 2 * j = 6
        BY <3>3
      <4> QED BY <1>1, <2>2, <3>3, <4>1
    <3> QED BY <2>3, <3>1, <3>2, <3>3
  <2>5. Leaning(t, code, 7)
    <3>1. DOMAIN t = 0..7 /\ Len(code) >= 1 /\ 2 * Len(code) - 1 <= 7
      BY <1>1, <2>2
    <3> QED BY <2>2, <2>4, <3>1 DEF Leaning
  <2>6. 2 * (Len(code) - 1) + BitOf(code[Len(code)]) = 6
    BY <2>2 DEF BitOf
  <2> DEFINE l == 3
  <2>7. l = 3
    OBVIOUS
  <2> HIDE DEF l
  <2>8. t[6] = -l /\ l \in Nat /\ InterMode[l + 1] = mode
    <3>1. l + 1 = 4 /\ -l = -3 /\ l \in Nat
      BY <2>7
    <3>2. t[6] = -3 /\ InterMode[4] = mode
      BY <1>1, <1>3, <1>8
    <3> QED BY <3>1, <3>2
  <2>9. ModeRungs("inter", mode, MV_REF_TREE, 7, InterMode, l)
    BY <1>2, <2>1, <2>5, <2>6, <2>8, InterReader DEF ModeRungs, t
  <2> QED BY <2>9
<1>9. CASE mode = "Split"
  <2> DEFINE code == <<TRUE, TRUE, TRUE, TRUE>>
  <2>1. Spelled["inter"][mode] = code
    <3>1. InterModeCode["Split"] = code
      BY Zenon DEF InterModeCode
    <3> HIDE DEF code
    <3> QED BY <1>9, <3>1, InterReader
  <2>2. code \in Seq(BOOLEAN) /\ Len(code) = 4 /\ code[1] /\ code[2] /\ code[3] /\ code[4]
    OBVIOUS
  <2> HIDE DEF code
  <2>3. \A j \in 1..Len(code) - 1 : j = 1 \/ j = 2 \/ j = 3
    BY <2>2
  <2>4. \A j \in 1..Len(code) - 1 : code[j] /\ t[2 * j - 1] = 2 * j
    <3> TAKE j \in 1..Len(code) - 1
    <3>1. CASE j = 1
      <4>1. 2 * j - 1 = 1 /\ 2 * j = 2
        BY <3>1
      <4> QED BY <1>1, <2>2, <3>1, <4>1
    <3>2. CASE j = 2
      <4>1. 2 * j - 1 = 3 /\ 2 * j = 4
        BY <3>2
      <4> QED BY <1>1, <2>2, <3>2, <4>1
    <3>3. CASE j = 3
      <4>1. 2 * j - 1 = 5 /\ 2 * j = 6
        BY <3>3
      <4> QED BY <1>1, <2>2, <3>3, <4>1
    <3> QED BY <2>3, <3>1, <3>2, <3>3
  <2>5. Leaning(t, code, 7)
    <3>1. DOMAIN t = 0..7 /\ Len(code) >= 1 /\ 2 * Len(code) - 1 <= 7
      BY <1>1, <2>2
    <3> QED BY <2>2, <2>4, <3>1 DEF Leaning
  <2>6. 2 * (Len(code) - 1) + BitOf(code[Len(code)]) = 7
    BY <2>2 DEF BitOf
  <2> DEFINE l == 4
  <2>7. l = 4
    OBVIOUS
  <2> HIDE DEF l
  <2>8. t[7] = -l /\ l \in Nat /\ InterMode[l + 1] = mode
    <3>1. l + 1 = 5 /\ -l = -4 /\ l \in Nat
      BY <2>7
    <3>2. t[7] = -4 /\ InterMode[5] = mode
      BY <1>1, <1>3, <1>9
    <3> QED BY <3>1, <3>2
  <2>9. ModeRungs("inter", mode, MV_REF_TREE, 7, InterMode, l)
    BY <1>2, <2>1, <2>5, <2>6, <2>8, InterReader DEF ModeRungs, t
  <2> QED BY <2>9
<1> QED BY <1>4, <1>5, <1>6, <1>7, <1>8, <1>9

LEMMA SplitTreeIs ==
  /\ DOMAIN MV_PARTITION_TREE = 0..5
  /\ MV_PARTITION_TREE[0] = -3 /\ MV_PARTITION_TREE[1] = 2 /\ MV_PARTITION_TREE[2] = -2 /\ MV_PARTITION_TREE[3] = 4 /\ MV_PARTITION_TREE[4] = 0 /\ MV_PARTITION_TREE[5] = -1
BY DEF MV_PARTITION_TREE, FromZero

LEMMA PartitionReader ==
  /\ Readers["partition"].tree = MV_PARTITION_TREE /\ Readers["partition"].modes = MvPartition /\ Modes("partition") = MvPartition
  /\ Nodes["partition"] = 3 /\ "partition" \in DOMAIN Spelled /\ "partition" \notin Nested /\ Spelled["partition"] = write_split_mv_partition
<1>1. Readers["partition"] = read_mv_partition
  BY DEF Readers
<1>2. read_mv_partition.tree = MV_PARTITION_TREE /\ read_mv_partition.modes = MvPartition
  BY DEF read_mv_partition, Reader
<1>3. Modes("partition") = Readers["partition"].modes
  BY DEF Writer, Modes
<1>4. Nodes["partition"] = 3
  BY DEF Nodes
<1>5. "partition" \in DOMAIN Spelled /\ "partition" \notin Nested
  BY SpelledOnly DEF Nested
<1>6. Spelled["partition"] = write_split_mv_partition
  BY DEF Spelled
<1> QED BY <1>1, <1>2, <1>3, <1>4, <1>5, <1>6

LEMMA PartitionModes ==
  ASSUME NEW mode, \E k \in 1..Len(Modes("partition")) : Modes("partition")[k] = mode
  PROVE  \E leaf : ModeRungs("partition", mode, MV_PARTITION_TREE, 5, MvPartition, leaf)
<1> DEFINE t == MV_PARTITION_TREE
<1>1. DOMAIN t = 0..5 /\ t[0] = -3 /\ t[1] = 2 /\ t[2] = -2 /\ t[3] = 4 /\ t[4] = 0 /\ t[5] = -1
  BY SplitTreeIs
<1> HIDE DEF t
<1>2. 5 \div 2 + 1 = 3
  OBVIOUS
<1>3. Len(MvPartition) = 4 /\ MvPartition[1] = "TopBottom" /\ MvPartition[2] = "LeftRight" /\ MvPartition[3] = "Quarters" /\ MvPartition[4] = "Mv16"
  BY DEF MvPartition
<1>4. mode = "TopBottom" \/ mode = "LeftRight" \/ mode = "Quarters" \/ mode = "Mv16"
  <2>1. PICK k \in 1..Len(MvPartition) : MvPartition[k] = mode
    BY PartitionReader
  <2>2. k = 1 \/ k = 2 \/ k = 3 \/ k = 4
    BY <1>3
  <2> QED BY <1>3, <2>1, <2>2
<1>5. CASE mode = "TopBottom"
  <2> DEFINE code == <<TRUE, TRUE, FALSE>>
  <2>1. Spelled["partition"][mode] = code
    <3>1. write_split_mv_partition["TopBottom"] = code
      BY Zenon DEF write_split_mv_partition
    <3> HIDE DEF code
    <3> QED BY <1>5, <3>1, PartitionReader
  <2>2. code \in Seq(BOOLEAN) /\ Len(code) = 3 /\ code[1] /\ code[2] /\ ~code[3]
    OBVIOUS
  <2> HIDE DEF code
  <2>3. \A j \in 1..Len(code) - 1 : j = 1 \/ j = 2
    BY <2>2
  <2>4. \A j \in 1..Len(code) - 1 : code[j] /\ t[2 * j - 1] = 2 * j
    <3> TAKE j \in 1..Len(code) - 1
    <3>1. CASE j = 1
      <4>1. 2 * j - 1 = 1 /\ 2 * j = 2
        BY <3>1
      <4> QED BY <1>1, <2>2, <3>1, <4>1
    <3>2. CASE j = 2
      <4>1. 2 * j - 1 = 3 /\ 2 * j = 4
        BY <3>2
      <4> QED BY <1>1, <2>2, <3>2, <4>1
    <3> QED BY <2>3, <3>1, <3>2
  <2>5. Leaning(t, code, 5)
    <3>1. DOMAIN t = 0..5 /\ Len(code) >= 1 /\ 2 * Len(code) - 1 <= 5
      BY <1>1, <2>2
    <3> QED BY <2>2, <2>4, <3>1 DEF Leaning
  <2>6. 2 * (Len(code) - 1) + BitOf(code[Len(code)]) = 4
    BY <2>2 DEF BitOf
  <2> DEFINE l == 0
  <2>7. l = 0
    OBVIOUS
  <2> HIDE DEF l
  <2>8. t[4] = -l /\ l \in Nat /\ MvPartition[l + 1] = mode
    <3>1. l + 1 = 1 /\ -l = 0 /\ l \in Nat
      <4>1. l \in Int /\ l <= 0 /\ l >= 0 /\ l + 1 = 1 /\ l \in Nat
        BY <2>7
      <4>2. -l = 0
        BY ONLY <4>1, NegatedZero
      <4> QED BY <4>1, <4>2
    <3>2. t[4] = 0 /\ MvPartition[1] = mode
      BY <1>1, <1>3, <1>5
    <3> QED BY <3>1, <3>2
  <2>9. ModeRungs("partition", mode, MV_PARTITION_TREE, 5, MvPartition, l)
    BY <1>2, <2>1, <2>5, <2>6, <2>8, PartitionReader DEF ModeRungs, t
  <2> QED BY <2>9
<1>6. CASE mode = "LeftRight"
  <2> DEFINE code == <<TRUE, TRUE, TRUE>>
  <2>1. Spelled["partition"][mode] = code
    <3>1. write_split_mv_partition["LeftRight"] = code
      BY Zenon DEF write_split_mv_partition
    <3> HIDE DEF code
    <3> QED BY <1>6, <3>1, PartitionReader
  <2>2. code \in Seq(BOOLEAN) /\ Len(code) = 3 /\ code[1] /\ code[2] /\ code[3]
    OBVIOUS
  <2> HIDE DEF code
  <2>3. \A j \in 1..Len(code) - 1 : j = 1 \/ j = 2
    BY <2>2
  <2>4. \A j \in 1..Len(code) - 1 : code[j] /\ t[2 * j - 1] = 2 * j
    <3> TAKE j \in 1..Len(code) - 1
    <3>1. CASE j = 1
      <4>1. 2 * j - 1 = 1 /\ 2 * j = 2
        BY <3>1
      <4> QED BY <1>1, <2>2, <3>1, <4>1
    <3>2. CASE j = 2
      <4>1. 2 * j - 1 = 3 /\ 2 * j = 4
        BY <3>2
      <4> QED BY <1>1, <2>2, <3>2, <4>1
    <3> QED BY <2>3, <3>1, <3>2
  <2>5. Leaning(t, code, 5)
    <3>1. DOMAIN t = 0..5 /\ Len(code) >= 1 /\ 2 * Len(code) - 1 <= 5
      BY <1>1, <2>2
    <3> QED BY <2>2, <2>4, <3>1 DEF Leaning
  <2>6. 2 * (Len(code) - 1) + BitOf(code[Len(code)]) = 5
    BY <2>2 DEF BitOf
  <2> DEFINE l == 1
  <2>7. l = 1
    OBVIOUS
  <2> HIDE DEF l
  <2>8. t[5] = -l /\ l \in Nat /\ MvPartition[l + 1] = mode
    <3>1. l + 1 = 2 /\ -l = -1 /\ l \in Nat
      BY <2>7
    <3>2. t[5] = -1 /\ MvPartition[2] = mode
      BY <1>1, <1>3, <1>6
    <3> QED BY <3>1, <3>2
  <2>9. ModeRungs("partition", mode, MV_PARTITION_TREE, 5, MvPartition, l)
    BY <1>2, <2>1, <2>5, <2>6, <2>8, PartitionReader DEF ModeRungs, t
  <2> QED BY <2>9
<1>7. CASE mode = "Quarters"
  <2> DEFINE code == <<TRUE, FALSE>>
  <2>1. Spelled["partition"][mode] = code
    <3>1. write_split_mv_partition["Quarters"] = code
      BY Zenon DEF write_split_mv_partition
    <3> HIDE DEF code
    <3> QED BY <1>7, <3>1, PartitionReader
  <2>2. code \in Seq(BOOLEAN) /\ Len(code) = 2 /\ code[1] /\ ~code[2]
    OBVIOUS
  <2> HIDE DEF code
  <2>3. \A j \in 1..Len(code) - 1 : j = 1
    BY <2>2
  <2>4. \A j \in 1..Len(code) - 1 : code[j] /\ t[2 * j - 1] = 2 * j
    <3> TAKE j \in 1..Len(code) - 1
    <3>1. CASE j = 1
      <4>1. 2 * j - 1 = 1 /\ 2 * j = 2
        BY <3>1
      <4> QED BY <1>1, <2>2, <3>1, <4>1
    <3> QED BY <2>3, <3>1
  <2>5. Leaning(t, code, 5)
    <3>1. DOMAIN t = 0..5 /\ Len(code) >= 1 /\ 2 * Len(code) - 1 <= 5
      BY <1>1, <2>2
    <3> QED BY <2>2, <2>4, <3>1 DEF Leaning
  <2>6. 2 * (Len(code) - 1) + BitOf(code[Len(code)]) = 2
    BY <2>2 DEF BitOf
  <2> DEFINE l == 2
  <2>7. l = 2
    OBVIOUS
  <2> HIDE DEF l
  <2>8. t[2] = -l /\ l \in Nat /\ MvPartition[l + 1] = mode
    <3>1. l + 1 = 3 /\ -l = -2 /\ l \in Nat
      BY <2>7
    <3>2. t[2] = -2 /\ MvPartition[3] = mode
      BY <1>1, <1>3, <1>7
    <3> QED BY <3>1, <3>2
  <2>9. ModeRungs("partition", mode, MV_PARTITION_TREE, 5, MvPartition, l)
    BY <1>2, <2>1, <2>5, <2>6, <2>8, PartitionReader DEF ModeRungs, t
  <2> QED BY <2>9
<1>8. CASE mode = "Mv16"
  <2> DEFINE code == <<FALSE>>
  <2>1. Spelled["partition"][mode] = code
    <3>1. write_split_mv_partition["Mv16"] = code
      BY Zenon DEF write_split_mv_partition
    <3> HIDE DEF code
    <3> QED BY <1>8, <3>1, PartitionReader
  <2>2. code \in Seq(BOOLEAN) /\ Len(code) = 1 /\ ~code[1]
    OBVIOUS
  <2> HIDE DEF code
  <2>3. \A j \in 1..Len(code) - 1 : FALSE
    BY <2>2
  <2>4. \A j \in 1..Len(code) - 1 : code[j] /\ t[2 * j - 1] = 2 * j
    <3> TAKE j \in 1..Len(code) - 1
    <3> QED BY <2>3
  <2>5. Leaning(t, code, 5)
    <3>1. DOMAIN t = 0..5 /\ Len(code) >= 1 /\ 2 * Len(code) - 1 <= 5
      BY <1>1, <2>2
    <3> QED BY <2>2, <2>4, <3>1 DEF Leaning
  <2>6. 2 * (Len(code) - 1) + BitOf(code[Len(code)]) = 0
    BY <2>2 DEF BitOf
  <2> DEFINE l == 3
  <2>7. l = 3
    OBVIOUS
  <2> HIDE DEF l
  <2>8. t[0] = -l /\ l \in Nat /\ MvPartition[l + 1] = mode
    <3>1. l + 1 = 4 /\ -l = -3 /\ l \in Nat
      BY <2>7
    <3>2. t[0] = -3 /\ MvPartition[4] = mode
      BY <1>1, <1>3, <1>8
    <3> QED BY <3>1, <3>2
  <2>9. ModeRungs("partition", mode, MV_PARTITION_TREE, 5, MvPartition, l)
    BY <1>2, <2>1, <2>5, <2>6, <2>8, PartitionReader DEF ModeRungs, t
  <2> QED BY <2>9
<1> QED BY <1>4, <1>5, <1>6, <1>7, <1>8

LEMMA SubMvTreeIs ==
  /\ DOMAIN SUBMV_REF_TREE = 0..5
  /\ SUBMV_REF_TREE[0] = 0 /\ SUBMV_REF_TREE[1] = 2 /\ SUBMV_REF_TREE[2] = -1 /\ SUBMV_REF_TREE[3] = 4 /\ SUBMV_REF_TREE[4] = -2 /\ SUBMV_REF_TREE[5] = -3
BY DEF SUBMV_REF_TREE, FromZero

LEMMA SubMvReader ==
  /\ Readers["sub_mv"].tree = SUBMV_REF_TREE /\ Readers["sub_mv"].modes = SubMvRefMode /\ Modes("sub_mv") = SubMvRefMode
  /\ Nodes["sub_mv"] = 3 /\ "sub_mv" \in DOMAIN Spelled /\ "sub_mv" \notin Nested /\ Spelled["sub_mv"] = write_submv_ref
<1>1. Readers["sub_mv"] = submv_ref
  BY DEF Readers
<1>2. submv_ref.tree = SUBMV_REF_TREE /\ submv_ref.modes = SubMvRefMode
  BY DEF submv_ref, Reader
<1>3. Modes("sub_mv") = Readers["sub_mv"].modes
  BY DEF Writer, Modes
<1>4. Nodes["sub_mv"] = 3
  BY DEF Nodes
<1>5. "sub_mv" \in DOMAIN Spelled /\ "sub_mv" \notin Nested
  BY SpelledOnly DEF Nested
<1>6. Spelled["sub_mv"] = write_submv_ref
  BY DEF Spelled
<1> QED BY <1>1, <1>2, <1>3, <1>4, <1>5, <1>6

LEMMA SubMvModes ==
  ASSUME NEW mode, \E k \in 1..Len(Modes("sub_mv")) : Modes("sub_mv")[k] = mode
  PROVE  \E leaf : ModeRungs("sub_mv", mode, SUBMV_REF_TREE, 5, SubMvRefMode, leaf)
<1> DEFINE t == SUBMV_REF_TREE
<1>1. DOMAIN t = 0..5 /\ t[0] = 0 /\ t[1] = 2 /\ t[2] = -1 /\ t[3] = 4 /\ t[4] = -2 /\ t[5] = -3
  BY SubMvTreeIs
<1> HIDE DEF t
<1>2. 5 \div 2 + 1 = 3
  OBVIOUS
<1>3. Len(SubMvRefMode) = 4 /\ SubMvRefMode[1] = "Left4x4" /\ SubMvRefMode[2] = "Above4x4" /\ SubMvRefMode[3] = "Zero4x4" /\ SubMvRefMode[4] = "New4x4"
  BY DEF SubMvRefMode
<1>4. mode = "Left4x4" \/ mode = "Above4x4" \/ mode = "Zero4x4" \/ mode = "New4x4"
  <2>1. PICK k \in 1..Len(SubMvRefMode) : SubMvRefMode[k] = mode
    BY SubMvReader
  <2>2. k = 1 \/ k = 2 \/ k = 3 \/ k = 4
    BY <1>3
  <2> QED BY <1>3, <2>1, <2>2
<1>5. CASE mode = "Left4x4"
  <2> DEFINE code == <<FALSE>>
  <2>1. Spelled["sub_mv"][mode] = code
    <3>1. write_submv_ref["Left4x4"] = code
      BY Zenon DEF write_submv_ref
    <3> HIDE DEF code
    <3> QED BY <1>5, <3>1, SubMvReader
  <2>2. code \in Seq(BOOLEAN) /\ Len(code) = 1 /\ ~code[1]
    OBVIOUS
  <2> HIDE DEF code
  <2>3. \A j \in 1..Len(code) - 1 : FALSE
    BY <2>2
  <2>4. \A j \in 1..Len(code) - 1 : code[j] /\ t[2 * j - 1] = 2 * j
    <3> TAKE j \in 1..Len(code) - 1
    <3> QED BY <2>3
  <2>5. Leaning(t, code, 5)
    <3>1. DOMAIN t = 0..5 /\ Len(code) >= 1 /\ 2 * Len(code) - 1 <= 5
      BY <1>1, <2>2
    <3> QED BY <2>2, <2>4, <3>1 DEF Leaning
  <2>6. 2 * (Len(code) - 1) + BitOf(code[Len(code)]) = 0
    BY <2>2 DEF BitOf
  <2> DEFINE l == 0
  <2>7. l = 0
    OBVIOUS
  <2> HIDE DEF l
  <2>8. t[0] = -l /\ l \in Nat /\ SubMvRefMode[l + 1] = mode
    <3>1. l + 1 = 1 /\ -l = 0 /\ l \in Nat
      <4>1. l \in Int /\ l <= 0 /\ l >= 0 /\ l + 1 = 1 /\ l \in Nat
        BY <2>7
      <4>2. -l = 0
        BY ONLY <4>1, NegatedZero
      <4> QED BY <4>1, <4>2
    <3>2. t[0] = 0 /\ SubMvRefMode[1] = mode
      BY <1>1, <1>3, <1>5
    <3> QED BY <3>1, <3>2
  <2>9. ModeRungs("sub_mv", mode, SUBMV_REF_TREE, 5, SubMvRefMode, l)
    BY <1>2, <2>1, <2>5, <2>6, <2>8, SubMvReader DEF ModeRungs, t
  <2> QED BY <2>9
<1>6. CASE mode = "Above4x4"
  <2> DEFINE code == <<TRUE, FALSE>>
  <2>1. Spelled["sub_mv"][mode] = code
    <3>1. write_submv_ref["Above4x4"] = code
      BY Zenon DEF write_submv_ref
    <3> HIDE DEF code
    <3> QED BY <1>6, <3>1, SubMvReader
  <2>2. code \in Seq(BOOLEAN) /\ Len(code) = 2 /\ code[1] /\ ~code[2]
    OBVIOUS
  <2> HIDE DEF code
  <2>3. \A j \in 1..Len(code) - 1 : j = 1
    BY <2>2
  <2>4. \A j \in 1..Len(code) - 1 : code[j] /\ t[2 * j - 1] = 2 * j
    <3> TAKE j \in 1..Len(code) - 1
    <3>1. CASE j = 1
      <4>1. 2 * j - 1 = 1 /\ 2 * j = 2
        BY <3>1
      <4> QED BY <1>1, <2>2, <3>1, <4>1
    <3> QED BY <2>3, <3>1
  <2>5. Leaning(t, code, 5)
    <3>1. DOMAIN t = 0..5 /\ Len(code) >= 1 /\ 2 * Len(code) - 1 <= 5
      BY <1>1, <2>2
    <3> QED BY <2>2, <2>4, <3>1 DEF Leaning
  <2>6. 2 * (Len(code) - 1) + BitOf(code[Len(code)]) = 2
    BY <2>2 DEF BitOf
  <2> DEFINE l == 1
  <2>7. l = 1
    OBVIOUS
  <2> HIDE DEF l
  <2>8. t[2] = -l /\ l \in Nat /\ SubMvRefMode[l + 1] = mode
    <3>1. l + 1 = 2 /\ -l = -1 /\ l \in Nat
      BY <2>7
    <3>2. t[2] = -1 /\ SubMvRefMode[2] = mode
      BY <1>1, <1>3, <1>6
    <3> QED BY <3>1, <3>2
  <2>9. ModeRungs("sub_mv", mode, SUBMV_REF_TREE, 5, SubMvRefMode, l)
    BY <1>2, <2>1, <2>5, <2>6, <2>8, SubMvReader DEF ModeRungs, t
  <2> QED BY <2>9
<1>7. CASE mode = "Zero4x4"
  <2> DEFINE code == <<TRUE, TRUE, FALSE>>
  <2>1. Spelled["sub_mv"][mode] = code
    <3>1. write_submv_ref["Zero4x4"] = code
      BY Zenon DEF write_submv_ref
    <3> HIDE DEF code
    <3> QED BY <1>7, <3>1, SubMvReader
  <2>2. code \in Seq(BOOLEAN) /\ Len(code) = 3 /\ code[1] /\ code[2] /\ ~code[3]
    OBVIOUS
  <2> HIDE DEF code
  <2>3. \A j \in 1..Len(code) - 1 : j = 1 \/ j = 2
    BY <2>2
  <2>4. \A j \in 1..Len(code) - 1 : code[j] /\ t[2 * j - 1] = 2 * j
    <3> TAKE j \in 1..Len(code) - 1
    <3>1. CASE j = 1
      <4>1. 2 * j - 1 = 1 /\ 2 * j = 2
        BY <3>1
      <4> QED BY <1>1, <2>2, <3>1, <4>1
    <3>2. CASE j = 2
      <4>1. 2 * j - 1 = 3 /\ 2 * j = 4
        BY <3>2
      <4> QED BY <1>1, <2>2, <3>2, <4>1
    <3> QED BY <2>3, <3>1, <3>2
  <2>5. Leaning(t, code, 5)
    <3>1. DOMAIN t = 0..5 /\ Len(code) >= 1 /\ 2 * Len(code) - 1 <= 5
      BY <1>1, <2>2
    <3> QED BY <2>2, <2>4, <3>1 DEF Leaning
  <2>6. 2 * (Len(code) - 1) + BitOf(code[Len(code)]) = 4
    BY <2>2 DEF BitOf
  <2> DEFINE l == 2
  <2>7. l = 2
    OBVIOUS
  <2> HIDE DEF l
  <2>8. t[4] = -l /\ l \in Nat /\ SubMvRefMode[l + 1] = mode
    <3>1. l + 1 = 3 /\ -l = -2 /\ l \in Nat
      BY <2>7
    <3>2. t[4] = -2 /\ SubMvRefMode[3] = mode
      BY <1>1, <1>3, <1>7
    <3> QED BY <3>1, <3>2
  <2>9. ModeRungs("sub_mv", mode, SUBMV_REF_TREE, 5, SubMvRefMode, l)
    BY <1>2, <2>1, <2>5, <2>6, <2>8, SubMvReader DEF ModeRungs, t
  <2> QED BY <2>9
<1>8. CASE mode = "New4x4"
  <2> DEFINE code == <<TRUE, TRUE, TRUE>>
  <2>1. Spelled["sub_mv"][mode] = code
    <3>1. write_submv_ref["New4x4"] = code
      BY Zenon DEF write_submv_ref
    <3> HIDE DEF code
    <3> QED BY <1>8, <3>1, SubMvReader
  <2>2. code \in Seq(BOOLEAN) /\ Len(code) = 3 /\ code[1] /\ code[2] /\ code[3]
    OBVIOUS
  <2> HIDE DEF code
  <2>3. \A j \in 1..Len(code) - 1 : j = 1 \/ j = 2
    BY <2>2
  <2>4. \A j \in 1..Len(code) - 1 : code[j] /\ t[2 * j - 1] = 2 * j
    <3> TAKE j \in 1..Len(code) - 1
    <3>1. CASE j = 1
      <4>1. 2 * j - 1 = 1 /\ 2 * j = 2
        BY <3>1
      <4> QED BY <1>1, <2>2, <3>1, <4>1
    <3>2. CASE j = 2
      <4>1. 2 * j - 1 = 3 /\ 2 * j = 4
        BY <3>2
      <4> QED BY <1>1, <2>2, <3>2, <4>1
    <3> QED BY <2>3, <3>1, <3>2
  <2>5. Leaning(t, code, 5)
    <3>1. DOMAIN t = 0..5 /\ Len(code) >= 1 /\ 2 * Len(code) - 1 <= 5
      BY <1>1, <2>2
    <3> QED BY <2>2, <2>4, <3>1 DEF Leaning
  <2>6. 2 * (Len(code) - 1) + BitOf(code[Len(code)]) = 5
    BY <2>2 DEF BitOf
  <2> DEFINE l == 3
  <2>7. l = 3
    OBVIOUS
  <2> HIDE DEF l
  <2>8. t[5] = -l /\ l \in Nat /\ SubMvRefMode[l + 1] = mode
    <3>1. l + 1 = 4 /\ -l = -3 /\ l \in Nat
      BY <2>7
    <3>2. t[5] = -3 /\ SubMvRefMode[4] = mode
      BY <1>1, <1>3, <1>8
    <3> QED BY <3>1, <3>2
  <2>9. ModeRungs("sub_mv", mode, SUBMV_REF_TREE, 5, SubMvRefMode, l)
    BY <1>2, <2>1, <2>5, <2>6, <2>8, SubMvReader DEF ModeRungs, t
  <2> QED BY <2>9
<1> QED BY <1>4, <1>5, <1>6, <1>7, <1>8

-----------------------------------------------------------------------------
(* The two modes that are read by nested conditions.                         *)
LEMMA OneBoolean ==
  ASSUME NEW r \in Seq(Booleans), Len(r) = 1
  PROVE  r = <<r[1]>> /\ r[1] \in Booleans
OBVIOUS

LEMMA TwoBooleans ==
  ASSUME NEW r \in Seq(Booleans), Len(r) = 2
  PROVE  r = <<r[1]>> \o <<r[2]>> /\ r[1] \in Booleans /\ r[2] \in Booleans
<1> DEFINE x == r[1]  y == r[2]
<1>1. x \in Booleans /\ y \in Booleans
  OBVIOUS
<1>2. r[1] = x /\ r[2] = y
  OBVIOUS
<1> HIDE DEF x, y
<1> DEFINE a == <<x>>  b == <<y>>  c == a \o b
<1>3. a \in Seq(Booleans) /\ b \in Seq(Booleans) /\ Len(a) = 1 /\ Len(b) = 1 /\ a[1] = x /\ b[1] = y
  BY <1>1
<1> HIDE DEF a, b
<1>4. c \in Seq(Booleans) /\ Len(c) = 2 /\ \A i \in 1..2 : c[i] = IF i <= 1 THEN a[i] ELSE b[i - 1]
  BY <1>3, ConcatProperties
<1> HIDE DEF c
<1>5. c[1] = x /\ c[2] = y
  BY <1>3, <1>4
<1>6. \A i \in 1..2 : r[i] = c[i]
  BY <1>2, <1>5
<1>7. r = c
  BY <1>4, <1>6, SeqEqual
<1> QED BY <1>1, <1>7 DEF a, b, c, x, y

LEMMA NestedLeads ==
  ASSUME NEW layout, layout.kind = "mode", layout.of \in Nested, NEW node, NEW a, NEW n, NEW left, NEW c, NEW i, NEW ctx3,
         NEW value, NEW x \in Booleans, x.prob = layout.probs[node]
  PROVE  LET w == Walk("nested", node, a, n, left, c, i, ctx3, value)
         IN Leads(layout, w, <<x>>, IF layout.of = "ref" THEN select_ref_frame(w, x.bit)
                                   ELSE read_segment_id(w, BitOf(x.bit)))
<1> DEFINE w == Walk("nested", node, a, n, left, c, i, ctx3, value)
<1>1. w.at = "nested" /\ w.node = node
  BY WalkFields
<1> HIDE DEF w
<1>2. w.at # "done" /\ NextProb(layout, w) = x.prob
  BY <1>1 DEF NextProb
<1>3. Took(layout, w, x.bit) = IF layout.of = "ref" THEN select_ref_frame(w, x.bit) ELSE read_segment_id(w, BitOf(x.bit))
  BY <1>1 DEF Took, BitOf
<1>4. Leads(layout, w, <<x>>, Took(layout, w, x.bit))
  BY <1>2, LeadsOne
<1> QED BY <1>3, <1>4 DEF w

LEMMA RefFrameTaken ==
  ASSUME NEW a, NEW n, NEW left, NEW c, NEW i, NEW ctx3, NEW value, NEW b
  PROVE  LET W(node) == Walk("nested", node, a, n, left, c, i, ctx3, value)
         IN /\ select_ref_frame(W(0), b) = IF b THEN W(1) ELSE Done(W(0), "Last")
            /\ select_ref_frame(W(1), b) = Done(W(1), IF b THEN "AltRef" ELSE "Golden")
<1> DEFINE W(node) == Walk("nested", node, a, n, left, c, i, ctx3, value)
<1>1. W(0).node = 0 /\ W(1).node = 1 /\ 1 # 0
  BY WalkFields
<1>2. NodeSet(W(0), 1) = W(1)
  BY WalkUpdates
<1> HIDE DEF W
<1>3. /\ select_ref_frame(W(0), b) = IF b THEN W(1) ELSE Done(W(0), "Last")
      /\ select_ref_frame(W(1), b) = Done(W(1), IF b THEN "AltRef" ELSE "Golden")
  BY <1>1, <1>2 DEF select_ref_frame, NodeSet
<1> QED BY <1>3 DEF W

LEMMA SegmentTaken ==
  ASSUME NEW a, NEW n, NEW left, NEW c, NEW i, NEW ctx3, NEW value, NEW b \in 0..1, NEW f \in 0..1
  PROVE  LET W(node) == Walk("nested", node, a, n, left, c, i, ctx3, value)
         IN read_segment_id(W(0), f) = W(1 + f) /\ read_segment_id(W(1 + f), b) = Done(W(1 + f), 2 * f + b)
<1> DEFINE W(node) == Walk("nested", node, a, n, left, c, i, ctx3, value)
<1>1. W(0).node = 0 /\ W(1 + f).node = 1 + f
  BY WalkFields
<1>2. NodeSet(W(0), 1 + f) = W(1 + f)
  BY WalkUpdates
<1> HIDE DEF W
<1>3. read_segment_id(W(0), f) = W(1 + f)
  BY <1>1, <1>2 DEF read_segment_id, NodeSet
<1>4. read_segment_id(W(1 + f), b) = Done(W(1 + f), IF 1 + f = 1 THEN b ELSE 2 + b)
  <2>1. 1 + f # 0
    OBVIOUS
  <2> QED BY <1>1, <2>1 DEF read_segment_id
<1>5. (IF 1 + f = 1 THEN b ELSE 2 + b) = 2 * f + b
  OBVIOUS
<1> QED BY <1>3, <1>4, <1>5 DEF W

LEMMA NestedStart ==
  ASSUME NEW e, e.shape.kind = "mode", Fits(e), e.shape.of \in Nested, NEW m \in Nat, Nodes[e.shape.of] = m
  PROVE  /\ StartParse(e.shape) = Walk("nested", 0, 0, 0, <<>>, NoCoeffs, 0, 0, <<>>)
         /\ ModeProbs(e.shape) = e.shape.probs /\ \A i \in 0..m - 1 : e.shape.probs[i] \in 0..255
<1>1. StartParse(e.shape) = Walk("nested", 0, 0, 0, <<>>, NoCoeffs, 0, 0, <<>>)
  BY StartIs
<1>2. ModeProbs(e.shape) = e.shape.probs
  BY ModeFits DEF ModeProbs
<1> QED BY <1>1, <1>2, ModeFits, Zenon

LEMMA RefFrameEnds ==
  ASSUME NEW e, e.shape.kind = "mode", Fits(e), e.shape.of = "ref"
  PROVE  Ends(e.shape, StartParse(e.shape), WrittenBools(e), e.value)
<1> DEFINE s == e.shape  p == StartParse(s)  v == e.value  code == RefFrameCode[v]
           W(node) == Walk("nested", node, 0, 0, <<>>, NoCoeffs, 0, 0, <<>>)
           r == [k \in DOMAIN code |-> Bool(s.probs[k - 1], code[k])]
<1>1. s.kind = "mode" /\ s.of = "ref" /\ s.of \in Nested /\ Nodes[s.of] = 2
  BY DEF Nested, Nodes
<1>2. p = W(0) /\ ModeProbs(s) = s.probs /\ s.probs[0] \in 0..255 /\ s.probs[1] \in 0..255
  <2>1. 2 \in Nat /\ 0 \in 0..2 - 1 /\ 1 \in 0..2 - 1
    OBVIOUS
  <2>2. p = W(0) /\ ModeProbs(s) = s.probs /\ \A i \in 0..2 - 1 : s.probs[i] \in 0..255
    BY <1>1, <2>1, NestedStart, Zenon
  <2> QED BY <2>1, <2>2
<1>3. v = "Last" \/ v = "Golden" \/ v = "AltRef"
  <2>1. PICK k \in 1..Len(RefFrame) : RefFrame[k] = v
    BY <1>1, ModeFits DEF Modes
  <2> QED BY <2>1 DEF RefFrame
<1>4. WrittenBools(e) = r
  <2>1. WrittenBools(e) = WrittenMode(s, v)
    BY ModeFits
  <2>2. "ref" \in DOMAIN Spelled /\ Spelled["ref"] = RefFrameCode
    BY SpelledOnly DEF Spelled
  <2>3. WrittenMode(s, v) = r
    BY <1>1, <1>2, <2>2 DEF WrittenMode
  <2> QED BY <2>1, <2>3
<1> HIDE DEF s, p, v
<1>5. ASSUME NEW x \in Booleans, x.prob = s.probs[0]
      PROVE  Leads(s, p, <<x>>, IF x.bit THEN W(1) ELSE Done(W(0), "Last"))
  BY <1>1, <1>2, <1>5, NestedLeads, RefFrameTaken
<1>6. ASSUME NEW x \in Booleans, x.prob = s.probs[1]
      PROVE  Leads(s, W(1), <<x>>, Done(W(1), IF x.bit THEN "AltRef" ELSE "Golden"))
  BY <1>1, <1>2, <1>6, NestedLeads, RefFrameTaken
<1>7. CASE v = "Last"
  <2> DEFINE x == Bool(s.probs[0], FALSE)
  <2>1. code = <<FALSE>>
    BY <1>7, Zenon DEF RefFrameCode
  <2>2. r = <<x>>
    <3>1. \A k \in 1..1 : k - 1 = 0 /\ k = 1
      OBVIOUS
    <3> HIDE DEF code
    <3>2. DOMAIN code = 1..1 /\ code[1] = FALSE
      BY <2>1
    <3>3. r = [k \in 1..1 |-> x]
      BY <3>1, <3>2, Zenon
    <3> HIDE DEF r, x
    <3> QED BY <3>3
  <2>3. x \in Booleans /\ x.prob = s.probs[0] /\ x.bit = FALSE
    BY <1>2, BooleanIs, Zenon
  <2> HIDE DEF x, r
  <2>4. Leads(s, p, <<x>>, Done(W(0), v))
    BY <1>5, <1>7, <2>3
  <2>5. Ends(s, p, <<x>>, v)
    BY <2>4, EndsDone
  <2> QED BY <1>4, <2>2, <2>5 DEF s, p, v
<1>8. CASE v # "Last"
  <2>1. code \in Seq(BOOLEAN) /\ Len(code) = 2 /\ code[1] /\ (code[2] <=> v = "AltRef")
    <3>1. CASE v = "Golden"
      <4>1. code = <<TRUE, FALSE>>
        BY <3>1, Zenon DEF RefFrameCode
      <4> HIDE DEF code
      <4> QED BY <3>1, <4>1
    <3>2. CASE v = "AltRef"
      <4>1. code = <<TRUE, TRUE>>
        BY <3>2, Zenon DEF RefFrameCode
      <4> HIDE DEF code
      <4> QED BY <3>2, <4>1
    <3> QED BY <1>3, <1>8, <3>1, <3>2
  <2> DEFINE x == r[1]  y == r[2]
  <2> HIDE DEF code
  <2>2. r = [k \in 1..2 |-> Bool(s.probs[k - 1], code[k])]
    <3>1. DOMAIN code = 1..2
      BY <2>1
    <3> QED BY <3>1
  <2> HIDE DEF r
  <2>3. x = Bool(s.probs[0], code[1]) /\ y = Bool(s.probs[1], code[2]) /\ code[1] \in BOOLEAN /\ code[2] \in BOOLEAN
    <3>1. 1 \in 1..2 /\ 2 \in 1..2 /\ 1 - 1 = 0 /\ 2 - 1 = 1
      OBVIOUS
    <3>2. code[1] \in BOOLEAN /\ code[2] \in BOOLEAN
      BY <2>1
    <3> QED BY <2>2, <3>1, <3>2
  <2>4. x \in Booleans /\ x.prob = s.probs[0] /\ x.bit = code[1] /\ y \in Booleans /\ y.prob = s.probs[1] /\ y.bit = code[2]
    <3> DEFINE b == code[1]  d == code[2]
    <3> HIDE DEF x, y, b, d
    <3>1. x = Bool(s.probs[0], b) /\ b \in BOOLEAN /\ y = Bool(s.probs[1], d) /\ d \in BOOLEAN
      BY <2>3 DEF b, d
    <3>2. x \in Booleans /\ x.prob = s.probs[0] /\ x.bit = b
      BY <1>2, <3>1, BooleanIs, Zenon
    <3>3. y \in Booleans /\ y.prob = s.probs[1] /\ y.bit = d
      BY <1>2, <3>1, BooleanIs, Zenon
    <3> QED BY <3>2, <3>3 DEF b, d
  <2>5. r \in Seq(Booleans) /\ Len(r) = 2
    <3>1. r \in [1..2 -> Booleans]
      <4>1. \A k \in 1..2 : k = 1 \/ k = 2
        OBVIOUS
      <4>2. \A k \in 1..2 : r[k] \in Booleans
        BY <2>4, <4>1
      <4>3. r = [k \in 1..2 |-> r[k]]
        BY <2>2
      <4> QED BY <4>2, <4>3
    <3> DEFINE n == 2
    <3>2. n \in Nat /\ r \in [1..n -> Booleans]
      BY <3>1
    <3>3. n = 2
      OBVIOUS
    <3> HIDE DEF n, x, y
    <3>4. r \in Seq(Booleans) /\ Len(r) = n
      BY <3>2, LenProperties
    <3> QED BY <3>3, <3>4
  <2>6. r = <<x>> \o <<y>>
    BY <2>5, TwoBooleans
  <2> HIDE DEF x, y
  <2>7. Leads(s, p, <<x>>, W(1))
    BY <1>5, <2>1, <2>4, Zenon
  <2>8. Leads(s, W(1), <<y>>, Done(W(1), v))
    BY <1>3, <1>6, <1>8, <2>1, <2>4
  <2>9. Ends(s, W(1), <<y>>, v)
    BY <2>8, EndsDone
  <2>10. Ends(s, p, <<x>> \o <<y>>, v)
    BY <2>7, <2>9, EndsAfter
  <2> QED BY <1>4, <2>6, <2>10, Zenon DEF s, p, v
<1> QED BY <1>7, <1>8

LEMMA SegmentEnds ==
  ASSUME NEW e, e.shape.kind = "mode", Fits(e), e.shape.of = "if_segment"
  PROVE  Ends(e.shape, StartParse(e.shape), WrittenBools(e), e.value)
<1> DEFINE s == e.shape  p == StartParse(s)  v == e.value  t == MB_SEGMENT_TREE  k == CHOOSE k \in DOMAIN t : t[k] = -v
           W(node) == Walk("nested", node, 0, 0, <<>>, NoCoeffs, 0, 0, <<>>)
           P == EntriesTo(0, t, k)  r == [i \in DOMAIN P |-> Bool(s.probs[P[i] \div 2], P[i] % 2 = 1)]
<1>1. s.kind = "mode" /\ s.of = "if_segment" /\ s.of \in Nested /\ Nodes[s.of] = 3
  BY DEF Nested, Nodes
<1>2. p = W(0) /\ ModeProbs(s) = s.probs /\ \A i \in 0..2 : s.probs[i] \in 0..255
  <2>1. 3 \in Nat /\ 3 - 1 = 2
    OBVIOUS
  <2> QED BY <1>1, <2>1, NestedStart, Zenon
<1>3. Writer("if_segment").modes = SegmentId /\ Writer("if_segment").tree = t /\ Modes("if_segment") = SegmentId
  BY DEF Writer, Modes, read_kf_segment_id, Reader
<1>4. Len(SegmentId) = 4 /\ \A l \in 0..3 : SegmentId[l + 1] = l
  BY DEF SegmentId
<1>5. v \in 0..3 /\ Leaf("if_segment", v) = v
  <2>1. PICK m \in 1..4 : SegmentId[m] = v
    BY <1>1, <1>3, <1>4, ModeFits
  <2> DEFINE l == m - 1
  <2>2. l \in 0..3 /\ l + 1 = m
    OBVIOUS
  <2> HIDE DEF l, v
  <2>3. v = l
    BY <1>4, <2>1, <2>2
  <2>4. Leaf("if_segment", v) = CHOOSE x \in 0..4 - 1 : SegmentId[x + 1] = v
    BY <1>3, <1>4, Zenon DEF Leaf
  <2>5. 0..4 - 1 = 0..3
    OBVIOUS
  <2>6. Leaf("if_segment", v) \in 0..3 /\ SegmentId[Leaf("if_segment", v) + 1] = v
    BY <1>4, <2>2, <2>3, <2>4, <2>5, Zenon
  <2> QED BY <1>4, <2>2, <2>3, <2>6
<1>6. WrittenBools(e) = r
  <2>1. WrittenBools(e) = WrittenMode(s, v)
    BY ModeFits
  <2>2. "if_segment" \notin DOMAIN Spelled
    BY SpelledOnly
  <2>3. WrittenMode(s, v) = Treed(t, s.probs, v)
    BY <1>1, <1>2, <1>3, <1>5, <2>2 DEF WrittenMode
  <2> QED BY <2>1, <2>3 DEF Treed, TreedFrom
<1> HIDE DEF s, p, v
<1>7. k \in 0..5 /\ t[k] = -v
  <2>1. \E q \in DOMAIN t : t[q] = -v
    BY <1>5, SegmentTreeRooted DEF LeafOf
  <2>2. DOMAIN t = 0..5
    BY SegmentTreeIs
  <2> HIDE DEF t
  <2> QED BY <2>1, <2>2
<1> HIDE DEF k
<1>8. TreePath(t, 0, P, k) /\ Along(P, s.probs, r)
  <2>1. Probable(s.probs, 5) /\ 5 \in Nat /\ DOMAIN t = 0..5
    <3>1. 5 \div 2 = 2
      OBVIOUS
    <3>2. DOMAIN t = 0..5
      BY SegmentTreeIs
    <3> QED BY <1>2, <3>1, <3>2 DEF Probable
  <2>2. TreePath(t, 0, P, k)
    <3> HIDE DEF t
    <3>1. Rooted(t, 0, 5)
      BY SegmentTreeRooted DEF t
    <3> QED BY <1>7, <3>1, EntriesPath
  <2> DEFINE q == s.probs  z == [i \in DOMAIN P |-> Bool(q[P[i] \div 2], P[i] % 2 = 1)]
  <2>3. r = z
    OBVIOUS
  <2>4. Probable(q, 5)
    BY <2>1
  <2> DEFINE M == 5  n == 0
  <2> HIDE DEF P, t, r, q
  <2>5. Along(P, q, z)
    <3>1. M \in Nat /\ DOMAIN t = 0..M /\ Probable(q, M) /\ TreePath(t, n, P, k)
      BY <2>1, <2>2, <2>4
    <3> HIDE DEF M, n
    <3> QED BY <3>1, PathAlong
  <2>6. Along(P, s.probs, r)
    <3> HIDE DEF z
    <3> QED BY <2>3, <2>5 DEF q
  <2> QED BY <2>2, <2>6
<1> DEFINE f == P[1]  L == Len(P)
<1>9. t[0] = 2 /\ t[1] = 4 /\ t[2] = 0 /\ t[3] = -1 /\ t[4] = -2 /\ t[5] = -3 /\ DOMAIN t = 0..5
  BY SegmentTreeIs
<1> HIDE DEF t, P, r
<1>10. /\ P \in Seq(0..5) /\ L \in Nat /\ L >= 1 /\ f \in 0..1 /\ P[L] = k
       /\ \A i \in 1..L - 1 : t[P[i]] = P[i + 1] - (P[i + 1] % 2) /\ t[P[i]] > 0
  BY <1>8, <1>9, LenProperties DEF TreePath
<1> HIDE DEF f
<1>11. \A i \in 1..L : P[i] \in 0..5
  BY <1>10, ElementOfSeq
<1> HIDE DEF L
<1>12. k \in 2..5 /\ k = 2 + v
  BY <1>5, <1>7, <1>9
<1>13. L = 2
  <2>1. L # 1
    BY <1>10, <1>12 DEF f
  <2>2. 1 \in 1..L - 1 /\ 2 \in 1..L /\ 1 + 1 = 2
    BY <1>10, <2>1
  <2>3. P[2] >= 2
    <3>1. t[f] = P[2] - (P[2] % 2)
      BY <1>10, <2>2 DEF f
    <3>2. t[f] >= 2
      BY <1>9, <1>10
    <3>3. P[2] \in 0..5
      BY <1>11, <2>2
    <3> QED BY <3>1, <3>2, <3>3
  <2>4. ~(t[P[2]] > 0)
    <3>1. P[2] \in 2..5
      BY <1>11, <2>2, <2>3
    <3> QED BY <1>9, <3>1
  <2> QED BY <1>10, <2>1, <2>2, <2>4
<1>14. P[2] = k /\ k - (k % 2) = t[f]
  <2>1. 1 \in 1..L - 1 /\ 1 + 1 = 2
    BY <1>13
  <2>2. t[P[1]] = P[1 + 1] - (P[1 + 1] % 2)
    BY <1>10, <2>1
  <2> QED BY <1>10, <1>13, <2>1, <2>2 DEF f
<1> DEFINE b == k % 2
<1>15. b \in 0..1 /\ v = 2 * f + b /\ k \div 2 = 1 + f /\ f \div 2 = 0 /\ f % 2 = f
  <2>1. k \in Int /\ f \in Int /\ v = k - 2 /\ b \in 0..1
    BY <1>5, <1>10, <1>12
  <2>2. CASE f = 0
    <3>1. k - b = 2
      BY <1>9, <1>14, <2>2
    <3>2. k = 2 \/ k = 3
      BY <2>1, <3>1
    <3>3. k = 2 + b
      BY <2>1, <3>1
    <3> QED BY <2>1, <2>2, <3>2, <3>3
  <2>3. CASE f = 1
    <3>1. k - b = 4
      BY <1>9, <1>14, <2>3
    <3>2. k = 4 \/ k = 5
      BY <2>1, <3>1
    <3>3. k = 4 + b
      BY <2>1, <3>1
    <3> QED BY <2>1, <2>3, <3>2, <3>3
  <2> QED BY <1>10, <2>2, <2>3
<1> DEFINE x == r[1]  y == r[2]
<1>16. /\ r \in Seq(Booleans) /\ Len(r) = 2 /\ x.prob = s.probs[0] /\ (x.bit <=> f = 1)
       /\ y.prob = s.probs[1 + f] /\ (y.bit <=> b = 1)
  <2>1. /\ r \in Seq(Booleans) /\ Len(r) = 2
        /\ \A i \in 1..2 : r[i].prob = s.probs[P[i] \div 2] /\ (r[i].bit <=> P[i] % 2 = 1)
    BY <1>8, <1>13 DEF Along, L
  <2>2. P[1] = f
    BY DEF f
  <2> QED BY <1>14, <1>15, <2>1, <2>2
<1>17. r = <<x>> \o <<y>> /\ x \in Booleans /\ y \in Booleans
  BY <1>16, TwoBooleans
<1> HIDE DEF x, y, b
<1>18. BitOf(x.bit) = f /\ BitOf(y.bit) = b
  BY <1>10, <1>15, <1>16 DEF BitOf
<1>19. Leads(s, p, <<x>>, W(1 + f))
  <2>1. Leads(s, W(0), <<x>>, read_segment_id(W(0), BitOf(x.bit)))
    <3>1. s.of # "ref"
      BY <1>1
    <3> QED BY <1>1, <1>16, <1>17, <3>1, NestedLeads, Zenon
  <2> QED BY <1>2, <1>10, <1>15, <1>18, <2>1, SegmentTaken
<1>20. Leads(s, W(1 + f), <<y>>, Done(W(1 + f), v))
  <2>1. Leads(s, W(1 + f), <<y>>, read_segment_id(W(1 + f), BitOf(y.bit)))
    <3>1. s.of # "ref"
      BY <1>1
    <3> QED BY <1>1, <1>16, <1>17, <3>1, NestedLeads
  <2> QED BY <1>10, <1>15, <1>18, <2>1, SegmentTaken
<1>21. Ends(s, W(1 + f), <<y>>, v)
  BY <1>20, EndsDone
<1>22. Ends(s, p, <<x>> \o <<y>>, v)
  <2> HIDE DEF W
  <2> QED BY <1>19, <1>21, EndsAfter
<1> QED BY <1>6, <1>17, <1>22, Zenon DEF s, p, v

LEMMA ModeEnds ==
  ASSUME NEW e, e.shape.kind = "mode", Fits(e)
  PROVE  Ends(e.shape, StartParse(e.shape), WrittenBools(e), e.value)
<1> DEFINE of == e.shape.of
<1>1. of \in {"kf_y", "kf_uv", "kf_b", "if_y", "if_uv", "if_b", "segment", "if_segment", "inter", "ref", "partition", "sub_mv"}
  BY ModeFits DEF Nodes
<1>2. \E k \in 1..Len(Modes(of)) : Modes(of)[k] = e.value
  BY ModeFits
<1>3. CASE of = "kf_y"
  BY <1>3, KeyYModes, TreedModeEnds
<1>4. CASE of = "kf_uv"
  BY <1>4, KeyUvModes, TreedModeEnds
<1>5. CASE of = "kf_b"
  BY <1>5, KeyBModes, TreedModeEnds
<1>6. CASE of = "if_y"
  BY <1>6, InterYModes, TreedModeEnds
<1>7. CASE of = "if_uv"
  BY <1>7, InterUvModes, TreedModeEnds
<1>8. CASE of = "if_b"
  BY <1>8, InterBModes, TreedModeEnds
<1>9. CASE of = "segment"
  BY <1>9, SegmentModes, TreedModeEnds
<1>10. CASE of = "inter"
  BY <1>2, <1>10, InterModes, SpelledModeEnds, Zenon
<1>11. CASE of = "partition"
  BY <1>2, <1>11, PartitionModes, SpelledModeEnds, Zenon
<1>12. CASE of = "sub_mv"
  BY <1>2, <1>12, SubMvModes, SpelledModeEnds, Zenon
<1>13. CASE of = "ref"
  BY <1>13, RefFrameEnds
<1>14. CASE of = "if_segment"
  BY <1>14, SegmentEnds
<1> QED BY <1>1, <1>3, <1>4, <1>5, <1>6, <1>7, <1>8, <1>9, <1>10, <1>11, <1>12, <1>13, <1>14

-----------------------------------------------------------------------------
(* Motion vector components.                                                 *)
LEMMA ContextProbable ==
  ASSUME NEW k \in 0..18
  PROVE  MvContext[k] \in 0..255
BY ContentAssumption, Zenon DEF Prob

LEMMA BitSplit ==
  ASSUME NEW v \in Nat, NEW m \in 0..16
  PROVE  v \div Power(m) = 2 * (v \div Power(m + 1)) + BitOf(Bit(v, m)) /\ v \div Power(m) \in Nat
<1> DEFINE q == Power(m)
<1>1. m \in 0..23 /\ m \in Nat
  OBVIOUS
<1>2. 2^m = q /\ q \in Nat \ {0} /\ Power(m + 1) = 2 * q
  BY <1>1, PowersOfTwo, PowerFacts, Zenon
<1>3. v \div q = 2 * (v \div (2 * q)) + ((v \div q) % 2)
  <2> HIDE DEF q
  <2> QED BY <1>2, HalfOf, Zenon
<1>4. (v \div q) % 2 = BitOf(Bit(v, m)) /\ v \div q \in Nat
  <2>1. Bit(v, m) <=> (v \div q) % 2 = 1
    BY <1>2, BitIs
  <2> HIDE DEF q
  <2>2. v \div q \in Nat
    BY <1>2
  <2>3. (v \div q) % 2 = 0 \/ (v \div q) % 2 = 1
    BY <2>2
  <2> QED BY <2>1, <2>2, <2>3 DEF BitOf
<1> QED BY <1>2, <1>3, <1>4

LEMMA BitOfIs ==
  ASSUME NEW b
  PROVE  BitOf(b) \in 0..1
BY DEF BitOf

(* A magnitude of at most ten bits is the sum of them.                       *)
LEMMA TenBits ==
  ASSUME NEW a \in 0..1023
  PROVE  LET B(k) == BitOf(Bit(a, k))
         IN a = B(0) + 2 * B(1) + 4 * B(2) + 8 * B(3) + 16 * B(4) + 32 * B(5) + 64 * B(6) + 128 * B(7) + 256 * B(8) + 512 * B(9)
<1> DEFINE B(k) == BitOf(Bit(a, k))  d(k) == a \div Power(k)
<1>1. d(0) = 2 * d(1) + B(0) /\ d(0) \in Nat
  <2>1. 0 \in 0..16 /\ 0 + 1 = 1 /\ a \in Nat
    OBVIOUS
  <2> QED BY <2>1, BitSplit
<1>2. d(1) = 2 * d(2) + B(1) /\ d(1) \in Nat
  <2>1. 1 \in 0..16 /\ 1 + 1 = 2 /\ a \in Nat
    OBVIOUS
  <2> QED BY <2>1, BitSplit
<1>3. d(2) = 2 * d(3) + B(2) /\ d(2) \in Nat
  <2>1. 2 \in 0..16 /\ 2 + 1 = 3 /\ a \in Nat
    OBVIOUS
  <2> QED BY <2>1, BitSplit
<1>4. d(3) = 2 * d(4) + B(3) /\ d(3) \in Nat
  <2>1. 3 \in 0..16 /\ 3 + 1 = 4 /\ a \in Nat
    OBVIOUS
  <2> QED BY <2>1, BitSplit
<1>5. d(4) = 2 * d(5) + B(4) /\ d(4) \in Nat
  <2>1. 4 \in 0..16 /\ 4 + 1 = 5 /\ a \in Nat
    OBVIOUS
  <2> QED BY <2>1, BitSplit
<1>6. d(5) = 2 * d(6) + B(5) /\ d(5) \in Nat
  <2>1. 5 \in 0..16 /\ 5 + 1 = 6 /\ a \in Nat
    OBVIOUS
  <2> QED BY <2>1, BitSplit
<1>7. d(6) = 2 * d(7) + B(6) /\ d(6) \in Nat
  <2>1. 6 \in 0..16 /\ 6 + 1 = 7 /\ a \in Nat
    OBVIOUS
  <2> QED BY <2>1, BitSplit
<1>8. d(7) = 2 * d(8) + B(7) /\ d(7) \in Nat
  <2>1. 7 \in 0..16 /\ 7 + 1 = 8 /\ a \in Nat
    OBVIOUS
  <2> QED BY <2>1, BitSplit
<1>9. d(8) = 2 * d(9) + B(8) /\ d(8) \in Nat
  <2>1. 8 \in 0..16 /\ 8 + 1 = 9 /\ a \in Nat
    OBVIOUS
  <2> QED BY <2>1, BitSplit
<1>10. d(9) = 2 * d(10) + B(9) /\ d(9) \in Nat
  <2>1. 9 \in 0..16 /\ 9 + 1 = 10 /\ a \in Nat
    OBVIOUS
  <2> QED BY <2>1, BitSplit
<1>11. d(0) = a /\ d(10) = 0
  <2>1. Power(0) = 1 /\ Power(9 + 1) = 2 * Power(9) /\ Power(9) = 512
    <3>1. 9 \in Nat
      OBVIOUS
    <3> QED BY <3>1, PowerFacts, SmallPowers
  <2>2. Power(10) = 1024
    <3>1. 9 + 1 = 10
      OBVIOUS
    <3> QED BY <2>1, <3>1
  <2>3. a \div 1 = a /\ a \div 1024 = 0
    OBVIOUS
  <2> QED BY <2>1, <2>2, <2>3
<1>12. B(0) \in Int /\ B(1) \in Int /\ B(2) \in Int /\ B(3) \in Int /\ B(4) \in Int /\ B(5) \in Int /\ B(6) \in Int /\ B(7) \in Int /\ B(8) \in Int /\ B(9) \in Int
  BY BitOfIs
<1> HIDE DEF B, d
<1>13. d(9) = B(9)
  BY <1>10, <1>12, <1>11
<1>14. d(8) = B(8) + 2 * B(9)
  BY <1>9, <1>12, <1>13
<1>15. d(7) = B(7) + 2 * B(8) + 4 * B(9)
  BY <1>8, <1>12, <1>14
<1>16. d(6) = B(6) + 2 * B(7) + 4 * B(8) + 8 * B(9)
  BY <1>7, <1>12, <1>15
<1>17. d(5) = B(5) + 2 * B(6) + 4 * B(7) + 8 * B(8) + 16 * B(9)
  BY <1>6, <1>12, <1>16
<1>18. d(4) = B(4) + 2 * B(5) + 4 * B(6) + 8 * B(7) + 16 * B(8) + 32 * B(9)
  BY <1>5, <1>12, <1>17
<1>19. d(3) = B(3) + 2 * B(4) + 4 * B(5) + 8 * B(6) + 16 * B(7) + 32 * B(8) + 64 * B(9)
  BY <1>4, <1>12, <1>18
<1>20. d(2) = B(2) + 2 * B(3) + 4 * B(4) + 8 * B(5) + 16 * B(6) + 32 * B(7) + 64 * B(8) + 128 * B(9)
  BY <1>3, <1>12, <1>19
<1>21. d(1) = B(1) + 2 * B(2) + 4 * B(3) + 8 * B(4) + 16 * B(5) + 32 * B(6) + 64 * B(7) + 128 * B(8) + 256 * B(9)
  BY <1>2, <1>12, <1>20
<1>22. d(0) = B(0) + 2 * B(1) + 4 * B(2) + 8 * B(3) + 16 * B(4) + 32 * B(5) + 64 * B(6) + 128 * B(7) + 256 * B(8) + 512 * B(9)
  BY <1>1, <1>12, <1>21
<1> QED BY <1>11, <1>22 DEF B

LEMMA LongBoolIs ==
  ASSUME NEW a, NEW k \in 0..9
  PROVE  LongBool(a, k) \in Booleans /\ LongBool(a, k).prob = MvContext[9 + k] /\ LongBool(a, k).bit = Bit(a, k)
<1> DEFINE q == MvContext[9 + k]  b == Bit(a, k)
<1>1. q \in 0..255 /\ b \in BOOLEAN
  <2>1. 9 + k \in 0..18
    OBVIOUS
  <2> QED BY <2>1, ContextProbable, BitIs
<1> HIDE DEF q, b
<1>2. Bool(q, b) \in Booleans /\ Bool(q, b).prob = q /\ Bool(q, b).bit = b
  BY <1>1, BooleanIs, Zenon
<1> QED BY <1>2 DEF LongBool, q, b

LEMMA LongBitsAre ==
  /\ LongBits[1] = 0 /\ LongBits[2] = 1 /\ LongBits[3] = 2 /\ LongBits[4] = 9 /\ LongBits[5] = 8 /\ LongBits[6] = 7 /\ LongBits[7] = 6 /\ LongBits[8] = 5 /\ LongBits[9] = 4
  /\ \A k \in 1..9 : LongBits[k] \in 0..9
<1>1. LongBits[1] = 0 /\ LongBits[2] = 1 /\ LongBits[3] = 2 /\ LongBits[4] = 9 /\ LongBits[5] = 8 /\ LongBits[6] = 7 /\ LongBits[7] = 6 /\ LongBits[8] = 5 /\ LongBits[9] = 4
  BY DEF LongBits
<1>2. \A k \in 1..9 : k = 1 \/ k = 2 \/ k = 3 \/ k = 4 \/ k = 5 \/ k = 6 \/ k = 7 \/ k = 8 \/ k = 9
  OBVIOUS
<1>3. \A k \in 1..9 : LongBits[k] \in 0..9
  BY <1>1, <1>2
<1> QED BY <1>1, <1>3

LEMMA TakesLongBit ==
  ASSUME NEW layout, NEW node, NEW a, NEW n \in 0..8, NEW left, NEW c, NEW i, NEW ctx3, NEW value, NEW bit
  PROVE  LET W(x, m) == Walk("long", node, x, m, left, c, i, ctx3, value)
             s == a + BitOf(bit) * 2^LongBits[n + 1]
         IN /\ W(a, n).at # "done" /\ NextProb(layout, W(a, n)) = MvContext[9 + LongBits[n + 1]]
            /\ Took(layout, W(a, n), bit) =
                 IF n < 8 THEN W(s, n + 1)
                 ELSE IF s < 16 THEN TookMagnitude(layout, W(a, n), s + 8)
                 ELSE Walk("bit3", node, s, n, left, c, i, ctx3, value)
<1> DEFINE w == Walk("long", node, a, n, left, c, i, ctx3, value)  s == a + BitOf(bit) * 2^LongBits[n + 1]
<1>1. w.at = "long" /\ w.a = a /\ w.n = n
  BY WalkFields
<1>2. NASet(w, n + 1, s) = Walk("long", node, s, n + 1, left, c, i, ctx3, value)
  BY WalkAtA
<1>3. AtASet(w, "bit3", s) = Walk("bit3", node, s, n, left, c, i, ctx3, value)
  BY WalkAtA
<1> HIDE DEF w
<1>4. NextProb(layout, w) = MvContext[9 + LongBits[n + 1]] /\ w.at # "done"
  BY <1>1 DEF NextProb
<1>5. Took(layout, w, bit) = TookLongBit(layout, w, BitOf(bit))
  BY <1>1 DEF Took, BitOf
<1>6. TookLongBit(layout, w, BitOf(bit)) =
        IF n < 8 THEN NASet(w, n + 1, s) ELSE IF s < 16 THEN TookMagnitude(layout, w, s + 8) ELSE AtASet(w, "bit3", s)
  BY <1>1 DEF TookLongBit, NASet, AtASet
<1> QED BY <1>2, <1>3, <1>4, <1>5, <1>6 DEF w

Sums(S, a) == S[0] = 0 /\ \A k \in 1..9 : S[k] = S[k - 1] + BitOf(Bit(a, LongBits[k])) * 2^LongBits[k]

LEMMA LongLeads ==
  ASSUME NEW layout, NEW a, NEW S, Sums(S, a), NEW node, NEW left, NEW c, NEW i, NEW ctx3, NEW value
  PROVE  LET W(x, m) == Walk("long", node, x, m, left, c, i, ctx3, value)
         IN Leads(layout, W(0, 0), [k \in 1..9 |-> LongBool(a, LongBits[k])],
                  IF S[9] < 16 THEN TookMagnitude(layout, W(S[8], 8), S[9] + 8)
                  ELSE Walk("bit3", node, S[9], 8, left, c, i, ctx3, value))
<1> DEFINE W(x, m) == Walk("long", node, x, m, left, c, i, ctx3, value)
           z == IF S[9] < 16 THEN TookMagnitude(layout, W(S[8], 8), S[9] + 8)
                ELSE Walk("bit3", node, S[9], 8, left, c, i, ctx3, value)
           r == [k \in 1..9 |-> LongBool(a, LongBits[k])]  n == 9
           f == [k \in 0..n |-> IF k = n THEN z ELSE W(S[k], k)]
<1>1. r \in [1..n -> Booleans] /\ n \in Nat
  BY LongBitsAre, LongBoolIs
<1>2. n = 9
  OBVIOUS
<1>3. \A k \in 1..n : r[k].prob = MvContext[9 + LongBits[k]] /\ r[k].bit = Bit(a, LongBits[k])
  <2> TAKE k \in 1..n
  <2>1. LongBits[k] \in 0..9 /\ r[k] = LongBool(a, LongBits[k])
    BY LongBitsAre
  <2> QED BY <2>1, LongBoolIs
<1> HIDE DEF r, n
<1>4. r \in Seq(Booleans) /\ Len(r) = n
  BY <1>1, LenProperties
<1>5. f[0] = W(0, 0) /\ f[n] = z
  <2>1. 0 \in 0..n /\ n \in 0..n /\ 0 # n /\ S[0] = 0
    BY <1>2 DEF Sums
  <2> HIDE DEF z, W
  <2>2. f[0] = W(S[0], 0) /\ f[n] = z
    BY <2>1
  <2> QED BY <2>1, <2>2
<1>6. ASSUME NEW j \in 1..n
      PROVE  f[j - 1].at # "done" /\ NextProb(layout, f[j - 1]) = r[j].prob /\ f[j] = Took(layout, f[j - 1], r[j].bit)
  <2> DEFINE m == j - 1  b == r[j].bit  s == S[m] + BitOf(b) * 2^LongBits[m + 1]
  <2>1. m \in 0..8 /\ m + 1 = j /\ j \in 0..n /\ m \in 0..n /\ m # n
    BY <1>2
  <2>2. f[m] = W(S[m], m) /\ f[j] = IF j = n THEN z ELSE W(S[j], j)
    <3> HIDE DEF z, W, m
    <3> QED BY <2>1
  <2>3. S[j] = s
    <3>1. S[j] = S[j - 1] + BitOf(Bit(a, LongBits[j])) * 2^LongBits[j]
      BY <1>2 DEF Sums
    <3>2. b = Bit(a, LongBits[j])
      BY <1>3
    <3> HIDE DEF b
    <3> QED BY <2>1, <3>1, <3>2
  <2> HIDE DEF f, m, b, s
  <2>4. /\ W(S[m], m).at # "done" /\ NextProb(layout, W(S[m], m)) = MvContext[9 + LongBits[m + 1]]
        /\ Took(layout, W(S[m], m), b) =
             IF m < 8 THEN W(s, m + 1)
             ELSE IF s < 16 THEN TookMagnitude(layout, W(S[m], m), s + 8)
             ELSE Walk("bit3", node, s, m, left, c, i, ctx3, value)
    <3> DEFINE y == S[m]
    <3>1. s = y + BitOf(b) * 2^LongBits[m + 1]
      BY DEF s
    <3> HIDE DEF y
    <3> QED BY <2>1, <3>1, TakesLongBit DEF y
  <2>5. r[j].prob = MvContext[9 + LongBits[m + 1]]
    BY <1>3, <2>1
  <2>6. f[j] = Took(layout, W(S[m], m), b)
    <3>1. CASE j = n
      <4>1. m = 8 /\ j = 9 /\ ~(m < 8)
        BY <1>2, <2>1, <3>1
      <4> HIDE DEF W
      <4> QED BY <2>2, <2>3, <2>4, <3>1, <4>1 DEF z
    <3>2. CASE j # n
      <4>1. m < 8
        BY <1>2, <2>1, <3>2
      <4> HIDE DEF W
      <4> QED BY <2>1, <2>2, <2>3, <2>4, <3>2, <4>1
    <3> QED BY <3>1, <3>2
  <2> HIDE DEF W
  <2>7. f[j - 1] = W(S[m], m)
    BY <2>2 DEF m
  <2> QED BY <2>4, <2>5, <2>6, <2>7 DEF b
<1>7. Walking(layout, f, r)
  <2> HIDE DEF f
  <2> QED BY <1>4, <1>6 DEF Walking
<1>8. Leads(layout, W(0, 0), r, z)
  <2> HIDE DEF f, z, W
  <2> QED BY <1>4, <1>5, <1>7 DEF Leads
<1> QED BY <1>8 DEF z, r

LEMMA SumsExist ==
  ASSUME NEW a \in 0..1023
  PROVE  \E S : Sums(S, a) /\ S[9] \in Nat /\ a = S[9] + 8 * BitOf(Bit(a, 3)) /\ (a > 7 => (S[9] < 16 <=> a <= 15))
                /\ (a > 7 /\ a <= 15 => a = S[9] + 8)
<1> DEFINE B(k) == BitOf(Bit(a, k))
<1> DEFINE s1 == 0 + B(0) * 1
<1> DEFINE s2 == s1 + B(1) * 2
<1> DEFINE s3 == s2 + B(2) * 4
<1> DEFINE s4 == s3 + B(9) * 512
<1> DEFINE s5 == s4 + B(8) * 256
<1> DEFINE s6 == s5 + B(7) * 128
<1> DEFINE s7 == s6 + B(6) * 64
<1> DEFINE s8 == s7 + B(5) * 32
<1> DEFINE s9 == s8 + B(4) * 16
<1> DEFINE S == [k \in 0..9 |-> IF k = 0 THEN 0 ELSE IF k = 1 THEN s1 ELSE IF k = 2 THEN s2 ELSE IF k = 3 THEN s3 ELSE IF k = 4 THEN s4 ELSE IF k = 5 THEN s5 ELSE IF k = 6 THEN s6 ELSE IF k = 7 THEN s7 ELSE IF k = 8 THEN s8 ELSE s9]
<1>1. 2^0 = 1 /\ 2^1 = 2 /\ 2^2 = 4 /\ 2^3 = 8 /\ 2^4 = 16 /\ 2^5 = 32 /\ 2^6 = 64 /\ 2^7 = 128 /\ 2^8 = 256 /\ 2^9 = 512
  <2>1. Power(0) = 1 /\ Power(1) = 2 /\ Power(2) = 4 /\ Power(3) = 8 /\ Power(4) = 16 /\ Power(5) = 32 /\ Power(6) = 64 /\ Power(7) = 128 /\ Power(8) = 256 /\ Power(9) = 512
    BY SmallPowers
  <2>2. \A n \in 0..23 : 2^n = Power(n)
    BY PowersOfTwo, Zenon
  <2>3. 0 \in 0..23 /\ 1 \in 0..23 /\ 2 \in 0..23 /\ 3 \in 0..23 /\ 4 \in 0..23 /\ 5 \in 0..23 /\ 6 \in 0..23 /\ 7 \in 0..23 /\ 8 \in 0..23 /\ 9 \in 0..23
    OBVIOUS
  <2> QED BY <2>1, <2>2, <2>3
<1>2. B(0) \in 0..1 /\ B(1) \in 0..1 /\ B(2) \in 0..1 /\ B(3) \in 0..1 /\ B(4) \in 0..1 /\ B(5) \in 0..1 /\ B(6) \in 0..1 /\ B(7) \in 0..1 /\ B(8) \in 0..1 /\ B(9) \in 0..1
  BY BitOfIs
<1> HIDE DEF B
<1>3. s1 = 0 + B(0) * 1 /\ s2 = s1 + B(1) * 2 /\ s3 = s2 + B(2) * 4 /\ s4 = s3 + B(9) * 512 /\ s5 = s4 + B(8) * 256 /\ s6 = s5 + B(7) * 128 /\ s7 = s6 + B(6) * 64 /\ s8 = s7 + B(5) * 32 /\ s9 = s8 + B(4) * 16
  OBVIOUS
<1> HIDE DEF s1, s2, s3, s4, s5, s6, s7, s8, s9
<1>4. S[0] = 0 /\ S[1] = s1 /\ S[2] = s2 /\ S[3] = s3 /\ S[4] = s4 /\ S[5] = s5 /\ S[6] = s6 /\ S[7] = s7 /\ S[8] = s8 /\ S[9] = s9
  OBVIOUS
<1> HIDE DEF S
<1>5. ASSUME NEW k, k = 1 PROVE S[k] = S[k - 1] + BitOf(Bit(a, LongBits[k])) * 2^LongBits[k]
  <2>1. k - 1 = 0 /\ LongBits[k] = 0
    BY <1>5, LongBitsAre
  <2> QED BY <1>1, <1>3, <1>4, <1>5, <2>1 DEF B
<1>6. ASSUME NEW k, k = 2 PROVE S[k] = S[k - 1] + BitOf(Bit(a, LongBits[k])) * 2^LongBits[k]
  <2>1. k - 1 = 1 /\ LongBits[k] = 1
    BY <1>6, LongBitsAre
  <2> QED BY <1>1, <1>3, <1>4, <1>6, <2>1 DEF B
<1>7. ASSUME NEW k, k = 3 PROVE S[k] = S[k - 1] + BitOf(Bit(a, LongBits[k])) * 2^LongBits[k]
  <2>1. k - 1 = 2 /\ LongBits[k] = 2
    BY <1>7, LongBitsAre
  <2> QED BY <1>1, <1>3, <1>4, <1>7, <2>1 DEF B
<1>8. ASSUME NEW k, k = 4 PROVE S[k] = S[k - 1] + BitOf(Bit(a, LongBits[k])) * 2^LongBits[k]
  <2>1. k - 1 = 3 /\ LongBits[k] = 9
    BY <1>8, LongBitsAre
  <2> QED BY <1>1, <1>3, <1>4, <1>8, <2>1 DEF B
<1>9. ASSUME NEW k, k = 5 PROVE S[k] = S[k - 1] + BitOf(Bit(a, LongBits[k])) * 2^LongBits[k]
  <2>1. k - 1 = 4 /\ LongBits[k] = 8
    BY <1>9, LongBitsAre
  <2> QED BY <1>1, <1>3, <1>4, <1>9, <2>1 DEF B
<1>10. ASSUME NEW k, k = 6 PROVE S[k] = S[k - 1] + BitOf(Bit(a, LongBits[k])) * 2^LongBits[k]
  <2>1. k - 1 = 5 /\ LongBits[k] = 7
    BY <1>10, LongBitsAre
  <2> QED BY <1>1, <1>3, <1>4, <1>10, <2>1 DEF B
<1>11. ASSUME NEW k, k = 7 PROVE S[k] = S[k - 1] + BitOf(Bit(a, LongBits[k])) * 2^LongBits[k]
  <2>1. k - 1 = 6 /\ LongBits[k] = 6
    BY <1>11, LongBitsAre
  <2> QED BY <1>1, <1>3, <1>4, <1>11, <2>1 DEF B
<1>12. ASSUME NEW k, k = 8 PROVE S[k] = S[k - 1] + BitOf(Bit(a, LongBits[k])) * 2^LongBits[k]
  <2>1. k - 1 = 7 /\ LongBits[k] = 5
    BY <1>12, LongBitsAre
  <2> QED BY <1>1, <1>3, <1>4, <1>12, <2>1 DEF B
<1>13. ASSUME NEW k, k = 9 PROVE S[k] = S[k - 1] + BitOf(Bit(a, LongBits[k])) * 2^LongBits[k]
  <2>1. k - 1 = 8 /\ LongBits[k] = 4
    BY <1>13, LongBitsAre
  <2> QED BY <1>1, <1>3, <1>4, <1>13, <2>1 DEF B
<1>14. Sums(S, a)
  <2>1. \A k \in 1..9 : k = 1 \/ k = 2 \/ k = 3 \/ k = 4 \/ k = 5 \/ k = 6 \/ k = 7 \/ k = 8 \/ k = 9
    OBVIOUS
  <2> QED BY <1>4, <1>5, <1>6, <1>7, <1>8, <1>9, <1>10, <1>11, <1>12, <1>13, <2>1 DEF Sums
<1>15. a = B(0) + 2 * B(1) + 4 * B(2) + 8 * B(3) + 16 * B(4) + 32 * B(5) + 64 * B(6) + 128 * B(7) + 256 * B(8) + 512 * B(9)
  BY TenBits DEF B
<1>16. s9 \in Nat /\ s9 = B(0) + 2 * B(1) + 4 * B(2) + 16 * B(4) + 32 * B(5) + 64 * B(6) + 128 * B(7) + 256 * B(8) + 512 * B(9)
  BY <1>2, <1>3
<1>17. a = s9 + 8 * B(3)
  BY <1>2, <1>15, <1>16
<1>18. s9 < 16 => s9 <= 7
  BY <1>2, <1>16
<1>19. (a > 7 => (s9 < 16 <=> a <= 15)) /\ (a > 7 /\ a <= 15 => a = s9 + 8)
  <2>1. B(3) = 0 \/ B(3) = 1
    BY <1>2
  <2> QED BY <1>16, <1>17, <1>18, <2>1
<1> QED BY <1>4, <1>14, <1>16, <1>17, <1>19 DEF B

-----------------------------------------------------------------------------
(* From a magnitude to the component.                                        *)
SignOf(v) == IF Abs(v) # 0 THEN <<Bool(MvContext[1], v < 0)>> ELSE <<>>

LEMMA MagnitudeEnds ==
  ASSUME NEW layout, layout.kind = "mv", NEW v \in Int, NEW at, NEW node, NEW a, NEW n, NEW left, NEW c, NEW i, NEW ctx3, NEW value
  PROVE  Ends(layout, TookMagnitude(layout, Walk(at, node, a, n, left, c, i, ctx3, value), Abs(v)), SignOf(v), v)
<1> DEFINE w == Walk(at, node, a, n, left, c, i, ctx3, value)  m == Abs(v)
           y == Walk("sign", node, m, n, left, c, i, ctx3, value)  b == v < 0  x == Bool(MvContext[1], b)
<1>1. TookMagnitude(layout, w, m) = IF m = 0 THEN Done(w, 0) ELSE AtASet(w, "sign", m)
  <2> HIDE DEF w
  <2> QED BY DEF TookMagnitude, AtASet
<1>2. AtASet(w, "sign", m) = y
  BY WalkAtA
<1>3. m \in Nat /\ (IF v < 0 THEN -m ELSE m) = v
  BY SignedMagnitude
<1>4. CASE m = 0
  <2>1. v = 0
    BY <1>4 DEF Abs
  <2>2. TookMagnitude(layout, w, m) = Done(w, v)
    <3> HIDE DEF w, m
    <3> QED BY <1>1, <1>4, <2>1
  <2>3. Leads(layout, Done(w, v), <<>>, Done(w, v))
    BY LeadsNone
  <2>4. Ends(layout, Done(w, v), <<>>, v)
    BY <2>3, EndsDone
  <2>5. SignOf(v) = <<>>
    BY <1>4 DEF SignOf
  <2> QED BY <2>2, <2>4, <2>5
<1>5. CASE m # 0
  <2>1. b \in BOOLEAN /\ MvContext[1] \in 0..255
    <3>1. 1 \in 0..18
      OBVIOUS
    <3> QED BY <3>1, ContextProbable
  <2>2. y.at = "sign" /\ y.a = m
    BY WalkFields
  <2>3. TookMagnitude(layout, w, m) = y
    <3> HIDE DEF w, m, y
    <3> QED BY <1>1, <1>2, <1>5
  <2> HIDE DEF y, m
  <2>4. TookSign(layout, y, b) = Done(y, v)
    BY <1>3, <2>2 DEF TookSign
  <2> HIDE DEF b
  <2>5. x \in Booleans /\ x.prob = MvContext[1] /\ x.bit = b
    BY <2>1, BooleanIs, Zenon
  <2>6. y.at # "done" /\ NextProb(layout, y) = MvContext[1] /\ Took(layout, y, b) = TookSign(layout, y, b)
    BY <2>2 DEF NextProb, Took
  <2>7. Leads(layout, y, <<x>>, Done(y, v))
    <3> HIDE DEF x
    <3> QED BY <2>4, <2>5, <2>6, LeadsOne
  <2>8. Ends(layout, y, <<x>>, v)
    BY <2>7, EndsDone DEF y
  <2>9. SignOf(v) = <<x>>
    BY <1>5 DEF SignOf, b, m
  <2> QED BY <2>3, <2>8, <2>9 DEF m
<1> QED BY <1>4, <1>5

LEMMA FormLeads ==
  ASSUME NEW layout, NEW bit \in BOOLEAN, NEW node, NEW a, NEW n, NEW left, NEW c, NEW i, NEW ctx3, NEW value
  PROVE  Leads(layout, Walk("form", node, a, n, left, c, i, ctx3, value), <<Bool(MvContext[0], bit)>>,
               Walk(IF bit THEN "long" ELSE "tree", node, a, n, left, c, i, ctx3, value))
<1> DEFINE w == Walk("form", node, a, n, left, c, i, ctx3, value)  x == Bool(MvContext[0], bit)
           to == IF bit THEN "long" ELSE "tree"
<1>1. w.at = "form"
  BY WalkFields
<1>2. AtSet(w, to) = Walk(to, node, a, n, left, c, i, ctx3, value)
  BY WalkUpdates
<1>3. MvContext[0] \in 0..255
  <2>1. 0 \in 0..18
    OBVIOUS
  <2> QED BY <2>1, ContextProbable
<1>4. x \in Booleans /\ x.prob = MvContext[0] /\ x.bit = bit
  BY <1>3, BooleanIs, Zenon
<1> HIDE DEF w, x
<1>5. w.at # "done" /\ NextProb(layout, w) = MvContext[0] /\ Took(layout, w, bit) = AtSet(w, to)
  BY <1>1 DEF NextProb, Took, AtSet
<1>6. Leads(layout, w, <<x>>, AtSet(w, to))
  BY <1>4, <1>5, LeadsOne
<1> QED BY <1>2, <1>6 DEF w, x

LEMMA ShortLeads ==
  ASSUME NEW layout, layout.kind = "mv", NEW a \in 0..7
  PROVE  \E x : Leads(layout, Walk("tree", 0, 0, 0, <<>>, NoCoeffs, 0, 0, <<>>), Treed(SmallMvTree, ShortProbs, a),
                      TookMagnitude(layout, Walk("tree", x, 0, 0, <<>>, NoCoeffs, 0, 0, <<>>), a))
<1>1. Treelike(layout) /\ TreeOf(layout) = SmallMvTree /\ TreeProbs(layout, 0, 0) = ShortProbs
  BY DEF Treelike, TreeOf, TreeProbs
<1>2. Rooted(SmallMvTree, 0, 13) /\ LeafOf(SmallMvTree, 0, a)
  BY ShortTreeRooted
<1>3. Probable(ShortProbs, 13)
  <2>1. 13 \div 2 = 6
    OBVIOUS
  <2>2. \A k \in 0..6 : ShortProbs[k] = MvContext[2 + k] /\ 2 + k \in 0..18
    BY DEF ShortProbs
  <2>3. \A k \in 0..6 : ShortProbs[k] \in 0..255
    BY <2>2, ContextProbable
  <2> QED BY <2>1, <2>3 DEF Probable
<1> DEFINE W(x) == Walk("tree", x, 0, 0, <<>>, NoCoeffs, 0, 0, <<>>)
<1>4. PICK x : Leads(layout, W(0), TreedFrom(0, SmallMvTree, ShortProbs, a), Leafed(layout, W(x), -a))
  BY <1>1, <1>2, <1>3, TreeLeads
<1> HIDE DEF W
<1>5. Leafed(layout, W(x), -a) = TookMagnitude(layout, W(x), a)
  <2>1. -(-a) = a
    OBVIOUS
  <2> QED BY <2>1 DEF Leafed
<1>6. Treed(SmallMvTree, ShortProbs, a) = TreedFrom(0, SmallMvTree, ShortProbs, a)
  BY DEF Treed
<1> QED BY <1>4, <1>5, <1>6 DEF W

LEMMA BitThreeLeads ==
  ASSUME NEW layout, NEW a, NEW s, NEW node, NEW n, NEW left, NEW c, NEW i, NEW ctx3, NEW value
  PROVE  LET w == Walk("bit3", node, s, n, left, c, i, ctx3, value)
         IN Leads(layout, w, <<LongBool(a, 3)>>, TookMagnitude(layout, w, s + 8 * BitOf(Bit(a, 3))))
<1> DEFINE w == Walk("bit3", node, s, n, left, c, i, ctx3, value)  x == LongBool(a, 3)
<1>1. w.at = "bit3" /\ w.a = s
  BY WalkFields
<1>2. x \in Booleans /\ x.prob = MvContext[9 + 3] /\ x.bit = Bit(a, 3)
  <2>1. 3 \in 0..9
    OBVIOUS
  <2> QED BY <2>1, LongBoolIs
<1> HIDE DEF w, x
<1>3. w.at # "done" /\ NextProb(layout, w) = MvContext[9 + 3]
  BY <1>1 DEF NextProb
<1>4. Took(layout, w, x.bit) = TookMagnitude(layout, w, s + 8 * BitOf(Bit(a, 3)))
  BY <1>1, <1>2 DEF Took, BitOf
<1>5. Leads(layout, w, <<x>>, Took(layout, w, x.bit))
  BY <1>2, <1>3, LeadsOne
<1> QED BY <1>4, <1>5 DEF w, x

LEMMA MvEnds ==
  ASSUME NEW e, e.shape.kind = "mv", Fits(e)
  PROVE  Ends(e.shape, StartParse(e.shape), WrittenBools(e), e.value)
<1> DEFINE s == e.shape  p == StartParse(s)  v == e.value  a == Abs(v)
           W(at) == Walk(at, 0, 0, 0, <<>>, NoCoeffs, 0, 0, <<>>)
           M(q) == TookMagnitude(s, q, a)
           long == [i \in 1..9 |-> LongBool(a, LongBits[i])]  last == IF a > 15 THEN <<LongBool(a, 3)>> ELSE <<>>
           first(b) == <<Bool(MvContext[0], b)>>  short == Treed(SmallMvTree, ShortProbs, a)
<1>1. v \in -1023..1023 /\ s.kind = "mv"
  BY DEF Fits
<1>2. WrittenBools(e) = (IF a > 7 THEN (first(TRUE) \o long) \o last ELSE first(FALSE) \o short) \o SignOf(v)
  BY Zenon DEF WrittenBools, MvComponent, SignOf
<1>3. p = W("form")
  BY <1>1, StartIs
<1>4. v \in Int /\ a \in 0..1023
  <2> HIDE DEF v
  <2> QED BY <1>1 DEF Abs
<1> HIDE DEF s, p, v, a
<1>5. \A at, node, x, n : Ends(s, M(Walk(at, node, x, n, <<>>, NoCoeffs, 0, 0, <<>>)), SignOf(v), v)
  BY <1>1, <1>4, MagnitudeEnds DEF a
<1>6. ASSUME NEW b \in BOOLEAN PROVE Leads(s, p, first(b), W(IF b THEN "long" ELSE "tree"))
  BY <1>3, FormLeads, Zenon
<1>7. CASE a > 7
  <2> DEFINE t == TRUE
  <2>1. t \in BOOLEAN /\ (IF t THEN "long" ELSE "tree") = "long" /\ first(t) = first(TRUE)
    OBVIOUS
  <2>2. Leads(s, p, first(TRUE), W("long"))
    <3> HIDE DEF t, W, first
    <3> QED BY <1>6, <2>1, Zenon
  <2>3. PICK S : /\ Sums(S, a) /\ S[9] \in Nat /\ a = S[9] + 8 * BitOf(Bit(a, 3)) /\ (a > 7 => (S[9] < 16 <=> a <= 15))
                 /\ (a > 7 /\ a <= 15 => a = S[9] + 8)
    BY <1>4, SumsExist, Zenon
  <2> DEFINE y == Walk("long", 0, S[8], 8, <<>>, NoCoeffs, 0, 0, <<>>)
             u == Walk("bit3", 0, S[9], 8, <<>>, NoCoeffs, 0, 0, <<>>)
  <2>4. Leads(s, W("long"), long, IF S[9] < 16 THEN TookMagnitude(s, y, S[9] + 8) ELSE u)
    BY <2>3, LongLeads, Zenon
  <2> HIDE DEF long
  <2>5. PICK q : Leads(s, W("long"), long \o last, q) /\ Ends(s, q, SignOf(v), v)
    <3>1. CASE a <= 15
      <4>1. S[9] < 16 /\ S[9] + 8 = a /\ ~(a > 15)
        BY <1>4, <1>7, <2>3, <3>1
      <4>2. Leads(s, W("long"), long, M(y))
        BY <2>4, <4>1
      <4>3. Leads(s, M(y), <<>>, M(y))
        BY LeadsNone
      <4>4. Ends(s, M(y), SignOf(v), v)
        BY <1>5
      <4> HIDE DEF M, W
      <4>5. Leads(s, W("long"), long \o <<>>, M(y))
        BY <4>2, <4>3, LeadsJoin
      <4>6. last = <<>>
        BY <4>1
      <4> QED BY <4>4, <4>5, <4>6, Zenon
    <3>2. CASE ~(a <= 15)
      <4>1. ~(S[9] < 16) /\ a > 15 /\ S[9] + 8 * BitOf(Bit(a, 3)) = a
        BY <1>4, <1>7, <2>3, <3>2
      <4>2. Leads(s, W("long"), long, u)
        BY <2>4, <4>1
      <4>3. Leads(s, u, <<LongBool(a, 3)>>, M(u))
        BY <4>1, BitThreeLeads
      <4>4. Ends(s, M(u), SignOf(v), v)
        BY <1>5
      <4> HIDE DEF M, W, u
      <4>5. Leads(s, W("long"), long \o <<LongBool(a, 3)>>, M(u))
        BY <4>2, <4>3, LeadsJoin
      <4>6. last = <<LongBool(a, 3)>>
        BY <4>1
      <4> QED BY <4>4, <4>5, <4>6
    <3> QED BY <3>1, <3>2
  <2> DEFINE f == first(TRUE)
  <2>6. f \in Seq(Booleans) /\ long \in Seq(Booleans) /\ last \in Seq(Booleans)
    <3>1. f \in Seq(Booleans)
      BY <2>2, Zenon DEF Leads
    <3>2. long \in Seq(Booleans)
      BY <2>4 DEF Leads
    <3>3. last \in Seq(Booleans)
      <4>1. 3 \in 0..9
        OBVIOUS
      <4>2. LongBool(a, 3) \in Booleans
        BY <4>1, LongBoolIs
      <4> QED BY <4>2
    <3> QED BY <3>1, <3>2, <3>3, Zenon
  <2> HIDE DEF f, last, W
  <2>7. Leads(s, p, f \o (long \o last), q)
    BY <2>2, <2>5, LeadsJoin DEF f
  <2>8. f \o (long \o last) = (f \o long) \o last
    BY <2>6, ConcatAssociative
  <2>9. Ends(s, p, ((f \o long) \o last) \o SignOf(v), v)
    BY <2>5, <2>7, <2>8, EndsAfter
  <2>10. WrittenBools(e) = ((f \o long) \o last) \o SignOf(v)
    BY <1>2, <1>7 DEF f
  <2> QED BY <2>9, <2>10 DEF s, p, v
<1>8. CASE ~(a > 7)
  <2> DEFINE t == FALSE
  <2>1. t \in BOOLEAN /\ (IF t THEN "long" ELSE "tree") = "tree" /\ first(t) = first(FALSE)
    OBVIOUS
  <2>2. Leads(s, p, first(FALSE), W("tree"))
    <3> HIDE DEF t, W, first
    <3> QED BY <1>6, <2>1, Zenon
  <2>3. a \in 0..7
    BY <1>4, <1>8
  <2>4. PICK x : Leads(s, W("tree"), short, M(Walk("tree", x, 0, 0, <<>>, NoCoeffs, 0, 0, <<>>)))
    BY <1>1, <2>3, ShortLeads
  <2> DEFINE y == Walk("tree", x, 0, 0, <<>>, NoCoeffs, 0, 0, <<>>)  f == first(FALSE)
  <2>5. Ends(s, M(y), SignOf(v), v)
    BY <1>5
  <2>6. Leads(s, W("tree"), short, M(y))
    BY <2>4
  <2> HIDE DEF y, f, short, M, W
  <2>7. Leads(s, p, f \o short, M(y))
    BY <2>2, <2>6, LeadsJoin DEF f
  <2>8. Ends(s, p, (f \o short) \o SignOf(v), v)
    BY <2>5, <2>7, EndsAfter
  <2>9. WrittenBools(e) = (f \o short) \o SignOf(v)
    BY <1>2, <1>8 DEF f
  <2> QED BY <2>8, <2>9 DEF s, p, v
<1> QED BY <1>7, <1>8

-----------------------------------------------------------------------------
(* The extra bits of a large coefficient.                                    *)
LEMMA TakesExtra ==
  ASSUME NEW layout, NEW node, NEW a, NEW n, NEW left, NEW c, NEW i, NEW ctx3, NEW value, NEW bit
  PROVE  LET w == Walk("extra", node, a, n, left, c, i, ctx3, value)
             m == 2 * a + BitOf(bit)
         IN /\ w.at # "done" /\ NextProb(layout, w) = Head(left)
            /\ Took(layout, w, bit) =
                 IF Len(left) = 1 THEN Walk("sign", node, n + m, n, <<>>, c, i, ctx3, value)
                 ELSE Walk("extra", node, m, n, Tail(left), c, i, ctx3, value)
<1> DEFINE w == Walk("extra", node, a, n, left, c, i, ctx3, value)  m == 2 * a + BitOf(bit)
<1>1. w.at = "extra" /\ w.a = a /\ w.n = n /\ w.left = left
  BY WalkFields
<1>2. AtALeftSet(w, "sign", n + m, <<>>) = Walk("sign", node, n + m, n, <<>>, c, i, ctx3, value)
  BY WalkMore
<1>3. ALeftSet(w, m, Tail(left)) = Walk("extra", node, m, n, Tail(left), c, i, ctx3, value)
  BY WalkAtA
<1> HIDE DEF w
<1>4. NextProb(layout, w) = Head(left) /\ w.at # "done"
  BY <1>1 DEF NextProb
<1>5. Took(layout, w, bit) = TookExtra(w, BitOf(bit))
  BY <1>1 DEF Took, BitOf
<1>6. TookExtra(w, BitOf(bit)) = IF Len(left) = 1 THEN AtALeftSet(w, "sign", n + m, <<>>) ELSE ALeftSet(w, m, Tail(left))
  BY <1>1 DEF TookExtra, AtALeftSet, ALeftSet
<1> QED BY <1>2, <1>3, <1>4, <1>5, <1>6 DEF w

LEMMA CategoriesAre ==
  ASSUME NEW t \in 5..10
  PROVE  /\ Len(CatProbs[t]) \in 1..11 /\ CatProbs[t] \in Seq(0..255) /\ CatBase[t] \in Nat
         /\ (t = 5 => Len(CatProbs[t]) = 1 /\ CatBase[t] = 5)
         /\ (t = 6 => Len(CatProbs[t]) = 2 /\ CatBase[t] = 7)
         /\ (t = 7 => Len(CatProbs[t]) = 3 /\ CatBase[t] = 11)
         /\ (t = 8 => Len(CatProbs[t]) = 4 /\ CatBase[t] = 19)
         /\ (t = 9 => Len(CatProbs[t]) = 5 /\ CatBase[t] = 35)
         /\ (t = 10 => Len(CatProbs[t]) = 11 /\ CatBase[t] = 67)
<1>1. t = 5 \/ t = 6 \/ t = 7 \/ t = 8 \/ t = 9 \/ t = 10
  OBVIOUS
<1>2. CASE t = 5
  <2> DEFINE s == <<159>>
  <2>1. t - 4 = 1
    BY <1>2
  <2>2. CatProbs[t] = s /\ CatBase[t] = 5
    BY <2>1 DEF CatProbs, CatBase
  <2>3. s \in Seq(0..255) /\ Len(s) = 1
    OBVIOUS
  <2> HIDE DEF s
  <2> QED BY <1>2, <2>2, <2>3
<1>3. CASE t = 6
  <2> DEFINE s == <<165, 145>>
  <2>1. t - 4 = 2
    BY <1>3
  <2>2. CatProbs[t] = s /\ CatBase[t] = 7
    BY <2>1 DEF CatProbs, CatBase
  <2>3. s \in Seq(0..255) /\ Len(s) = 2
    OBVIOUS
  <2> HIDE DEF s
  <2> QED BY <1>3, <2>2, <2>3
<1>4. CASE t = 7
  <2> DEFINE s == <<173, 148, 140>>
  <2>1. t - 4 = 3
    BY <1>4
  <2>2. CatProbs[t] = s /\ CatBase[t] = 11
    BY <2>1 DEF CatProbs, CatBase
  <2>3. s \in Seq(0..255) /\ Len(s) = 3
    OBVIOUS
  <2> HIDE DEF s
  <2> QED BY <1>4, <2>2, <2>3
<1>5. CASE t = 8
  <2> DEFINE s == <<176, 155, 140, 135>>
  <2>1. t - 4 = 4
    BY <1>5
  <2>2. CatProbs[t] = s /\ CatBase[t] = 19
    BY <2>1 DEF CatProbs, CatBase
  <2>3. s \in Seq(0..255) /\ Len(s) = 4
    OBVIOUS
  <2> HIDE DEF s
  <2> QED BY <1>5, <2>2, <2>3
<1>6. CASE t = 9
  <2> DEFINE s == <<180, 157, 141, 134, 130>>
  <2>1. t - 4 = 5
    BY <1>6
  <2>2. CatProbs[t] = s /\ CatBase[t] = 35
    BY <2>1 DEF CatProbs, CatBase
  <2>3. s \in Seq(0..255) /\ Len(s) = 5
    OBVIOUS
  <2> HIDE DEF s
  <2> QED BY <1>6, <2>2, <2>3
<1>7. CASE t = 10
  <2> DEFINE s == <<254, 254, 243, 230, 196, 177, 153, 140, 133, 130, 129>>
  <2>1. t - 4 = 6
    BY <1>7
  <2>2. CatProbs[t] = s /\ CatBase[t] = 67
    BY <2>1 DEF CatProbs, CatBase
  <2>3. s \in Seq(0..255) /\ Len(s) = 11
    OBVIOUS
  <2> HIDE DEF s
  <2> QED BY <1>7, <2>2, <2>3
<1> QED BY <1>1, <1>2, <1>3, <1>4, <1>5, <1>6, <1>7

(* What a token says of the magnitude.                                       *)
Classified(a, t) ==
  /\ t \in 0..10 /\ (t < 5 => a = t)
  /\ (t >= 5 => a - CatBase[t] \in Nat /\ a - CatBase[t] < Power(Len(CatProbs[t])))

Magnitudes == 0..2114

LEMMA ClassifiedIs ==
  ASSUME NEW a \in Magnitudes
  PROVE  Classified(a, ClassifyCoeffToken(a)) /\ (a = 0 <=> ClassifyCoeffToken(a) = 0)
<1>0. a \in Nat /\ a < 2115
  BY DEF Magnitudes
<1>1. CASE a < 5
  <2>1. ClassifyCoeffToken(a) = a
    BY <1>0, <1>1 DEF ClassifyCoeffToken
  <2> QED BY <1>0, <1>1, <2>1 DEF Classified
<1>2. CASE ~(a < 5)
  <2> DEFINE ok(t) == a >= CatBase[t] /\ (t = 10 \/ a < CatBase[t + 1])  t == CHOOSE t \in 5..10 : ok(t)
  <2>1. ClassifyCoeffToken(a) = t
    BY <1>2 DEF ClassifyCoeffToken
  <2>2. CatBase[5] = 5 /\ CatBase[6] = 7 /\ CatBase[7] = 11 /\ CatBase[8] = 19 /\ CatBase[9] = 35 /\ CatBase[10] = 67
    BY CategoriesAre
  <2>3. \E k \in 5..10 : ok(k)
    <3>1. 5 + 1 = 6 /\ 6 + 1 = 7 /\ 7 + 1 = 8 /\ 8 + 1 = 9 /\ 9 + 1 = 10
      OBVIOUS
    <3>2. ok(5) \/ ok(6) \/ ok(7) \/ ok(8) \/ ok(9) \/ ok(10)
      BY <1>0, <1>2, <2>2, <3>1
    <3> HIDE DEF ok
    <3> QED BY <3>2
  <2>4. t \in 5..10 /\ ok(t)
    <3> HIDE DEF ok
    <3> QED BY <2>3
  <2> HIDE DEF t
  <2>5. t = 5 \/ t = 6 \/ t = 7 \/ t = 8 \/ t = 9 \/ t = 10
    BY <2>4
  <2> DEFINE n == Len(CatProbs[t])  b == CatBase[t]
  <2>6. Power(11) = 2048 /\ Power(1) = 2 /\ Power(2) = 4 /\ Power(3) = 8 /\ Power(4) = 16 /\ Power(5) = 32
    <3>1. 9 \in Nat /\ 9 + 1 = 10 /\ 10 \in Nat /\ 10 + 1 = 11
      OBVIOUS
    <3>2. Power(9) = 512 /\ Power(9 + 1) = 2 * Power(9) /\ Power(10 + 1) = 2 * Power(10)
      BY <3>1, PowerFacts, SmallPowers
    <3> QED BY <3>1, <3>2, SmallPowers
  <2>7. a - b \in Nat /\ a - b < Power(n)
    <3>1. CASE t = 5
      <4>1. b = 5 /\ n = 1
        BY <3>1, CategoriesAre
      <4>2. a >= 5 /\ a < 7
        <5>1. t + 1 = 6
          BY <3>1
        <5> QED BY <1>0, <2>2, <2>4, <3>1, <5>1
      <4> HIDE DEF b, n
      <4> QED BY <1>0, <2>6, <4>1, <4>2
    <3>2. CASE t = 6
      <4>1. b = 7 /\ n = 2
        BY <3>2, CategoriesAre
      <4>2. a >= 7 /\ a < 11
        <5>1. t + 1 = 7
          BY <3>2
        <5> QED BY <1>0, <2>2, <2>4, <3>2, <5>1
      <4> HIDE DEF b, n
      <4> QED BY <1>0, <2>6, <4>1, <4>2
    <3>3. CASE t = 7
      <4>1. b = 11 /\ n = 3
        BY <3>3, CategoriesAre
      <4>2. a >= 11 /\ a < 19
        <5>1. t + 1 = 8
          BY <3>3
        <5> QED BY <1>0, <2>2, <2>4, <3>3, <5>1
      <4> HIDE DEF b, n
      <4> QED BY <1>0, <2>6, <4>1, <4>2
    <3>4. CASE t = 8
      <4>1. b = 19 /\ n = 4
        BY <3>4, CategoriesAre
      <4>2. a >= 19 /\ a < 35
        <5>1. t + 1 = 9
          BY <3>4
        <5> QED BY <1>0, <2>2, <2>4, <3>4, <5>1
      <4> HIDE DEF b, n
      <4> QED BY <1>0, <2>6, <4>1, <4>2
    <3>5. CASE t = 9
      <4>1. b = 35 /\ n = 5
        BY <3>5, CategoriesAre
      <4>2. a >= 35 /\ a < 67
        <5>1. t + 1 = 10
          BY <3>5
        <5> QED BY <1>0, <2>2, <2>4, <3>5, <5>1
      <4> HIDE DEF b, n
      <4> QED BY <1>0, <2>6, <4>1, <4>2
    <3>6. CASE t = 10
      <4>1. b = 67 /\ n = 11
        BY <3>6, CategoriesAre
      <4>2. a >= 67 /\ a < 2115
        <5> QED BY <1>0, <2>2, <2>4, <3>6
      <4> HIDE DEF b, n
      <4> QED BY <1>0, <2>6, <4>1, <4>2
    <3> QED BY <2>5, <3>1, <3>2, <3>3, <3>4, <3>5, <3>6
  <2>8. t \in 0..10 /\ ~(t < 5) /\ t # 0 /\ a # 0
    BY <1>0, <1>2, <2>4
  <2> QED BY <2>1, <2>7, <2>8 DEF Classified
<1> QED BY <1>1, <1>2

LEMMA ExtraBitsAre ==
  ASSUME NEW t \in 5..10, NEW a \in Int
  PROVE  LET n == Len(CatProbs[t])
         IN /\ ExtraBits(a, t) \in Seq(Booleans) /\ Len(ExtraBits(a, t)) = n
            /\ \A k \in 1..n : /\ ExtraBits(a, t)[k].prob = CatProbs[t][k]
                              /\ ExtraBits(a, t)[k].bit = Bit(a - CatBase[t], n - k)
<1> DEFINE n == Len(CatProbs[t])  r == ExtraBits(a, t)  x(k) == Bool(CatProbs[t][k], Bit(a - CatBase[t], n - k))
<1>1. n \in 1..11 /\ CatProbs[t] \in Seq(0..255)
  BY CategoriesAre, Zenon
<1>2. r = [k \in 1..n |-> x(k)]
  BY DEF ExtraBits
<1>3. ASSUME NEW k \in 1..n PROVE x(k) \in Booleans /\ x(k).prob = CatProbs[t][k] /\ x(k).bit = Bit(a - CatBase[t], n - k)
  <2> DEFINE q == CatProbs[t][k]  b == Bit(a - CatBase[t], n - k)
  <2>1. q \in 0..255
    BY <1>1, ElementOfSeq
  <2>2. b \in BOOLEAN
    BY DEF Bit
  <2> HIDE DEF q, b
  <2>3. Bool(q, b) \in Booleans /\ Bool(q, b).prob = q /\ Bool(q, b).bit = b
    BY <2>1, <2>2, BooleanIs, Zenon
  <2> QED BY <2>3 DEF q, b
<1> HIDE DEF r, x, n
<1>4. r \in [1..n -> Booleans] /\ n \in Nat
  BY <1>1, <1>2, <1>3
<1>5. r \in Seq(Booleans) /\ Len(r) = n
  BY <1>4, LenProperties
<1>6. \A k \in 1..n : r[k].prob = CatProbs[t][k] /\ r[k].bit = Bit(a - CatBase[t], n - k)
  BY <1>2, <1>3
<1> QED BY <1>5, <1>6 DEF r, n

(* What is left of the probabilities after k bits.                           *)
LeftOf(s, k) == [j \in 1..Len(s) - k |-> s[k + j]]

LEMMA LeftOfIs ==
  ASSUME NEW U, NEW s \in Seq(U), NEW k \in 0..Len(s) - 1
  PROVE  /\ Len(LeftOf(s, k)) = Len(s) - k /\ Head(LeftOf(s, k)) = s[k + 1] /\ Tail(LeftOf(s, k)) = LeftOf(s, k + 1)
         /\ LeftOf(s, 0) = s
<1> DEFINE n == Len(s)  l == LeftOf(s, k)  m == n - k
<1>1. n \in Nat /\ s = [j \in 1..n |-> s[j]] /\ \A j \in 1..n : s[j] \in U
  BY LenProperties, ElementOfSeq
<1>2. m \in Nat /\ m >= 1 /\ k \in Nat
  BY <1>1
<1>3. l = [j \in 1..m |-> s[k + j]]
  BY DEF LeftOf
<1>4. LeftOf(s, k + 1) = [j \in 1..m - 1 |-> s[k + (j + 1)]]
  <2>1. n - (k + 1) = m - 1 /\ \A j \in 1..m - 1 : (k + 1) + j = k + (j + 1)
    BY <1>1, <1>2
  <2> HIDE DEF m
  <2> QED BY <2>1 DEF LeftOf
<1>5. LeftOf(s, 0) = s
  <2>1. n - 0 = n /\ \A j \in 1..n : 0 + j = j
    BY <1>1
  <2> HIDE DEF n
  <2> QED BY <1>1, <2>1 DEF LeftOf, n
<1>6. \A j \in 1..m : k + j \in 1..n
  BY <1>1, <1>2
<1> HIDE DEF l, m, n
<1>7. l \in [1..m -> U]
  BY <1>1, <1>3, <1>6
<1>8. l \in Seq(U) /\ Len(l) = m
  BY <1>2, <1>7, LenProperties
<1>9. l # <<>> /\ Head(l) = s[k + 1]
  <2>1. 1 \in 1..m
    BY <1>2
  <2>2. l # <<>> /\ Head(l) = l[1]
    BY <1>2, <1>8
  <2> QED BY <1>3, <2>1, <2>2
<1>10. Tail(l) = [j \in 1..m - 1 |-> s[k + (j + 1)]]
  <2>1. Tail(l) = [j \in 1..m - 1 |-> l[j + 1]]
    <3> DEFINE u == Tail(l)
    <3>1. u \in Seq(U) /\ Len(u) = m - 1 /\ \A j \in 1..Len(u) : u[j] = l[j + 1]
      BY <1>8, <1>9, HeadTailProperties
    <3> HIDE DEF u
    <3>2. u = [j \in 1..Len(u) |-> u[j]]
      BY <3>1, LenProperties
    <3> QED BY <3>1, <3>2 DEF u
  <2>2. \A j \in 1..m - 1 : l[j + 1] = s[k + (j + 1)]
    <3>1. \A j \in 1..m - 1 : j + 1 \in 1..m
      BY <1>2
    <3> QED BY <1>3, <3>1
  <2> QED BY <2>1, <2>2
<1> QED BY <1>4, <1>5, <1>8, <1>9, <1>10, Zenon DEF l, m, n

LEMMA ExtraLeads ==
  ASSUME NEW layout, NEW t \in 5..10, NEW a \in Int, a - CatBase[t] \in Nat, a - CatBase[t] < Power(Len(CatProbs[t])),
         NEW node, NEW c, NEW i, NEW ctx3, NEW value
  PROVE  Leads(layout, Walk("extra", node, 0, CatBase[t], CatProbs[t], c, i, ctx3, value), ExtraBits(a, t),
               Walk("sign", node, a, CatBase[t], <<>>, c, i, ctx3, value))
<1> DEFINE n == Len(CatProbs[t])  r == ExtraBits(a, t)  base == CatBase[t]  v == a - base
           W(x, k) == Walk("extra", node, x, base, LeftOf(CatProbs[t], k), c, i, ctx3, value)
           z == Walk("sign", node, a, base, <<>>, c, i, ctx3, value)
           A(k) == v \div Power(n - k)
           f == [k \in 0..n |-> IF k = n THEN z ELSE W(A(k), k)]
<1>1. /\ r \in Seq(Booleans) /\ Len(r) = n
      /\ \A k \in 1..n : r[k].prob = CatProbs[t][k] /\ r[k].bit = Bit(v, n - k)
  BY ExtraBitsAre, Zenon
<1>2. n \in 1..11 /\ v \in Nat /\ v < Power(n) /\ base \in Nat /\ base + v = a
  <2>1. n \in 1..11 /\ base \in Nat
    BY CategoriesAre, Zenon
  <2>2. v \in Nat /\ v < Power(n)
    OBVIOUS
  <2> HIDE DEF n, base
  <2>3. base + v = a
    BY <2>1
  <2> QED BY <2>1, <2>2, <2>3
<1>3. A(0) = 0
  <2> DEFINE q == Power(n)
  <2>1. n - 0 = n /\ n \in Nat
    BY <1>2
  <2>2. q \in Nat \ {0} /\ v < q
    BY <1>2, <2>1, PowerFacts, Zenon
  <2> HIDE DEF q, n, v
  <2>3. v \div q = 0
    BY <1>2, <2>2
  <2> QED BY <2>1, <2>3 DEF q
<1> HIDE DEF v, n
<1>4. ASSUME NEW k \in 1..n PROVE A(k) = 2 * A(k - 1) + BitOf(Bit(v, n - k))
  <2> DEFINE m == n - k
  <2>1. (n - k) + 1 = n - (k - 1) /\ m \in 0..16
    BY <1>2
  <2> HIDE DEF m
  <2>2. v \div Power(m) = 2 * (v \div Power(m + 1)) + BitOf(Bit(v, m))
    BY <1>2, <2>1, BitSplit, Zenon
  <2> QED BY <2>1, <2>2 DEF m
<1>5. A(n) = v
  <2>1. n - n = 0 /\ Power(0) = 1
    BY <1>2, PowerFacts
  <2>2. v \div 1 = v
    BY <1>2
  <2> QED BY <2>1, <2>2
<1> HIDE DEF A, z, n, base, r
<1>6. f[0] = W(0, 0) /\ f[n] = z
  BY <1>2, <1>3
<1>7. ASSUME NEW k \in 1..n
      PROVE  f[k - 1].at # "done" /\ NextProb(layout, f[k - 1]) = r[k].prob /\ f[k] = Took(layout, f[k - 1], r[k].bit)
  <2> DEFINE b == r[k].bit  m == k - 1  left == LeftOf(CatProbs[t], m)  x == A(m)  y == 2 * x + BitOf(b)
  <2>1. f[m] = W(x, m) /\ m + 1 = k /\ y = A(k) /\ m \in 0..n - 1
    BY <1>1, <1>2, <1>4
  <2>2. Len(left) = n - m /\ Head(left) = CatProbs[t][m + 1] /\ Tail(left) = LeftOf(CatProbs[t], m + 1)
    <3> HIDE DEF m
    <3>1. CatProbs[t] \in Seq(0..255)
      BY CategoriesAre, Zenon
    <3> QED BY <2>1, <3>1, LeftOfIs, Zenon DEF n
  <2> HIDE DEF b, f, left, x, m, y
  <2>3. LET w == Walk("extra", node, x, base, left, c, i, ctx3, value)
        IN /\ w.at # "done" /\ NextProb(layout, w) = Head(left)
           /\ Took(layout, w, b) =
                IF Len(left) = 1 THEN Walk("sign", node, base + y, base, <<>>, c, i, ctx3, value)
                ELSE Walk("extra", node, y, base, Tail(left), c, i, ctx3, value)
    BY TakesExtra DEF y
  <2>4. W(x, m) = Walk("extra", node, x, base, left, c, i, ctx3, value)
    BY DEF left
  <2>5. r[k].prob = CatProbs[t][m + 1]
    BY <1>1, <2>1
  <2>6. f[k] = IF k = n THEN z ELSE W(A(k), k)
    BY <1>2 DEF f
  <2>7. f[k] = Took(layout, W(x, m), b)
    <3>1. CASE k = n
      <4>1. n - m = 1 /\ base + y = a
        BY <1>2, <1>5, <2>1, <3>1
      <4> QED BY <2>2, <2>3, <2>4, <2>6, <3>1, <4>1 DEF z
    <3>2. CASE k # n
      <4>1. n - m # 1
        BY <1>2, <2>1, <3>2
      <4>2. Tail(left) = LeftOf(CatProbs[t], k)
        BY <2>1, <2>2
      <4> QED BY <2>1, <2>2, <2>3, <2>4, <2>6, <3>2, <4>1, <4>2, Zenon
    <3> QED BY <3>1, <3>2
  <2>8. f[k - 1] = W(x, m)
    BY <2>1 DEF m
  <2> HIDE DEF W
  <2> QED BY <2>2, <2>3, <2>4, <2>5, <2>7, <2>8 DEF b
<1>8. Walking(layout, f, r)
  <2> HIDE DEF f
  <2> QED BY <1>1, <1>7, Zenon DEF Walking
<1>9. Leads(layout, W(0, 0), r, z)
  <2> HIDE DEF f, W
  <2> QED BY <1>1, <1>6, <1>8 DEF Leads
<1>10. LeftOf(CatProbs[t], 0) = CatProbs[t]
  <2>1. CatProbs[t] \in Seq(0..255) /\ 0 \in 0..Len(CatProbs[t]) - 1
    <3>1. CatProbs[t] \in Seq(0..255) /\ Len(CatProbs[t]) \in 1..11
      BY CategoriesAre, Zenon
    <3> DEFINE m == Len(CatProbs[t])
    <3>2. m \in 1..11
      BY <3>1
    <3> HIDE DEF m
    <3>3. 0 \in 0..m - 1
      BY <3>2
    <3> QED BY <3>1, <3>3 DEF m
  <2> QED BY <2>1, LeftOfIs
<1> QED BY <1>9, <1>10 DEF z, r, base

-----------------------------------------------------------------------------
(* Blocks, a coefficient at a time.                                          *)
Block(s, c) ==
  /\ s.kind = "block" /\ s.first \in 0..1 /\ s.seed \in 0..2 /\ c \in [0..15 -> Level]
  /\ \A i \in 0..15 : i < s.first => c[i] = 0
Upto(c, i) == [j \in 0..15 |-> IF j < i THEN c[j] ELSE 0]
NodeBefore(s, c, i) == IF i > s.first /\ c[i - 1] = 0 THEN 2 ELSE 0
CtxBefore(s, c, i) == IF i = s.first THEN s.seed ELSE ContextOf(Abs(c[i - 1]))
BlockAt(s, c, i, n) == Walk("tree", NodeBefore(s, c, i), 0, n, <<>>, Upto(c, i), i, CtxBefore(s, c, i), <<>>)
Parsed(s, c, i, q) == IF i = 16 THEN q.at = "done" /\ q.value = c ELSE \E n : q = BlockAt(s, c, i, n)

LEMMA LevelIs ==
  ASSUME NEW x \in Level
  PROVE  x \in Int /\ x >= -2114 /\ x <= 2114
BY DEF Level

LEMMA UptoAll ==
  ASSUME NEW s, NEW c, Block(s, c)
  PROVE  Upto(c, 16) = c
<1>1. c = [j \in 0..15 |-> c[j]]
  BY DEF Block
<1>2. \A j \in 0..15 : j < 16
  OBVIOUS
<1> QED BY <1>1, <1>2 DEF Upto

LEMMA UptoFirst ==
  ASSUME NEW s, NEW c, Block(s, c)
  PROVE  Upto(c, s.first) = NoCoeffs
<1>1. \A j \in 0..15 : (IF j < s.first THEN c[j] ELSE 0) = 0
  BY DEF Block
<1> QED BY <1>1 DEF Upto, NoCoeffs

LEMMA UptoNext ==
  ASSUME NEW c, NEW i \in 0..15
  PROVE  [Upto(c, i) EXCEPT ![i] = c[i]] = Upto(c, i + 1)
<1>1. \A j \in 0..15 : (IF j < i + 1 THEN c[j] ELSE 0) = IF j = i THEN c[i] ELSE IF j < i THEN c[j] ELSE 0
  OBVIOUS
<1>2. [Upto(c, i) EXCEPT ![i] = c[i]] = [j \in 0..15 |-> IF j = i THEN c[i] ELSE IF j < i THEN c[j] ELSE 0]
  BY Zenon DEF Upto
<1>3. Upto(c, i + 1) = [j \in 0..15 |-> IF j < i + 1 THEN c[j] ELSE 0]
  BY DEF Upto
<1> QED BY <1>1, <1>2, <1>3

LEMMA AdvanceReaches ==
  ASSUME NEW s, NEW c, Block(s, c), NEW i \in s.first..15, NEW at, NEW node, NEW a, NEW n, NEW ctx3
  PROVE  Parsed(s, c, i + 1, Advance(Walk(at, node, a, n, <<>>, Upto(c, i), i, ctx3, <<>>), c[i],
                                      ContextOf(Abs(c[i])), IF c[i] = 0 THEN 2 ELSE 0))
<1> DEFINE w == Walk(at, node, a, n, <<>>, Upto(c, i), i, ctx3, <<>>)  d == Upto(c, i + 1)  x == ContextOf(Abs(c[i]))
           y == IF c[i] = 0 THEN 2 ELSE 0  z == Advance(w, c[i], x, y)
<1>1. s.first \in 0..1 /\ i \in 0..15
  BY DEF Block
<1>2. w.c = Upto(c, i) /\ w.i = i
  BY WalkFields
<1>3. [w.c EXCEPT ![w.i] = c[i]] = d /\ Upto(c, 16) = c
  <2>1. [Upto(c, i) EXCEPT ![i] = c[i]] = Upto(c, i + 1)
    BY <1>1, UptoNext, Zenon
  <2>2. Upto(c, 16) = c
    BY UptoAll
  <2>3. [w.c EXCEPT ![w.i] = c[i]] = [Upto(c, i) EXCEPT ![i] = c[i]]
    <3> HIDE DEF w
    <3> QED BY <1>2
  <2> QED BY <2>1, <2>2, <2>3
<1>4. CASE i = 15
  <2>1. z = Done(w, d)
    <3> HIDE DEF w, d, x, y
    <3> QED BY <1>2, <1>3, <1>4 DEF Advance
  <2>2. Done(w, d) = Walk("done", node, a, n, <<>>, Upto(c, i), i, ctx3, d)
    BY WalkDone
  <2>3. z.at = "done" /\ z.value = d
    <3> HIDE DEF z
    <3> QED BY <2>1, <2>2, WalkFields
  <2>4. d = c /\ i + 1 = 16
    BY <1>3, <1>4
  <2> HIDE DEF z, d
  <2>5. Parsed(s, c, i + 1, z)
    BY <2>3, <2>4 DEF Parsed
  <2> QED BY <2>5 DEF z
<1>5. CASE i # 15
  <2>1. z = Advanced(w, "tree", y, 0, d, i + 1, x)
    <3> HIDE DEF w, d, x, y
    <3> QED BY <1>2, <1>3, <1>5, Zenon DEF Advance, Advanced
  <2>2. Advanced(w, "tree", y, 0, d, i + 1, x) = Walk("tree", y, 0, n, <<>>, d, i + 1, x, <<>>)
    BY WalkAdvanced
  <2>3. NodeBefore(s, c, i + 1) = y /\ CtxBefore(s, c, i + 1) = x
    <3>1. (i + 1) - 1 = i /\ i + 1 > s.first /\ i + 1 # s.first
      BY <1>1
    <3> QED BY <3>1 DEF NodeBefore, CtxBefore
  <2>4. z = BlockAt(s, c, i + 1, n)
    <3> HIDE DEF z, w, x, y
    <3> QED BY <2>1, <2>2, <2>3 DEF BlockAt
  <2>5. i + 1 # 16
    BY <1>1, <1>5
  <2> HIDE DEF z
  <2>6. Parsed(s, c, i + 1, z)
    BY <2>4, <2>5 DEF Parsed
  <2> QED BY <2>6 DEF z
<1> QED BY <1>4, <1>5

LEMMA TokenTreeLeads ==
  ASSUME NEW s, NEW c, Block(s, c), NEW i \in s.first..15, NEW n, NEW t,
         t \in 0..10 \/ (t = Eob /\ NodeBefore(s, c, i) = 0)
  PROVE  \E x : Leads(s, BlockAt(s, c, i, n),
                      TreedFrom(NodeBefore(s, c, i), CoeffTree, ProbsAt(i, CtxBefore(s, c, i)), t),
                      TookToken(Walk("tree", x, 0, n, <<>>, Upto(c, i), i, CtxBefore(s, c, i), <<>>), t))
<1> DEFINE node == NodeBefore(s, c, i)  ctx3 == CtxBefore(s, c, i)  probs == ProbsAt(i, ctx3)
           W(x) == Walk("tree", x, 0, n, <<>>, Upto(c, i), i, ctx3, <<>>)
<1>1. s.first \in 0..1 /\ i \in 0..15 /\ s.kind = "block" /\ s.seed \in 0..2
  BY DEF Block
<1>2. Treelike(s) /\ TreeOf(s) = CoeffTree /\ TreeProbs(s, i, ctx3) = probs
  BY <1>1 DEF Treelike, TreeOf, TreeProbs
<1>3. Rooted(CoeffTree, node, 21) /\ LeafOf(CoeffTree, node, t)
  <2>1. node = 0 \/ node = 2
    BY DEF NodeBefore
  <2>2. t \in 0..11 /\ (node = 2 => t \in 0..10)
    BY <2>1 DEF Eob
  <2> HIDE DEF node
  <2> QED BY <2>1, <2>2, TokenTreeRooted, TokenTreeUpper
<1>4. Probable(probs, 21)
  <2>1. ctx3 \in 0..2
    BY <1>1 DEF CtxBefore, ContextOf
  <2>2. Bands[i + 1] \in 0..7
    <3>1. i + 1 \in 1..16
      BY <1>1
    <3>2. \A k \in 1..16 : k = 1 \/ k = 2 \/ k = 3 \/ k = 4 \/ k = 5 \/ k = 6 \/ k = 7 \/ k = 8 \/ k = 9 \/ k = 10 \/ k = 11
                           \/ k = 12 \/ k = 13 \/ k = 14 \/ k = 15 \/ k = 16
      OBVIOUS
    <3>3. \A k \in 1..16 : Bands[k] \in 0..7
      BY <3>2 DEF Bands
    <3> QED BY <3>1, <3>3
  <2> HIDE DEF ctx3
  <2>3. \A x \in 0..10 : probs[x] \in 0..255
    BY <2>1, <2>2, ContentAssumption, Zenon DEF ProbsAt, Prob
  <2>4. 21 \div 2 = 10
    OBVIOUS
  <2> QED BY <2>3, <2>4 DEF Probable
<1> HIDE DEF node, ctx3, probs
<1>5. PICK x : Leads(s, W(node), TreedFrom(node, CoeffTree, probs, t), Leafed(s, W(x), -t))
  <2>1. \E x : Leads(s, W(node), TreedFrom(node, TreeOf(s), TreeProbs(s, i, ctx3), t), Leafed(s, W(x), -t))
    <3>1. Rooted(TreeOf(s), node, 21) /\ LeafOf(TreeOf(s), node, t) /\ Probable(TreeProbs(s, i, ctx3), 21)
      BY <1>2, <1>3, <1>4
    <3> QED BY <1>2, <3>1, TreeLeads
  <2> HIDE DEF W
  <2> QED BY <1>2, <2>1
<1> HIDE DEF W
<1>6. Leafed(s, W(x), -t) = TookToken(W(x), t)
  <2>1. -(-t) = t
    BY DEF Eob
  <2> QED BY <1>1, <2>1 DEF Leafed
<1>7. BlockAt(s, c, i, n) = W(node)
  BY DEF BlockAt, W, node, ctx3
<1>8. Leads(s, BlockAt(s, c, i, n), TreedFrom(node, CoeffTree, probs, t), TookToken(W(x), t))
  BY <1>5, <1>6, <1>7
<1> QED BY <1>8 DEF node, probs, ctx3, W

LEMMA SignReaches ==
  ASSUME NEW s, NEW c, Block(s, c), NEW i \in s.first..15, c[i] # 0, NEW node, NEW n, NEW ctx3
  PROVE  \E q : Leads(s, Walk("sign", node, Abs(c[i]), n, <<>>, Upto(c, i), i, ctx3, <<>>), <<Bool(128, c[i] < 0)>>, q)
                /\ Parsed(s, c, i + 1, q)
<1> DEFINE a == Abs(c[i])  w == Walk("sign", node, a, n, <<>>, Upto(c, i), i, ctx3, <<>>)
           q == Advance(w, c[i], ContextOf(a), IF c[i] = 0 THEN 2 ELSE 0)
<1>1. s.kind = "block" /\ c[i] \in Int
  <2>1. i \in 0..15
    BY DEF Block
  <2>2. c[i] \in Level
    BY <2>1 DEF Block
  <2>3. s.kind = "block"
    BY DEF Block
  <2> QED BY <2>2, <2>3, LevelIs
<1>2. Leads(s, w, <<Bool(128, c[i] < 0)>>, TookSign(s, w, c[i] < 0))
  BY <1>1, SignLeads, Zenon
<1>3. w.a = a /\ (IF c[i] < 0 THEN -a ELSE a) = c[i]
  BY <1>1, WalkFields, SignedMagnitude
<1>4. Parsed(s, c, i + 1, q)
  BY AdvanceReaches
<1>5. TookSign(s, w, c[i] < 0) = q
  <2> HIDE DEF w, a
  <2> QED BY <1>1, <1>3 DEF TookSign
<1> HIDE DEF w, q, a
<1>6. Leads(s, w, <<Bool(128, c[i] < 0)>>, q) /\ Parsed(s, c, i + 1, q)
  BY <1>2, <1>4, <1>5
<1> QED BY <1>6 DEF w, a

LEMMA TokenReaches ==
  ASSUME NEW s, NEW c, Block(s, c), NEW i \in s.first..15, NEW n
  PROVE  \E q : Leads(s, BlockAt(s, c, i, n), TokenAt(s, c, i), q) /\ Parsed(s, c, i + 1, q)
<1> DEFINE a == Abs(c[i])  t == ClassifyCoeffToken(a)  ctx3 == CtxBefore(s, c, i)  node == NodeBefore(s, c, i)
           r == TreedFrom(node, CoeffTree, ProbsAt(i, ctx3), t)  extra == IF t >= 5 THEN ExtraBits(a, t) ELSE <<>>
           sign == IF a # 0 THEN <<Bool(128, c[i] < 0)>> ELSE <<>>
           p == BlockAt(s, c, i, n)
           W(at, x, y, z, l) == Walk(at, x, y, z, l, Upto(c, i), i, ctx3, <<>>)
<1>1. s.kind = "block" /\ c[i] \in Level /\ i \in 0..15
  <2>1. i \in 0..15
    BY DEF Block
  <2> QED BY <2>1 DEF Block
<1>2. a \in 0..2114 /\ (a = 0 <=> c[i] = 0)
  <2>1. c[i] \in Int /\ c[i] >= -2114 /\ c[i] <= 2114
    BY <1>1, LevelIs
  <2> DEFINE y == c[i]
  <2>2. a = Abs(y) /\ y \in Int /\ y >= -2114 /\ y <= 2114
    BY <2>1
  <2> HIDE DEF y, a
  <2>3. a \in 0..2114 /\ (a = 0 <=> y = 0)
    BY <2>2 DEF Abs
  <2> QED BY <2>3 DEF y
<1>3. TokenAt(s, c, i) = (r \o extra) \o sign
  BY DEF TokenAt, CtxBefore, NodeBefore
<1> HIDE DEF a
<1>4. Classified(a, t) /\ (a = 0 <=> t = 0)
  <2>1. t = ClassifyCoeffToken(a)
    OBVIOUS
  <2>2. a \in Magnitudes
    BY <1>2 DEF Magnitudes
  <2> HIDE DEF t
  <2> QED BY <2>1, <2>2, ClassifiedIs
<1> HIDE DEF t, ctx3, node
<1>5. t \in 0..10 /\ t # Eob
  BY <1>4 DEF Classified, Eob
<1>6. PICK x : Leads(s, p, r, TookToken(W("tree", x, 0, n, <<>>), t))
  BY <1>5, TokenTreeLeads DEF ctx3, node
<1> DEFINE w == W("tree", x, 0, n, <<>>)
<1> HIDE DEF p, r
<1>7. CASE t = 0
  <2> DEFINE q == Advance(w, 0, 0, 2)
  <2>1. TookToken(w, t) = q
    <3> HIDE DEF w
    <3> QED BY <1>5, <1>7 DEF TookToken
  <2>2. Parsed(s, c, i + 1, q)
    <3>1. c[i] = 0 /\ ContextOf(Abs(c[i])) = 0
      BY <1>2, <1>4, <1>7 DEF ContextOf, Abs
    <3>2. Parsed(s, c, i + 1, Advance(w, c[i], ContextOf(Abs(c[i])), IF c[i] = 0 THEN 2 ELSE 0))
      BY AdvanceReaches
    <3> HIDE DEF w
    <3> QED BY <3>1, <3>2
  <2>3. extra = <<>> /\ sign = <<>>
    BY <1>4, <1>7
  <2> HIDE DEF q, W, extra, sign
  <2>4. Leads(s, p, r, q) /\ Leads(s, q, <<>>, q)
    BY <1>6, <2>1, LeadsNone
  <2>5. Leads(s, p, r \o <<>>, q)
    BY <2>4, LeadsJoin
  <2>6. Leads(s, p, (r \o <<>>) \o <<>>, q)
    BY <2>4, <2>5, LeadsJoin
  <2>7. Leads(s, p, TokenAt(s, c, i), q)
    BY <1>3, <2>3, <2>6
  <2> QED BY <2>2, <2>7 DEF p
<1>8. CASE t # 0
  <2>1. a # 0 /\ c[i] # 0 /\ sign = <<Bool(128, c[i] < 0)>>
    BY <1>2, <1>4, <1>8
  <2>2. PICK z : Leads(s, p, r \o extra, W("sign", x, a, z, <<>>))
    <3>1. CASE t < 5
      <4>1. TookToken(w, t) = AtASet(w, "sign", t) /\ a = t /\ extra = <<>>
        <5> HIDE DEF w
        <5> QED BY <1>4, <1>5, <1>8, <3>1 DEF TookToken, AtASet, Classified
      <4>2. AtASet(w, "sign", t) = W("sign", x, t, n, <<>>)
        BY WalkAtA
      <4> HIDE DEF W, extra
      <4>3. Leads(s, p, r, W("sign", x, a, n, <<>>))
        BY <1>6, <4>1, <4>2
      <4>4. Leads(s, W("sign", x, a, n, <<>>), <<>>, W("sign", x, a, n, <<>>))
        BY LeadsNone
      <4>5. Leads(s, p, r \o <<>>, W("sign", x, a, n, <<>>))
        BY <4>3, <4>4, LeadsJoin
      <4> QED BY <4>1, <4>5
    <3>2. CASE ~(t < 5)
      <4>1. TookToken(w, t) = AtANLeftSet(w, "extra", 0, CatBase[t], CatProbs[t]) /\ extra = ExtraBits(a, t)
        <5> HIDE DEF w
        <5> QED BY <1>5, <1>8, <3>2 DEF TookToken, AtANLeftSet
      <4>2. AtANLeftSet(w, "extra", 0, CatBase[t], CatProbs[t]) = W("extra", x, 0, CatBase[t], CatProbs[t])
        BY WalkMost
      <4>3. t \in 5..10 /\ a - CatBase[t] \in Nat /\ a - CatBase[t] < Power(Len(CatProbs[t])) /\ a \in Int
        BY <1>2, <1>4, <1>5, <3>2 DEF Classified
      <4>4. Leads(s, W("extra", x, 0, CatBase[t], CatProbs[t]), ExtraBits(a, t), W("sign", x, a, CatBase[t], <<>>))
        BY <4>3, ExtraLeads, Zenon
      <4> HIDE DEF W, extra
      <4>5. Leads(s, p, r, W("extra", x, 0, CatBase[t], CatProbs[t]))
        BY <1>6, <4>1, <4>2
      <4>6. Leads(s, p, r \o extra, W("sign", x, a, CatBase[t], <<>>))
        BY <4>1, <4>4, <4>5, LeadsJoin
      <4> QED BY <4>6
    <3> QED BY <3>1, <3>2
  <2>3. PICK q : Leads(s, W("sign", x, a, z, <<>>), sign, q) /\ Parsed(s, c, i + 1, q)
    BY <2>1, SignReaches, Zenon DEF a
  <2> HIDE DEF W, extra, sign
  <2>4. Leads(s, p, (r \o extra) \o sign, q)
    BY <2>2, <2>3, LeadsJoin
  <2>5. Leads(s, p, TokenAt(s, c, i), q)
    BY <1>3, <2>4
  <2> QED BY <2>3, <2>5 DEF p
<1> QED BY <1>7, <1>8

-----------------------------------------------------------------------------
(* A block, from the first coefficient to EOB.                               *)
Nonzero(s, c) == {i \in s.first..15 : c[i] # 0}
EndOf(s, c) == IF Nonzero(s, c) = {} THEN s.first
               ELSE 1 + CHOOSE i \in Nonzero(s, c) : \A j \in Nonzero(s, c) : j <= i

LEMMA LastExists ==
  ASSUME NEW N \in SUBSET (0..15), N # {}
  PROVE  \E i \in N : \A j \in N : j <= i
<1> DEFINE Ending == \E i \in N : \A j \in N : j <= i
           S == {k \in Nat : (\E i \in N : i >= 16 - k) => Ending}
<1>1. 0 \in S
  <2>1. ~\E i \in N : i >= 16 - 0
    OBVIOUS
  <2> HIDE DEF Ending
  <2> QED BY <2>1
<1>2. ASSUME NEW k \in Nat, k \in S PROVE k + 1 \in S
  <2>1. CASE \E i \in N : i >= 16 - k
    <3> HIDE DEF Ending
    <3> QED BY <1>2, <2>1
  <2>2. CASE ~\E i \in N : i >= 16 - k
    <3>1. ASSUME NEW i \in N, i >= 16 - (k + 1) PROVE \A j \in N : j <= i
      BY <2>2, <3>1
    <3>2. (\E i \in N : i >= 16 - (k + 1)) => Ending
      BY <3>1
    <3> HIDE DEF Ending
    <3> QED BY <3>2
  <2> QED BY <2>1, <2>2
<1>3. \A k \in Nat : k \in S
  <2> HIDE DEF S
  <2> QED BY <1>1, <1>2, NaturalInduction
<1>4. \E i \in N : i >= 16 - 16
  <2>1. PICK i : i \in N
    OBVIOUS
  <2>2. i \in 0..15 /\ 16 - 16 = 0
    BY <2>1
  <2>3. i >= 16 - 16
    BY <2>2
  <2> HIDE DEF S
  <2> QED BY <2>1, <2>3
<1>5. 16 \in Nat
  OBVIOUS
<1> HIDE DEF Ending
<1>6. Ending
  BY <1>3, <1>4, <1>5
<1> QED BY <1>6 DEF Ending

LEMMA EndIs ==
  ASSUME NEW s, NEW c, Block(s, c)
  PROVE  /\ EndOf(s, c) \in s.first..16 /\ (EndOf(s, c) > s.first => c[EndOf(s, c) - 1] # 0)
         /\ \A j \in 0..15 : j >= EndOf(s, c) => c[j] = 0
<1> DEFINE N == Nonzero(s, c)  e == EndOf(s, c)
<1>1. s.first \in 0..1 /\ \A j \in 0..15 : j < s.first => c[j] = 0
  BY DEF Block
<1>2. \A j : j \in N <=> j \in s.first..15 /\ c[j] # 0
  BY DEF Nonzero
<1>3. N \in SUBSET (0..15)
  BY <1>1, <1>2
<1>4. e = IF N = {} THEN s.first ELSE 1 + CHOOSE i \in N : \A j \in N : j <= i
  BY DEF EndOf
<1> HIDE DEF N, e
<1>5. CASE N = {}
  <2>1. e = s.first
    BY <1>4, <1>5
  <2> QED BY <1>1, <1>2, <1>5, <2>1 DEF e
<1>6. CASE N # {}
  <2> DEFINE m == CHOOSE i \in N : \A j \in N : j <= i
  <2>1. m \in N /\ \A j \in N : j <= m
    BY <1>3, <1>6, LastExists, Zenon
  <2>2. e = 1 + m
    BY <1>4, <1>6
  <2> HIDE DEF m
  <2>3. m \in s.first..15 /\ c[m] # 0 /\ e - 1 = m /\ e \in s.first..16
    BY <1>1, <1>2, <2>1, <2>2
  <2>4. ASSUME NEW j \in 0..15, j >= e PROVE c[j] = 0
    BY <1>1, <1>2, <2>1, <2>2, <2>3, <2>4
  <2> QED BY <2>3, <2>4 DEF e
<1> QED BY <1>5, <1>6

LEMMA FlattenNone ==
  ASSUME NEW parts, Listed(parts), Len(parts) = 0
  PROVE  FlattenSeq(parts) = <<>>
<1>1. parts = <<>>
  <2>1. Listed(<<>>) /\ Len(<<>>) = 0
    BY ListedNone
  <2> QED BY <2>1, ListedEqual
<1> QED BY <1>1 DEF FlattenSeq

LEMMA TokensReach ==
  ASSUME NEW s, NEW c, Block(s, c), NEW m \in Nat, s.first + m <= 16
  PROVE  \E q : /\ Leads(s, BlockAt(s, c, s.first, 0), FlattenSeq([n \in 1..m |-> TokenAt(s, c, s.first + n - 1)]), q)
                /\ Parsed(s, c, s.first + m, q)
<1> DEFINE p == BlockAt(s, c, s.first, 0)  parts == [n \in 1..m |-> TokenAt(s, c, s.first + n - 1)]
<1>1. s.first \in 0..1
  BY DEF Block
<1>2. ASSUME NEW n \in 1..m PROVE parts[n] = TokenAt(s, c, s.first + n - 1) /\ Listed(parts[n])
  <2>1. s.first + n - 1 \in s.first..15
    BY <1>1
  <2> DEFINE i == s.first + n - 1
  <2>2. parts[n] = TokenAt(s, c, i)
    OBVIOUS
  <2> HIDE DEF i, parts
  <2>3. PICK q : Leads(s, BlockAt(s, c, i, 0), TokenAt(s, c, i), q)
    BY <2>1, TokenReaches DEF i
  <2>4. TokenAt(s, c, i) \in Seq(Booleans)
    BY <2>3 DEF Leads
  <2> QED BY <2>2, <2>4 DEF Listed, i
<1>3. parts = [n \in 1..m |-> parts[n]]
  OBVIOUS
<1> HIDE DEF parts
<1>4. PICK F : PrefixesOf(F, m, parts)
  BY <1>2, PrefixesExist
<1>5. FlattenSeq(parts) = F[m]
  <2>1. CASE m = 0
    <3>1. Listed(parts) /\ Len(parts) = 0
      BY <1>3, <2>1, ListedIs, Zenon
    <3>2. F[m] = <<>>
      BY <1>4, <2>1 DEF PrefixesOf
    <3> QED BY <3>1, <3>2, FlattenNone
  <2>2. CASE m # 0
    <3>1. m \in Nat \ {0} /\ 1 \in 1..m
      BY <2>2
    <3>2. Listed(parts[1])
      BY <1>2, <3>1
    <3> QED BY <1>3, <1>4, <3>1, <3>2, Flattening
  <2> QED BY <2>1, <2>2
<1> DEFINE Goal(k) == \E q : Leads(s, p, F[k], q) /\ Parsed(s, c, s.first + k, q)
           S == {k \in Nat : k <= m => Goal(k)}
<1>6. 0 \in S
  <2>1. F[0] = <<>>
    BY <1>4 DEF PrefixesOf
  <2>2. Leads(s, p, F[0], p)
    BY <2>1, LeadsNone
  <2>3. s.first + 0 = s.first /\ s.first # 16
    BY <1>1
  <2>4. Parsed(s, c, s.first + 0, p)
    BY <2>3 DEF Parsed
  <2> HIDE DEF p
  <2>5. Goal(0)
    BY <2>2, <2>4
  <2> HIDE DEF Goal
  <2> QED BY <2>5
<1>7. ASSUME NEW k \in Nat, k \in S PROVE k + 1 \in S
  <2> SUFFICES ASSUME k + 1 <= m PROVE Goal(k + 1)
    OBVIOUS
  <2> DEFINE i == s.first + k  l == k + 1
  <2>1. Goal(k)
    <3> HIDE DEF Goal
    <3> QED BY <1>7
  <2>2. i \in s.first..15 /\ i # 16 /\ s.first + l = i + 1 /\ s.first + l - 1 = i /\ l \in 1..m /\ l - 1 = k
    BY <1>1
  <2> HIDE DEF p, l, i
  <2>3. PICK q : Leads(s, p, F[k], q) /\ Parsed(s, c, i, q)
    BY <2>1 DEF i
  <2>4. PICK n : q = BlockAt(s, c, i, n)
    BY <2>2, <2>3 DEF Parsed
  <2>5. PICK z : Leads(s, q, TokenAt(s, c, i), z) /\ Parsed(s, c, i + 1, z)
    BY <2>2, <2>4, TokenReaches
  <2>6. F[l] = F[k] \o TokenAt(s, c, i)
    <3>1. F[l] = F[l - 1] \o parts[l]
      BY <1>4, <2>2, Zenon DEF PrefixesOf
    <3>2. parts[l] = TokenAt(s, c, i)
      BY <1>2, <2>2
    <3> QED BY <2>2, <3>1, <3>2, Zenon
  <2>7. Leads(s, p, F[l], z)
    BY <2>3, <2>5, <2>6, LeadsJoin
  <2>8. Goal(l)
    BY <2>2, <2>5, <2>7
  <2> QED BY <2>8 DEF l
<1>8. \A k \in Nat : k \in S
  <2> HIDE DEF S
  <2> QED BY <1>6, <1>7, NaturalInduction
<1>9. Goal(m)
  <2> HIDE DEF Goal
  <2> QED BY <1>8
<1> QED BY <1>5, <1>9 DEF parts

LEMMA BlockEnds ==
  ASSUME NEW e, e.shape.kind = "block", Fits(e)
  PROVE  Ends(e.shape, StartParse(e.shape), WrittenBools(e), e.value)
<1> DEFINE s == e.shape  c == e.value  end == EndOf(s, c)  ctx3 == CtxBefore(s, c, end)
           r == FlattenSeq([n \in 1..end - s.first |-> TokenAt(s, c, s.first + n - 1)])
           last == IF end < 16 THEN Treed(CoeffTree, ProbsAt(end, ctx3), Eob) ELSE <<>>
           p == BlockAt(s, c, s.first, 0)
<1>1. Block(s, c)
  BY DEF Block, Fits
<1>2. WrittenBools(e) = r \o last
  <2>1. WrittenBools(e) = CoeffBlock(s, c)
    BY DEF WrittenBools
  <2> QED BY <2>1, Zenon DEF CoeffBlock, EndOf, Nonzero, CtxBefore
<1>3. StartParse(s) = p
  <2>1. s.kind = "block"
    BY <1>1 DEF Block
  <2>2. StartParse(s) = Walk("tree", 0, 0, 0, <<>>, NoCoeffs, s.first, s.seed, <<>>)
    <3> HIDE DEF s
    <3> QED BY <2>1, StartIs
  <2>3. NodeBefore(s, c, s.first) = 0 /\ CtxBefore(s, c, s.first) = s.seed
    <3>1. s.first \in 0..1
      BY <1>1 DEF Block
    <3>2. ~(s.first > s.first)
      BY <3>1
    <3> QED BY <3>2 DEF NodeBefore, CtxBefore
  <2>4. Upto(c, s.first) = NoCoeffs
    BY <1>1, UptoFirst
  <2> QED BY <2>2, <2>3, <2>4 DEF BlockAt
<1>4. /\ end \in s.first..16 /\ (end > s.first => c[end - 1] # 0) /\ \A j \in 0..15 : j >= end => c[j] = 0
      /\ s.first \in 0..1
  BY <1>1, EndIs DEF Block
<1> HIDE DEF s, c
<1>5. NodeBefore(s, c, end) = 0
  <2> HIDE DEF end
  <2> QED BY <1>4 DEF NodeBefore
<1>6. PICK q : Leads(s, p, r, q) /\ Parsed(s, c, end, q)
  <2> DEFINE m == end - s.first
  <2>1. m \in Nat /\ s.first + m <= 16 /\ s.first + m = end
    <3> HIDE DEF end
    <3> QED BY <1>4
  <2> HIDE DEF m
  <2>2. \E q : /\ Leads(s, BlockAt(s, c, s.first, 0), FlattenSeq([n \in 1..m |-> TokenAt(s, c, s.first + n - 1)]), q)
               /\ Parsed(s, c, s.first + m, q)
    BY <1>1, <2>1, TokensReach
  <2> QED BY <2>1, <2>2 DEF m
<1> HIDE DEF end, r, p
<1>7. CASE end = 16
  <2>1. last = <<>>
    BY <1>7
  <2>2. q.at = "done" /\ q.value = c
    BY <1>6, <1>7 DEF Parsed
  <2>3. Ends(s, q, <<>>, c)
    BY <2>2, LeadsNone DEF Ends
  <2> QED BY <1>2, <1>3, <1>6, <2>1, <2>3, EndsAfter DEF s, c
<1>8. CASE end # 16
  <2>1. end \in s.first..15 /\ end \in 0..15
    BY <1>4, <1>8
  <2>2. last = TreedFrom(NodeBefore(s, c, end), CoeffTree, ProbsAt(end, ctx3), Eob)
    BY <1>5, <2>1 DEF Treed
  <2>3. PICK n : q = BlockAt(s, c, end, n)
    BY <1>6, <1>8 DEF Parsed
  <2>4. \E x : Leads(s, BlockAt(s, c, end, n), TreedFrom(NodeBefore(s, c, end), CoeffTree, ProbsAt(end, CtxBefore(s, c, end)), Eob),
                     TookToken(Walk("tree", x, 0, n, <<>>, Upto(c, end), end, CtxBefore(s, c, end), <<>>), Eob))
    <3> DEFINE t == Eob
    <3>1. t = Eob
      OBVIOUS
    <3> HIDE DEF t
    <3>2. \E x : Leads(s, BlockAt(s, c, end, n), TreedFrom(NodeBefore(s, c, end), CoeffTree, ProbsAt(end, CtxBefore(s, c, end)), t),
                     TookToken(Walk("tree", x, 0, n, <<>>, Upto(c, end), end, CtxBefore(s, c, end), <<>>), t))
      BY <1>1, <1>5, <2>1, <3>1, TokenTreeLeads
    <3> QED BY <3>1, <3>2
  <2> HIDE DEF last
  <2>5. PICK x : Leads(s, q, last, TookToken(Walk("tree", x, 0, n, <<>>, Upto(c, end), end, ctx3, <<>>), Eob))
    BY <2>2, <2>3, <2>4
  <2> DEFINE w == Walk("tree", x, 0, n, <<>>, Upto(c, end), end, ctx3, <<>>)
  <2>6. Upto(c, end) = c
    <3>1. c = [j \in 0..15 |-> c[j]]
      BY <1>1 DEF Block
    <3>2. \A j \in 0..15 : (IF j < end THEN c[j] ELSE 0) = c[j]
      BY <1>4
    <3> QED BY <3>1, <3>2 DEF Upto
  <2>7. TookToken(w, Eob) = Done(w, c)
    <3>1. w.c = Upto(c, end)
      BY WalkFields
    <3> HIDE DEF w
    <3> QED BY <2>6, <3>1 DEF TookToken
  <2> HIDE DEF ctx3
  <2>8. Ends(s, q, last, c)
    BY <2>5, <2>7, EndsDone
  <2> QED BY <1>2, <1>3, <1>6, <2>8, EndsAfter DEF s, c
<1> QED BY <1>7, <1>8

-----------------------------------------------------------------------------
(* The parser, asking for the probabilities an element was written with and   *)
(* taking the booleans one at a time, comes to the element's value with the   *)
(* last of them and not before: trees entered at a node, contexts it computes *)
(* for itself, implied bits and signs (dct_tokens.rs, motion_vector.rs,       *)
(* encoder.rs, coded_header.rs).                                              *)
THEOREM ElementEnds ==
  ASSUME NEW e, Fits(e)
  PROVE  Ends(e.shape, StartParse(e.shape), WrittenBools(e), e.value)
<1>1. e.shape.kind = "flag" \/ e.shape.kind = "literal" \/ e.shape.kind = "optional" \/ e.shape.kind = "mode"
      \/ e.shape.kind = "mv" \/ e.shape.kind = "block"
  BY DEF Fits
<1> QED BY <1>1, FlagEnds, LiteralEnds, OptionalEnds, ModeEnds, MvEnds, BlockEnds

-----------------------------------------------------------------------------
(* Whole partitions.  An element's walk, and where its booleans are.         *)
WalkOf(e, f) ==
  /\ f[0] = StartParse(e.shape) /\ Walking(e.shape, f, WrittenBools(e))
  /\ f[Len(WrittenBools(e))].at = "done" /\ f[Len(WrittenBools(e))].value = e.value
WalkFor(e) == CHOOSE f : WalkOf(e, f)
Parts(x) == [i \in DOMAIN x |-> WrittenBools(x[i])]
All(x) == FlattenSeq(Parts(x))
Written(x) == CHOOSE F : PrefixesOf(F, Len(x), Parts(x))

LEMMA WalksAre ==
  ASSUME NEW e, Fits(e)
  PROVE  WalkOf(e, WalkFor(e)) /\ WrittenBools(e) \in Seq(Booleans)
<1>1. PICK q : Leads(e.shape, StartParse(e.shape), WrittenBools(e), q) /\ q.at = "done" /\ q.value = e.value
  BY ElementEnds DEF Ends
<1>2. \E f : WalkOf(e, f)
  BY <1>1 DEF Leads, WalkOf
<1>3. WalkOf(e, WalkFor(e))
  BY <1>2 DEF WalkFor
<1> QED BY <1>1, <1>3 DEF Leads

LEMMA NotStartedDone ==
  ASSUME NEW layout
  PROVE  StartParse(layout).at # "done"
<1> DEFINE at == CASE layout.kind = "flag" -> "flag"
                   [] layout.kind = "literal" -> "bits"
                   [] layout.kind = "optional" -> "present"
                   [] layout.kind = "mv" -> "form"
                   [] layout.kind = "mode" /\ layout.of \in Nested -> "nested"
                   [] OTHER -> "tree"
<1>1. StartParse(layout).at = at
  BY DEF StartParse
<1>2. at # "done"
  OBVIOUS
<1> QED BY <1>1, <1>2

(* What Content may hold, element by element.                                *)
Consists(x) ==
  /\ Listed(x) /\ Len(x) \in Nat \ {0} /\ DOMAIN x = 1..Len(x)
  /\ \A i \in 1..Len(x) : /\ Fits(x[i]) /\ Parts(x)[i] = WrittenBools(x[i])
                          /\ WrittenBools(x[i]) \in Seq(Booleans)
  /\ PrefixesOf(Written(x), Len(x), Parts(x)) /\ All(x) = Written(x)[Len(x)]
  /\ \A k \in 0..Len(x) : Written(x)[k] \in Seq(Booleans)

LEMMA ContentHolds ==
  ASSUME NEW x \in Content
  PROVE  Consists(x)
<1> DEFINE n == Len(x)  parts == Parts(x)  F == Written(x)
<1>1. x \in Seq({x[i] : i \in DOMAIN x}) /\ x # <<>> /\ \A i \in DOMAIN x : Fits(x[i])
  BY ContentAssumption, Zenon
<1>2. Listed(x) /\ n \in Nat \ {0} /\ DOMAIN x = 1..n
  <2> DEFINE U == {x[i] : i \in DOMAIN x}
  <2>1. x \in Seq(U)
    BY <1>1
  <2> HIDE DEF U
  <2> QED BY <1>1, <2>1, LenProperties, EmptySeq DEF Listed
<1>3. parts = [i \in 1..n |-> WrittenBools(x[i])]
  BY <1>2 DEF Parts
<1>4. ASSUME NEW i \in 1..n PROVE Fits(x[i]) /\ parts[i] = WrittenBools(x[i]) /\ parts[i] \in Seq(Booleans)
  BY <1>1, <1>2, <1>3, WalksAre
<1> HIDE DEF parts, n
<1>5. \A i \in 1..n : Listed(parts[i])
  BY <1>4 DEF Listed
<1>6. PrefixesOf(F, n, parts)
  <2>1. \E G : PrefixesOf(G, n, parts)
    BY <1>2, <1>5, PrefixesExist
  <2> QED BY <2>1 DEF Written, parts, n
<1> HIDE DEF F
<1>7. FlattenSeq(parts) = F[n]
  <2>1. 1 \in 1..n /\ parts = [i \in 1..n |-> parts[i]]
    BY <1>2, <1>3
  <2>2. Listed(parts[1])
    BY <1>5, <2>1
  <2> QED BY <1>2, <1>6, <2>1, <2>2, Flattening
<1> DEFINE S == {k \in Nat : k <= n => F[k] \in Seq(Booleans)}
<1>8. 0 \in S
  <2>1. F[0] = <<>>
    BY <1>6 DEF PrefixesOf
  <2>2. <<>> \in Seq(Booleans)
    BY EmptySeq
  <2> QED BY <2>1, <2>2, Zenon
<1>9. ASSUME NEW k \in Nat, k \in S PROVE k + 1 \in S
  <2> SUFFICES ASSUME k + 1 <= n PROVE F[k + 1] \in Seq(Booleans)
    OBVIOUS
  <2> DEFINE l == k + 1
  <2>1. l \in 1..n /\ l - 1 = k /\ F[k] \in Seq(Booleans)
    BY <1>2, <1>9
  <2> HIDE DEF l
  <2>2. F[l] = F[l - 1] \o parts[l]
    BY <1>6, <2>1, Zenon DEF PrefixesOf
  <2>3. F[l] = F[k] \o parts[l] /\ parts[l] \in Seq(Booleans)
    BY <1>4, <2>1, <2>2, Zenon
  <2>4. F[l] \in Seq(Booleans)
    BY <2>1, <2>3, ConcatProperties
  <2> QED BY <2>4 DEF l
<1>10. \A k \in Nat : k \in S
  <2> HIDE DEF S
  <2> QED BY <1>8, <1>9, NaturalInduction
<1>11. \A k \in 0..n : F[k] \in Seq(Booleans)
  BY <1>2, <1>10
<1> QED BY <1>2, <1>4, <1>6, <1>7, <1>11 DEF Consists, All, parts, n, F

LEMMA PrefixKept ==
  ASSUME NEW n \in Nat, NEW parts, NEW F, PrefixesOf(F, n, parts), \A i \in 1..n : Listed(parts[i]),
         NEW l \in 0..n
  PROVE  Len(F[l]) <= Len(F[n]) /\ \A x \in 1..Len(F[l]) : F[n][x] = F[l][x]
<1> DEFINE Kept(m) == Len(F[l]) <= Len(F[m]) /\ \A x \in 1..Len(F[l]) : F[m][x] = F[l][x]
           S == {k \in Nat : l + k <= n => Kept(l + k)}
<1>1. \A i \in 0..n : Listed(F[i]) /\ Len(F[i]) \in Nat
  BY ListedFacts DEF PrefixesOf
<1>2. 0 \in S
  <2>1. l + 0 = l /\ Kept(l)
    BY <1>1
  <2> HIDE DEF Kept
  <2> QED BY <2>1
<1>3. ASSUME NEW k \in Nat, k \in S PROVE k + 1 \in S
  <2> SUFFICES ASSUME l + (k + 1) <= n PROVE Kept(l + (k + 1))
    OBVIOUS
  <2> DEFINE m == l + k  j == l + (k + 1)
  <2>1. m \in 0..n /\ j \in 1..n /\ j - 1 = m
    OBVIOUS
  <2>2. Kept(m)
    <3> HIDE DEF Kept
    <3> QED BY <1>3, <2>1
  <2> HIDE DEF m, j
  <2>3. F[j] = F[m] \o parts[j]
    BY <2>1, Zenon DEF PrefixesOf
  <2>4. Joins(F[m], parts[j], F[j])
    BY <1>1, <2>1, <2>3, ListedJoin
  <2>5. Len(F[j]) = Len(F[m]) + Len(parts[j]) /\ \A x \in 1..Len(F[m]) : F[j][x] = F[m][x]
    BY <2>4 DEF Joins
  <2>6. Len(parts[j]) \in Nat /\ Len(F[m]) \in Nat /\ Len(F[l]) \in Nat
    BY <1>1, <2>1, ListedFacts, Zenon
  <2>7. Kept(j)
    <3>0. Len(F[l]) <= Len(F[m]) /\ \A x \in 1..Len(F[l]) : F[m][x] = F[l][x]
      BY <2>2
    <3>1. Len(F[l]) <= Len(F[m]) /\ Len(F[l]) <= Len(F[j])
      <4> DEFINE a == Len(F[l])  b == Len(F[m])  d == Len(parts[j])  z == Len(F[j])
      <4>1. a <= b /\ z = b + d
        BY <2>5, <3>0
      <4>2. a \in Nat /\ b \in Nat /\ d \in Nat
        BY <2>6
      <4> HIDE DEF a, b, d, z
      <4>3. a <= b /\ a <= z
        BY <4>1, <4>2
      <4> QED BY <4>3 DEF a, b, z
    <3>2. ASSUME NEW x \in 1..Len(F[l]) PROVE F[j][x] = F[l][x]
      <4>1. x \in 1..Len(F[m])
        BY <2>6, <3>1
      <4> QED BY <2>5, <3>0, <4>1
    <3> QED BY <3>1, <3>2
  <2> QED BY <2>7 DEF j
<1>4. \A k \in Nat : k \in S
  <2> HIDE DEF S
  <2> QED BY <1>2, <1>3, NaturalInduction
<1>5. n - l \in Nat /\ l + (n - l) = n
  OBVIOUS
<1>6. Kept(n)
  <2> HIDE DEF Kept
  <2> QED BY <1>4, <1>5
<1> QED BY <1>6

(* Where an element's booleans are among all of them.                        *)
LEMMA WhereElementIs ==
  ASSUME NEW x, Consists(x), NEW l \in 1..Len(x)
  PROVE  LET m == Len(Written(x)[l - 1])  r == WrittenBools(x[l])
         IN /\ m \in Nat /\ Len(r) \in Nat /\ Len(Written(x)[l]) = m + Len(r) /\ m + Len(r) <= Len(All(x))
            /\ \A i \in 1..Len(r) : All(x)[m + i] = r[i]
<1> DEFINE n == Len(x)  parts == Parts(x)  F == Written(x)  m == Len(F[l - 1])  r == WrittenBools(x[l])
<1>1. n \in Nat /\ l - 1 \in 0..n /\ l \in 0..n /\ n \in 0..n
  BY DEF Consists
<1>2. PrefixesOf(F, n, parts) /\ All(x) = F[n] /\ parts[l] = r /\ r \in Seq(Booleans)
  BY DEF Consists
<1>3. \A i \in 1..n : Listed(parts[i])
  BY Zenon DEF Consists, Listed
<1> HIDE DEF n, parts, F, r
<1>4. Len(F[l]) <= Len(F[n]) /\ \A z \in 1..Len(F[l]) : F[n][z] = F[l][z]
  BY <1>1, <1>2, <1>3, PrefixKept
<1>5. F[l] = F[l - 1] \o r
  BY <1>2, Zenon DEF PrefixesOf, n
<1>6. Listed(F[l - 1]) /\ Listed(r) /\ Len(F[n]) \in Nat
  <2>1. Listed(F[n]) /\ Listed(F[l - 1])
    BY <1>1, <1>2 DEF PrefixesOf
  <2> QED BY <1>2, <2>1, ListedFacts DEF Listed
<1>7. m \in Nat /\ Len(r) \in Nat
  BY <1>6, ListedFacts
<1>8. Joins(F[l - 1], r, F[l])
  BY <1>5, <1>6, ListedJoin
<1>9. Len(F[l]) = m + Len(r) /\ \A i \in 1..Len(r) : F[l][m + i] = r[i]
  BY <1>8 DEF Joins
<1> HIDE DEF m
<1>10. ASSUME NEW i \in 1..Len(r) PROVE F[n][m + i] = r[i]
  <2>1. m + i \in 1..Len(F[l])
    BY <1>7, <1>9
  <2> QED BY <1>4, <1>9, <2>1, Zenon
<1> QED BY <1>2, <1>4, <1>7, <1>9, <1>10, Zenon DEF m, r, F

LEMMA PartitionLength ==
  ASSUME NEW s \in Seq(Booleans)
  PROVE  Partition(s) \in Seq(Byte) /\ Len(Partition(s)) \in Nat /\ Len(Partition(s)) >= 4
BY InsideAtEnd

-----------------------------------------------------------------------------
(* Where a run is: k booleans written, or l elements parsed and i booleans    *)
(* into the next.                                                            *)
Writing ==
  /\ bytes = <<>> /\ got = <<>> /\ dec = InitPartition(<<>>) /\ parse = StartParse(plan[1].shape)
  /\ \E k \in 0..Len(All(plan)) : enc = Coder(All(plan), k) /\ unsent = LeftOf(All(plan), k)
Within(x, l, p, d, i) ==
  /\ i \in 0..Len(WrittenBools(x[l + 1])) /\ p = WalkFor(x[l + 1])[i]
  /\ DecodedTo(All(x), d, Len(Written(x)[l]) + i)
Reading ==
  /\ bytes = Partition(All(plan))
  /\ Listed(got) /\ Len(got) <= Len(plan) /\ \A i \in 1..Len(got) : got[i] = plan[i].value
  /\ IF Len(got) < Len(plan) THEN \E i : Within(plan, Len(got), parse, dec, i)
     ELSE parse.at # "done" /\ DecodedTo(All(plan), dec, Len(All(plan)))
PartitionInvariant == plan \in Content /\ (Writing \/ Reading)

LEMMA AllIs ==
  ASSUME NEW x, Consists(x)
  PROVE  All(x) \in Seq(Booleans) /\ Len(All(x)) \in Nat
<1>1. Len(x) \in 0..Len(x)
  BY DEF Consists
<1>2. All(x) \in Seq(Booleans)
  BY <1>1 DEF Consists
<1> QED BY <1>2, LenProperties

LEMMA LeftOfAll ==
  ASSUME NEW U, NEW s \in Seq(U)
  PROVE  LeftOf(s, 0) = s
<1> DEFINE n == Len(s)
<1>1. n \in Nat /\ s = [j \in 1..n |-> s[j]]
  BY LenProperties
<1>2. n - 0 = n /\ \A j \in 1..n : 0 + j = j
  BY <1>1
<1> HIDE DEF n
<1> QED BY <1>1, <1>2 DEF LeftOf, n

LEMMA LeftOfNone ==
  ASSUME NEW U, NEW s \in Seq(U), NEW k \in 0..Len(s)
  PROVE  LeftOf(s, k) = <<>> <=> k = Len(s)
<1> DEFINE n == Len(s)  l == LeftOf(s, k)  m == n - k
<1>1. n \in Nat /\ m \in Nat /\ (m = 0 <=> k = n)
  BY LenProperties
<1>2. l = [j \in 1..m |-> s[k + j]]
  BY DEF LeftOf
<1> HIDE DEF n, l, m
<1>3. Listed(l) /\ Len(l) = m
  <2>1. l = [j \in 1..m |-> l[j]]
    BY <1>2
  <2> QED BY <1>1, <2>1, ListedIs
<1>4. Listed(<<>>) /\ Len(<<>>) = 0
  BY ListedNone
<1>5. m = 0 => l = <<>>
  <2> SUFFICES ASSUME m = 0 PROVE l = <<>>
    OBVIOUS
  <2>1. Len(l) = Len(<<>>) /\ \A j \in 1..Len(l) : l[j] = <<>>[j]
    BY <1>3, <1>4
  <2> QED BY <1>3, <1>4, <2>1, ListedEqual
<1> QED BY <1>1, <1>3, <1>4, <1>5 DEF l, n

LEMMA ReadingIsNotEmpty ==
  ASSUME PartitionInvariant
  PROVE  /\ Consists(plan) /\ All(plan) \in Seq(Booleans) /\ Len(All(plan)) \in Nat
         /\ (bytes = <<>> => Writing) /\ (bytes # <<>> => Reading)
<1>1. Consists(plan)
  BY ContentHolds DEF PartitionInvariant
<1>2. All(plan) \in Seq(Booleans) /\ Len(All(plan)) \in Nat
  BY <1>1, AllIs
<1>3. Reading => bytes # <<>>
  <2> SUFFICES ASSUME Reading PROVE bytes # <<>>
    OBVIOUS
  <2> DEFINE b == Partition(All(plan))
  <2>1. b \in Seq(Byte) /\ Len(b) \in Nat /\ Len(b) >= 4
    BY <1>2, PartitionLength
  <2>2. bytes = b
    BY DEF Reading
  <2> HIDE DEF b
  <2>3. Len(<<>>) = 0
    BY ListedNone
  <2> QED BY <2>1, <2>2, <2>3
<1>4. Writing => bytes = <<>>
  BY DEF Writing
<1> QED BY <1>1, <1>2, <1>3, <1>4 DEF PartitionInvariant

LEMMA PartitionStarts == PartitionInit => PartitionInvariant
<1> SUFFICES ASSUME PartitionInit PROVE PartitionInvariant
  OBVIOUS
<1>1. plan \in Content /\ Consists(plan)
  BY ContentHolds DEF PartitionInit
<1>2. All(plan) \in Seq(Booleans) /\ Len(All(plan)) \in Nat
  BY <1>1, AllIs
<1>3. unsent = All(plan)
  BY DEF PartitionInit, All, Parts
<1>4. 0 \in 0..Len(All(plan)) /\ enc = Coder(All(plan), 0) /\ unsent = LeftOf(All(plan), 0)
  BY <1>2, <1>3, CoderSteps, LeftOfAll DEF PartitionInit
<1>5. Writing
  BY <1>4, Zenon DEF PartitionInit, Writing
<1> QED BY <1>1, <1>5 DEF PartitionInvariant

LEMMA WritesNext ==
  ASSUME PartitionInvariant, WriteNextBool
  PROVE  PartitionInvariant'
<1> DEFINE A == All(plan)
<1>1. Consists(plan) /\ A \in Seq(Booleans) /\ Len(A) \in Nat /\ Writing
  BY ReadingIsNotEmpty DEF WriteNextBool
<1>2. PICK k \in 0..Len(A) : enc = Coder(A, k) /\ unsent = LeftOf(A, k)
  BY <1>1 DEF Writing
<1>3. unsent # <<>> /\ enc' = WriteBool(enc, Head(unsent).prob, Head(unsent).bit) /\ unsent' = Tail(unsent)
      /\ UNCHANGED <<plan, bytes, dec, parse, got>>
  BY DEF WriteNextBool
<1> HIDE DEF A
<1>4. k # Len(A)
  BY <1>1, <1>2, <1>3, LeftOfNone
<1>5. k \in 0..Len(A) - 1 /\ k + 1 \in 1..Len(A) /\ k + 1 \in 0..Len(A) /\ (k + 1) - 1 = k
  BY <1>1, <1>4
<1>6. Head(LeftOf(A, k)) = A[k + 1] /\ Tail(LeftOf(A, k)) = LeftOf(A, k + 1)
  BY <1>1, <1>5, LeftOfIs
<1>7. enc' = Coder(A, k + 1) /\ unsent' = LeftOf(A, k + 1)
  <2> DEFINE l == k + 1
  <2>1. l \in 1..Len(A) /\ l - 1 = k
    BY <1>5
  <2> HIDE DEF l
  <2>2. Coder(A, l) = WriteBool(Coder(A, l - 1), A[l].prob, A[l].bit)
    BY <1>1, <2>1, CoderSteps
  <2>3. Coder(A, l) = WriteBool(Coder(A, k), A[l].prob, A[l].bit)
    BY <2>1, <2>2
  <2> QED BY <1>2, <1>3, <1>6, <2>3 DEF l
<1>8. All(plan)' = A
  BY <1>3 DEF A
<1>9. Writing'
  BY <1>1, <1>3, <1>5, <1>7, <1>8 DEF Writing
<1> QED BY <1>3, <1>9 DEF PartitionInvariant

LEMMA FinishesNext ==
  ASSUME PartitionInvariant, FinishPartition
  PROVE  PartitionInvariant'
<1> DEFINE A == All(plan)
<1>1. Consists(plan) /\ A \in Seq(Booleans) /\ Len(A) \in Nat /\ Writing
  BY ReadingIsNotEmpty DEF FinishPartition
<1>2. PICK k \in 0..Len(A) : enc = Coder(A, k) /\ unsent = LeftOf(A, k)
  BY <1>1 DEF Writing
<1>3. unsent = <<>> /\ bytes' = Finish(enc) /\ dec' = InitPartition(bytes') /\ UNCHANGED <<plan, unsent, enc, parse, got>>
  BY DEF FinishPartition
<1>4. All(plan)' = A /\ Written(plan)' = Written(plan)
  BY <1>3
<1> HIDE DEF A
<1>5. k = Len(A)
  BY <1>1, <1>2, <1>3, LeftOfNone, Zenon
<1>6. bytes' = Partition(A)
  BY <1>2, <1>3, <1>5 DEF Partition
<1>7. DecodedTo(A, dec', 0)
  BY <1>1, <1>3, <1>6, DecodingStarts
<1>8. got' = <<>> /\ plan' = plan /\ parse' = StartParse(plan[1].shape)
  BY <1>1, <1>3 DEF Writing
<1>9. Listed(<<>>) /\ Len(<<>>) = 0
  BY ListedNone
<1>10. 0 < Len(plan) /\ 1 \in 1..Len(plan) /\ 0 + 1 = 1
  BY <1>1 DEF Consists
<1>11. WalkFor(plan[1])[0] = StartParse(plan[1].shape) /\ Len(WrittenBools(plan[1])) \in Nat
  <2>1. Fits(plan[1]) /\ WrittenBools(plan[1]) \in Seq(Booleans)
    BY <1>1, <1>10 DEF Consists
  <2> QED BY <2>1, WalksAre, LenProperties DEF WalkOf
<1>12. Len(Written(plan)[0]) = 0
  <2>1. Written(plan)[0] = <<>>
    BY <1>1 DEF Consists, PrefixesOf
  <2> QED BY <1>9, <2>1
<1>13. Within(plan', 0, parse', dec', 0)
  <2>1. 0 \in 0..Len(WrittenBools(plan[1])) /\ Len(Written(plan)[0]) + 0 = 0
    BY <1>11, <1>12
  <2> QED BY <1>4, <1>7, <1>8, <1>10, <1>11, <2>1 DEF Within, A
<1>14. Reading'
  <2>1. \A i \in 1..0 : got'[i] = plan'[i].value
    OBVIOUS
  <2>2. Len(got)' = 0 /\ Listed(got)' /\ Len(plan)' = Len(plan) /\ Len(got)' <= Len(plan)'
    BY <1>8, <1>9, <1>10
  <2> QED BY <1>4, <1>6, <1>10, <1>13, <2>1, <2>2 DEF Reading, A
<1> QED BY <1>8, <1>14 DEF PartitionInvariant

LEMMA ReadsNext ==
  ASSUME PartitionInvariant, ReadNextBool
  PROVE  PartitionInvariant'
<1> DEFINE A == All(plan)  l == Len(got)  e == plan[l + 1]  f == WalkFor(e)  r == WrittenBools(e)
           m == Len(Written(plan)[l])  prob == NextProb(e.shape, parse)
<1>1. Consists(plan) /\ A \in Seq(Booleans) /\ Len(A) \in Nat /\ Reading
  BY ReadingIsNotEmpty DEF ReadNextBool
<1>2. /\ l < Len(plan) /\ parse.at # "done" /\ dec' = ReadBool(dec, prob)
      /\ parse' = (IF dec'.dry THEN parse ELSE Took(e.shape, parse, Decide(dec, prob)))
      /\ UNCHANGED <<plan, unsent, enc, bytes, got>>
  BY DEF ReadNextBool
<1>3. PICK i : Within(plan, l, parse, dec, i)
  BY <1>1, <1>2 DEF Reading
<1>4. l \in Nat /\ l + 1 \in 1..Len(plan) /\ (l + 1) - 1 = l
  <2>1. l \in Nat
    BY <1>1, ListedFacts DEF Reading
  <2>2. Len(plan) \in Nat
    BY <1>1 DEF Consists
  <2> HIDE DEF l
  <2> QED BY <1>2, <2>1, <2>2
<1>5. WalkOf(e, f) /\ Len(r) \in Nat
  <2>1. Fits(e) /\ r \in Seq(Booleans)
    BY <1>1, <1>4 DEF Consists
  <2> HIDE DEF e
  <2> QED BY <2>1, WalksAre, LenProperties
<1>6. m \in Nat /\ m + Len(r) <= Len(A) /\ \A j \in 1..Len(r) : A[m + j] = r[j]
  <2> DEFINE k == l + 1
  <2>1. k \in 1..Len(plan) /\ k - 1 = l
    BY <1>4
  <2> HIDE DEF k, l
  <2>2. LET m2 == Len(Written(plan)[k - 1])  r2 == WrittenBools(plan[k])
        IN m2 \in Nat /\ m2 + Len(r2) <= Len(All(plan)) /\ \A j \in 1..Len(r2) : All(plan)[m2 + j] = r2[j]
    BY <1>1, <2>1, WhereElementIs, Zenon
  <2> QED BY <2>1, <2>2, Zenon DEF k
<1>7. i \in 0..Len(r) /\ parse = f[i] /\ DecodedTo(A, dec, m + i)
  BY <1>3 DEF Within
<1>8. All(plan)' = A /\ Written(plan)' = Written(plan) /\ Len(got)' = l /\ plan' = plan
  BY <1>2
<1> HIDE DEF A, l, e, f, r, m
<1>9. i # Len(r)
  BY <1>2, <1>5, <1>7 DEF WalkOf, r
<1> DEFINE j == i + 1  n == m + j
<1>10. j \in 1..Len(r) /\ j - 1 = i /\ n \in 1..Len(A) /\ n - 1 = m + i /\ j \in 0..Len(r)
  BY <1>1, <1>5, <1>6, <1>7, <1>9
<1> HIDE DEF j, n
<1>11. prob = r[j].prob /\ f[j] = Took(e.shape, parse, r[j].bit) /\ A[n] = r[j]
  <2>1. NextProb(e.shape, f[i]) = r[j].prob /\ f[j] = Took(e.shape, f[i], r[j].bit)
    BY <1>5, <1>10 DEF WalkOf, Walking, r
  <2>2. A[n] = r[j]
    BY <1>6, <1>10 DEF n
  <2> QED BY <1>7, <2>1, <2>2
<1> HIDE DEF prob
<1>12. Decide(dec, prob) = r[j].bit /\ DecodedTo(A, dec', n)
  <2>1. DecodedTo(A, dec, n - 1)
    BY <1>7, <1>10
  <2>2. Decide(dec, A[n].prob) = A[n].bit /\ DecodedTo(A, ReadBool(dec, A[n].prob), n)
    BY <1>1, <1>10, <2>1, DecodesNext
  <2> QED BY <1>2, <1>11, <2>2
<1>13. parse' = f[j]
  <2>1. ~dec'.dry
    BY <1>12, NeverDry
  <2> QED BY <1>2, <1>11, <1>12, <2>1
<1>14. Within(plan', l, parse', dec', j)
  <2>1. parse' = WalkFor(plan[l + 1])[j] /\ j \in 0..Len(WrittenBools(plan[l + 1]))
        /\ DecodedTo(All(plan), dec', Len(Written(plan)[l]) + j)
    BY <1>10, <1>12, <1>13 DEF e, f, r, A, n, m
  <2> QED BY <1>8, <2>1 DEF Within, l, A
<1>15. Reading'
  <2>1. bytes' = Partition(A) /\ got' = got /\ Listed(got)
        /\ \A x \in 1..Len(got) : got[x] = plan[x].value
    BY <1>1, <1>2 DEF Reading, A
  <2>2. \E x : Within(plan', Len(got'), parse', dec', x)
    BY <1>8, <1>14 DEF l
  <2>3. Len(got') <= Len(plan') /\ Len(got') < Len(plan')
    BY <1>1, <1>2, <1>4, <1>8 DEF Reading, l
  <2>4. Listed(got') /\ \A x \in 1..Len(got') : got'[x] = plan'[x].value
    BY <1>8, <2>1
  <2> QED BY <1>8, <2>1, <2>2, <2>3, <2>4 DEF Reading, A
<1> QED BY <1>8, <1>15 DEF PartitionInvariant

LEMMA ReturnsNext ==
  ASSUME PartitionInvariant, ReturnValue
  PROVE  PartitionInvariant'
<1> DEFINE A == All(plan)  l == Len(got)  e == plan[l + 1]  f == WalkFor(e)  r == WrittenBools(e)
           m == Len(Written(plan)[l])  N == Len(plan)
<1>1. Consists(plan) /\ A \in Seq(Booleans) /\ Len(A) \in Nat
  BY ReadingIsNotEmpty
<1>2. /\ parse.at = "done" /\ got' = Append(got, parse.value)
      /\ parse' = StartParse(plan[IF l + 1 < N THEN l + 2 ELSE N].shape)
      /\ UNCHANGED <<plan, unsent, enc, bytes, dec>>
  BY DEF ReturnValue
<1>3. Reading
  <2>1. Writing => parse.at # "done"
    BY NotStartedDone DEF Writing
  <2> QED BY <1>2, <2>1 DEF PartitionInvariant
<1>4. l < N /\ \E i : Within(plan, l, parse, dec, i)
  BY <1>2, <1>3 DEF Reading
<1>5. PICK i : Within(plan, l, parse, dec, i)
  BY <1>4
<1>6. Listed(got) /\ l \in Nat /\ N \in Nat /\ l + 1 \in 1..N /\ (l + 1) - 1 = l
  <2>1. Listed(got) /\ l \in Nat
    BY <1>3, ListedFacts DEF Reading
  <2>2. N \in Nat
    BY <1>1 DEF Consists
  <2> HIDE DEF l, N
  <2> QED BY <1>4, <2>1, <2>2
<1>7. WalkOf(e, f) /\ Len(r) \in Nat
  <2>1. Fits(e) /\ r \in Seq(Booleans)
    BY <1>1, <1>6 DEF Consists
  <2> HIDE DEF e
  <2> QED BY <2>1, WalksAre, LenProperties
<1>8. i \in 0..Len(r) /\ parse = f[i] /\ DecodedTo(A, dec, m + i)
  BY <1>5 DEF Within
<1>9. All(plan)' = A /\ Written(plan)' = Written(plan) /\ plan' = plan
  BY <1>2
<1>10. Len(Written(plan)[l + 1]) = m + Len(r)
  <2> DEFINE k == l + 1
  <2>1. k \in 1..Len(plan) /\ k - 1 = l
    BY <1>6
  <2> HIDE DEF k, l
  <2>2. Len(Written(plan)[k]) = Len(Written(plan)[k - 1]) + Len(WrittenBools(plan[k]))
    BY <1>1, <2>1, WhereElementIs, Zenon
  <2> QED BY <2>1, <2>2, Zenon DEF k
<1> HIDE DEF A, l, e, f, r, m, N
<1>11. i = Len(r)
  <2>1. ASSUME i # Len(r) PROVE FALSE
    <3> DEFINE j == i + 1
    <3>1. j \in 1..Len(r) /\ j - 1 = i
      BY <1>7, <1>8, <2>1
    <3> HIDE DEF j
    <3>2. f[i].at # "done"
      BY <1>7, <3>1 DEF WalkOf, Walking, r
    <3> QED BY <1>2, <1>8, <3>2
  <2> QED BY <2>1
<1>12. parse.value = e.value
  BY <1>7, <1>8, <1>11 DEF WalkOf, r
<1>13. got' = got \o <<e.value>>
  BY <1>2, <1>6, <1>12, ListedAppend
<1>14. Listed(got') /\ Len(got') = l + 1 /\ \A x \in 1..l + 1 : got'[x] = plan[x].value
  <2>1. Listed(<<e.value>>) /\ Len(<<e.value>>) = 1 /\ <<e.value>>[1] = e.value
    BY ListedOne
  <2>2. Joins(got, <<e.value>>, got')
    BY <1>6, <1>13, <2>1, ListedJoin
  <2>3. /\ Listed(got') /\ Len(got') = l + 1 /\ \A x \in 1..l : got'[x] = got[x]
        /\ \A x \in 1..1 : got'[l + x] = <<e.value>>[x]
    BY <2>1, <2>2 DEF Joins, l
  <2>4. got'[l + 1] = e.value
    BY <2>1, <2>3
  <2>5. \A x \in 1..l : got[x] = plan[x].value
    BY <1>3 DEF Reading, l
  <2>6. \A x \in 1..l + 1 : x \in 1..l \/ x = l + 1
    BY <1>6
  <2> QED BY <2>3, <2>4, <2>5, <2>6 DEF e
<1>15. CASE l + 1 < N
  <2> DEFINE k == l + 1
  <2>1. k + 1 = l + 2 /\ k < N /\ k + 1 \in 1..N
    BY <1>6, <1>15
  <2>2. parse' = StartParse(plan[k + 1].shape)
    BY <1>2, <1>15, <2>1
  <2>3. Len(Written(plan)[k]) + 0 = m + i
    BY <1>6, <1>7, <1>8, <1>10, <1>11
  <2> HIDE DEF k
  <2>4. WalkFor(plan[k + 1])[0] = StartParse(plan[k + 1].shape) /\ 0 \in 0..Len(WrittenBools(plan[k + 1]))
    <3>1. Fits(plan[k + 1]) /\ WrittenBools(plan[k + 1]) \in Seq(Booleans)
      BY <1>1, <2>1 DEF Consists, N
    <3>2. WalkOf(plan[k + 1], WalkFor(plan[k + 1])) /\ Len(WrittenBools(plan[k + 1])) \in Nat
      BY <3>1, WalksAre, LenProperties
    <3> QED BY <3>2 DEF WalkOf
  <2>5. DecodedTo(A, dec', Len(Written(plan)[k]) + 0)
    BY <1>2, <1>8, <2>3
  <2>6. Within(plan', k, parse', dec', 0)
    BY <1>9, <2>2, <2>4, <2>5 DEF Within
  <2>7. Reading'
    <3>1. bytes' = Partition(A) /\ Len(got') = k /\ Len(plan') = N
      BY <1>2, <1>3, <1>14 DEF Reading, A, k, N
    <3>2. Listed(got') /\ \A x \in 1..Len(got') : got'[x] = plan'[x].value
      BY <1>9, <1>14
    <3>3. \E x : Within(plan', Len(got'), parse', dec', x)
      BY <2>6, <3>1
    <3>4. Len(got') <= Len(plan') /\ Len(got') < Len(plan')
      BY <1>6, <2>1, <3>1 DEF k
    <3> QED BY <1>9, <3>1, <3>2, <3>3, <3>4 DEF Reading, A
  <2> QED BY <1>9, <2>7 DEF PartitionInvariant
<1>16. CASE ~(l + 1 < N)
  <2>1. l + 1 = N
    BY <1>6, <1>16
  <2>2. parse'.at # "done"
    BY <1>2, NotStartedDone
  <2>3. DecodedTo(A, dec', Len(A))
    <3>1. A = Written(plan)[N]
      BY <1>1 DEF Consists, A, N
    <3>2. Len(A) = m + i
      BY <1>10, <1>11, <2>1, <3>1
    <3> QED BY <1>2, <1>8, <3>2
  <2>4. Reading'
    <3>1. bytes' = Partition(A) /\ Len(got') = N /\ Len(plan') = N
      BY <1>2, <1>3, <1>14, <2>1 DEF Reading, A, N
    <3>2. Listed(got') /\ \A x \in 1..Len(got') : got'[x] = plan'[x].value
      BY <1>9, <1>14
    <3>3. Len(got') <= Len(plan') /\ ~(Len(got') < Len(plan'))
      BY <1>6, <3>1
    <3> QED BY <1>9, <2>2, <2>3, <3>1, <3>2, <3>3 DEF Reading, A
  <2> QED BY <1>9, <2>4 DEF PartitionInvariant
<1> QED BY <1>15, <1>16

LEMMA InvariantReads == PartitionInvariant => ReadsWhatWasWritten
<1> SUFFICES ASSUME PartitionInvariant PROVE ReadsWhatWasWritten
  OBVIOUS
<1>1. CASE bytes = <<>>
  <2>1. got = <<>> /\ dec = InitPartition(<<>>)
    BY <1>1, ReadingIsNotEmpty DEF Writing
  <2>2. ~dec.dry
    BY <2>1 DEF InitPartition
  <2>3. \A i \in DOMAIN got : got[i] = plan[i].value
    <3>1. Listed(<<>>) /\ Len(<<>>) = 0
      BY ListedNone
    <3>2. DOMAIN got = 1..0
      BY <2>1, <3>1, ListedFacts
    <3> QED BY <3>2
  <2> QED BY <2>2, <2>3 DEF ReadsWhatWasWritten
<1>2. CASE bytes # <<>>
  <2>1. Reading
    BY <1>2, ReadingIsNotEmpty
  <2>2. DOMAIN got = 1..Len(got)
    BY <2>1, ListedFacts DEF Reading
  <2>3. \E n : DecodedTo(All(plan), dec, n)
    BY <2>1 DEF Reading, Within
  <2>4. ~dec.dry
    BY <2>3, NeverDry
  <2> QED BY <2>1, <2>2, <2>4 DEF ReadsWhatWasWritten, Reading
<1> QED BY <1>1, <1>2

(* A decoder reads every element of a partition as it was written, whatever   *)
(* the elements, their contexts and their probabilities, and never runs out   *)
(* of bytes (encoder.rs 284-309, bool_decoder.rs 36-42, 159-183).             *)
THEOREM AlwaysReadsWhatWasWritten == PartitionSpec => []ReadsWhatWasWritten
<1>1. PartitionInvariant /\ [PartitionNext]_partition_vars => PartitionInvariant'
  <2> SUFFICES ASSUME PartitionInvariant, [PartitionNext]_partition_vars PROVE PartitionInvariant'
    OBVIOUS
  <2>1. CASE WriteNextBool
    BY <2>1, WritesNext
  <2>2. CASE FinishPartition
    BY <2>2, FinishesNext
  <2>3. CASE ReadNextBool
    BY <2>3, ReadsNext
  <2>4. CASE ReturnValue
    BY <2>4, ReturnsNext
  <2>5. CASE UNCHANGED partition_vars
    BY <2>5 DEF partition_vars, PartitionInvariant, Writing, Reading, Within
  <2> QED BY <2>1, <2>2, <2>3, <2>4, <2>5 DEF PartitionNext
<1> QED BY PartitionStarts, <1>1, InvariantReads, PTL DEF PartitionSpec
=============================================================================
