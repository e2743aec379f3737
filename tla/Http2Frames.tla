------------------------------ MODULE Http2Frames ------------------------------
(***************************************************************************)
(* Frames on the wire: how each type is laid out in bytes and read back,   *)
(* and the operations of Http2ConnImpl that write a frame and read frames  *)
(* through its ring buffer, in pieces of any length: one frame, a batch of *)
(* frames, a batch of views of the bytes in the ring, or, as the TLS loop  *)
(* and byte-oriented callers do it, feeding bytes and parsing the ring.    *)
(*                                                                         *)
(* A byte is a number below 256, header blocks and DATA are sequences of   *)
(* bytes, 32-bit fields hold numbers below 2^31.                           *)
(***************************************************************************)
EXTENDS Integers, Sequences, SequencesExt

CONSTANTS
  Frames,   \* bound: frames the peer builds with the classes of this library
  Foreign,  \* bound: other frames it may send, as bytes
  MaxSent,  \* bound: frames sent on the connection
  MaxPiece, \* bound: bytes that are written at once
  Capacity, \* bytes of the ring buffer
  MaxFrame  \* m_peer_settings.max_frame_size

VARIABLES
  mode,    \* how frames are read: "one", "frames" or "views", the three read
           \* operations, or "fed": the bytes are fed and the ring is parsed
  sent,    \* frames and foreign bytes handed to writeFrame/writeRaw, in order
  data,    \* Http2WriteState: what is left to write
  wire,    \* bytes on their way
  ring,    \* memory of m_ring_buffer: [mem, start, count]
  views,   \* views of the last batch that are still to be looked at
  got,     \* frames the reader has handed to the stream manager
  outcome, \* "reading", or the error the read operation has completed with
  ended    \* whether the peer has closed the connection

vars == <<mode, sent, data, wire, ring, views, got, outcome, ended>>

Ack      == 1
Padded   == 8
Priority == 32
Has(frame, flag) == (frame.flags \div flag) % 2 = 1
-----------------------------------------------------------------------------
(***************************************************************************)
(* Layout.                                                                 *)
(***************************************************************************)
Big(n, width) == [i \in 1 .. width |-> (n \div 256 ^ (width - i)) % 256]
Number(bytes) == FoldLeft(LAMBDA n, byte : 256 * n + byte, 0, bytes)
Low31(bytes)  == Number(<<bytes[1] % 128>> \o Tail(bytes))

HeaderBytes(frame, length) ==
  Big(length, 3) \o <<frame.type, frame.flags>> \o Big(frame.sid, 4)

WithPadding(frame, body) ==
  IF Has(frame, Padded) THEN <<frame.pad>> \o body \o [i \in 1 .. frame.pad |-> 0] ELSE body

(* The five bytes of a dependency: the exclusive flag is the top bit.      *)
Dependency(frame) ==
  [Big(frame.dep, 4) EXCEPT ![1] = @ + (IF frame.exclusive THEN 128 ELSE 0)] \o <<frame.weight>>

DataBody(frame)         == WithPadding(frame, frame.block)
HeadersBody(frame)      == WithPadding(frame, (IF Has(frame, Priority) THEN Dependency(frame) ELSE <<>>) \o frame.block)
PriorityBody(frame)     == Dependency(frame)
RstStreamBody(frame)    == Big(frame.code, 4)
SettingsBody(frame)     == IF Has(frame, Ack) THEN <<>>
                           ELSE FlattenSeq([i \in 1 .. Len(frame.settings) |->
                                  Big(frame.settings[i][1], 2) \o Big(frame.settings[i][2], 4)])
PushPromiseBody(frame)  == WithPadding(frame, Big(frame.promised, 4) \o frame.block)
PingBody(frame)         == frame.opaque
GoAwayBody(frame)       == Big(frame.last, 4) \o Big(frame.code, 4) \o frame.debug
WindowUpdateBody(frame) == Big(frame.increment, 4)
ContinuationBody(frame) == frame.block

(* Frame::serialize; SETTINGS, PING and GOAWAY always carry stream 0.      *)
Serialize(frame) ==
  LET body == CASE frame.type = 0 -> DataBody(frame)         [] frame.type = 1 -> HeadersBody(frame)
                [] frame.type = 2 -> PriorityBody(frame)     [] frame.type = 3 -> RstStreamBody(frame)
                [] frame.type = 4 -> SettingsBody(frame)     [] frame.type = 5 -> PushPromiseBody(frame)
                [] frame.type = 6 -> PingBody(frame)         [] frame.type = 7 -> GoAwayBody(frame)
                [] frame.type = 8 -> WindowUpdateBody(frame) [] frame.type = 9 -> ContinuationBody(frame)
  IN  HeaderBytes(IF frame.type \in {4, 6, 7} THEN [frame EXCEPT !.sid = 0] ELSE frame, Len(body)) \o body
-----------------------------------------------------------------------------
(***************************************************************************)
(* Reading a frame back.  `h` is its header, `p` its payload; the result   *)
(* is <<frame>>, or the error.                                             *)
(***************************************************************************)
Bad(code) == [error |-> code]
IsBad(result) == DOMAIN result = {"error"}
Header(bytes) == [length |-> Number(SubSeq(bytes, 1, 3)), type |-> bytes[4], flags |-> bytes[5],
                  sid |-> Low31(SubSeq(bytes, 6, 9))]
Plain(h)      == [type |-> h.type, flags |-> h.flags, sid |-> h.sid]
From(p, i)    == SubSeq(p, i, Len(p))

(* Length of the padding, 0 where there is none; the byte that holds it.   *)
PadOf(h, p)  == IF Has(h, Padded) THEN p[1] ELSE 0
Skipped(h)   == IF Has(h, Padded) THEN 1 ELSE 0
Unpadded(h, p, i) == SubSeq(p, i, Len(p) - PadOf(h, p))

ParseData(h, p) ==
  IF Has(h, Padded) /\ Len(p) < 1 THEN Bad("FrameSizeError")
  ELSE IF Has(h, Padded) /\ p[1] >= Len(p) THEN Bad("ProtocolError")
  ELSE [pad |-> PadOf(h, p), block |-> Unpadded(h, p, Skipped(h) + 1)] @@ Plain(h)

ParseHeaders(h, p) ==
  LET i == Skipped(h) + (IF Has(h, Priority) THEN 5 ELSE 0)
      d == From(p, Skipped(h) + 1)
  IN  IF \/ Has(h, Padded) /\ Len(p) < 1
         \/ Has(h, Priority) /\ Len(p) - Skipped(h) < 5 THEN Bad("FrameSizeError")
      ELSE IF i + PadOf(h, p) > Len(p) THEN Bad("ProtocolError")
      ELSE [pad |-> PadOf(h, p), block |-> Unpadded(h, p, i + 1),
            exclusive |-> Has(h, Priority) /\ d[1] >= 128,
            dep |-> IF Has(h, Priority) THEN Low31(SubSeq(d, 1, 4)) ELSE 0,
            weight |-> IF Has(h, Priority) THEN d[5] ELSE 16] @@ Plain(h)

ParsePriority(h, p) ==
  IF Len(p) # 5 THEN Bad("FrameSizeError")
  ELSE [exclusive |-> p[1] >= 128, dep |-> Low31(SubSeq(p, 1, 4)), weight |-> p[5]] @@ Plain(h)

ParseRstStream(h, p) ==
  IF Len(p) # 4 THEN Bad("FrameSizeError") ELSE [code |-> Number(p)] @@ Plain(h)

ParseSettings(h, p) ==
  IF Has(h, Ack) THEN IF p # <<>> THEN Bad("FrameSizeError") ELSE [settings |-> <<>>] @@ Plain(h)
  ELSE IF Len(p) % 6 # 0 THEN Bad("FrameSizeError")
  ELSE [settings |-> [k \in 1 .. Len(p) \div 6 |->
          <<Number(SubSeq(p, 6 * k - 5, 6 * k - 4)), Number(SubSeq(p, 6 * k - 3, 6 * k))>>]] @@ Plain(h)

ParsePushPromise(h, p) ==
  LET i == Skipped(h)
  IN  IF (Has(h, Padded) /\ Len(p) < 1) \/ Len(p) - i < 4 THEN Bad("FrameSizeError")
      ELSE IF i + 4 + PadOf(h, p) > Len(p) THEN Bad("ProtocolError")
      ELSE [pad |-> PadOf(h, p), promised |-> Low31(SubSeq(p, i + 1, i + 4)),
            block |-> Unpadded(h, p, i + 5)] @@ Plain(h)

ParsePing(h, p) == IF Len(p) # 8 THEN Bad("FrameSizeError") ELSE [opaque |-> p] @@ Plain(h)

ParseGoAway(h, p) ==
  IF Len(p) < 8 THEN Bad("FrameSizeError")
  ELSE [last |-> Low31(SubSeq(p, 1, 4)), code |-> Number(SubSeq(p, 5, 8)), debug |-> From(p, 9)] @@ Plain(h)

ParseWindowUpdate(h, p) ==
  IF Len(p) # 4 THEN Bad("FrameSizeError")
  ELSE IF Low31(p) = 0 THEN Bad("ProtocolError")
  ELSE [increment |-> Low31(p)] @@ Plain(h)

ParseContinuation(h, p) == [block |-> p] @@ Plain(h)

(* Http2FrameParser::parseFrame of a whole frame.                          *)
ParseFrame(bytes) ==
  LET h == Header(bytes)
      p == From(bytes, 10)
  IN  CASE h.type = 0 -> ParseData(h, p)         [] h.type = 1 -> ParseHeaders(h, p)
        [] h.type = 2 -> ParsePriority(h, p)     [] h.type = 3 -> ParseRstStream(h, p)
        [] h.type = 4 -> ParseSettings(h, p)     [] h.type = 5 -> ParsePushPromise(h, p)
        [] h.type = 6 -> ParsePing(h, p)         [] h.type = 7 -> ParseGoAway(h, p)
        [] h.type = 8 -> ParseWindowUpdate(h, p) [] h.type = 9 -> ParseContinuation(h, p)
        [] OTHER      -> Bad("ProtocolError")
-----------------------------------------------------------------------------
(***************************************************************************)
(* The ring buffer, and the frame at its front.                            *)
(***************************************************************************)
Low(a, b) == IF a < b THEN a ELSE b

At(r, i)      == r.mem[((r.start + i - 1) % Capacity) + 1]
Readable(r)   == [i \in 1 .. r.count |-> At(r, i)]
Prefix(r, n)  == [i \in 1 .. n |-> At(r, i)]
InOnePiece(r) == Low(r.count, Capacity - r.start)
Room(r)       == Capacity - r.count
Consume(r, n) == [r EXCEPT !.start = (@ + n) % Capacity, !.count = @ - n]
Produce(r, bytes) ==
  [r EXCEPT !.mem = [i \in 1 .. Capacity |->
                       LET k == ((i - 1 + 2 * Capacity - r.start - r.count) % Capacity) + 1
                       IN  IF k <= Len(bytes) THEN bytes[k] ELSE r.mem[i]],
            !.count = @ + Len(bytes)]

(* inspectBufferedFrame: no size yet, a size, or an error.                 *)
FrameSize(r) == 9 + Number(Prefix(r, 3))
TooLarge(r)  == r.count >= 9 /\ FrameSize(r) - 9 > MaxFrame
Complete(r)  == r.count >= 9 /\ ~TooLarge(r) /\ r.count >= FrameSize(r)

(* A view borrows the bytes of the ring when they lie in one piece, and    *)
(* has a copy of them otherwise.                                           *)
View(r) ==
  [at |-> r.start, size |-> FrameSize(r),
   copy |-> IF InOnePiece(r) >= FrameSize(r) THEN <<>> ELSE Prefix(r, FrameSize(r))]

FrameAt(r) == ParseFrame(Prefix(r, FrameSize(r)))
Refused(r) == mode # "views" /\ IsBad(FrameAt(r))

(* One turn of the loop over the buffered frames: frames that were taken   *)
(* out of the ring before the one that is refused go with it.              *)
TakeFrame(b) ==
  IF b.error # "" \/ ~(TooLarge(b.ring) \/ Complete(b.ring)) THEN b
  ELSE IF TooLarge(b.ring) THEN [b EXCEPT !.error = "FrameSizeError", !.taken = <<>>]
  ELSE IF Refused(b.ring) THEN [b EXCEPT !.error = FrameAt(b.ring).error, !.taken = <<>>]
  ELSE [b EXCEPT !.taken = Append(@, IF mode = "views" THEN View(b.ring) ELSE FrameAt(b.ring)),
                 !.ring = Consume(@, FrameSize(b.ring))]

Batch(r, limit) ==
  FoldLeft(LAMBDA b, i : TakeFrame(b), [ring |-> r, taken |-> <<>>, error |-> ""],
           [i \in 1 .. limit |-> i])

(* parseBufferedFrames, the loop once more, for bytes that were fed.       *)
ParseBufferedFrames(r) == Batch(r, MaxSent)
-----------------------------------------------------------------------------
Init ==
  /\ mode \in {"one", "frames", "views", "fed"}
  /\ sent = <<>> /\ data = <<>> /\ wire = <<>>
  /\ ring = [mem |-> [i \in 1 .. Capacity |-> 0], start |-> 0, count |-> 0]
  /\ views = <<>> /\ got = <<>>
  /\ outcome = "reading" /\ ended = "no"

(* writeFrame and writeRaw; the next frame is written when this one is.    *)
Send(frame) ==
  /\ ended = "no" /\ data = <<>> /\ Len(sent) < MaxSent
  /\ data' = Serialize(frame)
  /\ sent' = Append(sent, frame)
  /\ UNCHANGED <<mode, wire, ring, views, got, outcome, ended>>

SendForeign(bytes) ==
  /\ ended = "no" /\ data = <<>> /\ Len(sent) < MaxSent
  /\ data' = bytes
  /\ sent' = Append(sent, [foreign |-> bytes])
  /\ UNCHANGED <<mode, wire, ring, views, got, outcome, ended>>

(* onBytesSent.  Bound: one piece under way, of MaxPiece bytes or all.     *)
Write ==
  /\ data # <<>> /\ wire = <<>>
  /\ \E n \in (1 .. Low(MaxPiece, Len(data))) \cup {Len(data)} :
       wire' = SubSeq(data, 1, n) /\ data' = From(data, n + 1)
  /\ UNCHANGED <<mode, sent, ring, views, got, outcome, ended>>

(* The peer closes its socket, or its write fails; close() on this side.   *)
End ==
  /\ ended = "no"
  /\ ended' \in {"peer", "here"}
  /\ data' = <<>>
  /\ UNCHANGED <<mode, sent, wire, ring, views, got, outcome>>

(* parseFromRingBuffer of the three operations, or parseBufferedFrames.    *)
Read ==
  /\ outcome = "reading" /\ views = <<>>
  /\ TooLarge(ring) \/ Complete(ring)
  /\ \E b \in {IF mode = "fed" THEN ParseBufferedFrames(ring)
               ELSE Batch(ring, IF mode = "one" THEN 1 ELSE MaxSent)} :
       /\ ring' = b.ring
       /\ outcome' = IF b.error = "" THEN outcome ELSE b.error
       /\ IF mode = "views" THEN views' = b.taken /\ UNCHANGED got
          ELSE got' = got \o b.taken /\ UNCHANGED views
  /\ UNCHANGED <<mode, sent, data, wire, ended>>

(* What the stream manager makes of a view: unpadded HEADERS, DATA and     *)
(* CONTINUATION are used as they are, others are parsed from the bytes.    *)
Bytes(view) == IF view.copy # <<>> THEN view.copy ELSE SubSeq(ring.mem, view.at + 1, view.at + view.size)

BuggyViewed(view) ==
  LET bytes == Bytes(view)
      h == Header(bytes)
      p == From(bytes, 10)
  IN  CASE h.type = 1 /\ ~Has(h, Padded) ->
             [pad |-> 0, block |-> p, exclusive |-> FALSE, dep |-> 0, weight |-> 16] @@ Plain(h)
        [] h.type = 9                    -> [block |-> p] @@ Plain(h)
        [] h.type = 0 /\ ~Has(h, Padded) -> [pad |-> 0, block |-> p] @@ Plain(h)
        [] OTHER                         -> ParseFrame(bytes)

Viewed(view) ==
  LET bytes == Bytes(view)
      h == Header(bytes)
      p == From(bytes, 10)
  IN  CASE h.type = 1 /\ ~Has(h, Padded) /\ ~Has(h, Priority) ->
             [pad |-> 0, block |-> p, exclusive |-> FALSE, dep |-> 0, weight |-> 16] @@ Plain(h)
        [] h.type = 9                    -> [block |-> p] @@ Plain(h)
        [] h.type = 0 /\ ~Has(h, Padded) -> [pad |-> 0, block |-> p] @@ Plain(h)
        [] OTHER                         -> ParseFrame(bytes)

(* The reader loop goes through the views before it reads again.           *)
HandleView ==
  /\ views # <<>>
  /\ \E frame \in {Viewed(Head(views))} :
       IF IsBad(frame)
       THEN views' = <<>> /\ outcome' = frame.error /\ UNCHANGED got
       ELSE views' = Tail(views) /\ got' = Append(got, frame) /\ UNCHANGED outcome
  /\ UNCHANGED <<mode, sent, data, wire, ring, ended>>

(* The read operation waits only while no whole frame is buffered.         *)
Waits == outcome = "reading" /\ views = <<>> /\ ~TooLarge(ring) /\ ~Complete(ring)

(* The socket fills what is free of the ring, or a buffer of that size     *)
(* which feedData copies: what does not fit would be lost.                 *)
FeedData(r, bytes) == Produce(r, SubSeq(bytes, 1, Low(Len(bytes), Room(r))))

Receive ==
  /\ Waits /\ ended # "here" /\ Room(ring) > 0 /\ wire # <<>>
  /\ \E n \in {Low(Len(wire), Room(ring))} :
       /\ ring' = IF mode = "fed" THEN FeedData(ring, SubSeq(wire, 1, n))
                  ELSE Produce(ring, SubSeq(wire, 1, n))
       /\ wire' = From(wire, n + 1)
  /\ UNCHANGED <<mode, sent, data, views, got, outcome, ended>>

(* completeIfClosing, a full ring, and the end of the peer's bytes.        *)
GiveUp ==
  /\ Waits
  /\ \/ ended = "here"
     \/ Room(ring) = 0
     \/ ended = "peer" /\ wire = <<>>
  /\ outcome' = "ProtocolError"
  /\ UNCHANGED <<mode, sent, data, wire, ring, views, got, ended>>

Next ==
  \/ \E frame \in Frames : Send(frame)
  \/ \E bytes \in Foreign : SendForeign(bytes)
  \/ Write \/ End \/ Read \/ HandleView \/ Receive \/ GiveUp

Spec == Init /\ [][Next]_vars
-----------------------------------------------------------------------------
(* Whatever the pieces in which the bytes arrive, wherever the ring wraps  *)
(* and whichever operation reads, the frames that are handed on are the    *)
(* frames that were sent, in order, field by field; none is missing when   *)
(* all bytes have been read; only bytes that are no frame make the reader  *)
(* fail, and nothing is made of them (parsePayload of each type).          *)
FramesArriveAsSent ==
  /\ IsPrefix(got, sent)
  /\ (ended = "no" /\ \A i \in 1 .. Len(sent) : sent[i] \in Frames) => outcome = "reading"
  /\ (outcome = "reading" /\ views = <<>> /\ ring.count = 0 /\ wire = <<>> /\ data = <<>> /\ ended = "no")
       => got = sent
================================================================================
