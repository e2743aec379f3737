-------------------------------- MODULE WsFrames --------------------------------
(***************************************************************************)
(* WebSocket frames on the wire, the parsers of WsFrameParser and of the   *)
(* fast path, and the message reader that is built on both.                *)
(*                                                                         *)
(* A frame [fin, op, payload] is on the wire a sequence of units           *)
(* <<kind, value>>, as those of Http1Message: its first bytes with the     *)
(* length, the masking key if it is masked, and the bytes of its payload.  *)
(* A byte has a value v, a number n that tells it from all others, and a   *)
(* mark that it is masked; masking it twice restores it.  The values       *)
(* "lead" and "tail" are the halves of one character.                      *)
(***************************************************************************)
EXTENDS Naturals, Sequences, SequencesExt, FiniteSetsExt

IsControlFrame(op) == op \in {"ping", "pong", "close"}

ApplyMask(payload) ==
  [i \in DOMAIN payload |->
     IF payload[i][1] = "p" THEN <<"p", [payload[i][2] EXCEPT !.masked = ~@]>> ELSE payload[i]]

(* appendFrameHeader and encodeInto.                                       *)
AppendFrameHeader(frame, mask) ==
  <<<<"hd", [fin |-> frame.fin, op |-> frame.op, mask |-> mask, len |-> Len(frame.payload)]>>>>
    \o (IF mask THEN <<<<"key", 0>>>> ELSE <<>>)

Encode(frame, mask) ==
  AppendFrameHeader(frame, mask) \o (IF mask THEN ApplyMask(frame.payload) ELSE frame.payload)

Whole(op, payload) == [fin |-> TRUE, op |-> op, payload |-> payload]

(* Masked bytes are noise: some character of them is cut short.            *)
IsValidUtf8(payload) ==
  /\ \A i \in DOMAIN payload : payload[i][1] = "p" /\ ~payload[i][2].masked
  /\ \A i \in DOMAIN payload :
    /\ payload[i][2].v = "lead" => i < Len(payload) /\ payload[i + 1][2].v = "tail"
    /\ payload[i][2].v = "tail" => i > 1 /\ payload[i - 1][2].v = "lead"

HeaderLength(h) == IF h.mask THEN 2 ELSE 1
FrameLength(h)  == HeaderLength(h) + h.len
PayloadAt(d)    == SubSeq(d, HeaderLength(d[1][2]) + 1, FrameLength(d[1][2]))
-----------------------------------------------------------------------------
(***************************************************************************)
(* WsFrameParser::fromIOVec over the units d.  Anything but the start of a *)
(* frame sets reserved bits: it is the text of HTTP.                       *)
(***************************************************************************)
NoFrame == Whole("close", <<>>)

HeaderError(h, isServer) ==
  IF IsControlFrame(h.op) /\ ~h.fin THEN "kWsControlFrameFragmented"
  ELSE IF isServer /\ ~h.mask       THEN "kWsMaskRequired"
  ELSE IF ~isServer /\ h.mask       THEN "kWsMaskNotAllowed"
  ELSE "none"

FrameFromIOVec(d, isServer) ==
  LET h       == d[1][2]
      payload == IF h.mask THEN ApplyMask(PayloadAt(d)) ELSE PayloadAt(d)
      none(err) == [err |-> err, used |-> 0, frame |-> NoFrame]
  IN  IF d = <<>> THEN none("kWsIncomplete")
      ELSE IF d[1][1] # "hd" THEN none("kWsReservedBitsSet")
      ELSE IF HeaderError(h, isServer) # "none" THEN none(HeaderError(h, isServer))
      ELSE IF Len(d) < FrameLength(h) THEN none("kWsIncomplete")
      ELSE IF h.op = "text" /\ h.fin /\ ~IsValidUtf8(payload) THEN none("kWsInvalidUtf8")
      ELSE [err |-> "none", used |-> FrameLength(h),
            frame |-> [fin |-> h.fin, op |-> h.op, payload |-> payload]]

(* scanWsMessageFastPathPrefix.                                            *)
ScanFastPathPrefix(d, isServer) ==
  LET h == d[1][2]
  IN  IF d = <<>> THEN "kNeedMore"
      ELSE IF d[1][1] # "hd" \/ IsControlFrame(h.op) \/ h.mask # isServer THEN "kFallback"
      ELSE IF Len(d) < FrameLength(h) THEN "kNeedMore"
      ELSE "kContinue"

(* bindWsConsumeFastPathView: a whole data frame that is a message.        *)
CanEchoInPlace(d, isServer) ==
  /\ ScanFastPathPrefix(d, isServer) = "kContinue"
  /\ d[1][2].fin /\ d[1][2].op \in {"text", "binary"}
  /\ d[1][2].op = "text" => IsValidUtf8(ApplyMask(PayloadAt(d)))
-----------------------------------------------------------------------------
(***************************************************************************)
(* WsMessageReadState.  It keeps whether it is at the first frame of a     *)
(* message, what it has of the message, its opcode, and the bytes it has   *)
(* received since it was made.                                             *)
(***************************************************************************)
CONSTANT MaxMessageSize

FreshMessage == [first |-> TRUE, message |-> <<>>, op |-> "close", received |-> 0]

(* A turn over the ring leaves the reader, what is left of the ring, and   *)
(* an outcome: "go" on, "more" is needed, a "message", or an error.        *)
Turn(rd, ring, out) == [rd |-> rd, ring |-> ring, out |-> out]

(* What waits in the ring is counted on top of all that was received.      *)
NeedMore(x) ==
  [x EXCEPT !.out = IF Len(x.rd.message) + x.rd.received + Len(x.ring) > MaxMessageSize
                    THEN "kWsMessageTooLarge" ELSE "more"]

AcceptFrame(x, frame, used) ==
  LET message == (IF x.rd.first THEN <<>> ELSE x.rd.message) \o frame.payload
      rest    == SubSeq(x.ring, used + 1, Len(x.ring))
      rd      == [x.rd EXCEPT !.first = FALSE, !.message = message,
                              !.op = IF x.rd.first THEN frame.op ELSE @]
  IN  IF x.rd.first # (frame.op # "continuation") THEN Turn(x.rd, rest, "kWsProtocolError")
      ELSE IF Len(message) > MaxMessageSize THEN Turn(rd, rest, "kWsMessageTooLarge")
      ELSE IF frame.fin THEN Turn(rd, rest, "message")
      ELSE IF rest = <<>> THEN Turn(rd, rest, "more")
      ELSE Turn(rd, rest, "go")

(* A control frame is returned as a message, whatever has been read of     *)
(* another.                                                                *)
SlowStep(x, isServer) ==
  LET r    == FrameFromIOVec(x.ring, isServer)
      rest == SubSeq(x.ring, r.used + 1, Len(x.ring))
  IN  IF r.err = "kWsIncomplete" THEN NeedMore(x)
      ELSE IF r.err # "none" THEN [x EXCEPT !.out = r.err]
      ELSE IF IsControlFrame(r.frame.op)
      THEN Turn([x.rd EXCEPT !.message = r.frame.payload, !.op = r.frame.op], rest, "message")
      ELSE AcceptFrame(x, r.frame, r.used)

BuggyTryFastPath(x, isServer) ==
  LET d == x.ring
      h == d[1][2]
      frame == [fin |-> h.fin, op |-> h.op, payload |-> ApplyMask(PayloadAt(d))]
  IN  CASE ScanFastPathPrefix(d, isServer) = "kNeedMore" -> NeedMore(x)
        [] ScanFastPathPrefix(d, isServer) = "kFallback" -> SlowStep(x, isServer)
        [] OTHER -> AcceptFrame(x, frame, FrameLength(h))

(* tryFastPath: the order of its checks is another one, and so may be the  *)
(* error.                                                                  *)
TryFastPath(x, isServer) ==
  LET d == x.ring
      h == d[1][2]
      payload == IF h.mask THEN ApplyMask(PayloadAt(d)) ELSE PayloadAt(d)
      frame   == [fin |-> h.fin, op |-> h.op, payload |-> payload]
  IN  CASE ScanFastPathPrefix(d, isServer) = "kNeedMore" -> NeedMore(x)
        [] ScanFastPathPrefix(d, isServer) = "kFallback" -> SlowStep(x, isServer)
        [] OTHER ->
             IF /\ x.rd.first = (h.op # "continuation")
                /\ h.op = "text" /\ h.fin /\ ~IsValidUtf8(payload)
             THEN [x EXCEPT !.out = "kWsInvalidUtf8"]
             ELSE AcceptFrame(x, frame, FrameLength(h))

(* parseFromBuffer: frame after frame until there is an outcome.           *)
ParseFromBuffer(rd, ring, isServer, fast) ==
  LET step(x) == IF x.out # "go" THEN x
                 ELSE IF fast THEN TryFastPath(x, isServer) ELSE SlowStep(x, isServer)
      steps[k \in 0 .. Len(ring)] ==
        IF k = 0 THEN Turn(rd, ring, IF ring = <<>> THEN "more" ELSE "go")
        ELSE CHOOSE next \in {step(x) : x \in {steps[k - 1]}} : TRUE
  IN  steps[Len(ring)]

(* The outcomes of the two paths are alike: the same message, the same     *)
(* wait, or some error.                                                    *)
Alike(x, y) ==
  \/ x = y
  \/ {x.out, y.out} \cap {"go", "more", "message"} = {}
=============================================================================
