---------------------------- MODULE Http2Stream ----------------------------
(***************************************************************************)
(* The sending side of one Http2Stream attached to its connection: the     *)
(* send* calls (fire and forget) and the reply* calls (which co_await the  *)
(* Waiter of a frame they queue), the send window, the stream state the    *)
(* calls move, and the reuse of the object by Http2StreamPool for a later  *)
(* stream.                                                                 *)
(*                                                                         *)
(* A call runs to its end without suspending.  It is the list of frames it *)
(* offers, queued in order: DATA that does not fit in m_send_window is     *)
(* skipped.  All queued frames stay in "out"; the writer loop has written  *)
(* the first "written" of them.  The body of a message is a sequence of    *)
(* sizes.  Several coroutines may call on the stream; together they obey   *)
(* the message grammar: headers, DATA, and nothing but RST_STREAM after a  *)
(* call that asked for END_STREAM.                                         *)
(***************************************************************************)
EXTENDS Http2SendState, SequencesExt, Http2StreamStates

userVars == <<message, calls>>
peerVars == <<credit, resetRecv>>
vars == <<life, stream, window, out, written, userVars, peerVars>>

-----------------------------------------------------------------------------
(* Frames as the calls build them.  An "empty" frame is DATA without a     *)
(* payload that is queued without asking the window.                       *)

Frame(kind, size, end) == [kind |-> kind, size |-> size, end |-> end]

HeadersFrame(end) == <<Frame("headers", 0, end)>>
RstFrame == <<Frame("rst", 0, FALSE)>>
EndFrame == <<Frame("empty", 0, TRUE)>>

(* One DATA frame per chunk, END_STREAM on the last one.                   *)
DataFrames(chunks, end) ==
  [i \in DOMAIN chunks |-> Frame("data", chunks[i], end /\ i = Len(chunks))]

HeadersAndData(size) ==
  HeadersFrame(size = 0) \o (IF size = 0 THEN <<>> ELSE DataFrames(<<size>>, TRUE))

HeadersAndChunks(chunks) ==
  IF Len(chunks) = 1 THEN HeadersAndData(chunks[1])
  ELSE HeadersFrame(chunks = <<>>) \o DataFrames(chunks, TRUE)

DataBatch(chunks, end) ==
  IF chunks = <<>> /\ end THEN EndFrame ELSE DataFrames(chunks, end)

Bodies == SeqOf(Sizes, MaxChunks)

-----------------------------------------------------------------------------
(* Queueing.  A value in 2^32 read as an int32_t.                          *)

Wrap(x) == ((x + SendWord \div 2) % SendWord) - (SendWord \div 2)

(* Bug: a window one short is enough.                                      *)
BuggyFits(frame, w) == frame.kind # "data" \/ frame.size <= w + 1

Fits(frame, w) == frame.kind # "data" \/ frame.size <= w

Sent(s, frame) ==
  CASE frame.kind = "headers" -> OnHeadersSent(s, frame.end)
    [] frame.kind = "rst" -> OnRstStream(s)
    [] OTHER -> OnDataSent(s, frame.end)

(* A frame passes: queued, its bytes charged, the state moved.             *)
Pass(q, frame) ==
  [stream |-> Sent(q.stream, frame),
   window |-> q.window - frame.size,
   frames |-> Append(q.frames, frame)]

(* Bug: END_STREAM moves the state though its frame is skipped.            *)
BuggyOffer(q, frame) ==
  IF Fits(frame, q.window) THEN Pass(q, frame) ELSE [q EXCEPT !.stream = Sent(@, frame)]

Offer(q, frame) == IF Fits(frame, q.window) THEN Pass(q, frame) ELSE q

(* After each of the frames of a call, in their order.                     *)
Queueing(frames) ==
  LET after[i \in 0 .. Len(frames)] ==
        IF i = 0 THEN [stream |-> stream, window |-> window, frames |-> <<>>]
        ELSE Offer(after[i - 1], frames[i])
  IN  after

Queued(frames) == Queueing(frames)[Len(frames)]

(* Bug: the waiter is put on the first frame.                              *)
BuggyTag(frames, waits) ==
  [i \in DOMAIN frames |->
     [frame |-> frames[i], life |-> life, call |-> Len(calls) + 1,
      waits |-> waits /\ i = 1]]

(* What the channel carries: the waiter rides on the last frame queued.    *)
Tag(frames, waits) ==
  [i \in DOMAIN frames |->
     [frame |-> frames[i], life |-> life, call |-> Len(calls) + 1,
      waits |-> waits /\ i = Len(frames)]]

(* A call queues what fits; if nothing does, its waiter is notified at     *)
(* once when "notifies", and otherwise forgotten.                          *)
Queue(frames, waits, notifies) ==
  LET q == Queued(frames)
  IN  /\ Len(calls) < MaxCalls
      /\ stream' = q.stream
      /\ window' = q.window
      /\ out' = out \o Tag(q.frames, waits)
      /\ calls' = Append(calls, CASE ~waits -> "unwaited"
                                  [] waits /\ q.frames = <<>> /\ notifies -> "answered"
                                  [] OTHER -> "waiting")
      /\ UNCHANGED <<life, written, peerVars>>

-----------------------------------------------------------------------------
(* The calls.  Whether a call waits is the choice of send* or reply*.      *)

Opens(end) == message = "headers" /\ message' = IF end THEN "done" ELSE "body"
Continues(end) == message = "body" /\ message' = IF end THEN "done" ELSE "body"

(* sendHeaders, sendEncodedHeaders, replyHeader: the head or the trailers. *)
SendHeaders(end, waits) ==
  /\ Opens(end) \/ (end /\ Continues(end))
  /\ Queue(HeadersFrame(end), waits, FALSE)

SendData(size, end, waits) ==
  Continues(end) /\ Queue(DataFrames(<<size>>, end), waits, FALSE)

SendRstStream(waits) ==
  message' = "done" /\ Queue(RstFrame, waits, FALSE)

SendHeadersAndData(size, waits) ==
  Opens(TRUE) /\ Queue(HeadersAndData(size), waits, TRUE)

SendHeadersAndDataChunks(chunks, waits) ==
  Opens(TRUE) /\ Queue(HeadersAndChunks(chunks), waits, TRUE)

SendDataBatch(chunks, end, waits) ==
  Continues(end) /\ Queue(DataBatch(chunks, end), waits, TRUE)

(* A single chunk is handed to sendDataInternal.                           *)
SendDataChunks(chunks, end, waits) ==
  Continues(end) /\ Queue(DataBatch(chunks, end), waits, Len(chunks) # 1)

(* sendFrames, replyFrames: frames the caller built, here a whole message  *)
(* of HEADERS, DATA and, in place of its end, RST_STREAM.                  *)
SendFrames(chunks, end, waits) ==
  /\ Opens(TRUE)
  /\ Queue(HeadersFrame(FALSE) \o DataFrames(chunks, end)
             \o (IF end THEN <<>> ELSE RstFrame), waits, TRUE)

-----------------------------------------------------------------------------
(* The writer loop and the peer.                                           *)

(* The writer loop has written a frame and notifies its waiter.            *)
Write ==
  /\ written < Len(out)
  /\ written' = written + 1
  /\ LET item == out[written + 1]
     IN  calls' = IF item.waits THEN [calls EXCEPT ![item.call] = "answered"]
                                ELSE calls
  /\ UNCHANGED <<life, stream, window, out, message, peerVars>>

(* The frame's 31 bits become an int32_t and are added to one.             *)
RecvWindowUpdate(increment) ==
  /\ stream.state # "Closed" /\ credit + increment <= MaxCredit
  /\ window' = Wrap(window + increment)
  /\ credit' = credit + increment
  /\ UNCHANGED <<life, stream, out, written, userVars, resetRecv>>

RecvRstStream ==
  /\ stream.state \notin {"Idle", "Closed"}
  /\ stream' = OnRstStream(stream)
  /\ resetRecv' = TRUE
  /\ UNCHANGED <<life, window, out, written, userVars, credit>>

(* The peer's HEADERS or DATA with END_STREAM.                             *)
RecvEnd ==
  /\ CanReceiveData(stream) /\ ~stream.endRecv
  /\ stream' = OnDataReceived(stream, TRUE)
  /\ UNCHANGED <<life, window, out, written, userVars, peerVars>>

-----------------------------------------------------------------------------
(* A stream begins Idle when a client opens it, Open or half closed when a *)
(* request has arrived at a server.                                        *)
Fresh == [state |-> "Idle", endRecv |-> FALSE, endSent |-> FALSE]

Starts == {Fresh} \cup {OnHeadersReceived(Fresh, end) : end \in BOOLEAN}

Init ==
  /\ life = 1 /\ stream \in Starts /\ window = SendDefault
  /\ out = <<>> /\ written = 0
  /\ calls = <<>> /\ message = "headers"
  /\ credit = 0 /\ resetRecv = FALSE

(* The last reference to a closed stream goes, the object returns to the   *)
(* pool, and acquire resets it for another stream.                         *)
Reuse ==
  /\ stream.state = "Closed" /\ message = "done" /\ life < MaxLives
  /\ life' = life + 1 /\ stream' \in Starts /\ window' = SendDefault
  /\ message' = "headers" /\ credit' = 0 /\ resetRecv' = FALSE
  /\ UNCHANGED <<out, written, calls>>

Call ==
  \E waits \in BOOLEAN :
    \/ SendRstStream(waits)
    \/ \E size \in Sizes : SendHeadersAndData(size, waits)
    \/ \E chunks \in Bodies : SendHeadersAndDataChunks(chunks, waits)
    \/ \E end \in BOOLEAN :
         \/ SendHeaders(end, waits)
         \/ \E size \in Sizes : SendData(size, end, waits)
         \/ \E chunks \in Bodies :
              \/ SendDataBatch(chunks, end, waits)
              \/ SendDataChunks(chunks, end, waits)
              \/ SendFrames(chunks, end, waits)

Next ==
  \/ Call
  \/ Write
  \/ \E increment \in Increments : RecvWindowUpdate(increment)
  \/ RecvRstStream
  \/ RecvEnd
  \/ Reuse

Spec == Init /\ [][Next]_vars
=============================================================================
