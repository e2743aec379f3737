-------------------------- MODULE Http2ClientRequest --------------------------
(***************************************************************************)
(* H2Client::request over one connection: a caller that awaits one request *)
(* after the other, the machine that sends a request and reads frames      *)
(* until its response is complete (H2RequestMachine), and a server that    *)
(* answers, sends control frames in between and may go away.  Frames the   *)
(* machine has read too far stay in the connection's ring for the next     *)
(* one.  A frame counts as a whole; a header block decodes to its fields.  *)
(***************************************************************************)
EXTENDS Integers, Sequences, SequencesExt

CONSTANTS
  Carried,      \* header fields and pieces of a body
  Bodies,       \* lengths of request bodies, in DATA frames
  Responses,    \* bound: what a server answers, as sequences of frames
  MaxRequests,  \* bound: calls of request()
  MaxControl    \* bound: SETTINGS, PING, GOAWAY and broken frames sent

VARIABLES
  machine,    \* H2RequestMachine: phase, id, out (m_send_buffer), ack, block,
              \* answer; result and m_error are in results
  nextId,     \* m_next_stream_id
  ring,       \* m_conn's ring buffer, as frames
  goaway,     \* isGoawayReceived()
  requests,   \* frames the server has received
  responder,  \* stream |-> frames it has still to send on it, for open streams
  wire,       \* frames under way to the client
  sent,       \* every frame the server has sent
  results,    \* what request() returned: [id, how, answer]
  lost        \* the socket is closed

callVars == <<machine, nextId, ring, goaway, requests, responder, wire, sent, results, lost>>

(* parts: what a HEADERS or DATA frame carries.                            *)
Frame(type, id, parts, endHeaders, endStream) ==
  [type |-> type, id |-> id, parts |-> parts, endHeaders |-> endHeaders, endStream |-> endStream]
Control(type, id) == Frame(type, id, <<>>, TRUE, FALSE)

(* Frames of a request or a response.                                      *)
MessageFrames == {"HEADERS", "CONTINUATION", "DATA"}
Ends(f) == f.endStream /\ (f.endHeaders \/ f.type = "DATA")

(* A header block is not interrupted by DATA, and nothing follows the end. *)
IsResponse(response) ==
  /\ response \in Seq([type : MessageFrames, id : {0}, parts : Seq(Carried),
                       endHeaders : BOOLEAN, endStream : BOOLEAN])
  /\ \A i \in 1 .. Len(response) :
       /\ response[i].type = "DATA" /\ i > 1 => response[i - 1].endHeaders
       /\ Ends(response[i]) => i = Len(response)

ASSUME ServerAssumption ==
  /\ Bodies \subseteq 0 .. 1
  /\ \A response \in Responses : IsResponse(response)

Idle == [phase |-> "idle", id |-> 0, out |-> <<>>, ack |-> <<>>, block |-> <<>>, answer |-> <<>>]
Running(id, out, ack, block, answer) ==
  [phase |-> "run", id |-> id, out |-> out, ack |-> ack, block |-> block, answer |-> answer]

RequestFrames(id, body) ==
  <<Frame("HEADERS", id, <<>>, TRUE, body = 0)>>
    \o [i \in 1 .. body |-> Frame("DATA", id, <<>>, TRUE, TRUE)]

Return(id, how, answer) ==
  /\ machine' = Idle
  /\ results' = Append(results, [id |-> id, how |-> how, answer |-> answer])

(* request() and initialize(): the id is taken when the machine first runs.*)
Request ==
  /\ machine.phase = "idle" /\ Len(results) < MaxRequests
  /\ IF goaway THEN Return(0, "RefusedStream", <<>>) /\ UNCHANGED nextId
     ELSE /\ \E body \in Bodies :
               machine' = Running(nextId, RequestFrames(nextId, body), <<>>, <<>>, <<>>)
          /\ nextId' = nextId + 2
          /\ UNCHANGED results
  /\ UNCHANGED <<ring, goaway, requests, responder, wire, sent, lost>>
-----------------------------------------------------------------------------
(***************************************************************************)
(* consumeResponseFrames.  h: what the machine makes of the frames so far; *)
(* done is "reading" as long as it goes on to the next frame.              *)
(***************************************************************************)
(* decodeHeaderBlock, at the end of a block.                               *)
Decoded(h, f) ==
  IF f.endHeaders THEN [[h EXCEPT !.answer = @ \o (h.block \o f.parts)] EXCEPT !.block = <<>>]
  ELSE [h EXCEPT !.block = @ \o f.parts]

Done(h, how) == [h EXCEPT !.done = how]

(* Frames of the request's own stream.                                     *)
StreamFrames == MessageFrames \cup {"RST_STREAM"}

BuggyConsumeOwn(h, f) ==
  CASE f.type = "HEADERS"      -> IF f.endHeaders /\ f.endStream THEN Done(Decoded(h, f), "response")
                                  ELSE Decoded(h, f)
    [] f.type = "CONTINUATION" -> Decoded(h, f)
    [] f.type = "DATA"         -> [h EXCEPT !.answer = @ \o f.parts]
    [] f.type = "RST_STREAM"   -> Done(h, "StreamClosed")

ConsumeOwn(h, f) ==
  CASE f.type = "HEADERS"      -> IF f.endHeaders /\ f.endStream THEN Done(Decoded(h, f), "response")
                                  ELSE Decoded(h, f)
    [] f.type = "CONTINUATION" -> Decoded(h, f)
    [] f.type = "DATA" ->
         LET more == [h EXCEPT !.answer = @ \o f.parts]
         IN  IF f.endStream THEN Done(more, "response") ELSE more
    [] f.type = "RST_STREAM"   -> Done(h, "StreamClosed")

(* Frames of the connection.                                               *)
ConsumeConnection(h, f) ==
  CASE f.type = "SETTINGS" -> [h EXCEPT !.ack = <<Control("SETTINGS_ACK", 0)>>]
    [] f.type = "GOAWAY" ->
         Done([h EXCEPT !.goaway = TRUE], IF h.id > f.id THEN "RefusedStream" ELSE "ProtocolError")
    [] f.type = "broken" -> Done(h, "ProtocolError")
    [] OTHER -> h

BuggyConsume(h, f) ==
  IF f.type \in StreamFrames THEN ConsumeOwn(h, f) ELSE ConsumeConnection(h, f)

(* Frames of other streams are passed over, their header blocks undecoded. *)
Consume(h, f) ==
  CASE f.type \in StreamFrames /\ f.id = h.id -> ConsumeOwn(h, f)
    [] f.type \in StreamFrames /\ f.id # h.id -> h
    [] OTHER -> ConsumeConnection(h, f)

(* Frames behind the one that ends the request are left in the ring.       *)
Read(h, f) ==
  IF h.done # "reading" THEN [h EXCEPT !.rest = Append(@, f)] ELSE Consume(h, f)

(* What the machine makes of the first n frames, for every n.              *)
Reads(m, frames) ==
  LET read[n \in 0 .. Len(frames)] ==
        IF n = 0
        THEN [id |-> m.id, ack |-> m.ack, block |-> m.block, answer |-> m.answer,
              goaway |-> goaway, done |-> "reading", rest |-> <<>>]
        ELSE Read(read[n - 1], frames[n])
  IN  read

ConsumeResponseFrames(m, frames) == Reads(m, frames)[Len(frames)]

Apply(h) ==
  /\ ring' = h.rest /\ goaway' = h.goaway
  /\ IF h.done # "reading" THEN Return(h.id, h.done, h.answer)
     ELSE /\ machine' = Running(machine.id, machine.out, h.ack, h.block, h.answer)
          /\ UNCHANGED results

(* advance(): the acknowledgement first, then the request, then reading.   *)
SendControl ==
  /\ machine.phase = "run" /\ machine.ack # <<>> /\ ~lost
  /\ requests' = requests \o machine.ack
  /\ machine' = [machine EXCEPT !.ack = <<>>]
  /\ UNCHANGED <<nextId, ring, goaway, responder, wire, sent, results, lost>>

SendRequest ==
  /\ machine.phase = "run" /\ machine.ack = <<>> /\ machine.out # <<>> /\ ~lost
  /\ requests' = Append(requests, Head(machine.out))
  /\ machine' = [machine EXCEPT !.out = Tail(@)]
  /\ UNCHANGED <<nextId, ring, goaway, responder, wire, sent, results, lost>>

Reading == machine.phase = "run" /\ machine.ack = <<>> /\ machine.out = <<>>

(* What an earlier request left in the ring is consumed before a recv.     *)
ConsumeRing ==
  /\ Reading /\ ring # <<>>
  /\ Apply(ConsumeResponseFrames(machine, ring))
  /\ UNCHANGED <<nextId, requests, responder, wire, sent, lost>>

Recv ==
  /\ Reading /\ ring = <<>> /\ wire # <<>>
  /\ \E n \in 1 .. Len(wire) :
       /\ Apply(ConsumeResponseFrames(machine, SubSeq(wire, 1, n)))
       /\ wire' = SubSeq(wire, n + 1, Len(wire))
  /\ UNCHANGED <<nextId, requests, responder, sent, lost>>

(* recv returns nothing, or the send fails.                                *)
IoError ==
  /\ machine.phase = "run" /\ lost
  /\ Reading => ring = <<>> /\ wire = <<>>
  /\ Return(machine.id, IF Reading THEN "ConnectError" ELSE "InternalError", <<>>)
  /\ UNCHANGED <<nextId, ring, goaway, requests, responder, wire, sent, lost>>
-----------------------------------------------------------------------------
(***************************************************************************)
(* The server.                                                             *)
(***************************************************************************)
Ended(id) == \E i \in 1 .. Len(requests) : requests[i].id = id /\ requests[i].endStream

Emit(frame) == wire' = Append(wire, frame) /\ sent' = Append(sent, frame)

(* A response: what it carries tells the request it answers.               *)
Answering(id, response) ==
  [i \in 1 .. Len(response) |->
     Frame(response[i].type, id,
           [j \in 1 .. Len(response[i].parts) |-> <<id, response[i].parts[j]>>],
           response[i].endHeaders, response[i].endStream)]

Respond ==
  /\ ~lost
  /\ \E id \in {requests[i].id : i \in 1 .. Len(requests)} \ DOMAIN responder :
       /\ Ended(id)
       /\ \E response \in Responses :
            responder' = [x \in DOMAIN responder \cup {id} |->
                            IF x = id THEN Answering(id, response) ELSE responder[x]]
  /\ UNCHANGED <<machine, nextId, ring, goaway, requests, wire, sent, results, lost>>

SendResponse ==
  /\ ~lost
  /\ \E id \in DOMAIN responder :
       /\ responder[id] # <<>>
       /\ Emit(Head(responder[id]))
       /\ responder' = [responder EXCEPT ![id] = Tail(@)]
  /\ UNCHANGED <<machine, nextId, ring, goaway, requests, results, lost>>

(* SETTINGS, PING, the reset of a stream, GOAWAY or an unreadable frame;   *)
(* not inside a header block.                                              *)
SendControlFrame ==
  /\ ~lost
  /\ Cardinality({i \in 1 .. Len(sent) : sent[i].type \notin MessageFrames}) < MaxControl
  /\ sent # <<>> => Last(sent).endHeaders
  /\ \/ \E type \in {"SETTINGS", "PING", "broken"} : Emit(Control(type, 0)) /\ UNCHANGED responder
     \/ \E id \in DOMAIN responder :
          Emit(Control("RST_STREAM", id)) /\ responder' = [responder EXCEPT ![id] = <<>>]
     \/ \E id \in {0} \cup DOMAIN responder : Emit(Control("GOAWAY", id)) /\ UNCHANGED responder
  /\ UNCHANGED <<machine, nextId, ring, goaway, requests, results, lost>>

Disconnect ==
  /\ ~lost /\ lost' = TRUE
  /\ UNCHANGED <<machine, nextId, ring, goaway, requests, responder, wire, sent, results>>
-----------------------------------------------------------------------------
CallInit ==
  /\ machine = Idle /\ nextId = 1 /\ ring = <<>> /\ goaway = FALSE
  /\ requests = <<>> /\ responder = <<>> /\ wire = <<>> /\ sent = <<>>
  /\ results = <<>> /\ lost = FALSE

CallStep == SendControl \/ SendRequest \/ ConsumeRing \/ Recv \/ IoError
Answer == Respond \/ SendResponse

(* The two ends do not stop; the caller need not call again.               *)
CallProgress == CallStep \/ Answer

CallNext == Request \/ CallProgress \/ SendControlFrame \/ Disconnect

CallSpec == CallInit /\ [][CallNext]_callVars /\ WF_callVars(CallProgress)
-----------------------------------------------------------------------------
(***************************************************************************)
(* Properties.                                                             *)
(***************************************************************************)
OnStream(f, id) == f.id = id /\ f.type \in MessageFrames

(* What the first n of some frames carry on a stream, for every n.         *)
Contents(frames, id) ==
  LET all[n \in 0 .. Len(frames)] ==
        IF n = 0 THEN <<>>
        ELSE IF OnStream(frames[n], id) THEN all[n - 1] \o frames[n].parts
        ELSE all[n - 1]
  IN  all

(* A request that succeeds returns all that the server sent on its own     *)
(* stream, in order and to the END_STREAM, whatever arrived in between, or *)
(* was left in the ring by the requests before.                            *)
ResponseIsOwn ==
  \A k \in 1 .. Len(results) : results[k].how = "response" =>
    /\ results[k].answer = Contents(sent, results[k].id)[Len(sent)]
    /\ \E i \in 1 .. Len(sent) :
         /\ OnStream(sent[i], results[k].id) /\ sent[i].endStream
         /\ \A j \in i + 1 .. Len(sent) : ~OnStream(sent[j], results[k].id)
    /\ \A j \in 1 .. k - 1 : results[j].id # results[k].id

(* A server that answers every request it gets, or drops the connection,   *)
(* ends every call, but for a response whose END_STREAM is on a HEADERS    *)
(* frame that CONTINUATION frames follow.                                  *)
RequestEnds == machine.phase = "run" ~> machine.phase = "idle"
=============================================================================
