---------------------------- MODULE Http1Connection ----------------------------
(***************************************************************************)
(* One HTTP/1 connection: an HttpSession on the client's side and, on the  *)
(* server's, the loop of HttpServerImpl::start(HttpRouter).  Each side     *)
(* reads through a ring buffer that outlives its messages; the client's    *)
(* writer outlives them too, the server makes a new one for every answer.  *)
(* The client may run whole exchanges (get, post, ...) or write and read   *)
(* separately, and so pipeline.  Any of its operations may time out.       *)
(***************************************************************************)
EXTENDS Http1Message

CONSTANTS
  Requests,    \* bound: the requests a client may send, without their id
  Answers,     \* bound: the chunks and framing of what handlers answer
  MaxSent,     \* bound: requests of a run
  MaxTimeouts, \* bound: operations that time out
  Capacity,    \* units the connection holds each way
  RingSize     \* units a ring buffer holds

ASSUME SizesAssumption ==
  Capacity \in Nat \ {0} /\ RingSize \in Nat \ {0} /\ MaxSent \in Nat /\ MaxTimeouts \in Nat

(* A message with neither a length nor chunks has no body; no chunk but    *)
(* the one at the end is empty.                                            *)
Kinds ==
  {kind \in [framing : {"none", "length", "chunked"}, chunks : Seq(Nat \ {0}),
             close : BOOLEAN, routed : BOOLEAN] : kind.framing = "none" => kind.chunks = <<>>}

ASSUME MessagesAssumption == Requests \cup Answers \subseteq Kinds

VARIABLES
  tls,        \* the connection is an SslSocket
  c2s, s2c,   \* units under way
  (* the client *)
  cpc,        \* "idle", "exchange", "write", "turn", "recv", "closed"
  left,       \* what the exchange, or m_writer, has not written yet
  cring,      \* m_ring_buffer of the session
  response,   \* parser of the response being read
  asking,     \* the operation under way is an exchange
  (* the server *)
  spc,        \* "next", "turn", "recv", "handle", "write", "closed"
  sring,      \* m_ring_buffer of the HttpConn
  request,    \* parser of the request being read
  keepAlive,
  out,        \* what the writer of the answer has left
  (* history *)
  sent,       \* requests whose writing began, in order
  handled,    \* requests the loop got, with their bodies
  got,        \* answers the client got: [asked, head, body]
  lost,       \* requests whose answer the client stopped waiting for
  torn,       \* a request was given up before it was written whole
  refused     \* the server gave up reading

wires  == <<c2s, s2c>>
client == <<cpc, left, cring, response, asking>>
server == <<spc, sring, request, keepAlive, out>>
told   == <<sent, got, lost, torn>>
vars == <<tls, wires, client, server, sent, handled, got, lost, torn, refused>>

Message(kind, id) == [id |-> id, framing |-> kind.framing, chunks |-> kind.chunks,
                      close |-> kind.close, routed |-> kind.routed]

Init ==
  /\ tls \in BOOLEAN
  /\ c2s = <<>> /\ s2c = <<>>
  /\ cpc = "idle" /\ left = <<>> /\ cring = <<>> /\ response = FreshParser /\ asking = FALSE
  /\ spc = "next" /\ sring = <<>> /\ request = FreshParser /\ keepAlive = TRUE /\ out = <<>>
  /\ sent = <<>> /\ handled = <<>> /\ got = <<>> /\ lost = 0
  /\ torn = FALSE /\ refused = FALSE

Asked == Len(got) + lost + 1
-----------------------------------------------------------------------------
(***************************************************************************)
(* The client.                                                             *)
(***************************************************************************)

(* createRequest or sendSerializedRequest: an operation with a buffer and  *)
(* a response of its own.                                                  *)
Exchange(kind) ==
  /\ cpc = "idle" /\ Len(sent) < MaxSent
  /\ Len(sent) = Len(got) + lost /\ left = <<>>
  /\ LET m == Message(kind, Len(sent) + 1)
     IN  left' = Wire(m) /\ sent' = Append(sent, m)
  /\ cpc' = "exchange" /\ asking' = TRUE /\ response' = FreshParser
  /\ UNCHANGED <<tls, wires, cring, server, handled, got, lost, torn, refused>>

(* HttpWriterImpl::sendRequest: while something is left of an earlier      *)
(* request the writer goes on with that and takes nothing new.             *)
SendRequest(kind) ==
  /\ cpc = "idle"
  /\ IF left = <<>>
     THEN LET m == Message(kind, Len(sent) + 1)
          IN  /\ Len(sent) < MaxSent
              /\ left' = Wire(m) /\ sent' = Append(sent, m)
     ELSE UNCHANGED <<left, sent>>
  /\ cpc' = "write" /\ asking' = FALSE
  /\ UNCHANGED <<tls, wires, cring, response, server, handled, got, lost, torn, refused>>

(* The socket takes some of it.  An exchange then goes on to the response. *)
Writes(n) ==
  /\ spc # "closed"
  /\ n <= Len(left) /\ Len(c2s) + n <= Capacity
  /\ c2s' = c2s \o SubSeq(left, 1, n)
  /\ left' = SubSeq(left, n + 1, Len(left))
  /\ UNCHANGED <<tls, s2c, cring, response, asking, server, handled, refused, told>>

ExchangeWrites(n) ==
  /\ cpc = "exchange" /\ Writes(n)
  /\ cpc' = IF n < Len(left) THEN "exchange" ELSE "turn"

WriterWrites(n) ==
  /\ cpc = "write" /\ Writes(n)
  /\ cpc' = IF n < Len(left) THEN "write" ELSE "idle"

BuggyGetResponse ==
  /\ cpc = "idle" /\ Asked <= Len(sent)
  /\ cpc' = "turn" /\ asking' = FALSE
  /\ UNCHANGED <<tls, wires, left, cring, response, server, handled, refused, told>>

(* getResponse of the reader.                                              *)
GetResponse ==
  /\ cpc = "idle" /\ Asked <= Len(sent)
  /\ cpc' = "turn" /\ asking' = FALSE /\ response' = FreshParser
  /\ UNCHANGED <<tls, wires, left, cring, server, handled, refused, told>>

(* advance: what the ring holds is parsed before anything is read.         *)
ClientTurn ==
  /\ cpc = "turn"
  /\ \E t \in {ResponseTurn(response, cring, RingSize)} :
         /\ cring' = t.ring /\ response' = t.msg
         /\ cpc' = CASE t.out = "more" -> "recv" [] t.out = "done" -> "idle"
                     [] OTHER -> "closed"
         /\ got' = IF t.out = "done"
                   THEN Append(got, [asked |-> Asked, head |-> t.msg.head, body |-> t.msg.body])
                   ELSE got
  /\ UNCHANGED <<tls, wires, left, asking, server, sent, handled, lost, torn, refused>>

(* A readv fills what is free of the ring; an SslSocket's recv takes some  *)
(* of it, at most up to where the ring wraps.                              *)
Room(wire, ring) == Min({Len(wire), RingSize - Len(ring)})

ClientReads(n) ==
  /\ cpc = "recv" /\ n > 0
  /\ cring' = cring \o SubSeq(s2c, 1, n)
  /\ s2c' = SubSeq(s2c, n + 1, Len(s2c))
  /\ cpc' = "turn"
  /\ UNCHANGED <<tls, c2s, left, response, asking, server, handled, refused, told>>

ClientTcpRecv == ~tls /\ ClientReads(Room(s2c, cring))
ClientSslRecv ==  tls /\ \E n \in 1 .. Room(s2c, cring) : ClientReads(n)

BuggyClientPeerClosed ==
  /\ spc = "closed" /\ cpc \in {"exchange", "write"}
  /\ cpc' = "closed"
  /\ UNCHANGED <<tls, wires, left, cring, response, asking, server, handled, refused, told>>

(* The connection is gone: the operation fails, and the caller closes.     *)
ClientPeerClosed ==
  /\ spc = "closed"
  /\ cpc \in {"exchange", "write"} \/ (cpc = "recv" /\ s2c = <<>>)
  /\ cpc' = "closed"
  /\ UNCHANGED <<tls, wires, left, cring, response, asking, server, handled, refused, told>>

(* .timeout(): the operation fails with kRequestTimeOut and the session    *)
(* stays as it is.  An exchange takes its buffer with it; the writer keeps *)
(* the rest, but for the one of an SslSocket, which drops it.              *)
TimedOut ==
  /\ cpc \in {"exchange", "write", "recv"} /\ lost < MaxTimeouts
  /\ cpc' = "idle"
  /\ left' = IF asking \/ tls THEN <<>> ELSE left
  /\ torn' = (torn \/ (left # <<>> /\ left' = <<>>))
  /\ lost' = IF cpc = "recv" \/ left' # left THEN lost + 1 ELSE lost
  /\ UNCHANGED <<tls, wires, cring, response, asking, server, sent, handled, got, refused>>

ClientClose ==
  /\ cpc = "idle"
  /\ cpc' = "closed"
  /\ UNCHANGED <<tls, wires, left, cring, response, asking, server, handled, refused, told>>
-----------------------------------------------------------------------------
(***************************************************************************)
(* The server.                                                             *)
(***************************************************************************)

(* Each turn of the loop has a new reader and a new request.               *)
NextRequest ==
  /\ spc = "next"
  /\ request' = FreshParser
  /\ spc' = "turn"
  /\ UNCHANGED <<tls, wires, client, sring, keepAlive, out, handled, refused, told>>

ServerTurn ==
  /\ spc = "turn"
  /\ \E t \in {RequestTurn(request, sring, RingSize)} :
         /\ sring' = t.ring /\ request' = t.msg
         /\ spc' = CASE t.out = "more" -> "recv" [] t.out = "done" -> "handle"
                     [] OTHER -> "closed"
         /\ refused' = (refused \/ t.out = "error")
         /\ IF t.out = "done"
            THEN /\ handled' = Append(handled, [head |-> t.msg.head, body |-> t.msg.body])
                 /\ keepAlive' = ~t.msg.head.close
            ELSE UNCHANGED <<handled, keepAlive>>
  /\ UNCHANGED <<tls, wires, client, out, told>>

ServerReads(n) ==
  /\ spc = "recv" /\ n > 0
  /\ sring' = sring \o SubSeq(c2s, 1, n)
  /\ c2s' = SubSeq(c2s, n + 1, Len(c2s))
  /\ spc' = "turn"
  /\ UNCHANGED <<tls, s2c, client, request, keepAlive, out, handled, refused, told>>

ServerTcpRecv == ~tls /\ ServerReads(Room(c2s, sring))
ServerSslRecv ==  tls /\ \E n \in 1 .. Room(c2s, sring) : ServerReads(n)

ServerPeerClosed ==
  /\ spc = "recv" /\ cpc = "closed" /\ c2s = <<>>
  /\ spc' = "closed"
  /\ UNCHANGED <<tls, wires, client, sring, request, keepAlive, out, handled, refused, told>>

(* A request with a handler is answered by it, as long as the connection   *)
(* is plain; one without gets the short answer of the loop.                *)
Handle(answer) ==
  /\ spc = "handle"
  /\ request.head.routed \/ answer.framing = "length"
  /\ IF request.head.routed /\ tls
     THEN spc' = "closed" /\ out' = out
     ELSE /\ spc' = "write"
          /\ out' = Wire(Message([answer EXCEPT !.routed = request.head.routed],
                                 request.head.id))
  /\ UNCHANGED <<tls, wires, client, sring, request, keepAlive, handled, refused, told>>

(* The writer is done with the answer, or cannot go on with it because the *)
(* client is gone: the loop goes on all the same.                          *)
Answered == IF keepAlive THEN "next" ELSE "closed"

ServerWrite(n) ==
  /\ spc = "write" /\ cpc # "closed"
  /\ n <= Len(out) /\ Len(s2c) + n <= Capacity
  /\ s2c' = s2c \o SubSeq(out, 1, n)
  /\ out' = SubSeq(out, n + 1, Len(out))
  /\ spc' = IF n < Len(out) THEN spc ELSE Answered
  /\ UNCHANGED <<tls, c2s, client, sring, request, keepAlive, handled, refused, told>>

ServerWriteFails ==
  /\ spc = "write" /\ cpc = "closed"
  /\ out' = <<>> /\ spc' = Answered
  /\ UNCHANGED <<tls, wires, client, sring, request, keepAlive, handled, refused, told>>
-----------------------------------------------------------------------------
SomeWrite       == \E n \in 1 .. Capacity : ExchangeWrites(n) \/ WriterWrites(n)
SomeServerWrite == \E n \in 1 .. Capacity : ServerWrite(n)
SomeHandle == \E answer \in Answers : Handle(answer)

Next ==
  \/ \E kind \in Requests : Exchange(kind) \/ SendRequest(kind)
  \/ SomeWrite \/ GetResponse \/ ClientTurn \/ ClientTcpRecv \/ ClientSslRecv
  \/ ClientPeerClosed \/ TimedOut \/ ClientClose
  \/ NextRequest \/ ServerTurn \/ ServerTcpRecv \/ ServerSslRecv \/ ServerPeerClosed
  \/ SomeHandle \/ SomeServerWrite \/ ServerWriteFails

Spec == Init /\ [][Next]_vars

(* Both sides are coroutines the schedulers run while their socket is      *)
(* ready; handlers are assumed to answer.  The turns of the readers, the   *)
(* only steps that leave "turn", are given their fairness by that.         *)
ClientTurns == cpc = "turn" /\ cpc' \in {"recv", "idle", "closed"}
ServerTurns == spc = "turn" /\ spc' \in {"recv", "handle", "closed"}

Progress ==
  /\ WF_vars(SomeWrite) /\ WF_cpc(ClientTurns) /\ WF_vars(ClientTcpRecv \/ ClientSslRecv)
  /\ WF_vars(ClientPeerClosed)
  /\ WF_spc(ServerTurns) /\ WF_vars(ServerTcpRecv \/ ServerSslRecv)
  /\ WF_vars(ServerPeerClosed)
  /\ WF_vars(SomeHandle) /\ WF_vars(SomeServerWrite) /\ WF_vars(ServerWriteFails)

FairSpec == Spec /\ WF_vars(NextRequest) /\ Progress
-----------------------------------------------------------------------------
(* The loop gets the requests that were sent, in their order and with the  *)
(* bodies they were sent with, however they were cut and pipelined, unless *)
(* one was given up half written.                                          *)
RequestsArriveWhole ==
  ~torn =>
    /\ Len(handled) <= Len(sent)
    /\ \A i \in 1 .. Len(handled) :
         handled[i].head = sent[i] /\ handled[i].body = BodyOf(sent[i])

(* An answer the client gets is the answer to what it asked, whole, unless *)
(* it stopped waiting for an earlier one.                                  *)
AnswersMatch ==
  lost = 0 =>
    \A i \in 1 .. Len(got) :
      got[i].head.id = got[i].asked /\ got[i].body = BodyOf(got[i].head)

(* A wait has timed out, or a request was given up half written.           *)
Upset == lost > 0 \/ torn

(* An exchange over a connection that has not been upset comes to an end.  *)
ExchangeEnds == (asking /\ cpc # "idle") ~> (cpc \in {"idle", "closed"} \/ Upset)

(* A request is never refused on a connection that has not been upset.     *)
ValidRequestsAccepted == refused => torn
=============================================================================
