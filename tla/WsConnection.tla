------------------------------ MODULE WsConnection ------------------------------
(***************************************************************************)
(* One WebSocket connection from the upgrade on: a WsClient or a WsSession *)
(* at one end, at the other a handler that reads the upgrade request from  *)
(* an HttpConn, answers it, makes a WsConn of the connection and echoes.   *)
(* The server greets, then echoes in one of three ways: "app", getMessage  *)
(* and a writer; "once", echoOnceConsume again and again; "loop",          *)
(* echoLoopConsume of an SslSocket.  The client writes its frames from one *)
(* coroutine and reads from another; its operations may time out.          *)
(***************************************************************************)
EXTENDS WsFrames

CONSTANTS
  Modes,       \* the ways the server echoes
  Scripts,     \* bound: what the client sends, sequences of frames
  Defects,     \* what may be wrong with the upgrade request, "none" if nothing
  Welcome,     \* payload of the greeting
  MaxTimeouts, \* bound: operations that time out
  RingSize     \* units a ring buffer holds

ASSUME SizesAssumption == RingSize \in Nat \ {0} /\ MaxTimeouts \in Nat

H1 == INSTANCE Http1Message

VARIABLES
  mode, script, defect, \* of the run
  c2s, s2c,   \* units under way
  (* the client *)
  api,        \* "client" or "session" until it is "upgraded": from then on both
              \* read and write with the same classes
  cpc,        \* "upgrade", "wait", "turn", "recv", "idle", "closed"
  key,        \* the key of the upgrade, its number
  response,   \* parser of the answer to the upgrade
  cring,      \* its ring buffer
  crd,        \* its message reader, once it is upgraded
  wpc,        \* its writer: "off", "idle", "write", "done"
  next,       \* the frame it is to send
  left,       \* m_remaining_bytes: what the writer has left of a frame
  (* the server *)
  spc,        \* "request", "recv request", "turn", "recv", "write", "closed"
  request,    \* parser of the upgrade request
  sring,      \* the ring buffer, of the HttpConn and then of the WsConn
  base,       \* where in its memory the content of the ring starts
  srd,        \* the message reader
  out,        \* what is left to send
  inPlace,    \* units of the ring to consume when that is sent
  last,       \* the connection ends then
  (* history *)
  got,        \* messages the client got
  timeouts

wires  == <<c2s, s2c>>
cread  == <<cpc, key, response, cring, crd, got>>
cwrite == <<wpc, next, left>>
server == <<spc, request, sring, base, srd, out, inPlace, last>>
given  == <<mode, script, defect>>
run    == <<given, api>>
vars   == <<run, wires, cread, cwrite, server, timeouts>>

(* initUpgradeRequest.                                                     *)
UpgradeRequest(k) ==
  H1!Wire([id |-> k, framing |-> "none", chunks |-> <<>>, defect |-> defect])

Init ==
  /\ api \in {"client", "session"}
  /\ mode \in Modes /\ script \in Scripts /\ defect \in Defects
  /\ c2s = <<>> /\ s2c = <<>>
  /\ cpc = "upgrade" /\ key = 1 /\ response = H1!FreshParser
  /\ cring = <<>> /\ crd = FreshMessage
  /\ wpc = "off" /\ next = 1 /\ left = UpgradeRequest(1)
  /\ spc = "request" /\ request = H1!FreshParser /\ sring = <<>> /\ base = 0
  /\ srd = FreshMessage /\ out = <<>> /\ inPlace = 0 /\ last = FALSE
  /\ got = <<>> /\ timeouts = 0
-----------------------------------------------------------------------------
(* What the peer of an echoing server may expect: a text or binary message *)
(* for each it sends, in fragments or not, a Pong for a Ping, a Close for  *)
(* a Close, and nothing after what is no valid text.                       *)
Expect(m, e, frame) ==
  LET whole == e.parts \o frame.payload
      op    == IF frame.op = "continuation" THEN e.op ELSE frame.op
  IN  IF e.over \/ frame.op = "pong" THEN e
      ELSE IF IsControlFrame(frame.op)
      THEN [e EXCEPT !.over = frame.op = "close",
                     !.answers = Append(@, IF frame.op = "ping" THEN Whole("pong", frame.payload)
                                           ELSE Whole("close", <<>>))]
      ELSE IF ~frame.fin THEN [e EXCEPT !.parts = whole, !.op = op]
      ELSE IF frame.op = "text" /\ ~IsValidUtf8(whole) THEN [e EXCEPT !.over = TRUE]
      ELSE [e EXCEPT !.parts = <<>>,
                     !.answers = Append(@, Whole(IF m = "app" THEN "text" ELSE op, whole))]

Expectations ==
  [m \in Modes, s \in Scripts |->
     FoldLeft(LAMBDA e, f : Expect(m, e, f),
              [parts |-> <<>>, op |-> "none", answers |-> <<Whole("text", Welcome)>>, over |-> FALSE],
              s).answers]

Expected == Expectations[mode, script]
-----------------------------------------------------------------------------
(***************************************************************************)
(* The client upgrades.                                                    *)
(***************************************************************************)

(* The socket takes some of the request, or of a frame.                    *)
Writes(n) ==
  /\ n <= Len(left)
  /\ c2s' = c2s \o SubSeq(left, 1, n)
  /\ left' = SubSeq(left, n + 1, Len(left))

ClientSendsRequest(n) ==
  /\ cpc = "upgrade" /\ spc # "closed" /\ Writes(n)
  /\ cpc' = IF n < Len(left) THEN "upgrade" ELSE "wait"
  /\ UNCHANGED <<run, s2c, key, response, cring, crd, got, wpc, next, server, timeouts>>

BuggyAcceptable(head) == head.status = 101 /\ head.accept = key + 1

(* validateUpgradeResponse.                                                *)
Acceptable(head) == head.status = 101 /\ head.accept = key

(* The answer is parsed, or as much of it as there is.                     *)
Answered(t) ==
  LET upgraded == t.out = "done" /\ Acceptable(t.msg.head)
  IN  /\ cring' = t.ring /\ response' = t.msg
      /\ cpc' = CASE t.out = "more" -> "wait" [] upgraded -> "turn" [] OTHER -> "closed"
      /\ wpc' = IF upgraded THEN "idle" ELSE wpc
      /\ api' = IF upgraded THEN "upgraded" ELSE api

(* What it gets is parsed at once; what follows the answer stays in the    *)
(* ring for the reader.                                                    *)
ClientReadsResponse ==
  /\ api = "client" /\ cpc = "wait" /\ s2c # <<>>
  /\ \E n \in {H1!Min({Len(s2c), RingSize - Len(cring)})} :
       /\ s2c' = SubSeq(s2c, n + 1, Len(s2c))
       /\ \E t \in {H1!ResponseTurn(response, cring \o SubSeq(s2c, 1, n), RingSize)} : Answered(t)
  /\ UNCHANGED <<given, c2s, key, crd, got, next, left, server, timeouts>>

(* A WsSession reads into a buffer of its own, as large as the ring, and   *)
(* copies that: a ring without room for it ends the upgrade, as does one   *)
(* that is full behind an answer which is not complete (what waits in the  *)
(* ring is part of a chunk, which this server's answers never have).       *)
SessionOnRecv(bytes) ==
  [ring |-> cring \o SubSeq(bytes, 1, H1!Min({Len(bytes), RingSize - Len(cring)})),
   ok   |-> Len(bytes) <= RingSize - Len(cring)]

SessionOnParse(ring) ==
  \E t \in {H1!ResponseTurn(response, ring, RingSize)} : Answered(t)

SessionReadsResponse ==
  /\ api = "session" /\ cpc = "wait" /\ s2c # <<>>
  /\ \E n \in {H1!Min({Len(s2c), RingSize})} :
       /\ s2c' = SubSeq(s2c, n + 1, Len(s2c))
       /\ \E r \in {SessionOnRecv(SubSeq(s2c, 1, n))} :
            IF r.ok THEN SessionOnParse(r.ring)
            ELSE cring' = r.ring /\ cpc' = "closed" /\ UNCHANGED <<response, wpc, api>>
  /\ UNCHANGED <<given, c2s, key, crd, got, next, left, server, timeouts>>

(* The operation takes its request and its parser with it; the session and *)
(* its ring stay, and may try again.                                       *)
UpgradeTimesOut ==
  /\ cpc \in {"upgrade", "wait"} /\ timeouts < MaxTimeouts
  /\ cpc' = "idle" /\ left' = <<>> /\ timeouts' = timeouts + 1
  /\ UNCHANGED <<run, wires, key, response, cring, crd, got, wpc, next, server>>

UpgradeAgain ==
  /\ cpc = "idle"
  /\ cpc' = "upgrade" /\ key' = key + 1
  /\ left' = UpgradeRequest(key + 1) /\ response' = H1!FreshParser
  /\ UNCHANGED <<run, wires, cring, crd, got, wpc, next, server, timeouts>>

(* onPeerClosed, in whatever the client is doing.                          *)
ClientPeerClosed ==
  /\ spc = "closed"
  /\ cpc = "upgrade" \/ (cpc \in {"wait", "recv"} /\ s2c = <<>>)
  /\ cpc' = "closed" /\ wpc' = "done"
  /\ UNCHANGED <<run, wires, key, response, cring, crd, got, next, left, server, timeouts>>
-----------------------------------------------------------------------------
(***************************************************************************)
(* The client sends its frames and reads messages.                         *)
(***************************************************************************)

BuggySend ==
  /\ wpc = "idle" /\ next <= Len(script)
  /\ left' = Encode(script[next], TRUE)
  /\ wpc' = "write"
  /\ UNCHANGED <<run, wires, cread, next, server, timeouts>>

(* sendText, sendPing and so on: while something is left of an earlier     *)
(* frame the writer goes on with that, whatever it was given.              *)
Send ==
  /\ wpc = "idle" /\ next <= Len(script)
  /\ left' = IF left = <<>> THEN Encode(script[next], TRUE) ELSE left
  /\ wpc' = "write"
  /\ UNCHANGED <<run, wires, cread, next, server, timeouts>>

ClientWrite(n) ==
  /\ wpc = "write" /\ spc # "closed" /\ Writes(n)
  /\ wpc' = IF n < Len(left) THEN "write" ELSE "idle"
  /\ next' = IF n < Len(left) THEN next ELSE next + 1
  /\ UNCHANGED <<run, s2c, cread, server, timeouts>>

(* Its caller sends the same again.                                        *)
SendTimesOut ==
  /\ wpc = "write" /\ timeouts < MaxTimeouts
  /\ wpc' = "idle" /\ timeouts' = timeouts + 1
  /\ UNCHANGED <<run, wires, cread, next, left, server>>

ClientWriteFails ==
  /\ wpc = "write" /\ spc = "closed"
  /\ wpc' = "done"
  /\ UNCHANGED <<run, wires, cread, next, left, server, timeouts>>

(* getMessage: the ring is parsed before anything is read.                 *)
ClientTurn ==
  /\ cpc = "turn"
  /\ LET t == ParseFromBuffer(crd, cring, FALSE, TRUE)
     IN  /\ cring' = t.ring
         /\ crd' = IF t.out = "message" THEN FreshMessage ELSE t.rd
         /\ got' = IF t.out = "message" THEN Append(got, Whole(t.rd.op, t.rd.message)) ELSE got
         /\ cpc' = CASE t.out = "more" /\ Len(t.ring) < RingSize -> "recv"
                     [] t.out = "message" -> IF t.rd.op = "close" THEN "closed" ELSE "turn"
                     [] OTHER -> "closed"
         /\ wpc' = IF cpc' = "closed" THEN "done" ELSE wpc
  /\ UNCHANGED <<run, wires, key, response, next, left, server, timeouts>>

ClientRecv ==
  /\ cpc = "recv" /\ s2c # <<>>
  /\ LET n == H1!Min({Len(s2c), RingSize - Len(cring)})
     IN  /\ cring' = cring \o SubSeq(s2c, 1, n)
         /\ s2c' = SubSeq(s2c, n + 1, Len(s2c))
         /\ crd' = [crd EXCEPT !.received = @ + n]
  /\ cpc' = "turn"
  /\ UNCHANGED <<run, c2s, key, response, got, cwrite, server, timeouts>>
(* close: the client ends the connection when it has all it waits for, or  *)
(* does not try to upgrade again; no Close is sent.                        *)
ClientCloses ==
  /\ \/ cpc = "idle"
     \/ cpc = "turn" /\ wpc = "idle" /\ next > Len(script) /\ Len(got) = Len(Expected)
  /\ cpc' = "closed" /\ wpc' = "done"
  /\ UNCHANGED <<run, wires, key, response, cring, crd, got, next, left, server, timeouts>>
-----------------------------------------------------------------------------
(***************************************************************************)
(* The server takes the upgrade.                                           *)
(***************************************************************************)

(* WsUpgrade::handleUpgrade: the request has the method and the header     *)
(* fields it must have, and the answer a key made of its key.              *)
HandleUpgrade(head) ==
  H1!Wire(IF head.defect = "none"
          THEN [id |-> 0, framing |-> "none",   chunks |-> <<>>,  status |-> 101, accept |-> head.id]
          ELSE [id |-> 0, framing |-> "length", chunks |-> <<1>>, status |-> 400, accept |-> 0])

Greeting == Encode(Whole("text", Welcome), FALSE)

(* getRequest and the handler: the answer, and after it the greeting of    *)
(* the WsConn, which takes over the ring and what is in it.                *)
ServerTakesRequest ==
  /\ spc = "request"
  /\ LET t == H1!RequestTurn(request, sring, RingSize)
         ok == t.out = "done" /\ t.msg.head.defect = "none"
     IN  /\ sring' = t.ring /\ request' = t.msg
         /\ base' = (base + Len(sring) - Len(t.ring)) % RingSize
         /\ spc' = CASE t.out = "more" -> "recv request" [] t.out = "done" -> "write"
                     [] OTHER -> "closed"
         /\ out' = IF t.out = "done"
                   THEN HandleUpgrade(t.msg.head) \o (IF ok THEN Greeting ELSE <<>>) ELSE <<>>
         /\ last' = (t.out = "done" /\ ~ok)
  /\ UNCHANGED <<run, wires, cread, cwrite, srd, inPlace, timeouts>>

(* A readv fills what is free of the ring; an SslSocket's recv takes some  *)
(* of it, at most up to where the memory of the ring ends.                 *)
Free == RingSize - Len(sring)
Room == IF mode # "loop" THEN Free
        ELSE IF base + Len(sring) < RingSize THEN H1!Min({Free, RingSize - base - Len(sring)})
        ELSE Free

ServerReads(n) ==
  /\ n > 0
  /\ sring' = sring \o SubSeq(c2s, 1, n)
  /\ c2s' = SubSeq(c2s, n + 1, Len(c2s))
  /\ spc' = IF spc = "recv" THEN "turn" ELSE "request"
  /\ srd' = IF spc = "recv" THEN [srd EXCEPT !.received = @ + n] ELSE srd
  /\ UNCHANGED <<run, s2c, cread, cwrite, request, base, out, inPlace, last, timeouts>>

ServerRecv ==
  /\ spc \in {"recv request", "recv"}
  /\ ServerReads(H1!Min({Len(c2s), Room}))

ServerPeerClosed ==
  /\ spc \in {"recv request", "recv"} /\ cpc = "closed" /\ c2s = <<>>
  /\ spc' = "closed"
  /\ UNCHANGED <<run, wires, cread, cwrite, request, sring, base, srd, out, inPlace, last, timeouts>>
-----------------------------------------------------------------------------
(***************************************************************************)
(* The server echoes.                                                      *)
(***************************************************************************)

Consume(n) ==
  /\ sring' = SubSeq(sring, n + 1, Len(sring))
  /\ base' = (base + n) % RingSize

(* tryPrepareZeroCopy: the payload is unmasked where it lies.  If it lies  *)
(* in one piece the header of the echo is put in front of it, over the     *)
(* key, and both are sent from there; else the header is kept apart.  It   *)
(* is not looked at where the memory of the ring begins.                   *)
EchoInPlace ==
  LET h       == sring[1][2]
      at      == HeaderLength(h)
      payload == ApplyMask(PayloadAt(sring))
      echo    == AppendFrameHeader(Whole(h.op, payload), FALSE)
      where(i)   == (base + i - 1) % RingSize
      contiguous == h.len > 0 /\ \A i \in at + 2 .. FrameLength(h) : where(i) # 0
  IN  /\ out' = echo \o payload
      /\ sring' = [i \in DOMAIN sring |->
                     IF i = at /\ contiguous /\ where(at + 1) # 0 THEN echo[1]
                     ELSE IF i \in at + 1 .. FrameLength(h) THEN payload[i - at]
                     ELSE sring[i]]
      /\ base' = base
      /\ inPlace' = FrameLength(h)

(* What is sent for a message: the handler echoes text, the other ways     *)
(* what they got; a Pong is passed over.                                   *)
Reply(rd) ==
  CASE rd.op = "ping"  -> Encode(Whole("pong", rd.message), FALSE)
    [] rd.op = "close" -> Encode(Whole("close", <<>>), FALSE)
    [] rd.op = "pong"  -> <<>>
    [] OTHER -> Encode(Whole(IF mode = "app" THEN "text" ELSE rd.op, rd.message), FALSE)

(* advanceRead: in place if that can be, else through the reader.          *)
ServerTurn ==
  /\ spc = "turn"
  /\ IF mode # "app" /\ CanEchoInPlace(sring, TRUE)
     THEN /\ EchoInPlace
          /\ spc' = "write"
          /\ UNCHANGED <<srd, last>>
     ELSE LET t == ParseFromBuffer(srd, sring, TRUE, TRUE)
          IN  /\ sring' = t.ring
              /\ base' = (base + Len(sring) - Len(t.ring)) % RingSize
              /\ srd' = t.rd
              /\ out' = IF t.out = "message" THEN Reply(t.rd) ELSE <<>>
              /\ last' = (t.out = "message" /\ t.rd.op = "close")
              /\ spc' = CASE t.out = "message" -> "write"
                          [] t.out = "more" /\ Len(t.ring) < RingSize -> "recv"
                          [] OTHER -> "closed"
              /\ UNCHANGED inPlace
  /\ UNCHANGED <<run, wires, cread, cwrite, request, timeouts>>

(* onSend, onWrite.                                                        *)
ServerWrite(n) ==
  /\ spc = "write" /\ out # <<>> /\ n <= Len(out) /\ cpc # "closed"
  /\ s2c' = s2c \o SubSeq(out, 1, n)
  /\ out' = SubSeq(out, n + 1, Len(out))
  /\ UNCHANGED <<run, c2s, cread, cwrite, spc, request, sring, base, srd, inPlace, last, timeouts>>

(* Everything is sent: only now the ring gives up what was sent from it.   *)
ServerWritten ==
  /\ spc = "write" /\ out = <<>>
  /\ Consume(inPlace) /\ inPlace' = 0
  /\ srd' = FreshMessage
  /\ spc' = IF last THEN "closed" ELSE "turn"
  /\ UNCHANGED <<run, wires, cread, cwrite, request, out, last, timeouts>>

ServerWriteFails ==
  /\ spc = "write" /\ out # <<>> /\ cpc = "closed"
  /\ spc' = "closed"
  /\ UNCHANGED <<run, wires, cread, cwrite, request, sring, base, srd, out, inPlace, last, timeouts>>

(* getMessage times out and the handler reads again: the reader is a new   *)
(* one, the fragments the old one had are gone.                            *)
ReadTimesOut ==
  /\ mode = "app" /\ spc = "recv" /\ timeouts < MaxTimeouts
  /\ srd' = FreshMessage /\ spc' = "turn" /\ timeouts' = timeouts + 1
  /\ UNCHANGED <<run, wires, cread, cwrite, request, sring, base, out, inPlace, last>>
-----------------------------------------------------------------------------
SomeRequestWrite == \E n \in 1 .. Len(left) : ClientSendsRequest(n)
SomeClientWrite  == \E n \in 1 .. Len(left) : ClientWrite(n)
SomeServerWrite  == \E n \in 1 .. Len(out) : ServerWrite(n)

Next ==
  \/ SomeRequestWrite \/ ClientReadsResponse \/ SessionReadsResponse \/ UpgradeTimesOut \/ UpgradeAgain
  \/ ClientPeerClosed \/ Send \/ SomeClientWrite \/ SendTimesOut \/ ClientWriteFails
  \/ ClientTurn \/ ClientRecv \/ ClientCloses
  \/ ServerTakesRequest \/ ServerRecv \/ ServerPeerClosed \/ ServerTurn
  \/ SomeServerWrite \/ ServerWritten \/ ServerWriteFails \/ ReadTimesOut

Spec == Init /\ [][Next]_vars

(* Every coroutine is resumed when its socket is ready.  The steps that    *)
(* read and parse are given their fairness by the wire they take from, or  *)
(* by the place in the code they leave.                                    *)
ClientTakes == cpc \in {"wait", "recv"} /\ s2c # <<>>
                 /\ s2c' \in {SubSeq(s2c, n, Len(s2c)) : n \in 2 .. Len(s2c) + 1}
ServerTakes == spc \in {"recv request", "recv"} /\ c2s # <<>>
                 /\ c2s' \in {SubSeq(c2s, n, Len(c2s)) : n \in 2 .. Len(c2s) + 1}
ClientTurns == cpc = "turn" /\ cpc' \in {"recv", "closed"}
ServerTurns == spc = "turn" /\ spc' \in {"write", "recv", "closed"}
Requests    == spc = "request" /\ spc' \in {"recv request", "write", "closed"}

FairSpec ==
  /\ Spec
  /\ WF_vars(SomeRequestWrite) /\ WF_s2c(ClientTakes) /\ WF_vars(ClientPeerClosed)
  /\ WF_vars(Send) /\ WF_vars(SomeClientWrite) /\ WF_vars(ClientWriteFails)
  /\ WF_cpc(ClientTurns) /\ WF_vars(UpgradeAgain) /\ WF_spc(Requests)
  /\ WF_c2s(ServerTakes) /\ WF_vars(ServerPeerClosed) /\ WF_spc(ServerTurns)
  /\ WF_vars(SomeServerWrite) /\ WF_vars(ServerWritten) /\ WF_vars(ServerWriteFails)
-----------------------------------------------------------------------------
(* The messages the client gets are those it may expect, in their order,   *)
(* none twice, none mixed with another and none left out, however frames   *)
(* are cut and whatever times out.                                         *)
AnswersInOrder == IsPrefix(got, Expected)

(* The fast path of the reader and its slow path read the same, whatever   *)
(* the ring holds.                                                         *)
FastPathAgrees ==
  spc = "turn" => Alike(ParseFromBuffer(srd, sring, TRUE, TRUE),
                        ParseFromBuffer(srd, sring, TRUE, FALSE))

(* If the upgrade is accepted and the frames are such that the reader can  *)
(* take them, each gets its answer: no control frame between fragments, no *)
(* frame larger than the ring, and messages within half the limit.         *)
ServedScripts ==
  {s \in Scripts :
     /\ \A i \in DOMAIN s :
          /\ Len(s[i].payload) + 2 <= RingSize
          /\ s[i].op = "text" /\ s[i].fin => IsValidUtf8(s[i].payload)
          /\ ~s[i].fin => s[i + 1].op = "continuation"
     /\ Len(FlattenSeq([i \in DOMAIN s |-> Encode(s[i], TRUE)])) * 2 <= MaxMessageSize}

Served == defect = "none" /\ script \in ServedScripts

EveryMessageAnswered == Served ~> (Len(got) = Len(Expected) \/ timeouts > 0)

=============================================================================
