------------------------------ MODULE Http2Setup ------------------------------
(***************************************************************************)
(* How a connection becomes an HTTP/2 connection: the client that upgrades *)
(* from HTTP/1.1 (H2cClient) or that starts over TLS (H2Client), other     *)
(* clients, the servers that find out what a client speaks (H2cServer,     *)
(* H2Server), and other servers.  Bytes travel in pieces of any length and *)
(* whoever takes the connection over takes over the bytes read too far.    *)
(*                                                                         *)
(* A token stands for some bytes: "p", "q", "r" for the connection         *)
(* preface, "G" for the start of a request, "u" for the upgrade headers,   *)
(* "E" for the end of a head, "b" for a body, "S", "A", "F" and "." for    *)
(* the header and the payload of SETTINGS, its ACK and other frames.       *)
(***************************************************************************)
EXTENDS Http2SetupState, SequencesExt

Settings == <<"S", ".">>
SettingsAck == <<"A", ".">>
UpgradeRequest == <<"G", "u", "E">>
NotFound == <<"404", "E">>

vars == <<transport, peers, fallback, offer, alpn, client, up, down, written, answered,
          server, seen, heard, ends>>
-----------------------------------------------------------------------------
(***************************************************************************)
(* The client's machine.  A phase that sends ends when nothing is left.    *)
(***************************************************************************)
Sending == {"SendUpgrade", "SendPrefaceSettings", "SendAck"}
Waiting == {"RecvUpgradeResponse", "RecvSettings"}

Machine(phase, out, ring) == [phase |-> phase, out |-> out, ring |-> ring]

Enter(m, phase, out) == Machine(phase, out, m.ring)

(* parseUpgradeResponse: what follows the head stays in the ring.          *)
ParseUpgradeResponse(m) ==
  LET end == Position(m.ring, "E")
      ok  == m.ring[1] = "101" /\ Position(m.ring, "u") \in 1 .. end
  IN  CASE end = 0 -> m
        [] end > 0 /\ ~ok -> Enter(m, "failed", m.out)
        [] end > 0 /\ ok -> Machine("SendPrefaceSettings", Preface \o Settings, From(m.ring, end + 1))

(* tryConsumeSettingsFrame: the first frame is taken and must be SETTINGS. *)
BuggyTryConsumeSettingsFrame(m) ==
  IF Len(m.ring) < 2 THEN m
  ELSE Machine("SendAck", SettingsAck, From(m.ring, 3))

TryConsumeSettingsFrame(m) ==
  IF Len(m.ring) < 2 THEN m
  ELSE IF m.ring[1] \in {"S", "A"} THEN Machine("SendAck", SettingsAck, From(m.ring, 3))
  ELSE Enter(m, "failed", m.out)

(* advance(), once around: it stops where it waits for the socket.         *)
Turn(m) ==
  CASE m.phase = "SendUpgrade" /\ m.out = <<>> -> Enter(m, "RecvUpgradeResponse", <<>>)
    [] m.phase = "RecvUpgradeResponse"         -> ParseUpgradeResponse(m)
    [] m.phase = "SendPrefaceSettings" /\ m.out = <<>> ->
         Enter(m, IF transport = "tls" THEN "Done" ELSE "RecvSettings", <<>>)
    [] m.phase = "RecvSettings"                -> TryConsumeSettingsFrame(m)
    [] m.phase = "SendAck" /\ m.out = <<>>     -> Enter(m, "Done", <<>>)
    [] OTHER                                   -> m

Advance(m) == Turn(Turn(m))

(* A failed upgrade closes the socket (discardTransport).                  *)
Become(m) ==
  /\ client' = m
  /\ ends' = IF m.phase = "failed" THEN ends \cup {"client"} ELSE ends

ClientWrite ==
  /\ client.phase \in Sending \cup {"Done", "script"} /\ client.out # <<>>
  /\ "client" \notin ends
  /\ \E n \in 1 .. Len(client.out) :
       /\ up' = up \o SubSeq(client.out, 1, n)
       /\ written' = written \o SubSeq(client.out, 1, n)
       /\ Become(Advance([client EXCEPT !.out = From(@, n + 1)]))
  /\ UNCHANGED <<transport, peers, fallback, offer, alpn, down, answered, server, seen, heard>>

ClientRead ==
  /\ client.phase \in Waiting /\ down # <<>>
  /\ \E n \in 1 .. Len(down) :
       /\ Become(Advance([client EXCEPT !.ring = @ \o SubSeq(down, 1, n)]))
       /\ down' = From(down, n + 1)
  /\ UNCHANGED <<transport, peers, fallback, offer, alpn, up, written, answered, server, seen, heard>>

(* The server closes, a write fails, or the caller's timeout strikes.      *)
ClientFail ==
  /\ client.phase \in Sending \cup Waiting \cup {"Handshake"}
  /\ Become([client EXCEPT !.phase = "failed"])
  /\ UNCHANGED <<transport, peers, fallback, offer, alpn, up, down, written, answered, server, seen, heard>>

PeerClosed ==
  /\ client.phase \in Waiting /\ down = <<>> /\ "server" \in ends
  /\ Become([client EXCEPT !.phase = "failed"])
  /\ UNCHANGED <<transport, peers, fallback, offer, alpn, up, down, written, answered, server, seen, heard>>

(* After finalizeTransport the stream manager reads the connection, and    *)
(* sends a request.                                                        *)
ClientManager ==
  /\ client.phase = "Done" /\ "client" \notin ends
  /\ \/ /\ client.ring \o down # <<>>
        /\ heard' = heard \o client.ring \o down
        /\ client' = [client EXCEPT !.ring = <<>>] /\ down' = <<>>
     \/ /\ client.out = <<>> /\ "F" \notin ToSet(written)
        /\ client' = [client EXCEPT !.out = <<"F", ".">>]
        /\ UNCHANGED <<heard, down>>
  /\ UNCHANGED <<transport, peers, fallback, offer, alpn, up, written, answered, server, seen, ends>>

(* Another client may close whenever it likes; H2cClient::shutdown.        *)
ClientClose ==
  /\ client.phase \in {"script", "Done"} /\ "client" \notin ends
  /\ ends' = ends \cup {"client"}
  /\ UNCHANGED <<transport, peers, fallback, offer, alpn, client, up, down, written, answered, server, seen, heard>>
-----------------------------------------------------------------------------
(***************************************************************************)
(* The server.                                                             *)
(***************************************************************************)
Handler(pc, ring, head, out) == [pc |-> pc, ring |-> ring, head |-> head, out |-> out]

Go(s, pc) == Handler(pc, s.ring, s.head, s.out)

(* The preface is complete: SETTINGS go out, then the manager starts.      *)
BuggyTakePreface(s, otherwise) ==
  IF StartsWith(s.ring, Preface)
  THEN Handler("settings", From(s.ring, Len(Preface) + 1), s.head, s.out)
  ELSE otherwise

TakePreface(s, otherwise) ==
  IF StartsWith(s.ring, Preface)
  THEN Handler("settings", From(s.ring, Len(Preface) + 1), s.head, Settings)
  ELSE otherwise

(* A head that is complete, or too long: an upgrade, HTTP/1.1, or neither. *)
BuggyTakeHead(s) ==
  LET end == Position(s.head, "E")
      ok  == s.head[1] = "G" /\ Position(s.head, "!") \notin 1 .. end
  IN  CASE end = 0 /\ Len(s.head) < HeaderLimit -> Go(s, "header")
        [] end = 0 /\ Len(s.head) >= HeaderLimit -> Go(s, "closed")
        [] end > 0 /\ ~ok -> Go(s, "closed")
        [] end > 0 /\ ok /\ Position(s.head, "u") \in 1 .. end ->
             Handler("switching", s.ring, s.head, SwitchingProtocols)
        [] end > 0 /\ ok /\ Position(s.head, "u") \notin 1 .. end ->
             IF fallback = "default" THEN Handler("http1", From(s.head, end + 1), s.head, s.out) ELSE Go(s, "custom")

TakeHead(s) ==
  LET end == Position(s.head, "E")
      ok  == s.head[1] = "G" /\ Position(s.head, "!") \notin 1 .. end
  IN  CASE end = 0 /\ Len(s.head) < HeaderLimit -> Go(s, "header")
        [] end = 0 /\ Len(s.head) >= HeaderLimit -> Go(s, "closed")
        [] end > 0 /\ ~ok -> Go(s, "closed")
        [] end > 0 /\ ok /\ Position(s.head, "u") \in 1 .. end ->
             Handler("switching", s.ring, s.head, SwitchingProtocols)
        [] end > 0 /\ ok /\ Position(s.head, "u") \notin 1 .. end ->
             IF fallback = "default" THEN Handler("http1", s.head, s.head, s.out) ELSE Go(s, "custom")

(* detectProtocol; nothing is decided on fewer bytes than a preface has.   *)
Detect(s) ==
  IF Len(s.ring) < Len(Preface) THEN s
  ELSE TakePreface(s, IF s.ring[1] \in {"G", "p"}
                      THEN TakeHead(Handler(s.pc, <<>>, s.ring, s.out))
                      ELSE Go(s, "closed"))

AwaitPreface(s) ==
  IF Len(s.ring) < Len(Preface) THEN Go(s, "preface") ELSE TakePreface(s, Go(s, "closed"))

(* What the server does with the bytes of a read, by where it reads.       *)
Took(s, bytes) ==
  CASE s.pc = "detect"  -> Detect([s EXCEPT !.ring = @ \o bytes])
    [] s.pc = "header"  -> TakeHead([s EXCEPT !.head = @ \o bytes])
    [] s.pc = "preface" -> AwaitPreface([s EXCEPT !.ring = @ \o bytes])
    [] s.pc = "exactly" -> LET t == [s EXCEPT !.ring = @ \o bytes]
                           IN  IF Len(t.ring) < Len(Preface) THEN t ELSE TakePreface(t, Go(t, "closed"))

(* Where the first request ends, with the body that "l" in its head        *)
(* announces; 0 if it has not ended.                                       *)
RequestEnd(bytes) ==
  LET end  == Position(bytes, "E")
      body == IF Position(bytes, "l") \in 1 .. end THEN 1 ELSE 0
  IN  IF end = 0 \/ end + body > Len(bytes) THEN 0 ELSE end + body

Settle(s) ==
  /\ server' = s
  /\ ends' = IF s.pc = "closed" THEN ends \cup {"server"} ELSE ends

(* Over TLS no more than the preface is read.                              *)
ServerRead ==
  /\ server.pc \in {"detect", "header", "preface", "exactly"} /\ up # <<>>
  /\ \E n \in 1 .. Len(up) :
       /\ server.pc = "exactly" => n <= Len(Preface) - Len(server.ring)
       /\ Settle(Took(server, SubSeq(up, 1, n)))
       /\ up' = From(up, n + 1)
  /\ UNCHANGED <<transport, peers, fallback, offer, alpn, client, down, written, answered, seen, heard>>

ServerEof ==
  /\ server.pc \in {"detect", "header", "preface", "exactly", "h2", "http1"}
  /\ up = <<>> /\ "client" \in ends
  /\ server.pc = "h2" => server.ring = <<>>
  /\ server.pc = "http1" => RequestEnd(server.ring) = 0
  /\ Settle(Go(server, "closed"))
  /\ UNCHANGED <<transport, peers, fallback, offer, alpn, client, up, down, written, answered, seen, heard>>

(* After the 101 response the bytes behind the head go back to the ring.   *)
Written(s) ==
  CASE s.out # <<>> -> s
    [] s.out = <<>> /\ s.pc = "switching" ->
         AwaitPreface([s EXCEPT !.ring = From(s.head, Position(s.head, "E") + 1)])
    [] s.out = <<>> /\ s.pc = "settings" -> Go(s, "h2")
    [] OTHER -> s

ServerWrite ==
  /\ server.out # <<>> /\ server.pc # "closed"
  /\ \/ \E n \in 1 .. Len(server.out) :
          /\ down' = down \o SubSeq(server.out, 1, n)
          /\ answered' = answered \o SubSeq(server.out, 1, n)
          /\ Settle(Written([server EXCEPT !.out = From(@, n + 1)]))
     \/ /\ "client" \in ends
        /\ Settle(Go(server, "closed"))
        /\ UNCHANGED <<down, answered>>
  /\ UNCHANGED <<transport, peers, fallback, offer, alpn, client, up, written, seen, heard>>

(* The stream manager takes what is buffered and what arrives, and         *)
(* acknowledges the client's SETTINGS.                                     *)
ServerManager ==
  /\ server.pc = "h2" /\ server.out = <<>> /\ server.ring \o up # <<>>
  /\ seen' = seen \o server.ring \o up
  /\ server' = Handler("h2", <<>>, server.head,
                       IF "S" \in ToSet(server.ring \o up) THEN SettingsAck ELSE <<>>)
  /\ up' = <<>>
  /\ UNCHANGED <<transport, peers, fallback, offer, alpn, client, down, written, answered, heard, ends>>

(* runDefaultHttp1FallbackLoop: each request, read to its end, gets a 404; *)
(* "c" in its head asks for the connection to be closed behind it.         *)
FallbackLoop ==
  /\ server.pc = "http1" /\ server.out = <<>>
  /\ \E all \in {server.ring \o up} :
       \E end \in {RequestEnd(all)} :
         IF end = 0 THEN up # <<>> /\ server' = [server EXCEPT !.ring = all] /\ UNCHANGED seen
         ELSE /\ seen' = seen \o SubSeq(all, 1, end)
              /\ server' = Handler(IF Position(all, "c") \in 1 .. end THEN "last" ELSE "http1",
                                   From(all, end + 1), server.head, NotFound)
  /\ up' = <<>>
  /\ UNCHANGED <<transport, peers, fallback, offer, alpn, client, down, written, answered, heard, ends>>

CloseAfterLast ==
  /\ server.pc = "last" /\ server.out = <<>>
  /\ Settle(Go(server, "closed"))
  /\ UNCHANGED <<transport, peers, fallback, offer, alpn, client, up, down, written, answered, seen, heard>>

(* Another server may close whenever it likes.                             *)
ServerClose ==
  /\ server.pc = "script" /\ "server" \notin ends
  /\ ends' = ends \cup {"server"}
  /\ UNCHANGED <<transport, peers, fallback, offer, alpn, client, up, down, written, answered, server, seen, heard>>
-----------------------------------------------------------------------------
(* selectH2AlpnCallback, and what each end does with the outcome.          *)
Selected(offered) ==
  CASE "h2" \in offered -> "h2"
    [] "h2" \notin offered /\ "http/1.1" \in offered -> "http/1.1"
    [] OTHER -> ""

Handshake ==
  /\ client.phase = "Handshake" \/ server.pc = "handshake"
  /\ client.phase # "failed"
  /\ alpn' \in IF server.pc = "handshake" THEN {Selected(offer)} ELSE {"h2", "http/1.1", ""}
  /\ server' = IF server.pc # "handshake" THEN server
               ELSE Go(server, IF alpn' = "h2" THEN "exactly" ELSE "http1")
  /\ Become(IF client.phase # "Handshake" THEN client
            ELSE IF alpn' = "h2" THEN Enter(client, "SendPrefaceSettings", Preface \o Settings)
            ELSE Enter(client, "failed", <<>>))
  /\ UNCHANGED <<transport, peers, fallback, offer, up, down, written, answered, seen, heard>>
-----------------------------------------------------------------------------
Start(phase, out) == Machine(phase, out, <<>>)
Serve(pc)         == Handler(pc, <<>>, <<>>, <<>>)
Script(answer)    == Handler("script", <<>>, <<>>, answer)

ClearInit ==
  /\ transport = "clear" /\ offer = {} /\ alpn = "none"
  /\ \/ peers = "both" /\ client = Start("SendUpgrade", UpgradeRequest) /\ server = Serve("detect")
     \/ peers = "server" /\ server = Serve("detect")
        /\ \E script \in Scripts : client = Start("script", script)
     \/ peers = "client" /\ client = Start("SendUpgrade", UpgradeRequest)
        /\ \E answer \in Answers : server = Script(answer)

TlsInit ==
  /\ transport = "tls" /\ alpn = "none"
  /\ \/ peers = "both" /\ offer = {"h2"} /\ client = Start("Handshake", <<>>) /\ server = Serve("handshake")
     \/ peers = "server" /\ server = Serve("handshake")
        /\ \E script \in TlsScripts : offer = script[1] /\ client = Start("script", script[2])
     \/ peers = "client" /\ offer = {"h2"} /\ client = Start("Handshake", <<>>)
        /\ \E answer \in Answers : server = Script(answer)

Init ==
  /\ ClearInit \/ TlsInit
  /\ fallback \in {"default", "custom"}
  /\ up = <<>> /\ down = <<>> /\ written = <<>> /\ answered = <<>>
  /\ seen = <<>> /\ heard = <<>> /\ ends = {}

(* Over TLS nothing else travels before the handshake.                     *)
Quiet == transport = "clear" \/ alpn # "none"

ClientStep == Quiet /\ (ClientWrite \/ ClientRead \/ PeerClosed \/ ClientManager)
ServerStep ==
  Quiet /\ (ServerRead \/ ServerEof \/ ServerWrite \/ ServerManager \/ FallbackLoop \/ CloseAfterLast)

(* Neither end stops while there is something for it to do.                *)
Progress == ClientStep \/ ServerStep \/ Handshake

Next ==
  \/ Progress
  \/ ClientFail
  \/ Quiet /\ (ClientClose \/ ServerClose)

Spec == Init /\ [][Next]_vars /\ WF_vars(Progress)
-----------------------------------------------------------------------------
(***************************************************************************)
(* Properties.                                                             *)
(***************************************************************************)
(* Between this library's ends the machine ends, and once it has succeeded *)
(* each end's manager gets the other's SETTINGS or its acknowledgement,    *)
(* unless an end closes.                                                   *)
SetupEnds ==
  (peers = "both") ~>
    \/ client.phase = "failed" \/ ends # {}
    \/ client.phase = "Done" /\ "S" \in ToSet(seen) /\ "A" \in ToSet(heard)
=============================================================================
