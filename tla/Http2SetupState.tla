---------------------------- MODULE Http2SetupState ----------------------------
(***************************************************************************)
(* The constants and the state of Http2Setup, and what it promises.        *)
(***************************************************************************)
EXTENDS Integers, Sequences

CONSTANTS
  Tokens,      \* what bytes are made of; see Http2Setup
  Scripts,     \* bound: what clients other than H2cClient send
  TlsScripts,  \* bound: what clients other than H2Client offer by ALPN and send
  Answers,     \* bound: what servers other than H2cServer send
  HeaderLimit  \* 8192, above which a head is not read on

Spoken == {"p", "q", "r", "G", "u", "E", "S", "A", "F", ".", "101", "404"}

ASSUME SetupAssumption ==
  /\ Spoken \subseteq Tokens
  /\ Scripts \subseteq Seq(Tokens) /\ Answers \subseteq Seq(Tokens)
  /\ \A offered \in TlsScripts : offered[2] \in Seq(Tokens)
  /\ HeaderLimit \in Nat

VARIABLES
  transport,  \* "clear" or "tls"
  peers,      \* which end is this library's: "both", "client" or "server"
  fallback,   \* m_http1_fallback: "default" if none is set, or "custom"
  offer,      \* protocols the client offers in its TLS handshake
  alpn,       \* the one that is selected, "none" before the handshake
  client,     \* [phase, out, ring]: Phase, bytes left to send, m_ring_buffer
  up, down,   \* bytes under way to the server and to the client
  written,    \* bytes the client has written
  answered,   \* bytes the server has written
  server,     \* [pc, ring, head, out] of handleConnection and detectProtocol
  seen,       \* bytes whoever took over at the server has read
  heard,      \* bytes the client's stream manager has read
  ends        \* ends that have closed their socket

Preface == <<"p", "q", "r">>
SwitchingProtocols == <<"101", "u", "E">>

From(s, i) == SubSeq(s, i, Len(s))
Position(s, token) == IF \E i \in 1 .. Len(s) : s[i] = token
                      THEN CHOOSE i \in 1 .. Len(s) : s[i] = token /\ \A j \in 1 .. i - 1 : s[j] # token
                      ELSE 0
StartsWith(bytes, prefix) == Len(prefix) <= Len(bytes) /\ SubSeq(bytes, 1, Len(prefix)) = prefix
-----------------------------------------------------------------------------
(* Where the preface ends in what a client has written.                    *)
PrefaceEnd(bytes) ==
  (IF StartsWith(bytes, Preface) THEN 0 ELSE Position(bytes, "E")) + Len(Preface)

(* Whoever takes the connection over gets every byte behind the ones that  *)
(* were used to set it up, once and in order: at the server what follows   *)
(* the preface or, with the default fallback, all that was sent; at the    *)
(* client what follows the server's first frame, or all of it over TLS.    *)
(* (drainRingBuffer, rb.write after 101 and before the fallback, consume.) *)
NothingLost ==
  /\ server.pc \in {"settings", "h2"} =>
       seen \o server.ring \o up = From(written, PrefaceEnd(written) + 1)
  /\ server.pc \in {"http1", "last"} => seen \o server.ring \o up = written
  /\ client.phase = "Done" =>
       heard \o client.ring \o down
         = IF transport = "tls" THEN answered ELSE From(answered, Position(answered, "E") + 3)

(* An end speaks HTTP/2 only if the other has agreed: the server after a   *)
(* preface that starts the connection or follows the head it answered with *)
(* 101, the client after that 101 and a first frame that is SETTINGS, or   *)
(* after both chose h2.  Two of this library's ends never fall back.       *)
BothAgreed ==
  /\ server.pc \in {"settings", "h2"} =>
       IF transport = "tls" THEN alpn = "h2" /\ StartsWith(written, Preface)
       ELSE \/ StartsWith(written, Preface)
            \/ /\ StartsWith(answered, SwitchingProtocols) /\ Position(written, "u") \in 1 .. Position(written, "E")
               /\ StartsWith(From(written, Position(written, "E") + 1), Preface)
  /\ client.phase = "Done" =>
       IF transport = "tls" THEN alpn = "h2"
       ELSE /\ answered[1] = "101" /\ Position(answered, "u") \in 1 .. Position(answered, "E")
            /\ answered[Position(answered, "E") + 1] \in {"S", "A"}
  /\ peers = "both" => server.pc \notin {"http1", "custom", "last"}
=============================================================================
