--------------------------- MODULE Http2SetupProofs ---------------------------
(***************************************************************************)
(* That the set-up of a connection loses no byte and that its ends agree   *)
(* on the protocol, for any bytes of other clients and servers and every   *)
(* cut of the bytes into reads and writes.                                 *)
(*                                                                         *)
(* The invariant says of each end, by the phase of the client's machine    *)
(* and the place of the server's handler, that what it has not used and    *)
(* what is under way are all that the other end has written, from a place  *)
(* on that the bytes themselves show: the end of a head, a first frame,    *)
(* the preface.  Lemmas say that such a place does not move when bytes     *)
(* follow (RespondedGrows, AgreedGrows), that each step that uses bytes    *)
(* finds the next place where the one before left off (ClientTurns,        *)
(* ServerTakes, ServerSends), and that a client of this library is         *)
(* recognised by a server of it (UpgradeSeen).                             *)
(***************************************************************************)
EXTENDS Http2Setup, SequenceTheorems, WellFoundedInduction, TLAPS

Bytes  == Seq(Tokens)
Phases == {"Handshake", "SendUpgrade", "RecvUpgradeResponse", "SendPrefaceSettings",
           "RecvSettings", "SendAck", "Done", "failed", "script"}
Pcs    == {"handshake", "detect", "exactly", "header", "switching", "preface",
           "settings", "h2", "http1", "last", "custom", "closed", "script"}

Machines == [phase : Phases, out : Bytes, ring : Bytes]
Handlers == [pc : Pcs, ring : Bytes, head : Bytes, out : Bytes]

TypeOK ==
  /\ transport \in {"clear", "tls"} /\ fallback \in {"default", "custom"}
  /\ client \in Machines /\ server \in Handlers
  /\ up \in Bytes /\ down \in Bytes /\ written \in Bytes /\ answered \in Bytes
  /\ seen \in Bytes /\ heard \in Bytes

(* What the server's answer a has shown a client: its head, a first frame. *)
Responded(a) == a[1] = "101" /\ Position(a, "u") \in 1 .. Position(a, "E")
Settled(a) ==
  /\ Responded(a) /\ Position(a, "E") + 2 <= Len(a)
  /\ a[Position(a, "E") + 1] \in {"S", "A"}

(* Of the client's machine m: of what has been written to it, a, what it   *)
(* has not used is in its ring and under way, d.                           *)
ClientOK(m, d, a) ==
  /\ m.phase \in {"Handshake", "SendUpgrade", "RecvUpgradeResponse", "SendPrefaceSettings",
                  "RecvSettings", "SendAck"} => heard = <<>>
  /\ m.phase \in {"Handshake", "SendUpgrade", "RecvUpgradeResponse"} => m.ring \o d = a
  /\ m.phase \in {"SendPrefaceSettings", "RecvSettings"} /\ transport = "clear" =>
       Responded(a) /\ m.ring \o d = From(a, Position(a, "E") + 1)
  /\ m.phase = "SendAck" => Settled(a) /\ m.ring \o d = From(a, Position(a, "E") + 3)
  /\ m.phase \in {"SendPrefaceSettings", "Done"} /\ transport = "tls" =>
       alpn = "h2" /\ heard \o (m.ring \o d) = a
  /\ m.phase = "Done" /\ transport = "clear" =>
       Settled(a) /\ heard \o (m.ring \o d) = From(a, Position(a, "E") + 3)
  /\ m.phase = "Handshake" => transport = "tls" /\ alpn = "none"
  /\ m.phase \in {"SendUpgrade", "RecvUpgradeResponse", "RecvSettings", "SendAck"} => transport = "clear"

(* What the client's bytes w have shown a server: an upgrade; the preface. *)
Asked(w) == w[1] = "G" /\ Position(w, "u") \in 1 .. Position(w, "E")
Agreed(w, a) ==
  IF transport = "tls" THEN alpn = "h2" /\ StartsWith(w, Preface)
  ELSE \/ StartsWith(w, Preface)
       \/ /\ StartsWith(a, SwitchingProtocols) /\ Asked(w)
          /\ StartsWith(From(w, Position(w, "E") + 1), Preface)

(* Of the server s: of what has been written to it, w, what it has not     *)
(* used is in its ring or its head and under way, u.                       *)
ServerOK(s, u, w, a) ==
  /\ s.pc \in {"handshake", "detect", "exactly", "header", "switching", "preface"} => seen = <<>>
  /\ s.pc \in {"handshake", "detect", "exactly", "header"} => a = <<>> /\ s.out = <<>>
  /\ s.pc \in {"handshake", "detect", "exactly"} => s.ring \o u = w
  /\ s.pc \in {"header", "switching"} => s.ring = <<>> /\ s.head \o u = w
  /\ s.pc = "switching" => Asked(s.head) /\ a \o s.out = SwitchingProtocols
  /\ s.pc = "preface" =>
       Asked(w) /\ s.ring \o u = From(w, Position(w, "E") + 1) /\ a = SwitchingProtocols /\ s.out = <<>>
  /\ s.pc \in {"settings", "h2"} =>
       Agreed(w, a) /\ seen \o (s.ring \o u) = From(w, PrefaceEnd(w) + 1)
  /\ s.pc \in {"http1", "last"} => seen \o (s.ring \o u) = w
  /\ s.pc = "handshake" => transport = "tls" /\ alpn = "none"
  /\ s.pc = "exactly" => transport = "tls" /\ alpn = "h2"
  /\ s.pc \in {"detect", "header", "switching", "preface"} => transport = "clear"

(* Two of this library's ends.                                             *)
Upgrading(w) == \A i \in 1 .. 3 : i <= Len(w) => w[i] = UpgradeRequest[i]

BothOK(m, s, w) ==
  peers = "both" =>
    /\ m.phase # "script" /\ s.pc \notin {"script", "http1", "custom", "last"}
    /\ transport = "tls" =>
         offer = {"h2"} /\ s.pc \in {"handshake", "exactly", "settings", "h2", "closed"}
    /\ transport = "clear" =>
         /\ Upgrading(w) /\ (m.phase \in {"SendUpgrade", "failed"} \/ Len(w) >= 3)
         /\ m.phase = "SendUpgrade" => w \o m.out = UpgradeRequest

IInv ==
  /\ TypeOK
  /\ ClientOK(client, down, answered)
  /\ ServerOK(server, up, written, answered)
  /\ BothOK(client, server, written)
-----------------------------------------------------------------------------
(* Bytes and where a token is in them.                                     *)

(* What is left of bytes from a place on.                                  *)
LEMMA FromFacts ==
  ASSUME NEW s \in Bytes, NEW i \in 1 .. Len(s) + 1
  PROVE  /\ From(s, i) \in Bytes /\ Len(From(s, i)) = Len(s) - i + 1
         /\ \A j \in 1 .. Len(s) - i + 1 : From(s, i)[j] = s[i + j - 1]
<1>1. Len(s) \in Nat /\ \A j \in i .. Len(s) : s[j] \in Tokens
  BY DEF Bytes
<1> QED
  BY <1>1, SubSeqProperties DEF From, Bytes

(* Bytes and bytes that follow them.                                       *)
LEMMA ConcatFacts ==
  ASSUME NEW s \in Bytes, NEW t \in Bytes
  PROVE  /\ s \o t \in Bytes /\ Len(s \o t) = Len(s) + Len(t)
         /\ Len(s) \in Nat /\ Len(t) \in Nat
         /\ \A i \in 1 .. Len(s) : (s \o t)[i] = s[i]
         /\ \A i \in 1 .. Len(t) : (s \o t)[Len(s) + i] = t[i]
BY DEF Bytes

(* Bytes that agree everywhere are the same.                               *)
LEMMA SameBytes ==
  ASSUME NEW s \in Bytes, NEW t \in Bytes, Len(s) = Len(t), \A i \in 1 .. Len(s) : s[i] = t[i]
  PROVE  s = t
BY SeqEqual DEF Bytes

(* How bytes are put together does not matter.                             *)
LEMMA Associative == \A b1, b2, b3 \in Bytes : (b1 \o b2) \o b3 = b1 \o (b2 \o b3)
BY ConcatAssociative DEF Bytes

(* No bytes.                                                               *)
LEMMA EmptyFacts ==
  ASSUME NEW s \in Bytes
  PROVE  /\ <<>> \in Bytes /\ <<>> \o s = s /\ s \o <<>> = s
         /\ Len(s) = 0 => s = <<>>
BY DEF Bytes

(* Bytes are some of them and then the others.                             *)
LEMMA SplitFacts ==
  ASSUME NEW s \in Bytes, NEW n \in 0 .. Len(s)
  PROVE  /\ SubSeq(s, 1, n) \in Bytes /\ Len(SubSeq(s, 1, n)) = n
         /\ \A i \in 1 .. n : SubSeq(s, 1, n)[i] = s[i]
         /\ From(s, n + 1) \in Bytes
         /\ SubSeq(s, 1, n) \o From(s, n + 1) = s
<1> DEFINE a == SubSeq(s, 1, n)
<1>0. Len(s) \in Nat /\ n \in Int /\ 1 \in Int
  BY DEF Bytes
<1>1. Len(s) \in Nat /\ \A j \in 1 .. n : s[j] \in Tokens
  BY DEF Bytes
<1>2. a \in Bytes /\ Len(a) = n /\ \A i \in 1 .. n : a[i] = s[i]
  <2>1. SubSeq(s, 1, n) \in Seq(Tokens) /\ Len(SubSeq(s, 1, n)) = (IF 1 <= n THEN n - 1 + 1 ELSE 0)
        /\ \A i \in 1 .. n - 1 + 1 : SubSeq(s, 1, n)[i] = s[1 + i - 1]
    BY <1>1, SubSeqProperties
  <2> QED
    BY <2>1, <1>1 DEF Bytes
<1>3. /\ From(s, n + 1) \in Bytes /\ Len(From(s, n + 1)) = Len(s) - n
      /\ \A j \in 1 .. Len(s) - n : From(s, n + 1)[j] = s[n + j]
  <2>1. n + 1 \in 1 .. Len(s) + 1
    BY <1>1
  <2>2. /\ From(s, n + 1) \in Bytes /\ Len(From(s, n + 1)) = Len(s) - (n + 1) + 1
        /\ \A j \in 1 .. Len(s) - (n + 1) + 1 : From(s, n + 1)[j] = s[n + 1 + j - 1]
    BY <2>1, FromFacts
  <2> QED
    BY <2>2, <1>1
<1> HIDE DEF a
<1>4. a \o From(s, n + 1) = s
  <2> DEFINE b == From(s, n + 1)
  <2>1. /\ a \o b \in Bytes /\ Len(a \o b) = Len(a) + Len(b)
        /\ \A i \in 1 .. Len(a) : (a \o b)[i] = a[i]
        /\ \A i \in 1 .. Len(b) : (a \o b)[Len(a) + i] = b[i]
    BY <1>2, <1>3, ConcatFacts
  <2> HIDE DEF b
  <2>2. ASSUME NEW i \in 1 .. Len(s) PROVE (a \o b)[i] = s[i]
    <3>1. CASE i <= n
      BY <1>1, <1>2, <2>1, <3>1
    <3>2. CASE i > n
      <4>1. i - n \in 1 .. Len(s) - n /\ i = n + (i - n)
        BY <1>1, <3>2
      <4>2. b[i - n] = s[i]
        BY <1>3, <4>1 DEF b
      <4> QED
        BY <1>2, <1>3, <2>1, <4>1, <4>2 DEF b
    <3>3. i <= n \/ i > n
      BY <1>0
    <3> QED
      BY <3>1, <3>2, <3>3
  <2>3. Len(a \o b) = Len(s)
    BY <1>1, <1>2, <1>3, <2>1 DEF b
  <2>4. a \o b = s
    BY <2>1, <2>2, <2>3, SameBytes
  <2> QED
    BY <2>4 DEF b
<1> QED
  BY <1>2, <1>3, <1>4 DEF a

(* What follows in the first of two pieces goes on with the second.        *)
LEMMA FromConcat ==
  ASSUME NEW s \in Bytes, NEW t \in Bytes, NEW i \in 1 .. Len(s) + 1
  PROVE  From(s \o t, i) = From(s, i) \o t
<1> DEFINE a == From(s \o t, i)
<1> DEFINE f == From(s, i)
<1> DEFINE b == f \o t
<1>1. /\ s \o t \in Bytes /\ Len(s \o t) = Len(s) + Len(t) /\ Len(s) \in Nat /\ Len(t) \in Nat
      /\ \A j \in 1 .. Len(s) : (s \o t)[j] = s[j]
      /\ \A j \in 1 .. Len(t) : (s \o t)[Len(s) + j] = t[j]
  BY ConcatFacts
<1>2. /\ f \in Bytes /\ Len(f) = Len(s) - i + 1
      /\ \A j \in 1 .. Len(s) - i + 1 : f[j] = s[i + j - 1]
  BY FromFacts
<1>3. /\ a \in Bytes /\ Len(a) = Len(s) + Len(t) - i + 1
      /\ \A j \in 1 .. Len(s) + Len(t) - i + 1 : a[j] = (s \o t)[i + j - 1]
  <2> DEFINE c == s \o t
  <2>1. c \in Bytes /\ i \in 1 .. Len(c) + 1 /\ Len(c) = Len(s) + Len(t)
    BY <1>1
  <2> HIDE DEF c
  <2>2. /\ From(c, i) \in Bytes /\ Len(From(c, i)) = Len(c) - i + 1
        /\ \A j \in 1 .. Len(c) - i + 1 : From(c, i)[j] = c[i + j - 1]
    BY <2>1, FromFacts
  <2> QED
    BY <2>1, <2>2 DEF c
<1> HIDE DEF a, f
<1>4. /\ b \in Bytes /\ Len(b) = Len(f) + Len(t)
      /\ \A j \in 1 .. Len(f) : b[j] = f[j]
      /\ \A j \in 1 .. Len(t) : b[Len(f) + j] = t[j]
  BY <1>2, ConcatFacts
<1> HIDE DEF b
<1>8. /\ Len(s) \in Nat /\ Len(t) \in Nat /\ i \in 1 .. Len(s) + 1
      /\ Len(f) = Len(s) - i + 1 /\ Len(a) = Len(s) + Len(t) - i + 1
  BY <1>1, <1>2, <1>3
<1>5. ASSUME NEW j \in 1 .. Len(a) PROVE a[j] = b[j]
  <2>1. CASE j <= Len(f)
    <3>1. i + j - 1 \in 1 .. Len(s)
      BY <1>1, <1>2, <2>1
    <3> QED
      BY <1>1, <1>2, <1>3, <1>4, <2>1, <3>1
  <2>2. CASE j > Len(f)
    <3>1. j - Len(f) \in 1 .. Len(t) /\ i + j - 1 = Len(s) + (j - Len(f)) /\ j = Len(f) + (j - Len(f))
      BY <1>8, <2>2
    <3>2. a[j] = t[j - Len(f)]
      BY <1>1, <1>3, <3>1
    <3>3. b[j] = t[j - Len(f)]
      BY <1>4, <3>1
    <3> QED
      BY <3>2, <3>3
  <2>3. j <= Len(f) \/ j > Len(f)
    BY <1>8
  <2> QED
    BY <2>1, <2>2, <2>3
<1>6. Len(a) = Len(b)
  BY <1>1, <1>2, <1>3, <1>4
<1>7. a = b
  BY <1>3, <1>4, <1>5, <1>6, SameBytes
<1> QED
  BY <1>7 DEF a, b, f

(* From a place on, and from another on behind it.                         *)
LEMMA FromFrom ==
  ASSUME NEW s \in Bytes, NEW i \in 1 .. Len(s) + 1, NEW j \in 1 .. Len(s) - i + 2
  PROVE  From(From(s, i), j) = From(s, i + j - 1)
<1> DEFINE f == From(s, i)
<1> DEFINE a == From(f, j)
<1> DEFINE b == From(s, i + j - 1)
<1>0. Len(s) \in Nat
  BY DEF Bytes
<1>1. f \in Bytes /\ Len(f) = Len(s) - i + 1 /\ \A k \in 1 .. Len(s) - i + 1 : f[k] = s[i + k - 1]
  BY FromFacts
<1> HIDE DEF f
<1>2. a \in Bytes /\ Len(a) = Len(f) - j + 1 /\ \A k \in 1 .. Len(f) - j + 1 : a[k] = f[j + k - 1]
  <2>1. j \in 1 .. Len(f) + 1
    BY <1>0, <1>1
  <2> QED
    BY <1>1, <2>1, FromFacts
<1>3. /\ b \in Bytes /\ Len(b) = Len(s) - (i + j - 1) + 1
      /\ \A k \in 1 .. Len(s) - (i + j - 1) + 1 : b[k] = s[i + j - 1 + k - 1]
  <2>1. i + j - 1 \in 1 .. Len(s) + 1
    BY <1>0
  <2> QED
    BY <2>1, FromFacts
<1> HIDE DEF a, b
<1>4. ASSUME NEW k \in 1 .. Len(a) PROVE a[k] = b[k]
  <2>1. j + k - 1 \in 1 .. Len(s) - i + 1 /\ i + (j + k - 1) - 1 = i + j - 1 + k - 1
    BY <1>0, <1>1, <1>2
  <2>2. a[k] = s[i + j - 1 + k - 1]
    BY <1>1, <1>2, <2>1
  <2>3. b[k] = s[i + j - 1 + k - 1]
    BY <1>0, <1>1, <1>2, <1>3
  <2> QED
    BY <2>2, <2>3
<1>5. a = b
  <2>1. Len(a) = Len(b)
    BY <1>0, <1>1, <1>2, <1>3
  <2> QED
    BY <2>1, <1>2, <1>3, <1>4, SameBytes
<1> QED
  BY <1>5 DEF a, b, f

(* Position finds the first place of a token, or none.                     *)
LEMMA PositionFacts ==
  ASSUME NEW s \in Bytes, NEW k
  PROVE  /\ Position(s, k) \in 0 .. Len(s)
         /\ Position(s, k) = 0 => \A i \in 1 .. Len(s) : s[i] # k
         /\ Position(s, k) # 0 =>
              s[Position(s, k)] = k /\ \A j \in 1 .. Position(s, k) - 1 : s[j] # k
<1>0. Len(s) \in Nat
  BY DEF Bytes
<1>1. CASE \A i \in 1 .. Len(s) : s[i] # k
  BY <1>0, <1>1 DEF Position
<1>2. CASE \E i \in 1 .. Len(s) : s[i] = k
  <2>1. \E i \in 1 .. Len(s) : s[i] = k /\ \A j \in 1 .. i - 1 : s[j] # k
    <3> DEFINE at == {i \in Nat : i \in 1 .. Len(s) /\ s[i] = k}
    <3>1. at # {} /\ at \subseteq Nat
      BY <1>0, <1>2
    <3> HIDE DEF at
    <3>2. PICK i \in at : \A j \in at : ~(<<j, i>> \in OpToRel(<, Nat))
      BY <3>1, NatLessThanWellFounded, WFMin
    <3>3. \A j \in at : ~(j < i)
      BY <3>1, <3>2 DEF OpToRel
    <3>4. i \in 1 .. Len(s) /\ s[i] = k /\ i \in Nat
      BY <3>2 DEF at
    <3>5. ASSUME NEW j \in 1 .. i - 1 PROVE s[j] # k
      <4>1. j \in Nat /\ j \in 1 .. Len(s) /\ j < i
        BY <1>0, <3>4
      <4>2. j \notin at
        BY <3>3, <4>1
      <4> QED
        BY <4>1, <4>2 DEF at
    <3> QED
      BY <3>4, <3>5
  <2>2. Position(s, k) = CHOOSE i \in 1 .. Len(s) : s[i] = k /\ \A j \in 1 .. i - 1 : s[j] # k
    BY <1>2 DEF Position
  <2>3. Position(s, k) \in 1 .. Len(s) /\ s[Position(s, k)] = k
        /\ \A j \in 1 .. Position(s, k) - 1 : s[j] # k
    BY <2>1, <2>2
  <2> QED
    BY <1>0, <2>3
<1> QED
  BY <1>1, <1>2

(* The first place of a token stays the first when more bytes follow.      *)
LEMMA PositionConcat ==
  ASSUME NEW s \in Bytes, NEW t \in Bytes, NEW k, Position(s, k) # 0
  PROVE  Position(s \o t, k) = Position(s, k)
<1> DEFINE p == Position(s, k)
<1> DEFINE q == Position(s \o t, k)
<1>1. /\ p \in 1 .. Len(s) /\ s[p] = k /\ \A j \in 1 .. p - 1 : s[j] # k
  BY PositionFacts
<1>2. /\ s \o t \in Bytes /\ Len(s \o t) = Len(s) + Len(t) /\ Len(s) \in Nat /\ Len(t) \in Nat
      /\ \A i \in 1 .. Len(s) : (s \o t)[i] = s[i]
  BY ConcatFacts
<1>3. /\ q \in 0 .. Len(s \o t)
      /\ q = 0 => \A i \in 1 .. Len(s \o t) : (s \o t)[i] # k
      /\ q # 0 => (s \o t)[q] = k /\ \A j \in 1 .. q - 1 : (s \o t)[j] # k
  BY <1>2, PositionFacts
<1> HIDE DEF p, q
<1>4. q # 0
  BY <1>1, <1>2, <1>3
<1>5. ~(p < q)
  BY <1>1, <1>2, <1>3, <1>4
<1>6. ~(q < p)
  BY <1>1, <1>2, <1>3, <1>4
<1>7. p = q
  BY <1>1, <1>2, <1>3, <1>5, <1>6
<1> QED
  BY <1>7 DEF p, q

(* The preface and the 101 response are three tokens each.                 *)
LEMMA PrefixFacts ==
  Preface \in Bytes /\ Len(Preface) = 3 /\ SwitchingProtocols \in Bytes /\ Len(SwitchingProtocols) = 3
BY SetupAssumption DEF Preface, SwitchingProtocols, Bytes, Spoken

(* What this library's ends write.                                         *)
LEMMA SpokenFacts ==
  /\ Preface \in Bytes /\ Settings \in Bytes /\ SettingsAck \in Bytes /\ UpgradeRequest \in Bytes
  /\ SwitchingProtocols \in Bytes /\ NotFound \in Bytes /\ <<>> \in Bytes /\ <<"F", ".">> \in Bytes
BY SetupAssumption DEF Preface, Settings, SettingsAck, UpgradeRequest, SwitchingProtocols, NotFound,
  Bytes, Spoken

(* Three bytes at the start stay there.                                    *)
LEMMA StartsConcat ==
  ASSUME NEW s \in Bytes, NEW t \in Bytes, NEW x \in Bytes
  PROVE  /\ StartsWith(s, x) => StartsWith(s \o t, x)
         /\ StartsWith(s \o t, x) /\ Len(x) <= Len(s) => StartsWith(s, x)
<1>1. /\ s \o t \in Bytes /\ Len(s \o t) = Len(s) + Len(t) /\ Len(s) \in Nat /\ Len(t) \in Nat
      /\ Len(x) \in Nat
      /\ \A i \in 1 .. Len(s) : (s \o t)[i] = s[i]
  BY ConcatFacts
<1>2. ASSUME Len(x) <= Len(s) PROVE SubSeq(s \o t, 1, Len(x)) = SubSeq(s, 1, Len(x))
  <2> DEFINE n == Len(x)
  <2> DEFINE c == s \o t
  <2> DEFINE a == SubSeq(c, 1, n)
  <2> DEFINE b == SubSeq(s, 1, n)
  <2>1. n \in 0 .. Len(s) /\ n \in 0 .. Len(c) /\ c \in Bytes /\ n \in Nat
    BY <1>1, <1>2
  <2>4. \A i \in 1 .. n : c[i] = s[i]
    BY <1>1, <1>2
  <2> HIDE DEF n, c
  <2>2. a \in Bytes /\ Len(a) = n /\ \A i \in 1 .. n : a[i] = c[i]
    BY <2>1, SplitFacts
  <2>3. b \in Bytes /\ Len(b) = n /\ \A i \in 1 .. n : b[i] = s[i]
    BY <2>1, SplitFacts
  <2> HIDE DEF a, b
  <2>5. a = b
    BY <2>2, <2>3, <2>4, SameBytes
  <2> QED
    BY <2>5 DEF a, b, n, c
<1> QED
  BY <1>1, <1>2 DEF StartsWith

-----------------------------------------------------------------------------
(* What more bytes leave as it is.                                         *)

(* A piece that is taken and the rest, behind what was taken before.       *)
LEMMA PieceFacts ==
  ASSUME NEW r \in Bytes, NEW d \in Bytes, NEW n \in 1 .. Len(d)
  PROVE  /\ SubSeq(d, 1, n) \in Bytes /\ From(d, n + 1) \in Bytes
         /\ SubSeq(d, 1, n) \o From(d, n + 1) = d
         /\ r \o SubSeq(d, 1, n) \in Bytes
         /\ (r \o SubSeq(d, 1, n)) \o From(d, n + 1) = r \o d
<1>1. n \in 0 .. Len(d)
  OBVIOUS
<1>2. /\ SubSeq(d, 1, n) \in Bytes /\ From(d, n + 1) \in Bytes
      /\ SubSeq(d, 1, n) \o From(d, n + 1) = d
  BY <1>1, SplitFacts
<1> DEFINE x == SubSeq(d, 1, n)
<1> DEFINE y == From(d, n + 1)
<1>3. x \in Bytes /\ y \in Bytes /\ x \o y = d
  BY <1>2
<1> HIDE DEF x, y
<1>4. r \o x \in Bytes
  BY <1>3, ConcatFacts
<1>5. (r \o x) \o y = r \o (x \o y)
  BY <1>3, Associative, Zenon
<1> QED
  BY <1>2, <1>3, <1>4, <1>5 DEF x, y

(* An answer's head stays where it is when more is answered.               *)
LEMMA RespondedGrows ==
  ASSUME NEW a \in Bytes, NEW y \in Bytes, Responded(a)
  PROVE  /\ Responded(a \o y) /\ Position(a \o y, "E") = Position(a, "E")
         /\ Position(a, "E") \in 1 .. Len(a) /\ Len(a) \in Nat
         /\ From(a \o y, Position(a, "E") + 1) = From(a, Position(a, "E") + 1) \o y
<1>1. /\ Position(a, "E") \in 0 .. Len(a) /\ Position(a, "u") \in 0 .. Len(a) /\ Len(a) \in Nat
      /\ Position(a, "u") \in 1 .. Position(a, "E")
  BY PositionFacts DEF Responded, Bytes
<1>2. Position(a, "E") # 0 /\ Position(a, "u") # 0 /\ Position(a, "E") \in 1 .. Len(a)
  BY <1>1
<1>3. Position(a \o y, "E") = Position(a, "E") /\ Position(a \o y, "u") = Position(a, "u")
  BY <1>2, PositionConcat
<1>4. (a \o y)[1] = a[1]
  <2>1. 1 \in 1 .. Len(a)
    BY <1>1, <1>2
  <2> QED
    BY <2>1, ConcatFacts
<1>5. From(a \o y, Position(a, "E") + 1) = From(a, Position(a, "E") + 1) \o y
  <2>1. Position(a, "E") + 1 \in 1 .. Len(a) + 1
    BY <1>1
  <2> QED
    BY <2>1, FromConcat
<1> QED
  BY <1>1, <1>2, <1>3, <1>4, <1>5 DEF Responded

(* So does the first frame behind it.                                      *)
LEMMA SettledGrows ==
  ASSUME NEW a \in Bytes, NEW y \in Bytes, Settled(a)
  PROVE  /\ Settled(a \o y) /\ Position(a \o y, "E") = Position(a, "E")
         /\ From(a \o y, Position(a, "E") + 3) = From(a, Position(a, "E") + 3) \o y
<1> DEFINE p == Position(a, "E")
<1>1. /\ Responded(a \o y) /\ Position(a \o y, "E") = p /\ p \in 1 .. Len(a) /\ Len(a) \in Nat
      /\ p + 2 <= Len(a) /\ a[p + 1] \in {"S", "A"}
  BY RespondedGrows DEF Settled
<1>2. /\ a \o y \in Bytes /\ Len(a \o y) = Len(a) + Len(y) /\ Len(y) \in Nat
      /\ \A i \in 1 .. Len(a) : (a \o y)[i] = a[i]
  BY ConcatFacts
<1> HIDE DEF p
<1>3. (a \o y)[p + 1] = a[p + 1] /\ p + 2 <= Len(a \o y)
  BY <1>1, <1>2
<1>4. From(a \o y, p + 3) = From(a, p + 3) \o y
  <2>1. p + 3 \in 1 .. Len(a) + 1
    BY <1>1
  <2> QED
    BY <2>1, FromConcat
<1> QED
  BY <1>1, <1>3, <1>4 DEF Settled, p

(* A request's head stays where it is when more is written.                *)
LEMMA AskedGrows ==
  ASSUME NEW w \in Bytes, NEW x \in Bytes, Asked(w)
  PROVE  /\ Asked(w \o x) /\ Position(w \o x, "E") = Position(w, "E")
         /\ Position(w, "E") \in 1 .. Len(w) /\ Len(w) \in Nat
         /\ From(w \o x, Position(w, "E") + 1) = From(w, Position(w, "E") + 1) \o x
<1>1. /\ Position(w, "E") \in 0 .. Len(w) /\ Position(w, "u") \in 0 .. Len(w) /\ Len(w) \in Nat
      /\ Position(w, "u") \in 1 .. Position(w, "E")
  BY PositionFacts DEF Asked, Bytes
<1>2. Position(w, "E") # 0 /\ Position(w, "u") # 0 /\ Position(w, "E") \in 1 .. Len(w)
  BY <1>1
<1>3. Position(w \o x, "E") = Position(w, "E") /\ Position(w \o x, "u") = Position(w, "u")
  BY <1>2, PositionConcat
<1>4. (w \o x)[1] = w[1]
  <2>1. 1 \in 1 .. Len(w)
    BY <1>1, <1>2
  <2> QED
    BY <2>1, ConcatFacts
<1>5. From(w \o x, Position(w, "E") + 1) = From(w, Position(w, "E") + 1) \o x
  <2>1. Position(w, "E") + 1 \in 1 .. Len(w) + 1
    BY <1>1
  <2> QED
    BY <2>1, FromConcat
<1> QED
  BY <1>1, <1>2, <1>3, <1>4, <1>5 DEF Asked

(* Bytes that start with a request do not start with the preface.          *)
LEMMA AskedIsNoPreface ==
  ASSUME NEW w \in Bytes, Asked(w)
  PROVE  ~StartsWith(w, Preface) /\ PrefaceEnd(w) = Position(w, "E") + 3
<1>1. ASSUME StartsWith(w, Preface) PROVE FALSE
  <2>1. 3 <= Len(w) /\ SubSeq(w, 1, 3) = Preface
    BY <1>1, PrefixFacts DEF StartsWith
  <2>2. 3 \in 0 .. Len(w) /\ 1 \in 1 .. 3
    BY <2>1 DEF Bytes
  <2>3. Preface[1] = w[1]
    BY <2>1, <2>2, SplitFacts
  <2> QED
    BY <2>3 DEF Asked, Preface
<1> QED
  BY <1>1, PrefixFacts DEF PrefaceEnd

(* Bytes that have the length of the preface and start like it.            *)
LEMMA PrefaceGrows ==
  ASSUME NEW r \in Bytes, NEW u \in Bytes, StartsWith(r, Preface)
  PROVE  /\ StartsWith(r \o u, Preface) /\ Len(r) \in Nat /\ Len(r) >= 3
         /\ From(r \o u, 4) = From(r, 4) \o u /\ From(r, 4) \in Bytes
<1>1. Len(r) \in Nat /\ 3 <= Len(r)
  BY PrefixFacts DEF StartsWith, Bytes
<1>2. 4 \in 1 .. Len(r) + 1
  BY <1>1
<1> QED
  BY <1>1, <1>2, PrefixFacts, StartsConcat, FromConcat, FromFacts

(* An agreement stays one, and what follows the preface goes on.           *)
LEMMA AgreedGrows ==
  ASSUME NEW w \in Bytes, NEW x \in Bytes, NEW a \in Bytes, NEW y \in Bytes, Agreed(w, a)
  PROVE  /\ Agreed(w \o x, a \o y) /\ Agreed(w \o x, a) /\ Agreed(w, a \o y)
         /\ From(w \o x, PrefaceEnd(w \o x) + 1) = From(w, PrefaceEnd(w) + 1) \o x
<1>1. CASE StartsWith(w, Preface)
  <2>1. /\ StartsWith(w \o x, Preface) /\ From(w \o x, 4) = From(w, 4) \o x
    BY <1>1, PrefaceGrows
  <2>2. PrefaceEnd(w) = 3 /\ PrefaceEnd(w \o x) = 3
    BY <1>1, <2>1, PrefixFacts DEF PrefaceEnd
  <2> QED
    BY <1>1, <2>1, <2>2 DEF Agreed
<1>2. CASE ~StartsWith(w, Preface)
  <2> DEFINE p == Position(w, "E")
  <2> DEFINE b == From(w, p + 1)
  <2>1. /\ transport # "tls" /\ StartsWith(a, SwitchingProtocols) /\ Asked(w) /\ StartsWith(b, Preface)
    BY <1>2 DEF Agreed
  <2>2. /\ Asked(w \o x) /\ Position(w \o x, "E") = p /\ p \in 1 .. Len(w) /\ Len(w) \in Nat
        /\ From(w \o x, p + 1) = b \o x
    BY <2>1, AskedGrows
  <2>3. b \in Bytes /\ Len(b) = Len(w) - (p + 1) + 1
    <3>1. p + 1 \in 1 .. Len(w) + 1
      BY <2>2
    <3> QED
      BY <3>1, FromFacts
  <2>4. StartsWith(b \o x, Preface) /\ Len(b) >= 3
    BY <2>1, <2>3, PrefaceGrows
  <2>5. StartsWith(a \o y, SwitchingProtocols)
    BY <2>1, PrefixFacts, StartsConcat
  <2>6. PrefaceEnd(w) = p + 3 /\ PrefaceEnd(w \o x) = p + 3
    BY <2>1, <2>2, AskedIsNoPreface, ConcatFacts
  <2>7. From(w \o x, p + 3 + 1) = From(w, p + 3 + 1) \o x
    <3>1. p + 3 + 1 \in 1 .. Len(w) + 1
      BY <2>2, <2>3, <2>4
    <3> HIDE DEF p
    <3> QED
      BY <3>1, FromConcat
  <2>8. From(w \o x, PrefaceEnd(w \o x) + 1) = From(w, PrefaceEnd(w) + 1) \o x
    BY <2>6, <2>7
  <2>9. Agreed(w \o x, a \o y) /\ Agreed(w \o x, a) /\ Agreed(w, a \o y)
    BY <2>1, <2>2, <2>4, <2>5 DEF Agreed
  <2> QED
    BY <2>8, <2>9
<1> QED
  BY <1>1, <1>2
-----------------------------------------------------------------------------
(* The client.                                                             *)

(* What is written to a client is behind what it has not used.             *)
LEMMA ClientGets ==
  ASSUME NEW m \in Machines, NEW d \in Bytes, NEW a \in Bytes, NEW y \in Bytes, heard \in Bytes,
         ClientOK(m, d, a)
  PROVE  ClientOK(m, d \o y, a \o y)
<1>0. m.ring \in Bytes /\ d \o y \in Bytes /\ m.ring \o d \in Bytes
  BY ConcatFacts DEF Machines
<1>1. (m.ring \o d) \o y = m.ring \o (d \o y)
  <2> DEFINE r == m.ring
  <2>1. r \in Bytes
    BY <1>0
  <2> HIDE DEF r
  <2>2. (r \o d) \o y = r \o (d \o y)
    BY <2>1, Associative
  <2> QED
    BY <2>2 DEF r
<1>2. heard \o (m.ring \o (d \o y)) = (heard \o (m.ring \o d)) \o y
  <2>1. (heard \o (m.ring \o d)) \o y = heard \o ((m.ring \o d) \o y)
    BY <1>0, Associative, Zenon
  <2> QED
    BY <1>1, <2>1
<1>3. Responded(a) =>
        /\ Responded(a \o y) /\ Position(a \o y, "E") = Position(a, "E")
        /\ From(a \o y, Position(a, "E") + 1) = From(a, Position(a, "E") + 1) \o y
  BY RespondedGrows
<1>4. Settled(a) =>
        /\ Settled(a \o y) /\ Position(a \o y, "E") = Position(a, "E")
        /\ From(a \o y, Position(a, "E") + 3) = From(a, Position(a, "E") + 3) \o y
  BY SettledGrows
<1> QED
  BY <1>1, <1>2, <1>3, <1>4 DEF ClientOK

(* A client takes a piece of what is under way into its ring.              *)
LEMMA ClientTakes ==
  ASSUME NEW m \in Machines, NEW d \in Bytes, NEW a \in Bytes, NEW n \in 1 .. Len(d),
         ClientOK(m, d, a)
  PROVE  /\ [m EXCEPT !.ring = @ \o SubSeq(d, 1, n)] \in Machines
         /\ ClientOK([m EXCEPT !.ring = @ \o SubSeq(d, 1, n)], From(d, n + 1), a)
<1> DEFINE r == m.ring \o SubSeq(d, 1, n)
<1> DEFINE k == [m EXCEPT !.ring = r]
<1>1. r \in Bytes /\ r \o From(d, n + 1) = m.ring \o d
  BY PieceFacts DEF Machines
<1> HIDE DEF r
<1>2. k \in Machines /\ k.ring = r /\ k.phase = m.phase /\ k.out = m.out
  BY <1>1 DEF Machines
<1> HIDE DEF k
<1>3. ClientOK(k, From(d, n + 1), a)
  BY <1>1, <1>2 DEF ClientOK
<1> QED
  BY <1>2, <1>3 DEF k, r

(* It finds the end of the server's head, and that it is a 101.            *)
LEMMA ResponseTaken ==
  ASSUME NEW m \in Machines, NEW d \in Bytes, NEW a \in Bytes, ClientOK(m, d, a),
         m.phase = "RecvUpgradeResponse"
  PROVE  ParseUpgradeResponse(m) \in Machines /\ ClientOK(ParseUpgradeResponse(m), d, a)
<1> DEFINE end == Position(m.ring, "E")
<1> DEFINE f == From(m.ring, end + 1)
<1> DEFINE k == Machine("SendPrefaceSettings", Preface \o Settings, f)
<1>1. /\ m.ring \in Bytes /\ m.out \in Bytes /\ end \in 0 .. Len(m.ring) /\ Len(m.ring) \in Nat
      /\ heard = <<>> /\ m.ring \o d = a /\ transport = "clear"
  BY PositionFacts DEF Machines, ClientOK, Bytes
<1>2. CASE end = 0
  BY <1>2 DEF ParseUpgradeResponse
<1>3. CASE end > 0 /\ ~Responded(m.ring)
  <2>1. ParseUpgradeResponse(m) = Machine("failed", m.out, m.ring)
    BY <1>3 DEF ParseUpgradeResponse, Responded, Enter
  <2> QED
    BY <1>1, <2>1 DEF Machine, Machines, ClientOK, Phases
<1>4. CASE end > 0 /\ Responded(m.ring)
  <2>1. ParseUpgradeResponse(m) = k
    BY <1>4 DEF ParseUpgradeResponse, Responded
  <2>2. Responded(a) /\ Position(a, "E") = end /\ From(a, end + 1) = f \o d
    BY <1>1, <1>4, RespondedGrows
  <2>3. f \in Bytes
    <3>1. end + 1 \in 1 .. Len(m.ring) + 1
      BY <1>1
    <3> QED
      BY <1>1, <3>1, FromFacts
  <2>4. Preface \o Settings \in Bytes
    BY SpokenFacts, ConcatFacts
  <2> HIDE DEF f, end
  <2>5. k \in Machines /\ k.phase = "SendPrefaceSettings" /\ k.ring = f
    BY <2>3, <2>4 DEF Machine, Machines, Phases
  <2> HIDE DEF k
  <2> QED
    BY <1>1, <2>1, <2>2, <2>5 DEF ClientOK
<1> QED
  BY <1>1, <1>2, <1>3, <1>4

(* It finds the first frame behind it, and that it is SETTINGS.            *)
LEMMA SettingsTaken ==
  ASSUME NEW m \in Machines, NEW d \in Bytes, NEW a \in Bytes, ClientOK(m, d, a),
         m.phase = "RecvSettings"
  PROVE  TryConsumeSettingsFrame(m) \in Machines /\ ClientOK(TryConsumeSettingsFrame(m), d, a)
<1> DEFINE r == m.ring
<1> DEFINE p == Position(a, "E")
<1>1. /\ r \in Bytes /\ m.out \in Bytes /\ Len(r) \in Nat /\ Len(d) \in Nat
      /\ heard = <<>> /\ transport = "clear" /\ Responded(a) /\ r \o d = From(a, p + 1)
  BY DEF Machines, ClientOK, Bytes
<1>2. p \in 1 .. Len(a) /\ Len(a) \in Nat
  BY <1>1, RespondedGrows
<1>3. CASE Len(r) < 2
  BY <1>3 DEF TryConsumeSettingsFrame
<1>4. CASE Len(r) >= 2 /\ r[1] \notin {"S", "A"}
  <2>1. TryConsumeSettingsFrame(m) = Machine("failed", m.out, m.ring)
    BY <1>1, <1>4 DEF TryConsumeSettingsFrame, Enter
  <2> QED
    BY <1>1, <2>1 DEF Machine, Machines, ClientOK, Phases
<1>5. CASE Len(r) >= 2 /\ r[1] \in {"S", "A"}
  <2> DEFINE f == From(r, 3)
  <2> DEFINE k == Machine("SendAck", SettingsAck, f)
  <2>1. TryConsumeSettingsFrame(m) = k
    BY <1>1, <1>5 DEF TryConsumeSettingsFrame
  <2>2. f \in Bytes /\ From(r \o d, 3) = f \o d
    <3>1. 3 \in 1 .. Len(r) + 1
      BY <1>1, <1>5
    <3> QED
      BY <1>1, <3>1, FromFacts, FromConcat
  <2>3. /\ Len(r \o d) = Len(r) + Len(d) /\ (r \o d)[1] = r[1]
    <3>1. 1 \in 1 .. Len(r)
      BY <1>1, <1>5
    <3> QED
      BY <1>1, <3>1, ConcatFacts
  <2>4. p + 1 \in 1 .. Len(a) + 1
    BY <1>2
  <2>5. /\ Len(From(a, p + 1)) = Len(a) - (p + 1) + 1
        /\ \A j \in 1 .. Len(a) - (p + 1) + 1 : From(a, p + 1)[j] = a[p + 1 + j - 1]
    BY <2>4, FromFacts
  <2>6. p + 2 <= Len(a) /\ a[p + 1] = r[1] /\ From(a, p + 3) = f \o d
    <3> HIDE DEF p, f, r
    <3>1. Len(a) - (p + 1) + 1 = Len(r) + Len(d)
      BY <1>1, <2>3, <2>5
    <3>2. p + 2 <= Len(a)
      BY <1>1, <1>2, <1>5, <3>1
    <3>3. 1 \in 1 .. Len(a) - (p + 1) + 1 /\ p + 1 + 1 - 1 = p + 1
      BY <1>2, <3>2
    <3>4. a[p + 1] = r[1]
      BY <1>1, <2>3, <2>5, <3>3
    <3>5. p + 1 \in 1 .. Len(a) + 1 /\ 3 \in 1 .. Len(a) - (p + 1) + 2 /\ p + 1 + 3 - 1 = p + 3
      BY <1>2, <3>2
    <3>6. From(From(a, p + 1), 3) = From(a, p + 3)
      BY <3>5, FromFrom
    <3> QED
      BY <1>1, <2>2, <3>2, <3>4, <3>6
  <2>7. Settled(a)
    BY <1>1, <1>5, <2>6 DEF Settled
  <2> HIDE DEF f
  <2>8. k \in Machines /\ k.phase = "SendAck" /\ k.ring = f
    BY <2>2, SpokenFacts DEF Machine, Machines, Phases
  <2> HIDE DEF k
  <2> QED
    BY <1>1, <2>1, <2>6, <2>7, <2>8 DEF ClientOK
<1> QED
  BY <1>1, <1>3, <1>4, <1>5

(* Once around advance() a client keeps what it has to keep.               *)
LEMMA ClientTurns ==
  ASSUME NEW m \in Machines, NEW d \in Bytes, NEW a \in Bytes, heard \in Bytes,
         transport \in {"clear", "tls"}, ClientOK(m, d, a)
  PROVE  Turn(m) \in Machines /\ ClientOK(Turn(m), d, a)
<1>0. /\ m.ring \in Bytes /\ m.out \in Bytes /\ m.ring \o d \in Bytes /\ <<>> \in Bytes
      /\ <<>> \o (m.ring \o d) = m.ring \o d
  <2>1. m.ring \in Bytes /\ m.out \in Bytes
    BY DEF Machines
  <2>2. m.ring \o d \in Bytes
    BY <2>1, ConcatFacts
  <2> QED
    BY <2>1, <2>2, EmptyFacts
<1>1. CASE m.phase = "RecvUpgradeResponse"
  BY <1>1, ResponseTaken DEF Turn
<1>2. CASE m.phase = "RecvSettings"
  BY <1>2, SettingsTaken DEF Turn
<1>3. CASE m.phase = "SendUpgrade" /\ m.out = <<>>
  <2> DEFINE k == Machine("RecvUpgradeResponse", <<>>, m.ring)
  <2>1. Turn(m) = k
    BY <1>3 DEF Turn, Enter
  <2>2. k \in Machines /\ k.phase = "RecvUpgradeResponse" /\ k.ring = m.ring
    BY <1>0 DEF Machine, Machines, Phases
  <2> HIDE DEF k
  <2> QED
    BY <1>3, <2>1, <2>2 DEF ClientOK
<1>4. CASE m.phase = "SendPrefaceSettings" /\ m.out = <<>>
  <2> DEFINE k == Machine(IF transport = "tls" THEN "Done" ELSE "RecvSettings", <<>>, m.ring)
  <2>1. Turn(m) = k
    BY <1>4 DEF Turn, Enter
  <2>2. /\ k \in Machines /\ k.phase = (IF transport = "tls" THEN "Done" ELSE "RecvSettings")
        /\ k.ring = m.ring
    BY <1>0 DEF Machine, Machines, Phases
  <2> HIDE DEF k
  <2> QED
    BY <1>4, <2>1, <2>2 DEF ClientOK
<1>5. CASE m.phase = "SendAck" /\ m.out = <<>>
  <2> DEFINE k == Machine("Done", <<>>, m.ring)
  <2>1. Turn(m) = k
    BY <1>5 DEF Turn, Enter
  <2>2. k \in Machines /\ k.phase = "Done" /\ k.ring = m.ring
    BY <1>0 DEF Machine, Machines, Phases
  <2> HIDE DEF k
  <2> QED
    BY <1>0, <1>5, <2>1, <2>2 DEF ClientOK
<1>6. CASE /\ m.phase \notin {"RecvUpgradeResponse", "RecvSettings"}
           /\ m.phase \in {"SendUpgrade", "SendPrefaceSettings", "SendAck"} => m.out # <<>>
  BY <1>6 DEF Turn
<1> QED
  BY <1>1, <1>2, <1>3, <1>4, <1>5, <1>6

(* And so it does for good.                                                *)
LEMMA ClientAdvances ==
  ASSUME NEW m \in Machines, NEW d \in Bytes, NEW a \in Bytes, heard \in Bytes,
         transport \in {"clear", "tls"}, ClientOK(m, d, a)
  PROVE  Advance(m) \in Machines /\ ClientOK(Advance(m), d, a)
<1>1. Turn(m) \in Machines /\ ClientOK(Turn(m), d, a)
  BY ClientTurns
<1>2. \A k : k \in Machines /\ ClientOK(k, d, a) => Turn(k) \in Machines /\ ClientOK(Turn(k), d, a)
  BY ClientTurns
<1> QED
  BY <1>1, <1>2, Zenon DEF Advance
-----------------------------------------------------------------------------
(* The server.                                                             *)

(* The fields of a handler.                                                *)
LEMMA HandlerFacts ==
  ASSUME NEW s \in Handlers
  PROVE  /\ s.pc \in Pcs /\ s.ring \in Bytes /\ s.head \in Bytes /\ s.out \in Bytes
BY DEF Handlers

(* What is written to a server is behind what it has not used.             *)
LEMMA ServerGets ==
  ASSUME NEW s \in Handlers, NEW u \in Bytes, NEW w \in Bytes, NEW a \in Bytes, NEW x \in Bytes,
         seen \in Bytes, ServerOK(s, u, w, a)
  PROVE  ServerOK(s, u \o x, w \o x, a)
<1>0. /\ s.ring \in Bytes /\ s.head \in Bytes /\ u \o x \in Bytes /\ s.ring \o u \in Bytes
      /\ <<>> \in Bytes
  BY HandlerFacts, ConcatFacts, SpokenFacts
<1>1. (s.ring \o u) \o x = s.ring \o (u \o x) /\ (s.head \o u) \o x = s.head \o (u \o x)
  <2> DEFINE r == s.ring
  <2> DEFINE h == s.head
  <2>1. r \in Bytes
    BY <1>0
  <2>2. h \in Bytes
    BY <1>0
  <2> HIDE DEF r, h
  <2>3. (r \o u) \o x = r \o (u \o x)
    BY <2>1, Associative
  <2>4. (h \o u) \o x = h \o (u \o x)
    BY <2>2, Associative
  <2> QED
    BY <2>3, <2>4 DEF r, h
<1>2. seen \o (s.ring \o (u \o x)) = (seen \o (s.ring \o u)) \o x
  <2> DEFINE c == s.ring \o u
  <2>1. (seen \o c) \o x = seen \o (c \o x)
    <3>1. c \in Bytes
      BY <1>0
    <3> HIDE DEF c
    <3> QED
      BY <3>1, Associative
  <2> QED
    BY <1>1, <2>1
<1>3. Asked(w) => /\ Asked(w \o x) /\ Position(w \o x, "E") = Position(w, "E")
                  /\ From(w \o x, Position(w, "E") + 1) = From(w, Position(w, "E") + 1) \o x
  BY AskedGrows
<1>4. Agreed(w, a) => /\ Agreed(w \o x, a)
                      /\ From(w \o x, PrefaceEnd(w \o x) + 1) = From(w, PrefaceEnd(w) + 1) \o x
  BY <1>0, AgreedGrows
<1> QED
  BY <1>1, <1>2, <1>3, <1>4 DEF ServerOK

(* The preface that starts the ring is taken.                              *)
LEMMA PrefaceTaken ==
  ASSUME NEW s \in Handlers, NEW u \in Bytes, NEW w \in Bytes, NEW a \in Bytes, NEW o \in Handlers,
         seen = <<>>, transport \in {"clear", "tls"},
         \/ s.ring \o u = w /\ (transport = "tls" => alpn = "h2")
         \/ /\ transport = "clear" /\ Asked(w) /\ s.ring \o u = From(w, Position(w, "E") + 1)
            /\ a = SwitchingProtocols,
         ~StartsWith(s.ring, Preface) => ServerOK(o, u, w, a)
  PROVE  TakePreface(s, o) \in Handlers /\ ServerOK(TakePreface(s, o), u, w, a)
<1> DEFINE r == s.ring
<1> DEFINE f == From(r, 4)
<1> DEFINE k == Handler("settings", f, s.head, Settings)
<1>1. CASE ~StartsWith(r, Preface)
  BY <1>1 DEF TakePreface
<1>2. CASE StartsWith(r, Preface)
  <2>1. TakePreface(s, o) = k
    BY <1>2, PrefixFacts DEF TakePreface
  <2>2. r \in Bytes /\ s.head \in Bytes /\ Settings \in Bytes
    BY HandlerFacts, SpokenFacts
  <2>3. StartsWith(r \o u, Preface) /\ From(r \o u, 4) = f \o u /\ f \in Bytes
        /\ Len(r) \in Nat /\ Len(r) >= 3
    BY <1>2, <2>2, PrefaceGrows
  <2>4. Agreed(w, a) /\ f \o u = From(w, PrefaceEnd(w) + 1)
    <3>1. CASE r \o u = w /\ (transport = "tls" => alpn = "h2")
      <4>1. StartsWith(w, Preface) /\ f \o u = From(w, 4)
        BY <2>3, <3>1
      <4>2. PrefaceEnd(w) = 3
        BY <4>1, PrefixFacts DEF PrefaceEnd
      <4> QED
        BY <3>1, <4>1, <4>2 DEF Agreed
    <3>2. CASE /\ transport = "clear" /\ Asked(w) /\ r \o u = From(w, Position(w, "E") + 1)
               /\ a = SwitchingProtocols
      <4> DEFINE p == Position(w, "E")
      <4>1. p \in 1 .. Len(w) /\ Len(w) \in Nat /\ PrefaceEnd(w) = p + 3
        BY <3>2, AskedGrows, AskedIsNoPreface
      <4>2. StartsWith(a, SwitchingProtocols)
        <5>1. 3 \in 0 .. Len(SwitchingProtocols)
          BY PrefixFacts
        <5>2. SubSeq(SwitchingProtocols, 1, 3) = SwitchingProtocols
          <6>1. /\ SubSeq(SwitchingProtocols, 1, 3) \in Bytes /\ Len(SubSeq(SwitchingProtocols, 1, 3)) = 3
                /\ \A i \in 1 .. 3 : SubSeq(SwitchingProtocols, 1, 3)[i] = SwitchingProtocols[i]
            BY <5>1, PrefixFacts, SplitFacts
          <6> QED
            BY <6>1, PrefixFacts, SameBytes
        <5> QED
          BY <3>2, <5>2, PrefixFacts DEF StartsWith
      <4>3. StartsWith(From(w, p + 1), Preface)
        BY <2>3, <3>2
      <4>4. Len(From(w, p + 1)) >= 3 /\ Len(From(w, p + 1)) = Len(w) - (p + 1) + 1
        <5>1. p + 1 \in 1 .. Len(w) + 1
          BY <4>1
        <5>2. From(w, p + 1) \in Bytes /\ Len(From(w, p + 1)) = Len(w) - (p + 1) + 1
          BY <5>1, FromFacts
        <5> QED
          BY <4>3, <5>2, PrefixFacts DEF StartsWith
      <4>5. From(w, p + 3 + 1) = f \o u
        <5> HIDE DEF p
        <5>1. p + 1 \in 1 .. Len(w) + 1 /\ 4 \in 1 .. Len(w) - (p + 1) + 2 /\ p + 1 + 4 - 1 = p + 3 + 1
          BY <4>1, <4>4
        <5>2. From(From(w, p + 1), 4) = From(w, p + 1 + 4 - 1)
          BY <5>1, FromFrom
        <5>3. From(From(w, p + 1), 4) = f \o u
          BY <2>3, <3>2 DEF p
        <5> QED
          BY <5>1, <5>2, <5>3
      <4> QED
        BY <3>2, <4>1, <4>2, <4>3, <4>5 DEF Agreed
    <3> QED
      BY <3>1, <3>2
  <2>5. <<>> \o (f \o u) = f \o u
    BY <2>3, ConcatFacts, EmptyFacts
  <2> HIDE DEF f
  <2>6. k \in Handlers /\ k.pc = "settings" /\ k.ring = f
    BY <2>2, <2>3 DEF Handler, Handlers, Pcs
  <2> HIDE DEF k
  <2> QED
    BY <2>1, <2>4, <2>5, <2>6 DEF ServerOK
<1> QED
  BY <1>1, <1>2

(* A server that has closed promises nothing.                              *)
LEMMA ServerCloses ==
  ASSUME NEW s \in Handlers, NEW u, NEW w, NEW a
  PROVE  /\ Go(s, "closed") \in Handlers /\ Go(s, "closed").pc = "closed"
         /\ ServerOK(Go(s, "closed"), u, w, a)
BY DEF Go, Handler, Handlers, ServerOK, Pcs

(* A server finds the end of a head and whether it asks for an upgrade.    *)
LEMMA HeadTaken ==
  ASSUME NEW s \in Handlers, NEW u \in Bytes, NEW w \in Bytes, NEW a \in Bytes,
         seen = <<>>, transport = "clear", s.ring = <<>>, s.head \o u = w, a = <<>>, s.out = <<>>
  PROVE  TakeHead(s) \in Handlers /\ ServerOK(TakeHead(s), u, w, a)
<1> DEFINE end == Position(s.head, "E")
<1> DEFINE ok == s.head[1] = "G" /\ Position(s.head, "!") \notin 1 .. end
<1>0. /\ s.head \in Bytes /\ <<>> \in Bytes /\ end \in Nat /\ HeaderLimit \in Nat
      /\ Len(s.head) \in Nat /\ SwitchingProtocols \in Bytes
      /\ <<>> \o SwitchingProtocols = SwitchingProtocols
      /\ <<>> \o (s.head \o u) = s.head \o u
  BY HandlerFacts, PositionFacts, SpokenFacts, EmptyFacts, ConcatFacts, SetupAssumption DEF Bytes
<1> HIDE DEF ok
<1>1. CASE end = 0 /\ Len(s.head) < HeaderLimit
  <2> DEFINE k == Go(s, "header")
  <2>1. TakeHead(s) = k
    BY <1>0, <1>1 DEF TakeHead
  <2>2. /\ k \in Handlers /\ k.pc = "header" /\ k.ring = <<>> /\ k.head = s.head /\ k.out = <<>>
    BY HandlerFacts DEF Go, Handler, Handlers, Pcs
  <2> HIDE DEF k
  <2> QED
    BY <2>1, <2>2 DEF ServerOK
<1>2. CASE (end = 0 /\ Len(s.head) >= HeaderLimit) \/ (end > 0 /\ ~ok)
  <2>1. TakeHead(s) = Go(s, "closed")
    BY <1>0, <1>2 DEF TakeHead, ok
  <2> QED
    BY <2>1, ServerCloses
<1>3. CASE end > 0 /\ ok /\ Position(s.head, "u") \in 1 .. end
  <2> DEFINE k == Handler("switching", s.ring, s.head, SwitchingProtocols)
  <2>1. TakeHead(s) = k
    BY <1>0, <1>3 DEF TakeHead, ok
  <2>2. /\ k \in Handlers /\ k.pc = "switching" /\ k.ring = <<>> /\ k.head = s.head
        /\ k.out = SwitchingProtocols
    BY <1>0 DEF Handler, Handlers, Pcs
  <2>3. Asked(s.head)
    BY <1>3 DEF Asked, ok
  <2> HIDE DEF k
  <2> QED
    BY <1>0, <2>1, <2>2, <2>3 DEF ServerOK
<1>4. CASE end > 0 /\ ok /\ Position(s.head, "u") \notin 1 .. end
  <2> DEFINE k == IF fallback = "default" THEN Handler("http1", s.head, s.head, s.out)
                  ELSE Go(s, "custom")
  <2>1. TakeHead(s) = k
    BY <1>0, <1>4 DEF TakeHead, ok
  <2>2. /\ k \in Handlers /\ k.pc \in {"http1", "custom"}
        /\ k.pc = "http1" => k.ring = s.head
    BY HandlerFacts DEF Go, Handler, Handlers, Pcs
  <2> HIDE DEF k
  <2> QED
    BY <1>0, <2>1, <2>2 DEF ServerOK
<1>5. end = 0 \/ end > 0
  BY <1>0
<1>6. Len(s.head) < HeaderLimit \/ Len(s.head) >= HeaderLimit
  BY <1>0
<1>7. \/ end = 0 /\ Len(s.head) < HeaderLimit
      \/ (end = 0 /\ Len(s.head) >= HeaderLimit) \/ (end > 0 /\ ~ok)
      \/ end > 0 /\ ok /\ Position(s.head, "u") \in 1 .. end
      \/ end > 0 /\ ok /\ Position(s.head, "u") \notin 1 .. end
  <2> HIDE DEF end
  <2> QED
    BY <1>5, <1>6
<1> HIDE DEF end
<1> QED
  BY <1>1, <1>2, <1>3, <1>4, <1>7

(* Behind the 101 it finds the preface, or goes on reading.                *)
LEMMA PrefaceAwaited ==
  ASSUME NEW s \in Handlers, NEW u \in Bytes, NEW w \in Bytes, NEW a \in Bytes,
         seen = <<>>, transport = "clear", Asked(w), s.ring \o u = From(w, Position(w, "E") + 1),
         a = SwitchingProtocols, s.out = <<>>
  PROVE  AwaitPreface(s) \in Handlers /\ ServerOK(AwaitPreface(s), u, w, a)
<1>1. CASE Len(s.ring) < Len(Preface)
  <2> DEFINE k == Go(s, "preface")
  <2>1. AwaitPreface(s) = k
    BY <1>1 DEF AwaitPreface
  <2>2. k \in Handlers /\ k.pc = "preface" /\ k.ring = s.ring /\ k.out = <<>>
    BY HandlerFacts DEF Go, Handler, Handlers, Pcs
  <2> HIDE DEF k
  <2> QED
    BY <2>1, <2>2 DEF ServerOK
<1>2. CASE ~(Len(s.ring) < Len(Preface))
  <2>1. AwaitPreface(s) = TakePreface(s, Go(s, "closed"))
    BY <1>2 DEF AwaitPreface
  <2>2. Go(s, "closed") \in Handlers /\ ServerOK(Go(s, "closed"), u, w, a)
    BY ServerCloses
  <2> DEFINE o == Go(s, "closed")
  <2> HIDE DEF o
  <2>3. TakePreface(s, o) \in Handlers /\ ServerOK(TakePreface(s, o), u, w, a)
    BY <2>2, PrefaceTaken DEF o
  <2> QED
    BY <2>1, <2>3 DEF o
<1> QED
  BY <1>1, <1>2

(* A server finds out what a client speaks.                                *)
LEMMA ProtocolDetected ==
  ASSUME NEW s \in Handlers, NEW u \in Bytes, NEW w \in Bytes, NEW a \in Bytes,
         s.pc = "detect", ServerOK(s, u, w, a)
  PROVE  Detect(s) \in Handlers /\ ServerOK(Detect(s), u, w, a)
<1>0. /\ seen = <<>> /\ transport = "clear" /\ s.ring \o u = w /\ a = <<>> /\ s.out = <<>>
      /\ s.ring \in Bytes /\ s.head \in Bytes /\ <<>> \in Bytes
  BY HandlerFacts, SpokenFacts DEF ServerOK
<1>1. CASE Len(s.ring) < Len(Preface)
  BY <1>1 DEF Detect
<1>2. CASE ~(Len(s.ring) < Len(Preface))
  <2> DEFINE t == Handler(s.pc, <<>>, s.ring, s.out)
  <2> DEFINE o == IF s.ring[1] \in {"G", "p"} THEN TakeHead(t) ELSE Go(s, "closed")
  <2>1. Detect(s) = TakePreface(s, o)
    BY <1>2 DEF Detect
  <2>2. t \in Handlers /\ t.ring = <<>> /\ t.head = s.ring /\ t.out = <<>>
    BY <1>0, HandlerFacts DEF Handler, Handlers
  <2> HIDE DEF t
  <2>3. TakeHead(t) \in Handlers /\ ServerOK(TakeHead(t), u, w, a)
    BY <1>0, <2>2, HeadTaken
  <2>4. o \in Handlers /\ ServerOK(o, u, w, a)
    BY <2>3, ServerCloses
  <2> HIDE DEF o
  <2>5. TakePreface(s, o) \in Handlers /\ ServerOK(TakePreface(s, o), u, w, a)
    BY <1>0, <2>4, PrefaceTaken
  <2> QED
    BY <2>1, <2>5
<1> QED
  BY <1>1, <1>2

Reads == {"detect", "header", "preface", "exactly"}

(* Wherever it reads, a server keeps what it has to keep.                  *)
LEMMA ServerTakes ==
  ASSUME NEW s \in Handlers, NEW u \in Bytes, NEW w \in Bytes, NEW a \in Bytes, NEW n \in 1 .. Len(u),
         s.pc \in Reads, ServerOK(s, u, w, a)
  PROVE  /\ Took(s, SubSeq(u, 1, n)) \in Handlers
         /\ ServerOK(Took(s, SubSeq(u, 1, n)), From(u, n + 1), w, a)
<1> DEFINE x == SubSeq(u, 1, n)
<1> DEFINE y == From(u, n + 1)
<1> DEFINE t == [s EXCEPT !.ring = @ \o x]
<1> DEFINE g == [s EXCEPT !.head = @ \o x]
<1>0. /\ s.ring \in Bytes /\ s.head \in Bytes /\ s.out \in Bytes /\ s.pc \in Pcs
      /\ x \in Bytes /\ y \in Bytes
      /\ s.ring \o x \in Bytes /\ (s.ring \o x) \o y = s.ring \o u
      /\ s.head \o x \in Bytes /\ (s.head \o x) \o y = s.head \o u
  BY HandlerFacts, PieceFacts
<1> HIDE DEF x, y
<1>1. /\ t \in Handlers /\ t.pc = s.pc /\ t.ring = s.ring \o x /\ t.head = s.head /\ t.out = s.out
      /\ g \in Handlers /\ g.pc = s.pc /\ g.ring = s.ring /\ g.head = s.head \o x /\ g.out = s.out
  BY <1>0 DEF Handlers
<1>2. CASE s.pc = "detect"
  <2>1. Took(s, x) = Detect(t)
    BY <1>2 DEF Took
  <2> HIDE DEF t
  <2>2. ServerOK(t, y, w, a)
    BY <1>0, <1>1, <1>2 DEF ServerOK
  <2>3. Detect(t) \in Handlers /\ ServerOK(Detect(t), y, w, a)
    BY <1>0, <1>1, <1>2, <2>2, ProtocolDetected
  <2> QED
    BY <2>1, <2>3 DEF x, y
<1>3. CASE s.pc = "header"
  <2>1. Took(s, x) = TakeHead(g)
    BY <1>3 DEF Took
  <2> HIDE DEF g
  <2>2. /\ seen = <<>> /\ transport = "clear" /\ g.ring = <<>> /\ g.head \o y = w /\ a = <<>>
        /\ g.out = <<>>
    BY <1>0, <1>1, <1>3 DEF ServerOK
  <2>3. TakeHead(g) \in Handlers /\ ServerOK(TakeHead(g), y, w, a)
    BY <1>0, <1>1, <2>2, HeadTaken
  <2> QED
    BY <2>1, <2>3 DEF x, y
<1>4. CASE s.pc = "preface"
  <2>1. Took(s, x) = AwaitPreface(t)
    BY <1>4 DEF Took
  <2> HIDE DEF t
  <2>2. /\ seen = <<>> /\ transport = "clear" /\ Asked(w)
        /\ t.ring \o y = From(w, Position(w, "E") + 1) /\ a = SwitchingProtocols /\ t.out = <<>>
    BY <1>0, <1>1, <1>4 DEF ServerOK
  <2>3. AwaitPreface(t) \in Handlers /\ ServerOK(AwaitPreface(t), y, w, a)
    BY <1>0, <1>1, <2>2, PrefaceAwaited
  <2> QED
    BY <2>1, <2>3 DEF x, y
<1>5. CASE s.pc = "exactly"
  <2> DEFINE o == Go(t, "closed")
  <2>1. Took(s, x) = IF Len(t.ring) < Len(Preface) THEN t ELSE TakePreface(t, o)
    BY <1>5 DEF Took
  <2> HIDE DEF t
  <2>2. ServerOK(t, y, w, a) /\ seen = <<>> /\ transport = "tls" /\ t.ring \o y = w /\ alpn = "h2"
    BY <1>0, <1>1, <1>5 DEF ServerOK
  <2>3. o \in Handlers /\ ServerOK(o, y, w, a)
    BY <1>1, ServerCloses
  <2> HIDE DEF o
  <2>4. TakePreface(t, o) \in Handlers /\ ServerOK(TakePreface(t, o), y, w, a)
    BY <1>0, <1>1, <2>2, <2>3, PrefaceTaken
  <2> QED
    BY <1>1, <2>1, <2>2, <2>4 DEF x, y
<1> QED
  BY <1>2, <1>3, <1>4, <1>5 DEF Reads

(* What the server writes goes on behind what it has written.              *)
LEMMA ServerSends ==
  ASSUME NEW s \in Handlers, NEW u \in Bytes, NEW w \in Bytes, NEW a \in Bytes, NEW n \in 1 .. Len(s.out),
         transport \in {"clear", "tls"}, ServerOK(s, u, w, a)
  PROVE  /\ Written([s EXCEPT !.out = From(@, n + 1)]) \in Handlers
         /\ ServerOK(Written([s EXCEPT !.out = From(@, n + 1)]), u, w, a \o SubSeq(s.out, 1, n))
<1> DEFINE x == SubSeq(s.out, 1, n)
<1> DEFINE y == From(s.out, n + 1)
<1> DEFINE b == a \o x
<1> DEFINE t == [s EXCEPT !.out = y]
<1>0. /\ s.ring \in Bytes /\ s.head \in Bytes /\ s.out \in Bytes /\ s.pc \in Pcs
      /\ x \in Bytes /\ y \in Bytes /\ b \in Bytes /\ b \o y = a \o s.out
  BY HandlerFacts, PieceFacts
<1>1. s.out # <<>>
  OBVIOUS
<1>2. Agreed(w, a) => Agreed(w, b)
  BY <1>0, AgreedGrows
<1> HIDE DEF x, y, b
<1>3. t \in Handlers /\ t.pc = s.pc /\ t.ring = s.ring /\ t.head = s.head /\ t.out = y
  BY <1>0 DEF Handlers
<1> HIDE DEF t
<1>4. ServerOK(t, u, w, b)
  BY <1>0, <1>1, <1>2, <1>3 DEF ServerOK
<1>9. SUFFICES Written(t) \in Handlers /\ ServerOK(Written(t), u, w, b)
  BY DEF t, b, x, y
<1>5. CASE t.out # <<>>
  BY <1>3, <1>4, <1>5 DEF Written
<1>6. CASE t.out = <<>> /\ t.pc = "switching"
  <2> DEFINE f == From(t.head, Position(t.head, "E") + 1)
  <2> DEFINE k == [t EXCEPT !.ring = f]
  <2>1. Written(t) = AwaitPreface(k)
    BY <1>6 DEF Written
  <2>2. /\ seen = <<>> /\ transport = "clear" /\ Asked(t.head) /\ t.head \o u = w
        /\ b \o <<>> = SwitchingProtocols /\ t.head \in Bytes
    BY <1>3, <1>4, <1>6, HandlerFacts DEF ServerOK
  <2>3. b = SwitchingProtocols
    BY <1>0, <2>2, EmptyFacts
  <2>4. /\ Asked(w) /\ Position(w, "E") = Position(t.head, "E")
        /\ From(w, Position(t.head, "E") + 1) = f \o u
        /\ Position(t.head, "E") \in 1 .. Len(t.head) /\ Len(t.head) \in Nat
    BY <2>2, AskedGrows
  <2>5. f \in Bytes
    <3>1. Position(t.head, "E") + 1 \in 1 .. Len(t.head) + 1
      BY <2>4
    <3> QED
      BY <2>2, <3>1, FromFacts
  <2> HIDE DEF f
  <2>6. k \in Handlers /\ k.ring = f /\ k.out = <<>>
    BY <1>3, <1>6, <2>5 DEF Handlers
  <2> HIDE DEF k
  <2>7. AwaitPreface(k) \in Handlers /\ ServerOK(AwaitPreface(k), u, w, b)
    BY <1>0, <2>2, <2>3, <2>4, <2>6, PrefaceAwaited
  <2> QED
    BY <2>1, <2>7
<1>7. CASE t.out = <<>> /\ t.pc = "settings"
  <2> DEFINE k == Go(t, "h2")
  <2>1. Written(t) = k
    BY <1>7 DEF Written
  <2>2. k \in Handlers /\ k.pc = "h2" /\ k.ring = t.ring
    BY <1>3, HandlerFacts DEF Go, Handler, Handlers, Pcs
  <2> HIDE DEF k
  <2> QED
    BY <1>4, <1>7, <2>1, <2>2 DEF ServerOK
<1>8. CASE t.out = <<>> /\ t.pc \notin {"switching", "settings"}
  BY <1>3, <1>4, <1>8 DEF Written
<1> QED
  BY <1>5, <1>6, <1>7, <1>8
-----------------------------------------------------------------------------
(* Two of this library's ends.                                             *)
Stray == {"script", "http1", "custom", "last"}

(* The upgrade request is three tokens.                                    *)
LEMMA UpgradeFacts ==
  /\ UpgradeRequest \in Bytes /\ Len(UpgradeRequest) = 3 /\ UpgradeRequest[1] = "G"
  /\ UpgradeRequest[2] = "u" /\ UpgradeRequest[3] = "E"
BY SpokenFacts DEF UpgradeRequest

(* What has been written of an upgrade is the start of one.                *)
LEMMA UpgradingPrefix ==
  ASSUME NEW w \in Bytes, NEW y \in Bytes, w \o y = UpgradeRequest
  PROVE  Upgrading(w) /\ (y = <<>> => Len(w) = 3)
<1>1. /\ Len(w) \in Nat /\ \A i \in 1 .. Len(w) : UpgradeRequest[i] = w[i]
      /\ Len(UpgradeRequest) = Len(w) + Len(y)
  BY ConcatFacts
<1>2. Upgrading(w)
  BY <1>1 DEF Upgrading
<1>3. ASSUME y = <<>> PROVE Len(w) = 3
  BY <1>3, EmptyFacts, UpgradeFacts
<1> QED
  BY <1>2, <1>3

(* A whole upgrade stays one when more is written.                         *)
LEMMA UpgradingGrows ==
  ASSUME NEW w \in Bytes, NEW x \in Bytes, Upgrading(w), Len(w) >= 3
  PROVE  Upgrading(w \o x) /\ Len(w \o x) >= 3
<1>1. /\ Len(w) \in Nat /\ Len(x) \in Nat /\ Len(w \o x) = Len(w) + Len(x)
      /\ \A i \in 1 .. Len(w) : (w \o x)[i] = w[i]
  BY ConcatFacts
<1> QED
  BY <1>1 DEF Upgrading

(* The head of an upgrade is taken for one.                                *)
LEMMA UpgradeSeen ==
  ASSUME NEW s \in Handlers, NEW u \in Bytes, Upgrading(s.head \o u)
  PROVE  TakeHead(s).pc \notin Stray
<1> DEFINE h == s.head
<1> DEFINE end == Position(h, "E")
<1> DEFINE ok == h[1] = "G" /\ Position(h, "!") \notin 1 .. end
<1>1. /\ h \in Bytes /\ Len(h) \in Nat /\ end \in 0 .. Len(h) /\ HeaderLimit \in Nat
      /\ end # 0 => h[end] = "E"
  BY HandlerFacts, PositionFacts, SetupAssumption DEF Bytes
<1>2. /\ Len(h \o u) = Len(h) + Len(u) /\ Len(u) \in Nat
      /\ \A i \in 1 .. Len(h) : (h \o u)[i] = h[i]
  BY <1>1, ConcatFacts
<1>3. \A i \in 1 .. 3 : i <= Len(h) => h[i] = UpgradeRequest[i]
  BY <1>1, <1>2 DEF Upgrading
<1>4. ASSUME end > 0 PROVE Position(h, "u") \in 1 .. end
  <2>1. end # 1 /\ end # 2
    BY <1>1, <1>3, <1>4, UpgradeFacts
  <2>2. 2 <= Len(h) /\ 3 <= end
    BY <1>1, <1>4, <2>1
  <2>3. h[2] = "u" /\ 2 \in 1 .. Len(h)
    BY <1>1, <1>3, <2>2, UpgradeFacts
  <2>4. /\ Position(h, "u") \in 0 .. Len(h)
        /\ Position(h, "u") = 0 => \A i \in 1 .. Len(h) : h[i] # "u"
        /\ Position(h, "u") # 0 => \A j \in 1 .. Position(h, "u") - 1 : h[j] # "u"
    BY <1>1, PositionFacts
  <2>5. Position(h, "u") # 0
    BY <2>3, <2>4
  <2>6. ~(2 \in 1 .. Position(h, "u") - 1)
    BY <2>3, <2>4, <2>5
  <2> HIDE DEF end
  <2> QED
    BY <1>1, <2>2, <2>4, <2>5, <2>6
<1>5. CASE end = 0 /\ Len(h) < HeaderLimit
  <2>1. TakeHead(s) = Go(s, "header")
    BY <1>1, <1>5 DEF TakeHead
  <2> QED
    BY <2>1 DEF Go, Handler, Stray
<1>6. CASE (end = 0 /\ Len(h) >= HeaderLimit) \/ (end > 0 /\ ~ok)
  <2>1. TakeHead(s) = Go(s, "closed")
    BY <1>1, <1>6 DEF TakeHead
  <2> QED
    BY <2>1 DEF Go, Handler, Stray
<1>7. CASE end > 0 /\ ok
  <2>1. TakeHead(s) = Handler("switching", s.ring, s.head, SwitchingProtocols)
    BY <1>1, <1>4, <1>7 DEF TakeHead
  <2> QED
    BY <2>1 DEF Handler, Stray
<1>8. \/ end = 0 /\ Len(h) < HeaderLimit
      \/ (end = 0 /\ Len(h) >= HeaderLimit) \/ (end > 0 /\ ~ok)
      \/ end > 0 /\ ok
  <2> HIDE DEF end, ok
  <2> QED
    BY <1>1
<1> QED
  BY <1>5, <1>6, <1>7, <1>8

(* Where taking the preface leads.                                         *)
LEMMA PrefaceGoes ==
  ASSUME NEW s, NEW o
  PROVE  TakePreface(s, o).pc = "settings" \/ TakePreface(s, o) = o
BY DEF TakePreface, Handler

(* Where waiting for the preface leads.                                    *)
LEMMA AwaitGoes ==
  ASSUME NEW s
  PROVE  AwaitPreface(s).pc \in {"preface", "settings", "closed"}
<1> DEFINE o == Go(s, "closed")
<1>1. o.pc = "closed" /\ Go(s, "preface").pc = "preface"
  BY DEF Go, Handler
<1> HIDE DEF o
<1>2. TakePreface(s, o).pc \in {"settings", "closed"}
  BY <1>1, PrefaceGoes
<1> QED
  BY <1>1, <1>2 DEF AwaitPreface, o

(* A read of bytes that start with an upgrade leads to no fallback.        *)
LEMMA ServerReadsOn ==
  ASSUME NEW s \in Handlers, NEW u \in Bytes, NEW w \in Bytes, NEW a, NEW n \in 1 .. Len(u),
         s.pc \in Reads, ServerOK(s, u, w, a), transport = "tls" \/ Upgrading(w)
  PROVE  /\ Took(s, SubSeq(u, 1, n)).pc \notin Stray
         /\ s.pc = "exactly" =>
              Took(s, SubSeq(u, 1, n)).pc \in {"exactly", "settings", "closed"}
<1> DEFINE x == SubSeq(u, 1, n)
<1> DEFINE y == From(u, n + 1)
<1> DEFINE t == [s EXCEPT !.ring = @ \o x]
<1> DEFINE g == [s EXCEPT !.head = @ \o x]
<1>0. /\ s.ring \in Bytes /\ s.head \in Bytes /\ s.out \in Bytes /\ s.pc \in Pcs
      /\ x \in Bytes /\ y \in Bytes
      /\ s.ring \o x \in Bytes /\ (s.ring \o x) \o y = s.ring \o u
      /\ s.head \o x \in Bytes /\ (s.head \o x) \o y = s.head \o u
  BY HandlerFacts, PieceFacts
<1> HIDE DEF x, y
<1>1. /\ t \in Handlers /\ t.pc = s.pc /\ t.ring = s.ring \o x
      /\ g \in Handlers /\ g.pc = s.pc /\ g.head = s.head \o x
  BY <1>0 DEF Handlers
<1>9. SUFFICES /\ Took(s, x).pc \notin Stray
               /\ s.pc = "exactly" => Took(s, x).pc \in {"exactly", "settings", "closed"}
  BY DEF x
<1>2. CASE s.pc = "detect"
  <2> DEFINE k == Handler(t.pc, <<>>, t.ring, t.out)
  <2> DEFINE o == IF t.ring[1] \in {"G", "p"} THEN TakeHead(k) ELSE Go(t, "closed")
  <2>1. Took(s, x) = IF Len(t.ring) < Len(Preface) THEN t ELSE TakePreface(t, o)
    BY <1>2 DEF Took, Detect
  <2> HIDE DEF t
  <2>2. k \in Handlers /\ k.head = t.ring
    BY <1>1, SpokenFacts, HandlerFacts DEF Handler, Handlers
  <2> HIDE DEF k
  <2>3. Upgrading(k.head \o y)
    BY <1>0, <1>1, <1>2, <2>2 DEF ServerOK
  <2>4. o.pc \notin Stray
    BY <1>0, <2>2, <2>3, UpgradeSeen DEF Go, Handler, Stray
  <2> HIDE DEF o
  <2>5. TakePreface(t, o).pc \notin Stray
    BY <2>4, PrefaceGoes DEF Stray
  <2> QED
    BY <1>1, <1>2, <2>1, <2>5 DEF Stray
<1>3. CASE s.pc = "header"
  <2>1. Took(s, x) = TakeHead(g)
    BY <1>3 DEF Took
  <2> HIDE DEF g
  <2>2. Upgrading(g.head \o y)
    BY <1>0, <1>1, <1>3 DEF ServerOK
  <2>3. TakeHead(g).pc \notin Stray
    BY <1>0, <1>1, <2>2, UpgradeSeen
  <2> QED
    BY <1>3, <2>1, <2>3
<1>4. CASE s.pc = "preface"
  <2>1. Took(s, x) = AwaitPreface(t)
    BY <1>4 DEF Took
  <2> QED
    BY <1>4, <2>1, AwaitGoes DEF Stray
<1>5. CASE s.pc = "exactly"
  <2> DEFINE o == Go(t, "closed")
  <2>1. Took(s, x) = IF Len(t.ring) < Len(Preface) THEN t ELSE TakePreface(t, o)
    BY <1>5 DEF Took
  <2> HIDE DEF t
  <2>2. o.pc = "closed"
    BY DEF Go, Handler
  <2> HIDE DEF o
  <2> QED
    BY <1>1, <1>5, <2>1, <2>2, PrefaceGoes DEF Stray
<1> QED
  BY <1>2, <1>3, <1>4, <1>5 DEF Reads

(* Nor does a write.                                                       *)
LEMMA ServerSendsOn ==
  ASSUME NEW s \in Handlers
  PROVE  /\ s.pc \notin Stray => Written(s).pc \notin Stray
         /\ s.pc # "switching" => Written(s).pc \in {s.pc, "h2"}
         /\ s.pc # "switching" /\ s.pc # "settings" => Written(s) = s
<1>1. CASE s.out = <<>> /\ s.pc = "switching"
  BY <1>1, AwaitGoes DEF Written, Stray
<1>2. CASE s.out = <<>> /\ s.pc = "settings"
  BY <1>2 DEF Written, Go, Handler, Stray
<1>3. CASE s.out # <<>> \/ s.pc \notin {"switching", "settings"}
  BY <1>3 DEF Written
<1> QED
  BY <1>1, <1>2, <1>3

(* A turn leads to no other upgrade request.                               *)
LEMMA ClientGoes ==
  ASSUME NEW m \in Machines
  PROVE  /\ Turn(m).phase = "script" => m.phase = "script"
         /\ Turn(m).phase = "SendUpgrade" => m.phase = "SendUpgrade" /\ m.out # <<>> /\ Turn(m) = m
<1>1. CASE m.phase = "RecvUpgradeResponse"
  <2>1. ParseUpgradeResponse(m).phase \in {"RecvUpgradeResponse", "failed", "SendPrefaceSettings"}
    <3> DEFINE end == Position(m.ring, "E")
    <3>1. end \in Nat
      BY PositionFacts DEF Machines, Bytes
    <3> QED
      BY <1>1, <3>1 DEF ParseUpgradeResponse, Enter, Machine
  <2> QED
    BY <1>1, <2>1 DEF Turn
<1>2. CASE m.phase = "RecvSettings"
  <2>1. TryConsumeSettingsFrame(m).phase \in {"RecvSettings", "failed", "SendAck"}
    BY <1>2 DEF TryConsumeSettingsFrame, Enter, Machine
  <2> QED
    BY <1>2, <2>1 DEF Turn
<1>3. CASE m.phase \in Sending /\ m.out = <<>>
  BY <1>3 DEF Turn, Enter, Machine, Sending
<1>4. CASE /\ m.phase \notin {"RecvUpgradeResponse", "RecvSettings"}
           /\ m.phase \in Sending => m.out # <<>>
  BY <1>4 DEF Turn, Sending
<1> QED
  BY <1>1, <1>2, <1>3, <1>4

(* Nor does advance().                                                     *)
LEMMA ClientGoesOn ==
  ASSUME NEW m \in Machines, Turn(m) \in Machines
  PROVE  /\ Advance(m).phase = "script" => m.phase = "script"
         /\ Advance(m).phase = "SendUpgrade" =>
              m.phase = "SendUpgrade" /\ m.out # <<>> /\ Advance(m) = m
<1> DEFINE k == Turn(m)
<1>1. /\ k.phase = "script" => m.phase = "script"
      /\ k.phase = "SendUpgrade" => m.phase = "SendUpgrade" /\ m.out # <<>> /\ k = m
  BY ClientGoes
<1>2. k \in Machines
  OBVIOUS
<1> HIDE DEF k
<1>3. /\ Turn(k).phase = "script" => k.phase = "script"
      /\ Turn(k).phase = "SendUpgrade" => k.phase = "SendUpgrade" /\ Turn(k) = k
  BY <1>2, ClientGoes
<1>4. Advance(m) = Turn(k)
  BY DEF Advance, k
<1> QED
  BY <1>1, <1>3, <1>4
-----------------------------------------------------------------------------
(* The steps.  What an action leaves alone keeps its part of the invariant. *)

(* The client's part does not depend on the server's.                      *)
LEMMA ClientFrame ==
  ASSUME transport' = transport, alpn' = alpn, heard' = heard,
         ClientOK(client', down', answered')
  PROVE  ClientOK(client, down, answered)'
BY DEF ClientOK

(* Nor the server's on the client's.                                       *)
LEMMA ServerFrame ==
  ASSUME transport' = transport, alpn' = alpn, seen' = seen,
         ServerOK(server', up', written', answered')
  PROVE  ServerOK(server, up, written, answered)'
BY DEF ServerOK, Agreed

(* What the two have in common is of their places and of what is written.  *)
LEMMA BothFrame ==
  ASSUME transport' = transport, peers' = peers, offer' = offer,
         BothOK(client', server', written')
  PROVE  BothOK(client, server, written)'
BY DEF BothOK

(* A write adds to what is written and to what is under way.               *)
LEMMA ClientWriteKeeps == IInv /\ ClientWrite => IInv'
<1> SUFFICES ASSUME IInv, ClientWrite PROVE IInv'
  OBVIOUS
<1> USE DEF IInv
<1>1. PICK n \in 1 .. Len(client.out) :
        /\ up' = up \o SubSeq(client.out, 1, n) /\ written' = written \o SubSeq(client.out, 1, n)
        /\ client' = Advance([client EXCEPT !.out = From(@, n + 1)])
  BY DEF ClientWrite, Become
<1> DEFINE x == SubSeq(client.out, 1, n)
<1> DEFINE y == From(client.out, n + 1)
<1> DEFINE k == [client EXCEPT !.out = y]
<1>2. /\ client \in Machines /\ server \in Handlers /\ up \in Bytes /\ down \in Bytes
      /\ written \in Bytes /\ answered \in Bytes /\ seen \in Bytes /\ heard \in Bytes
      /\ transport \in {"clear", "tls"} /\ client.out \in Bytes
  BY DEF TypeOK, Machines
<1>3. /\ x \in Bytes /\ y \in Bytes /\ (written \o x) \o y = written \o client.out
      /\ up \o x \in Bytes /\ written \o x \in Bytes
  BY <1>2, PieceFacts
<1>4. client' = Advance(k) /\ up' = up \o x /\ written' = written \o x
  BY <1>1
<1>5. /\ transport' = transport /\ alpn' = alpn /\ heard' = heard /\ seen' = seen /\ peers' = peers
      /\ offer' = offer /\ down' = down /\ answered' = answered /\ server' = server
      /\ fallback' = fallback /\ client.out # <<>>
      /\ client.phase \in Sending \cup {"Done", "script"}
  BY DEF ClientWrite
<1> HIDE DEF x, y
<1>6. k \in Machines /\ k.phase = client.phase /\ k.ring = client.ring /\ k.out = y
  BY <1>2, <1>3 DEF Machines
<1> HIDE DEF k
<1>7. Turn(k) \in Machines /\ Advance(k) \in Machines /\ ClientOK(Advance(k), down, answered)
  <2>1. ClientOK(k, down, answered)
    BY <1>6 DEF ClientOK
  <2> QED
    BY <1>2, <1>6, <2>1, ClientTurns, ClientAdvances
<1>8. TypeOK'
  BY <1>2, <1>3, <1>4, <1>5, <1>7 DEF TypeOK
<1>9. ClientOK(client, down, answered)'
  BY <1>4, <1>5, <1>7, ClientFrame
<1>10. ServerOK(server, up, written, answered)'
  <2>1. ServerOK(server, up \o x, written \o x, answered)
    BY <1>2, <1>3, ServerGets
  <2> QED
    BY <1>4, <1>5, <2>1, ServerFrame
<1>11. BothOK(client, server, written)'
  <2>1. SUFFICES ASSUME peers = "both" PROVE BothOK(client', server', written')
    BY <1>5, BothFrame DEF BothOK
  <2>2. /\ Advance(k).phase = "script" => client.phase = "script"
        /\ Advance(k).phase = "SendUpgrade" => client.phase = "SendUpgrade" /\ y # <<>> /\ Advance(k) = k
    BY <1>6, <1>7, ClientGoesOn
  <2>3. CASE transport = "tls"
    BY <1>4, <1>5, <2>1, <2>2, <2>3 DEF BothOK
  <2>4. CASE transport = "clear" /\ client.phase = "SendUpgrade"
    <3>1. (written \o x) \o y = UpgradeRequest
      BY <1>3, <2>1, <2>4 DEF BothOK
    <3>2. Upgrading(written \o x) /\ (y = <<>> => Len(written \o x) = 3)
      BY <1>3, <3>1, UpgradingPrefix
    <3>3. y # <<>> => Advance(k) = k
      BY <1>6, <2>4 DEF Advance, Turn
    <3> DEFINE v == written \o x
    <3>4. Upgrading(v) /\ written' = v /\ v \o y = UpgradeRequest
      BY <1>4, <3>1, <3>2
    <3>5. server' = server /\ server.pc \notin Stray /\ client.phase = "SendUpgrade"
      BY <1>5, <2>1, <2>4 DEF BothOK, Stray
    <3>6. CASE y = <<>>
      <4>1. client'.phase \notin {"script", "SendUpgrade"} /\ Len(v) = 3
        BY <1>4, <2>2, <3>2, <3>5, <3>6
      <4> HIDE DEF v
      <4> QED
        BY <2>4, <3>4, <3>5, <4>1 DEF BothOK, Stray
    <3>7. CASE y # <<>>
      <4>1. client'.phase = "SendUpgrade" /\ client'.out = y
        BY <1>4, <1>6, <3>3, <3>5, <3>7
      <4> HIDE DEF v
      <4> QED
        BY <2>4, <3>4, <3>5, <4>1 DEF BothOK, Stray
    <3> QED
      BY <3>6, <3>7
  <2>5. CASE transport = "clear" /\ client.phase # "SendUpgrade"
    <3>1. Upgrading(written) /\ Len(written) >= 3
      BY <1>5, <2>1, <2>5 DEF BothOK, Sending
    <3>2. Upgrading(written \o x) /\ Len(written \o x) >= 3
      BY <1>2, <1>3, <3>1, UpgradingGrows
    <3> QED
      BY <1>4, <1>5, <2>1, <2>2, <2>5, <3>2 DEF BothOK
  <2> QED
    BY <1>2, <2>3, <2>4, <2>5
<1> QED
  BY <1>8, <1>9, <1>10, <1>11

(* A read moves a piece into the ring.                                     *)
LEMMA ClientReadKeeps == IInv /\ ClientRead => IInv'
<1> SUFFICES ASSUME IInv, ClientRead PROVE IInv'
  OBVIOUS
<1> USE DEF IInv
<1>1. PICK n \in 1 .. Len(down) :
        /\ client' = Advance([client EXCEPT !.ring = @ \o SubSeq(down, 1, n)])
        /\ down' = From(down, n + 1)
  BY DEF ClientRead, Become
<1> DEFINE k == [client EXCEPT !.ring = @ \o SubSeq(down, 1, n)]
<1> DEFINE y == From(down, n + 1)
<1>2. /\ client \in Machines /\ server \in Handlers /\ up \in Bytes /\ down \in Bytes
      /\ written \in Bytes /\ answered \in Bytes /\ seen \in Bytes /\ heard \in Bytes
      /\ transport \in {"clear", "tls"}
  BY DEF TypeOK
<1>3. k \in Machines /\ ClientOK(k, y, answered) /\ k.phase = client.phase
  <2>1. k \in Machines /\ ClientOK(k, y, answered)
    BY <1>2, ClientTakes
  <2> QED
    BY <1>2, <2>1 DEF Machines
<1>4. y \in Bytes
  BY <1>2, PieceFacts
<1>5. /\ transport' = transport /\ alpn' = alpn /\ heard' = heard /\ seen' = seen /\ peers' = peers
      /\ offer' = offer /\ up' = up /\ written' = written /\ answered' = answered /\ server' = server
      /\ fallback' = fallback /\ client.phase \in Waiting /\ client' = Advance(k) /\ down' = y
  BY <1>1 DEF ClientRead
<1> HIDE DEF k, y
<1>6. Turn(k) \in Machines /\ Advance(k) \in Machines /\ ClientOK(Advance(k), y, answered)
  BY <1>2, <1>3, <1>4, ClientTurns, ClientAdvances
<1>7. TypeOK'
  BY <1>2, <1>4, <1>5, <1>6 DEF TypeOK
<1>8. ClientOK(client, down, answered)'
  BY <1>5, <1>6, ClientFrame
<1>9. ServerOK(server, up, written, answered)'
  BY <1>5, ServerFrame
<1>10. BothOK(client, server, written)'
  <2>1. Advance(k).phase \notin {"script", "SendUpgrade"}
    BY <1>3, <1>5, <1>6, ClientGoesOn DEF Waiting
  <2>2. BothOK(client', server', written')
    BY <1>5, <2>1 DEF BothOK, Waiting
  <2> QED
    BY <1>5, <2>2, BothFrame
<1> QED
  BY <1>7, <1>8, <1>9, <1>10

(* A client that fails promises nothing.                                   *)
LEMMA ClientEndKeeps == IInv /\ (ClientFail \/ PeerClosed) => IInv'
<1> SUFFICES ASSUME IInv, ClientFail \/ PeerClosed PROVE IInv'
  OBVIOUS
<1> USE DEF IInv
<1>1. /\ client' = [client EXCEPT !.phase = "failed"]
      /\ UNCHANGED <<transport, peers, fallback, offer, alpn, up, down, written, answered, server, seen, heard>>
  BY DEF ClientFail, PeerClosed, Become
<1>2. client' \in Machines /\ client'.phase = "failed"
  BY <1>1 DEF TypeOK, Machines, Phases
<1>3. TypeOK'
  BY <1>1, <1>2 DEF TypeOK
<1>4. ClientOK(client, down, answered)'
  <2>1. ClientOK(client', down', answered')
    BY <1>2 DEF ClientOK
  <2> QED
    BY <1>1, <2>1, ClientFrame
<1>5. ServerOK(server, up, written, answered)'
  BY <1>1, ServerFrame
<1>6. BothOK(client, server, written)'
  <2>1. BothOK(client', server', written')
    BY <1>1, <1>2 DEF BothOK
  <2> QED
    BY <1>1, <2>1, BothFrame
<1> QED
  BY <1>3, <1>4, <1>5, <1>6

(* The client's stream manager takes all there is, or sends.               *)
LEMMA ClientManagerKeeps == IInv /\ ClientManager => IInv'
<1> SUFFICES ASSUME IInv, ClientManager PROVE IInv'
  OBVIOUS
<1> USE DEF IInv
<1>0. /\ client \in Machines /\ server \in Handlers /\ up \in Bytes /\ down \in Bytes
      /\ written \in Bytes /\ answered \in Bytes /\ seen \in Bytes /\ heard \in Bytes
      /\ transport \in {"clear", "tls"} /\ client.ring \in Bytes /\ <<>> \in Bytes
      /\ client.phase = "Done"
  BY SpokenFacts DEF TypeOK, Machines, ClientManager
<1>1. /\ transport' = transport /\ alpn' = alpn /\ seen' = seen /\ peers' = peers
      /\ offer' = offer /\ up' = up /\ written' = written /\ answered' = answered /\ server' = server
      /\ fallback' = fallback
  BY DEF ClientManager
<1>2. /\ client' \in Machines /\ client'.phase = "Done" /\ down' \in Bytes /\ heard' \in Bytes
      /\ heard' \o (client'.ring \o down') = heard \o (client.ring \o down)
  <2>1. CASE /\ heard' = heard \o client.ring \o down
             /\ client' = [client EXCEPT !.ring = <<>>] /\ down' = <<>>
    <3> DEFINE r == client.ring
    <3>1. client' \in Machines /\ client'.phase = "Done" /\ client'.ring = <<>>
      BY <1>0, <2>1 DEF Machines
    <3>2. r \in Bytes
      BY <1>0
    <3>3. heard' = (heard \o r) \o down
      BY <2>1
    <3> HIDE DEF r
    <3>4. (heard \o r) \o down = heard \o (r \o down)
      <4>1. heard \in Bytes /\ down \in Bytes
        BY <1>0
      <4> QED
        BY <3>2, <4>1, Associative
    <3>5. heard \o r \in Bytes
      BY <1>0, <3>2, ConcatFacts
    <3>6. heard' \in Bytes
      BY <1>0, <3>3, <3>5, ConcatFacts
    <3>7. heard' \o (<<>> \o <<>>) = heard'
      BY <3>6, EmptyFacts
    <3> QED
      BY <1>0, <2>1, <3>1, <3>3, <3>4, <3>6, <3>7 DEF r
  <2>2. CASE client' = [client EXCEPT !.out = <<"F", ".">>] /\ UNCHANGED <<heard, down>>
    BY <1>0, <2>2, SpokenFacts DEF Machines
  <2> QED
    BY <2>1, <2>2 DEF ClientManager
<1>3. TypeOK'
  BY <1>0, <1>1, <1>2 DEF TypeOK
<1>4. ClientOK(client, down, answered)'
  BY <1>0, <1>1, <1>2 DEF ClientOK
<1>5. ServerOK(server, up, written, answered)'
  BY <1>1, ServerFrame
<1>6. BothOK(client, server, written)'
  <2>1. BothOK(client', server', written')
    BY <1>0, <1>1, <1>2 DEF BothOK
  <2> QED
    BY <1>1, <2>1, BothFrame
<1> QED
  BY <1>3, <1>4, <1>5, <1>6

(* Closing a socket changes nothing that has been read.                    *)
LEMMA ClientCloseKeeps == IInv /\ (ClientClose \/ ServerClose) => IInv'
<1> SUFFICES ASSUME IInv, ClientClose \/ ServerClose PROVE IInv'
  OBVIOUS
<1> USE DEF IInv
<1>1. UNCHANGED <<transport, peers, fallback, offer, alpn, client, up, down, written, answered,
                  server, seen, heard>>
  BY DEF ClientClose, ServerClose
<1>2. TypeOK'
  BY <1>1 DEF TypeOK
<1>3. ClientOK(client, down, answered)'
  BY <1>1, ClientFrame
<1>4. ServerOK(server, up, written, answered)'
  BY <1>1, ServerFrame
<1>5. BothOK(client, server, written)'
  BY <1>1, BothFrame
<1> QED
  BY <1>2, <1>3, <1>4, <1>5

(* A read of the server moves a piece into its ring or its head.           *)
LEMMA ServerReadKeeps == IInv /\ ServerRead => IInv'
<1> SUFFICES ASSUME IInv, ServerRead PROVE IInv'
  OBVIOUS
<1> USE DEF IInv
<1>1. PICK n \in 1 .. Len(up) : server' = Took(server, SubSeq(up, 1, n)) /\ up' = From(up, n + 1)
  BY DEF ServerRead, Settle
<1> DEFINE k == Took(server, SubSeq(up, 1, n))
<1> DEFINE y == From(up, n + 1)
<1>2. /\ server \in Handlers /\ up \in Bytes /\ written \in Bytes /\ answered \in Bytes
      /\ server.pc \in Reads /\ transport \in {"clear", "tls"}
  BY DEF TypeOK, ServerRead, Reads
<1>3. k \in Handlers /\ ServerOK(k, y, written, answered)
  BY <1>2, ServerTakes
<1>4. y \in Bytes
  BY <1>2, PieceFacts
<1>5. /\ UNCHANGED <<transport, peers, fallback, offer, alpn, client, down, written, answered, seen, heard>>
      /\ server' = k /\ up' = y
  BY <1>1 DEF ServerRead
<1>6. transport = "tls" \/ Upgrading(written) =>
        /\ k.pc \notin Stray
        /\ server.pc = "exactly" => k.pc \in {"exactly", "settings", "closed"}
  BY <1>2, ServerReadsOn
<1>7. transport = "tls" => server.pc = "exactly"
  BY <1>2 DEF ServerOK, Reads
<1> HIDE DEF k, y
<1>8. TypeOK'
  BY <1>3, <1>4, <1>5 DEF TypeOK
<1>9. ClientOK(client, down, answered)'
  BY <1>5, ClientFrame
<1>10. ServerOK(server, up, written, answered)'
  BY <1>3, <1>5, ServerFrame
<1>11. BothOK(client, server, written)'
  <2>1. SUFFICES ASSUME peers = "both" PROVE BothOK(client', server', written')
    BY <1>5, BothFrame DEF BothOK
  <2>2. CASE transport = "tls"
    BY <1>5, <1>6, <1>7, <2>1, <2>2 DEF BothOK, Stray
  <2>3. CASE transport = "clear"
    <3>1. Upgrading(written)
      BY <2>1, <2>3 DEF BothOK
    <3> QED
      BY <1>5, <1>6, <2>1, <2>3, <3>1 DEF BothOK, Stray
  <2> QED
    BY <1>2, <2>2, <2>3
<1> QED
  BY <1>8, <1>9, <1>10, <1>11

(* A step that does nothing but close the server.                          *)
LEMMA ServerEndKeeps ==
  ASSUME IInv, server' = Go(server, "closed"),
         UNCHANGED <<transport, peers, fallback, offer, alpn, client, up, down, written, answered, seen, heard>>
  PROVE  IInv'
<1> USE DEF IInv
<1>1. /\ server' \in Handlers /\ server'.pc = "closed" /\ ServerOK(server', up', written', answered')
  BY ServerCloses DEF TypeOK
<1>2. TypeOK'
  BY <1>1 DEF TypeOK
<1>3. ClientOK(client, down, answered)'
  BY ClientFrame
<1>4. ServerOK(server, up, written, answered)'
  BY <1>1, ServerFrame
<1>5. BothOK(client, server, written)'
  <2>1. BothOK(client', server', written')
    BY <1>1 DEF BothOK
  <2> QED
    BY <2>1, BothFrame
<1> QED
  BY <1>2, <1>3, <1>4, <1>5

(* A write of the server moves a piece from out to what is answered.       *)
LEMMA ServerWriteKeeps == IInv /\ ServerWrite => IInv'
<1> SUFFICES ASSUME IInv, ServerWrite PROVE IInv'
  OBVIOUS
<1> USE DEF IInv
<1>1. UNCHANGED <<transport, peers, fallback, offer, alpn, client, up, written, seen, heard>>
  BY DEF ServerWrite
<1>2. /\ server \in Handlers /\ up \in Bytes /\ down \in Bytes /\ written \in Bytes
      /\ answered \in Bytes /\ server.out \in Bytes /\ client \in Machines /\ heard \in Bytes
      /\ transport \in {"clear", "tls"}
  BY DEF TypeOK, Handlers
<1>3. CASE server' = Go(server, "closed") /\ UNCHANGED <<down, answered>>
  BY <1>1, <1>3, ServerEndKeeps
<1>4. CASE \E n \in 1 .. Len(server.out) :
             /\ down' = down \o SubSeq(server.out, 1, n)
             /\ answered' = answered \o SubSeq(server.out, 1, n)
             /\ server' = Written([server EXCEPT !.out = From(@, n + 1)])
  <2>1. PICK n \in 1 .. Len(server.out) :
             /\ down' = down \o SubSeq(server.out, 1, n)
             /\ answered' = answered \o SubSeq(server.out, 1, n)
             /\ server' = Written([server EXCEPT !.out = From(@, n + 1)])
    BY <1>4
  <2> DEFINE x == SubSeq(server.out, 1, n)
  <2> DEFINE t == [server EXCEPT !.out = From(@, n + 1)]
  <2>2. /\ Written(t) \in Handlers /\ ServerOK(Written(t), up, written, answered \o x)
    BY <1>2, ServerSends
  <2>3. x \in Bytes /\ From(server.out, n + 1) \in Bytes
    BY <1>2, PieceFacts
  <2>4. t \in Handlers /\ t.pc = server.pc
    BY <1>2, <2>3 DEF Handlers
  <2>5. server' = Written(t) /\ down' = down \o x /\ answered' = answered \o x
    BY <2>1
  <2> HIDE DEF x, t
  <2>6. down \o x \in Bytes /\ answered \o x \in Bytes
    BY <1>2, <2>3, ConcatFacts
  <2>7. TypeOK'
    BY <1>1, <1>2, <2>2, <2>5, <2>6 DEF TypeOK
  <2>8. ClientOK(client, down, answered)'
    <3>1. ClientOK(client, down \o x, answered \o x)
      BY <1>2, <2>3, ClientGets
    <3> QED
      BY <1>1, <2>5, <3>1, ClientFrame
  <2>9. ServerOK(server, up, written, answered)'
    BY <1>1, <2>2, <2>5, ServerFrame
  <2>10. BothOK(client, server, written)'
    <3>1. /\ server.pc \notin Stray => Written(t).pc \notin Stray
          /\ server.pc # "switching" => Written(t).pc \in {server.pc, "h2"}
          /\ server.pc # "switching" /\ server.pc # "settings" => Written(t) = t
      BY <2>4, ServerSendsOn
    <3>2. BothOK(client', server', written')
      BY <1>1, <2>4, <2>5, <3>1 DEF BothOK, Stray
    <3> QED
      BY <1>1, <3>2, BothFrame
  <2> QED
    BY <2>7, <2>8, <2>9, <2>10
<1> QED
  BY <1>3, <1>4 DEF ServerWrite, Settle

(* The server's stream manager takes all there is.                         *)
LEMMA ServerManagerKeeps == IInv /\ ServerManager => IInv'
<1> SUFFICES ASSUME IInv, ServerManager PROVE IInv'
  OBVIOUS
<1> USE DEF IInv
<1> DEFINE r == server.ring
<1>0. UNCHANGED <<transport, peers, fallback, offer, alpn, client, down, written, answered, heard>>
  BY DEF ServerManager
<1>1. server \in Handlers /\ server.pc = "h2" /\ server.head \in Bytes
  BY DEF TypeOK, ServerManager, Handlers
<1>2. r \in Bytes
  BY <1>1, HandlerFacts
<1>3. seen \in Bytes /\ up \in Bytes
  BY DEF TypeOK
<1>4. seen' = (seen \o r) \o up /\ up' = <<>>
  BY DEF ServerManager
<1>5. server' \in Handlers /\ server'.pc = "h2" /\ server'.ring = <<>>
  BY <1>1, SpokenFacts DEF ServerManager, Handler, Handlers, Pcs
<1> HIDE DEF r
<1>6. (seen \o r) \o up = seen \o (r \o up)
  BY <1>2, <1>3, Associative
<1>7. seen' \in Bytes /\ seen' \o (<<>> \o <<>>) = seen'
  <2>1. seen \o r \in Bytes
    BY <1>2, <1>3, ConcatFacts
  <2>2. seen' \in Bytes
    BY <1>3, <1>4, <2>1, ConcatFacts
  <2> QED
    BY <2>2, EmptyFacts
<1>8. TypeOK'
  BY <1>0, <1>4, <1>5, <1>7, SpokenFacts DEF TypeOK
<1>9. ClientOK(client, down, answered)'
  BY <1>0, ClientFrame
<1>10. ServerOK(server, up, written, answered)'
  <2>1. Agreed(written, answered) /\ seen \o (r \o up) = From(written, PrefaceEnd(written) + 1)
    BY <1>1 DEF ServerOK, r
  <2>2. Agreed(written, answered)'
    BY <1>0, <2>1 DEF Agreed
  <2>3. seen' \o (server'.ring \o up') = From(written', PrefaceEnd(written') + 1)
    BY <1>0, <1>4, <1>5, <1>6, <1>7, <2>1
  <2> QED
    BY <1>5, <2>2, <2>3 DEF ServerOK
<1>11. BothOK(client, server, written)'
  <2>1. BothOK(client', server', written')
    BY <1>0, <1>1, <1>5 DEF BothOK
  <2> QED
    BY <1>0, <2>1, BothFrame
<1> QED
  BY <1>8, <1>9, <1>10, <1>11

(* The fallback takes a request and leaves the rest.                       *)
LEMMA FallbackKeeps == IInv /\ FallbackLoop => IInv'
<1> SUFFICES ASSUME IInv, FallbackLoop PROVE IInv'
  OBVIOUS
<1> USE DEF IInv
<1> DEFINE c == server.ring \o up
<1> DEFINE end == RequestEnd(c)
<1>0. UNCHANGED <<transport, peers, fallback, offer, alpn, client, down, written, answered, heard>>
      /\ up' = <<>>
  BY DEF FallbackLoop
<1>1. server \in Handlers /\ server.pc = "http1" /\ seen \in Bytes /\ up \in Bytes
  BY DEF TypeOK, FallbackLoop
<1>2. c \in Bytes /\ server.head \in Bytes /\ <<>> \in Bytes
  <2>1. server.ring \in Bytes /\ server.head \in Bytes
    BY <1>1, HandlerFacts
  <2> QED
    BY <1>1, <2>1, ConcatFacts, SpokenFacts
<1>3. seen \o c = written
  BY <1>1 DEF ServerOK
<1>4. \/ end = 0 /\ server' = [server EXCEPT !.ring = c] /\ seen' = seen
      \/ /\ end # 0 /\ seen' = seen \o SubSeq(c, 1, end)
         /\ server' = Handler(IF Position(c, "c") \in 1 .. end THEN "last" ELSE "http1",
                              From(c, end + 1), server.head, NotFound)
  BY DEF FallbackLoop
<1>5. end # 0 => end \in 1 .. Len(c)
  <2> DEFINE p == Position(c, "E")
  <2> DEFINE body == IF Position(c, "l") \in 1 .. p THEN 1 ELSE 0
  <2>1. p \in Nat /\ body \in Nat /\ Len(c) \in Nat
    <3>1. c \in Bytes
      BY <1>2
    <3> HIDE DEF c
    <3>2. Len(c) \in Nat /\ p \in 0 .. Len(c)
      BY <3>1, PositionFacts DEF Bytes
    <3> QED
      BY <3>2
  <2>2. end = IF p = 0 \/ p + body > Len(c) THEN 0 ELSE p + body
    BY DEF RequestEnd
  <2> HIDE DEF c, p, body, end
  <2> QED
    BY <2>1, <2>2
<1> HIDE DEF c, end
<1>6. /\ server' \in Handlers /\ server'.pc \in {"http1", "last"} /\ seen' \in Bytes
      /\ seen' \o server'.ring = written /\ server'.ring \in Bytes
  <2>1. CASE end = 0 /\ server' = [server EXCEPT !.ring = c] /\ seen' = seen
    BY <1>1, <1>2, <1>3, <2>1 DEF Handlers
  <2>2. CASE /\ end # 0 /\ seen' = seen \o SubSeq(c, 1, end)
             /\ server' = Handler(IF Position(c, "c") \in 1 .. end THEN "last" ELSE "http1",
                                  From(c, end + 1), server.head, NotFound)
    <3> DEFINE x == SubSeq(c, 1, end)
    <3> DEFINE y == From(c, end + 1)
    <3>1. x \in Bytes /\ y \in Bytes /\ (seen \o x) \o y = seen \o c /\ seen \o x \in Bytes
      BY <1>1, <1>2, <1>5, <2>2, PieceFacts
    <3>2. server' = Handler(IF Position(c, "c") \in 1 .. end THEN "last" ELSE "http1", y, server.head, NotFound)
      BY <2>2
    <3>3. seen' = seen \o x
      BY <2>2
    <3> HIDE DEF x, y
    <3>4. server' \in Handlers /\ server'.pc \in {"http1", "last"} /\ server'.ring = y
      BY <1>2, <3>1, <3>2, SpokenFacts DEF Handler, Handlers, Pcs
    <3> QED
      BY <1>3, <3>1, <3>3, <3>4
  <2> QED
    BY <1>4, <2>1, <2>2
<1>7. TypeOK'
  BY <1>0, <1>2, <1>6 DEF TypeOK
<1>8. ClientOK(client, down, answered)'
  BY <1>0, ClientFrame
<1>9. ServerOK(server, up, written, answered)'
  <2>1. seen' \o (server'.ring \o up') = written'
    BY <1>0, <1>6, EmptyFacts
  <2> QED
    BY <1>6, <2>1 DEF ServerOK
<1>10. BothOK(client, server, written)'
  <2>1. peers # "both"
    BY <1>1 DEF BothOK
  <2> QED
    BY <1>0, <2>1 DEF BothOK
<1> QED
  BY <1>7, <1>8, <1>9, <1>10

(* ALPN has one outcome: neither end is past the handshake before.          *)
LEMMA HandshakeKeeps == IInv /\ Handshake => IInv'
<1> SUFFICES ASSUME IInv, Handshake PROVE IInv'
  OBVIOUS
<1> USE DEF IInv
<1>0. UNCHANGED <<transport, peers, fallback, offer, up, down, written, answered, seen, heard>>
  BY DEF Handshake
<1>1. /\ client \in Machines /\ server \in Handlers /\ down \in Bytes /\ answered \in Bytes
      /\ heard \in Bytes /\ seen \in Bytes /\ up \in Bytes /\ <<>> \in Bytes
      /\ client.ring \in Bytes /\ server.ring \in Bytes /\ written \in Bytes
      /\ server.ring \o up \in Bytes /\ client.ring \o down \in Bytes
  BY SpokenFacts, ConcatFacts DEF TypeOK, Machines, Handlers
<1>2. transport = "tls" /\ alpn = "none"
  BY DEF ClientOK, ServerOK, Handshake
<1>3. \/ client.phase # "Handshake" /\ client' = client
      \/ /\ client.phase = "Handshake" /\ alpn' = "h2"
         /\ client' = Machine("SendPrefaceSettings", Preface \o Settings, client.ring)
      \/ /\ client.phase = "Handshake" /\ alpn' # "h2"
         /\ client' = Machine("failed", <<>>, client.ring)
  BY DEF Handshake, Become, Enter
<1>4. \/ server.pc # "handshake" /\ server' = server
      \/ /\ server.pc = "handshake" /\ alpn' = Selected(offer)
         /\ server' = Go(server, IF alpn' = "h2" THEN "exactly" ELSE "http1")
  BY DEF Handshake
<1>5. client' \in Machines
  <2>1. Preface \o Settings \in Bytes
    BY SpokenFacts, ConcatFacts
  <2>2. /\ Machine("SendPrefaceSettings", Preface \o Settings, client.ring) \in Machines
        /\ Machine("failed", <<>>, client.ring) \in Machines
    BY <1>1, <2>1 DEF Machine, Machines, Phases
  <2> QED
    BY <1>1, <1>3, <2>2
<1>6. server' \in Handlers
  BY <1>1, <1>4, HandlerFacts DEF Go, Handler, Handlers, Pcs
<1>7. TypeOK'
  BY <1>0, <1>5, <1>6 DEF TypeOK
<1>8. ClientOK(client, down, answered)'
  <2>1. CASE client.phase # "Handshake" /\ client' = client
    <3>1. client.phase \notin {"SendPrefaceSettings", "Done"}
      BY <1>2 DEF ClientOK
    <3> QED
      BY <1>0, <1>2, <2>1, <3>1 DEF ClientOK
  <2>2. CASE /\ client.phase = "Handshake" /\ alpn' = "h2"
             /\ client' = Machine("SendPrefaceSettings", Preface \o Settings, client.ring)
    <3>1. client'.phase = "SendPrefaceSettings" /\ client'.ring = client.ring
      BY <2>2 DEF Machine
    <3>2. heard = <<>> /\ client.ring \o down = answered
      BY <2>2 DEF ClientOK
    <3>3. heard \o (client.ring \o down) = answered
      BY <1>1, <3>2, EmptyFacts
    <3> QED
      BY <1>0, <1>2, <2>2, <3>1, <3>2, <3>3 DEF ClientOK
  <2>3. CASE /\ client.phase = "Handshake" /\ alpn' # "h2"
             /\ client' = Machine("failed", <<>>, client.ring)
    <3>1. client'.phase = "failed"
      BY <2>3 DEF Machine
    <3> QED
      BY <3>1 DEF ClientOK
  <2> QED
    BY <1>3, <2>1, <2>2, <2>3
<1>9. ServerOK(server, up, written, answered)'
  <2>1. CASE server.pc # "handshake" /\ server' = server
    <3>1. server.pc \notin {"exactly", "settings", "h2"}
      BY <1>2 DEF ServerOK, Agreed
    <3> QED
      BY <1>0, <1>2, <2>1, <3>1 DEF ServerOK
  <2>2. CASE /\ server.pc = "handshake"
             /\ server' = Go(server, IF alpn' = "h2" THEN "exactly" ELSE "http1")
    <3>1. /\ server'.pc = (IF alpn' = "h2" THEN "exactly" ELSE "http1")
          /\ server'.ring = server.ring /\ server'.out = server.out
      BY <2>2 DEF Go, Handler
    <3>2. seen = <<>> /\ server.ring \o up = written /\ answered = <<>> /\ server.out = <<>>
      BY <2>2 DEF ServerOK
    <3>3. seen \o (server.ring \o up) = written
      BY <1>1, <3>2, EmptyFacts
    <3> QED
      BY <1>0, <1>2, <3>1, <3>2, <3>3 DEF ServerOK
  <2> QED
    BY <1>4, <2>1, <2>2
<1>10. BothOK(client, server, written)'
  <2>1. SUFFICES ASSUME peers = "both" PROVE BothOK(client', server', written')
    BY <1>0, BothFrame DEF BothOK
  <2>2. client'.phase # "script"
    BY <1>3, <2>1 DEF BothOK, Machine
  <2>3. offer = {"h2"} /\ server'.pc \in {"handshake", "exactly", "settings", "h2", "closed"}
    <3>1. offer = {"h2"} /\ server.pc \in {"handshake", "exactly", "settings", "h2", "closed"}
      BY <1>2, <2>1 DEF BothOK
    <3>2. Selected(offer) = "h2"
      BY <3>1 DEF Selected
    <3> QED
      BY <1>4, <3>1, <3>2 DEF Go, Handler
  <2> QED
    BY <1>0, <1>2, <2>2, <2>3 DEF BothOK
<1> QED
  BY <1>7, <1>8, <1>9, <1>10

(* Before the first step nothing has been written.                         *)
LEMMA InitHolds == Init => IInv
<1> SUFFICES ASSUME Init PROVE IInv
  OBVIOUS
<1>0. /\ up = <<>> /\ down = <<>> /\ written = <<>> /\ answered = <<>> /\ seen = <<>> /\ heard = <<>>
      /\ fallback \in {"default", "custom"} /\ alpn = "none" /\ transport \in {"clear", "tls"}
      /\ <<>> \in Bytes /\ <<>> \o <<>> = <<>>
  BY SpokenFacts DEF Init, ClearInit, TlsInit
<1>1. \E out \in Bytes :
        \/ transport = "clear" /\ client = Machine("SendUpgrade", UpgradeRequest, <<>>)
        \/ transport = "tls" /\ client = Machine("Handshake", <<>>, <<>>)
        \/ peers = "server" /\ client = Machine("script", out, <<>>)
  <2>1. CASE ClearInit
    <3>1. CASE peers = "server" /\ \E script \in Scripts : client = Start("script", script)
      BY <3>1, SetupAssumption DEF Start, Bytes
    <3> QED
      BY <2>1, <3>1, SpokenFacts DEF ClearInit, Start
  <2>2. CASE TlsInit
    <3>1. CASE /\ peers = "server"
               /\ \E script \in TlsScripts : offer = script[1] /\ client = Start("script", script[2])
      BY <3>1, SetupAssumption DEF Start, Bytes
    <3> QED
      BY <2>2, <3>1, SpokenFacts DEF TlsInit, Start
  <2> QED
    BY <2>1, <2>2 DEF Init
<1>2. \E out \in Bytes :
        \/ transport = "clear" /\ server = Handler("detect", <<>>, <<>>, <<>>)
        \/ transport = "tls" /\ server = Handler("handshake", <<>>, <<>>, <<>>)
        \/ peers = "client" /\ server = Handler("script", <<>>, <<>>, out)
  <2>1. CASE \E answer \in Answers : server = Script(answer) /\ peers = "client"
    BY <2>1, SetupAssumption DEF Script, Bytes
  <2> QED
    BY <2>1, SpokenFacts DEF Init, ClearInit, TlsInit, Serve
<1>3. peers = "both" /\ transport = "tls" => offer = {"h2"}
  BY DEF Init, ClearInit, TlsInit
<1>4. /\ client \in Machines /\ client.ring = <<>>
      /\ \/ transport = "clear" /\ client.phase = "SendUpgrade" /\ client.out = UpgradeRequest
         \/ transport = "tls" /\ client.phase = "Handshake"
         \/ client.phase = "script" /\ peers = "server"
  BY <1>0, <1>1, SpokenFacts DEF Machine, Machines, Phases
<1>5. /\ server \in Handlers /\ server.ring = <<>>
      /\ \/ transport = "clear" /\ server.pc = "detect" /\ server.out = <<>>
         \/ transport = "tls" /\ server.pc = "handshake" /\ server.out = <<>>
         \/ server.pc = "script" /\ peers = "client"
  BY <1>0, <1>2 DEF Handler, Handlers, Pcs
<1>6. TypeOK
  BY <1>0, <1>4, <1>5 DEF TypeOK
<1>7. ClientOK(client, down, answered)
  BY <1>0, <1>4 DEF ClientOK
<1>8. ServerOK(server, up, written, answered)
  BY <1>0, <1>5 DEF ServerOK
<1>9. BothOK(client, server, written)
  <2>1. written \o UpgradeRequest = UpgradeRequest
    BY <1>0, SpokenFacts, EmptyFacts
  <2>2. Upgrading(written)
    BY <1>0, <2>1, SpokenFacts, UpgradingPrefix
  <2> QED
    BY <1>3, <1>4, <1>5, <2>1, <2>2 DEF BothOK
<1> QED
  BY <1>6, <1>7, <1>8, <1>9 DEF IInv

(* Every step keeps the invariant.                                         *)
LEMMA StepKeeps == IInv /\ [Next]_vars => IInv'
<1> SUFFICES ASSUME IInv, [Next]_vars PROVE IInv'
  OBVIOUS
<1>1. CASE UNCHANGED vars
  <2>1. UNCHANGED <<transport, peers, fallback, offer, alpn, client, up, down, written, answered,
                    server, seen, heard>>
    BY <1>1 DEF vars
  <2> QED
    BY <2>1, ClientFrame, ServerFrame, BothFrame DEF IInv, TypeOK
<1>2. CASE ClientWrite
  BY <1>2, ClientWriteKeeps
<1>3. CASE ClientRead
  BY <1>3, ClientReadKeeps
<1>4. CASE ClientFail \/ PeerClosed
  BY <1>4, ClientEndKeeps
<1>5. CASE ClientManager
  BY <1>5, ClientManagerKeeps
<1>6. CASE ClientClose \/ ServerClose
  BY <1>6, ClientCloseKeeps
<1>7. CASE ServerRead
  BY <1>7, ServerReadKeeps
<1>8. CASE ServerEof \/ CloseAfterLast
  BY <1>8, ServerEndKeeps DEF ServerEof, CloseAfterLast, Settle
<1>9. CASE ServerWrite
  BY <1>9, ServerWriteKeeps
<1>10. CASE ServerManager
  BY <1>10, ServerManagerKeeps
<1>11. CASE FallbackLoop
  BY <1>11, FallbackKeeps
<1>12. CASE Handshake
  BY <1>12, HandshakeKeeps
<1> QED
  BY <1>1, <1>2, <1>3, <1>4, <1>5, <1>6, <1>7, <1>8, <1>9, <1>10, <1>11, <1>12
     DEF Next, Progress, ClientStep, ServerStep
-----------------------------------------------------------------------------
(* Each end has, unused or under way, what the other has written, from the *)
(* place on that its phase stands for.                                     *)
THEOREM SetupInvariant == Spec => []IInv
<1>1. IInv /\ [Next]_vars => IInv'
  BY StepKeeps
<1> QED
  BY <1>1, InitHolds, PTL DEF Spec

(* The invariant is what NothingLost asks, put together otherwise.         *)
LEMMA IInvNothingLost == IInv => NothingLost
<1> SUFFICES ASSUME IInv PROVE NothingLost
  OBVIOUS
<1> DEFINE r == server.ring
<1> DEFINE q == client.ring
<1>1. r \in Bytes
  BY DEF IInv, TypeOK, Handlers
<1>2. q \in Bytes
  BY DEF IInv, TypeOK, Machines
<1>3. seen \in Bytes /\ up \in Bytes
  BY DEF IInv, TypeOK
<1>4. heard \in Bytes /\ down \in Bytes
  BY DEF IInv, TypeOK
<1> HIDE DEF r, q
<1>5. (seen \o r) \o up = seen \o (r \o up)
  BY <1>1, <1>3, Associative
<1>6. (heard \o q) \o down = heard \o (q \o down)
  BY <1>2, <1>4, Associative
<1> QED
  BY <1>5, <1>6 DEF NothingLost, IInv, TypeOK, ClientOK, ServerOK, r, q

(* And what BothAgreed asks.                                               *)
LEMMA IInvBothAgreed == IInv => BothAgreed
BY DEF BothAgreed, IInv, TypeOK, ClientOK, ServerOK, BothOK, Agreed, Asked, Settled, Responded

(* The stream managers and the HTTP/1 fallback get every byte that was not *)
(* used to set the connection up, once and in order.                       *)
THEOREM SetupLosesNothing == Spec => []NothingLost
<1>1. IInv => NothingLost
  BY IInvNothingLost
<1> QED
  BY <1>1, SetupInvariant, PTL

(* HTTP/2 is only spoken when both ends have agreed, by the preface, by    *)
(* 101 and a first SETTINGS frame, or by ALPN.                             *)
THEOREM SetupAgrees == Spec => []BothAgreed
<1>1. IInv => BothAgreed
  BY IInvBothAgreed
<1> QED
  BY <1>1, SetupInvariant, PTL
=============================================================================
