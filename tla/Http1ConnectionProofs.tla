------------------------- MODULE Http1ConnectionProofs -------------------------
(***************************************************************************)
(* Theorems of Http1Connection, for any messages, rings, capacities and    *)
(* number of requests: requests and answers arrive whole, in order and     *)
(* matched.                                                                *)
(*                                                                         *)
(* Sequences first, then what a message is on the wire, what the parser    *)
(* makes of a piece of it (Parsing), what lies between two ends that send  *)
(* and read messages (Under), and last the steps of the connection.        *)
(*                                                                         *)
(* ChunkEnds, FirstChunks and the turns of ChunkFromIOVec are recursive    *)
(* functions: RecursiveSequence gives their equations, NatSetInduction     *)
(* what follows from them for every n.                                     *)
(***************************************************************************)
EXTENDS Http1Connection, SequenceTheorems, WellFoundedInduction, TLAPS

(* Induction, as a fact about sets: what has 0 and the successor of each   *)
(* of its numbers has all of them.                                         *)
LEMMA NatSetInduction ==
  ASSUME NEW S, 0 \in S, \A n \in Nat : n \in S => n + 1 \in S
  PROVE  Nat \subseteq S
<1> DEFINE R == OpToRel(<, Nat)
<1> DEFINE T == Nat \ S
<1>1. IsWellFoundedOn(R, Nat)
  BY NatLessThanWellFounded, Zenon
<1>2. \A x, y \in Nat : <<x, y>> \in R <=> x < y
  BY DEF OpToRel
<1>3. SUFFICES ASSUME T # {} PROVE FALSE
  OBVIOUS
<1> HIDE DEF R, T
<1>4. T \subseteq Nat
  BY DEF T
<1>5. PICK x \in T : \A y \in T : ~(<<y, x>> \in R)
  BY <1>1, <1>3, <1>4, WFMin
<1>6. x \in Nat /\ x # 0 /\ x - 1 \in Nat
  BY DEF T
<1>7. <<x - 1, x>> \in R
  BY <1>2, <1>6
<1>8. x - 1 \notin T
  BY <1>5, <1>7
<1> QED
  BY <1>6, <1>8 DEF T

(* f is what the steps G[1] .. G[n] make of b, one after the other.        *)
Iterated(f, X, n, b, G) ==
  /\ f \in [0 .. n -> X] /\ f[0] = b
  /\ \A i \in 1 .. n : f[i] = G[i][f[i - 1]]

(* A function that is recursive along 0 .. n exists.                       *)
LEMMA RecursiveSequence ==
  ASSUME NEW X, NEW n \in Nat, NEW b \in X, NEW G \in [1 .. n -> [X -> X]]
  PROVE  \E f : Iterated(f, X, n, b, G)
<1> DEFINE Is(f, k) == f[0] = b /\ \A i \in 1 .. k : f[i] = G[i][f[i - 1]]
<1> DEFINE S == {k \in Nat : k <= n => \E f \in [0 .. k -> X] : Is(f, k)}
<1>1. 0 \in S
  <2>1. [i \in 0 .. 0 |-> b] \in [0 .. 0 -> X] /\ Is([i \in 0 .. 0 |-> b], 0)
    OBVIOUS
  <2> QED
    BY <2>1
<1>2. ASSUME NEW k \in Nat, k \in S PROVE k + 1 \in S
  <2>1. SUFFICES ASSUME k + 1 <= n PROVE \E f \in [0 .. k + 1 -> X] : Is(f, k + 1)
    OBVIOUS
  <2>2. PICK f \in [0 .. k -> X] : Is(f, k)
    BY <1>2, <2>1
  <2> DEFINE g == [i \in 0 .. k + 1 |-> IF i = k + 1 THEN G[k + 1][f[k]] ELSE f[i]]
  <2>3. f[k] \in X /\ k + 1 \in 1 .. n
    BY <2>1
  <2>4. g \in [0 .. k + 1 -> X]
    BY <2>3
  <2>5. g[0] = b
    BY <2>2
  <2>6. ASSUME NEW i \in 1 .. k + 1 PROVE g[i] = G[i][g[i - 1]]
    <3>1. CASE i = k + 1
      BY <3>1
    <3>2. CASE i # k + 1
      BY <3>2, <2>2
    <3> QED
      BY <3>1, <3>2
  <2> QED
    BY <2>4, <2>5, <2>6
<1> HIDE DEF S
<1>3. n \in S
  BY <1>1, <1>2, NatSetInduction
<1> QED
  BY <1>3 DEF S, Iterated
-----------------------------------------------------------------------------
(***************************************************************************)
(* Messages and what they are on the wire.                                 *)
(***************************************************************************)
Framings == {"none", "length", "chunked"}

Messages ==
  {m \in [id : Nat, framing : Framings, chunks : Seq(Nat \ {0}), close : BOOLEAN,
          routed : BOOLEAN] : m.framing = "none" => m.chunks = <<>>}

Units ==
  {CR, LF} \cup ({"h"} \X Messages) \cup ({"end"} \X Nat)
    \cup ({"size"} \X Nat) \cup ({"b"} \X (Nat \X Nat))

LEMMA MessageFields ==
  ASSUME NEW m \in Messages
  PROVE  /\ m.id \in Nat /\ m.framing \in Framings /\ m.chunks \in Seq(Nat \ {0})
         /\ m.close \in BOOLEAN /\ m.routed \in BOOLEAN
         /\ m.framing = "none" => m.chunks = <<>>
         /\ Len(m.chunks) \in Nat
         /\ \A n \in 1 .. Len(m.chunks) : m.chunks[n] \in Nat /\ m.chunks[n] > 0
<1>1. m.chunks \in Seq(Nat \ {0})
  BY DEF Messages
<1>2. \A n \in 1 .. Len(m.chunks) : m.chunks[n] \in Nat \ {0}
  BY <1>1
<1> QED
  BY <1>1, <1>2 DEF Messages

LEMMA UnitKinds ==
  /\ CR \in Units /\ LF \in Units
  /\ \A m \in Messages : <<"h", m>> \in Units
  /\ \A n \in Nat : <<"end", n>> \in Units /\ <<"size", n>> \in Units
  /\ \A n, k \in Nat : <<"b", <<n, k>>>> \in Units
  /\ \A u \in Units : u[1] = "size" => u[2] \in Nat
BY DEF Units, CR, LF

(* The equations of ChunkEnds; chunks end behind the ones before them.     *)
LEMMA ChunkEndsDef ==
  ASSUME NEW m \in Messages
  PROVE  /\ ChunkEnds(m) \in [0 .. Len(m.chunks) -> Nat]
         /\ ChunkEnds(m)[0] = 0
         /\ \A n \in 1 .. Len(m.chunks) :
              ChunkEnds(m)[n] = ChunkEnds(m)[n - 1] + m.chunks[n]
<1> DEFINE N == Len(m.chunks)
<1> DEFINE G == [i \in 1 .. N |-> [x \in Nat |-> x + m.chunks[i]]]
<1> DEFINE end[n \in 0 .. N] == IF n = 0 THEN 0 ELSE end[n - 1] + m.chunks[n]
<1>1. N \in Nat /\ G \in [1 .. N -> [Nat -> Nat]]
  BY MessageFields
<1>2. PICK f : Iterated(f, Nat, N, 0, G)
  <2> HIDE DEF N, G
  <2> QED
    BY <1>1, RecursiveSequence, Zenon
<1>3. f \in [0 .. N -> Nat] /\ f[0] = 0 /\ \A n \in 1 .. N : f[n] = f[n - 1] + m.chunks[n]
  <2>1. f \in [0 .. N -> Nat] /\ f[0] = 0
    BY <1>2 DEF Iterated
  <2>2. ASSUME NEW n \in 1 .. N PROVE f[n] = f[n - 1] + m.chunks[n]
    <3>1. f[n - 1] \in Nat
      <4> HIDE DEF N
      <4> QED
        BY <1>1, <2>1
    <3>2. f[n] = G[n][f[n - 1]]
      BY <1>2 DEF Iterated
    <3> QED
      BY <3>1, <3>2
  <2> QED
    BY <2>1, <2>2
<1>4. f = [n \in 0 .. N |-> IF n = 0 THEN 0 ELSE f[n - 1] + m.chunks[n]]
  <2> HIDE DEF N
  <2> QED
    BY <1>1, <1>3
<1>5. end = [n \in 0 .. N |-> IF n = 0 THEN 0 ELSE end[n - 1] + m.chunks[n]]
  <2> HIDE DEF N
  <2> QED
    BY <1>4, Zenon
<1>6. ChunkEnds(m) = end
  BY DEF ChunkEnds
<1> HIDE DEF end
<1>7. end[0] = 0 /\ \A n \in 1 .. N : end[n] = end[n - 1] + m.chunks[n]
  <2> HIDE DEF N
  <2> QED
    BY <1>5, <1>1
<1> DEFINE S == {n \in Nat : n <= N => end[n] \in Nat}
<1>8. ASSUME NEW n \in Nat, n \in S PROVE n + 1 \in S
  <2>1. SUFFICES ASSUME n + 1 <= N PROVE end[n + 1] \in Nat
    OBVIOUS
  <2>2. n + 1 \in 1 .. N /\ end[n] \in Nat /\ n + 1 - 1 = n
    <3> HIDE DEF N
    <3> QED
      BY <1>1, <1>8, <2>1
  <2>3. m.chunks[n + 1] \in Nat
    BY <2>2, MessageFields
  <2> QED
    BY <1>7, <2>2, <2>3
<1>9. 0 \in S
  BY <1>7
<1> HIDE DEF S
<1>10. Nat \subseteq S
  BY <1>8, <1>9, NatSetInduction
<1>11. \A n \in 0 .. N : end[n] \in Nat
  <2> HIDE DEF N
  <2> QED
    BY <1>10, <1>1 DEF S
<1> QED
  <2> HIDE DEF N
  <2> QED
    BY <1>5, <1>6, <1>7, <1>11 DEF N

LEMMA ChunkEndsGrow ==
  ASSUME NEW m \in Messages, NEW i \in 0 .. Len(m.chunks), NEW j \in i .. Len(m.chunks)
  PROVE  ChunkEnds(m)[i] <= ChunkEnds(m)[j]
<1> DEFINE N == Len(m.chunks)
<1> DEFINE E == ChunkEnds(m)
<1> DEFINE S == {k \in Nat : k \in i .. N => E[i] <= E[k]}
<1>0. N \in Nat /\ E \in [0 .. N -> Nat] /\ (\A n \in 1 .. N : m.chunks[n] \in Nat)
      /\ (\A n \in 1 .. N : E[n] = E[n - 1] + m.chunks[n])
      /\ i \in 0 .. N /\ j \in i .. N
  BY MessageFields, ChunkEndsDef
<1>1. ASSUME NEW k \in Nat, k \in S PROVE k + 1 \in S
  <2>1. SUFFICES ASSUME k + 1 \in i .. N PROVE E[i] <= E[k + 1]
    OBVIOUS
  <2> HIDE DEF N, E
  <2>2. CASE k + 1 = i
    <3>1. E[i] \in Nat
      BY <1>0
    <3>2. E[k + 1] = E[i]
      BY <2>2
    <3> QED
      BY <3>1, <3>2
  <2>3. CASE k + 1 # i
    <3>1. k \in i .. N /\ k + 1 \in 1 .. N /\ k + 1 - 1 = k /\ k \in 0 .. N
      BY <1>0, <2>1, <2>3
    <3>2. E[i] <= E[k]
      BY <1>1, <3>1
    <3>3. E[k + 1] = E[k] + m.chunks[k + 1]
      BY <1>0, <3>1
    <3>4. E[i] \in Nat /\ E[k] \in Nat /\ m.chunks[k + 1] \in Nat
      BY <1>0, <3>1
    <3> QED
      BY <3>2, <3>3, <3>4
  <2> QED
    BY <2>2, <2>3
<1>2. 0 \in S
  <2> HIDE DEF N, E
  <2> QED
    BY <1>0
<1> HIDE DEF S
<1>3. Nat \subseteq S
  BY <1>1, <1>2, NatSetInduction
<1> QED
  <2> HIDE DEF N, E
  <2>1. j \in S
    BY <1>0, <1>3 DEF N
  <2> QED
    BY <2>1 DEF S, N, E

LEMMA BytesDef ==
  ASSUME NEW m \in Messages, NEW first \in Nat, NEW last \in Nat, first <= last
  PROVE  /\ Bytes(m, first, last) \in Seq(Units)
         /\ Len(Bytes(m, first, last)) = last - first
         /\ \A i \in 1 .. last - first : Bytes(m, first, last)[i] = <<"b", <<m.id, first + i>>>>
<1>1. last - first \in Nat /\ m.id \in Nat
  BY MessageFields
<1>2. ASSUME NEW i \in 1 .. last - first PROVE <<"b", <<m.id, first + i>>>> \in Units
  <2>1. first + i \in Nat
    BY <1>1
  <2> QED
    BY <1>1, <2>1, UnitKinds
<1> DEFINE n == last - first
<1>3. Bytes(m, first, last) = [i \in 1 .. n |-> <<"b", <<m.id, first + i>>>>]
  BY DEF Bytes
<1> HIDE DEF n
<1>4. n \in Nat /\ \A i \in 1 .. n : <<"b", <<m.id, first + i>>>> \in Units
  BY <1>1, <1>2 DEF n
<1> DEFINE b == Bytes(m, first, last)
<1>5. \A i \in 1 .. n : b[i] = <<"b", <<m.id, first + i>>>>
  BY <1>3
<1>6. b \in [1 .. n -> Units]
  BY <1>3, <1>4
<1> HIDE DEF b
<1>7. b \in Seq(Units) /\ Len(b) = n
  BY <1>4, <1>6
<1> QED
  BY <1>5, <1>7 DEF n, b

(* Bytes up to middle and those behind it.                                 *)
LEMMA BytesJoin ==
  ASSUME NEW m \in Messages, NEW first \in Nat, NEW middle \in Nat, NEW last \in Nat,
         first <= middle, middle <= last
  PROVE  Bytes(m, first, middle) \o Bytes(m, middle, last) = Bytes(m, first, last)
<1> DEFINE a == Bytes(m, first, middle)
           b == Bytes(m, middle, last)
           c == Bytes(m, first, last)
<1>0. first <= last /\ middle - first \in Nat /\ last - middle \in Nat
  OBVIOUS
<1>1. /\ a \in Seq(Units) /\ Len(a) = middle - first
      /\ \A i \in 1 .. middle - first : a[i] = <<"b", <<m.id, first + i>>>>
  BY BytesDef
<1>2. /\ b \in Seq(Units) /\ Len(b) = last - middle
      /\ \A i \in 1 .. last - middle : b[i] = <<"b", <<m.id, middle + i>>>>
  BY BytesDef
<1>3. /\ c \in Seq(Units) /\ Len(c) = last - first
      /\ \A i \in 1 .. last - first : c[i] = <<"b", <<m.id, first + i>>>>
  BY <1>0, BytesDef
<1> HIDE DEF a, b, c
<1>4. /\ a \o b \in Seq(Units) /\ Len(a \o b) = Len(a) + Len(b)
      /\ \A i \in 1 .. Len(a) + Len(b) :
           (a \o b)[i] = IF i <= Len(a) THEN a[i] ELSE b[i - Len(a)]
  BY <1>1, <1>2, ConcatProperties
<1>5. ASSUME NEW i \in 1 .. Len(c) PROVE (a \o b)[i] = c[i]
  <2>0. i \in 1 .. last - first /\ i \in 1 .. Len(a) + Len(b)
    BY <1>0, <1>1, <1>2, <1>3
  <2>1. CASE i <= middle - first
    <3>1. i \in 1 .. middle - first /\ i <= Len(a)
      BY <1>0, <1>1, <2>0, <2>1
    <3>2. (a \o b)[i] = a[i]
      BY <1>4, <2>0, <3>1
    <3> QED
      BY <1>1, <1>3, <2>0, <3>1, <3>2
  <2>2. CASE i > middle - first
    <3>1. i - Len(a) \in 1 .. last - middle /\ middle + (i - Len(a)) = first + i
      BY <1>0, <1>1, <2>0, <2>2
    <3>2. (a \o b)[i] = b[i - Len(a)]
      BY <1>0, <1>1, <1>4, <2>0, <2>2
    <3>3. b[i - Len(a)] = <<"b", <<m.id, middle + (i - Len(a))>>>>
      BY <1>2, <3>1
    <3> QED
      BY <1>3, <2>0, <3>1, <3>2, <3>3
  <2> QED
    BY <1>0, <2>0, <2>1, <2>2
<1>6. Len(a \o b) = Len(c)
  BY <1>1, <1>2, <1>3, <1>4
<1> QED
  BY <1>3, <1>4, <1>5, <1>6, SeqEqual DEF a, b, c

(* What is behind the first k units of something.                          *)
LEMMA BehindDef ==
  ASSUME NEW S, NEW s \in Seq(S), NEW k \in 0 .. Len(s)
  PROVE  /\ SubSeq(s, k + 1, Len(s)) \in Seq(S)
         /\ Len(SubSeq(s, k + 1, Len(s))) = Len(s) - k
         /\ \A i \in 1 .. Len(s) - k : SubSeq(s, k + 1, Len(s))[i] = s[k + i]
<1>1. Len(s) \in Nat /\ \A i \in 1 .. Len(s) : s[i] \in S
  OBVIOUS
<1> DEFINE n == Len(s)
<1> DEFINE first == k + 1
<1>2. n \in Nat /\ first \in 1 .. n + 1 /\ first - 1 = k
  BY <1>1
<1>3. \A i \in first .. n : s[i] \in S
  BY <1>1, <1>2
<1> HIDE DEF n, first
<1>4. /\ SubSeq(s, first, n) \in Seq(S)
      /\ Len(SubSeq(s, first, n)) = IF first <= n THEN n - first + 1 ELSE 0
      /\ \A i \in 1 .. n - first + 1 : SubSeq(s, first, n)[i] = s[first + i - 1]
  BY <1>2, <1>3, SubSeqProperties
<1>5. Len(SubSeq(s, first, n)) = n - k
  BY <1>2, <1>4
<1>6. ASSUME NEW i \in 1 .. n - k PROVE SubSeq(s, first, n)[i] = s[k + i]
  <2>1. i \in 1 .. n - first + 1 /\ first + i - 1 = k + i
    BY <1>2
  <2> QED
    BY <1>4, <2>1
<1> QED
  BY <1>4, <1>5, <1>6 DEF n, first

(* Its first k units.                                                      *)
LEMMA FrontDef ==
  ASSUME NEW S, NEW s \in Seq(S), NEW k \in 0 .. Len(s)
  PROVE  /\ SubSeq(s, 1, k) \in Seq(S)
         /\ Len(SubSeq(s, 1, k)) = k
         /\ \A i \in 1 .. k : SubSeq(s, 1, k)[i] = s[i]
<1>1. Len(s) \in Nat /\ \A i \in 1 .. Len(s) : s[i] \in S
  OBVIOUS
<1>2. \A i \in 1 .. k : s[i] \in S
  BY <1>1
<1>3. k \in Int /\ k >= 0
  BY <1>1
<1>4. /\ SubSeq(s, 1, k) \in Seq(S)
      /\ Len(SubSeq(s, 1, k)) = IF 1 <= k THEN k - 1 + 1 ELSE 0
      /\ \A i \in 1 .. k - 1 + 1 : SubSeq(s, 1, k)[i] = s[1 + i - 1]
  BY <1>2, <1>3, SubSeqProperties
<1>5. Len(SubSeq(s, 1, k)) = k
  BY <1>3, <1>4
<1>6. ASSUME NEW i \in 1 .. k PROVE SubSeq(s, 1, k)[i] = s[i]
  <2>1. i \in 1 .. k - 1 + 1 /\ 1 + i - 1 = i
    BY <1>3
  <2> QED
    BY <1>4, <2>1
<1> QED
  BY <1>4, <1>5, <1>6

(* Induction from a to b.                                                  *)
LEMMA FromTo ==
  ASSUME NEW S, NEW a \in Nat, NEW b \in Nat, a \in S,
         \A n \in a + 1 .. b : n - 1 \in S => n \in S
  PROVE  \A n \in a .. b : n \in S
<1> DEFINE T == {n \in Nat : n \in a .. b => n \in S}
<1>1. 0 \in T
  OBVIOUS
<1>2. ASSUME NEW n \in Nat, n \in T PROVE n + 1 \in T
  <2>1. SUFFICES ASSUME n + 1 \in a .. b PROVE n + 1 \in S
    OBVIOUS
  <2>2. CASE n + 1 = a
    BY <2>2
  <2>3. CASE n + 1 # a
    <3>1. n \in a .. b /\ n + 1 \in a + 1 .. b /\ n + 1 - 1 = n
      BY <2>1, <2>3
    <3> QED
      BY <1>2, <3>1
  <2> QED
    BY <2>2, <2>3
<1> HIDE DEF T
<1>3. Nat \subseteq T
  BY <1>1, <1>2, NatSetInduction
<1> QED
  BY <1>3 DEF T

(* w is one sequence and another behind it.                                *)
Joined(S, w, s, t) ==
  /\ Len(s) \in Nat /\ Len(t) \in Nat
  /\ w \in Seq(S) /\ Len(w) = Len(s) + Len(t)
  /\ \A i \in 1 .. Len(s) : w[i] = s[i]
  /\ \A i \in 1 .. Len(t) : w[Len(s) + i] = t[i]

LEMMA JoinDef ==
  ASSUME NEW S, NEW s \in Seq(S), NEW t \in Seq(S)
  PROVE  Joined(S, s \o t, s, t)
<1>1. Len(s) \in Nat /\ Len(t) \in Nat
  OBVIOUS
<1>2. /\ s \o t \in Seq(S) /\ Len(s \o t) = Len(s) + Len(t)
      /\ \A i \in 1 .. Len(s) + Len(t) :
           (s \o t)[i] = IF i <= Len(s) THEN s[i] ELSE t[i - Len(s)]
  BY ConcatProperties
<1>3. ASSUME NEW i \in 1 .. Len(s) PROVE (s \o t)[i] = s[i]
  <2>1. i \in 1 .. Len(s) + Len(t) /\ i <= Len(s)
    BY <1>1
  <2> QED
    BY <1>2, <2>1
<1>4. ASSUME NEW i \in 1 .. Len(t) PROVE (s \o t)[Len(s) + i] = t[i]
  <2>1. /\ Len(s) + i \in 1 .. Len(s) + Len(t) /\ ~(Len(s) + i <= Len(s))
        /\ Len(s) + i - Len(s) = i
    BY <1>1
  <2> QED
    BY <1>2, <2>1
<1> QED
  BY <1>1, <1>2, <1>3, <1>4 DEF Joined

LEMMA ToChunkDef ==
  ASSUME NEW data \in Seq(Units), NEW n, n = Len(data)
  PROVE  /\ n \in Nat
         /\ ToChunk(data) \in Seq(Units) /\ Len(ToChunk(data)) = n + 5
         /\ ToChunk(data)[1] = <<"size", n>>
         /\ ToChunk(data)[2] = CR /\ ToChunk(data)[3] = LF
         /\ \A i \in 1 .. n : ToChunk(data)[3 + i] = data[i]
         /\ ToChunk(data)[n + 4] = CR /\ ToChunk(data)[n + 5] = LF
<1> DEFINE head == <<<<"size", n>>, CR, LF>>
           tail == <<CR, LF>>
<1>0. n \in Nat
  OBVIOUS
<1>1. <<"size", n>> \in Units /\ CR \in Units /\ LF \in Units
  BY <1>0, UnitKinds
<1>2. head \in Seq(Units) /\ Len(head) = 3
      /\ head[1] = <<"size", n>> /\ head[2] = CR /\ head[3] = LF
  BY <1>1
<1>3. tail \in Seq(Units) /\ Len(tail) = 2 /\ tail[1] = CR /\ tail[2] = LF
  BY <1>1
<1>4. ToChunk(data) = (head \o data) \o tail
  BY DEF ToChunk
<1> DEFINE front == head \o data
           w     == front \o tail
<1> HIDE DEF head, tail
<1>a. Joined(Units, front, head, data)
  BY <1>2, JoinDef
<1>5. /\ front \in Seq(Units) /\ Len(front) = Len(head) + Len(data)
      /\ \A i \in 1 .. Len(head) : front[i] = head[i]
      /\ \A i \in 1 .. Len(data) : front[Len(head) + i] = data[i]
  BY <1>a DEF Joined
<1> HIDE DEF front
<1>6. Len(front) = 3 + n
  BY <1>2, <1>5
<1>b. Joined(Units, w, front, tail)
  BY <1>3, <1>5, JoinDef
<1>7. /\ w \in Seq(Units) /\ Len(w) = Len(front) + Len(tail)
      /\ \A i \in 1 .. Len(front) : w[i] = front[i]
      /\ \A i \in 1 .. Len(tail) : w[Len(front) + i] = tail[i]
  BY <1>b DEF Joined
<1> HIDE DEF w
<1>8. w[1] = head[1] /\ w[2] = head[2] /\ w[3] = head[3]
  <2>1. /\ 1 \in 1 .. Len(front) /\ 2 \in 1 .. Len(front) /\ 3 \in 1 .. Len(front)
        /\ 1 \in 1 .. Len(head) /\ 2 \in 1 .. Len(head) /\ 3 \in 1 .. Len(head)
    BY <1>0, <1>2, <1>6
  <2> QED
    BY <1>5, <1>7, <2>1
<1>9. ASSUME NEW i \in 1 .. n PROVE w[3 + i] = data[i]
  <2>1. 3 + i \in 1 .. Len(front)
    BY <1>0, <1>6
  <2> QED
    BY <1>2, <1>5, <1>7, <2>1
<1>10. w[n + 4] = tail[1] /\ w[n + 5] = tail[2]
  <2>1. Len(front) + 1 = n + 4 /\ Len(front) + 2 = n + 5
    BY <1>0, <1>6
  <2>2. w[Len(front) + 1] = tail[1] /\ w[Len(front) + 2] = tail[2]
    BY <1>3, <1>7
  <2> QED
    BY <2>1, <2>2
<1>11. Len(w) = n + 5
  BY <1>0, <1>3, <1>6, <1>7
<1>12. ToChunk(data) = w
  BY <1>4 DEF w, front
<1> QED
  BY <1>0, <1>2, <1>3, <1>7, <1>8, <1>9, <1>10, <1>11, <1>12

(* The data of chunk n.                                                    *)
Data(m, n) == Bytes(m, ChunkEnds(m)[n - 1], ChunkEnds(m)[n])

LEMMA DataDef ==
  ASSUME NEW m \in Messages, NEW n \in 1 .. Len(m.chunks)
  PROVE  /\ Data(m, n) \in Seq(Units) /\ Len(Data(m, n)) = m.chunks[n]
         /\ \A i \in 1 .. m.chunks[n] : Data(m, n)[i] = <<"b", <<m.id, ChunkEnds(m)[n - 1] + i>>>>
<1> DEFINE a == ChunkEnds(m)[n - 1]
           b == ChunkEnds(m)[n]
<1>1. n - 1 \in 0 .. Len(m.chunks) /\ n \in 0 .. Len(m.chunks)
  BY MessageFields
<1>2. a \in Nat /\ b \in Nat /\ b = a + m.chunks[n] /\ m.chunks[n] \in Nat
  BY <1>1, ChunkEndsDef, MessageFields
<1>3. Data(m, n) = Bytes(m, a, b)
  BY DEF Data
<1> HIDE DEF a, b
<1>4. a <= b /\ b - a = m.chunks[n]
  BY <1>2
<1>5. /\ Bytes(m, a, b) \in Seq(Units) /\ Len(Bytes(m, a, b)) = b - a
      /\ \A i \in 1 .. b - a : Bytes(m, a, b)[i] = <<"b", <<m.id, a + i>>>>
  BY <1>2, <1>4, BytesDef
<1> QED
  BY <1>3, <1>4, <1>5 DEF a

(* The equations of FirstChunks.                                           *)
LEMMA FirstChunksDef ==
  ASSUME NEW m \in Messages
  PROVE  /\ FirstChunks(m) \in [0 .. Len(m.chunks) -> Seq(Units)]
         /\ FirstChunks(m)[0] = <<>>
         /\ \A n \in 1 .. Len(m.chunks) :
              FirstChunks(m)[n] = FirstChunks(m)[n - 1] \o ToChunk(Data(m, n))
<1> DEFINE N == Len(m.chunks)
<1> DEFINE X == Seq(Units)
<1> DEFINE G == [i \in 1 .. N |-> [x \in X |-> x \o ToChunk(Data(m, i))]]
<1> DEFINE first[n \in 0 .. N] == IF n = 0 THEN <<>> ELSE first[n - 1] \o ToChunk(Data(m, n))
<1>0. N \in Nat /\ <<>> \in X /\ \A n \in 1 .. N : ToChunk(Data(m, n)) \in X
  <2>1. \A n \in 1 .. N : Data(m, n) \in X
    BY DataDef
  <2>2. \A data \in X : ToChunk(data) \in X
    BY ToChunkDef
  <2> QED
    BY <2>1, <2>2, MessageFields
<1>1. \A n \in 1 .. N : \A x \in X : x \o ToChunk(Data(m, n)) \in X
  BY <1>0, ConcatProperties
<1>a. G \in [1 .. N -> [X -> X]]
  <2> HIDE DEF N, X
  <2> QED
    BY <1>1
<1>2. PICK f : Iterated(f, X, N, <<>>, G)
  <2> HIDE DEF N, X, G
  <2> QED
    BY <1>0, <1>a, RecursiveSequence, Zenon
<1>3. /\ f \in [0 .. N -> X] /\ f[0] = <<>>
      /\ \A n \in 1 .. N : f[n] = f[n - 1] \o ToChunk(Data(m, n))
  <2>1. f \in [0 .. N -> X] /\ f[0] = <<>>
    BY <1>2 DEF Iterated
  <2>2. ASSUME NEW n \in 1 .. N PROVE f[n] = f[n - 1] \o ToChunk(Data(m, n))
    <3>1. f[n - 1] \in X
      <4> HIDE DEF N, X
      <4> QED
        BY <1>0, <2>1
    <3>2. f[n] = G[n][f[n - 1]]
      BY <1>2 DEF Iterated
    <3> HIDE DEF N, X
    <3> QED
      BY <3>1, <3>2
  <2> QED
    BY <2>1, <2>2
<1>4. f = [n \in 0 .. N |-> IF n = 0 THEN <<>> ELSE f[n - 1] \o ToChunk(Data(m, n))]
  <2> HIDE DEF N, X
  <2>1. \A n \in 0 .. N : n # 0 => n \in 1 .. N
    BY <1>0
  <2>2. \A n \in 0 .. N : f[n] = IF n = 0 THEN <<>> ELSE f[n - 1] \o ToChunk(Data(m, n))
    BY <1>3, <2>1, Zenon
  <2>3. DOMAIN f = 0 .. N /\ f = [n \in 0 .. N |-> f[n]]
    BY <1>3
  <2> QED
    BY <2>2, <2>3, Zenon
<1>5. first = [n \in 0 .. N |-> IF n = 0 THEN <<>> ELSE first[n - 1] \o ToChunk(Data(m, n))]
  <2> HIDE DEF N, X
  <2> QED
    BY <1>4, Zenon
<1>6. FirstChunks(m) = first
  BY DEF FirstChunks, Data
<1> HIDE DEF first
<1>7. first[0] = <<>> /\ \A n \in 1 .. N : first[n] = first[n - 1] \o ToChunk(Data(m, n))
  <2> HIDE DEF N, X
  <2>1. 0 \in 0 .. N /\ \A n \in 1 .. N : n # 0 /\ n \in 0 .. N
    BY <1>0
  <2>2. \A n \in 0 .. N : first[n] = IF n = 0 THEN <<>> ELSE first[n - 1] \o ToChunk(Data(m, n))
    BY <1>5, Zenon
  <2> QED
    BY <2>1, <2>2, Zenon
<1> DEFINE S == {n \in 0 .. N : first[n] \in X}
<1>8. ASSUME NEW n \in 1 .. N, n - 1 \in S PROVE n \in S
  <2> HIDE DEF N, X
  <2>1. n \in 0 .. N /\ first[n - 1] \in X
    BY <1>0, <1>8
  <2> QED
    BY <1>1, <1>7, <2>1
<1>9. 0 \in S
  <2> HIDE DEF N, X
  <2> QED
    BY <1>7, <1>0
<1>10. \A n \in 0 .. N : n \in S
  <2> HIDE DEF N, X, S
  <2>1. 0 + 1 = 1
    OBVIOUS
  <2> QED
    BY <1>0, <1>8, <1>9, <2>1, FromTo
<1>11. \A n \in 0 .. N : first[n] \in X
  BY <1>10
<1>12. first \in [0 .. N -> X]
  <2> HIDE DEF N, X
  <2> QED
    BY <1>5, <1>11
<1> QED
  BY <1>6, <1>7, <1>12

LEMMA FirstChunksLength ==
  ASSUME NEW m \in Messages, NEW n \in 0 .. Len(m.chunks)
  PROVE  Len(FirstChunks(m)[n]) = ChunkEnds(m)[n] + 5 * n
<1> DEFINE N == Len(m.chunks)
           F == FirstChunks(m)
           E == ChunkEnds(m)
<1> DEFINE S == {k \in 0 .. N : Len(F[k]) = E[k] + 5 * k}
<1>1. /\ N \in Nat /\ F \in [0 .. N -> Seq(Units)] /\ F[0] = <<>> /\ n \in 0 .. N
      /\ \A k \in 1 .. N : F[k] = F[k - 1] \o ToChunk(Data(m, k))
  BY MessageFields, FirstChunksDef
<1>2. E \in [0 .. N -> Nat] /\ E[0] = 0 /\ \A k \in 1 .. N : E[k] = E[k - 1] + m.chunks[k]
  BY ChunkEndsDef
<1>3. \A k \in 1 .. N : /\ ToChunk(Data(m, k)) \in Seq(Units) /\ m.chunks[k] \in Nat
                        /\ Len(ToChunk(Data(m, k))) = m.chunks[k] + 5
  <2>1. \A k \in 1 .. N : /\ Data(m, k) \in Seq(Units) /\ m.chunks[k] = Len(Data(m, k))
                          /\ m.chunks[k] \in Nat
    BY DataDef, MessageFields
  <2> HIDE DEF N
  <2> QED
    BY <2>1, ToChunkDef
<1> HIDE DEF N, F, E
<1>4. ASSUME NEW k \in 1 .. N, k - 1 \in S PROVE k \in S
  <2> DEFINE t == ToChunk(Data(m, k))
  <2>1. t \in Seq(Units) /\ m.chunks[k] \in Nat /\ Len(t) = m.chunks[k] + 5
    BY <1>3
  <2>2. F[k] = F[k - 1] \o t
    BY <1>1
  <2>0. k - 1 \in 0 .. N /\ k \in 0 .. N
    BY <1>1
  <2>3. F[k - 1] \in Seq(Units) /\ E[k - 1] \in Nat
    BY <1>1, <1>2, <2>0
  <2> HIDE DEF t
  <2>4. Len(F[k]) = Len(F[k - 1]) + Len(t)
    BY <2>1, <2>2, <2>3, ConcatProperties
  <2>5. Len(F[k - 1]) = E[k - 1] + 5 * (k - 1)
    BY <1>4
  <2>6. E[k] = E[k - 1] + m.chunks[k]
    BY <1>2
  <2>7. Len(F[k]) = E[k] + 5 * k
    <3> DEFINE p == 5 * (k - 1)
               q == 5 * k
    <3>1. p + 5 = q /\ p \in Int /\ q \in Int
      BY <2>0
    <3> DEFINE x == E[k - 1]
               y == m.chunks[k]
    <3>2. Len(F[k]) = x + p + (y + 5) /\ E[k] = x + y /\ x \in Int /\ y \in Int
      BY <2>1, <2>3, <2>4, <2>5, <2>6
    <3> HIDE DEF p, q, x, y
    <3>3. Len(F[k]) = E[k] + q
      BY <3>1, <3>2
    <3> QED
      BY <3>3 DEF q
  <2> QED
    BY <2>0, <2>7
<1>5. 0 \in S
  <2>1. Len(F[0]) = 0 /\ E[0] + 5 * 0 = 0 /\ 0 \in 0 .. N
    BY <1>1, <1>2
  <2> QED
    BY <2>1
<1> HIDE DEF S
<1>6. n \in S
  <2>1. 0 + 1 = 1
    OBVIOUS
  <2> QED
    BY <1>1, <1>4, <1>5, <2>1, FromTo
<1> QED
  BY <1>1, <1>6 DEF S, N, F, E

(* They begin with those before.                                           *)
LEMMA FirstChunksPrefix ==
  ASSUME NEW m \in Messages, NEW n \in 0 .. Len(m.chunks), NEW i \in 1 .. Len(FirstChunks(m)[n])
  PROVE  /\ i <= Len(FirstChunks(m)[Len(m.chunks)])
         /\ FirstChunks(m)[Len(m.chunks)][i] = FirstChunks(m)[n][i]
<1> DEFINE N == Len(m.chunks)
           F == FirstChunks(m)
<1> DEFINE S == {k \in n .. N : i <= Len(F[k]) /\ F[k][i] = F[n][i]}
<1>1. /\ N \in Nat /\ F \in [0 .. N -> Seq(Units)] /\ n \in 0 .. N
      /\ \A k \in 1 .. N : F[k] = F[k - 1] \o ToChunk(Data(m, k))
  BY MessageFields, FirstChunksDef
<1>2. \A k \in 1 .. N : ToChunk(Data(m, k)) \in Seq(Units)
  BY DataDef, ToChunkDef
<1>a. F[n] \in Seq(Units) /\ i \in 1 .. Len(F[n])
  BY <1>1
<1> HIDE DEF N, F
<1>b. i \in Nat /\ i >= 1 /\ i <= Len(F[n])
  BY <1>a
<1>4. ASSUME NEW k \in n + 1 .. N, k - 1 \in S PROVE k \in S
  <2> DEFINE t == ToChunk(Data(m, k))
  <2>1. k \in 1 .. N /\ k \in n .. N /\ k - 1 \in 0 .. N
    BY <1>1
  <2>2. F[k] = F[k - 1] \o t /\ t \in Seq(Units) /\ F[k - 1] \in Seq(Units)
    BY <1>1, <1>2, <2>1
  <2>3. i <= Len(F[k - 1]) /\ F[k - 1][i] = F[n][i]
    BY <1>4
  <2> HIDE DEF t
  <2>4. /\ Len(F[k - 1]) \in Nat /\ Len(t) \in Nat /\ Len(F[k]) = Len(F[k - 1]) + Len(t)
        /\ \A j \in 1 .. Len(F[k - 1]) : F[k][j] = F[k - 1][j]
    BY <2>2, JoinDef DEF Joined
  <2>5. i \in 1 .. Len(F[k - 1])
    BY <1>b, <2>3, <2>4
  <2>6. i <= Len(F[k])
    BY <1>b, <2>3, <2>4
  <2> QED
    BY <2>1, <2>3, <2>4, <2>5, <2>6
<1>5. n \in S
  BY <1>1, <1>b
<1> HIDE DEF S
<1>7. N \in n .. N /\ n \in Nat
  BY <1>1
<1>6. N \in S
  BY <1>1, <1>4, <1>5, <1>7, FromTo
<1> QED
  BY <1>6, <1>7 DEF S, N, F

(* w has a chunk of that size behind unit at, and its data are the bytes   *)
(* of message id behind byte.                                              *)
ChunkAt(w, at, size, id, byte) ==
  /\ size \in Nat /\ at \in Nat /\ at + size + 5 <= Len(w)
  /\ w[at + 1] = <<"size", size>> /\ w[at + 2] = CR /\ w[at + 3] = LF
  /\ \A i \in 1 .. size : w[at + 3 + i] = <<"b", <<id, byte + i>>>>
  /\ w[at + size + 4] = CR /\ w[at + size + 5] = LF

LEMMA ChunkMoves ==
  ASSUME NEW v, NEW w, NEW at, NEW size, NEW id, NEW byte, ChunkAt(v, at, size, id, byte),
         NEW by \in Nat, Len(v) \in Nat, Len(w) \in Nat, Len(v) + by <= Len(w),
         \A i \in 1 .. Len(v) : w[by + i] = v[i]
  PROVE  ChunkAt(w, by + at, size, id, byte)
<1>1. /\ size \in Nat /\ at \in Nat /\ at + size + 5 <= Len(v)
      /\ v[at + 1] = <<"size", size>> /\ v[at + 2] = CR /\ v[at + 3] = LF
      /\ \A i \in 1 .. size : v[at + 3 + i] = <<"b", <<id, byte + i>>>>
      /\ v[at + size + 4] = CR /\ v[at + size + 5] = LF
  BY DEF ChunkAt
<1>2. ASSUME NEW j \in 1 .. size + 5 PROVE w[by + at + j] = v[at + j]
  <2>1. at + j \in 1 .. Len(v) /\ by + (at + j) = by + at + j
    BY <1>1
  <2> QED
    BY <2>1
<1>3. w[by + at + 1] = v[at + 1] /\ w[by + at + 2] = v[at + 2] /\ w[by + at + 3] = v[at + 3]
  <2>1. 1 \in 1 .. size + 5 /\ 2 \in 1 .. size + 5 /\ 3 \in 1 .. size + 5
    BY <1>1
  <2> QED
    BY <1>2, <2>1
<1>4. w[by + at + size + 4] = v[at + size + 4] /\ w[by + at + size + 5] = v[at + size + 5]
  <2>0. size \in Nat
    BY <1>1
  <2>1. size + 4 \in 1 .. size + 5 /\ size + 5 \in 1 .. size + 5
    BY <2>0
  <2>2. w[by + at + (size + 4)] = v[at + (size + 4)] /\ w[by + at + (size + 5)] = v[at + (size + 5)]
    BY <1>2, <2>1
  <2>3. /\ by + at + (size + 4) = by + at + size + 4 /\ at + (size + 4) = at + size + 4
        /\ by + at + (size + 5) = by + at + size + 5 /\ at + (size + 5) = at + size + 5
    BY <1>1
  <2> QED
    BY <2>2, <2>3
<1>5. ASSUME NEW i \in 1 .. size PROVE w[by + at + 3 + i] = v[at + 3 + i]
  <2>1. 3 + i \in 1 .. size + 5 /\ by + at + (3 + i) = by + at + 3 + i /\ at + (3 + i) = at + 3 + i
    BY <1>1
  <2>2. w[by + at + (3 + i)] = v[at + (3 + i)]
    BY <1>2, <2>1
  <2> QED
    BY <2>1, <2>2
<1>6. by + at \in Nat /\ by + at + size + 5 <= Len(w)
  BY <1>1
<1> QED
  BY <1>1, <1>3, <1>4, <1>5, <1>6 DEF ChunkAt

(* What a sequence begins with is in it.                                   *)
LEMMA ChunkInFront ==
  ASSUME NEW v, NEW w, NEW at, NEW size, NEW id, NEW byte, ChunkAt(v, at, size, id, byte),
         Len(v) \in Nat, Len(w) \in Nat, Len(v) <= Len(w),
         \A i \in 1 .. Len(v) : w[i] = v[i]
  PROVE  ChunkAt(w, at, size, id, byte)
<1>1. \A i \in 1 .. Len(v) : w[0 + i] = v[i]
  <2>1. \A i \in 1 .. Len(v) : 0 + i = i
    OBVIOUS
  <2> QED
    BY <2>1
<1>2. ChunkAt(w, 0 + at, size, id, byte)
  BY <1>1, ChunkMoves
<1>3. 0 + at = at
  BY DEF ChunkAt
<1> QED
  BY <1>2, <1>3

LEMMA LastChunkDef ==
  ASSUME NEW id, NEW byte
  PROVE  LastChunk \in Seq(Units) /\ Len(LastChunk) = 5 /\ ChunkAt(LastChunk, 0, 0, id, byte)
<1>1. <<"size", 0>> \in Units /\ CR \in Units /\ LF \in Units
  BY UnitKinds
<1>2. /\ LastChunk \in Seq(Units) /\ Len(LastChunk) = 5
      /\ LastChunk[1] = <<"size", 0>> /\ LastChunk[2] = CR /\ LastChunk[3] = LF
      /\ LastChunk[4] = CR /\ LastChunk[5] = LF
  BY <1>1 DEF LastChunk
<1> QED
  BY <1>2 DEF ChunkAt

LEMMA ToChunkAt ==
  ASSUME NEW m \in Messages, NEW n \in 1 .. Len(m.chunks)
  PROVE  ChunkAt(ToChunk(Data(m, n)), 0, m.chunks[n], m.id, ChunkEnds(m)[n - 1])
<1> DEFINE d == Data(m, n)
           z == m.chunks[n]
           byte == ChunkEnds(m)[n - 1]
           t == ToChunk(d)
<1>1. /\ d \in Seq(Units) /\ z = Len(d)
      /\ \A i \in 1 .. z : d[i] = <<"b", <<m.id, byte + i>>>>
  BY DataDef
<1> HIDE DEF d, z, byte
<1>2. /\ z \in Nat /\ Len(t) = z + 5 /\ t[1] = <<"size", z>> /\ t[2] = CR /\ t[3] = LF
      /\ \A i \in 1 .. z : t[3 + i] = d[i]
      /\ t[z + 4] = CR /\ t[z + 5] = LF
  BY <1>1, ToChunkDef
<1> HIDE DEF t
<1>3. \A i \in 1 .. z : t[3 + i] = <<"b", <<m.id, byte + i>>>>
  BY <1>1, <1>2
<1>4. ChunkAt(t, 0, z, m.id, byte)
  <2>1. /\ 0 + 1 = 1 /\ 0 + 2 = 2 /\ 0 + 3 = 3 /\ 0 \in Nat
        /\ 0 + z + 4 = z + 4 /\ 0 + z + 5 = z + 5 /\ z + 5 <= z + 5
    BY <1>2
  <2>2. 0 + z + 5 <= Len(t)
    BY <1>2, <2>1
  <2> HIDE DEF t
  <2>3. \A i \in 1 .. z : t[0 + 3 + i] = <<"b", <<m.id, byte + i>>>>
    BY <1>3, <2>1
  <2>4. t[0 + 1] = <<"size", z>> /\ t[0 + 2] = CR /\ t[0 + 3] = LF
    BY <1>2, <2>1
  <2>5. t[0 + z + 4] = CR /\ t[0 + z + 5] = LF
    BY <1>2, <2>1
  <2> QED
    BY <1>2, <2>1, <2>2, <2>3, <2>4, <2>5 DEF ChunkAt
<1> QED
  BY <1>4 DEF t, d, z, byte

(* Where chunk n is among the chunks.                                      *)
LEMMA FirstChunksAt ==
  ASSUME NEW m \in Messages, NEW n \in 1 .. Len(m.chunks)
  PROVE  ChunkAt(FirstChunks(m)[n], ChunkEnds(m)[n - 1] + 5 * (n - 1), m.chunks[n], m.id,
                 ChunkEnds(m)[n - 1])
<1> DEFINE f == FirstChunks(m)[n - 1]
           t == ToChunk(Data(m, n))
           z == m.chunks[n]
           byte == ChunkEnds(m)[n - 1]
           by == byte + 5 * (n - 1)
<1>1. n - 1 \in 0 .. Len(m.chunks) /\ n \in 0 .. Len(m.chunks)
  BY MessageFields
<1>2. f \in Seq(Units) /\ FirstChunks(m)[n] = f \o t /\ Len(f) = by
  BY <1>1, FirstChunksDef, FirstChunksLength
<1>3. t \in Seq(Units)
  BY DataDef, ToChunkDef
<1>4. ChunkAt(t, 0, z, m.id, byte)
  BY ToChunkAt
<1> HIDE DEF f, t, z, byte, by
<1>5. Joined(Units, f \o t, f, t)
  BY <1>2, <1>3, JoinDef
<1> DEFINE w == f \o t
<1> HIDE DEF w
<1>6. Joined(Units, w, f, t)
  BY <1>5 DEF w
<1>7. /\ by \in Nat /\ Len(t) \in Nat /\ Len(w) = by + Len(t)
      /\ \A i \in 1 .. Len(t) : w[by + i] = t[i]
  BY <1>2, <1>6 DEF Joined
<1>8. ChunkAt(w, by + 0, z, m.id, byte)
  <2>1. Len(w) \in Nat /\ Len(t) + by <= Len(w)
    BY <1>7
  <2> QED
    BY <1>4, <1>7, <2>1, ChunkMoves
<1>9. by + 0 = by
  BY <1>7
<1>10. ChunkAt(w, by, z, m.id, byte)
  BY <1>8, <1>9
<1> QED
  BY <1>2, <1>10 DEF w, by, z, byte

Total(m) == ChunkEnds(m)[Len(m.chunks)]

LEMMA ChunksOfAt ==
  ASSUME NEW m \in Messages
  PROVE  /\ ChunksOf(m) \in Seq(Units)
         /\ Len(ChunksOf(m)) = Total(m) + 5 * Len(m.chunks) + 5
         /\ ChunkAt(ChunksOf(m), Total(m) + 5 * Len(m.chunks), 0, m.id, Total(m))
         /\ \A n \in 1 .. Len(m.chunks) :
              ChunkAt(ChunksOf(m), ChunkEnds(m)[n - 1] + 5 * (n - 1), m.chunks[n], m.id,
                      ChunkEnds(m)[n - 1])
<1> DEFINE N == Len(m.chunks)
           f == FirstChunks(m)[N]
           by == Total(m) + 5 * N
           w == f \o LastChunk
<1>1. N \in Nat /\ N \in 0 .. N
  BY MessageFields
<1>2. f \in Seq(Units) /\ Len(f) = by
  BY <1>1, FirstChunksDef, FirstChunksLength DEF Total
<1>3. ChunksOf(m) = w
  BY DEF ChunksOf
<1>4. LastChunk \in Seq(Units) /\ Len(LastChunk) = 5 /\ ChunkAt(LastChunk, 0, 0, m.id, Total(m))
  BY LastChunkDef
<1>5. Joined(Units, w, f, LastChunk)
  BY <1>2, <1>4, JoinDef
<1> HIDE DEF w
<1>6. /\ w \in Seq(Units) /\ Len(w) = Len(f) + 5 /\ Len(f) \in Nat /\ Len(w) \in Nat
      /\ (\A i \in 1 .. Len(f) : w[i] = f[i])
      /\ \A i \in 1 .. 5 : w[Len(f) + i] = LastChunk[i]
  BY <1>4, <1>5 DEF Joined
<1>7. ASSUME NEW n \in 1 .. N
      PROVE  ChunkAt(w, ChunkEnds(m)[n - 1] + 5 * (n - 1), m.chunks[n], m.id, ChunkEnds(m)[n - 1])
  <2> DEFINE v == FirstChunks(m)[n]
             at == ChunkEnds(m)[n - 1] + 5 * (n - 1)
             z == m.chunks[n]
             byte == ChunkEnds(m)[n - 1]
  <2>1. n \in 0 .. N
    BY <1>1
  <2>2. v \in Seq(Units) /\ ChunkAt(v, at, z, m.id, byte)
    BY <2>1, FirstChunksDef, FirstChunksAt
  <2>3. \A i \in 1 .. Len(v) : i <= Len(f) /\ f[i] = v[i]
    BY <2>1, FirstChunksPrefix
  <2> HIDE DEF v, at, z, byte, f
  <2>4. Len(v) \in Nat
    BY <2>2
  <2>5. \A i \in 1 .. Len(v) : w[i] = v[i]
    BY <1>6, <2>3, <2>4
  <2>6. Len(v) <= Len(w)
    <3>1. CASE Len(v) = 0
      BY <1>6, <2>4, <3>1
    <3>2. CASE Len(v) # 0
      <4>1. Len(v) \in 1 .. Len(v)
        BY <2>4, <3>2
      <4> QED
        BY <1>6, <2>3, <2>4, <4>1
    <3> QED
      BY <3>1, <3>2
  <2>7. ChunkAt(w, at, z, m.id, byte)
    BY <1>6, <2>2, <2>4, <2>5, <2>6, ChunkInFront
  <2> QED
    BY <2>7 DEF at, z, byte
<1>8. ChunkAt(w, by, 0, m.id, Total(m))
  <2> DEFINE T == Total(m)
  <2> HIDE DEF f, by, T
  <2>0. ChunkAt(LastChunk, 0, 0, m.id, T)
    BY <1>4 DEF T
  <2>1. Len(LastChunk) \in Nat /\ Len(LastChunk) + by <= Len(w) /\ by \in Nat
    BY <1>2, <1>4, <1>6
  <2>2. \A i \in 1 .. Len(LastChunk) : w[by + i] = LastChunk[i]
    BY <1>2, <1>4, <1>6
  <2>3. ChunkAt(w, by + 0, 0, m.id, T)
    BY <1>6, <2>0, <2>1, <2>2, ChunkMoves
  <2>4. by + 0 = by
    BY <2>1
  <2> QED
    BY <2>3, <2>4 DEF T
<1> QED
  BY <1>2, <1>3, <1>6, <1>7, <1>8

(* Chunk n of m, the empty one at the end among them: its size and the     *)
(* units of the message before it.                                         *)
Size(m, n) == IF n <= Len(m.chunks) THEN m.chunks[n] ELSE 0
Start(m, n) == 2 + (ChunkEnds(m)[n - 1] + 5 * (n - 1))

Numbers(m) == 1 .. Len(m.chunks) + 1

LEMMA WireDef ==
  ASSUME NEW m \in Messages
  PROVE  /\ Wire(m) \in Seq(Units)
         /\ Wire(m)[1] = <<"h", m>> /\ Wire(m)[2] = <<"end", m.id>>
         /\ Total(m) \in Nat /\ BodyOf(m) = Bytes(m, 0, Total(m)) /\ Len(Wire(m)) >= 2
         /\ m.framing # "chunked" =>
              /\ Len(Wire(m)) = 2 + Total(m)
              /\ \A i \in 1 .. Total(m) : Wire(m)[2 + i] = <<"b", <<m.id, i>>>>
         /\ m.framing = "chunked" =>
              /\ Len(Wire(m)) = 2 + (Total(m) + 5 * Len(m.chunks) + 5)
              /\ \A n \in Numbers(m) : /\ Start(m, n) \in Nat
                                       /\ ChunkAt(Wire(m), Start(m, n), Size(m, n), m.id, ChunkEnds(m)[n - 1])
<1> DEFINE N == Len(m.chunks)
           T == Total(m)
           head == <<<<"h", m>>, <<"end", m.id>>>>
           rest == IF m.framing = "chunked" THEN ChunksOf(m) ELSE BodyOf(m)
           w == head \o rest
<1>1. N \in Nat /\ T \in Nat /\ m.id \in Nat
  BY MessageFields, ChunkEndsDef DEF Total
<1>2. BodyOf(m) = Bytes(m, 0, T)
  BY DEF BodyOf, Total
<1>3. /\ BodyOf(m) \in Seq(Units) /\ Len(BodyOf(m)) = T - 0
      /\ \A i \in 1 .. T - 0 : BodyOf(m)[i] = <<"b", <<m.id, 0 + i>>>>
  <2> HIDE DEF T
  <2>1. 0 <= T /\ 0 \in Nat
    BY <1>1
  <2>2. /\ Bytes(m, 0, T) \in Seq(Units) /\ Len(Bytes(m, 0, T)) = T - 0
        /\ \A i \in 1 .. T - 0 : Bytes(m, 0, T)[i] = <<"b", <<m.id, 0 + i>>>>
    BY <1>1, <2>1, BytesDef, Zenon
  <2> QED
    BY <1>2, <2>2, Zenon
<1>4. head \in Seq(Units) /\ Len(head) = 2 /\ head[1] = <<"h", m>> /\ head[2] = <<"end", m.id>>
  <2>1. <<"h", m>> \in Units /\ <<"end", m.id>> \in Units
    BY <1>1, UnitKinds
  <2> QED
    BY <2>1
<1>5. rest \in Seq(Units)
  BY <1>3, ChunksOfAt
<1>6. Wire(m) = w
  BY DEF Wire
<1> HIDE DEF head, rest
<1>7. Joined(Units, w, head, rest)
  BY <1>4, <1>5, JoinDef
<1> HIDE DEF w
<1>8. /\ w \in Seq(Units) /\ Len(w) = 2 + Len(rest) /\ Len(rest) \in Nat
      /\ w[1] = <<"h", m>> /\ w[2] = <<"end", m.id>>
      /\ \A i \in 1 .. Len(rest) : w[2 + i] = rest[i]
  BY <1>4, <1>7 DEF Joined
<1>9. ASSUME m.framing # "chunked"
      PROVE Len(w) = 2 + T /\ \A i \in 1 .. T : w[2 + i] = <<"b", <<m.id, i>>>>
  <2>1. rest = BodyOf(m)
    BY <1>9 DEF rest
  <2>2. Len(rest) = T
    BY <1>1, <1>3, <2>1
  <2>3. ASSUME NEW i \in 1 .. T PROVE w[2 + i] = <<"b", <<m.id, i>>>>
    <3>1. i \in 1 .. T - 0 /\ 0 + i = i /\ i \in 1 .. Len(rest)
      BY <1>1, <2>2
    <3> QED
      BY <1>3, <1>8, <2>1, <3>1
  <2> QED
    BY <1>8, <2>2, <2>3
<1>10. ASSUME m.framing = "chunked", NEW n \in Numbers(m)
       PROVE  /\ Len(w) = 2 + (T + 5 * N + 5)
              /\ Start(m, n) \in Nat
              /\ ChunkAt(w, Start(m, n), Size(m, n), m.id, ChunkEnds(m)[n - 1])
  <2> DEFINE at == ChunkEnds(m)[n - 1] + 5 * (n - 1)
             z == Size(m, n)
             byte == ChunkEnds(m)[n - 1]
  <2>1. rest = ChunksOf(m)
    BY <1>10 DEF rest
  <2>2. Len(rest) = T + 5 * N + 5
    BY <2>1, ChunksOfAt
  <2>3. ChunkAt(rest, at, z, m.id, byte)
    <3>1. CASE n <= N
      <4>1. n \in 1 .. N
        BY <1>1, <3>1 DEF Numbers
      <4>2. z = m.chunks[n]
        BY <3>1 DEF Size
      <4> QED
        BY <2>1, <4>1, <4>2, ChunksOfAt
    <3>2. CASE ~(n <= N)
      <4>1. n - 1 = N
        BY <1>1, <3>2 DEF Numbers
      <4>2. z = 0
        BY <3>2 DEF Size
      <4>3. at = T + 5 * N /\ byte = T
        BY <4>1 DEF Total
      <4> QED
        BY <2>1, <4>2, <4>3, ChunksOfAt
    <3> QED
      BY <3>1, <3>2
  <2>4. Start(m, n) = 2 + at
    BY DEF Start
  <2> HIDE DEF at, z, byte
  <2>5. at \in Nat
    BY <2>3 DEF ChunkAt
  <2>6. Len(w) \in Nat /\ Len(rest) + 2 <= Len(w)
    BY <1>8
  <2>7. ChunkAt(w, 2 + at, z, m.id, byte)
    BY <1>8, <2>3, <2>6, ChunkMoves
  <2> QED
    BY <1>8, <2>2, <2>4, <2>5, <2>7 DEF z, byte
<1>11. 1 \in Numbers(m)
  BY <1>1 DEF Numbers
<1>12. Len(w) >= 2
  BY <1>8
<1> QED
  BY <1>1, <1>2, <1>6, <1>8, <1>9, <1>10, <1>11, <1>12

(* A chunk begins where the one before it ends, the message ends with the  *)
(* last, and no other is empty.                                            *)
LEMMA NextStart ==
  ASSUME NEW m \in Messages, NEW n \in Numbers(m)
  PROVE  /\ n \in Nat /\ Size(m, n) \in Nat /\ ChunkEnds(m)[n - 1] \in Nat /\ Start(m, n) \in Nat
         /\ Start(m, 1) = 2 /\ ChunkEnds(m)[0] = 0 /\ 1 \in Numbers(m)
         /\ Size(m, n) = 0 => /\ ChunkEnds(m)[n - 1] = Total(m)
                              /\ m.framing = "chunked" => Len(Wire(m)) = Start(m, n) + 5
         /\ Size(m, n) # 0 => \E k \in Numbers(m) :
                                /\ k - 1 = n
                                /\ Start(m, k) = Start(m, n) + Size(m, n) + 5
                                /\ ChunkEnds(m)[k - 1] = ChunkEnds(m)[n - 1] + Size(m, n)
<1> DEFINE N == Len(m.chunks)
           E == ChunkEnds(m)
<1>1. /\ N \in Nat /\ n \in 1 .. N + 1 /\ E \in [0 .. N -> Nat] /\ E[0] = 0
      /\ (\A k \in 1 .. N : m.chunks[k] \in Nat /\ m.chunks[k] > 0)
      /\ \A k \in 1 .. N : E[k] = E[k - 1] + m.chunks[k]
  BY MessageFields, ChunkEndsDef DEF Numbers
<1>2. Start(m, n) = 2 + (E[n - 1] + 5 * (n - 1)) /\ Start(m, 1) = 2 + (E[1 - 1] + 5 * (1 - 1))
  BY DEF Start
<1>3. Total(m) = E[N] /\ Size(m, n) = (IF n <= N THEN m.chunks[n] ELSE 0)
  BY DEF Total, Size
<1>4. m.framing = "chunked" => Len(Wire(m)) = 2 + (Total(m) + 5 * N + 5)
  BY WireDef
<1> HIDE DEF N, E
<1>5. n \in Nat /\ n - 1 \in 0 .. N /\ 5 * (n - 1) \in Nat
  BY <1>1
<1>6. E[n - 1] \in Nat
  BY <1>1, <1>5
<1>7. Start(m, n) \in Nat
  BY <1>2, <1>5, <1>6
<1>8. Start(m, 1) = 2
  <2>1. 1 - 1 = 0 /\ 5 * (1 - 1) = 0
    OBVIOUS
  <2> QED
    BY <1>1, <1>2, <2>1
<1>9. 1 \in Numbers(m)
  BY <1>1 DEF Numbers, N
<1>10. Size(m, n) \in Nat
  BY <1>1, <1>3, <1>5
<1>11. ASSUME Size(m, n) = 0
       PROVE  E[n - 1] = Total(m) /\ (m.framing = "chunked" => Len(Wire(m)) = Start(m, n) + 5)
  <2>1. n - 1 = N
    BY <1>1, <1>3, <1>11
  <2>2. Total(m) = E[n - 1] /\ 5 * N = 5 * (n - 1)
    BY <1>3, <2>1
  <2>3. SUFFICES ASSUME m.framing = "chunked" PROVE Len(Wire(m)) = Start(m, n) + 5
    BY <2>2
  <2> DEFINE a == E[n - 1]
             b == 5 * (n - 1)
  <2>4. Len(Wire(m)) = 2 + (a + b + 5) /\ Start(m, n) = 2 + (a + b) /\ a \in Nat /\ b \in Nat
    BY <1>2, <1>4, <1>5, <1>6, <2>2, <2>3
  <2> HIDE DEF a, b
  <2> QED
    BY <2>4
<1>12. ASSUME Size(m, n) # 0
       PROVE  \E k \in Numbers(m) : /\ k - 1 = n
                                    /\ Start(m, k) = Start(m, n) + Size(m, n) + 5
                                    /\ E[k - 1] = E[n - 1] + Size(m, n)
  <2>1. n \in 1 .. N /\ Size(m, n) = m.chunks[n]
    BY <1>1, <1>3, <1>12
  <2> DEFINE k == n + 1
  <2>2. k \in Numbers(m) /\ k - 1 = n
    BY <1>1, <2>1 DEF Numbers, N
  <2>3. E[k - 1] = E[n - 1] + Size(m, n)
    BY <1>1, <2>1, <2>2
  <2> DEFINE a == E[n - 1]
             b == 5 * (n - 1)
             c == 5 * (k - 1)
             z == Size(m, n)
  <2>4. Start(m, k) = 2 + (E[k - 1] + c)
    BY DEF Start, E
  <2>5. c = b + 5 /\ b \in Nat
    BY <1>5, <2>2
  <2>6. Start(m, n) = 2 + (a + b) /\ E[k - 1] = a + z /\ a \in Nat /\ z \in Nat
    BY <1>2, <1>6, <1>10, <2>3
  <2> HIDE DEF k, a, b, c, z
  <2>7. Start(m, k) = Start(m, n) + z + 5
    BY <2>4, <2>5, <2>6
  <2> QED
    BY <2>2, <2>3, <2>7 DEF z
<1> QED
  BY <1>1, <1>5, <1>6, <1>7, <1>8, <1>9, <1>10, <1>11, <1>12 DEF E

-----------------------------------------------------------------------------
(***************************************************************************)
(* Chunks out of the ring.                                                 *)
(***************************************************************************)
LEMMA MinIs ==
  ASSUME NEW S, S \subseteq Int, NEW x \in S, \A y \in S : x <= y
  PROVE  Min(S) = x
<1> DEFINE y == Min(S)
<1>1. y \in S /\ \A k \in S : y <= k
  BY DEF Min
<1> HIDE DEF y
<1>2. y \in Int /\ x \in Int /\ y <= x /\ x <= y
  BY <1>1
<1>3. y = x
  BY <1>2
<1> QED
  BY <1>3 DEF y

LEMMA LineDef ==
  ASSUME NEW d, NEW i, NEW nl, NEW e, e = nl - 2
  PROVE  \A k : k \in Line(d, i, nl) <=> k \in i .. e /\ d[k] # CR
BY DEF Line

LEMMA NoLine ==
  ASSUME NEW d, NEW i, \A k \in i .. Len(d) - 1 : ~(d[k] = CR /\ d[k + 1] = LF)
  PROVE  FindCRLF(d, i) = 0
BY DEF FindCRLF

LEMMA LineFound ==
  ASSUME NEW d \in Seq(Units), NEW i \in Nat, NEW k \in i .. Len(d) - 1, d[k] = CR, d[k + 1] = LF,
         \A j \in i .. k - 1 : d[j] # CR /\ d[j] # LF
  PROVE  FindCRLF(d, i) = k + 1
<1> DEFINE ends == {j \in i .. Len(d) - 1 : d[j] = CR /\ d[j + 1] = LF}
<1>1. k \in ends /\ ends \subseteq Int /\ k \in Int
  OBVIOUS
<1>2. ASSUME NEW y \in ends PROVE k <= y
  OBVIOUS
<1>3. FindCRLF(d, i) = IF ends = {} \/ (\E j \in i .. Min(ends) : d[j] = LF) THEN 0 ELSE Min(ends) + 1
  BY DEF FindCRLF
<1> HIDE DEF ends
<1>4. Min(ends) = k
  BY <1>1, <1>2, MinIs
<1>5. d[k] # LF
  BY DEF CR, LF
<1>6. ASSUME NEW j \in i .. k PROVE d[j] # LF
  <2>1. j \in i .. k - 1 \/ j = k
    OBVIOUS
  <2> QED
    BY <1>5, <2>1
<1> QED
  BY <1>1, <1>3, <1>4, <1>6

(* What the ring holds is the wire from behind unit u on, as far as w goes. *)
Agrees(d, w, u) == \A j \in 1 .. Len(d) : u + j <= Len(w) => d[j] = w[u + j]

Outs == {"go", "some", "last", "kIncomplete", "kChunkSizeConvertError", "kInvalidChunkFormat"}

Loops == [at : Nat, body : Seq(Units), parsed : BOOLEAN, out : Outs]

Short(x, at) == [x EXCEPT !.out = IF x.parsed THEN "some" ELSE "kIncomplete", !.at = at]

(* y is x after a turn over a chunk of z bytes behind byte, of which the    *)
(* ring has some: nothing is taken, or the size line alone, or the last    *)
(* chunk, or the chunk.                                                    *)
TakesChunk(y, d, x, m, z, byte) ==
  \/ y = Short(x, x.at)
  \/ y = Short(x, x.at + 3) /\ x.at + 3 <= Len(d)
  \/ z = 0 /\ x.at + 5 <= Len(d) /\ y = [x EXCEPT !.at = x.at + 5, !.out = "last"]
  \/ /\ z # 0 /\ x.at + z + 5 <= Len(d)
     /\ y = [x EXCEPT !.at = x.at + z + 5, !.parsed = TRUE,
                      !.body = @ \o Bytes(m, byte, byte + z)]

LEMMA ChunkTurnDef ==
  ASSUME NEW d \in Seq(Units), NEW w, NEW u \in Nat, Agrees(d, w, u), Len(w) \in Nat,
         NEW x \in Loops, x.at <= Len(d), NEW m \in Messages, NEW z, NEW byte \in Nat,
         ChunkAt(w, u + x.at, z, m.id, byte)
  PROVE  TakesChunk(ChunkTurn(d, x), d, x, m, z, byte)
<1> DEFINE p == x.at
           L == Len(d)
<1>0. p \in Nat /\ L \in Nat /\ p <= L /\ L = Len(d) /\ p = x.at
  BY DEF Loops
<1>z. z \in Nat /\ u + p + z + 5 <= Len(w)
  BY DEF ChunkAt
<1>1. /\ w[u + p + 1] = <<"size", z>> /\ w[u + p + 2] = CR /\ w[u + p + 3] = LF
      /\ \A i \in 1 .. z : w[u + p + 3 + i] = <<"b", <<m.id, byte + i>>>>
      /\ w[u + p + z + 4] = CR /\ w[u + p + z + 5] = LF
  BY DEF ChunkAt
<1> DEFINE nl    == FindCRLF(d, p + 1)
           line  == Line(d, p + 1, nl)
           first == d[Min(line)]
           size  == first[2]
           rest  == FindCRLF(d, nl + 1)
<1>3. ChunkTurn(d, x) =
        IF p = L \/ nl = 0 THEN Short(x, p)
        ELSE IF line = {} \/ first[1] # "size" THEN [x EXCEPT !.out = "kChunkSizeConvertError"]
        ELSE IF size = 0
        THEN IF rest = 0 THEN Short(x, nl)
             ELSE IF Line(d, nl + 1, rest) # {} THEN [x EXCEPT !.out = "kInvalidChunkFormat"]
             ELSE [x EXCEPT !.at = rest, !.out = "last"]
        ELSE IF L - nl < size + 2 THEN Short(x, nl)
        ELSE IF SubSeq(d, nl + size + 1, nl + size + 2) # <<CR, LF>>
        THEN [x EXCEPT !.out = "kInvalidChunkFormat"]
        ELSE [x EXCEPT !.at = nl + size + 2, !.parsed = TRUE,
                       !.body = @ \o SubSeq(d, nl + 1, nl + size)]
  BY DEF ChunkTurn, Short
<1> HIDE DEF p, L, line, first, size, rest, nl
<1>n. p \in Nat /\ L \in Nat /\ p <= L /\ z \in Nat
  BY <1>0, <1>z
<1>2. ASSUME NEW j \in 1 .. z + 5, p + j <= L PROVE d[p + j] = w[u + p + j]
  <2>1. p + j \in 1 .. L /\ u + (p + j) <= Len(w) /\ u + (p + j) = u + p + j
    BY <1>n, <1>z, <1>2
  <2> QED
    BY <2>1 DEF Agrees, L
<1>4. ASSUME L <= p + 2
      PROVE  TakesChunk(ChunkTurn(d, x), d, x, m, z, byte)
  <2>1. ASSUME NEW k \in p + 1 .. L - 1 PROVE ~(d[k] = CR /\ d[k + 1] = LF)
    <3>1. k = p + 1 /\ p + 1 <= L /\ 1 \in 1 .. z + 5
      BY <1>n, <1>4
    <3>2. d[p + 1] = w[u + p + 1]
      BY <1>2, <3>1
    <3> QED
      BY <1>1, <3>1, <3>2 DEF CR
  <2>2. nl = 0
    BY <2>1, NoLine DEF nl, L
  <2> QED
    BY <1>0, <1>3, <2>2 DEF TakesChunk
<1>5. ASSUME L >= p + 3
      PROVE  TakesChunk(ChunkTurn(d, x), d, x, m, z, byte)
  <2>0. /\ 1 \in 1 .. z + 5 /\ 2 \in 1 .. z + 5 /\ 3 \in 1 .. z + 5
        /\ p + 1 <= L /\ p + 2 <= L /\ p + 3 <= L
    BY <1>n, <1>5
  <2>1. d[p + 1] = <<"size", z>> /\ d[p + 2] = CR /\ d[p + 3] = LF
    BY <1>1, <1>2, <1>n, <2>0
  <2>2. nl = p + 3
    <3>1. p + 2 \in p + 1 .. L - 1 /\ p + 2 + 1 = p + 3 /\ p + 1 \in Nat
      BY <1>n, <1>5
    <3>2. ASSUME NEW j \in p + 1 .. p + 2 - 1 PROVE d[j] # CR /\ d[j] # LF
      <4>1. j = p + 1
        BY <1>n
      <4> QED
        BY <2>1, <4>1 DEF CR, LF
    <3> DEFINE i == p + 1
               k == p + 2
    <3>3. /\ i \in Nat /\ k \in i .. Len(d) - 1 /\ d[k] = CR /\ d[k + 1] = LF
          /\ \A j \in i .. k - 1 : d[j] # CR /\ d[j] # LF
      <4>1. i \in Nat /\ k \in i .. Len(d) - 1
        BY <3>1 DEF L
      <4>2. d[k] = CR /\ d[k + 1] = LF
        BY <2>1, <3>1
      <4>3. \A j \in i .. k - 1 : d[j] # CR /\ d[j] # LF
        <5>1. SUFFICES ASSUME NEW j \in i .. k - 1 PROVE d[j] # CR /\ d[j] # LF
          OBVIOUS
        <5>2. j = p + 1
          BY <1>n
        <5> QED
          BY <2>1, <5>2 DEF CR, LF
      <4> HIDE DEF i, k
      <4> QED
        BY <4>1, <4>2, <4>3
    <3> HIDE DEF i, k
    <3>4. FindCRLF(d, i) = k + 1
      BY <3>3, LineFound
    <3> QED
      BY <3>1, <3>4 DEF nl, i, k
  <2>3. line = {p + 1}
    <3>1. p + 3 - 2 = p + 1
      BY <1>n
    <3>a. line = Line(d, p + 1, p + 3)
      BY <2>2 DEF line
    <3> DEFINE i == p + 1
               nl3 == p + 3
    <3>b. i = nl3 - 2
      BY <1>n
    <3> HIDE DEF i, nl3
    <3>c. \A k : k \in Line(d, i, nl3) <=> k \in i .. i /\ d[k] # CR
      BY <3>b, LineDef
    <3>2. \A k : k \in line <=> k \in p + 1 .. p + 1 /\ d[k] # CR
      BY <3>a, <3>c DEF i, nl3
    <3>3. \A k \in p + 1 .. p + 1 : k = p + 1
      BY <1>n
    <3>4. p + 1 \in p + 1 .. p + 1 /\ d[p + 1] # CR
      BY <1>n, <2>1 DEF CR
    <3> QED
      BY <3>2, <3>3, <3>4
  <2>4. first = <<"size", z>> /\ first[1] = "size" /\ size = z
    <3> DEFINE k == p + 1
               one == {p + 1}
    <3>a. k \in Int /\ one \subseteq Int /\ k \in one /\ \A y \in one : k <= y
      BY <1>n
    <3> HIDE DEF k, one
    <3>b. Min(one) = k
      BY <3>a, MinIs
    <3>1. Min({p + 1}) = p + 1
      BY <3>b DEF k, one
    <3>2. first = d[p + 1]
      BY <2>3, <3>1, Zenon DEF first
    <3> QED
      BY <2>1, <3>2 DEF size
  <2>5. CASE z = 0
    <3>1. CASE L <= p + 4
      <4>1. ASSUME NEW k \in p + 4 .. L - 1 PROVE ~(d[k] = CR /\ d[k + 1] = LF)
        BY <1>n, <3>1
      <4>2. nl + 1 = p + 4
        BY <1>n, <2>2
      <4>b. FindCRLF(d, p + 4) = 0
        BY <4>1, NoLine DEF L
      <4>3. rest = 0
        BY <4>2, <4>b DEF rest
      <4>4. p # L /\ nl # 0
        BY <1>n, <1>5, <2>2
      <4>5. ChunkTurn(d, x) = Short(x, nl)
        BY <1>3, <2>3, <2>4, <2>5, <4>3, <4>4
      <4> QED
        BY <1>0, <1>5, <2>2, <4>5 DEF TakesChunk
    <3>2. CASE L >= p + 5
      <4>1. d[p + 4] = CR /\ d[p + 5] = LF
        <5>1. /\ 4 \in 1 .. z + 5 /\ 5 \in 1 .. z + 5 /\ p + 4 <= L /\ p + 5 <= L
              /\ u + p + z + 4 = u + p + 4 /\ u + p + z + 5 = u + p + 5
          BY <1>n, <2>5, <3>2
        <5> QED
          BY <1>1, <1>2, <5>1
      <4>2. nl + 1 = p + 4 /\ p + 4 \in Nat /\ p + 4 \in p + 4 .. L - 1 /\ p + 4 + 1 = p + 5
        BY <1>n, <2>2, <3>2
      <4>3. \A j \in p + 4 .. p + 4 - 1 : d[j] # CR /\ d[j] # LF
        BY <1>n
      <4> DEFINE i == p + 4
      <4>a. /\ i \in Nat /\ i \in i .. Len(d) - 1 /\ d[i] = CR /\ d[i + 1] = LF
            /\ \A j \in i .. i - 1 : d[j] # CR /\ d[j] # LF
        BY <4>1, <4>2, <4>3 DEF L
      <4> HIDE DEF i
      <4>b. FindCRLF(d, i) = i + 1
        BY <4>a, LineFound
      <4>4. FindCRLF(d, p + 4) = p + 4 + 1
        BY <4>b DEF i
      <4>5. rest = p + 5
        BY <4>2, <4>4 DEF rest
      <4>6. Line(d, nl + 1, rest) = {}
        <5>2. Line(d, p + 4, p + 5) = {}
          <6> DEFINE from == p + 4
                     nl5 == p + 5
                     e == nl5 - 2
          <6>0. e = nl5 - 2 /\ \A k \in from .. e : FALSE
            BY <1>n
          <6> HIDE DEF from, nl5, e
          <6>1. \A k : k \in Line(d, from, nl5) <=> k \in from .. e /\ d[k] # CR
            BY <6>0, LineDef
          <6>2. Line(d, from, nl5) = {}
            BY <6>0, <6>1
          <6> QED
            BY <6>2 DEF from, nl5
        <5> QED
          BY <4>2, <4>5, <5>2
      <4>7. p # L /\ nl # 0 /\ rest # 0
        BY <1>n, <1>5, <2>2, <4>5
      <4>8. ChunkTurn(d, x) = [x EXCEPT !.at = rest, !.out = "last"]
        BY <1>3, <2>3, <2>4, <2>5, <4>6, <4>7
      <4> QED
        BY <1>0, <2>5, <3>2, <4>5, <4>8 DEF TakesChunk
    <3> QED
      BY <1>n, <3>1, <3>2
  <2>6. CASE z # 0
    <3>0. p # L /\ nl # 0 /\ line # {}
      BY <1>n, <1>5, <2>2, <2>3
    <3>1. CASE L - nl < z + 2
      <4>1. ChunkTurn(d, x) = Short(x, nl)
        BY <1>3, <2>4, <2>6, <3>0, <3>1
      <4> QED
        BY <1>0, <1>5, <2>2, <4>1 DEF TakesChunk
    <3>2. CASE ~(L - nl < z + 2)
      <4>1. L >= p + z + 5
        BY <1>n, <2>2, <3>2
      <4>2. d[p + z + 4] = CR /\ d[p + z + 5] = LF
        <5>1. /\ z + 4 \in 1 .. z + 5 /\ z + 5 \in 1 .. z + 5 /\ p + (z + 4) <= L /\ p + (z + 5) <= L
              /\ u + p + (z + 4) = u + p + z + 4 /\ u + p + (z + 5) = u + p + z + 5
              /\ p + (z + 4) = p + z + 4 /\ p + (z + 5) = p + z + 5
          BY <1>n, <4>1
        <5>2. d[p + (z + 4)] = w[u + p + (z + 4)] /\ d[p + (z + 5)] = w[u + p + (z + 5)]
          BY <1>2, <5>1
        <5> QED
          BY <1>1, <5>1, <5>2
      <4>3. SubSeq(d, nl + z + 1, nl + z + 2) = <<CR, LF>>
        <5> DEFINE a == nl + z + 1
                   b == nl + z + 2
        <5>1. a = p + z + 4 /\ b = p + z + 5 /\ a \in Int /\ b \in Int /\ a <= b /\ b - a + 1 = 2
          BY <1>n, <2>2
        <5>2. \A i \in a .. b : d[i] \in Units
          <6>1. \A i \in a .. b : i \in 1 .. L
            BY <1>n, <4>1, <5>1
          <6> QED
            BY <6>1 DEF L
        <5> HIDE DEF a, b
        <5>0. a \in Int /\ b \in Int
          BY <5>1
        <5>a. /\ SubSeq(d, a, b) \in Seq(Units)
              /\ Len(SubSeq(d, a, b)) = IF a <= b THEN b - a + 1 ELSE 0
              /\ \A i \in 1 .. b - a + 1 : SubSeq(d, a, b)[i] = d[a + i - 1]
          BY <5>0, <5>2, SubSeqProperties
        <5>3. /\ SubSeq(d, a, b) \in Seq(Units) /\ Len(SubSeq(d, a, b)) = b - a + 1
              /\ \A i \in 1 .. b - a + 1 : SubSeq(d, a, b)[i] = d[a + i - 1]
          BY <5>1, <5>a
        <5>4. SubSeq(d, a, b)[1] = CR /\ SubSeq(d, a, b)[2] = LF
          <6>1. a + 1 - 1 = p + z + 4 /\ a + 2 - 1 = p + z + 5
            BY <1>n, <5>1
          <6>2. 1 \in 1 .. b - a + 1 /\ 2 \in 1 .. b - a + 1
            BY <5>1
          <6> QED
            BY <4>2, <5>3, <6>1, <6>2
        <5> DEFINE pair == <<CR, LF>>
        <5>5. pair \in Seq(Units) /\ Len(pair) = 2 /\ pair[1] = CR /\ pair[2] = LF
          BY UnitKinds
        <5> HIDE DEF pair
        <5>6. Len(SubSeq(d, a, b)) = Len(pair)
          BY <5>1, <5>3, <5>5
        <5>7. ASSUME NEW i \in 1 .. Len(SubSeq(d, a, b)) PROVE SubSeq(d, a, b)[i] = pair[i]
          <6>1. i = 1 \/ i = 2
            BY <5>5, <5>6
          <6> QED
            BY <5>4, <5>5, <6>1
        <5> QED
          BY <5>3, <5>5, <5>6, <5>7, SeqEqual DEF a, b, pair
      <4>4. SubSeq(d, nl + 1, nl + z) = Bytes(m, byte, byte + z)
        <5> DEFINE a == nl + 1
                   b == nl + z
        <5>1. a = p + 4 /\ b = p + z + 3 /\ a \in Int /\ b \in Int /\ a <= b /\ b - a + 1 = z
          BY <1>n, <2>2, <2>6
        <5>2. \A i \in a .. b : d[i] \in Units
          <6>1. \A i \in a .. b : i \in 1 .. L
            BY <1>n, <4>1, <5>1
          <6> QED
            BY <6>1 DEF L
        <5> HIDE DEF a, b
        <5>a. /\ SubSeq(d, a, b) \in Seq(Units)
              /\ Len(SubSeq(d, a, b)) = IF a <= b THEN b - a + 1 ELSE 0
              /\ \A i \in 1 .. b - a + 1 : SubSeq(d, a, b)[i] = d[a + i - 1]
          <6>1. a \in Int /\ b \in Int
            BY <5>1
          <6> QED
            BY <5>2, <6>1, SubSeqProperties
        <5>3. /\ SubSeq(d, a, b) \in Seq(Units) /\ Len(SubSeq(d, a, b)) = z
              /\ \A i \in 1 .. z : SubSeq(d, a, b)[i] = d[a + i - 1]
          BY <5>1, <5>a
        <5> DEFINE e == byte + z
        <5>5. e \in Nat /\ byte <= e /\ e - byte = z
          BY <1>n
        <5> HIDE DEF e
        <5>6. /\ Bytes(m, byte, e) \in Seq(Units) /\ Len(Bytes(m, byte, e)) = e - byte
              /\ \A i \in 1 .. e - byte : Bytes(m, byte, e)[i] = <<"b", <<m.id, byte + i>>>>
          BY <5>5, BytesDef
        <5>7. ASSUME NEW i \in 1 .. z PROVE SubSeq(d, a, b)[i] = Bytes(m, byte, e)[i]
          <6>1. /\ a + i - 1 = p + (3 + i) /\ 3 + i \in 1 .. z + 5 /\ p + (3 + i) <= L
                /\ u + p + (3 + i) = u + p + 3 + i
            BY <1>n, <4>1, <5>1
          <6>2. d[p + (3 + i)] = w[u + p + (3 + i)]
            BY <1>2, <6>1
          <6>3. w[u + p + 3 + i] = <<"b", <<m.id, byte + i>>>>
            BY <1>1
          <6>4. Bytes(m, byte, e)[i] = <<"b", <<m.id, byte + i>>>>
            BY <5>5, <5>6
          <6> QED
            BY <5>3, <6>1, <6>2, <6>3, <6>4
        <5>8. SubSeq(d, a, b) = Bytes(m, byte, e)
          BY <5>3, <5>5, <5>6, <5>7, SeqEqual
        <5> QED
          BY <5>8 DEF a, b, e
      <4>5. ChunkTurn(d, x) = [x EXCEPT !.at = nl + z + 2, !.parsed = TRUE,
                                       !.body = @ \o SubSeq(d, nl + 1, nl + z)]
        BY <1>3, <2>4, <2>6, <3>0, <3>2, <4>3
      <4>6. nl + z + 2 = p + z + 5
        BY <1>n, <2>2
      <4> QED
        BY <1>0, <2>6, <4>1, <4>4, <4>5, <4>6 DEF TakesChunk
    <3> QED
      BY <3>1, <3>2
  <2> QED
    BY <2>5, <2>6
<1> QED
  <2>1. L <= p + 2 \/ L >= p + 3
    BY <1>n
  <2> QED
    BY <1>4, <1>5, <2>1

(* Without its size line, a chunk is never taken: the line the turn finds, *)
(* if there is one, is no size.                                            *)
LEMMA CutChunkTurn ==
  ASSUME NEW d \in Seq(Units), NEW w, NEW at \in Nat, Agrees(d, w, at + 3), Len(w) \in Nat,
         NEW x \in Loops, x.at = 0, x.parsed = FALSE, NEW id, NEW z, NEW byte \in Nat,
         ChunkAt(w, at, z, id, byte)
  PROVE  \/ ChunkTurn(d, x) = Short(x, 0)
         \/ ChunkTurn(d, x) = [x EXCEPT !.out = "kChunkSizeConvertError"]
<1> DEFINE L == Len(d)
<1>0. L \in Nat /\ L = Len(d)
  OBVIOUS
<1>z. z \in Nat /\ at + z + 5 <= Len(w)
  BY DEF ChunkAt
<1>1. /\ \A i \in 1 .. z : w[at + 3 + i] = <<"b", <<id, byte + i>>>>
      /\ w[at + z + 4] = CR /\ w[at + z + 5] = LF
  BY DEF ChunkAt
<1> DEFINE nl    == FindCRLF(d, 0 + 1)
           line  == Line(d, 0 + 1, nl)
           first == d[Min(line)]
<1>3. \/ ChunkTurn(d, x) = Short(x, 0)
      \/ nl # 0 /\ ~(line = {} \/ first[1] # "size")
      \/ ChunkTurn(d, x) = [x EXCEPT !.out = "kChunkSizeConvertError"]
  BY DEF ChunkTurn, Short
<1> HIDE DEF L, line, first, nl
<1>4. ASSUME NEW j \in 1 .. z + 2, j <= L PROVE d[j] = w[at + 3 + j]
  <2>1. j \in 1 .. L /\ at + 3 + j <= Len(w)
    BY <1>0, <1>z, <1>4
  <2> QED
    BY <2>1 DEF Agrees, L
<1>5. ASSUME NEW j \in 1 .. z, j <= L PROVE d[j][1] = "b" /\ d[j] # CR /\ d[j] # LF
  <2>1. j \in 1 .. z + 2
    BY <1>z
  <2>2. d[j] = <<"b", <<id, byte + j>>>>
    BY <1>1, <1>4, <1>5, <2>1
  <2> QED
    BY <2>2 DEF CR, LF
<1>6. CASE L < z + 2
  <2>1. ASSUME NEW k \in 1 .. L - 1 PROVE ~(d[k] = CR /\ d[k + 1] = LF)
    <3>1. k \in 1 .. z /\ k <= L
      BY <1>0, <1>z, <1>6
    <3> QED
      BY <1>5, <3>1
  <2>2. 0 + 1 = 1
    OBVIOUS
  <2>3. FindCRLF(d, 1) = 0
    BY <2>1, NoLine DEF L
  <2>4. nl = 0
    BY <2>2, <2>3 DEF nl
  <2> QED
    BY <1>3, <2>4
<1>7. CASE L >= z + 2
  <2>1. d[z + 1] = CR /\ d[z + 2] = LF
    <3>1. /\ z + 1 \in 1 .. z + 2 /\ z + 2 \in 1 .. z + 2 /\ z + 1 <= L /\ z + 2 <= L
          /\ at + 3 + (z + 1) = at + z + 4 /\ at + 3 + (z + 2) = at + z + 5
      BY <1>0, <1>z, <1>7
    <3> QED
      BY <1>1, <1>4, <3>1
  <2> DEFINE k == z + 1
  <2>2. k \in 1 .. L - 1 /\ k + 1 = z + 2 /\ 1 \in Nat
    BY <1>0, <1>z, <1>7
  <2>3. ASSUME NEW j \in 1 .. k - 1 PROVE d[j] # CR /\ d[j] # LF
    <3>1. j \in 1 .. z /\ j <= L
      BY <1>0, <1>z, <1>7
    <3> QED
      BY <1>5, <3>1
  <2>4. d[k] = CR /\ d[k + 1] = LF
    BY <2>1, <2>2
  <2> HIDE DEF k
  <2>5. FindCRLF(d, 1) = k + 1
    BY <2>2, <2>3, <2>4, LineFound DEF L
  <2>6. 0 + 1 = 1
    OBVIOUS
  <2>7. nl = z + 2
    BY <2>2, <2>5, <2>6 DEF nl
  <2> DEFINE end == z + 2
  <2>8. z = end - 2
    BY <1>z
  <2>9. line = Line(d, 1, end)
    BY <2>6, <2>7 DEF line
  <2> HIDE DEF end
  <2>10. \A i : i \in line <=> i \in 1 .. z /\ d[i] # CR
    BY <2>8, <2>9, LineDef
  <2>11. CASE z = 0
    <3>1. line = {}
      BY <2>10, <2>11
    <3> QED
      BY <1>3, <3>1
  <2>12. CASE z # 0
    <3>1. 1 \in 1 .. z /\ 1 <= L
      BY <1>0, <1>z, <1>7, <2>12
    <3>2. 1 \in line /\ line \subseteq Int /\ \A y \in line : 1 <= y
      BY <1>5, <2>10, <3>1
    <3>3. Min(line) = 1
      BY <3>2, MinIs
    <3>4. first = d[1]
      BY <3>3 DEF first
    <3>5. first[1] = "b"
      BY <1>5, <3>1, <3>4
    <3> QED
      BY <1>3, <3>5
  <2> QED
    BY <2>11, <2>12
<1>8. L < z + 2 \/ L >= z + 2
  BY <1>0, <1>z
<1> QED
  BY <1>6, <1>7, <1>8

Begin == [at |-> 0, body |-> <<>>, parsed |-> FALSE, out |-> "go"]

(* What holds at first and after each turn holds in the end.               *)
LEMMA ChunkLoop ==
  ASSUME NEW X, NEW d, Len(d) \in Nat, Begin \in X, \A x \in X : GoOn(d, x) \in X
  PROVE  ChunkFromIOVec(d) \in X
<1> DEFINE n == Len(d)
<1> DEFINE G == [i \in 1 .. n |-> [x \in X |-> GoOn(d, x)]]
<1> DEFINE turns[k \in 0 .. n] == IF k = 0 THEN Begin ELSE GoOn(d, turns[k - 1])
<1>0. n \in Nat /\ Begin \in X
  OBVIOUS
<1>1. G \in [1 .. n -> [X -> X]]
  OBVIOUS
<1>2. PICK f : Iterated(f, X, n, Begin, G)
  <2> HIDE DEF n, G
  <2> QED
    BY <1>0, <1>1, RecursiveSequence, Zenon
<1>3. /\ f \in [0 .. n -> X] /\ f[0] = Begin
      /\ \A k \in 1 .. n : f[k] = GoOn(d, f[k - 1])
  <2>1. f \in [0 .. n -> X] /\ f[0] = Begin
    BY <1>2 DEF Iterated
  <2>2. ASSUME NEW k \in 1 .. n PROVE f[k] = GoOn(d, f[k - 1])
    <3>1. f[k - 1] \in X
      <4> HIDE DEF n
      <4>1. k - 1 \in 0 .. n
        BY <1>0
      <4> QED
        BY <2>1, <4>1
    <3>2. f[k] = G[k][f[k - 1]]
      BY <1>2 DEF Iterated
    <3> HIDE DEF n
    <3> QED
      BY <3>1, <3>2
  <2> QED
    BY <2>1, <2>2
<1>4. f = [k \in 0 .. n |-> IF k = 0 THEN Begin ELSE GoOn(d, f[k - 1])]
  <2> HIDE DEF n
  <2>1. \A k \in 0 .. n : k # 0 => k \in 1 .. n
    BY <1>0
  <2>2. \A k \in 0 .. n : f[k] = IF k = 0 THEN Begin ELSE GoOn(d, f[k - 1])
    BY <1>3, <2>1, Zenon
  <2>3. f = [k \in 0 .. n |-> f[k]]
    BY <1>3
  <2> QED
    BY <2>2, <2>3, Zenon
<1>5. turns = [k \in 0 .. n |-> IF k = 0 THEN Begin ELSE GoOn(d, turns[k - 1])]
  <2> HIDE DEF n
  <2> QED
    BY <1>4, Zenon
<1>6. ChunkFromIOVec(d) = turns[n]
  BY DEF ChunkFromIOVec, Begin
<1> HIDE DEF turns
<1>7. turns[0] = Begin /\ \A k \in 1 .. n : turns[k] = GoOn(d, turns[k - 1])
  <2> HIDE DEF n
  <2>1. 0 \in 0 .. n /\ \A k \in 1 .. n : k # 0 /\ k \in 0 .. n
    BY <1>0
  <2>2. \A k \in 0 .. n : turns[k] = IF k = 0 THEN Begin ELSE GoOn(d, turns[k - 1])
    BY <1>5, Zenon
  <2> QED
    BY <2>1, <2>2, Zenon
<1> DEFINE S == {k \in 0 .. n : turns[k] \in X}
<1>8. ASSUME NEW k \in 1 .. n, k - 1 \in S PROVE k \in S
  <2> HIDE DEF n
  <2>1. k \in 0 .. n /\ turns[k - 1] \in X
    BY <1>0, <1>8
  <2> QED
    BY <1>7, <2>1
<1>9. 0 \in S
  <2> HIDE DEF n
  <2> QED
    BY <1>0, <1>7
<1>10. n \in S
  <2> HIDE DEF n, S
  <2>1. 0 + 1 = 1 /\ n \in 0 .. n
    BY <1>0
  <2>2. \A k \in 0 .. n : k \in S
    BY <1>0, <1>8, <1>9, <2>1, FromTo
  <2> QED
    BY <2>1, <2>2
<1> QED
  BY <1>6, <1>10

(* How far a loop is that began behind unit u of the wire of m, at chunk c: *)
(* before chunk n, with the bytes of the chunks from c up to n; or n's size *)
(* line is taken, too.                                                      *)
Chunked(x, d, m, u, c) ==
  \E n \in Numbers(m) :
    /\ ChunkEnds(m)[c - 1] <= ChunkEnds(m)[n - 1]
    /\ x.body = Bytes(m, ChunkEnds(m)[c - 1], ChunkEnds(m)[n - 1])
    /\ x.out = "go" => x.at <= Len(d) /\ u + x.at = Start(m, n)
    /\ x.out = "some" => x.at <= Len(d) /\ u + x.at \in {Start(m, n), Start(m, n) + 3}
    /\ x.out = "last" => /\ x.at <= Len(d) /\ u + x.at = Len(Wire(m))
                         /\ ChunkEnds(m)[n - 1] = Total(m)

LEMMA ChunkedStep ==
  ASSUME NEW d \in Seq(Units), NEW m \in Messages, m.framing = "chunked",
         NEW c \in Numbers(m), NEW u \in Nat, Agrees(d, Wire(m), u),
         NEW x \in Loops, Chunked(x, d, m, u, c)
  PROVE  GoOn(d, x) \in Loops /\ Chunked(GoOn(d, x), d, m, u, c)
<1>1. CASE x.out # "go"
  BY <1>1 DEF GoOn
<1>2. CASE x.out = "go"
  <2>1. PICK n \in Numbers(m) :
          /\ ChunkEnds(m)[c - 1] <= ChunkEnds(m)[n - 1]
          /\ x.body = Bytes(m, ChunkEnds(m)[c - 1], ChunkEnds(m)[n - 1])
          /\ x.at <= Len(d) /\ u + x.at = Start(m, n)
    BY <1>2 DEF Chunked
  <2> DEFINE w == Wire(m)
             z == Size(m, n)
             from == ChunkEnds(m)[c - 1]
             byte == ChunkEnds(m)[n - 1]
             p == x.at
             y == ChunkTurn(d, x)
  <2>2. /\ n \in Nat /\ z \in Nat /\ byte \in Nat /\ Start(m, n) \in Nat
        /\ z = 0 => byte = Total(m) /\ Len(w) = Start(m, n) + 5
        /\ z # 0 => \E k \in Numbers(m) : /\ Start(m, k) = Start(m, n) + z + 5
                                          /\ ChunkEnds(m)[k - 1] = byte + z
    BY NextStart
  <2>3. from \in Nat
    BY NextStart
  <2>4. w \in Seq(Units) /\ ChunkAt(w, u + p, z, m.id, byte)
    BY <2>1, WireDef
  <2>5. GoOn(d, x) = y
    BY <1>2 DEF GoOn
  <2>6. p \in Nat /\ Len(d) \in Nat /\ Len(w) \in Nat /\ x.body \in Seq(Units)
        /\ x.parsed \in BOOLEAN /\ x.body = Bytes(m, from, byte) /\ from <= byte
        /\ p <= Len(d) /\ u + p = Start(m, n)
    BY <2>1, <2>4 DEF Loops
  <2>a. Agrees(d, w, u)
    OBVIOUS
  <2> HIDE DEF w, z, byte, from
  <2>b. x.at <= Len(d) /\ ChunkAt(w, u + x.at, z, m.id, byte) /\ Len(w) \in Nat /\ byte \in Nat
    BY <2>2, <2>4, <2>6
  <2>c. TakesChunk(y, d, x, m, z, byte)
    BY <2>a, <2>b, ChunkTurnDef
  <2> HIDE DEF y
  <2>7. \/ y = Short(x, p)
        \/ y = Short(x, p + 3) /\ p + 3 <= Len(d)
        \/ /\ z = 0 /\ p + 5 <= Len(d)
           /\ y = [x EXCEPT !.at = p + 5, !.out = "last"]
        \/ /\ z # 0 /\ p + z + 5 <= Len(d)
           /\ y = [x EXCEPT !.at = p + z + 5, !.parsed = TRUE, !.body = @ \o Bytes(m, byte, byte + z)]
    BY <2>c DEF TakesChunk
  <2> HIDE DEF p
  <2>p. p = x.at
    BY DEF p
  <2>8. CASE \E at \in {p, p + 3} : at <= Len(d) /\ y = Short(x, at)
    <3>1. PICK at \in {p, p + 3} : at <= Len(d) /\ y = Short(x, at)
      BY <2>8
    <3>2. at \in Nat /\ u + at \in {Start(m, n), Start(m, n) + 3}
      <4>1. CASE at = p
        BY <2>2, <2>6, <4>1
      <4>2. CASE at = p + 3
        BY <2>2, <2>6, <4>2
      <4> QED
        BY <3>1, <4>1, <4>2
    <3>3. /\ y \in Loops /\ y.at = at /\ y.body = x.body /\ y.out \in {"some", "kIncomplete"}
      BY <3>1, <3>2 DEF Short, Loops, Outs
    <3>4. Chunked(y, d, m, u, c)
      BY <2>6, <3>1, <3>2, <3>3 DEF Chunked, byte, from
    <3> QED
      BY <2>5, <3>3, <3>4
  <2>9. CASE /\ z = 0 /\ p + 5 <= Len(d)
             /\ y = [x EXCEPT !.at = p + 5, !.out = "last"]
    <3>1. p + 5 \in Nat /\ u + (p + 5) = Len(w) /\ byte = Total(m)
      BY <2>2, <2>6, <2>9
    <3>2. y \in Loops /\ y.at = p + 5 /\ y.body = x.body /\ y.out = "last"
      BY <2>9, <3>1 DEF Loops, Outs
    <3>3. Chunked(y, d, m, u, c)
      BY <2>6, <2>9, <3>1, <3>2 DEF Chunked, byte, from, w
    <3> QED
      BY <2>5, <3>2, <3>3
  <2>10. CASE /\ z # 0 /\ p + z + 5 <= Len(d)
              /\ y = [x EXCEPT !.at = p + z + 5, !.parsed = TRUE, !.body = @ \o Bytes(m, byte, byte + z)]
    <3> DEFINE e == byte + z
    <3>1. e \in Nat /\ byte <= e /\ from <= e
      BY <2>2, <2>3, <2>6
    <3>2. PICK k \in Numbers(m) : Start(m, k) = Start(m, n) + z + 5 /\ ChunkEnds(m)[k - 1] = e
      BY <2>2, <2>10
    <3>3. y = [x EXCEPT !.at = p + z + 5, !.parsed = TRUE, !.body = @ \o Bytes(m, byte, e)]
      BY <2>10
    <3> HIDE DEF e
    <3>4. /\ Bytes(m, from, byte) \o Bytes(m, byte, e) = Bytes(m, from, e)
          /\ Bytes(m, from, e) \in Seq(Units)
      <4>1. from \in Nat /\ byte \in Nat /\ e \in Nat /\ from <= byte /\ byte <= e /\ from <= e
        BY <2>2, <2>3, <2>6, <3>1
      <4>2. Bytes(m, from, byte) \o Bytes(m, byte, e) = Bytes(m, from, e)
        BY <4>1, BytesJoin, Zenon
      <4>3. Bytes(m, from, e) \in Seq(Units)
        BY <4>1, BytesDef, Zenon
      <4> QED
        BY <4>2, <4>3
    <3>5. p + z + 5 \in Nat /\ u + (p + z + 5) = Start(m, n) + z + 5
      BY <2>2, <2>6
    <3>6. /\ y \in Loops /\ y.at = p + z + 5 /\ y.body = Bytes(m, from, e) /\ y.out = "go"
      BY <1>2, <2>6, <3>3, <3>4, <3>5 DEF Loops
    <3>7. Chunked(y, d, m, u, c)
      BY <2>10, <3>1, <3>2, <3>5, <3>6 DEF Chunked, from
    <3> QED
      BY <2>5, <3>6, <3>7
  <2> QED
    BY <2>6, <2>7, <2>8, <2>9, <2>10
<1> QED
  BY <1>1, <1>2

LEMMA ChunksTaken ==
  ASSUME NEW d \in Seq(Units), NEW m \in Messages, m.framing = "chunked",
         NEW c \in Numbers(m), NEW u \in Nat, u = Start(m, c), Agrees(d, Wire(m), u)
  PROVE  /\ ChunkFromIOVec(d) \in Loops
         /\ Chunked(ChunkFromIOVec(d), d, m, u, c)
<1> DEFINE X == {x \in Loops : Chunked(x, d, m, u, c)}
<1> DEFINE from == ChunkEnds(m)[c - 1]
<1>1. Begin \in X
  <2>1. from \in Nat /\ from <= from
    BY NextStart
  <2> HIDE DEF from
  <2>2. Bytes(m, from, from) \in Seq(Units) /\ Len(Bytes(m, from, from)) = from - from
    BY <2>1, BytesDef
  <2>3. Bytes(m, from, from) = <<>>
    BY <2>1, <2>2
  <2>4. u + 0 = Start(m, c) /\ 0 <= Len(d)
    OBVIOUS
  <2>5. Begin \in Loops /\ Begin.at = 0 /\ Begin.body = <<>> /\ Begin.out = "go"
    BY DEF Begin, Loops, Outs
  <2>6. Chunked(Begin, d, m, u, c)
    BY <2>1, <2>3, <2>4, <2>5 DEF Chunked, from
  <2> QED
    BY <2>5, <2>6
<1>2. \A x \in X : GoOn(d, x) \in X
  BY ChunkedStep
<1>3. Len(d) \in Nat
  OBVIOUS
<1>4. ChunkFromIOVec(d) \in X
  <2> HIDE DEF X
  <2> QED
    BY <1>1, <1>2, <1>3, ChunkLoop
<1> QED
  BY <1>4

LEMMA CutChunkNeverTaken ==
  ASSUME NEW d \in Seq(Units), NEW m \in Messages, m.framing = "chunked",
         NEW c \in Numbers(m), NEW u \in Nat, u = Start(m, c) + 3, Agrees(d, Wire(m), u)
  PROVE  ChunkFromIOVec(d).out \in Outs \ {"some", "last"}
<1> DEFINE X == {x \in Loops : /\ x.out \in Outs \ {"some", "last"}
                               /\ x.out = "go" => x.at = 0 /\ x.parsed = FALSE}
           w == Wire(m)
           at == Start(m, c)
           z == Size(m, c)
           byte == ChunkEnds(m)[c - 1]
<1>1. Begin \in X
  BY DEF Begin, Loops, Outs
<1>2. w \in Seq(Units) /\ at \in Nat /\ byte \in Nat /\ ChunkAt(w, at, z, m.id, byte) /\ Agrees(d, w, at + 3)
  BY WireDef, NextStart
<1> HIDE DEF w, at, z, byte
<1>3. ASSUME NEW x \in X PROVE GoOn(d, x) \in X
  <2>1. CASE x.out # "go"
    BY <2>1 DEF GoOn
  <2>2. CASE x.out = "go"
    <3>1. x \in Loops /\ x.at = 0 /\ x.parsed = FALSE
      BY <2>2
    <3>2. Len(w) \in Nat
      BY <1>2
    <3>3. \/ ChunkTurn(d, x) = Short(x, 0)
          \/ ChunkTurn(d, x) = [x EXCEPT !.out = "kChunkSizeConvertError"]
      BY <1>2, <3>1, <3>2, CutChunkTurn
    <3>4. Short(x, 0) \in X /\ [x EXCEPT !.out = "kChunkSizeConvertError"] \in X
      BY <3>1 DEF Short, Loops, Outs
    <3> QED
      BY <2>2, <3>3, <3>4 DEF GoOn
  <2> QED
    BY <2>1, <2>2
<1>4. Len(d) \in Nat
  OBVIOUS
<1>5. ChunkFromIOVec(d) \in X
  <2> HIDE DEF X
  <2> QED
    BY <1>1, <1>3, <1>4, ChunkLoop
<1> QED
  BY <1>5

-----------------------------------------------------------------------------
(***************************************************************************)
(* Messages out of the ring.                                               *)
(***************************************************************************)

(* Parsers that have the header of m and some of its body.                 *)
LengthParser(m, body, need) ==
  [header |-> "parsed", head |-> m, body |-> body, need |-> need, chunked |-> FALSE]

ChunkParser(m, body) ==
  [header |-> "parsed", head |-> m, body |-> body, need |-> 0, chunked |-> TRUE]

InLength(p, m, u) ==
  \E n \in 0 .. Total(m) : p = LengthParser(m, Bytes(m, 0, n), Total(m)) /\ u = 2 + n

(* A chunk whose size line is gone is never taken.                         *)
InChunks(p, m, u) ==
  \E n \in Numbers(m) :
    /\ p = ChunkParser(m, Bytes(m, 0, ChunkEnds(m)[n - 1]))
    /\ u \in {Start(m, n), Start(m, n) + 3}

InBody(p, m, u) ==
  IF m.framing = "chunked" THEN InChunks(p, m, u) ELSE InLength(p, m, u)

(* p has taken the first u units of m, or all of them.                     *)
Parsing(p, m, u) ==
  \/ u = 0 /\ p = FreshParser
  \/ u = 1 /\ p = [FreshParser EXCEPT !.header = "inside", !.head = m]
  \/ InBody(p, m, u) /\ ~IsComplete(p)

Whole(p, m, u) ==
  IsComplete(p) /\ p.head = m /\ p.body = BodyOf(m) /\ u = Len(Wire(m))

(* What parsing the body makes of them.                                    *)
WithBytes(p, b)   == [p EXCEPT !.body = b]
WithChunks(p, b)  == [p EXCEPT !.body = b, !.chunked = TRUE, !.need = 0]
WithAll(p, b, n)  == [p EXCEPT !.body = b, !.chunked = FALSE, !.need = n]

LEMMA MoreOfLength ==
  ASSUME NEW m, NEW a, NEW b, NEW n, NEW p, p = LengthParser(m, a, n)
  PROVE  WithBytes(p, b) = LengthParser(m, b, n)
<1> DEFINE f == WithBytes(p, b)
           g == LengthParser(m, b, n)
           fields == {"header", "head", "body", "need", "chunked"}
<1>1. DOMAIN f = fields /\ DOMAIN g = fields
  BY DEF WithBytes, LengthParser, ChunkParser
<1>2. /\ f.header = g.header /\ f.head = g.head /\ f.body = g.body
      /\ f.need = g.need /\ f.chunked = g.chunked
  BY DEF WithBytes, LengthParser, ChunkParser
<1>3. f = [x \in DOMAIN f |-> f[x]] /\ g = [x \in DOMAIN g |-> g[x]]
  BY DEF WithBytes, LengthParser, ChunkParser
<1> HIDE DEF f, g
<1>4. \A x \in DOMAIN f : f[x] = g[x]
  BY <1>1, <1>2
<1>5. f = g
  BY <1>1, <1>3, <1>4, Zenon
<1> QED
  BY <1>5 DEF f, g

LEMMA MoreChunks ==
  ASSUME NEW m, NEW a, NEW b, NEW p, p = ChunkParser(m, a)
  PROVE  WithChunks(p, b) = ChunkParser(m, b)
<1> DEFINE f == WithChunks(p, b)
           g == ChunkParser(m, b)
           fields == {"header", "head", "body", "need", "chunked"}
<1>1. DOMAIN f = fields /\ DOMAIN g = fields
  BY DEF WithChunks, LengthParser, ChunkParser
<1>2. /\ f.header = g.header /\ f.head = g.head /\ f.body = g.body
      /\ f.need = g.need /\ f.chunked = g.chunked
  BY DEF WithChunks, LengthParser, ChunkParser
<1>3. f = [x \in DOMAIN f |-> f[x]] /\ g = [x \in DOMAIN g |-> g[x]]
  BY DEF WithChunks, LengthParser, ChunkParser
<1> HIDE DEF f, g
<1>4. \A x \in DOMAIN f : f[x] = g[x]
  BY <1>1, <1>2
<1>5. f = g
  BY <1>1, <1>3, <1>4, Zenon
<1> QED
  BY <1>5 DEF f, g

LEMMA NoMoreChunks ==
  ASSUME NEW m, NEW a, NEW b, NEW n, NEW p, p = ChunkParser(m, a)
  PROVE  WithAll(p, b, n) = LengthParser(m, b, n)
<1> DEFINE f == WithAll(p, b, n)
           g == LengthParser(m, b, n)
           fields == {"header", "head", "body", "need", "chunked"}
<1>1. DOMAIN f = fields /\ DOMAIN g = fields
  BY DEF WithAll, LengthParser, ChunkParser
<1>2. /\ f.header = g.header /\ f.head = g.head /\ f.body = g.body
      /\ f.need = g.need /\ f.chunked = g.chunked
  BY DEF WithAll, LengthParser, ChunkParser
<1>3. f = [x \in DOMAIN f |-> f[x]] /\ g = [x \in DOMAIN g |-> g[x]]
  BY DEF WithAll, LengthParser, ChunkParser
<1> HIDE DEF f, g
<1>4. \A x \in DOMAIN f : f[x] = g[x]
  BY <1>1, <1>2
<1>5. f = g
  BY <1>1, <1>3, <1>4, Zenon
<1> QED
  BY <1>5 DEF f, g

(* What fromIOVec makes of d behind unit u of m.                           *)
ParsedRight(r, d, m, u) ==
  \/ r.err # "kNoError"
  \/ /\ r.used \in 0 .. Len(d)
     /\ Parsing(r.msg, m, u + r.used) \/ Whole(r.msg, m, u + r.used)

LEMMA RestAgrees ==
  ASSUME NEW d \in Seq(Units), NEW w, Len(w) \in Nat, NEW v \in Nat, Agrees(d, w, v),
         NEW at \in 0 .. Len(d)
  PROVE  /\ SubSeq(d, at + 1, Len(d)) \in Seq(Units)
         /\ Len(SubSeq(d, at + 1, Len(d))) = Len(d) - at
         /\ Agrees(SubSeq(d, at + 1, Len(d)), w, v + at)
<1> DEFINE rest == SubSeq(d, at + 1, Len(d))
<1>1. /\ rest \in Seq(Units) /\ Len(rest) = Len(d) - at
      /\ \A i \in 1 .. Len(d) - at : rest[i] = d[at + i]
  BY BehindDef
<1>2. Len(d) \in Nat
  OBVIOUS
<1> HIDE DEF rest
<1>3. ASSUME NEW j \in 1 .. Len(rest), v + at + j <= Len(w) PROVE rest[j] = w[v + at + j]
  <2>1. /\ j \in 1 .. Len(d) - at /\ at + j \in 1 .. Len(d)
        /\ v + (at + j) = v + at + j
    BY <1>1, <1>2
  <2>2. d[at + j] = w[v + (at + j)]
    BY <1>3, <2>1 DEF Agrees
  <2> QED
    BY <1>1, <2>1, <2>2
<1> QED
  BY <1>1, <1>3 DEF Agrees, rest

LEMMA ParsedIs ==
  ASSUME NEW d, NEW m, NEW v, NEW q, NEW used \in 0 .. Len(d),
         Parsing(q, m, v + used) \/ Whole(q, m, v + used)
  PROVE  ParsedRight(Parsed(q, used), d, m, v)
BY DEF ParsedRight, Parsed

LEMMA LengthParsed ==
  ASSUME NEW d \in Seq(Units), NEW m \in Messages, m.framing # "chunked", NEW v \in Nat,
         Agrees(d, Wire(m), v), NEW at \in 0 .. Len(d), NEW p, InLength(p, m, v + at)
  PROVE  ParsedRight(ParseBody(p, d, at), d, m, v)
<1> DEFINE w == Wire(m)
           T == Total(m)
           rest == SubSeq(d, at + 1, Len(d))
<1>1. PICK n \in 0 .. T : p = LengthParser(m, Bytes(m, 0, n), T) /\ v + at = 2 + n
  BY DEF InLength
<1>2. /\ w \in Seq(Units) /\ T \in Nat /\ BodyOf(m) = Bytes(m, 0, T) /\ Len(w) = 2 + T
      /\ \A i \in 1 .. T : w[2 + i] = <<"b", <<m.id, i>>>>
  BY WireDef
<1>3. /\ rest \in Seq(Units) /\ Len(rest) = Len(d) - at /\ Agrees(rest, w, v + at)
  BY <1>2, RestAgrees
<1> DEFINE room == T - Len(p.body)
           take == Min({room, Len(rest)})
<1>4. ParseBody(p, d, at) = Parsed([p EXCEPT !.body = @ \o SubSeq(rest, 1, take)], at + take)
  BY <1>1 DEF ParseBody, LengthParser, ChunkParser
<1> HIDE DEF w, T, rest, take
<1>5. n \in Nat /\ n <= T /\ Len(d) \in Nat /\ at \in Nat /\ at <= Len(d)
  BY <1>2
<1>6. Bytes(m, 0, n) \in Seq(Units) /\ Len(Bytes(m, 0, n)) = n
  <2>1. 0 <= n /\ n - 0 = n
    BY <1>5
  <2> QED
    BY <1>5, <2>1, BytesDef
<1>7. room = T - n
  BY <1>1, <1>6 DEF LengthParser, ChunkParser
<1> HIDE DEF room
<1>8. take \in Nat /\ take <= T - n /\ take <= Len(rest)
  <2> DEFINE x == Len(rest)
  <2>1. x \in Nat /\ room \in Nat
    BY <1>3, <1>5, <1>7, <1>2
  <2>2. take = Min({room, x})
    BY DEF take
  <2> HIDE DEF x
  <2>3. CASE room <= x
    <3> DEFINE S == {room, x}
    <3>1. S \subseteq Int /\ room \in S /\ \A y \in S : room <= y
      BY <2>1, <2>3
    <3> HIDE DEF S
    <3>2. Min(S) = room
      BY <3>1, MinIs
    <3>3. take = room
      BY <2>2, <3>2 DEF S
    <3> QED
      BY <1>7, <2>1, <2>3, <3>3 DEF x
  <2>4. CASE ~(room <= x)
    <3> DEFINE S == {room, x}
    <3>1. S \subseteq Int /\ x \in S /\ \A y \in S : x <= y
      BY <2>1, <2>4
    <3> HIDE DEF S
    <3>2. Min(S) = x
      BY <3>1, MinIs
    <3>3. take = x
      BY <2>2, <3>2 DEF S
    <3> QED
      BY <1>7, <2>1, <2>4, <3>3 DEF x
  <2> QED
    BY <2>3, <2>4
<1> DEFINE e == n + take
<1>9. e \in Nat /\ n <= e /\ e <= T /\ e - n = take /\ at + take \in 0 .. Len(d)
      /\ v + (at + take) = 2 + e
  BY <1>1, <1>2, <1>3, <1>5, <1>8
<1> HIDE DEF e
<1>10. SubSeq(rest, 1, take) = Bytes(m, n, e)
  <2>1. /\ SubSeq(rest, 1, take) \in Seq(Units) /\ Len(SubSeq(rest, 1, take)) = take
        /\ \A i \in 1 .. take : SubSeq(rest, 1, take)[i] = rest[i]
    <3>1. take \in 0 .. Len(rest)
      BY <1>3, <1>8
    <3> QED
      BY <1>3, <3>1, FrontDef
  <2>2. /\ Bytes(m, n, e) \in Seq(Units) /\ Len(Bytes(m, n, e)) = take
        /\ \A i \in 1 .. take : Bytes(m, n, e)[i] = <<"b", <<m.id, n + i>>>>
    BY <1>5, <1>9, BytesDef
  <2>3. ASSUME NEW i \in 1 .. take PROVE SubSeq(rest, 1, take)[i] = Bytes(m, n, e)[i]
    <3>1. /\ i \in 1 .. Len(rest) /\ v + at + i <= Len(w) /\ v + at + i = 2 + (n + i)
          /\ n + i \in 1 .. T
      <4>1. Len(rest) \in Nat /\ Len(w) = 2 + T /\ T \in Nat /\ v + at = 2 + n
        BY <1>1, <1>2, <1>3
      <4>2. i \in 1 .. Len(rest)
        BY <1>8, <4>1
      <4>3. n + i \in 1 .. T
        BY <1>5, <1>8, <4>1
      <4>4. v + at + i = 2 + (n + i)
        BY <1>5, <4>1
      <4> QED
        BY <4>1, <4>2, <4>3, <4>4
    <3>2. rest[i] = w[v + at + i]
      BY <1>3, <3>1 DEF Agrees
    <3>3. w[2 + (n + i)] = <<"b", <<m.id, n + i>>>>
      BY <1>2, <3>1
    <3> QED
      BY <2>1, <2>2, <3>1, <3>2, <3>3
  <2> QED
    BY <2>1, <2>2, <2>3, SeqEqual
<1>11. Bytes(m, 0, n) \o Bytes(m, n, e) = Bytes(m, 0, e)
  <2>1. 0 \in Nat /\ 0 <= n
    BY <1>5
  <2> QED
    BY <1>5, <1>9, <2>1, BytesJoin, Zenon
<1> DEFINE q == LengthParser(m, Bytes(m, 0, e), T)
<1>12. ParseBody(p, d, at) = Parsed(q, at + take)
  <2>1. p.body = Bytes(m, 0, n)
    BY <1>1 DEF LengthParser, ChunkParser
  <2>2. ParseBody(p, d, at) = Parsed(WithBytes(p, Bytes(m, 0, e)), at + take)
    BY <1>4, <1>10, <1>11, <2>1 DEF WithBytes
  <2>3. WithBytes(p, Bytes(m, 0, e)) = q
    BY <1>1, MoreOfLength
  <2> QED
    BY <2>2, <2>3
<1> HIDE DEF q
<1>q. q = LengthParser(m, Bytes(m, 0, e), T)
  BY DEF q
<1>13. InLength(q, m, v + (at + take))
  <2>1. e \in 0 .. T
    BY <1>2, <1>9
  <2> QED
    BY <1>9, <1>q, <2>1 DEF InLength, T
<1>14. CASE IsComplete(q)
  <2>1. Len(Bytes(m, 0, e)) = e
    <3>1. 0 <= e /\ e - 0 = e
      BY <1>9
    <3> QED
      BY <1>9, <3>1, BytesDef
  <2>2. e >= T
    BY <1>14, <1>q, <2>1 DEF IsComplete, LengthParser, ChunkParser
  <2>3. e = T
    BY <1>2, <1>9, <2>2
  <2>4. q.head = m /\ q.body = BodyOf(m) /\ v + (at + take) = Len(w)
    BY <1>2, <1>9, <1>q, <2>3 DEF LengthParser, ChunkParser
  <2>5. Whole(q, m, v + (at + take))
    BY <1>14, <2>4 DEF Whole, w
  <2> QED
    BY <1>9, <1>12, <2>5, ParsedIs
<1>15. CASE ~IsComplete(q)
  <2>1. Parsing(q, m, v + (at + take))
    BY <1>13, <1>15 DEF Parsing, InBody
  <2> QED
    BY <1>9, <1>12, <2>1, ParsedIs
<1> QED
  BY <1>14, <1>15

LEMMA ChunksParsed ==
  ASSUME NEW d \in Seq(Units), NEW m \in Messages, m.framing = "chunked", NEW v \in Nat,
         Agrees(d, Wire(m), v), NEW at \in 0 .. Len(d), NEW p, InChunks(p, m, v + at)
  PROVE  ParsedRight(ParseBody(p, d, at), d, m, v)
<1> DEFINE w == Wire(m)
           rest == SubSeq(d, at + 1, Len(d))
           chunk == ChunkFromIOVec(rest)
           r == ParseBody(p, d, at)
           u == v + at
<1>1. PICK n \in Numbers(m) : /\ p = ChunkParser(m, Bytes(m, 0, ChunkEnds(m)[n - 1]))
                              /\ u \in {Start(m, n), Start(m, n) + 3}
  BY DEF InChunks
<1> DEFINE from == ChunkEnds(m)[n - 1]
<1>2. Len(w) \in Nat
  <2>1. w \in Seq(Units)
    BY WireDef
  <2> QED
    BY <2>1
<1>3. /\ rest \in Seq(Units) /\ Len(rest) = Len(d) - at /\ Agrees(rest, w, u)
  BY <1>2, RestAgrees
<1>4. r = IF rest = <<>> \/ chunk.out = "kIncomplete" THEN Parsed(p, at)
          ELSE IF chunk.out \notin {"some", "last"} THEN Refused(p, chunk.out)
          ELSE Parsed([p EXCEPT !.body    = @ \o chunk.body,
                                !.chunked = chunk.out # "last",
                                !.need    = IF chunk.out = "last"
                                            THEN Len(p.body) + Len(chunk.body) ELSE @],
                      at + chunk.at)
  BY <1>1 DEF ParseBody, LengthParser, ChunkParser
<1>5. u \in Nat /\ at \in Nat /\ Len(d) \in Nat /\ at <= Len(d) /\ from \in Nat
  <2>1. from \in Nat
    BY NextStart
  <2> QED
    BY <2>1
<1>6. ~IsComplete(p)
  BY <1>1 DEF IsComplete, LengthParser, ChunkParser
<1> HIDE DEF rest, chunk, r
<1>7. CASE r = Parsed(p, at)
  <2>1. Parsing(p, m, v + at)
    BY <1>6 DEF Parsing, InBody
  <2> QED
    BY <1>7, <2>1 DEF ParsedRight, Parsed, r
<1>8. CASE r = Refused(p, chunk.out) /\ chunk.out \in Outs
  <2>1. r.err # "kNoError"
    BY <1>8 DEF Refused, Outs
  <2> QED
    BY <2>1 DEF ParsedRight, r
<1>9. CASE u = Start(m, n) + 3
  <2>1. chunk.out \in Outs \ {"some", "last"}
    BY <1>3, <1>5, <1>9, CutChunkNeverTaken DEF chunk, w
  <2> QED
    BY <1>4, <1>7, <1>8, <2>1
<1>10. CASE u = Start(m, n)
  <2>1. chunk \in Loops /\ Chunked(chunk, rest, m, u, n)
    BY <1>3, <1>5, <1>10, ChunksTaken DEF chunk, w
  <2>2. chunk.out \in Outs /\ chunk.at \in Nat /\ chunk.body \in Seq(Units)
    BY <2>1 DEF Loops
  <2>3. CASE chunk.out \notin {"some", "last"}
    BY <1>4, <1>7, <1>8, <2>2, <2>3
  <2>4. CASE chunk.out \in {"some", "last"}
    <3>1. PICK k \in Numbers(m) :
            /\ from <= ChunkEnds(m)[k - 1]
            /\ chunk.body = Bytes(m, from, ChunkEnds(m)[k - 1])
            /\ chunk.at <= Len(rest)
            /\ chunk.out = "some" => u + chunk.at \in {Start(m, k), Start(m, k) + 3}
            /\ chunk.out = "last" => u + chunk.at = Len(w) /\ ChunkEnds(m)[k - 1] = Total(m)
      BY <2>1, <2>4 DEF Chunked
    <3> DEFINE to == ChunkEnds(m)[k - 1]
    <3>2. to \in Nat
      BY NextStart
    <3>3. r = Parsed(p, at) \/
          r = Parsed([p EXCEPT !.body    = @ \o chunk.body,
                               !.chunked = chunk.out # "last",
                               !.need    = IF chunk.out = "last"
                                           THEN Len(p.body) + Len(chunk.body) ELSE @],
                     at + chunk.at)
      BY <1>4, <2>4
    <3> HIDE DEF from, to
    <3>4. /\ Bytes(m, 0, from) \in Seq(Units) /\ Len(Bytes(m, 0, from)) = from
          /\ Bytes(m, from, to) \in Seq(Units) /\ Len(Bytes(m, from, to)) = to - from
          /\ Bytes(m, 0, from) \o Bytes(m, from, to) = Bytes(m, 0, to)
      <4>1. 0 \in Nat /\ 0 <= from /\ from - 0 = from /\ from <= to /\ from \in Nat
        BY <1>5, <3>1 DEF to
      <4>2. Bytes(m, 0, from) \in Seq(Units) /\ Len(Bytes(m, 0, from)) = from - 0
        BY <4>1, BytesDef, Zenon
      <4>3. Bytes(m, from, to) \in Seq(Units) /\ Len(Bytes(m, from, to)) = to - from
        BY <3>2, <4>1, BytesDef, Zenon
      <4>4. Bytes(m, 0, from) \o Bytes(m, from, to) = Bytes(m, 0, to)
        BY <3>2, <4>1, BytesJoin, Zenon
      <4> QED
        BY <4>1, <4>2, <4>3, <4>4
    <3>5. p = ChunkParser(m, Bytes(m, 0, from)) /\ chunk.body = Bytes(m, from, to)
      BY <1>1, <3>1 DEF from, to
    <3>6. at + chunk.at \in 0 .. Len(d) /\ v + (at + chunk.at) = u + chunk.at
      BY <1>3, <1>5, <2>2, <3>1
    <3>7. CASE r # Parsed(p, at) /\ chunk.out = "some"
      <4> DEFINE q == ChunkParser(m, Bytes(m, 0, to))
      <4>1. r = Parsed(q, at + chunk.at)
        <5>1. p.body = Bytes(m, 0, from) /\ p.body \o chunk.body = Bytes(m, 0, to) /\ p.need = 0
          BY <3>4, <3>5 DEF LengthParser, ChunkParser
        <5>2. r = Parsed(WithChunks(p, Bytes(m, 0, to)),
                         at + chunk.at)
          BY <3>3, <3>7, <5>1 DEF WithChunks
        <5>3. WithChunks(p, Bytes(m, 0, to)) = q
          BY <3>5, MoreChunks
        <5> QED
          BY <5>2, <5>3
      <4>2. InChunks(q, m, u + chunk.at)
        BY <3>1, <3>7 DEF InChunks, to
      <4>3. ~IsComplete(q)
        BY DEF IsComplete, LengthParser, ChunkParser
      <4>4. Parsing(q, m, v + (at + chunk.at))
        BY <3>6, <4>2, <4>3 DEF Parsing, InBody
      <4> QED
        BY <3>6, <4>1, <4>4, ParsedIs DEF r
    <3>8. CASE r # Parsed(p, at) /\ chunk.out = "last"
      <4>1. to = Total(m) /\ v + (at + chunk.at) = Len(w)
        BY <3>1, <3>6, <3>8 DEF to
      <4>2. Len(p.body) + Len(chunk.body) = to
        BY <1>5, <3>1, <3>2, <3>4, <3>5 DEF LengthParser, ChunkParser, to
      <4> DEFINE q == LengthParser(m, Bytes(m, 0, to), to)
      <4>3. r = Parsed(q, at + chunk.at)
        <5>1. p.body = Bytes(m, 0, from) /\ p.body \o chunk.body = Bytes(m, 0, to)
          BY <3>4, <3>5 DEF LengthParser, ChunkParser
        <5>2. r = Parsed(WithAll(p, Bytes(m, 0, to), to),
                         at + chunk.at)
          BY <3>3, <3>8, <4>2, <5>1 DEF WithAll
        <5>3. WithAll(p, Bytes(m, 0, to), to) = q
          BY <3>5, NoMoreChunks
        <5> QED
          BY <5>2, <5>3
      <4>4. q.body = BodyOf(m) /\ q.head = m /\ q.header = "parsed" /\ q.chunked = FALSE
            /\ q.body = Bytes(m, 0, to) /\ q.need = to
        BY <4>1, WireDef DEF LengthParser, ChunkParser
      <4>5. Len(Bytes(m, 0, to)) = to
        <5>1. 0 <= to /\ to - 0 = to
          BY <3>2
        <5> QED
          BY <3>2, <5>1, BytesDef
      <4> HIDE DEF q
      <4>6. IsComplete(q)
        BY <3>2, <4>4, <4>5 DEF IsComplete
      <4>7. Whole(q, m, v + (at + chunk.at))
        BY <4>1, <4>4, <4>6 DEF Whole, w
      <4> QED
        BY <3>6, <4>3, <4>7, ParsedIs DEF r
    <3> QED
      BY <1>7, <2>4, <3>7, <3>8
  <2> QED
    BY <2>3, <2>4
<1> QED
  BY <1>1, <1>9, <1>10

(* A parser that has nothing, or head, of the header.                      *)
HeaderParser(header, head) ==
  [header |-> header, head |-> head, body |-> <<>>, need |-> 0, chunked |-> FALSE]

(* What the header makes of it.                                            *)
WithHeader(p, m)     == [p EXCEPT !.header = "parsed", !.head = m]
InsideHeader(p, m)   == [p EXCEPT !.header = "inside", !.head = m]
WithFraming(p, c, n) == [p EXCEPT !.chunked = c, !.need = n]

LEMMA HeaderInside ==
  ASSUME NEW m, NEW head, NEW p, p = HeaderParser("start", head)
  PROVE  InsideHeader(p, m) = HeaderParser("inside", m)
<1> DEFINE f == InsideHeader(p, m)
           g == HeaderParser("inside", m)
           fields == {"header", "head", "body", "need", "chunked"}
<1>1. DOMAIN f = fields /\ DOMAIN g = fields
  BY DEF InsideHeader, HeaderParser
<1>2. /\ f.header = g.header /\ f.head = g.head /\ f.body = g.body
      /\ f.need = g.need /\ f.chunked = g.chunked
  BY DEF InsideHeader, HeaderParser
<1>3. f = [x \in DOMAIN f |-> f[x]] /\ g = [x \in DOMAIN g |-> g[x]]
  BY DEF InsideHeader, HeaderParser
<1> HIDE DEF f, g
<1>4. \A x \in DOMAIN f : f[x] = g[x]
  BY <1>1, <1>2
<1>5. f = g
  BY <1>1, <1>3, <1>4, Zenon
<1> QED
  BY <1>5 DEF f, g

LEMMA HeaderDone ==
  ASSUME NEW m, NEW head, NEW header, NEW p, p = HeaderParser(header, head)
  PROVE  WithHeader(p, m) = HeaderParser("parsed", m)
<1> DEFINE f == WithHeader(p, m)
           g == HeaderParser("parsed", m)
           fields == {"header", "head", "body", "need", "chunked"}
<1>1. DOMAIN f = fields /\ DOMAIN g = fields
  BY DEF WithHeader, HeaderParser
<1>2. /\ f.header = g.header /\ f.head = g.head /\ f.body = g.body
      /\ f.need = g.need /\ f.chunked = g.chunked
  BY DEF WithHeader, HeaderParser
<1>3. f = [x \in DOMAIN f |-> f[x]] /\ g = [x \in DOMAIN g |-> g[x]]
  BY DEF WithHeader, HeaderParser
<1> HIDE DEF f, g
<1>4. \A x \in DOMAIN f : f[x] = g[x]
  BY <1>1, <1>2
<1>5. f = g
  BY <1>1, <1>3, <1>4, Zenon
<1> QED
  BY <1>5 DEF f, g

LEMMA HeaderFramed ==
  ASSUME NEW m, NEW n, NEW p, p = HeaderParser("parsed", m)
  PROVE  /\ WithFraming(p, TRUE, 0) = ChunkParser(m, <<>>)
         /\ WithFraming(p, FALSE, n) = LengthParser(m, <<>>, n)
<1> DEFINE f == WithFraming(p, TRUE, 0)
           g == ChunkParser(m, <<>>)
           a == WithFraming(p, FALSE, n)
           b == LengthParser(m, <<>>, n)
           fields == {"header", "head", "body", "need", "chunked"}
<1>1. DOMAIN f = fields /\ DOMAIN g = fields /\ DOMAIN a = fields /\ DOMAIN b = fields
  BY DEF WithFraming, HeaderParser, ChunkParser, LengthParser
<1>2. /\ f.header = g.header /\ f.head = g.head /\ f.body = g.body
      /\ f.need = g.need /\ f.chunked = g.chunked
  BY DEF WithFraming, HeaderParser, ChunkParser
<1>3. /\ a.header = b.header /\ a.head = b.head /\ a.body = b.body
      /\ a.need = b.need /\ a.chunked = b.chunked
  BY DEF WithFraming, HeaderParser, LengthParser
<1>4. /\ f = [x \in DOMAIN f |-> f[x]] /\ g = [x \in DOMAIN g |-> g[x]]
      /\ a = [x \in DOMAIN a |-> a[x]] /\ b = [x \in DOMAIN b |-> b[x]]
  BY DEF WithFraming, HeaderParser, ChunkParser, LengthParser
<1> HIDE DEF f, g, a, b
<1>5. (\A x \in DOMAIN f : f[x] = g[x]) /\ (\A x \in DOMAIN a : a[x] = b[x])
  BY <1>1, <1>2, <1>3
<1>6. f = g /\ a = b
  BY <1>1, <1>4, <1>5, Zenon
<1> QED
  BY <1>6 DEF f, g, a, b

(* The header of m is there, its body is what is left.                     *)
LEMMA BodyParsed ==
  ASSUME NEW d \in Seq(Units), NEW m \in Messages, NEW v \in Nat, Agrees(d, Wire(m), v),
         NEW at \in 0 .. Len(d), NEW p, InBody(p, m, v + at)
  PROVE  ParsedRight(ParseBody(p, d, at), d, m, v)
BY LengthParsed, ChunksParsed DEF InBody

LEMMA FramedIn ==
  ASSUME NEW m \in Messages, NEW p, p = HeaderParser("parsed", m)
  PROVE  InBody([p EXCEPT !.chunked = m.framing = "chunked",
                          !.need    = IF m.framing = "length" THEN Len(BodyOf(m)) ELSE 0], m, 2)
<1> DEFINE T == Total(m)
           q == [p EXCEPT !.chunked = m.framing = "chunked",
                          !.need    = IF m.framing = "length" THEN Len(BodyOf(m)) ELSE 0]
<1>1. Bytes(m, 0, 0) = <<>>
  <2>1. 0 \in Nat /\ 0 <= 0 /\ 0 - 0 = 0
    OBVIOUS
  <2>2. Bytes(m, 0, 0) \in Seq(Units) /\ Len(Bytes(m, 0, 0)) = 0
    BY <2>1, BytesDef
  <2> QED
    BY <2>2
<1>2. CASE m.framing = "chunked"
  <2>1. q = WithFraming(p, TRUE, 0)
    BY <1>2 DEF WithFraming
  <2>2. q = ChunkParser(m, <<>>)
    BY <2>1, HeaderFramed
  <2> HIDE DEF q
  <2>3. 1 \in Numbers(m) /\ Start(m, 1) = 2 /\ ChunkEnds(m)[0] = 0 /\ 1 - 1 = 0
    <3>1. 1 \in Numbers(m)
      BY MessageFields DEF Numbers
    <3> QED
      BY <3>1, NextStart
  <2>4. InChunks(q, m, 2)
    BY <1>1, <2>2, <2>3 DEF InChunks
  <2> QED
    BY <1>2, <2>4 DEF InBody, q
<1>3. CASE m.framing # "chunked"
  <2>1. T \in Nat /\ Len(BodyOf(m)) = T
    <3>1. T \in Nat /\ BodyOf(m) = Bytes(m, 0, T)
      BY WireDef
    <3> HIDE DEF T
    <3>2. 0 <= T /\ T - 0 = T
      BY <3>1
    <3> QED
      BY <3>1, <3>2, BytesDef
  <2>2. m.framing # "length" => T = 0
    <3>1. m.framing # "length" => Len(m.chunks) = 0
      BY <1>3, MessageFields DEF Framings
    <3> QED
      BY <3>1, ChunkEndsDef DEF Total
  <2> HIDE DEF T
  <2>3. q = WithFraming(p, FALSE, T)
    <3>1. (IF m.framing = "length" THEN Len(BodyOf(m)) ELSE 0) = T
      BY <2>1, <2>2
    <3> QED
      BY <1>3, <3>1 DEF WithFraming
  <2>4. q = LengthParser(m, <<>>, T)
    BY <2>3, HeaderFramed
  <2> HIDE DEF q
  <2>5. 0 \in 0 .. T /\ 2 = 2 + 0
    BY <2>1
  <2>6. InLength(q, m, 2)
    BY <1>1, <2>4, <2>5 DEF InLength, T
  <2> QED
    BY <1>3, <2>6 DEF InBody, q
<1> QED
  BY <1>2, <1>3

LEMMA MinOfTwo ==
  ASSUME NEW a \in Int, NEW b \in Int
  PROVE  Min({a, b}) = IF a <= b THEN a ELSE b
<1> DEFINE S == {a, b}
<1>1. S \subseteq Int /\ a \in S /\ b \in S
  OBVIOUS
<1>2. CASE a <= b
  <2>1. \A y \in S : a <= y
    BY <1>2
  <2> HIDE DEF S
  <2>2. Min(S) = a
    BY <1>1, <2>1, MinIs
  <2> QED
    BY <1>2, <2>2 DEF S
<1>3. CASE ~(a <= b)
  <2>1. \A y \in S : b <= y
    BY <1>3
  <2> HIDE DEF S
  <2>2. Min(S) = b
    BY <1>1, <2>1, MinIs
  <2> QED
    BY <1>3, <2>2 DEF S
<1> QED
  BY <1>2, <1>3

(* What the header makes of the units that are there: all of them if they  *)
(* are in order.                                                           *)
LEMMA WholeHeader ==
  ASSUME NEW d \in Seq(Units), Len(d) >= 2, NEW m, d[1] = <<"h", m>>, d[2][1] = "end",
         NEW p, p = FreshParser
  PROVE  ParseHeader(p, d) = Parsed(HeaderParser("parsed", m), 2)
<1> DEFINE missing == <<"h", "end">>
<1>1. p.header = "start" /\ p = HeaderParser("start", p.head)
  BY DEF FreshParser, HeaderParser
<1>2. Min({Len(missing), Len(d)}) = 2 /\ Len(missing) = 2 /\ missing[1] = "h" /\ missing[2] = "end"
  <2>1. Len(missing) = 2 /\ Len(d) \in Nat
    OBVIOUS
  <2> DEFINE L == Len(d)
  <2>2. L \in Nat /\ 2 \in Nat /\ 2 <= L
    BY <2>1
  <2> HIDE DEF L
  <2>3. Min({2, L}) = 2
    BY <2>2, MinOfTwo
  <2> QED
    BY <2>1, <2>3 DEF L
<1> DEFINE n == Min({Len(missing), Len(d)})
<1>3. ParseHeader(p, d) =
        IF \E i \in 1 .. n : d[i][1] # missing[i] THEN Refused(p, "kBadRequest")
        ELSE Parsed([p EXCEPT !.header = IF n = Len(missing) THEN "parsed" ELSE "inside",
                              !.head = d[1][2]], n)
  BY <1>1 DEF ParseHeader
<1>4. n = 2
  BY <1>2
<1> HIDE DEF n, missing
<1>5. ~(\E i \in 1 .. n : d[i][1] # missing[i])
  <2>1. ASSUME NEW i \in 1 .. 2 PROVE d[i][1] = missing[i]
    <3>1. i = 1 \/ i = 2
      OBVIOUS
    <3> QED
      BY <1>2, <3>1
  <2> QED
    BY <1>4, <2>1
<1>6. d[1][2] = m
  OBVIOUS
<1>7. ParseHeader(p, d) = Parsed(WithHeader(p, m), 2)
  BY <1>2, <1>3, <1>4, <1>5, <1>6 DEF WithHeader
<1>8. WithHeader(p, m) = HeaderParser("parsed", m)
  BY <1>1, HeaderDone
<1> QED
  BY <1>7, <1>8

LEMMA HalfHeader ==
  ASSUME NEW d \in Seq(Units), Len(d) = 1, NEW m, d[1] = <<"h", m>>, NEW p, p = FreshParser
  PROVE  ParseHeader(p, d) = Parsed(HeaderParser("inside", m), 1)
<1> DEFINE missing == <<"h", "end">>
<1>1. p.header = "start" /\ p = HeaderParser("start", p.head)
  BY DEF FreshParser, HeaderParser
<1>2. Min({Len(missing), Len(d)}) = 1 /\ Len(missing) = 2 /\ missing[1] = "h"
  <2>1. Len(missing) = 2
    OBVIOUS
  <2>2. Min({2, 1}) = 1
    BY MinOfTwo
  <2> QED
    BY <2>1, <2>2
<1> DEFINE n == Min({Len(missing), Len(d)})
<1>3. ParseHeader(p, d) =
        IF \E i \in 1 .. n : d[i][1] # missing[i] THEN Refused(p, "kBadRequest")
        ELSE Parsed([p EXCEPT !.header = IF n = Len(missing) THEN "parsed" ELSE "inside",
                              !.head = d[1][2]], n)
  BY <1>1 DEF ParseHeader
<1>4. n = 1
  BY <1>2
<1> HIDE DEF n, missing
<1>5. ~(\E i \in 1 .. n : d[i][1] # missing[i])
  BY <1>2, <1>4
<1>6. d[1][2] = m
  OBVIOUS
<1>7. ParseHeader(p, d) = Parsed(InsideHeader(p, m), 1)
  BY <1>2, <1>3, <1>4, <1>5, <1>6 DEF InsideHeader
<1>8. InsideHeader(p, m) = HeaderParser("inside", m)
  BY <1>1, HeaderInside
<1> QED
  BY <1>7, <1>8

LEMMA OtherHalf ==
  ASSUME NEW d \in Seq(Units), Len(d) >= 1, NEW m, d[1][1] = "end",
         NEW p, p = HeaderParser("inside", m)
  PROVE  ParseHeader(p, d) = Parsed(HeaderParser("parsed", m), 1)
<1> DEFINE missing == <<"end">>
<1>1. p.header = "inside" /\ p.head = m
  BY DEF HeaderParser
<1>2. Min({Len(missing), Len(d)}) = 1 /\ Len(missing) = 1 /\ missing[1] = "end"
  <2>1. Len(missing) = 1
    OBVIOUS
  <2> DEFINE L == Len(d)
  <2>2. L \in Nat /\ 1 \in Nat /\ 1 <= L
    OBVIOUS
  <2> HIDE DEF L
  <2>3. Min({1, L}) = 1
    BY <2>2, MinOfTwo
  <2> QED
    BY <2>1, <2>3 DEF L
<1> DEFINE n == Min({Len(missing), Len(d)})
<1>3. ParseHeader(p, d) =
        IF \E i \in 1 .. n : d[i][1] # missing[i] THEN Refused(p, "kBadRequest")
        ELSE Parsed([p EXCEPT !.header = IF n = Len(missing) THEN "parsed" ELSE "inside",
                              !.head = p.head], n)
  BY <1>1 DEF ParseHeader
<1>4. n = 1
  BY <1>2
<1> HIDE DEF n, missing
<1>5. ~(\E i \in 1 .. n : d[i][1] # missing[i])
  BY <1>2, <1>4
<1>7. ParseHeader(p, d) = Parsed(WithHeader(p, m), 1)
  BY <1>1, <1>2, <1>3, <1>4, <1>5 DEF WithHeader
<1>8. WithHeader(p, m) = HeaderParser("parsed", m)
  BY HeaderDone
<1> QED
  BY <1>7, <1>8

(* fromIOVec takes units of the message it has begun with, or the first    *)
(* ones of the next, and nothing but those.                                *)
LEMMA MessageParsed ==
  ASSUME NEW d \in Seq(Units), d # <<>>, NEW m \in Messages, NEW v \in Nat,
         Agrees(d, Wire(m), v), NEW p, Parsing(p, m, v)
  PROVE  ParsedRight(FromIOVec(p, d), d, m, v)
<1> DEFINE w == Wire(m)
           h == ParseHeader(p, d)
           framed == [h.msg EXCEPT
             !.chunked = h.msg.head.framing = "chunked",
             !.need    = IF h.msg.head.framing = "length" THEN Len(BodyOf(h.msg.head)) ELSE 0]
<1>1. w \in Seq(Units) /\ w[1] = <<"h", m>> /\ w[2] = <<"end", m.id>> /\ Len(w) >= 2
  BY WireDef
<1>2. Len(w) \in Nat /\ Len(d) \in Nat /\ Len(d) >= 1
  BY <1>1
<1>3. FromIOVec(p, d) = IF p.header = "parsed" THEN ParseBody(p, d, 0)
                        ELSE IF h.err # "kNoError" \/ h.msg.header # "parsed" THEN h
                        ELSE ParseBody(framed, d, h.used)
  BY DEF FromIOVec
<1> HIDE DEF w, h
<1>4. ASSUME NEW k \in 1 .. 2, h = Parsed(HeaderParser("parsed", m), k), v + k = 2, k <= Len(d),
             p.header # "parsed"
      PROVE  ParsedRight(FromIOVec(p, d), d, m, v)
  <2>1. h.msg = HeaderParser("parsed", m) /\ h.used = k /\ h.err = "kNoError"
    BY <1>4 DEF Parsed
  <2>2. h.msg.header = "parsed" /\ h.msg.head = m
    BY <2>1 DEF HeaderParser
  <2>3. framed = [h.msg EXCEPT !.chunked = m.framing = "chunked",
                               !.need    = IF m.framing = "length" THEN Len(BodyOf(m)) ELSE 0]
    BY <2>2
  <2>4. InBody(framed, m, 2)
    BY <2>1, <2>3, FramedIn
  <2> HIDE DEF framed
  <2>5. FromIOVec(p, d) = ParseBody(framed, d, k)
    BY <1>3, <1>4, <2>1, <2>2
  <2>6. k \in 0 .. Len(d) /\ InBody(framed, m, v + k)
    BY <1>2, <1>4, <2>4
  <2> QED
    BY <2>5, <2>6, BodyParsed
<1> HIDE DEF framed
<1>5. CASE v = 0 /\ p = FreshParser
  <2>1. d[1] = <<"h", m>>
    <3>1. 1 \in 1 .. Len(d) /\ v + 1 <= Len(w) /\ v + 1 = 1
      BY <1>1, <1>2, <1>5
    <3>2. d[1] = w[v + 1]
      BY <3>1 DEF Agrees, w
    <3> QED
      BY <1>1, <3>1, <3>2
  <2>2. p.header # "parsed"
    BY <1>5 DEF FreshParser
  <2>3. CASE Len(d) = 1
    <3> DEFINE q == HeaderParser("inside", m)
    <3>1. h = Parsed(q, 1)
      BY <1>5, <2>1, <2>3, HalfHeader DEF h
    <3>2. h.msg = q /\ q.header # "parsed"
      BY <3>1 DEF Parsed, HeaderParser
    <3>3. FromIOVec(p, d) = Parsed(q, 1)
      BY <1>3, <2>2, <3>1, <3>2
    <3>4. Parsing(q, m, 1)
      <4>1. [FreshParser EXCEPT !.header = "inside", !.head = m] = q
        <5>1. FreshParser = HeaderParser("start", FreshParser.head)
          BY DEF FreshParser, HeaderParser
        <5>2. InsideHeader(FreshParser, m) = q
          BY <5>1, HeaderInside
        <5> QED
          BY <5>2 DEF InsideHeader
      <4> QED
        BY <4>1 DEF Parsing
    <3>5. 1 \in 0 .. Len(d) /\ v + 1 = 1
      BY <1>2, <1>5
    <3> HIDE DEF q
    <3> QED
      BY <3>3, <3>4, <3>5, ParsedIs
  <2>4. CASE Len(d) # 1
    <3>1. 2 \in 1 .. Len(d) /\ v + 2 <= Len(w) /\ v + 2 = 2 /\ Len(d) >= 2
      <4>1. v + 2 <= Len(w) /\ v + 2 = 2
        BY <1>1, <1>5
      <4>2. Len(d) >= 2
        BY <1>2, <2>4
      <4> QED
        BY <1>2, <4>1, <4>2
    <3>2. d[2] = w[v + 2]
      BY <3>1 DEF Agrees, w
    <3>3. d[2][1] = "end"
      BY <1>1, <3>1, <3>2
    <3>4. h = Parsed(HeaderParser("parsed", m), 2)
      BY <1>5, <2>1, <3>1, <3>3, WholeHeader DEF h
    <3>5. 2 \in 1 .. 2 /\ 2 <= Len(d)
      BY <3>1
    <3> QED
      BY <1>4, <2>2, <3>1, <3>4, <3>5
  <2> QED
    BY <2>3, <2>4
<1>6. CASE v = 1 /\ p = [FreshParser EXCEPT !.header = "inside", !.head = m]
  <2>1. p = HeaderParser("inside", m)
    <3>1. FreshParser = HeaderParser("start", FreshParser.head)
      BY DEF FreshParser, HeaderParser
    <3>2. InsideHeader(FreshParser, m) = HeaderParser("inside", m)
      BY <3>1, HeaderInside
    <3> QED
      BY <1>6, <3>2 DEF InsideHeader
  <2>2. d[1][1] = "end"
    <3>1. 1 \in 1 .. Len(d) /\ v + 1 <= Len(w) /\ v + 1 = 2
      BY <1>1, <1>2, <1>6
    <3>2. d[1] = w[v + 1]
      BY <3>1 DEF Agrees, w
    <3> QED
      BY <1>1, <3>1, <3>2
  <2>3. h = Parsed(HeaderParser("parsed", m), 1)
    BY <1>2, <2>1, <2>2, OtherHalf DEF h
  <2>4. p.header # "parsed"
    BY <2>1 DEF HeaderParser
  <2>5. 1 \in 1 .. 2 /\ 1 <= Len(d) /\ v + 1 = 2
    BY <1>2, <1>6
  <2> QED
    BY <1>4, <2>3, <2>4, <2>5
<1>7. CASE InBody(p, m, v) /\ ~IsComplete(p)
  <2>1. p.header = "parsed"
    BY <1>7 DEF InBody, InChunks, InLength, ChunkParser, LengthParser
  <2>2. FromIOVec(p, d) = ParseBody(p, d, 0)
    BY <1>3, <2>1
  <2>3. v + 0 = v /\ 0 \in 0 .. Len(d)
    BY <1>2
  <2> QED
    BY <1>7, <2>2, <2>3, BodyParsed
<1> QED
  BY <1>5, <1>6, <1>7 DEF Parsing

(* A turn of a reader over a ring that holds what is behind unit v of m:   *)
(* it fails, or takes some units off the ring.                             *)
TurnRight(t, d, m, v) ==
  \/ t.out = "error"
  \/ \E n \in 0 .. Len(d) :
       /\ t.ring = SubSeq(d, n + 1, Len(d))
       /\ \/ t.out = "more" /\ Parsing(t.msg, m, v + n)
          \/ t.out = "done" /\ Whole(t.msg, m, v + n)

LEMMA NotComplete ==
  ASSUME NEW p, NEW m, NEW v, Parsing(p, m, v)
  PROVE  ~IsComplete(p)
<1>1. FreshParser.header = "start"
  BY DEF FreshParser
<1>2. [FreshParser EXCEPT !.header = "inside", !.head = m].header = "inside"
  BY DEF FreshParser
<1> QED
  BY <1>1, <1>2 DEF Parsing, IsComplete

LEMMA TurnDef ==
  ASSUME NEW d \in Seq(Units), NEW m \in Messages, NEW v \in Nat, Agrees(d, Wire(m), v),
         NEW p, Parsing(p, m, v), NEW size
  PROVE  /\ TurnRight(RequestTurn(p, d, size), d, m, v)
         /\ TurnRight(ResponseTurn(p, d, size), d, m, v)
<1> DEFINE r == IF d = <<>> THEN Parsed(p, 0) ELSE FromIOVec(p, d)
           t == TurnOver(r, d, size)
<1>1. RequestTurn(p, d, size) = t /\ ResponseTurn(p, d, size) = t
  BY DEF RequestTurn, ResponseTurn, ResponseFromIOVec
<1>2. ParsedRight(r, d, m, v)
  <2>1. CASE d = <<>>
    <3>1. 0 \in 0 .. Len(d) /\ v + 0 = v /\ r = Parsed(p, 0)
      BY <2>1
    <3> QED
      BY <3>1, ParsedIs
  <2>2. CASE d # <<>>
    BY <2>2, MessageParsed
  <2> QED
    BY <2>1, <2>2
<1> HIDE DEF r
<1>3. /\ t.msg = r.msg /\ t.ring = SubSeq(d, r.used + 1, Len(d))
      /\ t.out = IF r.err # "kNoError" THEN "error"
                 ELSE IF IsComplete(r.msg) THEN "done"
                 ELSE IF Len(t.ring) = size THEN "error"
                 ELSE "more"
  BY DEF TurnOver
<1> HIDE DEF t
<1>4. CASE t.out = "error"
  BY <1>1, <1>4 DEF TurnRight
<1>5. CASE t.out # "error"
  <2>1. /\ r.used \in 0 .. Len(d)
        /\ Parsing(r.msg, m, v + r.used) \/ Whole(r.msg, m, v + r.used)
    BY <1>2, <1>3, <1>5 DEF ParsedRight
  <2>2. CASE Parsing(r.msg, m, v + r.used)
    <3>1. ~IsComplete(r.msg)
      BY <2>2, NotComplete
    <3>2. t.out = "more"
      BY <1>3, <1>5, <3>1
    <3> QED
      BY <1>1, <1>3, <2>1, <2>2, <3>2 DEF TurnRight
  <2>3. CASE Whole(r.msg, m, v + r.used)
    <3>1. IsComplete(r.msg)
      BY <2>3 DEF Whole
    <3>2. t.out = "done"
      BY <1>3, <1>5, <3>1
    <3> QED
      BY <1>1, <1>3, <2>1, <2>3, <3>2 DEF TurnRight
  <2> QED
    BY <2>1, <2>2, <2>3
<1> QED
  BY <1>4, <1>5

-----------------------------------------------------------------------------
(***************************************************************************)
(* What is under way.                                                      *)
(***************************************************************************)

(* all is the messages one behind the other, message i behind start[i - 1]. *)
Laid(msgs, all, start) ==
  /\ all \in Seq(Units) /\ start \in [0 .. Len(msgs) -> Nat]
  /\ start[0] = 0 /\ start[Len(msgs)] = Len(all)
  /\ \A i \in 1 .. Len(msgs) :
       /\ start[i] = start[i - 1] + Len(Wire(msgs[i])) /\ start[i] <= Len(all)
       /\ \A j \in 1 .. Len(Wire(msgs[i])) : all[start[i - 1] + j] = Wire(msgs[i])[j]

(* s is what is behind the first k units of it.                            *)
Behind(all, k, s) ==
  /\ k \in 0 .. Len(all) /\ s \in Seq(Units) /\ Len(s) = Len(all) - k
  /\ \A i \in 1 .. Len(s) : s[i] = all[k + i]

(* p reads the messages behind the first h, and s is what it has not taken *)
(* of them yet.                                                            *)
Under(msgs, h, p, s) ==
  /\ h \in 0 .. Len(msgs)
  /\ \E all, start : \E u \in Nat :
       /\ Laid(msgs, all, start)
       /\ Behind(all, start[h] + u, s)
       /\ IF h < Len(msgs) THEN Parsing(p, msgs[h + 1], u) ELSE u = 0 /\ p = FreshParser

LEMMA NothingUnder ==
  ASSUME NEW msgs \in Seq(Messages), Len(msgs) = 0
  PROVE  Under(msgs, 0, FreshParser, <<>>)
<1> DEFINE start == [i \in 0 .. 0 |-> 0]
<1>1. Laid(msgs, <<>>, start)
  BY DEF Laid
<1>2. start[0] + 0 = 0
  OBVIOUS
<1> HIDE DEF start
<1>3. Behind(<<>>, start[0] + 0, <<>>)
  BY <1>2 DEF Behind
<1> QED
  BY <1>1, <1>3 DEF Under

(* One more message is sent.                                               *)
LEMMA SendsMore ==
  ASSUME NEW msgs \in Seq(Messages), NEW h, NEW p, NEW s, Under(msgs, h, p, s), NEW m \in Messages
  PROVE  Under(Append(msgs, m), h, p, s \o Wire(m))
<1> DEFINE N == Len(msgs)
           more == Append(msgs, m)
           v == Wire(m)
<1>1. PICK all, start : \E u \in Nat :
        /\ Laid(msgs, all, start) /\ Behind(all, start[h] + u, s)
        /\ IF h < N THEN Parsing(p, msgs[h + 1], u) ELSE u = 0 /\ p = FreshParser
  BY DEF Under
<1>2. PICK u \in Nat :
        /\ Laid(msgs, all, start) /\ Behind(all, start[h] + u, s)
        /\ IF h < N THEN Parsing(p, msgs[h + 1], u) ELSE u = 0 /\ p = FreshParser
  BY <1>1
<1> DEFINE longer == all \o v
           ends == [i \in 0 .. N + 1 |-> IF i = N + 1 THEN Len(all) + Len(v) ELSE start[i]]
<1>3. N \in Nat /\ Len(more) = N + 1 /\ more[N + 1] = m /\ \A i \in 1 .. N : more[i] = msgs[i]
  OBVIOUS
<1>4. h \in 0 .. N
  BY DEF Under
<1>5. v \in Seq(Units)
  BY WireDef
<1>6. /\ all \in Seq(Units) /\ start \in [0 .. N -> Nat] /\ start[0] = 0 /\ start[N] = Len(all)
      /\ \A i \in 1 .. N :
           /\ start[i] = start[i - 1] + Len(Wire(msgs[i])) /\ start[i] <= Len(all)
           /\ \A j \in 1 .. Len(Wire(msgs[i])) : all[start[i - 1] + j] = Wire(msgs[i])[j]
  BY <1>2 DEF Laid
<1>7. Joined(Units, longer, all, v)
  BY <1>5, <1>6, JoinDef
<1> HIDE DEF N, more, v, longer
<1>8. /\ longer \in Seq(Units) /\ Len(longer) = Len(all) + Len(v) /\ Len(all) \in Nat /\ Len(v) \in Nat
      /\ (\A i \in 1 .. Len(all) : longer[i] = all[i])
      /\ \A i \in 1 .. Len(v) : longer[Len(all) + i] = v[i]
  BY <1>7 DEF Joined
<1>9. /\ ends \in [0 .. N + 1 -> Nat] /\ ends[0] = 0 /\ ends[N + 1] = Len(longer)
      /\ (\A i \in 0 .. N : ends[i] = start[i]) /\ ends[N] = Len(all)
  BY <1>3, <1>6, <1>8
<1> HIDE DEF ends
<1>10. ASSUME NEW i \in 1 .. N + 1
       PROVE  /\ ends[i] = ends[i - 1] + Len(Wire(more[i])) /\ ends[i] <= Len(longer)
              /\ \A j \in 1 .. Len(Wire(more[i])) : longer[ends[i - 1] + j] = Wire(more[i])[j]
  <2>1. CASE i = N + 1
    <3>1. i - 1 = N /\ Wire(more[i]) = v
      BY <1>3, <2>1 DEF v
    <3>2. ends[i] = Len(all) + Len(v) /\ ends[i - 1] = Len(all)
      BY <1>8, <1>9, <2>1, <3>1
    <3>3. ends[i] <= Len(longer)
      BY <1>8, <3>2
    <3> QED
      BY <1>8, <3>1, <3>2, <3>3
  <2>2. CASE i # N + 1
    <3>1. i \in 1 .. N /\ i \in 0 .. N /\ i - 1 \in 0 .. N /\ more[i] = msgs[i]
      BY <1>3, <2>2
    <3> DEFINE x == Wire(msgs[i])
    <3>2. /\ start[i] = start[i - 1] + Len(x) /\ start[i] <= Len(all)
          /\ \A j \in 1 .. Len(x) : all[start[i - 1] + j] = x[j]
      BY <1>6, <3>1
    <3>3. x \in Seq(Units)
      <4>1. msgs[i] \in Messages
        BY <3>1 DEF N
      <4> QED
        BY <4>1, WireDef
    <3> HIDE DEF x
    <3>4. ends[i] = start[i] /\ ends[i - 1] = start[i - 1] /\ start[i - 1] \in Nat /\ start[i] \in Nat
      BY <1>6, <1>9, <3>1
    <3>5. ASSUME NEW j \in 1 .. Len(x) PROVE longer[ends[i - 1] + j] = x[j]
      <4>1. Len(x) \in Nat
        BY <3>3
      <4>2. start[i - 1] + j \in 1 .. Len(all)
        BY <1>8, <3>2, <3>4, <4>1
      <4> QED
        BY <1>8, <3>2, <3>4, <4>2
    <3>6. ends[i] <= Len(longer)
      BY <1>8, <3>2, <3>4
    <3> QED
      BY <3>1, <3>2, <3>4, <3>5, <3>6 DEF x
  <2> QED
    BY <2>1, <2>2
<1>11. Laid(more, longer, ends)
  BY <1>3, <1>8, <1>9, <1>10 DEF Laid
<1> DEFINE k == start[h] + u
<1>12. /\ k \in 0 .. Len(all) /\ s \in Seq(Units) /\ Len(s) = Len(all) - k
       /\ \A i \in 1 .. Len(s) : s[i] = all[k + i]
  BY <1>2 DEF Behind
<1>k. ends[h] + u = k
  BY <1>4, <1>9
<1> HIDE DEF k
<1>13. Joined(Units, s \o v, s, v)
  BY <1>5, <1>12, JoinDef DEF v
<1> DEFINE t == s \o v
<1> HIDE DEF t
<1>14. /\ t \in Seq(Units) /\ Len(t) = Len(s) + Len(v) /\ Len(s) \in Nat
       /\ (\A i \in 1 .. Len(s) : t[i] = s[i])
       /\ \A i \in 1 .. Len(v) : t[Len(s) + i] = v[i]
  BY <1>13 DEF Joined, t
<1>15. ASSUME NEW i \in 1 .. Len(t) PROVE t[i] = longer[k + i]
  <2>1. CASE i <= Len(s)
    <3>1. i \in 1 .. Len(s) /\ k + i \in 1 .. Len(all)
      BY <1>8, <1>12, <1>14, <2>1
    <3> QED
      BY <1>8, <1>12, <1>14, <3>1
  <2>2. CASE ~(i <= Len(s))
    <3> DEFINE j == i - Len(s)
    <3>1. j \in 1 .. Len(v) /\ Len(s) + j = i /\ Len(all) + j = k + i
      BY <1>8, <1>12, <1>14, <2>2
    <3> HIDE DEF j
    <3> QED
      BY <1>8, <1>14, <3>1
  <2> QED
    BY <2>1, <2>2
<1>16. Behind(longer, k, t)
  <2>1. k \in 0 .. Len(longer) /\ Len(t) = Len(longer) - k
    BY <1>8, <1>12, <1>14
  <2> QED
    BY <1>14, <1>15, <2>1 DEF Behind
<1>17. h \in 0 .. N + 1 /\ h < N + 1
  BY <1>3, <1>4
<1>18. Parsing(p, more[h + 1], u)
  <2>1. CASE h < N
    <3>1. h + 1 \in 1 .. N
      BY <1>3, <1>4, <2>1
    <3> QED
      BY <1>2, <1>3, <2>1, <3>1
  <2>2. CASE ~(h < N)
    BY <1>2, <2>2 DEF Parsing
  <2> QED
    BY <2>1, <2>2
<1>19. Under(more, h, p, t)
  BY <1>3, <1>11, <1>16, <1>17, <1>18, <1>k DEF Under
<1> QED
  BY <1>19 DEF more, t, v

LEMMA FrontAndBehind ==
  ASSUME NEW s \in Seq(Units), NEW n \in 0 .. Len(s)
  PROVE  /\ SubSeq(s, 1, n) \in Seq(Units) /\ SubSeq(s, n + 1, Len(s)) \in Seq(Units)
         /\ SubSeq(s, 1, n) \o SubSeq(s, n + 1, Len(s)) = s
<1>1. SubSeq(s, 1, n) \in Seq(Units) /\ SubSeq(s, n + 1, Len(s)) \in Seq(Units)
  BY FrontDef, BehindDef
<1>2. 1 \in 1 .. Len(s) + 1 /\ n \in 1 - 1 .. Len(s) /\ Len(s) \in n .. Len(s)
  OBVIOUS
<1>3. SubSeq(s, 1, n) \o SubSeq(s, n + 1, Len(s)) = SubSeq(s, 1, Len(s))
  BY <1>2, ConcatAdjacentSubSeq
<1>4. SubSeq(s, 1, Len(s)) = s
  BY SubSeqFull
<1> QED
  BY <1>1, <1>3, <1>4

LEMMA Associative ==
  \A x, y, z \in Seq(Units) : (x \o y) \o z = x \o (y \o z)
BY ConcatAssociative

(* The first n units of t move behind s: the whole stays as it is.         *)
LEMMA Moves ==
  ASSUME NEW s \in Seq(Units), NEW t \in Seq(Units), NEW n \in 0 .. Len(t)
  PROVE  /\ s \o SubSeq(t, 1, n) \in Seq(Units)
         /\ SubSeq(t, n + 1, Len(t)) \in Seq(Units)
         /\ (s \o SubSeq(t, 1, n)) \o SubSeq(t, n + 1, Len(t)) = s \o t
<1> DEFINE a == SubSeq(t, 1, n)
           b == SubSeq(t, n + 1, Len(t))
<1>1. a \in Seq(Units) /\ b \in Seq(Units) /\ a \o b = t
  BY FrontAndBehind
<1> HIDE DEF a, b
<1>2. s \o a \in Seq(Units) /\ (s \o a) \o b = s \o (a \o b)
  <2>1. s \o a \in Seq(Units)
    BY <1>1, ConcatProperties
  <2>2. (s \o a) \o b = s \o (a \o b)
    BY <1>1, Associative, Zenon
  <2> QED
    BY <2>1, <2>2
<1> QED
  BY <1>1, <1>2 DEF a, b

(* A turn of the reader: it fails, goes on with its message, or is done    *)
(* with it.                                                                *)
Turned(t, msgs, h, rest) ==
  \/ t.out = "error"
  \/ t.out = "more" /\ t.ring \in Seq(Units) /\ Under(msgs, h, t.msg, t.ring \o rest)
  \/ /\ t.out = "done" /\ t.ring \in Seq(Units)
     /\ h + 1 \in 1 .. Len(msgs)
     /\ t.msg.head = msgs[h + 1] /\ t.msg.body = BodyOf(msgs[h + 1])
     /\ Under(msgs, h + 1, FreshParser, t.ring \o rest)

LEMMA TurnsUnder ==
  ASSUME NEW msgs \in Seq(Messages), NEW h, NEW p, NEW ring \in Seq(Units), NEW rest \in Seq(Units),
         Under(msgs, h, p, ring \o rest), NEW size, NEW t,
         t \in {RequestTurn(p, ring, size), ResponseTurn(p, ring, size)}
  PROVE  Turned(t, msgs, h, rest)
<1> DEFINE N == Len(msgs)
           L == Len(ring)
           s == ring \o rest
<1>1. PICK all, start : \E u \in Nat :
        /\ Laid(msgs, all, start) /\ Behind(all, start[h] + u, s)
        /\ IF h < N THEN Parsing(p, msgs[h + 1], u) ELSE u = 0 /\ p = FreshParser
  BY DEF Under
<1>2. PICK u \in Nat :
        /\ Laid(msgs, all, start) /\ Behind(all, start[h] + u, s)
        /\ IF h < N THEN Parsing(p, msgs[h + 1], u) ELSE u = 0 /\ p = FreshParser
  BY <1>1
<1> DEFINE k == start[h] + u
<1>3. N \in Nat /\ L \in Nat /\ h \in 0 .. N
  BY DEF Under
<1>4. /\ all \in Seq(Units) /\ Len(all) \in Nat /\ start \in [0 .. N -> Nat] /\ start[N] = Len(all)
      /\ \A i \in 1 .. N :
           /\ start[i] = start[i - 1] + Len(Wire(msgs[i])) /\ start[i] <= Len(all)
           /\ \A j \in 1 .. Len(Wire(msgs[i])) : all[start[i - 1] + j] = Wire(msgs[i])[j]
  BY <1>2 DEF Laid
<1>5. /\ k \in 0 .. Len(all) /\ s \in Seq(Units) /\ Len(s) = Len(all) - k
      /\ \A i \in 1 .. Len(s) : s[i] = all[k + i]
  BY <1>2 DEF Behind
<1>6. start[h] \in Nat
  BY <1>3, <1>4
<1>7. Joined(Units, s, ring, rest)
  BY JoinDef
<1>k. k = start[h] + u
  OBVIOUS
<1> HIDE DEF N, L, s, k
<1>8. /\ Len(rest) \in Nat /\ Len(s) = L + Len(rest)
      /\ (\A i \in 1 .. L : s[i] = ring[i])
      /\ \A i \in 1 .. Len(rest) : s[L + i] = rest[i]
  BY <1>7 DEF Joined, L
<1>a. k \in Nat
  BY <1>4, <1>5
<1>9. ASSUME NEW n \in 0 .. L
      PROVE  /\ SubSeq(ring, n + 1, L) \in Seq(Units)
             /\ Behind(all, k + n, SubSeq(ring, n + 1, L) \o rest)
  <2> DEFINE b == SubSeq(ring, n + 1, L)
             c == b \o rest
  <2>1. b \in Seq(Units) /\ Len(b) = L - n /\ \A i \in 1 .. L - n : b[i] = ring[n + i]
    BY BehindDef DEF L
  <2> HIDE DEF b
  <2>2. Joined(Units, c, b, rest)
    BY <2>1, JoinDef
  <2> HIDE DEF c
  <2>3. /\ c \in Seq(Units) /\ Len(c) = Len(b) + Len(rest)
        /\ (\A i \in 1 .. Len(b) : c[i] = b[i])
        /\ \A i \in 1 .. Len(rest) : c[Len(b) + i] = rest[i]
    BY <2>2 DEF Joined
  <2>4. k + n \in 0 .. Len(all) /\ Len(c) = Len(all) - (k + n)
    <3> DEFINE A == Len(all)
    <3>1. /\ Len(b) = L - n /\ Len(c) = Len(b) + Len(rest) /\ L + Len(rest) = A - k /\ n \in 0 .. L
          /\ A \in Nat /\ k \in 0 .. A /\ L \in Nat /\ Len(rest) \in Nat
      BY <1>3, <1>4, <1>5, <1>8, <2>1, <2>3
    <3> HIDE DEF A
    <3> DEFINE x == Len(c)
               y == Len(b)
               z == Len(rest)
    <3> HIDE DEF x, y, z
    <3>2. k + n \in 0 .. A /\ x = A - (k + n)
      BY <3>1 DEF x, y, z
    <3> QED
      BY <3>2 DEF A, x
  <2>5. ASSUME NEW i \in 1 .. Len(c) PROVE c[i] = all[k + n + i]
    <3>1. n + i \in 1 .. Len(s) /\ k + (n + i) = k + n + i
      <4> DEFINE x == Len(c)
                 y == Len(b)
                 z == Len(rest)
                 l == Len(s)
      <4>1. /\ y = L - n /\ x = y + z /\ l = L + z /\ n \in 0 .. L /\ i \in 1 .. x
            /\ k \in Int /\ L \in Nat /\ z \in Nat
        <5>1. y = L - n /\ x = y + z
          BY <2>1, <2>3
        <5>2. l = L + z /\ z \in Nat
          BY <1>8
        <5> QED
          BY <1>3, <1>a, <5>1, <5>2
      <4> HIDE DEF x, y, z, l
      <4>2. n + i \in 1 .. l /\ k + (n + i) = k + n + i
        BY <4>1
      <4> QED
        BY <4>2 DEF l
    <3>2. s[n + i] = all[k + n + i]
      BY <1>5, <3>1
    <3>3. CASE i <= L - n
      <4>1. i \in 1 .. L - n /\ i \in 1 .. Len(b) /\ n + i \in 1 .. L
        BY <1>3, <2>1, <3>3
      <4> QED
        BY <1>8, <2>1, <2>3, <3>2, <4>1
    <3>4. CASE ~(i <= L - n)
      <4> DEFINE j == i - (L - n)
      <4>1. j \in 1 .. Len(rest) /\ Len(b) + j = i /\ L + j = n + i
        BY <1>3, <1>8, <2>1, <2>3, <3>4
      <4> HIDE DEF j
      <4> QED
        BY <1>8, <2>3, <3>2, <4>1
    <3> QED
      BY <3>3, <3>4
  <2>6. Behind(all, k + n, c)
    BY <2>3, <2>4, <2>5 DEF Behind
  <2> QED
    BY <2>1, <2>6 DEF b, c
<1>10. CASE h < N
  <2> DEFINE m == msgs[h + 1]
             w == Wire(m)
  <2>1. h + 1 \in 1 .. N /\ h + 1 - 1 = h /\ m \in Messages
    BY <1>3, <1>10 DEF N
  <2>2. w \in Seq(Units)
    BY <2>1, WireDef
  <2>3. /\ start[h + 1] = start[h] + Len(w)
        /\ \A j \in 1 .. Len(w) : all[start[h] + j] = w[j]
    <3> DEFINE i == h + 1
    <3>a. w = Wire(msgs[i])
      OBVIOUS
    <3>b. i \in 1 .. N
      BY <2>1
    <3>c. i - 1 = h
      BY <1>3
    <3>1. i \in 1 .. N /\ i - 1 = h /\ w = Wire(msgs[i])
      BY <3>a, <3>b, <3>c
    <3> HIDE DEF i
    <3>2. /\ start[i] = start[i - 1] + Len(Wire(msgs[i]))
          /\ \A j \in 1 .. Len(Wire(msgs[i])) : all[start[i - 1] + j] = Wire(msgs[i])[j]
      BY <1>4, <3>1
    <3>3. start[i] = start[h] + Len(w) /\ \A j \in 1 .. Len(w) : all[start[h] + j] = w[j]
      BY <3>1, <3>2
    <3> QED
      BY <3>3 DEF i
  <2>4. Parsing(p, m, u)
    BY <1>2, <1>10
  <2>m. m \in Messages /\ w = Wire(m)
    BY <2>1
  <2> HIDE DEF m, w
  <2>5. Agrees(ring, w, u)
    <3>1. ASSUME NEW j \in 1 .. L, u + j <= Len(w) PROVE ring[j] = w[u + j]
      <4>1. j \in 1 .. Len(s) /\ u + j \in 1 .. Len(w) /\ k + j = start[h] + (u + j)
        <5>1. Len(w) \in Nat
          BY <2>2
        <5>2. j \in 1 .. Len(s)
          BY <1>3, <1>8
        <5>3. u + j \in 1 .. Len(w)
          BY <3>1, <5>1, <1>3
        <5>4. k + j = start[h] + (u + j)
          BY <1>3, <1>6, <1>k
        <5> QED
          BY <5>2, <5>3, <5>4
      <4> QED
        BY <1>5, <1>8, <2>3, <4>1
    <3> QED
      BY <3>1 DEF Agrees, L
  <2>6. TurnRight(t, ring, m, u)
    BY <2>4, <2>5, <2>m, TurnDef
  <2>7. CASE t.out # "error"
    <3>1. PICK n \in 0 .. L :
            /\ t.ring = SubSeq(ring, n + 1, L)
            /\ \/ t.out = "more" /\ Parsing(t.msg, m, u + n)
               \/ t.out = "done" /\ Whole(t.msg, m, u + n)
      BY <2>6, <2>7 DEF TurnRight, L
    <3>2. t.ring \in Seq(Units) /\ Behind(all, k + n, t.ring \o rest)
      BY <1>9, <3>1
    <3>3. k + n = start[h] + (u + n) /\ u + n \in Nat
      BY <1>3, <1>6, <1>k
    <3>4. CASE t.out = "more" /\ Parsing(t.msg, m, u + n)
      <4>1. Under(msgs, h, t.msg, t.ring \o rest)
        BY <1>2, <1>3, <1>10, <3>2, <3>3, <3>4 DEF Under, N, m
      <4> QED
        BY <3>2, <3>4, <4>1 DEF Turned
    <3>5. CASE t.out = "done" /\ Whole(t.msg, m, u + n)
      <4>1. t.msg.head = m /\ t.msg.body = BodyOf(m) /\ u + n = Len(w)
        BY <2>m, <3>5 DEF Whole
      <4>2. k + n = start[h + 1] + 0 /\ 0 \in Nat /\ h + 1 \in 0 .. N
        <5>1. start[h + 1] = start[h] + (u + n) /\ k + n = start[h] + (u + n)
          BY <2>3, <3>3, <4>1
        <5>2. start[h + 1] \in Nat
          BY <1>6, <3>3, <5>1
        <5> QED
          BY <2>1, <5>1, <5>2
      <4>3. IF h + 1 < N THEN Parsing(FreshParser, msgs[h + 1 + 1], 0)
            ELSE 0 = 0 /\ FreshParser = FreshParser
        BY DEF Parsing
      <4>4. Behind(all, start[h + 1] + 0, t.ring \o rest)
        BY <3>2, <4>2
      <4>5. Under(msgs, h + 1, FreshParser, t.ring \o rest)
        BY <1>2, <4>2, <4>3, <4>4 DEF Under, N
      <4> QED
        BY <2>1, <3>2, <3>5, <4>1, <4>5 DEF m, N, Turned
    <3> QED
      BY <3>1, <3>4, <3>5
  <2> QED
    BY <2>7 DEF Turned
<1>11. CASE ~(h < N)
  <2>1. h = N /\ u = 0 /\ p = FreshParser
    BY <1>2, <1>3, <1>11
  <2>2. k = Len(all)
    BY <1>4, <1>k, <2>1
  <2>3. L = 0
    <3>1. Len(s) = 0
      BY <1>4, <1>5, <2>2
    <3> QED
      BY <1>3, <1>8, <3>1
  <2>4. ring = <<>>
    BY <2>3 DEF L
  <2> DEFINE r == Parsed(p, 0)
  <2>5. t = TurnOver(r, ring, size)
    BY <2>4 DEF RequestTurn, ResponseTurn
  <2>6. r.msg = FreshParser /\ r.used = 0 /\ r.err = "kNoError" /\ ~IsComplete(r.msg)
    BY <2>1 DEF Parsed, IsComplete, FreshParser
  <2> HIDE DEF r
  <2>7. t.msg = FreshParser /\ t.ring = SubSeq(ring, 0 + 1, L) /\ t.out \in {"error", "more"}
    BY <2>5, <2>6 DEF TurnOver, L
  <2>8. t.ring \in Seq(Units) /\ Behind(all, k + 0, t.ring \o rest)
    <3>1. 0 \in 0 .. L
      BY <1>3
    <3> QED
      BY <1>9, <2>7, <3>1
  <2>9. k + 0 = start[h] + 0
    BY <1>6, <1>k, <2>1
  <2>10. Under(msgs, h, t.msg, t.ring \o rest)
    <3>1. h \in 0 .. Len(msgs) /\ ~(h < Len(msgs)) /\ 0 \in Nat
      BY <1>3, <1>11 DEF N
    <3>2. Behind(all, start[h] + 0, t.ring \o rest)
      BY <2>8, <2>9
    <3> QED
      BY <1>2, <2>7, <3>1, <3>2 DEF Under
  <2> QED
    BY <2>7, <2>8, <2>10 DEF Turned
<1> QED
  BY <1>10, <1>11

-----------------------------------------------------------------------------
(***************************************************************************)
(* The connection.                                                         *)
(***************************************************************************)
Numbered(msgs) == msgs \in Seq(Messages) /\ \A i \in 1 .. Len(msgs) : msgs[i].id = i

Handled == [head : Messages, body : Seq(Units)]

RequestReader == IF spc \in {"turn", "recv"} THEN request ELSE FreshParser

(* What of the requests is under way, in the socket, the ring or not yet   *)
(* written, is what the server has not taken of those sent.                *)
RequestsUnder ==
  /\ Numbered(sent)
  /\ c2s \in Seq(Units) /\ left \in Seq(Units)
  /\ handled \in Seq(Handled) /\ Len(handled) <= Len(sent)
  /\ \A i \in 1 .. Len(handled) : handled[i].head = sent[i] /\ handled[i].body = BodyOf(sent[i])
  /\ spc = "handle" => Len(handled) # 0 /\ request.head = sent[Len(handled)]
  /\ spc # "closed" => /\ sring \in Seq(Units)
                       /\ Under(sent, Len(handled), RequestReader, sring \o (c2s \o left))

RequestsInv == ~torn => RequestsUnder

LEMMA MessageOfKind ==
  ASSUME NEW kind \in Kinds, NEW id \in Nat
  PROVE  Message(kind, id) \in Messages /\ Message(kind, id).id = id
BY DEF Message, Messages, Kinds, Framings

LEMMA OneMore ==
  ASSUME NEW msgs, Numbered(msgs), NEW m \in Messages, m.id = Len(msgs) + 1
  PROVE  Numbered(Append(msgs, m))
<1>1. msgs \in Seq(Messages) /\ \A i \in 1 .. Len(msgs) : msgs[i].id = i
  BY DEF Numbered
<1>2. /\ Append(msgs, m) \in Seq(Messages) /\ Len(Append(msgs, m)) = Len(msgs) + 1
      /\ (\A i \in 1 .. Len(msgs) : Append(msgs, m)[i] = msgs[i])
      /\ Append(msgs, m)[Len(msgs) + 1] = m /\ Len(msgs) \in Nat
  BY <1>1, AppendProperties
<1>3. ASSUME NEW i \in 1 .. Len(msgs) + 1 PROVE Append(msgs, m)[i].id = i
  <2>1. CASE i = Len(msgs) + 1
    BY <1>2, <2>1
  <2>2. CASE i # Len(msgs) + 1
    <3>1. i \in 1 .. Len(msgs)
      BY <1>2, <2>2
    <3> QED
      BY <1>1, <1>2, <3>1
  <2> QED
    BY <2>1, <2>2
<1> QED
  BY <1>2, <1>3 DEF Numbered

(* Units move from the front of b to the end of a.                         *)
LEMMA MovesBetween ==
  ASSUME NEW a \in Seq(Units), NEW b \in Seq(Units), NEW c \in Seq(Units), NEW n \in 0 .. Len(b)
  PROVE  /\ a \o SubSeq(b, 1, n) \in Seq(Units) /\ SubSeq(b, n + 1, Len(b)) \in Seq(Units)
         /\ (a \o SubSeq(b, 1, n)) \o (SubSeq(b, n + 1, Len(b)) \o c) = a \o (b \o c)
<1> DEFINE x == SubSeq(b, 1, n)
           y == SubSeq(b, n + 1, Len(b))
<1>1. a \o x \in Seq(Units) /\ y \in Seq(Units) /\ (a \o x) \o y = a \o b
  BY Moves
<1> HIDE DEF x, y
<1>3. ((a \o x) \o y) \o c = (a \o x) \o (y \o c)
  BY <1>1, Associative, Zenon
<1>4. (a \o b) \o c = a \o (b \o c)
  BY Associative, Zenon
<1> QED
  BY <1>1, <1>3, <1>4 DEF x, y

(* Nothing of the requests moves.                                          *)
LEMMA RequestsStay ==
  ASSUME RequestsUnder, sent' = sent, c2s' = c2s, left' = left, sring' = sring,
         handled' = handled,
         spc' = "handle" => spc = "handle" /\ request' = request,
         spc' # "closed" => spc # "closed" /\ RequestReader' = RequestReader
  PROVE  RequestsUnder'
<1>1. sring' \o (c2s' \o left') = sring \o (c2s \o left)
  OBVIOUS
<1>2. spc' # "closed" => /\ sring' \in Seq(Units)
                         /\ Under(sent', Len(handled'), RequestReader', sring' \o (c2s' \o left'))
  BY <1>1 DEF RequestsUnder
<1>3. Numbered(sent')
  BY DEF RequestsUnder
<1> QED
  BY <1>2, <1>3 DEF RequestsUnder

LEMMA RequestSent ==
  ASSUME RequestsUnder, left = <<>>, NEW kind \in Requests,
         left' = Wire(Message(kind, Len(sent) + 1)),
         sent' = Append(sent, Message(kind, Len(sent) + 1)),
         UNCHANGED <<c2s, sring, handled, spc, request>>
  PROVE  RequestsUnder'
<1> DEFINE m == Message(kind, Len(sent) + 1)
<1>1. sent \in Seq(Messages) /\ Len(sent) \in Nat /\ kind \in Kinds
  BY MessagesAssumption DEF RequestsUnder, Numbered
<1>2. m \in Messages /\ m.id = Len(sent) + 1
  <2>1. Len(sent) + 1 \in Nat
    BY <1>1
  <2> QED
    BY <1>1, <2>1, MessageOfKind
<1>3. left' = Wire(m) /\ sent' = Append(sent, m)
  OBVIOUS
<1> HIDE DEF m
<1>4. Numbered(sent')
  BY <1>2, <1>3, OneMore DEF RequestsUnder
<1>5. /\ Len(sent') = Len(sent) + 1 /\ \A i \in 1 .. Len(sent) : sent'[i] = sent[i]
  BY <1>1, <1>2, <1>3, AppendProperties
<1>6. /\ c2s \in Seq(Units) /\ left \in Seq(Units) /\ left' \in Seq(Units)
      /\ spc # "closed" => sring \in Seq(Units)
      /\ handled \in Seq(Handled) /\ Len(handled) \in Nat /\ Len(handled) <= Len(sent)
      /\ \A i \in 1 .. Len(handled) : handled[i].head = sent[i] /\ handled[i].body = BodyOf(sent[i])
  BY <1>2, <1>3, WireDef DEF RequestsUnder
<1>7. Len(handled) <= Len(sent') /\ \A i \in 1 .. Len(handled) : i \in 1 .. Len(sent)
  BY <1>1, <1>5, <1>6
<1>8. \A i \in 1 .. Len(handled) : handled[i].head = sent'[i] /\ handled[i].body = BodyOf(sent'[i])
  BY <1>5, <1>6, <1>7
<1>9. spc = "handle" => Len(handled) # 0 /\ request.head = sent'[Len(handled)]
  <2>1. Len(handled) # 0 => Len(handled) \in 1 .. Len(handled)
    BY <1>6
  <2> QED
    BY <1>5, <1>7, <2>1 DEF RequestsUnder
<1>10. ASSUME spc # "closed"
       PROVE  Under(sent', Len(handled), RequestReader, sring \o (c2s \o left'))
  <2> DEFINE v == Wire(m)
             s == sring \o (c2s \o left)
  <2>1. Under(sent, Len(handled), RequestReader, s)
    BY <1>10 DEF RequestsUnder
  <2>2. s \o v = sring \o (c2s \o v)
    <3>1. c2s \o left = c2s
      BY <1>6, ConcatEmptySeq
    <3>2. v \in Seq(Units)
      BY <1>2, WireDef
    <3>3. sring \in Seq(Units) /\ c2s \in Seq(Units)
      BY <1>6, <1>10
    <3> HIDE DEF v
    <3>4. (sring \o c2s) \o v = sring \o (c2s \o v)
      BY <3>2, <3>3, Associative, Zenon
    <3> QED
      BY <3>1, <3>4
  <2> HIDE DEF s
  <2>3. Under(Append(sent, m), Len(handled), RequestReader, s \o Wire(m))
    BY <1>1, <1>2, <2>1, SendsMore
  <2> QED
    BY <1>3, <2>2, <2>3
<1>11. RequestReader' = RequestReader
  BY DEF RequestReader
<1>12. spc' # "closed" => /\ sring' \in Seq(Units)
                          /\ Under(sent', Len(handled'), RequestReader', sring' \o (c2s' \o left'))
  BY <1>6, <1>10, <1>11
<1> QED
  BY <1>4, <1>6, <1>7, <1>8, <1>9, <1>12 DEF RequestsUnder

LEMMA RequestWritten ==
  ASSUME RequestsUnder, NEW n \in 1 .. Capacity, Writes(n)
  PROVE  RequestsUnder'
<1>1. c2s \in Seq(Units) /\ left \in Seq(Units)
  BY DEF RequestsUnder
<1>2. n \in 0 .. Len(left)
  BY SizesAssumption, <1>1 DEF Writes
<1>3. c2s' = c2s \o SubSeq(left, 1, n) /\ left' = SubSeq(left, n + 1, Len(left))
  BY DEF Writes
<1>4. c2s' \in Seq(Units) /\ left' \in Seq(Units) /\ c2s' \o left' = c2s \o left
  BY <1>1, <1>2, <1>3, Moves
<1>5. UNCHANGED <<sent, sring, handled, spc, request>>
  BY DEF Writes, told, server
<1>6. RequestReader' = RequestReader
  BY <1>5 DEF RequestReader
<1>7. spc' # "closed" => /\ sring' \in Seq(Units)
                         /\ Under(sent', Len(handled'), RequestReader', sring' \o (c2s' \o left'))
  BY <1>4, <1>5, <1>6 DEF RequestsUnder
<1> QED
  BY <1>4, <1>5, <1>7 DEF RequestsUnder

LEMMA RequestRead ==
  ASSUME RequestsUnder, NEW n, n \in 0 .. Len(c2s), ServerReads(n)
  PROVE  RequestsUnder'
<1>1. c2s \in Seq(Units) /\ left \in Seq(Units) /\ sring \in Seq(Units)
  BY DEF RequestsUnder, ServerReads
<1>2. /\ sring' = sring \o SubSeq(c2s, 1, n) /\ c2s' = SubSeq(c2s, n + 1, Len(c2s))
      /\ UNCHANGED <<sent, left, handled, request>> /\ spc = "recv" /\ spc' = "turn"
  BY DEF ServerReads, told, client
<1>3. sring' \in Seq(Units) /\ c2s' \in Seq(Units) /\ sring' \o (c2s' \o left) = sring \o (c2s \o left)
  BY <1>1, <1>2, MovesBetween
<1>4. RequestReader' = RequestReader
  BY <1>2 DEF RequestReader
<1>5. Under(sent', Len(handled'), RequestReader', sring' \o (c2s' \o left'))
  BY <1>2, <1>3, <1>4 DEF RequestsUnder
<1> QED
  BY <1>2, <1>3, <1>5 DEF RequestsUnder

LEMMA RequestTurned ==
  ASSUME RequestsUnder, ServerTurn
  PROVE  RequestsUnder' /\ (spc' = "handle" => Len(handled') = Len(handled) + 1)
         /\ (spc' # "handle" => handled' = handled)
<1> DEFINE t == RequestTurn(request, sring, RingSize)
<1>1. /\ c2s \in Seq(Units) /\ left \in Seq(Units) /\ sring \in Seq(Units) /\ sent \in Seq(Messages)
      /\ handled \in Seq(Handled) /\ Len(handled) \in Nat /\ Len(sent) \in Nat /\ Len(handled) <= Len(sent)
      /\ \A i \in 1 .. Len(handled) : handled[i].head = sent[i] /\ handled[i].body = BodyOf(sent[i])
  BY DEF RequestsUnder, Numbered, ServerTurn
<1>2. /\ spc = "turn" /\ sring' = t.ring /\ request' = t.msg
      /\ spc' = (CASE t.out = "more" -> "recv" [] t.out = "done" -> "handle"
                   [] OTHER -> "closed")
      /\ IF t.out = "done"
         THEN handled' = Append(handled, [head |-> t.msg.head, body |-> t.msg.body])
         ELSE handled' = handled
      /\ UNCHANGED <<sent, c2s, left>>
  BY DEF ServerTurn, told, client, wires
<1> DEFINE rest == c2s \o left
<1>3. rest \in Seq(Units)
  BY <1>1, ConcatProperties
<1>4. Under(sent, Len(handled), request, sring \o rest)
  BY <1>2 DEF RequestsUnder, RequestReader
<1>t. t = RequestTurn(request, sring, RingSize)
  OBVIOUS
<1> HIDE DEF t, rest
<1> DEFINE h == Len(handled)
<1> HIDE DEF h
<1>h. Under(sent, h, request, sring \o rest)
  BY <1>4 DEF h
<1>5. \/ t.out = "error"
      \/ /\ t.out = "more" /\ t.ring \in Seq(Units) /\ Under(sent, h, t.msg, t.ring \o rest)
      \/ /\ t.out = "done" /\ t.ring \in Seq(Units)
         /\ h + 1 \in 1 .. Len(sent)
         /\ t.msg.head = sent[h + 1] /\ t.msg.body = BodyOf(sent[h + 1])
         /\ Under(sent, h + 1, FreshParser, t.ring \o rest)
  <2>1. t \in {RequestTurn(request, sring, RingSize), ResponseTurn(request, sring, RingSize)}
    BY <1>t
  <2>2. Turned(t, sent, h, rest)
    BY <1>1, <1>3, <1>h, <2>1, TurnsUnder, Zenon
  <2> QED
    BY <2>2 DEF Turned
<1>6. rest = c2s' \o left'
  BY <1>2 DEF rest
<1>7. CASE t.out = "error"
  <2>1. spc' = "closed" /\ handled' = handled
    BY <1>2, <1>7
  <2> QED
    BY <1>2, <2>1 DEF RequestsUnder
<1>8. CASE t.out = "more" /\ t.ring \in Seq(Units) /\ Under(sent, h, t.msg, t.ring \o rest)
  <2>1. spc' = "recv" /\ handled' = handled
    BY <1>2, <1>8
  <2>2. RequestReader' = t.msg
    BY <1>2, <2>1 DEF RequestReader
  <2>3. Under(sent', Len(handled'), RequestReader', sring' \o (c2s' \o left'))
    BY <1>2, <1>6, <1>8, <2>1, <2>2 DEF h
  <2> QED
    BY <1>2, <1>8, <2>1, <2>3 DEF RequestsUnder
<1>9. CASE /\ t.out = "done" /\ t.ring \in Seq(Units)
           /\ h + 1 \in 1 .. Len(sent)
           /\ t.msg.head = sent[h + 1] /\ t.msg.body = BodyOf(sent[h + 1])
           /\ Under(sent, h + 1, FreshParser, t.ring \o rest)
  <2> DEFINE e == [head |-> t.msg.head, body |-> t.msg.body]
  <2>1. spc' = "handle" /\ handled' = Append(handled, e)
    BY <1>2, <1>9
  <2>2. e \in Handled /\ e.head = sent[h + 1] /\ e.body = BodyOf(sent[h + 1])
    <3>1. sent[h + 1] \in Messages
      BY <1>1, <1>9
    <3>2. BodyOf(sent[h + 1]) \in Seq(Units)
      <4> DEFINE m == sent[h + 1]
      <4>1. Total(m) \in Nat /\ BodyOf(m) = Bytes(m, 0, Total(m)) /\ m \in Messages
        BY <3>1, WireDef
      <4> HIDE DEF m
      <4>2. 0 \in Nat /\ 0 <= Total(m)
        BY <4>1
      <4>3. Bytes(m, 0, Total(m)) \in Seq(Units)
        BY <4>1, <4>2, BytesDef
      <4> QED
        BY <4>1, <4>3 DEF m
    <3> QED
      BY <1>9, <3>1, <3>2 DEF Handled
  <2> HIDE DEF e
  <2>3. /\ handled' \in Seq(Handled) /\ Len(handled') = h + 1 /\ h \in Nat
        /\ (\A i \in 1 .. h : handled'[i] = handled[i]) /\ handled'[h + 1] = e
    BY <1>1, <2>1, <2>2, AppendProperties DEF h
  <2>4. ASSUME NEW i \in 1 .. h + 1
        PROVE  handled'[i].head = sent[i] /\ handled'[i].body = BodyOf(sent[i])
    <3>1. CASE i = h + 1
      BY <2>2, <2>3, <3>1
    <3>2. CASE i # h + 1
      <4>1. i \in 1 .. h
        BY <2>3, <3>2
      <4> QED
        BY <1>1, <2>3, <4>1 DEF h
    <3> QED
      BY <3>1, <3>2
  <2>5. RequestReader' = FreshParser
    BY <2>1 DEF RequestReader
  <2>6. Under(sent', Len(handled'), RequestReader', sring' \o (c2s' \o left'))
    BY <1>2, <1>6, <1>9, <2>3, <2>5
  <2>7. Len(handled') # 0 /\ request'.head = sent'[Len(handled')] /\ Len(handled') <= Len(sent')
    BY <1>1, <1>2, <1>9, <2>3
  <2>8. Len(handled') = Len(handled) + 1
    BY <2>3 DEF h
  <2> QED
    BY <1>2, <1>9, <2>1, <2>3, <2>4, <2>6, <2>7, <2>8 DEF RequestsUnder
<1> QED
  BY <1>5, <1>7, <1>8, <1>9

Got == [asked : Nat, head : Messages, body : Seq(Units)]

AnswerReader == IF cpc \in {"turn", "recv"} THEN response ELSE FreshParser

(* What of the answers is under way is what the client has not taken of    *)
(* those given, one for each request the loop got.                         *)
AnswersGiven(given) ==
  /\ Numbered(given)
  /\ spc # "closed" => Len(handled) = Len(given) + (IF spc = "handle" THEN 1 ELSE 0)
  /\ Under(given, Len(got), AnswerReader, cring \o (s2c \o out))

AnswersUnder ==
  /\ s2c \in Seq(Units) /\ out \in Seq(Units)
  /\ got \in Seq(Got)
  /\ \A i \in 1 .. Len(got) :
       got[i].asked = i /\ got[i].head.id = i /\ got[i].body = BodyOf(got[i].head)
  /\ spc # "write" => out = <<>>
  /\ cpc = "exchange" => response = FreshParser
  /\ cpc # "closed" => cring \in Seq(Units) /\ \E given : AnswersGiven(given)

AnswersInv == lost \in Nat /\ torn \in BOOLEAN /\ (lost = 0 => ~torn /\ AnswersUnder)

(* Nothing of the answers moves.                                           *)
LEMMA AnswersStay ==
  ASSUME AnswersUnder, got' = got, s2c' = s2c, out' = out, cring' = cring,
         spc' # "write" => out = <<>>,
         spc' # "closed" => spc # "closed" /\ handled' = handled /\ (spc' = "handle" <=> spc = "handle"),
         cpc' = "exchange" => response' = FreshParser,
         cpc' # "closed" => cpc # "closed" /\ AnswerReader' = AnswerReader
  PROVE  AnswersUnder'
<1>1. ASSUME cpc' # "closed" PROVE cring' \in Seq(Units) /\ \E given : AnswersGiven(given)'
  <2>1. PICK given : AnswersGiven(given)
    BY <1>1 DEF AnswersUnder
  <2>2. cring' \o (s2c' \o out') = cring \o (s2c \o out)
    OBVIOUS
  <2>3. Under(given, Len(got'), AnswerReader', cring' \o (s2c' \o out'))
    BY <1>1, <2>1, <2>2 DEF AnswersGiven
  <2>4. spc' # "closed" => Len(handled') = Len(given) + (IF spc' = "handle" THEN 1 ELSE 0)
    BY <2>1 DEF AnswersGiven
  <2>5. AnswersGiven(given)'
    BY <2>1, <2>3, <2>4 DEF AnswersGiven
  <2> QED
    BY <1>1, <2>5 DEF AnswersUnder
<1> QED
  BY <1>1 DEF AnswersUnder

LEMMA AnswerWritten ==
  ASSUME AnswersUnder, NEW n \in 1 .. Capacity, ServerWrite(n)
  PROVE  AnswersUnder'
<1>1. /\ s2c \in Seq(Units) /\ out \in Seq(Units) /\ cring \in Seq(Units)
      /\ spc = "write" /\ cpc # "closed"
  BY DEF AnswersUnder, ServerWrite
<1>2. /\ s2c' = s2c \o SubSeq(out, 1, n) /\ out' = SubSeq(out, n + 1, Len(out))
      /\ UNCHANGED <<cring, got, handled, cpc, response>>
      /\ spc' = (IF n < Len(out) THEN spc ELSE Answered)
  BY DEF ServerWrite, client, told
<1>3. n \in 0 .. Len(out) /\ Len(out) \in Nat
  BY SizesAssumption, <1>1 DEF ServerWrite
<1>4. s2c' \in Seq(Units) /\ out' \in Seq(Units) /\ s2c' \o out' = s2c \o out
  BY <1>1, <1>2, <1>3, Moves
<1>5. spc' # "write" => out' = <<>>
  <2>1. spc' # "write" => n = Len(out)
    BY <1>1, <1>2, <1>3
  <2>2. Len(out') = Len(out) - n
    BY <1>1, <1>2, <1>3, BehindDef
  <2> QED
    BY <1>3, <1>4, <2>1, <2>2
<1>6. spc' # "handle"
  BY <1>1, <1>2 DEF Answered
<1>7. PICK given : AnswersGiven(given)
  BY <1>1 DEF AnswersUnder
<1>8. AnswerReader' = AnswerReader
  BY <1>2 DEF AnswerReader
<1>9. AnswersGiven(given)'
  BY <1>1, <1>2, <1>4, <1>6, <1>7, <1>8 DEF AnswersGiven
<1> QED
  BY <1>1, <1>2, <1>4, <1>5, <1>9 DEF AnswersUnder

LEMMA AnswerRead ==
  ASSUME AnswersUnder, NEW n, n \in 0 .. Len(s2c), ClientReads(n)
  PROVE  AnswersUnder'
<1>1. /\ s2c \in Seq(Units) /\ out \in Seq(Units) /\ cring \in Seq(Units) /\ cpc = "recv"
  BY DEF AnswersUnder, ClientReads
<1>2. /\ cring' = cring \o SubSeq(s2c, 1, n) /\ s2c' = SubSeq(s2c, n + 1, Len(s2c))
      /\ UNCHANGED <<out, got, handled, spc, response>> /\ cpc' = "turn"
  BY DEF ClientReads, server, told
<1>3. cring' \in Seq(Units) /\ s2c' \in Seq(Units) /\ cring' \o (s2c' \o out) = cring \o (s2c \o out)
  BY <1>1, <1>2, MovesBetween
<1>4. PICK given : AnswersGiven(given)
  BY <1>1 DEF AnswersUnder
<1>5. AnswerReader' = AnswerReader
  BY <1>1, <1>2 DEF AnswerReader
<1>6. AnswersGiven(given)'
  BY <1>2, <1>3, <1>4, <1>5 DEF AnswersGiven
<1> QED
  BY <1>1, <1>2, <1>3, <1>6 DEF AnswersUnder

LEMMA AnswerTurned ==
  ASSUME AnswersUnder, lost = 0, ClientTurn
  PROVE  AnswersUnder'
<1> DEFINE t == ResponseTurn(response, cring, RingSize)
           rest == s2c \o out
           h == Len(got)
<1>1. /\ s2c \in Seq(Units) /\ out \in Seq(Units) /\ cring \in Seq(Units) /\ got \in Seq(Got)
      /\ \A i \in 1 .. Len(got) :
           got[i].asked = i /\ got[i].head.id = i /\ got[i].body = BodyOf(got[i].head)
  BY DEF AnswersUnder, ClientTurn
<1>2. /\ cpc = "turn" /\ cring' = t.ring /\ response' = t.msg
      /\ cpc' = (CASE t.out = "more" -> "recv" [] t.out = "done" -> "idle"
                   [] OTHER -> "closed")
      /\ got' = IF t.out = "done"
                THEN Append(got, [asked |-> Asked, head |-> t.msg.head, body |-> t.msg.body])
                ELSE got
      /\ UNCHANGED <<s2c, out, handled, spc>>
  BY DEF ClientTurn, wires, server
<1>3. rest \in Seq(Units) /\ h \in Nat
  BY <1>1, ConcatProperties
<1>4. PICK given : AnswersGiven(given)
  BY <1>2 DEF AnswersUnder
<1>5. given \in Seq(Messages) /\ \A i \in 1 .. Len(given) : given[i].id = i
  BY <1>4 DEF AnswersGiven, Numbered
<1>6. Under(given, h, response, cring \o rest)
  BY <1>2, <1>4 DEF AnswersGiven, AnswerReader
<1>7. rest = s2c' \o out'
  BY <1>2
<1>8. t \in {RequestTurn(response, cring, RingSize), ResponseTurn(response, cring, RingSize)}
  OBVIOUS
<1>9. Asked = h + 1
  BY <1>3 DEF Asked
<1> HIDE DEF t, rest, h
<1>10. Turned(t, given, h, rest)
  BY <1>1, <1>3, <1>5, <1>6, <1>8, TurnsUnder, Zenon
<1>11. CASE t.out = "error"
  <2>1. cpc' = "closed" /\ got' = got
    BY <1>2, <1>11
  <2> QED
    BY <1>2, <2>1 DEF AnswersUnder
<1>12. CASE t.out = "more" /\ t.ring \in Seq(Units) /\ Under(given, h, t.msg, t.ring \o rest)
  <2>1. cpc' = "recv" /\ got' = got
    BY <1>2, <1>12
  <2>2. AnswerReader' = t.msg
    BY <1>2, <2>1 DEF AnswerReader
  <2>3. Under(given, Len(got'), AnswerReader', cring' \o (s2c' \o out'))
    BY <1>2, <1>7, <1>12, <2>1, <2>2 DEF h
  <2>4. AnswersGiven(given)'
    BY <1>2, <1>4, <2>3 DEF AnswersGiven
  <2> QED
    BY <1>2, <1>12, <2>1, <2>4 DEF AnswersUnder
<1>13. CASE /\ t.out = "done" /\ t.ring \in Seq(Units)
            /\ h + 1 \in 1 .. Len(given)
            /\ t.msg.head = given[h + 1] /\ t.msg.body = BodyOf(given[h + 1])
            /\ Under(given, h + 1, FreshParser, t.ring \o rest)
  <2> DEFINE m == given[h + 1]
             e == [asked |-> h + 1, head |-> t.msg.head, body |-> t.msg.body]
  <2>1. cpc' = "idle" /\ got' = Append(got, e)
    BY <1>2, <1>9, <1>13
  <2>2. m \in Messages /\ m.id = h + 1
    BY <1>5, <1>13
  <2>3. t.msg.head = m /\ t.msg.body = BodyOf(m)
    BY <1>13
  <2> HIDE DEF m
  <2>4. BodyOf(m) \in Seq(Units)
    <3>1. Total(m) \in Nat /\ BodyOf(m) = Bytes(m, 0, Total(m))
      BY <2>2, WireDef
    <3>2. 0 \in Nat /\ 0 <= Total(m)
      BY <3>1
    <3>3. Bytes(m, 0, Total(m)) \in Seq(Units)
      BY <2>2, <3>1, <3>2, BytesDef
    <3> QED
      BY <3>1, <3>3
  <2>5. e \in Got /\ e.asked = h + 1 /\ e.head.id = h + 1 /\ e.body = BodyOf(e.head)
    BY <1>3, <2>2, <2>3, <2>4 DEF Got
  <2> HIDE DEF e
  <2>6. /\ got' \in Seq(Got) /\ Len(got') = h + 1
        /\ (\A i \in 1 .. h : got'[i] = got[i]) /\ got'[h + 1] = e
    BY <1>1, <2>1, <2>5, AppendProperties DEF h
  <2>7. ASSUME NEW i \in 1 .. h + 1
        PROVE  got'[i].asked = i /\ got'[i].head.id = i /\ got'[i].body = BodyOf(got'[i].head)
    <3>1. CASE i = h + 1
      BY <2>5, <2>6, <3>1
    <3>2. CASE i # h + 1
      <4>1. i \in 1 .. h
        BY <1>3, <3>2
      <4> QED
        BY <1>1, <2>6, <4>1 DEF h
    <3> QED
      BY <3>1, <3>2
  <2>8. AnswerReader' = FreshParser
    BY <2>1 DEF AnswerReader
  <2>9. Under(given, Len(got'), AnswerReader', cring' \o (s2c' \o out'))
    BY <1>2, <1>7, <1>13, <2>6, <2>8
  <2>10. AnswersGiven(given)'
    BY <1>2, <1>4, <2>9 DEF AnswersGiven
  <2> QED
    BY <1>2, <1>13, <2>1, <2>6, <2>7, <2>10 DEF AnswersUnder
<1> QED
  BY <1>10, <1>11, <1>12, <1>13 DEF Turned

(* The loop has got a request: the answer to come is one more.             *)
LEMMA AnswerDue ==
  ASSUME AnswersUnder, ServerTurn, handled \in Seq(Handled),
         spc' = "handle" => Len(handled') = Len(handled) + 1,
         spc' # "handle" => handled' = handled
  PROVE  AnswersUnder'
<1>1. spc = "turn" /\ spc' \in {"recv", "handle", "closed"}
  BY DEF ServerTurn
<1>2. UNCHANGED <<s2c, cpc, cring, response, out, got>>
  BY DEF ServerTurn, wires, client, told
<1>3. ASSUME NEW given, AnswersGiven(given) PROVE AnswersGiven(given)'
  <2>1. AnswerReader' = AnswerReader
    BY <1>2 DEF AnswerReader
  <2>2. Len(handled) = Len(given)
    <3>1. Len(given) \in Nat
      BY <1>3 DEF AnswersGiven, Numbered
    <3>2. Len(handled) = Len(given) + 0
      BY <1>1, <1>3 DEF AnswersGiven
    <3> QED
      BY <3>1, <3>2
  <2>3. spc' # "closed" => Len(handled') = Len(given) + (IF spc' = "handle" THEN 1 ELSE 0)
    <3>1. Len(given) \in Nat
      BY <1>3 DEF AnswersGiven, Numbered
    <3>2. spc' = "handle" => Len(handled') = Len(given) + 1
      BY <2>2
    <3>3. spc' # "handle" => Len(handled') = Len(given) + 0
      BY <2>2, <3>1
    <3> QED
      BY <3>2, <3>3
  <2> QED
    BY <1>2, <1>3, <2>1, <2>3 DEF AnswersGiven
<1>4. cpc # "closed" => \E given : AnswersGiven(given)'
  BY <1>3 DEF AnswersUnder
<1> QED
  BY <1>1, <1>2, <1>4 DEF AnswersUnder

(* The handler answers what the loop got.                                  *)
LEMMA AnswerGiven ==
  ASSUME AnswersUnder, RequestsUnder, NEW answer \in Answers, Handle(answer)
  PROVE  AnswersUnder'
<1>1. /\ s2c \in Seq(Units) /\ out = <<>> /\ spc = "handle"
      /\ UNCHANGED <<s2c, cring, got, handled, cpc, response>>
  BY DEF AnswersUnder, Handle, wires, client, told
<1>2. CASE spc' = "closed" /\ out' = out
  <2>1. cpc' # "closed" => cpc # "closed" /\ AnswerReader' = AnswerReader
    BY <1>1 DEF AnswerReader
  <2>2. cpc' = "exchange" => response' = FreshParser
    BY <1>1 DEF AnswersUnder
  <2> QED
    BY <1>1, <1>2, <2>1, <2>2, AnswersStay
<1>3. CASE spc' = "write" /\ out' = Wire(Message([answer EXCEPT !.routed = request.head.routed],
                                                 request.head.id))
  <2> DEFINE kind == [answer EXCEPT !.routed = request.head.routed]
             m == Message(kind, request.head.id)
  <2>1. request.head \in Messages /\ request.head.id = Len(handled) /\ Len(handled) \in Nat
    <3>1. Len(handled) # 0 /\ request.head = sent[Len(handled)] /\ Len(handled) <= Len(sent)
      BY <1>1 DEF RequestsUnder
    <3>2. sent \in Seq(Messages) /\ \A i \in 1 .. Len(sent) : sent[i].id = i
      BY DEF RequestsUnder, Numbered
    <3>3. handled \in Seq(Handled)
      BY DEF RequestsUnder
    <3>4. Len(handled) \in Nat /\ Len(sent) \in Nat
      BY <3>2, <3>3
    <3>5. Len(handled) \in 1 .. Len(sent)
      BY <3>1, <3>4
    <3> QED
      BY <3>1, <3>2, <3>4, <3>5
  <2>2. kind \in Kinds
    <3>1. answer \in Kinds /\ request.head.routed \in BOOLEAN
      BY <2>1, MessagesAssumption, MessageFields
    <3> QED
      BY <3>1 DEF Kinds
  <2> HIDE DEF kind
  <2>3. m \in Messages /\ m.id = Len(handled)
    BY <2>1, <2>2, MessageOfKind
  <2>4. out' = Wire(m)
    BY <1>3 DEF kind
  <2> HIDE DEF m
  <2>5. PICK a \in Messages : a.id = Len(handled) /\ out' = Wire(a) /\ Wire(a) \in Seq(Units)
    <3>1. Wire(m) \in Seq(Units)
      BY <2>3, WireDef
    <3> QED
      BY <2>3, <2>4, <3>1
  <2>6. ASSUME NEW given, cring \in Seq(Units), AnswersGiven(given)
        PROVE  \E more : AnswersGiven(more)'
    <3>1. given \in Seq(Messages) /\ Len(given) \in Nat /\ Len(handled) = Len(given) + 1
      BY <1>1, <2>6 DEF AnswersGiven, Numbered
    <3>2. PICK more : more = Append(given, a)
      OBVIOUS
    <3>10. Numbered(more)
      BY <2>5, <2>6, <3>1, <3>2, OneMore DEF AnswersGiven
    <3> DEFINE s == cring \o (s2c \o out)
    <3>3. Under(given, Len(got), AnswerReader, s)
      BY <2>6 DEF AnswersGiven
    <3>4. s \o Wire(a) = cring \o (s2c \o Wire(a))
      <4>1. s2c \o out = s2c
        BY <1>1, ConcatEmptySeq
      <4>2. (cring \o s2c) \o Wire(a) = cring \o (s2c \o Wire(a))
        BY <1>1, <2>5, <2>6, Associative, Zenon
      <4> QED
        BY <4>1, <4>2
    <3> HIDE DEF s
    <3>5. Under(more, Len(got), AnswerReader, s \o Wire(a))
      BY <2>5, <3>1, <3>2, <3>3, SendsMore
    <3>6. Len(more) = Len(given) + 1
      BY <2>5, <3>1, <3>2, AppendProperties
    <3>7. spc' # "closed" => Len(handled') = Len(more) + (IF spc' = "handle" THEN 1 ELSE 0)
      BY <1>1, <1>3, <3>1, <3>6
    <3>8. AnswerReader' = AnswerReader
      BY <1>1 DEF AnswerReader
    <3>9. Under(more, Len(got'), AnswerReader', cring' \o (s2c' \o out'))
      BY <1>1, <2>5, <3>4, <3>5, <3>8
    <3>11. AnswersGiven(more)'
      BY <3>7, <3>9, <3>10 DEF AnswersGiven
    <3> QED
      BY <3>11
  <2>7. cpc' # "closed" => cring' \in Seq(Units) /\ \E given : AnswersGiven(given)'
    BY <1>1, <2>6 DEF AnswersUnder
  <2> QED
    BY <1>1, <1>3, <2>5, <2>7 DEF AnswersUnder
<1> QED
  BY <1>2, <1>3 DEF Handle

(* A read takes no more than is there.                                     *)
LEMMA RoomDef ==
  ASSUME NEW wire \in Seq(Units), NEW ring \in Seq(Units), NEW n
  PROVE  /\ n = Room(wire, ring) /\ n > 0 => n \in 0 .. Len(wire)
         /\ n \in 1 .. Room(wire, ring) => n \in 0 .. Len(wire)
<1> DEFINE a == Len(wire)
           b == RingSize - Len(ring)
<1>1. a \in Nat /\ b \in Int
  BY SizesAssumption
<1>2. Room(wire, ring) = Min({a, b})
  BY DEF Room
<1> HIDE DEF a, b
<1>3. Room(wire, ring) \in Int /\ Room(wire, ring) <= a
  <2>1. a \in Int
    BY <1>1
  <2>2. Min({a, b}) = IF a <= b THEN a ELSE b
    BY <1>1, <2>1, MinOfTwo
  <2> QED
    BY <1>1, <1>2, <2>2
<1>4. \A k : (k = Room(wire, ring) /\ k > 0) \/ k \in 1 .. Room(wire, ring) => k \in 0 .. a
  BY <1>1, <1>3
<1> QED
  BY <1>4 DEF a

LEMMA SomeRequestRead ==
  ASSUME RequestsUnder, ServerTcpRecv \/ ServerSslRecv
  PROVE  RequestsUnder'
<1>1. PICK n : ServerReads(n) /\ (n = Room(c2s, sring) \/ n \in 1 .. Room(c2s, sring))
  BY DEF ServerTcpRecv, ServerSslRecv
<1>2. c2s \in Seq(Units) /\ sring \in Seq(Units) /\ n > 0
  BY <1>1 DEF RequestsUnder, ServerReads
<1>3. n \in 0 .. Len(c2s)
  BY <1>1, <1>2, RoomDef
<1> QED
  BY <1>1, <1>3, RequestRead

LEMMA SomeAnswerRead ==
  ASSUME AnswersUnder, ClientTcpRecv \/ ClientSslRecv
  PROVE  AnswersUnder'
<1>1. PICK n : ClientReads(n) /\ (n = Room(s2c, cring) \/ n \in 1 .. Room(s2c, cring))
  BY DEF ClientTcpRecv, ClientSslRecv
<1>2. s2c \in Seq(Units) /\ cring \in Seq(Units) /\ n > 0
  BY <1>1 DEF AnswersUnder, ClientReads
<1>3. n \in 0 .. Len(s2c)
  BY <1>1, <1>2, RoomDef
<1> QED
  BY <1>1, <1>3, AnswerRead

LEMMA ReadsInit == Init => RequestsInv /\ AnswersInv
<1> SUFFICES ASSUME Init PROVE RequestsInv /\ AnswersInv
  OBVIOUS
<1>1. /\ c2s = <<>> /\ s2c = <<>> /\ left = <<>> /\ cring = <<>> /\ sring = <<>> /\ out = <<>>
      /\ sent = <<>> /\ handled = <<>> /\ got = <<>> /\ lost = 0 /\ torn = FALSE
      /\ cpc = "idle" /\ spc = "next" /\ response = FreshParser
  BY DEF Init
<1>2. PICK none : none = <<>> /\ none \in Seq(Messages) /\ Len(none) = 0
  <2>1. <<>> \in Seq(Messages) /\ Len(<<>>) = 0
    OBVIOUS
  <2> QED
    BY <2>1, Zenon
<1>3. none \o (none \o none) = <<>>
  BY <1>2
<1>4. Under(none, 0, FreshParser, none)
  BY <1>2, NothingUnder
<1>5. Numbered(none)
  BY <1>2 DEF Numbered
<1>6. RequestReader = FreshParser /\ AnswerReader = FreshParser
  BY <1>1 DEF RequestReader, AnswerReader
<1>7. Under(sent, Len(handled), RequestReader, sring \o (c2s \o left))
  BY <1>1, <1>2, <1>3, <1>4, <1>6
<1>8. none \in Seq(Units) /\ none \in Seq(Handled) /\ none \in Seq(Got)
  BY <1>2
<1>9. Under(none, Len(got), AnswerReader, cring \o (s2c \o out))
  BY <1>1, <1>2, <1>3, <1>4, <1>6
<1>10. AnswersGiven(none)
  BY <1>1, <1>2, <1>5, <1>9 DEF AnswersGiven
<1>11. RequestsUnder
  <2>1. Numbered(sent)
    BY <1>1, <1>2, <1>5
  <2>2. Len(handled) = 0 /\ Len(sent) = 0
    BY <1>1
  <2> QED
    BY <1>1, <1>2, <1>7, <1>8, <2>1, <2>2 DEF RequestsUnder
<1>12. AnswersUnder
  <2>1. Len(got) = 0
    BY <1>1
  <2> QED
    BY <1>1, <1>2, <1>8, <1>10, <2>1 DEF AnswersUnder
<1> QED
  BY <1>1, <1>11, <1>12 DEF RequestsInv, AnswersInv

(* No step of the connection breaks in on the requests.                    *)
LEMMA RequestsNext ==
  ASSUME RequestsUnder, Next, ~torn'
  PROVE  RequestsUnder'
<1>1. ASSUME NEW kind \in Requests, Exchange(kind) PROVE RequestsUnder'
  BY <1>1, RequestSent DEF Exchange, wires, server
<1>2. ASSUME NEW kind \in Requests, SendRequest(kind) PROVE RequestsUnder'
  <2>1. UNCHANGED <<c2s, sring, handled, spc, request>>
    BY <1>2 DEF SendRequest, wires, server
  <2>2. CASE left = <<>>
    BY <1>2, <2>1, <2>2, RequestSent DEF SendRequest
  <2>3. CASE left # <<>>
    <3>1. UNCHANGED <<left, sent>>
      BY <1>2, <2>3 DEF SendRequest
    <3> QED
      BY <2>1, <3>1, RequestsStay DEF RequestReader
  <2> QED
    BY <2>2, <2>3
<1>3. ASSUME NEW n \in 1 .. Capacity, ExchangeWrites(n) \/ WriterWrites(n) PROVE RequestsUnder'
  BY <1>3, RequestWritten DEF ExchangeWrites, WriterWrites
<1>4. CASE GetResponse \/ ClientTurn \/ ClientPeerClosed \/ ClientClose
  <2>1. UNCHANGED <<sent, c2s, left, server, handled>>
    BY <1>4 DEF GetResponse, ClientTurn, ClientPeerClosed, ClientClose, wires, told
  <2> QED
    BY <2>1, RequestsStay DEF RequestReader, server
<1>5. CASE ClientTcpRecv \/ ClientSslRecv
  <2>1. UNCHANGED <<sent, c2s, left, server, handled>>
    BY <1>5 DEF ClientTcpRecv, ClientSslRecv, ClientReads, told
  <2> QED
    BY <2>1, RequestsStay DEF RequestReader, server
<1>6. CASE TimedOut
  <2>1. UNCHANGED <<sent, c2s, server, handled>> /\ left' \in {left, <<>>}
    BY <1>6 DEF TimedOut, wires
  <2>2. left' = left
    BY <1>6, <2>1 DEF TimedOut
  <2> QED
    BY <2>1, <2>2, RequestsStay DEF RequestReader, server
<1>7. CASE NextRequest
  <2>1. UNCHANGED <<sent, c2s, left, sring, handled>>
    BY <1>7 DEF NextRequest, wires, client, told
  <2>2. spc' = "turn" /\ spc = "next" /\ RequestReader' = RequestReader
    BY <1>7 DEF NextRequest, RequestReader
  <2> QED
    BY <2>1, <2>2, RequestsStay
<1>8. CASE ServerTurn
  BY <1>8, RequestTurned
<1>9. CASE ServerTcpRecv \/ ServerSslRecv
  BY <1>9, SomeRequestRead
<1>10. CASE ServerPeerClosed
  <2>1. UNCHANGED <<sent, c2s, left, sring, handled>> /\ spc' = "closed"
    BY <1>10 DEF ServerPeerClosed, wires, client, told
  <2> QED
    BY <2>1, RequestsStay
<1>11. ASSUME NEW answer \in Answers, Handle(answer) PROVE RequestsUnder'
  <2>1. UNCHANGED <<sent, c2s, left, sring, handled>>
    BY <1>11 DEF Handle, wires, client, told
  <2>2. spc = "handle" /\ spc' \in {"closed", "write"} /\ RequestReader = FreshParser
    BY <1>11 DEF Handle, RequestReader
  <2>3. RequestReader' = FreshParser
    BY <2>2 DEF RequestReader
  <2> QED
    BY <2>1, <2>2, <2>3, RequestsStay
<1>12. CASE SomeServerWrite \/ ServerWriteFails
  <2>1. UNCHANGED <<sent, c2s, left, sring, handled>>
    BY <1>12 DEF SomeServerWrite, ServerWrite, ServerWriteFails, wires, client, told
  <2>2. spc = "write" /\ spc' \in {"write", "next", "closed"}
    BY <1>12 DEF SomeServerWrite, ServerWrite, ServerWriteFails, Answered
  <2>3. RequestReader = FreshParser /\ RequestReader' = FreshParser
    BY <2>2 DEF RequestReader
  <2> QED
    BY <2>1, <2>2, <2>3, RequestsStay
<1> QED
  BY <1>1, <1>2, <1>3, <1>4, <1>5, <1>6, <1>7, <1>8, <1>9, <1>10, <1>11, <1>12
  DEF Next, SomeWrite, SomeHandle

(* Nor on the answers, unless the client stops waiting for one.            *)
LEMMA AnswersNext ==
  ASSUME RequestsUnder, AnswersUnder, ~torn, lost = 0, Next, lost' = 0
  PROVE  ~torn' /\ AnswersUnder'
<1>1. ASSUME NEW kind \in Requests, Exchange(kind) \/ SendRequest(kind)
      PROVE  ~torn' /\ AnswersUnder'
  <2>1. UNCHANGED <<got, wires, server, cring, handled, torn>>
    BY <1>1 DEF Exchange, SendRequest
  <2>2. cpc = "idle" /\ cpc' \in {"exchange", "write"}
        /\ (cpc' = "exchange" => response' = FreshParser)
    BY <1>1 DEF Exchange, SendRequest
  <2>3. AnswerReader' = AnswerReader
    BY <2>2 DEF AnswerReader
  <2>4. spc # "write" => out = <<>>
    BY DEF AnswersUnder
  <2> QED
    BY <2>1, <2>2, <2>3, <2>4, AnswersStay DEF wires, server
<1>2. ASSUME NEW n \in 1 .. Capacity, ExchangeWrites(n) \/ WriterWrites(n)
      PROVE  ~torn' /\ AnswersUnder'
  <2>1. UNCHANGED <<got, s2c, server, cring, handled, torn, response>>
    BY <1>2 DEF ExchangeWrites, WriterWrites, Writes, told
  <2>2. /\ cpc \in {"exchange", "write"} /\ cpc' \in {"exchange", "write", "turn", "idle"}
        /\ cpc' \in {"exchange", "turn"} => cpc = "exchange"
    BY <1>2 DEF ExchangeWrites, WriterWrites
  <2>3. /\ cpc = "exchange" => response = FreshParser
        /\ spc # "write" => out = <<>>
    BY DEF AnswersUnder
  <2>4. AnswerReader' = AnswerReader
    BY <2>1, <2>2, <2>3 DEF AnswerReader
  <2> QED
    BY <2>1, <2>2, <2>3, <2>4, AnswersStay DEF server
<1>3. CASE GetResponse
  <2>1. UNCHANGED <<got, wires, server, cring, handled, torn>>
    BY <1>3 DEF GetResponse, told
  <2>2. cpc = "idle" /\ cpc' = "turn" /\ AnswerReader' = AnswerReader
    BY <1>3 DEF GetResponse, AnswerReader
  <2>3. spc # "write" => out = <<>>
    BY DEF AnswersUnder
  <2> QED
    BY <2>1, <2>2, <2>3, AnswersStay DEF wires, server
<1>4. CASE ClientTurn
  <2>1. torn' = torn
    BY <1>4 DEF ClientTurn
  <2> QED
    BY <1>4, <2>1, AnswerTurned
<1>5. CASE ClientTcpRecv \/ ClientSslRecv
  <2>1. torn' = torn
    BY <1>5 DEF ClientTcpRecv, ClientSslRecv, ClientReads, told
  <2> QED
    BY <1>5, <2>1, SomeAnswerRead
<1>6. CASE ClientPeerClosed \/ ClientClose
  <2>1. UNCHANGED <<got, wires, server, cring, handled, torn>> /\ cpc' = "closed"
    BY <1>6 DEF ClientPeerClosed, ClientClose, told
  <2>2. spc # "write" => out = <<>>
    BY DEF AnswersUnder
  <2> QED
    BY <2>1, <2>2, AnswersStay DEF wires, server
<1>7. CASE TimedOut
  <2>1. UNCHANGED <<got, wires, server, cring, handled, response>> /\ cpc' = "idle"
    BY <1>7 DEF TimedOut
  <2>2. cpc # "recv" /\ left' = left
    BY <1>7 DEF TimedOut
  <2>3. ~torn'
    BY <1>7, <2>2 DEF TimedOut
  <2>4. cpc \in {"exchange", "write"} /\ AnswerReader' = AnswerReader
    BY <1>7, <2>1, <2>2 DEF TimedOut, AnswerReader
  <2>5. spc # "write" => out = <<>>
    BY DEF AnswersUnder
  <2> QED
    BY <2>1, <2>3, <2>4, <2>5, AnswersStay DEF wires, server
<1>8. CASE NextRequest
  <2>1. UNCHANGED <<got, wires, client, out, handled, torn>>
    BY <1>8 DEF NextRequest, told
  <2>2. spc = "next" /\ spc' = "turn" /\ (spc # "write" => out = <<>>)
    BY <1>8 DEF NextRequest, AnswersUnder
  <2>3. AnswerReader' = AnswerReader /\ (cpc = "exchange" => response = FreshParser)
    BY <2>1 DEF AnswerReader, client, AnswersUnder
  <2> QED
    BY <2>1, <2>2, <2>3, AnswersStay DEF wires, client
<1>9. CASE ServerTurn
  <2>1. torn' = torn
    BY <1>9 DEF ServerTurn, told
  <2>2. handled \in Seq(Handled)
    BY DEF RequestsUnder
  <2> QED
    BY <1>9, <2>1, <2>2, RequestTurned, AnswerDue
<1>10. CASE ServerTcpRecv \/ ServerSslRecv \/ ServerPeerClosed
  <2>1. UNCHANGED <<got, s2c, client, out, handled, torn>>
    BY <1>10 DEF ServerTcpRecv, ServerSslRecv, ServerReads, ServerPeerClosed, wires, told
  <2>2. spc = "recv" /\ spc' \in {"turn", "closed"} /\ (spc # "write" => out = <<>>)
    BY <1>10 DEF ServerTcpRecv, ServerSslRecv, ServerReads, ServerPeerClosed, AnswersUnder
  <2>3. AnswerReader' = AnswerReader /\ (cpc = "exchange" => response = FreshParser)
    BY <2>1 DEF AnswerReader, client, AnswersUnder
  <2> QED
    BY <2>1, <2>2, <2>3, AnswersStay DEF client
<1>11. ASSUME NEW answer \in Answers, Handle(answer) PROVE ~torn' /\ AnswersUnder'
  <2>1. torn' = torn
    BY <1>11 DEF Handle, told
  <2> QED
    BY <1>11, <2>1, AnswerGiven
<1>12. ASSUME NEW n \in 1 .. Capacity, ServerWrite(n) PROVE ~torn' /\ AnswersUnder'
  <2>1. torn' = torn
    BY <1>12 DEF ServerWrite, told
  <2> QED
    BY <1>12, <2>1, AnswerWritten
<1>13. CASE ServerWriteFails
  <2>1. UNCHANGED <<got, s2c, client, torn>> /\ cpc = "closed" /\ out' = <<>>
    BY <1>13 DEF ServerWriteFails, wires, told
  <2>2. cpc' = "closed" /\ out' \in Seq(Units)
    BY <2>1 DEF client
  <2> QED
    BY <2>1, <2>2 DEF AnswersUnder
<1> QED
  BY <1>1, <1>2, <1>3, <1>4, <1>5, <1>6, <1>7, <1>8, <1>9, <1>10, <1>11, <1>12, <1>13
  DEF Next, SomeWrite, SomeHandle, SomeServerWrite

LEMMA ReadsStep ==
  ASSUME RequestsInv, AnswersInv, [Next]_vars
  PROVE  RequestsInv' /\ AnswersInv'
<1>1. CASE Next
  <2>1. lost' \in Nat /\ torn' \in BOOLEAN /\ (torn => torn') /\ (lost' = 0 => lost = 0)
    <3>1. lost \in Nat /\ torn \in BOOLEAN
      BY DEF AnswersInv
    <3>2. (lost' = lost \/ lost' = lost + 1) /\ (torn' = torn \/ (torn' \in BOOLEAN /\ (torn => torn')))
      <4>1. CASE TimedOut
        BY <3>1, <4>1 DEF TimedOut
      <4>2. CASE ~TimedOut
        <5>1. UNCHANGED <<lost, torn>>
          BY <1>1, <4>2
          DEF Next, Exchange, SendRequest, SomeWrite, ExchangeWrites, WriterWrites, Writes,
              GetResponse, ClientTurn, ClientTcpRecv, ClientSslRecv, ClientReads,
              ClientPeerClosed, ClientClose, NextRequest, ServerTurn, ServerTcpRecv,
              ServerSslRecv, ServerReads, ServerPeerClosed, SomeHandle, Handle,
              SomeServerWrite, ServerWrite, ServerWriteFails, told
        <5> QED
          BY <5>1
      <4> QED
        BY <4>1, <4>2
    <3> QED
      BY <3>1, <3>2
  <2>2. ~torn' => RequestsUnder'
    <3>1. ~torn' => ~torn
      BY <2>1
    <3> QED
      BY <1>1, <3>1, RequestsNext DEF RequestsInv
  <2>3. lost' = 0 => ~torn' /\ AnswersUnder'
    BY <1>1, <2>1, AnswersNext DEF RequestsInv, AnswersInv
  <2> QED
    BY <2>1, <2>2, <2>3 DEF RequestsInv, AnswersInv
<1>2. CASE UNCHANGED vars
  <2>1. /\ UNCHANGED <<tls, wires, client, server, sent, handled, got, lost, torn, refused>>
    BY <1>2 DEF vars
  <2>2. UNCHANGED <<c2s, s2c, cpc, left, cring, response, asking, spc, sring, request, keepAlive,
                    out, sent, handled, got, lost, torn>>
    BY <2>1 DEF wires, client, server
  <2>3. RequestsUnder => RequestsUnder'
    BY <2>2, RequestsStay DEF RequestReader
  <2>4. AnswersUnder => AnswersUnder'
    <3>1. AnswersUnder => (spc # "write" => out = <<>>) /\ (cpc = "exchange" => response = FreshParser)
      BY DEF AnswersUnder
    <3> QED
      BY <2>2, <3>1, AnswersStay DEF AnswerReader
  <2> QED
    BY <2>2, <2>3, <2>4 DEF RequestsInv, AnswersInv
<1> QED
  BY <1>1, <1>2

LEMMA ReadsInvariant == Spec => [](RequestsInv /\ AnswersInv)
<1>1. RequestsInv /\ AnswersInv /\ [Next]_vars => (RequestsInv /\ AnswersInv)'
  BY ReadsStep
<1> QED
  BY <1>1, ReadsInit, PTL DEF Spec

(* However the requests of a client are cut by the socket, the rings and   *)
(* the operations, and however many are pipelined, HttpServerImpl's loop   *)
(* gets them whole and in their order, unless one was given up half        *)
(* written: for any requests, any sizes of the rings and the socket.       *)
THEOREM RequestsArrive == Spec => []RequestsArriveWhole
<1>1. RequestsInv => RequestsArriveWhole
  BY DEF RequestsInv, RequestsUnder, RequestsArriveWhole
<1> QED
  BY <1>1, ReadsInvariant, PTL

(* What HttpSession hands out is the answer to what it asked, whole, as    *)
(* long as it waited for all the earlier ones.                             *)
THEOREM AnswersAreOwn == Spec => []AnswersMatch
<1>1. AnswersInv => AnswersMatch
  <2> SUFFICES ASSUME AnswersInv, lost = 0, NEW i \in 1 .. Len(got)
               PROVE  got[i].head.id = got[i].asked /\ got[i].body = BodyOf(got[i].head)
    BY DEF AnswersMatch
  <2> QED
    BY DEF AnswersInv, AnswersUnder
<1> QED
  BY <1>1, ReadsInvariant, PTL
=============================================================================
