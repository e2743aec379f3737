-------------------------- MODULE Http2StreamProofs --------------------------
(***************************************************************************)
(* Theorems of both directions of a stream's data.                         *)
(*                                                                         *)
(* Of Http2Stream, for every window, word, set of payload sizes and of     *)
(* increments, and any number of calls, chunks and lives of the object: no *)
(* DATA beyond the peer's credit, a state that follows from the frames     *)
(* queued, and answers only after the last frame of a call.                *)
(*                                                                         *)
(* Sums and Queueing are recursive functions.  Their equations, and what   *)
(* follows from them for every n, are proved by NatSetInduction from sets  *)
(* of numbers {k \in Nat : ...}.                                           *)
(***************************************************************************)
EXTENDS Http2Stream, Http2FlowControl, WellFoundedInduction, TLAPS

(* Induction, as a fact about sets: what has 0 and the successor of each of *)
(* its numbers has all of them.  (The library states it with an operator.) *)
LEMMA NatSetInduction ==
  ASSUME NEW S, 0 \in S, \A n \in Nat : n \in S => n + 1 \in S
  PROVE  Nat \subseteq S
<1> DEFINE R == OpToRel(<, Nat)
<1> DEFINE T == Nat \ S
<1>1. IsWellFoundedOn(R, Nat)
  BY NatLessThanWellFounded, Zenon
<1>2. \A x, y \in Nat : <<x, y>> \in R <=> x < y
  BY DEF OpToRel
<1>3. SUFFICES ASSUME T # {} PROVE FALSE
  OBVIOUS
<1> HIDE DEF R, T
<1>4. T \subseteq Nat
  BY DEF T
<1>5. PICK x \in T : \A y \in T : ~(<<y, x>> \in R)
  BY <1>1, <1>3, <1>4, WFMin
<1>6. x \in Nat /\ x # 0 /\ x - 1 \in Nat
  BY DEF T
<1>7. <<x - 1, x>> \in R
  BY <1>2, <1>6
<1>8. x - 1 \notin T
  BY <1>5, <1>7
<1> QED
  BY <1>6, <1>8 DEF T

(* f is what the steps G[1] .. G[n] make of b, one after the other.        *)
Iterated(f, X, n, b, G) ==
  /\ f \in [0 .. n -> X] /\ f[0] = b
  /\ \A i \in 1 .. n : f[i] = G[i][f[i - 1]]

(* A function that is recursive along 0 .. n exists.                       *)
LEMMA RecursiveSequence ==
  ASSUME NEW X, NEW n \in Nat, NEW b \in X, NEW G \in [1 .. n -> [X -> X]]
  PROVE  \E f : Iterated(f, X, n, b, G)
<1> DEFINE Is(f, k) == f[0] = b /\ \A i \in 1 .. k : f[i] = G[i][f[i - 1]]
<1> DEFINE S == {k \in Nat : k <= n => \E f \in [0 .. k -> X] : Is(f, k)}
<1>1. 0 \in S
  <2>1. [i \in 0 .. 0 |-> b] \in [0 .. 0 -> X] /\ Is([i \in 0 .. 0 |-> b], 0)
    OBVIOUS
  <2> QED
    BY <2>1
<1>2. ASSUME NEW k \in Nat, k \in S PROVE k + 1 \in S
  <2>1. SUFFICES ASSUME k + 1 <= n PROVE \E f \in [0 .. k + 1 -> X] : Is(f, k + 1)
    OBVIOUS
  <2>2. PICK f \in [0 .. k -> X] : Is(f, k)
    BY <1>2, <2>1
  <2> DEFINE g == [i \in 0 .. k + 1 |-> IF i = k + 1 THEN G[k + 1][f[k]] ELSE f[i]]
  <2>3. f[k] \in X /\ k + 1 \in 1 .. n
    BY <2>1
  <2>4. g \in [0 .. k + 1 -> X]
    BY <2>3
  <2>5. g[0] = b
    BY <2>2
  <2>6. ASSUME NEW i \in 1 .. k + 1 PROVE g[i] = G[i][g[i - 1]]
    <3>1. CASE i = k + 1
      BY <3>1
    <3>2. CASE i # k + 1
      BY <3>2, <2>2
    <3> QED
      BY <3>1, <3>2
  <2> QED
    BY <2>4, <2>5, <2>6
<1> HIDE DEF S
<1>3. n \in S
  BY <1>1, <1>2, NatSetInduction
<1> QED
  BY <1>3 DEF S, Iterated

(* The equations of Sums.                                                  *)
LEMMA SumsDef ==
  ASSUME NEW s \in Seq(Int)
  PROVE  /\ Sums(s) \in [0 .. Len(s) -> Int]
         /\ Sums(s)[0] = 0
         /\ \A n \in 1 .. Len(s) : Sums(s)[n] = Sums(s)[n - 1] + s[n]
<1> DEFINE n == Len(s)
<1> DEFINE G == [i \in 1 .. n |-> [x \in Int |-> x + s[i]]]
<1> DEFINE upTo[k \in 0 .. n] == IF k = 0 THEN 0 ELSE upTo[k - 1] + s[k]
<1>1. n \in Nat /\ G \in [1 .. n -> [Int -> Int]]
  OBVIOUS
<1>0. 0 \in Int
  OBVIOUS
<1>2. PICK f : Iterated(f, Int, n, 0, G)
  <2> HIDE DEF n, G
  <2> QED
    BY <1>0, <1>1, RecursiveSequence, Zenon
<1>3. f = [k \in 0 .. n |-> IF k = 0 THEN 0 ELSE f[k - 1] + s[k]]
  <2>1. f \in [0 .. n -> Int] /\ f[0] = 0
    BY <1>2 DEF Iterated
  <2>2. ASSUME NEW k \in 1 .. n PROVE f[k] = f[k - 1] + s[k]
    <3>1. f[k - 1] \in Int
      <4> HIDE DEF n
      <4> QED
        BY <1>1, <2>1
    <3>2. f[k] = G[k][f[k - 1]]
      BY <1>2 DEF Iterated
    <3> QED
      BY <3>1, <3>2
  <2> QED
    BY <2>1, <2>2
<1>4. upTo = [k \in 0 .. n |-> IF k = 0 THEN 0 ELSE upTo[k - 1] + s[k]]
  <2> HIDE DEF n
  <2> QED
    BY <1>3, Zenon
<1>5. Sums(s) = upTo
  BY DEF Sums
<1> HIDE DEF upTo
<1>6. upTo[0] = 0 /\ \A k \in 1 .. n : upTo[k] = upTo[k - 1] + s[k]
  BY <1>4, <1>1
<1> DEFINE S == {k \in Nat : k <= n => upTo[k] \in Int}
<1>7. ASSUME NEW k \in Nat, k \in S PROVE k + 1 \in S
  <2>1. SUFFICES ASSUME k + 1 <= n PROVE upTo[k + 1] \in Int
    OBVIOUS
  <2>2. k + 1 \in 1 .. n /\ upTo[k] \in Int
    BY <1>7, <2>1
  <2>3. s[k + 1] \in Int /\ upTo[k + 1] = upTo[k + 1 - 1] + s[k + 1]
    BY <2>2, <1>6
  <2> QED
    BY <2>2, <2>3
<1>8. Nat \subseteq S
  <2>1. 0 \in S
    BY <1>6
  <2> HIDE DEF S
  <2> QED
    BY <2>1, <1>7, NatSetInduction
<1>9. upTo \in [0 .. n -> Int]
  <2>1. \A k \in 0 .. n : upTo[k] \in Int
    BY <1>8, <1>1
  <2> QED
    BY <2>1, <1>4
<1> QED
  BY <1>5, <1>6, <1>9

(* The sums over a concatenation go on from the total of its first part.   *)
LEMMA SumsConcat ==
  ASSUME NEW u \in Seq(Int), NEW t \in Seq(Int)
  PROVE  \A k \in 0 .. Len(t) : Sums(u \o t)[Len(u) + k] = Sums(u)[Len(u)] + Sums(t)[k]
<1> DEFINE w == u \o t
<1>1. w \in Seq(Int) /\ Len(w) = Len(u) + Len(t) /\ Len(u) \in Nat /\ Len(t) \in Nat
  OBVIOUS
<1>2. \A k \in 1 .. Len(u) : w[k] = u[k]
  OBVIOUS
<1>3. \A k \in 1 .. Len(t) : w[Len(u) + k] = t[k]
  OBVIOUS
<1> HIDE DEF w
<1> DEFINE Adds(s) == /\ Sums(s) \in [0 .. Len(s) -> Int] /\ Sums(s)[0] = 0
                      /\ \A n \in 1 .. Len(s) : Sums(s)[n] = Sums(s)[n - 1] + s[n]
<1>11. Adds(u) /\ Adds(t)
  BY SumsDef
<1>12. Adds(w)
  BY <1>1, SumsDef, Zenon
<1>13. \A k \in 0 .. Len(u) : Sums(u)[k] \in Int
  <2>1. Sums(u) \in [0 .. Len(u) -> Int]
    BY <1>11
  <2> HIDE DEF Adds
  <2> QED
    BY <2>1
<1>14. \A k \in 0 .. Len(t) : Sums(t)[k] \in Int
  <2>1. Sums(t) \in [0 .. Len(t) -> Int]
    BY <1>11
  <2> HIDE DEF Adds
  <2> QED
    BY <2>1
<1>15. Sums(t)[0] = 0 /\ Sums(u)[Len(u)] \in Int
  BY <1>1, <1>11, <1>13
<1> DEFINE S == {k \in Nat : k <= Len(u) => Sums(w)[k] = Sums(u)[k]}
<1>4. 0 \in S
  BY <1>1, <1>11, <1>12
<1>5. ASSUME NEW k \in Nat, k \in S PROVE k + 1 \in S
  <2>1. SUFFICES ASSUME k + 1 <= Len(u) PROVE Sums(w)[k + 1] = Sums(u)[k + 1]
    OBVIOUS
  <2>2. k + 1 \in 1 .. Len(u) /\ k + 1 \in 1 .. Len(w) /\ k + 1 - 1 = k
    BY <1>1, <2>1
  <2>3. Sums(w)[k + 1] = Sums(w)[k] + w[k + 1]
    BY <1>1, <2>2, <1>11, <1>12
  <2>4. Sums(u)[k + 1] = Sums(u)[k] + u[k + 1]
    BY <2>2, <1>11, <1>12
  <2> QED
    BY <1>2, <1>5, <2>1, <2>2, <2>3, <2>4
<1>6. Nat \subseteq S
  <2> HIDE DEF S
  <2> QED
    BY <1>4, <1>5, NatSetInduction
<1>7. Sums(w)[Len(u)] = Sums(u)[Len(u)]
  BY <1>1, <1>6
<1> DEFINE R == {k \in Nat : k <= Len(t) => Sums(w)[Len(u) + k] = Sums(u)[Len(u)] + Sums(t)[k]}
<1>8. 0 \in R
  BY <1>1, <1>7, <1>15
<1>9. ASSUME NEW k \in Nat, k \in R PROVE k + 1 \in R
  <2>1. SUFFICES ASSUME k + 1 <= Len(t)
                 PROVE  Sums(w)[Len(u) + (k + 1)] = Sums(u)[Len(u)] + Sums(t)[k + 1]
    OBVIOUS
  <2>2. k + 1 \in 1 .. Len(t) /\ Len(u) + (k + 1) \in 1 .. Len(w)
        /\ k + 1 - 1 = k /\ Len(u) + (k + 1) - 1 = Len(u) + k
    BY <1>1, <2>1
  <2>3. Sums(w)[Len(u) + (k + 1)] = Sums(w)[Len(u) + k] + w[Len(u) + (k + 1)]
    <3> DEFINE j == Len(u) + (k + 1)
    <3>1. j \in 1 .. Len(w) /\ j - 1 = Len(u) + k
      BY <2>2
    <3>2. Sums(w)[j] = Sums(w)[j - 1] + w[j]
      BY <1>12, <3>1
    <3> HIDE DEF j
    <3>3. Sums(w)[j] = Sums(w)[Len(u) + k] + w[j]
      BY <3>1, <3>2
    <3> QED
      BY <3>3 DEF j
  <2>4. Sums(t)[k + 1] = Sums(t)[k] + t[k + 1]
    BY <2>2, <1>11, <1>12
  <2>5. Sums(u)[Len(u)] \in Int /\ Sums(t)[k] \in Int /\ t[k + 1] \in Int
    <3>1. k \in 0 .. Len(t)
      BY <1>1, <2>2
    <3> QED
      BY <2>2, <3>1, <1>14, <1>15
  <2>6. Sums(w)[Len(u) + k] = Sums(u)[Len(u)] + Sums(t)[k]
    BY <1>1, <1>9, <2>1
  <2>7. w[Len(u) + (k + 1)] = t[k + 1]
    BY <1>3, <2>2
  <2> QED
    BY <2>3, <2>4, <2>5, <2>6, <2>7
<1>10. Nat \subseteq R
  <2> HIDE DEF R
  <2> QED
    BY <1>8, <1>9, NatSetInduction
<1> QED
  BY <1>1, <1>10 DEF w

(* Nothing but zeros makes zero.                                           *)
LEMMA SumsZero ==
  ASSUME NEW s \in Seq(Int), \A i \in 1 .. Len(s) : s[i] = 0
  PROVE  Sums(s)[Len(s)] = 0
<1> DEFINE S == {k \in Nat : k <= Len(s) => Sums(s)[k] = 0}
<1>1. 0 \in S
  BY SumsDef
<1>2. ASSUME NEW k \in Nat, k \in S PROVE k + 1 \in S
  <2>1. SUFFICES ASSUME k + 1 <= Len(s) PROVE Sums(s)[k + 1] = 0
    OBVIOUS
  <2>2. k + 1 \in 1 .. Len(s) /\ k + 1 - 1 = k
    BY <2>1
  <2>3. Sums(s)[k + 1] = Sums(s)[k] + s[k + 1]
    BY <2>2, SumsDef
  <2> QED
    BY <1>2, <2>1, <2>2, <2>3
<1>3. Nat \subseteq S
  <2> HIDE DEF S
  <2> QED
    BY <1>1, <1>2, NatSetInduction
<1> QED
  BY <1>3

-----------------------------------------------------------------------------
(* The queue of a call.                                                    *)

FrameSet  == [kind : {"headers", "data", "empty", "rst"}, size : Nat, end : BOOLEAN]
IsFrame(f) ==
  f \in FrameSet /\ (f.kind # "data" => f.size = 0) /\ (f.kind = "rst" => ~f.end)
IsCall(frames) == frames \in Seq(FrameSet) /\ \A i \in 1 .. Len(frames) : IsFrame(frames[i])
StreamSet == [state : {"Idle", "Open", "HalfClosedLocal", "HalfClosedRemote", "Closed"},
              endRecv : BOOLEAN, endSent : BOOLEAN]
Queues    == [stream : StreamSet, window : Int, frames : Seq(FrameSet)]

(* The stream states that sending reaches from those are among them.       *)
LEMMA SentType ==
  ASSUME NEW s \in StreamSet, NEW f \in FrameSet
  PROVE  Sent(s, f) \in StreamSet
BY DEF Sent, OnHeadersSent, OnDataSent, OnRstStream, LocalEnds, StreamSet, FrameSet

(* Offering a frame makes a queue of a queue.                              *)
LEMMA OfferType ==
  ASSUME NEW q \in Queues, NEW f \in FrameSet
  PROVE  Offer(q, f) \in Queues
<1>1. Sent(q.stream, f) \in StreamSet
  BY SentType DEF Queues
<1>2. Append(q.frames, f) \in Seq(FrameSet) /\ q.window - f.size \in Int
  BY DEF Queues, FrameSet
<1> QED
  BY <1>1, <1>2 DEF Offer, Pass, Queues

(* The equations of Queueing.                                              *)
LEMMA QueueingDef ==
  ASSUME stream \in StreamSet, window \in Int, NEW frames \in Seq(FrameSet)
  PROVE  /\ Queueing(frames) \in [0 .. Len(frames) -> Queues]
         /\ Queueing(frames)[0] = [stream |-> stream, window |-> window, frames |-> <<>>]
         /\ \A i \in 1 .. Len(frames) :
              Queueing(frames)[i] = Offer(Queueing(frames)[i - 1], frames[i])
<1> DEFINE n == Len(frames)
<1> DEFINE b == [stream |-> stream, window |-> window, frames |-> <<>>]
<1> DEFINE G == [i \in 1 .. n |-> [q \in Queues |-> Offer(q, frames[i])]]
<1> DEFINE after[i \in 0 .. n] == IF i = 0 THEN b ELSE Offer(after[i - 1], frames[i])
<1>1. n \in Nat /\ b \in Queues
  BY DEF Queues
<1>2. G \in [1 .. n -> [Queues -> Queues]]
  <2>1. \A i \in 1 .. n : frames[i] \in FrameSet
    OBVIOUS
  <2>2. \A i \in 1 .. n : \A q \in Queues : Offer(q, frames[i]) \in Queues
    BY <2>1, OfferType
  <2> QED
    BY <2>2
<1>3. PICK f : Iterated(f, Queues, n, b, G)
  <2> HIDE DEF n, G, b
  <2> QED
    BY <1>1, <1>2, RecursiveSequence, Zenon
<1>4. f = [i \in 0 .. n |-> IF i = 0 THEN b ELSE Offer(f[i - 1], frames[i])]
  <2>1. f \in [0 .. n -> Queues] /\ f[0] = b
    BY <1>3 DEF Iterated
  <2>2. ASSUME NEW i \in 1 .. n PROVE f[i] = Offer(f[i - 1], frames[i])
    <3>1. f[i - 1] \in Queues
      <4> HIDE DEF n
      <4> QED
        BY <1>1, <2>1
    <3>2. f[i] = G[i][f[i - 1]]
      BY <1>3 DEF Iterated
    <3> QED
      BY <3>1, <3>2
  <2> HIDE DEF n, b
  <2> QED
    BY <1>1, <2>1, <2>2
<1>5. after = [i \in 0 .. n |-> IF i = 0 THEN b ELSE Offer(after[i - 1], frames[i])]
  <2> HIDE DEF n, b
  <2> QED
    BY <1>4, Zenon
<1>6. Queueing(frames) = after
  BY DEF Queueing
<1> HIDE DEF after, n, b
<1>7. after[0] = b /\ \A i \in 1 .. n : after[i] = Offer(after[i - 1], frames[i])
  BY <1>1, <1>5
<1> DEFINE S == {i \in Nat : i <= n => after[i] \in Queues}
<1>8. 0 \in S
  BY <1>1, <1>7
<1>9. ASSUME NEW i \in Nat, i \in S PROVE i + 1 \in S
  <2>1. SUFFICES ASSUME i + 1 <= n PROVE after[i + 1] \in Queues
    OBVIOUS
  <2>2. i + 1 \in 1 .. n /\ i + 1 - 1 = i /\ after[i] \in Queues
    BY <1>1, <1>9, <2>1
  <2>3. frames[i + 1] \in FrameSet
    BY <2>2 DEF n
  <2>4. after[i + 1] = Offer(after[i], frames[i + 1])
    BY <1>7, <2>2
  <2> QED
    BY <2>2, <2>3, <2>4, OfferType
<1>10. Nat \subseteq S
  <2> HIDE DEF S
  <2> QED
    BY <1>8, <1>9, NatSetInduction
<1>11. after \in [0 .. n -> Queues]
  <2>1. \A i \in 0 .. n : after[i] \in Queues
    BY <1>1, <1>10
  <2> QED
    BY <1>5, <2>1
<1> QED
  BY <1>6, <1>7, <1>11 DEF n, b

Sum(frames) == Sums([i \in DOMAIN frames |-> frames[i].size])[Len(frames)]

(* The bytes of no frames,                                                 *)
LEMMA SumEmpty == Sum(<<>>) = 0
<1> DEFINE s == [i \in DOMAIN <<>> |-> <<>>[i].size]
<1>1. s \in Seq(Int) /\ Len(s) = 0
  OBVIOUS
<1> HIDE DEF s
<1>2. Sums(s)[0] = 0
  BY <1>1, SumsDef, Zenon
<1> QED
  BY <1>2 DEF Sum, s

(* and of one frame more.                                                  *)
LEMMA SumAppend ==
  ASSUME NEW frames \in Seq(FrameSet), NEW f \in FrameSet
  PROVE  /\ Sum(Append(frames, f)) = Sum(frames) + f.size
         /\ Sum(frames) \in Int
<1> DEFINE u == [i \in DOMAIN frames |-> frames[i].size]
<1> DEFINE w == [i \in DOMAIN Append(frames, f) |-> Append(frames, f)[i].size]
<1> DEFINE t == <<f.size>>
<1>1. \A i \in 1 .. Len(frames) : frames[i].size \in Int
  <2>1. \A i \in 1 .. Len(frames) : frames[i] \in FrameSet
    OBVIOUS
  <2> QED
    BY <2>1 DEF FrameSet
<1>2. u \in Seq(Int) /\ Len(u) = Len(frames)
  BY <1>1
<1>3. f.size \in Int /\ t \in Seq(Int) /\ Len(t) = 1 /\ t[1] = f.size
  BY DEF FrameSet
<1>4. w = u \o t
  <2>1. DOMAIN w = 1 .. Len(frames) + 1 /\ DOMAIN (u \o t) = 1 .. Len(frames) + 1
    BY <1>2, <1>3
  <2>2. ASSUME NEW i \in 1 .. Len(frames) + 1 PROVE w[i] = (u \o t)[i]
    BY <1>2, <1>3, <2>1
  <2> QED
    BY <2>1, <2>2
<1> HIDE DEF u, w, t
<1>5. Sums(u \o t)[Len(u) + 1] = Sums(u)[Len(u)] + Sums(t)[1]
  <2>1. 1 \in 0 .. Len(t)
    BY <1>3
  <2> QED
    BY <1>2, <1>3, <2>1, SumsConcat
<1>6. Sums(t)[1] = f.size
  <2>1. Sums(t)[0] = 0 /\ \A n \in 1 .. Len(t) : Sums(t)[n] = Sums(t)[n - 1] + t[n]
    BY <1>3, SumsDef
  <2> QED
    BY <1>3, <2>1
<1>7. Sums(u)[Len(u)] \in Int
  <2>1. Sums(u) \in [0 .. Len(u) -> Int]
    BY <1>2, SumsDef
  <2>2. Len(u) \in 0 .. Len(u)
    BY <1>2
  <2> QED
    BY <2>1, <2>2
<1>8. Len(Append(frames, f)) = Len(frames) + 1
  OBVIOUS
<1> QED
  BY <1>2, <1>4, <1>5, <1>6, <1>7, <1>8 DEF Sum, u, w

-----------------------------------------------------------------------------
(* What a frame that is offered keeps.                                     *)

Lowest == -(SendWord \div 2)

StateIs(s, ended, reset) ==
  /\ s.endSent <=> ended
  /\ s.state = "Closed" <=> reset \/ (ended /\ s.endRecv)
  /\ s.state = "HalfClosedLocal" <=> ~reset /\ ended /\ ~s.endRecv
  /\ s.state = "HalfClosedRemote" <=> ~reset /\ ~ended /\ s.endRecv

EndIn(frames) == \E i \in 1 .. Len(frames) : frames[i].end
RstIn(frames) == \E i \in 1 .. Len(frames) : frames[i].kind = "rst"

WithinWindow(q) ==
  /\ q.window >= Lowest
  /\ q.window + Bytes + Sum(q.frames) <= SendDefault + credit
  /\ Bytes + Sum(q.frames) <= SendDefault + credit

Follows(q) == StateIs(q.stream, Ended \/ EndIn(q.frames), Reset \/ RstIn(q.frames))

(* DATA goes out on a stream that is not idle.                             *)
InTurn(q, f) == f.kind \in {"headers", "rst"} \/ q.stream.state # "Idle"

(* A frame that is offered stays within the window, or is skipped.         *)
LEMMA WindowOffer ==
  ASSUME NEW q \in Queues, NEW f, IsFrame(f), WithinWindow(q), Bytes \in Int, credit \in Int
  PROVE  WithinWindow(Offer(q, f))
<1>1. SendDefault \in Int /\ Lowest \in Int /\ Lowest <= 0
  BY SendAssumption DEF Lowest
<1>2. CASE ~Fits(f, q.window)
  BY <1>2 DEF Offer
<1>3. CASE Fits(f, q.window)
  <2>1. Offer(q, f) = Pass(q, f)
    BY <1>3 DEF Offer
  <2>2. Pass(q, f).window = q.window - f.size /\ Pass(q, f).frames = Append(q.frames, f)
    BY DEF Pass
  <2>3. q.window \in Int /\ f.size \in Nat /\ (f.size = 0 \/ f.size <= q.window)
    BY <1>3 DEF Queues, IsFrame, FrameSet, Fits
  <2>4. Sum(Append(q.frames, f)) = Sum(q.frames) + f.size /\ Sum(q.frames) \in Int
    BY SumAppend DEF Queues, IsFrame
  <2> QED
    BY <1>1, <2>1, <2>2, <2>3, <2>4 DEF WithinWindow
<1> QED
  BY <1>2, <1>3

(* END_STREAM and RST_STREAM among the frames of a queue.                  *)
LEMMA AppendIn ==
  ASSUME NEW frames \in Seq(FrameSet), NEW f \in FrameSet
  PROVE  /\ EndIn(Append(frames, f)) <=> EndIn(frames) \/ f.end
         /\ RstIn(Append(frames, f)) <=> RstIn(frames) \/ f.kind = "rst"
<1> DEFINE g == Append(frames, f)
<1>1. Len(g) = Len(frames) + 1 /\ g[Len(frames) + 1] = f /\ Len(frames) \in Nat
  OBVIOUS
<1>2. \A i \in 1 .. Len(frames) : g[i] = frames[i]
  OBVIOUS
<1> HIDE DEF g
<1>3. EndIn(g) <=> EndIn(frames) \/ f.end
  BY <1>1, <1>2 DEF EndIn
<1>4. RstIn(g) <=> RstIn(frames) \/ f.kind = "rst"
  BY <1>1, <1>2 DEF RstIn
<1> QED
  BY <1>3, <1>4 DEF g

(* Sending a frame moves the state as the frame says.                      *)
LEMMA StateSent ==
  ASSUME NEW s \in StreamSet, NEW ended \in BOOLEAN, NEW reset \in BOOLEAN, StateIs(s, ended, reset),
         NEW f \in FrameSet, f.kind \in {"headers", "rst"} \/ s.state # "Idle"
  PROVE  /\ StateIs(Sent(s, f), ended \/ (f.kind # "rst" /\ f.end), reset \/ f.kind = "rst")
         /\ Sent(s, f).state # "Idle"
BY DEF StreamSet, FrameSet, StateIs, Sent, OnHeadersSent, OnDataSent, OnRstStream, LocalEnds

(* So does offering one: a skipped frame moves nothing.                    *)
LEMMA StateOffer ==
  ASSUME NEW q \in Queues, NEW f, IsFrame(f), Follows(q), InTurn(q, f)
  PROVE  /\ Follows(Offer(q, f))
         /\ Fits(f, q.window) \/ q.stream.state # "Idle" => Offer(q, f).stream.state # "Idle"
<1>1. CASE ~Fits(f, q.window)
  BY <1>1 DEF Offer
<1>2. CASE Fits(f, q.window)
  <2>1. Offer(q, f) = Pass(q, f)
    BY <1>2 DEF Offer
  <2>2. Pass(q, f).stream = Sent(q.stream, f) /\ Pass(q, f).frames = Append(q.frames, f)
    BY DEF Pass
  <2>3. q.stream \in StreamSet /\ f \in FrameSet /\ q.frames \in Seq(FrameSet)
    BY DEF Queues, IsFrame
  <2> DEFINE e == Ended \/ EndIn(q.frames)
  <2> DEFINE r == Reset \/ RstIn(q.frames)
  <2>4. e \in BOOLEAN /\ r \in BOOLEAN /\ StateIs(q.stream, e, r)
    BY DEF Ended, EndIn, Reset, RstIn, Follows
  <2> HIDE DEF e, r
  <2>5. /\ StateIs(Sent(q.stream, f), e \/ (f.kind # "rst" /\ f.end), r \/ f.kind = "rst")
        /\ Sent(q.stream, f).state # "Idle"
    BY <2>3, <2>4, StateSent DEF InTurn
  <2>6. f.end <=> f.kind # "rst" /\ f.end
    BY DEF IsFrame, FrameSet
  <2>7. /\ EndIn(Append(q.frames, f)) <=> EndIn(q.frames) \/ f.end
        /\ RstIn(Append(q.frames, f)) <=> RstIn(q.frames) \/ f.kind = "rst"
    BY <2>3, AppendIn
  <2>8. Follows(Pass(q, f))
    BY <2>2, <2>5, <2>6, <2>7 DEF Follows, StateIs, e, r
  <2> QED
    BY <2>1, <2>2, <2>5, <2>8
<1> QED
  BY <1>1, <1>2

(* The frames of a call, offered one after the other, keep it.             *)
Start == [stream |-> stream, window |-> window, frames |-> <<>>]

Opening(frames) ==
  stream.state = "Idle" => frames = <<>> \/ frames[1].kind \in {"headers", "rst"}

LEMMA QueuedKeeps ==
  ASSUME stream \in StreamSet, window \in Int, Bytes \in Int, credit \in Int,
         NEW frames, IsCall(frames), Opening(frames), WithinWindow(Start), Follows(Start)
  PROVE  /\ Queued(frames) \in Queues
         /\ WithinWindow(Queued(frames)) /\ Follows(Queued(frames))
         /\ frames # <<>> \/ stream.state # "Idle" => Queued(frames).stream.state # "Idle"
<1> DEFINE n == Len(frames)
<1> DEFINE q == Queueing(frames)
<1>1. n \in Nat /\ frames \in Seq(FrameSet) /\ \A i \in 1 .. n : IsFrame(frames[i])
  BY DEF IsCall
<1>2. /\ q \in [0 .. n -> Queues] /\ q[0] = Start
      /\ \A i \in 1 .. n : q[i] = Offer(q[i - 1], frames[i])
  BY <1>1, QueueingDef DEF Start
<1> HIDE DEF q, n
<1> DEFINE Good(i) == /\ WithinWindow(q[i]) /\ Follows(q[i])
                      /\ i > 0 \/ stream.state # "Idle" => q[i].stream.state # "Idle"
<1> DEFINE S == {i \in Nat : i <= n => Good(i)}
<1>3. 0 \in S
  <2>1. stream.state # "Idle" => q[0].stream.state # "Idle"
    BY <1>2 DEF Start
  <2> QED
    BY <1>2, <2>1
<1>4. ASSUME NEW i \in Nat, i \in S PROVE i + 1 \in S
  <2>1. SUFFICES ASSUME i + 1 <= n PROVE Good(i + 1)
    OBVIOUS
  <2>2. i + 1 \in 1 .. n /\ i + 1 - 1 = i /\ Good(i) /\ i \in 0 .. n
    BY <1>1, <1>4, <2>1
  <2>3. q[i] \in Queues /\ IsFrame(frames[i + 1])
    BY <1>1, <1>2, <2>2
  <2>4. q[i + 1] = Offer(q[i], frames[i + 1])
    BY <1>2, <2>2
  <2>5. q[i].stream.state # "Idle" \/ frames[i + 1].kind \in {"headers", "rst"}
    <3>1. CASE i > 0
      BY <2>2, <3>1
    <3>2. CASE i = 0
      <4>1. frames # <<>>
        BY <1>1, <2>1 DEF n
      <4>2. q[i].stream = stream /\ i + 1 = 1
        BY <1>2, <3>2 DEF Start
      <4> QED
        BY <4>1, <4>2 DEF Opening
    <3> QED
      BY <3>1, <3>2
  <2>6. WithinWindow(q[i + 1])
    BY <2>2, <2>3, <2>4, WindowOffer
  <2>7. InTurn(q[i], frames[i + 1])
    BY <2>5 DEF InTurn
  <2>8. /\ Follows(q[i + 1])
        /\ Fits(frames[i + 1], q[i].window) \/ q[i].stream.state # "Idle"
             => q[i + 1].stream.state # "Idle"
    BY <2>2, <2>3, <2>4, <2>7, StateOffer
  <2>9. q[i + 1].stream.state # "Idle"
    BY <2>5, <2>8 DEF Fits
  <2> QED
    BY <2>6, <2>8, <2>9
<1>5. Nat \subseteq S
  <2> HIDE DEF S
  <2> QED
    BY <1>3, <1>4, NatSetInduction
<1>6. Good(n)
  BY <1>1, <1>5
<1>7. q[n] \in Queues /\ Queued(frames) = q[n]
  BY <1>1, <1>2 DEF Queued, q, n
<1>8. frames # <<>> => n > 0
  BY <1>1 DEF n
<1> QED
  BY <1>6, <1>7, <1>8

-----------------------------------------------------------------------------
(* The bytes queued for a stream.                                          *)

(* Concatenations, element by element.                                     *)
LEMMA ConcatFacts ==
  ASSUME NEW S, NEW u \in Seq(S), NEW t \in Seq(S)
  PROVE  /\ u \o t \in Seq(S) /\ Len(u \o t) = Len(u) + Len(t)
         /\ Len(u) \in Nat /\ Len(t) \in Nat
         /\ \A i \in 1 .. Len(u) : (u \o t)[i] = u[i]
         /\ \A i \in 1 .. Len(t) : (u \o t)[Len(u) + i] = t[i]
OBVIOUS

(* What is the concatenation element by element is the concatenation.      *)
LEMMA ConcatIs ==
  ASSUME NEW S, NEW u \in Seq(S), NEW t \in Seq(S), NEW w \in Seq(S), Len(w) = Len(u) + Len(t),
         \A i \in 1 .. Len(u) : w[i] = u[i], \A i \in 1 .. Len(t) : w[Len(u) + i] = t[i]
  PROVE  w = u \o t
<1> DEFINE v == u \o t
<1>1. /\ v \in Seq(S) /\ Len(v) = Len(u) + Len(t)
      /\ Len(u) \in Nat /\ Len(t) \in Nat
      /\ \A i \in 1 .. Len(u) : v[i] = u[i]
      /\ \A i \in 1 .. Len(t) : v[Len(u) + i] = t[i]
  BY ConcatFacts
<1> HIDE DEF v
<1>2. ASSUME NEW i \in 1 .. Len(u) + Len(t) PROVE w[i] = v[i]
  <2>1. CASE i <= Len(u)
    BY <1>1, <2>1
  <2>2. CASE i > Len(u)
    <3>1. i - Len(u) \in 1 .. Len(t) /\ Len(u) + (i - Len(u)) = i
      BY <1>1, <2>2
    <3>2. w[Len(u) + (i - Len(u))] = v[Len(u) + (i - Len(u))]
      BY <1>1, <3>1
    <3> QED
      BY <3>1, <3>2
  <2> QED
    BY <1>1, <2>1, <2>2
<1>3. w = v
  BY <1>1, <1>2
<1> QED
  BY <1>3 DEF v

Item == [frame : FrameSet, life : Nat, call : Nat, waits : BOOLEAN]

(* Of what the channel carries.                                            *)
LEMMA ConcatItems ==
  ASSUME NEW u \in Seq(Item), NEW t \in Seq(Item)
  PROVE  /\ u \o t \in Seq(Item) /\ Len(u \o t) = Len(u) + Len(t)
         /\ Len(u) \in Nat /\ Len(t) \in Nat
         /\ \A i \in 1 .. Len(u) : (u \o t)[i] = u[i]
         /\ \A i \in 1 .. Len(t) : (u \o t)[Len(u) + i] = t[i]
OBVIOUS

SizesOf(items, number) ==
  [i \in DOMAIN items |->
     IF i \in {j \in DOMAIN items : items[j].life = number} THEN items[i].frame.size ELSE 0]

BytesOf(items, number) == Sums(SizesOf(items, number))[Len(items)]

(* One size for each item, 0 for those of other streams.                   *)
LEMMA SizesAreSeq ==
  ASSUME NEW items \in Seq(Item), NEW number
  PROVE  /\ SizesOf(items, number) \in Seq(Int)
         /\ Len(SizesOf(items, number)) = Len(items)
<1>1. \A i \in 1 .. Len(items) : items[i].frame.size \in Int
  <2>1. \A i \in 1 .. Len(items) : items[i] \in Item
    OBVIOUS
  <2> QED
    BY <2>1 DEF Item, FrameSet
<1> QED
  BY <1>1 DEF SizesOf

(* The bytes of the present stream.                                        *)
LEMMA BytesAreOf == Bytes = BytesOf(out, life)
BY DEF Bytes, BytesOf, SizesOf, Frames

(* They are a number,                                                      *)
LEMMA BytesInt ==
  ASSUME NEW items \in Seq(Item), NEW number
  PROVE  BytesOf(items, number) \in Int
<1> DEFINE s == SizesOf(items, number)
<1>1. s \in Seq(Int) /\ Len(s) = Len(items)
  BY SizesAreSeq
<1> HIDE DEF s
<1>2. Sums(s) \in [0 .. Len(s) -> Int] /\ Len(s) \in 0 .. Len(s)
  BY <1>1, SumsDef
<1> QED
  BY <1>1, <1>2 DEF BytesOf, s

(* none for a stream that has queued nothing,                              *)
LEMMA BytesOfNew ==
  ASSUME NEW items \in Seq(Item), NEW number, \A i \in 1 .. Len(items) : items[i].life # number
  PROVE  BytesOf(items, number) = 0
<1> DEFINE s == SizesOf(items, number)
<1>1. s \in Seq(Int) /\ Len(s) = Len(items)
  BY SizesAreSeq
<1>2. \A i \in 1 .. Len(items) : s[i] = 0
  BY DEF SizesOf
<1> HIDE DEF s
<1> QED
  BY <1>1, <1>2, SumsZero DEF BytesOf, s

(* and grow by the sizes of the frames queued.                             *)
LEMMA BytesOfMore ==
  ASSUME NEW items \in Seq(Item), NEW number, NEW frames \in Seq(FrameSet), NEW more \in Seq(Item),
         Len(more) = Len(frames),
         \A i \in 1 .. Len(frames) : more[i].life = number /\ more[i].frame = frames[i]
  PROVE  BytesOf(items \o more, number) = BytesOf(items, number) + Sum(frames)
<1> DEFINE u == SizesOf(items, number)
<1> DEFINE w == SizesOf(items \o more, number)
<1> DEFINE t == [i \in DOMAIN frames |-> frames[i].size]
<1>1. u \in Seq(Int) /\ Len(u) = Len(items)
  BY SizesAreSeq
<1>2. items \o more \in Seq(Item) /\ Len(items \o more) = Len(items) + Len(frames)
  <2>1. items \o more \in Seq(Item) /\ Len(items \o more) = Len(items) + Len(more)
    BY ConcatFacts, Zenon
  <2> QED
    BY <2>1
<1>3. w \in Seq(Int) /\ Len(w) = Len(items) + Len(frames)
  BY <1>2, SizesAreSeq
<1>4. t \in Seq(Int) /\ Len(t) = Len(frames)
  <2>1. \A i \in 1 .. Len(frames) : frames[i] \in FrameSet
    OBVIOUS
  <2> QED
    BY <2>1 DEF FrameSet
<1>5. \A i \in 1 .. Len(items) : w[i] = u[i]
  BY DEF SizesOf
<1>6. \A i \in 1 .. Len(frames) : w[Len(items) + i] = t[i]
  BY DEF SizesOf
<1> HIDE DEF u, w, t
<1>7. w = u \o t
  <2>1. /\ Len(w) = Len(u) + Len(t)
        /\ \A i \in 1 .. Len(u) : w[i] = u[i]
        /\ \A i \in 1 .. Len(t) : w[Len(u) + i] = t[i]
    BY <1>1, <1>3, <1>4, <1>5, <1>6
  <2> QED
    BY <1>1, <1>3, <1>4, <2>1, ConcatIs, Zenon
<1>8. Sums(u \o t)[Len(u) + Len(t)] = Sums(u)[Len(u)] + Sums(t)[Len(t)]
  <2>1. Len(t) \in 0 .. Len(t)
    BY <1>4
  <2> QED
    BY <1>1, <1>4, <2>1, SumsConcat
<1>9. Sum(frames) = Sums(t)[Len(t)] /\ BytesOf(items, number) = Sums(u)[Len(u)]
  BY <1>1, <1>4 DEF Sum, BytesOf, t, u
<1>10. BytesOf(items \o more, number) = Sums(w)[Len(u) + Len(t)]
  BY <1>1, <1>2, <1>4 DEF BytesOf, w
<1> QED
  BY <1>7, <1>8, <1>9, <1>10

-----------------------------------------------------------------------------
(* The invariant.                                                          *)

Statuses == {"unwaited", "waiting", "answered"}

TypeOK ==
  /\ life \in Nat /\ stream \in StreamSet /\ window \in Int
  /\ out \in Seq(Item) /\ written \in 0 .. Len(out)
  /\ calls \in Seq(Statuses) /\ message \in {"headers", "body", "done"}
  /\ credit \in Nat /\ resetRecv \in BOOLEAN

WindowHolds == window >= Lowest /\ window + Bytes <= SendDefault + credit

HeadersFirst == message # "headers" => stream.state # "Idle"

LastWaits ==
  /\ \A i \in 1 .. Len(out) : out[i].life <= life /\ out[i].call \in 1 .. Len(calls)
  /\ \A i, j \in 1 .. Len(out) : out[i].waits /\ out[i].call = out[j].call => j <= i

IInv ==
  /\ TypeOK /\ WindowHolds /\ NeverOversends
  /\ StateFromFrames /\ HeadersFirst
  /\ LastWaits /\ AnswerFollowsWholeCall

(* An int32_t that wraps is smaller than the sum it stands for.            *)
LEMMA WrapFacts ==
  ASSUME NEW x \in Int, x >= Lowest
  PROVE  Wrap(x) \in Int /\ Wrap(x) >= Lowest /\ Wrap(x) <= x
<1> DEFINE half == SendWord \div 2
<1>1. half \in Nat /\ SendWord \in Nat \ {0}
  BY SendAssumption
<1> HIDE DEF half
<1>2. x + half \in Nat
  BY <1>1 DEF Lowest, half
<1>3. \A y \in Nat : y % SendWord \in Nat /\ y % SendWord <= y
  BY <1>1
<1>4. (x + half) % SendWord \in Nat /\ (x + half) % SendWord <= x + half
  BY <1>2, <1>3
<1>5. Wrap(x) = ((x + half) % SendWord) - half /\ Lowest = -half
  BY DEF Wrap, Lowest, half
<1> QED
  BY <1>1, <1>4, <1>5

(* A stream begins as if it had no frames.                                 *)
LEMMA StartsFacts ==
  ASSUME NEW s \in Starts
  PROVE  s \in StreamSet /\ StateIs(s, FALSE, FALSE)
<1>1. Fresh \in StreamSet /\ Fresh.state = "Idle" /\ ~Fresh.endSent /\ ~Fresh.endRecv
  BY DEF Fresh, StreamSet
<1>2. CASE s = Fresh
  BY <1>1, <1>2 DEF StateIs
<1>3. ASSUME NEW end \in BOOLEAN, s = OnHeadersReceived(Fresh, end)
      PROVE  s \in StreamSet /\ StateIs(s, FALSE, FALSE)
  <2> DEFINE opensIt == [Fresh EXCEPT !.state = "Open"]
  <2>1. opensIt \in StreamSet /\ opensIt.state = "Open" /\ ~opensIt.endSent /\ ~opensIt.endRecv
    BY <1>1 DEF StreamSet
  <2>2. s = IF end THEN PeerEnds(opensIt) ELSE opensIt
    BY <1>1, <1>3 DEF OnHeadersReceived
  <2> HIDE DEF opensIt
  <2> QED
    BY <2>1, <2>2 DEF PeerEnds, StreamSet, StateIs
<1> QED
  BY <1>2, <1>3 DEF Starts

(* The invariant holds at first.                                           *)
LEMMA InitIInv == Init => IInv
<1> SUFFICES ASSUME Init PROVE IInv
  OBVIOUS
<1>1. out = <<>> /\ calls = <<>> /\ life = 1 /\ window = SendDefault /\ credit = 0
      /\ message = "headers" /\ written = 0 /\ resetRecv = FALSE
  BY DEF Init
<1>2. stream \in StreamSet /\ StateIs(stream, FALSE, FALSE)
  BY StartsFacts DEF Init
<1>0. SendDefault \in Int
  BY SendAssumption
<1>3. TypeOK
  <2>1. out \in Seq(Item) /\ Len(out) = 0 /\ calls \in Seq(Statuses)
    BY <1>1
  <2>2. written \in 0 .. Len(out) /\ life \in Nat /\ credit \in Nat
    BY <1>1, <2>1
  <2>3. message \in {"headers", "body", "done"} /\ resetRecv \in BOOLEAN /\ window \in Int
    BY <1>0, <1>1
  <2> QED
    BY <1>2, <2>1, <2>2, <2>3 DEF TypeOK
<1>4. Bytes = 0
  <2>1. out \in Seq(Item) /\ \A i \in 1 .. Len(out) : out[i].life # life
    BY <1>1
  <2> QED
    BY <2>1, BytesAreOf, BytesOfNew
<1>5. ~Ended /\ ~Reset
  BY <1>1 DEF Ended, Reset, Frames
<1>6. StateFromFrames
  BY <1>2, <1>5 DEF StateIs, StateFromFrames
<1>7. WindowHolds /\ NeverOversends
  BY <1>1, <1>4, SendAssumption DEF WindowHolds, NeverOversends, Lowest
<1> QED
  BY <1>1, <1>3, <1>6, <1>7 DEF IInv, HeadersFirst, LastWaits, AnswerFollowsWholeCall

(* What the channel gets of a call.                                        *)
LEMMA TagFacts ==
  ASSUME NEW frames \in Seq(FrameSet), NEW waits \in BOOLEAN, life \in Nat, calls \in Seq(Statuses)
  PROVE  /\ Tag(frames, waits) \in Seq(Item) /\ Len(Tag(frames, waits)) = Len(frames)
         /\ \A i \in 1 .. Len(frames) :
              /\ Tag(frames, waits)[i].frame = frames[i] /\ Tag(frames, waits)[i].life = life
              /\ Tag(frames, waits)[i].call = Len(calls) + 1
              /\ Tag(frames, waits)[i].waits <=> waits /\ i = Len(frames)
<1>1. \A i \in 1 .. Len(frames) : frames[i] \in FrameSet
  OBVIOUS
<1>2. Len(calls) + 1 \in Nat
  OBVIOUS
<1>3. \A i \in 1 .. Len(frames) :
        [frame |-> frames[i], life |-> life, call |-> Len(calls) + 1,
         waits |-> waits /\ i = Len(frames)] \in Item
  BY <1>1, <1>2 DEF Item
<1> DEFINE tag == Tag(frames, waits)
<1>4. tag = [i \in 1 .. Len(frames) |->
               [frame |-> frames[i], life |-> life, call |-> Len(calls) + 1,
                waits |-> waits /\ i = Len(frames)]]
  BY DEF Tag
<1> HIDE DEF tag
<1>5. tag \in Seq(Item) /\ Len(tag) = Len(frames)
  BY <1>3, <1>4
<1>6. \A i \in 1 .. Len(frames) :
        /\ tag[i].frame = frames[i] /\ tag[i].life = life /\ tag[i].call = Len(calls) + 1
        /\ tag[i].waits <=> waits /\ i = Len(frames)
  BY <1>4
<1> QED
  BY <1>5, <1>6 DEF tag

EndedIn(items, number) ==
  \E i \in 1 .. Len(items) : items[i].life = number /\ items[i].frame.end
ResetIn(items, number) ==
  \E i \in 1 .. Len(items) : items[i].life = number /\ items[i].frame.kind = "rst"

(* END_STREAM and RST_STREAM in the channel, for the present stream,       *)
LEMMA HistoryOf ==
  ASSUME out \in Seq(Item)
  PROVE  /\ Ended <=> EndedIn(out, life)
         /\ Reset <=> resetRecv \/ ResetIn(out, life)
<1>1. DOMAIN out = 1 .. Len(out)
  OBVIOUS
<1> QED
  BY <1>1 DEF Ended, Reset, Frames, EndedIn, ResetIn

(* for the stream after a step,                                            *)
LEMMA HistoryOfNext ==
  ASSUME TypeOK'
  PROVE  /\ Ended' <=> EndedIn(out', life')
         /\ Reset' <=> resetRecv' \/ ResetIn(out', life')
<1>1. out' \in Seq(Item)
  BY DEF TypeOK
<1>2. DOMAIN out' = 1 .. Len(out')
  BY <1>1
<1> QED
  BY <1>2 DEF Ended, Reset, Frames, EndedIn, ResetIn

(* and when frames are queued.                                             *)
LEMMA HistoryOfMore ==
  ASSUME NEW items \in Seq(Item), NEW number, NEW frames \in Seq(FrameSet), NEW more \in Seq(Item),
         Len(more) = Len(frames),
         \A i \in 1 .. Len(frames) : more[i].life = number /\ more[i].frame = frames[i]
  PROVE  /\ EndedIn(items \o more, number) <=> EndedIn(items, number) \/ EndIn(frames)
         /\ ResetIn(items \o more, number) <=> ResetIn(items, number) \/ RstIn(frames)
<1> DEFINE w == items \o more
<1>1. /\ Len(w) = Len(items) + Len(more) /\ Len(items) \in Nat /\ Len(more) \in Nat
      /\ \A i \in 1 .. Len(items) : w[i] = items[i]
      /\ \A i \in 1 .. Len(more) : w[Len(items) + i] = more[i]
  BY ConcatItems, Zenon
<1> HIDE DEF w
<1>2. \A i \in 1 .. Len(frames) : /\ Len(items) + i \in 1 .. Len(w)
                                  /\ w[Len(items) + i].life = number
                                  /\ w[Len(items) + i].frame = frames[i]
  <2>1. ASSUME NEW i \in 1 .. Len(frames)
        PROVE  Len(items) + i \in 1 .. Len(w) /\ w[Len(items) + i] = more[i]
    <3>1. i \in 1 .. Len(more) /\ i \in Nat
      OBVIOUS
    <3>2. w[Len(items) + i] = more[i]
      BY <1>1, <3>1
    <3>3. Len(items) + i \in 1 .. Len(items) + Len(more)
      BY <1>1, <3>1
    <3> QED
      BY <1>1, <3>2, <3>3
  <2> QED
    BY <2>1
<1>3. \A i \in 1 .. Len(items) : i \in 1 .. Len(w) /\ w[i] = items[i]
  BY <1>1
<1>4. ASSUME NEW i \in 1 .. Len(w)
      PROVE  \/ i \in 1 .. Len(items)
             \/ \E j \in 1 .. Len(frames) : w[i].frame = frames[j]
  <2>1. CASE i \in 1 .. Len(items)
    BY <2>1, <1>3
  <2>2. CASE i \notin 1 .. Len(items)
    <3>1. i - Len(items) \in 1 .. Len(frames) /\ Len(items) + (i - Len(items)) = i
      BY <1>1, <2>2
    <3>2. w[Len(items) + (i - Len(items))].frame = frames[i - Len(items)]
      BY <1>2, <3>1
    <3> QED
      BY <3>1, <3>2
  <2> QED
    BY <2>1, <2>2
<1>5. EndedIn(w, number) <=> EndedIn(items, number) \/ EndIn(frames)
  BY <1>2, <1>3, <1>4 DEF EndedIn, EndIn
<1>6. ResetIn(w, number) <=> ResetIn(items, number) \/ RstIn(frames)
  <2>1. ASSUME ResetIn(w, number) PROVE ResetIn(items, number) \/ RstIn(frames)
    BY <2>1, <1>3, <1>4 DEF ResetIn, RstIn
  <2>2. ASSUME ResetIn(items, number) PROVE ResetIn(w, number)
    BY <2>2, <1>3 DEF ResetIn
  <2>3. ASSUME RstIn(frames) PROVE ResetIn(w, number)
    BY <2>3, <1>2 DEF ResetIn, RstIn
  <2> QED
    BY <2>1, <2>2, <2>3
<1> QED
  BY <1>5, <1>6 DEF w

(* A frame there is.                                                       *)
LEMMA AFrame == Frame("rst", 0, FALSE) \in FrameSet
BY DEF Frame, FrameSet

(* A call, whatever its frames, keeps the invariant.                       *)
LEMMA QueueKeeps ==
  ASSUME IInv, NEW frames, IsCall(frames), Opening(frames),
         NEW waits \in BOOLEAN, NEW notifies \in BOOLEAN, Queue(frames, waits, notifies),
         message' \in {"headers", "body", "done"}, frames # <<>> \/ message # "headers"
  PROVE  IInv'
<1> DEFINE q == Queued(frames)
<1> DEFINE tag == Tag(q.frames, waits)
<1>1. /\ stream' = q.stream /\ window' = q.window /\ out' = out \o tag
      /\ life' = life /\ written' = written /\ credit' = credit /\ resetRecv' = resetRecv
  BY DEF Queue, peerVars
<1>2. \E status \in Statuses :
        /\ calls' = Append(calls, status)
        /\ status = "answered" => q.frames = <<>>
  <2> DEFINE status == CASE ~waits -> "unwaited"
                         [] waits /\ q.frames = <<>> /\ notifies -> "answered"
                         [] OTHER -> "waiting"
  <2>1. calls' = Append(calls, status)
    BY DEF Queue
  <2>2. status \in Statuses /\ (status = "answered" => q.frames = <<>>)
    BY DEF Statuses
  <2> HIDE DEF status, q
  <2> QED
    BY <2>1, <2>2
<1>3. PICK status \in Statuses : /\ calls' = Append(calls, status)
                                 /\ status = "answered" => q.frames = <<>>
  BY <1>2
<1>4. TypeOK
  BY DEF IInv
<1>5. Bytes \in Int
  BY <1>4, BytesAreOf, BytesInt DEF TypeOK
<1>6. WithinWindow(Start)
  BY SumEmpty, <1>4, <1>5, SendAssumption DEF WithinWindow, Start, IInv, WindowHolds, NeverOversends, TypeOK
<1>7. Follows(Start)
  <2>1. ~EndIn(<<>>) /\ ~RstIn(<<>>)
    BY DEF EndIn, RstIn
  <2> QED
    BY <2>1 DEF Follows, Start, StateIs, IInv, StateFromFrames
<1>8. /\ q \in Queues /\ WithinWindow(q) /\ Follows(q)
      /\ frames # <<>> \/ stream.state # "Idle" => q.stream.state # "Idle"
  BY <1>4, <1>5, <1>6, <1>7, QueuedKeeps DEF TypeOK
<1> HIDE DEF q
<1>9. q.stream \in StreamSet /\ q.window \in Int /\ q.frames \in Seq(FrameSet)
  BY <1>8 DEF Queues
<1>10. /\ tag \in Seq(Item) /\ Len(tag) = Len(q.frames)
       /\ \A i \in 1 .. Len(q.frames) :
            /\ tag[i].frame = q.frames[i] /\ tag[i].life = life
            /\ tag[i].call = Len(calls) + 1
            /\ tag[i].waits <=> waits /\ i = Len(q.frames)
  BY <1>4, <1>9, TagFacts DEF TypeOK
<1> HIDE DEF tag
<1>11. /\ out \o tag \in Seq(Item) /\ Len(out \o tag) = Len(out) + Len(q.frames)
       /\ Len(out) \in Nat /\ Len(q.frames) \in Nat
       /\ \A i \in 1 .. Len(out) : (out \o tag)[i] = out[i]
       /\ \A i \in 1 .. Len(q.frames) : (out \o tag)[Len(out) + i] = tag[i]
  <2>1. out \in Seq(Item) /\ tag \in Seq(Item) /\ Len(tag) = Len(q.frames)
    BY <1>4, <1>10 DEF TypeOK
  <2>2. /\ out \o tag \in Seq(Item) /\ Len(out \o tag) = Len(out) + Len(tag)
        /\ Len(out) \in Nat /\ Len(tag) \in Nat
        /\ \A i \in 1 .. Len(out) : (out \o tag)[i] = out[i]
        /\ \A i \in 1 .. Len(tag) : (out \o tag)[Len(out) + i] = tag[i]
    BY <2>1, ConcatItems, Zenon
  <2> QED
    BY <2>1, <2>2
<1>12. \A i \in 1 .. Len(out) + Len(q.frames) :
         \/ i \in 1 .. Len(out)
         \/ i - Len(out) \in 1 .. Len(q.frames) /\ i = Len(out) + (i - Len(out))
  BY <1>11
<1>13. /\ out' \in Seq(Item) /\ Len(out') = Len(out) + Len(q.frames)
       /\ \A i \in 1 .. Len(out) : out'[i] = out[i]
       /\ \A i \in 1 .. Len(q.frames) : out'[Len(out) + i] = tag[i]
  BY <1>1, <1>11
<1>14. /\ calls' \in Seq(Statuses) /\ Len(calls') = Len(calls) + 1 /\ Len(calls) \in Nat
       /\ calls'[Len(calls) + 1] = status
       /\ \A c \in 1 .. Len(calls) : calls'[c] = calls[c]
  BY <1>3, <1>4 DEF TypeOK
<1>15. TypeOK'
  <2>1. written' \in 0 .. Len(out')
    BY <1>1, <1>4, <1>11, <1>13 DEF TypeOK
  <2> QED
    BY <2>1, <1>1, <1>4, <1>9, <1>13, <1>14 DEF TypeOK
<1>16. Bytes' = Bytes + Sum(q.frames)
  <2>1. Bytes' = BytesOf(out', life')
    BY DEF Bytes, BytesOf, SizesOf, Frames
  <2>2. BytesOf(out \o tag, life) = BytesOf(out, life) + Sum(q.frames)
    BY <1>4, <1>9, <1>10, BytesOfMore DEF TypeOK
  <2> QED
    BY <1>1, <2>1, <2>2, BytesAreOf
<1>17. WindowHolds' /\ NeverOversends'
  <2>1. Lowest' = Lowest /\ SendDefault' = SendDefault
    BY DEF Lowest
  <2>2. Sum(q.frames) \in Int
    BY <1>9, AFrame, SumAppend
  <2>3. q.window >= Lowest /\ q.window + Bytes + Sum(q.frames) <= SendDefault + credit
        /\ Bytes + Sum(q.frames) <= SendDefault + credit
    BY <1>8 DEF WithinWindow
  <2>4. q.window + (Bytes + Sum(q.frames)) = q.window + Bytes + Sum(q.frames)
    BY <1>5, <1>9, <2>2
  <2> QED
    BY <1>1, <1>16, <2>1, <2>3, <2>4 DEF WindowHolds, NeverOversends
<1>18. /\ Ended' <=> Ended \/ EndIn(q.frames)
       /\ Reset' <=> Reset \/ RstIn(q.frames)
  <2>1. /\ Ended <=> EndedIn(out, life)
        /\ Reset <=> resetRecv \/ ResetIn(out, life)
    BY <1>4, HistoryOf DEF TypeOK
  <2>2. /\ Ended' <=> EndedIn(out', life')
        /\ Reset' <=> resetRecv' \/ ResetIn(out', life')
    BY <1>15, HistoryOfNext
  <2>3. /\ EndedIn(out \o tag, life) <=> EndedIn(out, life) \/ EndIn(q.frames)
        /\ ResetIn(out \o tag, life) <=> ResetIn(out, life) \/ RstIn(q.frames)
    BY <1>4, <1>9, <1>10, HistoryOfMore DEF TypeOK
  <2> QED
    BY <1>1, <2>1, <2>2, <2>3
<1>19. StateFromFrames'
  <2>1. StateIs(q.stream, Ended', Reset')
    BY <1>8, <1>18 DEF Follows, StateIs
  <2> QED
    BY <1>1, <2>1 DEF StateFromFrames, StateIs
<1>20. HeadersFirst'
  BY <1>1, <1>8 DEF HeadersFirst, IInv
<1>21. LastWaits'
  <2>1. ASSUME NEW i \in 1 .. Len(out')
        PROVE  /\ out'[i].life <= life /\ out'[i].call \in 1 .. Len(calls')
               /\ i \in 1 .. Len(out) => out'[i].call \in 1 .. Len(calls)
               /\ i \notin 1 .. Len(out) =>
                    /\ out'[i].call = Len(calls) + 1
                    /\ out'[i].waits => i = Len(out')
    <3>1. CASE i \in 1 .. Len(out)
      BY <3>1, <1>13, <1>14 DEF IInv, LastWaits
    <3>2. CASE i \notin 1 .. Len(out)
      <4>1. i - Len(out) \in 1 .. Len(q.frames) /\ i = Len(out) + (i - Len(out))
        BY <3>2, <1>12, <1>13
      <4> DEFINE j == i - Len(out)
      <4>2. out'[i] = tag[j] /\ j \in 1 .. Len(q.frames)
        BY <4>1, <1>13
      <4>3. tag[j].life = life /\ tag[j].call = Len(calls) + 1 /\ (tag[j].waits => j = Len(q.frames))
        BY <4>2, <1>10
      <4> QED
        BY <3>2, <4>1, <4>2, <4>3, <1>4, <1>11, <1>13, <1>14 DEF TypeOK
    <3> QED
      BY <3>1, <3>2
  <2>2. ASSUME NEW i \in 1 .. Len(out'), NEW j \in 1 .. Len(out'),
               out'[i].waits, out'[i].call = out'[j].call
        PROVE  j <= i
    <3>1. CASE i \in 1 .. Len(out) /\ j \in 1 .. Len(out)
      BY <3>1, <2>2, <1>13 DEF IInv, LastWaits
    <3>2. CASE i \notin 1 .. Len(out)
      BY <3>2, <2>1, <2>2, <1>11, <1>13
    <3>3. CASE i \in 1 .. Len(out) /\ j \notin 1 .. Len(out)
      BY <3>3, <2>1, <2>2, <1>14
    <3> QED
      BY <3>1, <3>2, <3>3
  <2> QED
    BY <1>1, <2>1, <2>2 DEF LastWaits
<1>22. AnswerFollowsWholeCall'
  <2>1. SUFFICES ASSUME NEW c \in 1 .. Len(calls'), calls'[c] = "answered",
                        NEW i \in written + 1 .. Len(out'), out'[i].call = c
                 PROVE  FALSE
    BY <1>1, <1>15 DEF AnswerFollowsWholeCall, TypeOK
  <2>2. i \in 1 .. Len(out')
    BY <1>4, <1>11, <1>13 DEF TypeOK
  <2>3. CASE i \in 1 .. Len(out)
    <3>1. out[i].call = c /\ c \in 1 .. Len(calls)
      BY <2>1, <2>3, <1>13 DEF IInv, LastWaits
    <3>2. calls[c] = "answered" /\ c \in DOMAIN calls /\ i \in written + 1 .. Len(out)
      BY <2>1, <2>3, <3>1, <1>4, <1>14 DEF TypeOK
    <3> QED
      BY <3>1, <3>2 DEF IInv, AnswerFollowsWholeCall
  <2>4. CASE i \notin 1 .. Len(out)
    <3>1. i - Len(out) \in 1 .. Len(q.frames) /\ i = Len(out) + (i - Len(out))
      BY <2>2, <2>4, <1>12, <1>13
    <3> DEFINE j == i - Len(out)
    <3>2. out'[i] = tag[j] /\ j \in 1 .. Len(q.frames)
      BY <3>1, <1>13
    <3>3. c = Len(calls) + 1
      BY <2>1, <3>2, <1>10
    <3>4. q.frames = <<>>
      BY <2>1, <3>3, <1>3, <1>14
    <3> QED
      BY <3>2, <3>4
  <2> QED
    BY <2>3, <2>4
<1> QED
  BY <1>15, <1>17, <1>19, <1>20, <1>21, <1>22 DEF IInv

-----------------------------------------------------------------------------
(* The calls: what they offer are frames, HEADERS or RST_STREAM first on a *)
(* stream that is idle.                                                    *)

(* DATA frames.                                                            *)
LEMMA DataFacts ==
  ASSUME NEW chunks \in Seq(Nat), NEW end \in BOOLEAN
  PROVE  IsCall(DataFrames(chunks, end))
<1> DEFINE frames == DataFrames(chunks, end)
<1>1. \A i \in 1 .. Len(chunks) : IsFrame(Frame("data", chunks[i], end /\ i = Len(chunks)))
  BY DEF IsFrame, FrameSet, Frame
<1>2. frames = [i \in 1 .. Len(chunks) |-> Frame("data", chunks[i], end /\ i = Len(chunks))]
  BY DEF DataFrames
<1> HIDE DEF frames
<1>3. \A i \in 1 .. Len(chunks) : frames[i] \in FrameSet /\ IsFrame(frames[i])
  BY <1>1, <1>2 DEF IsFrame
<1>4. frames \in Seq(FrameSet) /\ Len(frames) = Len(chunks)
  BY <1>2, <1>3
<1> QED
  BY <1>3, <1>4 DEF IsCall, frames

(* Single frames.                                                          *)
LEMMA OneFrame ==
  ASSUME NEW end \in BOOLEAN
  PROVE  /\ IsCall(HeadersFrame(end)) /\ Opening(HeadersFrame(end)) /\ HeadersFrame(end) # <<>>
         /\ IsCall(RstFrame) /\ Opening(RstFrame) /\ RstFrame # <<>>
         /\ IsCall(EndFrame) /\ EndFrame # <<>>
<1> DEFINE f == Frame("headers", 0, end)
<1> DEFINE g == Frame("rst", 0, FALSE)
<1> DEFINE h == Frame("empty", 0, TRUE)
<1>1. f \in FrameSet /\ IsFrame(f) /\ f.kind = "headers" /\ HeadersFrame(end) = <<f>>
  BY DEF FrameSet, IsFrame, Frame, HeadersFrame
<1>2. g \in FrameSet /\ IsFrame(g) /\ g.kind = "rst" /\ RstFrame = <<g>>
  BY DEF FrameSet, IsFrame, Frame, RstFrame
<1>3. h \in FrameSet /\ IsFrame(h) /\ EndFrame = <<h>>
  BY DEF FrameSet, IsFrame, Frame, EndFrame
<1> HIDE DEF f, g, h
<1>4. \A x \in FrameSet : /\ <<x>> \in Seq(FrameSet) /\ Len(<<x>>) = 1 /\ <<x>>[1] = x
                          /\ <<x>> # <<>>
  OBVIOUS
<1>5. \A x \in FrameSet : IsFrame(x) => IsCall(<<x>>)
  BY <1>4 DEF IsCall
<1> QED
  BY <1>1, <1>2, <1>3, <1>4, <1>5 DEF Opening

(* Frames after frames.                                                    *)
LEMMA TwoParts ==
  ASSUME NEW u, NEW t, IsCall(u), IsCall(t)
  PROVE  /\ IsCall(u \o t)
         /\ Opening(u) /\ u # <<>> => Opening(u \o t) /\ u \o t # <<>>
<1>1. u \in Seq(FrameSet) /\ t \in Seq(FrameSet)
  BY DEF IsCall
<1> DEFINE w == u \o t
<1>2. /\ w \in Seq(FrameSet) /\ Len(w) = Len(u) + Len(t)
      /\ Len(u) \in Nat /\ Len(t) \in Nat
      /\ \A i \in 1 .. Len(u) : w[i] = u[i]
      /\ \A i \in 1 .. Len(t) : w[Len(u) + i] = t[i]
  BY <1>1, ConcatFacts
<1> HIDE DEF w
<1>3. ASSUME NEW i \in 1 .. Len(w) PROVE IsFrame(w[i])
  <2>1. CASE i \in 1 .. Len(u)
    BY <2>1, <1>2 DEF IsCall
  <2>2. CASE i \notin 1 .. Len(u)
    <3>1. i - Len(u) \in 1 .. Len(t) /\ Len(u) + (i - Len(u)) = i
      BY <1>2, <2>2
    <3>2. w[Len(u) + (i - Len(u))] = t[i - Len(u)] /\ IsFrame(t[i - Len(u)])
      BY <1>2, <3>1 DEF IsCall
    <3> QED
      BY <3>1, <3>2
  <2> QED
    BY <2>1, <2>2
<1>4. u # <<>> => 1 \in 1 .. Len(u)
  BY <1>1
<1>5. u # <<>> => w # <<>> /\ w[1] = u[1]
  BY <1>2, <1>4
<1> QED
  BY <1>2, <1>3, <1>5 DEF IsCall, Opening, w

(* A body is a sequence of sizes,                                          *)
LEMMA BodiesFacts ==
  ASSUME NEW chunks \in Bodies
  PROVE  chunks \in Seq(Nat)
<1>1. PICK m \in 0 .. MaxChunks : chunks \in [1 .. m -> Sizes]
  BY DEF Bodies, SeqOf
<1>2. m \in Nat /\ \A i \in 1 .. m : chunks[i] \in Nat
  <2>1. Sizes \subseteq Nat /\ MaxChunks \in Nat
    BY SendAssumption
  <2>2. \A i \in 1 .. m : chunks[i] \in Sizes
    BY <1>1
  <2>3. m \in Nat
    BY <2>1
  <2> QED
    BY <2>1, <2>2, <2>3
<1>3. chunks \in [1 .. m -> Nat]
  BY <1>1, <1>2
<1> QED
  BY <1>2, <1>3

(* or one size.                                                            *)
LEMMA SizeFacts ==
  ASSUME NEW size \in Sizes
  PROVE  size \in Nat /\ <<size>> \in Seq(Nat)
BY SendAssumption

(* No frames are a call too.                                               *)
LEMMA EmptyCall == IsCall(<<>>)
BY DEF IsCall

(* HEADERS with a body of one chunk,                                       *)
LEMMA HeadersAndDataFacts ==
  ASSUME NEW size \in Nat
  PROVE  LET frames == HeadersAndData(size)
         IN  IsCall(frames) /\ Opening(frames) /\ frames # <<>>
<1> DEFINE body == IF size = 0 THEN <<>> ELSE DataFrames(<<size>>, TRUE)
<1>1. IsCall(body)
  <2>1. <<size>> \in Seq(Nat)
    OBVIOUS
  <2> QED
    BY <2>1, DataFacts, EmptyCall
<1>2. /\ IsCall(HeadersFrame(size = 0)) /\ Opening(HeadersFrame(size = 0))
      /\ HeadersFrame(size = 0) # <<>>
  BY OneFrame
<1>3. HeadersAndData(size) = HeadersFrame(size = 0) \o body
  BY DEF HeadersAndData
<1> HIDE DEF body
<1> QED
  BY <1>1, <1>2, <1>3, TwoParts

(* of several chunks,                                                      *)
LEMMA HeadersAndChunksFacts ==
  ASSUME NEW chunks \in Seq(Nat)
  PROVE  LET frames == HeadersAndChunks(chunks)
         IN  IsCall(frames) /\ Opening(frames) /\ frames # <<>>
<1>1. CASE Len(chunks) = 1
  <2>1. HeadersAndChunks(chunks) = HeadersAndData(chunks[1])
    BY <1>1 DEF HeadersAndChunks
  <2>2. 1 \in 1 .. Len(chunks)
    BY <1>1
  <2>3. chunks[1] \in Nat
    BY <2>2
  <2> QED
    BY <2>1, <2>3, HeadersAndDataFacts
<1>2. CASE Len(chunks) # 1
  <2> DEFINE head == HeadersFrame(chunks = <<>>)
  <2>1. HeadersAndChunks(chunks) = head \o DataFrames(chunks, TRUE)
    BY <1>2 DEF HeadersAndChunks
  <2>2. IsCall(head) /\ Opening(head) /\ head # <<>>
    BY OneFrame
  <2> HIDE DEF head
  <2> QED
    BY <2>1, <2>2, DataFacts, TwoParts
<1> QED
  BY <1>1, <1>2

(* chunks without HEADERS,                                                 *)
LEMMA DataBatchFacts ==
  ASSUME NEW chunks \in Seq(Nat), NEW end \in BOOLEAN
  PROVE  IsCall(DataBatch(chunks, end))
BY DataFacts, OneFrame DEF DataBatch

(* and a whole message the caller built.                                   *)
LEMMA SendFramesFacts ==
  ASSUME NEW chunks \in Seq(Nat), NEW end \in BOOLEAN
  PROVE  LET frames == HeadersFrame(FALSE) \o DataFrames(chunks, end)
                         \o (IF end THEN <<>> ELSE RstFrame)
         IN  IsCall(frames) /\ Opening(frames) /\ frames # <<>>
<1> DEFINE head == HeadersFrame(FALSE)
<1> DEFINE data == DataFrames(chunks, end)
<1> DEFINE tail == IF end THEN <<>> ELSE RstFrame
<1>1. IsCall(head) /\ Opening(head) /\ head # <<>> /\ IsCall(data) /\ IsCall(tail)
  BY OneFrame, DataFacts, EmptyCall
<1> HIDE DEF head, data, tail
<1>2. IsCall(head \o data) /\ Opening(head \o data) /\ head \o data # <<>>
  BY <1>1, TwoParts
<1>3. LET frames == head \o data \o tail
      IN  IsCall(frames) /\ Opening(frames) /\ frames # <<>>
  BY <1>1, <1>2, TwoParts
<1> QED
  BY <1>3 DEF head, data, tail

(* Every call of the API keeps the invariant.                              *)
LEMMA CallKeeps ==
  ASSUME IInv, Call
  PROVE  IInv'
<1>1. message = "body" => stream.state # "Idle"
  BY DEF IInv, HeadersFirst
<1>2. PICK waits \in BOOLEAN :
        \/ SendRstStream(waits)
        \/ \E size \in Sizes : SendHeadersAndData(size, waits)
        \/ \E chunks \in Bodies : SendHeadersAndDataChunks(chunks, waits)
        \/ \E end \in BOOLEAN :
             \/ SendHeaders(end, waits)
             \/ \E size \in Sizes : SendData(size, end, waits)
             \/ \E chunks \in Bodies :
                  \/ SendDataBatch(chunks, end, waits)
                  \/ SendDataChunks(chunks, end, waits)
                  \/ SendFrames(chunks, end, waits)
  BY DEF Call
<1>3. ASSUME NEW end \in BOOLEAN, Opens(end) \/ Continues(end)
      PROVE  message' \in {"headers", "body", "done"}
  BY <1>3 DEF Opens, Continues
<1>4. CASE SendRstStream(waits)
  <2>1. message' \in {"headers", "body", "done"} /\ Queue(RstFrame, waits, FALSE)
    BY <1>4 DEF SendRstStream
  <2> QED
    BY <2>1, OneFrame, QueueKeeps
<1>5. ASSUME NEW size \in Sizes, SendHeadersAndData(size, waits) PROVE IInv'
  <2>1. message' \in {"headers", "body", "done"} /\ Queue(HeadersAndData(size), waits, TRUE)
    BY <1>3, <1>5 DEF SendHeadersAndData
  <2> QED
    BY <2>1, SizeFacts, HeadersAndDataFacts, QueueKeeps
<1>6. ASSUME NEW chunks \in Bodies, SendHeadersAndDataChunks(chunks, waits) PROVE IInv'
  <2>1. message' \in {"headers", "body", "done"} /\ Queue(HeadersAndChunks(chunks), waits, TRUE)
    BY <1>3, <1>6 DEF SendHeadersAndDataChunks
  <2> QED
    BY <2>1, BodiesFacts, HeadersAndChunksFacts, QueueKeeps
<1>7. ASSUME NEW end \in BOOLEAN, SendHeaders(end, waits) PROVE IInv'
  <2>1. message' \in {"headers", "body", "done"} /\ Queue(HeadersFrame(end), waits, FALSE)
    BY <1>3, <1>7 DEF SendHeaders
  <2> QED
    BY <2>1, OneFrame, QueueKeeps
<1>8. ASSUME NEW end \in BOOLEAN, NEW frames, IsCall(frames), Continues(end),
             NEW notifies \in BOOLEAN, Queue(frames, waits, notifies)
      PROVE  IInv'
  <2>1. Opening(frames) /\ message # "headers"
    BY <1>1, <1>8 DEF Opening, Continues
  <2> QED
    BY <1>3, <1>8, <2>1, QueueKeeps
<1>9. ASSUME NEW end \in BOOLEAN, NEW size \in Sizes, SendData(size, end, waits) PROVE IInv'
  <2>1. Continues(end) /\ Queue(DataFrames(<<size>>, end), waits, FALSE)
    BY <1>9 DEF SendData
  <2>2. IsCall(DataFrames(<<size>>, end))
    BY SizeFacts, DataFacts
  <2> QED
    BY <1>8, <2>1, <2>2
<1>10. ASSUME NEW end \in BOOLEAN, NEW chunks \in Bodies, SendDataBatch(chunks, end, waits) PROVE IInv'
  <2>1. Continues(end) /\ Queue(DataBatch(chunks, end), waits, TRUE)
    BY <1>10 DEF SendDataBatch
  <2>2. IsCall(DataBatch(chunks, end))
    BY BodiesFacts, DataBatchFacts
  <2> QED
    BY <1>8, <2>1, <2>2
<1>11. ASSUME NEW end \in BOOLEAN, NEW chunks \in Bodies, SendDataChunks(chunks, end, waits) PROVE IInv'
  <2>1. Continues(end) /\ Queue(DataBatch(chunks, end), waits, Len(chunks) # 1)
    BY <1>11 DEF SendDataChunks
  <2>2. IsCall(DataBatch(chunks, end))
    BY BodiesFacts, DataBatchFacts
  <2>3. (Len(chunks) # 1) \in BOOLEAN
    OBVIOUS
  <2> QED
    BY <1>8, <2>1, <2>2, <2>3
<1>12. ASSUME NEW end \in BOOLEAN, NEW chunks \in Bodies, SendFrames(chunks, end, waits) PROVE IInv'
  <2> DEFINE frames == HeadersFrame(FALSE) \o DataFrames(chunks, end)
                         \o (IF end THEN <<>> ELSE RstFrame)
  <2>1. message' \in {"headers", "body", "done"} /\ Queue(frames, waits, TRUE)
    BY <1>3, <1>12 DEF SendFrames
  <2>2. IsCall(frames) /\ Opening(frames) /\ frames # <<>>
    BY BodiesFacts, SendFramesFacts
  <2> HIDE DEF frames
  <2> QED
    BY <2>1, <2>2, QueueKeeps
<1> QED
  BY <1>2, <1>4, <1>5, <1>6, <1>7, <1>9, <1>10, <1>11, <1>12

-----------------------------------------------------------------------------
(* The writer loop, the peer and the pool.                                 *)

(* What depends on the channel alone does not change with the rest.        *)
LEMMA SameFrames ==
  ASSUME UNCHANGED <<life, out>>
  PROVE  Bytes' = Bytes /\ (Ended' <=> Ended) /\ (resetRecv' = resetRecv => (Reset' <=> Reset))
BY DEF Bytes, Ended, Reset, Frames

(* A written frame answers its call, whose last frame it is.               *)
LEMMA WriteKeeps ==
  ASSUME IInv, Write
  PROVE  IInv'
<1>1. /\ written < Len(out) /\ written' = written + 1
      /\ calls' = IF out[written + 1].waits THEN [calls EXCEPT ![out[written + 1].call] = "answered"]
                                            ELSE calls
      /\ UNCHANGED <<life, stream, window, out, message, credit, resetRecv>>
  BY DEF Write, peerVars
<1>2. TypeOK /\ Len(out) \in Nat /\ written \in Nat
  BY DEF IInv, TypeOK
<1> DEFINE last == written + 1
<1>3. last \in 1 .. Len(out) /\ out[last].call \in 1 .. Len(calls)
  BY <1>1, <1>2 DEF IInv, LastWaits
<1>4. /\ calls' \in Seq(Statuses) /\ Len(calls') = Len(calls)
      /\ \A c \in 1 .. Len(calls) :
           calls'[c] = "answered" => calls[c] = "answered" \/ (out[last].waits /\ c = out[last].call)
  <2>1. calls \in Seq(Statuses) /\ "answered" \in Statuses
    BY <1>2 DEF TypeOK, Statuses
  <2>2. \A c \in 1 .. Len(calls) :
          LET more == [calls EXCEPT ![c] = "answered"]
          IN  /\ more \in Seq(Statuses) /\ Len(more) = Len(calls)
              /\ \A d \in 1 .. Len(calls) : more[d] = IF d = c THEN "answered" ELSE calls[d]
    BY <2>1
  <2> QED
    BY <1>1, <1>3, <2>1, <2>2
<1>5. TypeOK'
  BY <1>1, <1>2, <1>4 DEF TypeOK
<1>6. WindowHolds' /\ NeverOversends' /\ StateFromFrames' /\ HeadersFirst'
  BY <1>1, SameFrames DEF IInv, WindowHolds, NeverOversends, StateFromFrames, HeadersFirst, Lowest
<1>7. LastWaits'
  BY <1>1, <1>4 DEF IInv, LastWaits
<1>8. AnswerFollowsWholeCall'
  <2>1. SUFFICES ASSUME NEW c \in 1 .. Len(calls), calls'[c] = "answered",
                        NEW i \in written' + 1 .. Len(out), out[i].call = c
                 PROVE  FALSE
    BY <1>1, <1>4, <1>5 DEF AnswerFollowsWholeCall, TypeOK
  <2>2. i \in written + 1 .. Len(out) /\ i \in 1 .. Len(out) /\ i > last
    BY <1>1, <1>2
  <2>3. CASE calls[c] = "answered"
    BY <2>1, <2>2, <2>3, <1>2 DEF IInv, AnswerFollowsWholeCall, TypeOK
  <2>4. CASE out[last].waits /\ c = out[last].call
    <3>1. i <= last
      BY <2>1, <2>2, <2>4, <1>3 DEF IInv, LastWaits
    <3> QED
      BY <3>1, <2>2, <1>2
  <2> QED
    BY <2>1, <2>3, <2>4, <1>4
<1> QED
  BY <1>5, <1>6, <1>7, <1>8 DEF IInv

(* WINDOW_UPDATE adds to the credit at least what it adds to the window.   *)
LEMMA RecvWindowUpdateKeeps ==
  ASSUME IInv, NEW increment \in Increments, RecvWindowUpdate(increment)
  PROVE  IInv'
<1>1. /\ window' = Wrap(window + increment) /\ credit' = credit + increment
      /\ UNCHANGED <<life, stream, out, written, calls, message, resetRecv>>
  BY DEF RecvWindowUpdate, userVars
<1>2. TypeOK /\ increment \in Nat /\ SendDefault \in Nat /\ Lowest \in Int /\ Lowest' = Lowest
  BY SendAssumption DEF IInv, Lowest
<1>3. Bytes \in Int
  BY <1>2, BytesAreOf, BytesInt DEF TypeOK
<1>4. window + increment \in Int /\ window + increment >= Lowest
  BY <1>2 DEF IInv, WindowHolds, TypeOK
<1>5. window' \in Int /\ window' >= Lowest /\ window' <= window + increment
  BY <1>1, <1>4, WrapFacts
<1>6. TypeOK'
  BY <1>1, <1>2, <1>5 DEF TypeOK
<1>7. Bytes' = Bytes /\ (Ended' <=> Ended) /\ (Reset' <=> Reset)
  BY <1>1, SameFrames
<1>8. WindowHolds' /\ NeverOversends'
  BY <1>1, <1>2, <1>3, <1>5, <1>7 DEF IInv, WindowHolds, NeverOversends, TypeOK
<1>9. StateFromFrames' /\ HeadersFirst' /\ LastWaits' /\ AnswerFollowsWholeCall'
  BY <1>1, <1>7 DEF IInv, StateFromFrames, HeadersFirst, LastWaits, AnswerFollowsWholeCall
<1> QED
  BY <1>6, <1>8, <1>9 DEF IInv

(* RST_STREAM from the peer.                                               *)
LEMMA RecvRstStreamKeeps ==
  ASSUME IInv, RecvRstStream
  PROVE  IInv'
<1>1. /\ stream' = OnRstStream(stream) /\ resetRecv' = TRUE
      /\ UNCHANGED <<life, window, out, written, calls, message, credit>>
  BY DEF RecvRstStream, userVars
<1>2. Bytes' = Bytes /\ (Ended' <=> Ended) /\ Reset' /\ Lowest' = Lowest
  BY <1>1, SameFrames DEF Reset, Lowest
<1>3. stream' \in StreamSet /\ stream'.state = "Closed" /\ stream'.endSent = stream.endSent
  BY <1>1 DEF IInv, TypeOK, StreamSet, OnRstStream
<1>4. TypeOK'
  BY <1>1, <1>3 DEF IInv, TypeOK
<1>5. StateFromFrames'
  BY <1>2, <1>3 DEF IInv, StateFromFrames
<1>6. WindowHolds' /\ NeverOversends' /\ HeadersFirst' /\ LastWaits' /\ AnswerFollowsWholeCall'
  BY <1>1, <1>2, <1>3
  DEF IInv, WindowHolds, NeverOversends, HeadersFirst, LastWaits, AnswerFollowsWholeCall
<1> QED
  BY <1>4, <1>5, <1>6 DEF IInv

(* END_STREAM from the peer.                                               *)
LEMMA RecvEndKeeps ==
  ASSUME IInv, RecvEnd
  PROVE  IInv'
<1>1. /\ stream.state \in {"Open", "HalfClosedLocal"} /\ ~stream.endRecv
      /\ stream' = PeerEnds(stream)
      /\ UNCHANGED <<life, window, out, written, calls, message, credit, resetRecv>>
  BY DEF RecvEnd, CanReceiveData, OnDataReceived, userVars, peerVars
<1>2. Bytes' = Bytes /\ (Ended' <=> Ended) /\ (Reset' <=> Reset) /\ Lowest' = Lowest
  BY <1>1, SameFrames DEF Lowest
<1>3. /\ stream' \in StreamSet /\ stream'.endRecv /\ stream'.endSent = stream.endSent
      /\ stream.state = "Open" => stream'.state = "HalfClosedRemote"
      /\ stream.state = "HalfClosedLocal" => stream'.state = "Closed"
  BY <1>1 DEF IInv, TypeOK, StreamSet, PeerEnds
<1>4. TypeOK'
  BY <1>1, <1>3 DEF IInv, TypeOK
<1>5. StateFromFrames'
  BY <1>1, <1>2, <1>3 DEF IInv, StateFromFrames
<1>6. WindowHolds' /\ NeverOversends' /\ HeadersFirst' /\ LastWaits' /\ AnswerFollowsWholeCall'
  BY <1>1, <1>2, <1>3
  DEF IInv, WindowHolds, NeverOversends, HeadersFirst, LastWaits, AnswerFollowsWholeCall
<1> QED
  BY <1>4, <1>5, <1>6 DEF IInv

(* The object served again: the channel still has the frames of its past,  *)
(* none of which counts for the new stream.                                *)
LEMMA ReuseKeeps ==
  ASSUME IInv, Reuse
  PROVE  IInv'
<1>1. /\ life' = life + 1 /\ stream' \in Starts /\ window' = SendDefault
      /\ message' = "headers" /\ credit' = 0 /\ resetRecv' = FALSE
      /\ UNCHANGED <<out, written, calls>>
  BY DEF Reuse
<1>2. stream' \in StreamSet /\ StateIs(stream', FALSE, FALSE)
  BY <1>1, StartsFacts
<1>3. SendDefault \in Nat /\ Lowest \in Int /\ Lowest <= 0 /\ Lowest' = Lowest
  BY SendAssumption DEF Lowest
<1>4. TypeOK'
  <2>1. TypeOK
    BY DEF IInv
  <2>2. life' \in Nat /\ window' \in Int /\ credit' \in Nat
    BY <1>1, <1>3, <2>1 DEF TypeOK
  <2>3. message' \in {"headers", "body", "done"} /\ resetRecv' \in BOOLEAN
    BY <1>1
  <2>4. out' \in Seq(Item) /\ written' \in 0 .. Len(out') /\ calls' \in Seq(Statuses)
    BY <1>1, <2>1 DEF TypeOK
  <2> QED
    BY <1>2, <2>2, <2>3, <2>4 DEF TypeOK
<1>5. \A i \in 1 .. Len(out) : out[i].life # life' /\ out[i].life <= life'
  <2>1. ASSUME NEW i \in 1 .. Len(out) PROVE out[i].life # life + 1 /\ out[i].life <= life + 1
    <3>1. out[i] \in Item /\ life \in Nat /\ out[i].life <= life
      BY DEF IInv, TypeOK, LastWaits
    <3>2. out[i].life \in Nat
      BY <3>1 DEF Item
    <3> QED
      BY <3>1, <3>2
  <2> QED
    BY <1>1, <2>1
<1>6. Bytes' = 0
  <2>1. Bytes' = BytesOf(out', life')
    BY DEF Bytes, BytesOf, SizesOf, Frames
  <2>2. out \in Seq(Item)
    BY DEF IInv, TypeOK
  <2>3. BytesOf(out, life') = 0
    BY <1>5, <2>2, BytesOfNew
  <2> QED
    BY <1>1, <2>1, <2>3
<1>7. ~Ended' /\ ~Reset'
  <2>1. /\ Ended' <=> EndedIn(out', life')
        /\ Reset' <=> resetRecv' \/ ResetIn(out', life')
    BY <1>4, HistoryOfNext
  <2> QED
    BY <1>1, <1>5, <2>1 DEF EndedIn, ResetIn
<1>8. StateFromFrames'
  BY <1>2, <1>7 DEF StateFromFrames, StateIs
<1>9. WindowHolds' /\ NeverOversends'
  BY <1>1, <1>3, <1>6 DEF WindowHolds, NeverOversends
<1>10. HeadersFirst' /\ LastWaits' /\ AnswerFollowsWholeCall'
  BY <1>1, <1>5 DEF IInv, HeadersFirst, LastWaits, AnswerFollowsWholeCall
<1> QED
  BY <1>4, <1>8, <1>9, <1>10 DEF IInv

(* Every step keeps the invariant.                                         *)
LEMMA NextIInv == IInv /\ [Next]_vars => IInv'
<1> SUFFICES ASSUME IInv, [Next]_vars PROVE IInv'
  OBVIOUS
<1>1. CASE Call
  BY <1>1, CallKeeps
<1>2. CASE Write
  BY <1>2, WriteKeeps
<1>3. ASSUME NEW increment \in Increments, RecvWindowUpdate(increment) PROVE IInv'
  BY <1>3, RecvWindowUpdateKeeps
<1>4. CASE RecvRstStream
  BY <1>4, RecvRstStreamKeeps
<1>5. CASE RecvEnd
  BY <1>5, RecvEndKeeps
<1>6. CASE Reuse
  BY <1>6, ReuseKeeps
<1>7. CASE UNCHANGED vars
  <2>1. UNCHANGED <<life, stream, window, out, written, calls, message, credit, resetRecv>>
    BY <1>7 DEF vars, userVars, peerVars
  <2>2. Bytes' = Bytes /\ (Ended' <=> Ended) /\ (Reset' <=> Reset) /\ Lowest' = Lowest
    BY <2>1, SameFrames DEF Lowest
  <2> QED
    BY <2>1, <2>2 DEF IInv, TypeOK, WindowHolds, NeverOversends, StateFromFrames, HeadersFirst,
                      LastWaits, AnswerFollowsWholeCall
<1> QED
  BY <1>1, <1>2, <1>3, <1>4, <1>5, <1>6, <1>7 DEF Next

(* The parts of the invariant hold of every behaviour.                     *)
THEOREM StreamInvariant == Spec => []IInv
<1>1. Init => IInv
  BY InitIInv
<1>2. IInv /\ [Next]_vars => IInv'
  BY NextIInv
<1> QED
  BY <1>1, <1>2, PTL DEF Spec

(* Whatever the sizes, increments and calls, and however often the object  *)
(* is used again: the DATA queued for a stream stays within the credit the *)
(* peer gave it, even when m_send_window wraps.                            *)
THEOREM SendWithinCredit == Spec => []NeverOversends
<1>1. IInv => NeverOversends
  BY DEF IInv
<1> QED
  BY <1>1, StreamInvariant, PTL

(* m_state and its two flags say what the frames of the stream say.        *)
THEOREM StateIsOfFrames == Spec => []StateFromFrames
<1>1. IInv => StateFromFrames
  BY DEF IInv
<1> QED
  BY <1>1, StreamInvariant, PTL

(* A reply* call resumes after its last frame is written.                  *)
THEOREM AnswerIsLast == Spec => []AnswerFollowsWholeCall
<1>1. IInv => AnswerFollowsWholeCall
  BY DEF IInv
<1> QED
  BY <1>1, StreamInvariant, PTL
-----------------------------------------------------------------------------
(***************************************************************************)
(* Theorems of Http2FlowControl, for any number of streams, any windows,   *)
(* targets, padding and number of bytes.  The invariant adds to the books  *)
(* the range each window here stays in: never above the larger of default  *)
(* and target, and, since every DATA frame that leaves a window below its  *)
(* low watermark refills it, never below the watermark or the default.     *)
(***************************************************************************)

(* The watermark is never above the target, wrapped or not.                *)
LEMMA LowWatermarkBound ==
  ASSUME NEW t \in Nat
  PROVE  LowWatermark(t) \in Nat /\ LowWatermark(t) <= t
<1> DEFINE k == (3 * t) % Word
<1>1. k \in Nat /\ k <= 3 * t
  <2>1. /\ k \in 0 .. (Word - 1)
        /\ 3 * t = Word * ((3 * t) \div Word) + k
        /\ (3 * t) \div Word \in Nat
    BY WindowAssumption
  <2> QED
    BY <2>1, WindowAssumption
<1> HIDE DEF k
<1>2. k \div 4 \in Nat /\ k \div 4 <= t
  BY <1>1
<1> QED
  BY <1>2 DEF LowWatermark, k

LEMMA TargetTypes ==
  ASSUME WindowsTypeOK
  PROVE  iw \in Nat /\ StreamTarget \in Nat /\ ConnTarget \in Nat
  BY WindowAssumption DEF WindowsTypeOK, StreamTarget, ConnTarget

(* What a window is after DATA and its refill.                             *)
InRange(w, t) ==
  w <= MaxOf(Default, t) /\ w >= MinOf(Default, LowWatermark(t))

LEMMA RefillInRange ==
  ASSUME NEW w \in Int, NEW t \in Nat, NEW n \in Nat, InRange(w, t)
  PROVE  LET left == w - n
         IN  /\ Increment(left, t) \in Int
             /\ InRange(left + Increment(left, t), t)
  BY LowWatermarkBound, WindowAssumption DEF InRange, Increment, MaxOf, MinOf

WindowsInRange ==
  /\ InRange(connWin, ConnTarget)
  /\ \A s \in Streams : InRange(win[s], StreamTarget)

WindowsIInv == WindowsTypeOK /\ BooksAgree /\ WindowsInRange

-----------------------------------------------------------------------------
LEMMA WindowsInvInit == WindowsInit => WindowsIInv
<1> SUFFICES ASSUME WindowsInit PROVE WindowsIInv
  OBVIOUS
<1>1. WindowsTypeOK
  BY WindowAssumption DEF WindowsInit, WindowsTypeOK, StartIncrement
<1>2. BooksAgree
  BY <1>1, WindowAssumption
  DEF WindowsInit, BooksAgree, ConnGranted, Granted, StartIncrement, WindowsTypeOK
<1>3. LowWatermark(ConnTarget) \in Nat /\ LowWatermark(ConnTarget) <= ConnTarget
  BY <1>1, TargetTypes, LowWatermarkBound
<1>4. InRange(connWin, ConnTarget)
  <2>1. connWin = Default \/ (connWin = ConnTarget /\ connWin > Default)
    BY <1>1, WindowAssumption DEF WindowsInit, StartIncrement, ConnTarget, WindowsTypeOK
  <2>2. connWin \in Nat /\ ConnTarget \in Nat
    BY <1>1, <2>1, TargetTypes, WindowAssumption
  <2> QED
    BY <1>3, <2>1, <2>2, WindowAssumption DEF InRange, MaxOf, MinOf
<1>5. ASSUME NEW s \in Streams PROVE InRange(win[s], StreamTarget)
  <2>1. StreamTarget \in Nat /\ LowWatermark(StreamTarget) \in Nat
    BY <1>1, TargetTypes, LowWatermarkBound
  <2>2. win[s] = Default
    BY DEF WindowsInit
  <2> QED
    BY <2>1, <2>2, WindowAssumption DEF InRange, MaxOf, MinOf
<1> QED
  BY <1>1, <1>2, <1>4, <1>5 DEF WindowsIInv, WindowsInRange

(* DATA handled: both windows and both books move together.                *)
LEMMA RecvDataStep ==
  ASSUME WindowsIInv, NEW s \in Streams, NEW n \in Nat, NEW pad \in Nat, RecvData(s, n, pad)
  PROVE  WindowsIInv'
<1> DEFINE connUpdate == Increment(connWin - n, ConnTarget)
           update == Increment(win[s] - n, StreamTarget)
<1>1. /\ iw \in Nat /\ StreamTarget \in Nat /\ ConnTarget \in Nat
      /\ connWin \in Int /\ win[s] \in Int
  BY TargetTypes DEF WindowsIInv, WindowsTypeOK
<1>2. /\ connUpdate \in Int /\ InRange(connWin - n + connUpdate, ConnTarget)
      /\ update \in Int /\ InRange(win[s] - n + update, StreamTarget)
  BY <1>1, RefillInRange DEF WindowsIInv, WindowsInRange
<1>3. /\ pendConn' = pendConn + connUpdate
      /\ connWin' = connWin - n + connUpdate
      /\ pend' = [pend EXCEPT ![s] = @ + update]
      /\ win' = [win EXCEPT ![s] = win[s] - n + update]
  BY DEF RecvData, ApplyRecvWindowUpdate
<1> HIDE DEF connUpdate, update
<1>4. WindowsTypeOK'
  BY <1>1, <1>2, <1>3 DEF WindowsIInv, WindowsTypeOK, RecvData, Arrives, creditVars
<1>5. BooksAgree'
  <2>1. (connWin = ConnGranted + lostConn)'
    BY <1>2, <1>3
    DEF WindowsIInv, WindowsTypeOK, BooksAgree, ConnGranted, RecvData, Arrives, creditVars
  <2>2. ASSUME NEW i \in Streams
        PROVE  (win[i] = Granted(i) + lost[i] + (Default - iw))'
    BY <1>1, <1>2, <1>3, WindowAssumption
    DEF WindowsIInv, WindowsTypeOK, BooksAgree, Granted, RecvData, Arrives, creditVars
  <2> QED
    BY <2>1, <2>2 DEF BooksAgree
<1>6. WindowsInRange'
  <2>1. UNCHANGED <<iw, target>>
    BY DEF RecvData, Arrives
  <2>2. ConnTarget' = ConnTarget /\ StreamTarget' = StreamTarget
    BY <2>1 DEF ConnTarget, StreamTarget
  <2> QED
    BY <1>2, <1>3, <2>2 DEF WindowsIInv, WindowsTypeOK, WindowsInRange, InRange
<1> QED
  BY <1>4, <1>5, <1>6 DEF WindowsIInv

(* Every other step leaves the windows here alone.                         *)
LEMMA WindowsUntouched ==
  ASSUME WindowsInRange, UNCHANGED <<connWin, win, iw, target>>
  PROVE  WindowsInRange'
  BY DEF WindowsInRange, InRange, ConnTarget, StreamTarget

LEMMA WindowsInvNext == WindowsIInv /\ [WindowsNext]_windowsVars => WindowsIInv'
<1> SUFFICES ASSUME WindowsIInv, [WindowsNext]_windowsVars PROVE WindowsIInv'
  OBVIOUS
<1> USE DEF localVars, creditVars
<1>1. ASSUME NEW s \in Streams, NEW accepted \in BOOLEAN, OpenStream(s, accepted)
      PROVE  WindowsIInv'
  BY <1>1, WindowsUntouched
  DEF OpenStream, WindowsIInv, WindowsTypeOK, BooksAgree, ConnGranted, Granted
<1>2. ASSUME NEW s \in Streams, NEW n \in 1 .. MaxBytes, PeerSends(s, n)
      PROVE  WindowsIInv'
  <2>1. n \in Nat
    BY <1>2, WindowAssumption
  <2>2. WindowsTypeOK'
    BY <1>2, <2>1 DEF PeerSends, WindowsIInv, WindowsTypeOK
  <2>3. BooksAgree'
    BY <1>2, <2>1, WindowAssumption
    DEF PeerSends, WindowsIInv, WindowsTypeOK, BooksAgree, ConnGranted, Granted
  <2> QED
    BY <1>2, <2>2, <2>3, WindowsUntouched DEF PeerSends, WindowsIInv
<1>3. ASSUME NEW s \in Streams, NEW n \in 0 .. MaxBytes, NEW pad \in 0 .. MaxPad,
             RecvData(s, n, pad)
      PROVE  WindowsIInv'
  <2>1. n \in Nat /\ pad \in Nat
    BY <1>3, WindowAssumption
  <2> QED
    BY <1>3, <2>1, RecvDataStep
<1>4. ASSUME NEW s \in Streams, NEW n \in 0 .. MaxBytes, RecvDataDropped(s, n)
      PROVE  WindowsIInv'
  <2>1. n \in Nat
    BY <1>4, WindowAssumption
  <2>2. WindowsTypeOK'
    BY <1>4, <2>1 DEF RecvDataDropped, Arrives, WindowsIInv, WindowsTypeOK
  <2>3. BooksAgree'
    BY <1>4, <2>1, WindowAssumption
    DEF RecvDataDropped, Arrives, WindowsIInv, WindowsTypeOK, BooksAgree, ConnGranted, Granted
  <2> QED
    BY <1>4, <2>2, <2>3, WindowsUntouched DEF RecvDataDropped, Arrives, WindowsIInv
<1>5. ASSUME NEW s \in Streams, CloseStream(s) PROVE WindowsIInv'
  BY <1>5, WindowsUntouched
  DEF CloseStream, WindowsIInv, WindowsTypeOK, BooksAgree, ConnGranted, Granted
<1>6. CASE EndBatch
  <2>1. WindowsTypeOK'
    BY <1>6 DEF EndBatch, WindowsIInv, WindowsTypeOK
  <2>2. BooksAgree'
    BY <1>6, WindowAssumption
    DEF EndBatch, WindowsIInv, WindowsTypeOK, BooksAgree, ConnGranted, Granted
  <2> QED
    BY <1>6, <2>1, <2>2, WindowsUntouched DEF EndBatch, WindowsIInv
<1>7. CASE PeerGetsUpdates
  <2>1. WindowsTypeOK'
    BY <1>7 DEF PeerGetsUpdates, WindowsIInv, WindowsTypeOK
  <2>2. BooksAgree'
    BY <1>7, WindowAssumption
    DEF PeerGetsUpdates, WindowsIInv, WindowsTypeOK, BooksAgree, ConnGranted, Granted
  <2> QED
    BY <1>7, <2>1, <2>2, WindowsUntouched DEF PeerGetsUpdates, WindowsIInv
<1>8. CASE UNCHANGED windowsVars
  BY <1>8, WindowsUntouched
  DEF windowsVars, WindowsIInv, WindowsTypeOK, BooksAgree, ConnGranted, Granted
<1> QED
  BY <1>1, <1>2, <1>3, <1>4, <1>5, <1>6, <1>7, <1>8 DEF WindowsNext

(* The books of Http2StreamManagerImpl's windows and the peer's, and the   *)
(* range each window stays in, in every state.                             *)
THEOREM WindowsInvariant == WindowsSpec => []WindowsIInv
  BY WindowsInvInit, WindowsInvNext, PTL DEF WindowsSpec

(* Both ends keep the same books, but for the credit lost.                 *)
THEOREM BooksAlwaysAgree == WindowsSpec => []BooksAgree
<1>1. WindowsIInv => BooksAgree
  BY DEF WindowsIInv
<1> QED
  BY <1>1, WindowsInvariant, PTL

(* The peer is never granted more than the windows here were raised to.    *)
THEOREM GrantsBounded == WindowsSpec => []GrantBounded
<1>1. ASSUME WindowsIInv PROVE GrantBounded
  <2>1. /\ iw \in Nat /\ StreamTarget \in Nat /\ ConnTarget \in Nat
        /\ connWin \in Int /\ lostConn \in Nat /\ ConnGranted \in Int
    BY <1>1, TargetTypes DEF WindowsIInv, WindowsTypeOK, ConnGranted
  <2>2. ConnGranted <= MaxOf(Default, ConnTarget)
    BY <1>1, <2>1, WindowAssumption
    DEF WindowsIInv, BooksAgree, WindowsInRange, InRange, MaxOf
  <2>3. ASSUME NEW s \in Streams
        PROVE  Granted(s) <= iw + MaxOf(0, StreamTarget - Default)
    <3>1. win[s] \in Int /\ lost[s] \in Nat /\ Granted(s) \in Int
      BY <1>1 DEF WindowsIInv, WindowsTypeOK, Granted
    <3>2. /\ win[s] = Granted(s) + lost[s] + (Default - iw)
          /\ win[s] <= MaxOf(Default, StreamTarget)
      BY <1>1 DEF WindowsIInv, BooksAgree, WindowsInRange, InRange
    <3> QED
      BY <2>1, <3>1, <3>2, WindowAssumption DEF MaxOf
  <2> QED
    BY <2>2, <2>3 DEF GrantBounded
<1> QED
  BY <1>1, WindowsInvariant, PTL

(* Credit comes back, but for what was lost.                               *)
THEOREM CreditAlwaysReturns == WindowsSpec => []CreditReturns
<1>1. ASSUME WindowsIInv PROVE CreditReturns
  <2>1. ASSUME wireConn = 0, pendConn = 0, sentConn = 0
        PROVE  peerConn + lostConn >= MinOf(Default, LowWatermark(ConnTarget))
    <3>1. peerConn + lostConn = connWin
      BY <1>1, <2>1 DEF WindowsIInv, WindowsTypeOK, BooksAgree, ConnGranted
    <3> QED
      BY <1>1, <3>1 DEF WindowsIInv, WindowsInRange, InRange
  <2>2. ASSUME NEW s \in live, wire[s] = 0, pend[s] = 0, sent[s] = 0
        PROVE  peerWin[s] + lost[s] + (Default - iw)
                 >= MinOf(Default, LowWatermark(StreamTarget))
    <3>1. s \in Streams /\ iw \in Nat
      BY <1>1, <2>2, TargetTypes DEF WindowsIInv, WindowsTypeOK
    <3>2. peerWin[s] + lost[s] + (Default - iw) = win[s]
      BY <1>1, <2>2, <3>1, WindowAssumption DEF WindowsIInv, WindowsTypeOK, BooksAgree, Granted
    <3> QED
      BY <1>1, <3>1, <3>2 DEF WindowsIInv, WindowsInRange, InRange
  <2> QED
    BY <2>1, <2>2 DEF CreditReturns
<1> QED
  BY <1>1, WindowsInvariant, PTL
=============================================================================
