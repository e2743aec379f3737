--------------------------- MODULE HttpProxyProofs ---------------------------
(***************************************************************************)
(* Theorems of HttpProxy for any handlers, any room in the pool, and any   *)
(* number of requests and connections: a client gets the answer to its own *)
(* request, and the upstream carries a request out twice at most, once if  *)
(* it came on a new connection.                                            *)
(***************************************************************************)
EXTENDS HttpProxy, TLAPS

Sent == [request : RequestIds, raw : BOOLEAN]
Answered == [request : RequestIds, keep : BOOLEAN]
LinkSet == [state : {"none", "open", "gone", "closed"}, out : Seq(Sent), in : Seq(Answered)]

TypeOK ==
  /\ pool \in Seq(Links) /\ link \in [Links -> LinkSet]
  /\ pc \in [Handlers -> {"idle", "connect", "send", "receive", "forward", "relay"}]
  /\ serving \in [Handlers -> 0 .. MaxRequests] /\ raw \in [Handlers -> BOOLEAN]
  /\ upstream \in [Handlers -> 0 .. MaxLinks]
  /\ borrowed \in [Handlers -> BOOLEAN] /\ retried \in [Handlers -> BOOLEAN]
  /\ answer \in [Handlers -> [request : 0 .. MaxRequests, keep : BOOLEAN]]
  /\ forwarded \in [RequestIds -> Seq(0 .. MaxRequests)] /\ runs \in [RequestIds -> Nat]
  /\ first \in [RequestIds -> {"pooled", "new"}]
  /\ asked \in 0 .. MaxRequests /\ made \in 0 .. MaxLinks

(* Nothing is under way on a connection, which may have been dropped.      *)
Rests(l) == l.out = <<>> /\ l.in = <<>> /\ l.state \in {"open", "gone"}

(* The connection of a handler that has sent its request: the request is   *)
(* under way, or its answer, or both are over.                             *)
Asks(h) ==
  LET l == link[upstream[h]]
  IN  /\ l.state = "open" /\ l.in = <<>>
      /\ l.out = <<[request |-> serving[h], raw |-> raw[h]]>>
IsAnswered(h) ==
  LET l == link[upstream[h]]
  IN  /\ l.state \in {"open", "gone"} /\ l.out = <<>>
      /\ \E keep \in BOOLEAN : l.in = <<[request |-> serving[h], keep |-> keep]>>
      /\ raw[h] => l.state = "gone"
Lost(h) ==
  LET l == link[upstream[h]]
  IN  l.state = "gone" /\ l.out = <<>> /\ l.in = <<>>

Busy(h) == pc[h] \in {"send", "receive", "forward", "relay"}

(* Pooled connections rest, and are in one place of the pool and nobody's. *)
PoolOK ==
  /\ \A i \in 1 .. Len(pool) : pool[i] \in 1 .. made /\ Rests(link[pool[i]])
  /\ \A i, j \in 1 .. Len(pool) : pool[i] = pool[j] => i = j
  /\ \A h \in Handlers, i \in 1 .. Len(pool) : upstream[h] # pool[i]

(* A connection has one handler, who waits if a request is under way.      *)
LinksOK ==
  /\ \A g, h \in Handlers : upstream[g] = upstream[h] /\ upstream[g] # 0 => g = h
  /\ \A c \in Links : c > made => link[c] = NoLink
  /\ \A c \in Links :
       link[c].out # <<>> => \E h \in Handlers : pc[h] \in {"receive", "relay"} /\ upstream[h] = c

HandlerOK(h) ==
  /\ IF Busy(h) THEN upstream[h] \in 1 .. made ELSE upstream[h] = 0
  /\ pc[h] = "send" => Rests(link[upstream[h]])
  /\ pc[h] = "receive" => ~raw[h] /\ (Asks(h) \/ IsAnswered(h) \/ Lost(h))
  /\ pc[h] = "relay" => raw[h] /\ (Asks(h) \/ IsAnswered(h) \/ Lost(h))
  /\ pc[h] = "forward" => Rests(link[upstream[h]]) /\ answer[h].request = serving[h]

(* What is still owed to the request of a handler: its answer, until it is *)
(* passed on, and a run, until the upstream has taken it.                  *)
Unasked(h) == pc[h] \in {"connect", "send"} \/ (pc[h] \in {"receive", "relay"} /\ Asks(h))

RequestOK(h) ==
  pc[h] # "idle" =>
    LET r == serving[h]
    IN  /\ r \in 1 .. asked
        /\ forwarded[r] = <<>> \/ (pc[h] = "relay" /\ Lost(h) /\ forwarded[r] = <<r>>)
        /\ borrowed[h] \/ retried[h] => first[r] = "pooled"
        /\ ~(borrowed[h] /\ retried[h])
        /\ runs[r] <= (IF Unasked(h) THEN 0 ELSE 1) + (IF retried[h] THEN 1 ELSE 0)

RequestsOK ==
  /\ \A g, h \in Handlers : pc[g] # "idle" /\ pc[h] # "idle" /\ serving[g] = serving[h] => g = h
  /\ \A r \in RequestIds : r > asked => forwarded[r] = <<>> /\ runs[r] = 0

IInv ==
  /\ TypeOK /\ PoolOK /\ LinksOK
  /\ \A h \in Handlers : HandlerOK(h) /\ RequestOK(h)
  /\ RequestsOK /\ ProxyAnswersMatch /\ RunsOnce

-----------------------------------------------------------------------------
(* The bounds are numbers.                                                 *)
LEMMA BoundsAreNat == MaxIdle \in Nat /\ MaxRequests \in Nat /\ MaxLinks \in Nat
BY ProxyAssumption

(* The invariant holds at first.                                           *)
LEMMA InitIInv == Init => IInv
<1> SUFFICES ASSUME Init PROVE IInv
  OBVIOUS
<1>1. NoLink \in LinkSet /\ NoLink.out = <<>>
  BY DEF NoLink, LinkSet
<1>2. NoAnswer \in [request : 0 .. MaxRequests, keep : BOOLEAN]
  BY BoundsAreNat DEF NoAnswer
<1>3. TypeOK
  <2>1. pool \in Seq(Links) /\ <<>> \in Seq(0 .. MaxRequests)
    BY DEF Init
  <2> QED
    BY <1>1, <1>2, <2>1, BoundsAreNat DEF Init, TypeOK
<1>4. PoolOK /\ LinksOK
  BY <1>1, BoundsAreNat DEF Init, PoolOK, LinksOK, Links
<1>5. \A h \in Handlers : HandlerOK(h) /\ RequestOK(h)
  BY DEF Init, HandlerOK, Busy, RequestOK
<1>6. RequestsOK /\ ProxyAnswersMatch /\ RunsOnce
  BY DEF Init, RequestsOK, ProxyAnswersMatch, RunsOnce
<1> QED
  BY <1>3, <1>4, <1>5, <1>6 DEF IInv

-----------------------------------------------------------------------------
(* A handler whose connection and variables a step leaves alone.           *)
LEMMA OthersKeep ==
  ASSUME IInv, NEW k \in Handlers,
         pc'[k] = pc[k], serving'[k] = serving[k], raw'[k] = raw[k], upstream'[k] = upstream[k],
         borrowed'[k] = borrowed[k], retried'[k] = retried[k], answer'[k] = answer[k],
         upstream[k] # 0 => link'[upstream[k]] = link[upstream[k]],
         asked' \in Nat, asked' >= asked, made' \in Nat, made' >= made,
         pc[k] # "idle" => /\ forwarded'[serving[k]] = forwarded[serving[k]]
                           /\ runs'[serving[k]] = runs[serving[k]]
                           /\ first'[serving[k]] = first[serving[k]]
  PROVE  HandlerOK(k)' /\ RequestOK(k)'
<1>1. HandlerOK(k) /\ RequestOK(k) /\ TypeOK
  BY DEF IInv
<1>2. asked \in Nat /\ made \in Nat
  BY <1>1, BoundsAreNat DEF TypeOK
<1>3. Busy(k)' <=> Busy(k)
  BY DEF Busy
<1>4. Busy(k) => upstream[k] \in 1 .. made /\ upstream[k] # 0
  BY <1>1, <1>2 DEF HandlerOK
<1>5. Busy(k) => /\ Asks(k)' <=> Asks(k)
                 /\ IsAnswered(k)' <=> IsAnswered(k)
                 /\ Lost(k)' <=> Lost(k)
                 /\ Rests(link'[upstream[k]]) <=> Rests(link[upstream[k]])
  BY <1>4 DEF Asks, IsAnswered, Lost, Rests
<1>6. upstream[k] \in 1 .. made => upstream'[k] \in 1 .. made'
  BY <1>2
<1>7. HandlerOK(k)'
  BY <1>1, <1>3, <1>4, <1>5, <1>6 DEF HandlerOK, Busy, Rests
<1>8. Unasked(k)' <=> Unasked(k)
  BY <1>5 DEF Unasked, Busy
<1>9. serving[k] \in 1 .. asked => serving'[k] \in 1 .. asked'
  BY <1>2
<1>10. RequestOK(k)'
  BY <1>1, <1>5, <1>8, <1>9 DEF RequestOK, Busy
<1> QED
  BY <1>7, <1>10

(* A step of one handler on its own connection, which it may close, give   *)
(* to the pool or go on with.                                              *)
OwnStep(h) ==
  /\ UNCHANGED <<serving, raw, first, asked, made, runs>>
  /\ \A k \in Handlers \ {h} :
       /\ pc'[k] = pc[k] /\ upstream'[k] = upstream[k] /\ answer'[k] = answer[k]
       /\ borrowed'[k] = borrowed[k] /\ retried'[k] = retried[k]
  /\ \A c \in Links \ {upstream[h]} : link'[c] = link[c]
  /\ \A r \in RequestIds \ {serving[h]} : forwarded'[r] = forwarded[r]
  /\ upstream'[h] \in {0, upstream[h]}

(* Such a step keeps the invariant if what it says of its own handler does. *)
LEMMA OwnStepKeeps ==
  ASSUME IInv, NEW h \in Handlers, pc[h] # "idle", TypeOK', OwnStep(h),
         HandlerOK(h)', RequestOK(h)', forwarded'[serving[h]] \in {<<>>, << 0 >>, <<serving[h]>>},
         \/ pool' = pool
         \/ Busy(h) /\ pool' = Append(pool, upstream[h]) /\ upstream'[h] = 0 /\ Rests(link'[upstream[h]]),
         upstream[h] # 0 /\ link'[upstream[h]].out # <<>> =>
            pc'[h] \in {"receive", "relay"} /\ upstream'[h] = upstream[h]
  PROVE  IInv'
<1>1. /\ TypeOK /\ PoolOK /\ LinksOK /\ RequestsOK /\ ProxyAnswersMatch /\ RunsOnce
      /\ \A k \in Handlers : HandlerOK(k) /\ RequestOK(k)
  BY DEF IInv
<1>2. asked \in Nat /\ made \in Nat /\ Links \subseteq Nat /\ 0 \notin Links
  BY <1>1, BoundsAreNat DEF TypeOK, Links
<1>3. \A k \in Handlers : upstream[k] # 0 => upstream[k] \in 1 .. made
  BY <1>1, <1>2 DEF HandlerOK
<1>4. \A k \in Handlers \ {h} : upstream[k] # 0 => upstream[k] # upstream[h]
  BY <1>1 DEF LinksOK
<1>5. \A k \in Handlers : upstream[k] # 0 => upstream[k] \in Links
  BY <1>1, <1>2 DEF TypeOK, Links
<1>6. \A k \in Handlers : pc[k] # "idle" => serving[k] \in 1 .. asked /\ serving[k] \in RequestIds
  BY <1>1, <1>2, BoundsAreNat DEF RequestOK, TypeOK, RequestIds
<1>7. ASSUME NEW k \in Handlers PROVE HandlerOK(k)' /\ RequestOK(k)'
  <2>1. CASE k # h
    <3>1. upstream[k] # 0 => link'[upstream[k]] = link[upstream[k]]
      BY <2>1, <1>4, <1>5 DEF OwnStep
    <3>2. pc[k] # "idle" => forwarded'[serving[k]] = forwarded[serving[k]]
      BY <2>1, <1>1, <1>6 DEF OwnStep, RequestsOK
    <3> QED
      BY <2>1, <3>1, <3>2, <1>2, OthersKeep DEF OwnStep
  <2> QED
    BY <2>1
<1>8. PoolOK'
  <2>1. CASE pool' = pool
    <3>1. \A i \in 1 .. Len(pool) : pool[i] # upstream[h] /\ pool[i] \in Links
      BY <1>1 DEF PoolOK, TypeOK
    <3>2. \A i \in 1 .. Len(pool) : link'[pool[i]] = link[pool[i]]
      BY <3>1 DEF OwnStep
    <3>3. \A k \in Handlers : upstream'[k] \in {0, upstream[k]}
      BY DEF OwnStep
    <3>4. \A i \in 1 .. Len(pool) : pool[i] \in 1 .. made /\ Rests(link[pool[i]]) /\ pool[i] # 0
      BY <1>1, <1>2 DEF PoolOK
    <3> QED
      BY <2>1, <3>2, <3>3, <3>4, <1>1 DEF PoolOK, Rests, OwnStep
  <2>2. CASE Busy(h) /\ pool' = Append(pool, upstream[h]) /\ upstream'[h] = 0 /\ Rests(link'[upstream[h]])
    <3>1. upstream[h] \in 1 .. made /\ upstream[h] # 0 /\ pool \in Seq(Links)
      BY <2>2, <1>1, <1>2 DEF HandlerOK, TypeOK
    <3>2. /\ Len(pool') = Len(pool) + 1 /\ pool'[Len(pool) + 1] = upstream[h] /\ Len(pool) \in Nat
          /\ \A i \in 1 .. Len(pool) : pool'[i] = pool[i]
      BY <2>2, <3>1
    <3>3. \A i \in 1 .. Len(pool) : /\ pool[i] # upstream[h] /\ pool[i] \in Links
                                   /\ pool[i] \in 1 .. made /\ Rests(link[pool[i]])
      BY <1>1 DEF PoolOK, TypeOK
    <3>4. \A i \in 1 .. Len(pool) : Rests(link'[pool[i]])
      BY <3>2, <3>3 DEF OwnStep, Rests
    <3>5. Rests(link'[pool'[Len(pool) + 1]])
      BY <2>2, <3>2 DEF Rests, OwnStep
    <3>6. \A i \in 1 .. Len(pool') : pool'[i] \in 1 .. made' /\ Rests(link'[pool'[i]])
      <4>1. made' = made
        BY DEF OwnStep
      <4>2. \A i \in 1 .. Len(pool') : i \in 1 .. Len(pool) \/ i = Len(pool) + 1
        BY <3>2
      <4> QED
        BY <4>1, <4>2, <3>1, <3>2, <3>3, <3>4, <3>5 DEF Rests
    <3>7. \A i, j \in 1 .. Len(pool') : pool'[i] = pool'[j] => i = j
      BY <3>2, <3>3, <1>1 DEF PoolOK
    <3>8. \A k \in Handlers, i \in 1 .. Len(pool') : upstream'[k] # pool'[i]
      <4>1. ASSUME NEW k \in Handlers, NEW i \in 1 .. Len(pool') PROVE upstream'[k] # pool'[i]
        <5>1. CASE k = h
          BY <5>1, <2>2, <3>6, <1>2 DEF OwnStep
        <5>2. CASE k # h
          <6>1. upstream'[k] = upstream[k] /\ upstream[k] # upstream[h]
            BY <5>2, <3>1, <1>4 DEF OwnStep
          <6>2. CASE i \in 1 .. Len(pool)
            BY <6>1, <6>2, <3>2, <1>1 DEF PoolOK
          <6>3. CASE i = Len(pool) + 1
            BY <6>1, <6>3, <3>2
          <6> QED
            BY <6>2, <6>3, <3>2
        <5> QED
          BY <5>1, <5>2
      <4> QED
        BY <4>1
    <3> QED
      BY <3>6, <3>7, <3>8 DEF PoolOK
  <2> QED
    BY <2>1, <2>2
<1>9. LinksOK'
  <2>1. \A g, k \in Handlers : upstream'[g] = upstream'[k] /\ upstream'[g] # 0 => g = k
    BY <1>1 DEF LinksOK, OwnStep
  <2>2. \A c \in Links : c > made' => link'[c] = NoLink
    BY <1>1, <1>2, <1>3 DEF LinksOK, OwnStep
  <2>3. ASSUME NEW c \in Links, link'[c].out # <<>>
        PROVE  \E k \in Handlers : pc'[k] \in {"receive", "relay"} /\ upstream'[k] = c
    <3>1. CASE c = upstream[h]
      BY <3>1, <2>3, <1>2
    <3>2. CASE c # upstream[h]
      <4>1. link[c].out # <<>>
        BY <3>2, <2>3 DEF OwnStep
      <4>2. PICK k \in Handlers : pc[k] \in {"receive", "relay"} /\ upstream[k] = c
        BY <4>1, <1>1 DEF LinksOK
      <4> QED
        BY <4>2, <3>2 DEF OwnStep
    <3> QED
      BY <3>1, <3>2
  <2> QED
    BY <2>1, <2>2, <2>3 DEF LinksOK
<1>10. RequestsOK'
  <2>1. \A k \in Handlers : pc'[k] # "idle" => pc[k] # "idle"
    BY DEF OwnStep
  <2>2. serving[h] \in 1 .. asked
    BY <1>6
  <2>3. \A r \in RequestIds : r > asked => r # serving[h]
    BY <2>2, <1>2
  <2> QED
    BY <2>1, <2>3, <1>1 DEF RequestsOK, OwnStep
<1>11. ProxyAnswersMatch' /\ RunsOnce'
  BY <1>1 DEF ProxyAnswersMatch, RunsOnce, OwnStep
<1> QED
  BY <1>7, <1>8, <1>9, <1>10, <1>11 DEF IInv

-----------------------------------------------------------------------------
(* What is known of a handler that is not idle.                            *)
LEMMA HandlerFacts ==
  ASSUME IInv, NEW h \in Handlers, pc[h] # "idle"
  PROVE  /\ TypeOK /\ HandlerOK(h) /\ RequestOK(h)
         /\ serving[h] \in RequestIds /\ forwarded[serving[h]] \in {<<>>, <<serving[h]>>}
         /\ Busy(h) => upstream[h] \in Links /\ upstream[h] # 0 /\ link[upstream[h]] \in LinkSet
         /\ ~Busy(h) => upstream[h] = 0
         /\ pc[h] # "relay" => forwarded[serving[h]] = <<>>
<1>1. TypeOK /\ HandlerOK(h) /\ RequestOK(h)
  BY DEF IInv
<1>2. asked \in Nat /\ made \in Nat /\ asked <= MaxRequests /\ made <= MaxLinks
  BY <1>1, BoundsAreNat DEF TypeOK
<1>3. serving[h] \in RequestIds /\ forwarded[serving[h]] \in {<<>>, <<serving[h]>>}
  <2>1. serving[h] \in 1 .. asked /\ forwarded[serving[h]] \in {<<>>, <<serving[h]>>}
    BY <1>1 DEF RequestOK
  <2> QED
    BY <2>1, <1>2, BoundsAreNat DEF RequestIds
<1>4. Busy(h) => upstream[h] \in Links /\ upstream[h] # 0
  BY <1>1, <1>2, BoundsAreNat DEF HandlerOK, Links
<1>5. Busy(h) => link[upstream[h]] \in LinkSet
  BY <1>1, <1>4 DEF TypeOK
<1>6. pc[h] # "relay" => forwarded[serving[h]] = <<>>
  BY <1>1 DEF RequestOK
<1> QED
  BY <1>1, <1>3, <1>4, <1>5, <1>6 DEF HandlerOK

(* A handler that returns has done with its connection and its request.    *)
LEMMA ReturnKeeps ==
  ASSUME IInv, NEW h \in Handlers, pc[h] # "idle",
         NEW what \in Seq(0 .. MaxRequests), Return(h, what),
         forwarded[serving[h]] \o what \in {<<>>, << 0 >>, <<serving[h]>>},
         UNCHANGED <<serving, raw, borrowed, retried, answer, first, asked, made, runs>>,
         link' \in [Links -> LinkSet], \A c \in Links \ {upstream[h]} : link'[c] = link[c],
         upstream[h] # 0 => link'[upstream[h]].out = <<>>,
         pool' \in Seq(Links),
         \/ pool' = pool
         \/ Busy(h) /\ pool' = Append(pool, upstream[h]) /\ Rests(link'[upstream[h]])
  PROVE  IInv'
<1>1. TypeOK /\ serving[h] \in RequestIds
  BY HandlerFacts
<1>2. /\ pc' = [pc EXCEPT ![h] = "idle"] /\ upstream' = [upstream EXCEPT ![h] = 0]
      /\ forwarded' = [forwarded EXCEPT ![serving[h]] = @ \o what]
  BY DEF Return
<1>3. forwarded[serving[h]] \o what \in Seq(0 .. MaxRequests)
  BY <1>1 DEF TypeOK
<1>4. TypeOK'
  <2>1. forwarded' \in [RequestIds -> Seq(0 .. MaxRequests)]
    BY <1>1, <1>2, <1>3 DEF TypeOK
  <2>2. upstream' \in [Handlers -> 0 .. MaxLinks]
    BY <1>1, <1>2, BoundsAreNat DEF TypeOK
  <2>3. pc' \in [Handlers -> {"idle", "connect", "send", "receive", "forward", "relay"}]
    BY <1>1, <1>2 DEF TypeOK
  <2> QED
    BY <1>1, <2>1, <2>2, <2>3 DEF TypeOK
<1>5. pc'[h] = "idle" /\ upstream'[h] = 0 /\ forwarded'[serving[h]] = forwarded[serving[h]] \o what
  BY <1>1, <1>2 DEF TypeOK
<1>6. OwnStep(h)
  <2>1. \A k \in Handlers \ {h} : pc'[k] = pc[k] /\ upstream'[k] = upstream[k]
    BY <1>1, <1>2 DEF TypeOK
  <2>2. \A r \in RequestIds \ {serving[h]} : forwarded'[r] = forwarded[r]
    BY <1>1, <1>2 DEF TypeOK
  <2> QED
    BY <1>5, <2>1, <2>2 DEF OwnStep
<1>7. HandlerOK(h)' /\ RequestOK(h)'
  BY <1>5 DEF HandlerOK, Busy, RequestOK
<1> QED
  BY <1>4, <1>5, <1>6, <1>7, OwnStepKeeps

(* The handler closes its connection.                                      *)
LEMMA CloseFacts ==
  ASSUME IInv, NEW h \in Handlers, Busy(h), Close(h)
  PROVE  /\ link' \in [Links -> LinkSet]
         /\ link'[upstream[h]] = [link[upstream[h]] EXCEPT !.state = "closed"]
         /\ link'[upstream[h]].out = link[upstream[h]].out
         /\ \A c \in Links \ {upstream[h]} : link'[c] = link[c]
<1>1. TypeOK /\ upstream[h] \in Links /\ link[upstream[h]] \in LinkSet
  BY HandlerFacts DEF Busy
<1> DEFINE l == [link[upstream[h]] EXCEPT !.state = "closed"]
<1>2. l \in LinkSet /\ l.out = link[upstream[h]].out
  BY <1>1 DEF LinkSet
<1>3. link' = [link EXCEPT ![upstream[h]] = l]
  BY DEF Close
<1> HIDE DEF l
<1>4. link' \in [Links -> LinkSet] /\ link'[upstream[h]] = l
      /\ \A c \in Links \ {upstream[h]} : link'[c] = link[c]
  BY <1>1, <1>2, <1>3 DEF TypeOK
<1> QED
  BY <1>2, <1>4 DEF l

(* A connection that broke: another attempt, or a 502.                     *)
LEMMA BrokenKeeps ==
  ASSUME IInv, NEW h \in Handlers, pc[h] \in {"send", "receive"}, link[upstream[h]].out = <<>>,
         Broken(h), UNCHANGED <<pool, serving, raw, answer, runs, first, asked, made>>
  PROVE  IInv'
<1>1. /\ TypeOK /\ HandlerOK(h) /\ RequestOK(h) /\ serving[h] \in RequestIds
      /\ upstream[h] \in Links /\ upstream[h] # 0 /\ forwarded[serving[h]] = <<>> /\ pc[h] # "idle" /\ Busy(h)
  BY HandlerFacts DEF Busy
<1>2. Close(h)
  BY DEF Broken
<1>3. /\ link' \in [Links -> LinkSet] /\ link'[upstream[h]].out = <<>>
      /\ \A c \in Links \ {upstream[h]} : link'[c] = link[c]
  BY <1>1, <1>2, CloseFacts
<1>4. pool' \in Seq(Links)
  BY <1>1 DEF TypeOK
<1>5. CASE ~(borrowed[h] /\ ~retried[h])
  <2>1. Return(h, <<0>>) /\ UNCHANGED <<borrowed, retried>>
    BY <1>5 DEF Broken, BadGateway
  <2>2. <<0>> \in Seq(0 .. MaxRequests) /\ forwarded[serving[h]] \o <<0>> = <<0>>
    BY <1>1, BoundsAreNat
  <2> QED
    BY <1>1, <1>3, <1>4, <2>1, <2>2, ReturnKeeps
<1>6. CASE borrowed[h] /\ ~retried[h]
  <2>1. /\ retried' = [retried EXCEPT ![h] = TRUE] /\ borrowed' = [borrowed EXCEPT ![h] = FALSE]
        /\ pc' = [pc EXCEPT ![h] = "connect"] /\ upstream' = [upstream EXCEPT ![h] = 0]
        /\ UNCHANGED forwarded
    BY <1>6 DEF Broken
  <2>2. TypeOK'
    <3>1. upstream' \in [Handlers -> 0 .. MaxLinks]
      BY <1>1, <2>1, BoundsAreNat DEF TypeOK
    <3>2. /\ pc' \in [Handlers -> {"idle", "connect", "send", "receive", "forward", "relay"}]
          /\ retried' \in [Handlers -> BOOLEAN] /\ borrowed' \in [Handlers -> BOOLEAN]
      BY <1>1, <2>1 DEF TypeOK
    <3> QED
      BY <1>1, <1>3, <2>1, <3>1, <3>2 DEF TypeOK
  <2>3. /\ pc'[h] = "connect" /\ upstream'[h] = 0 /\ retried'[h] /\ ~borrowed'[h]
        /\ \A k \in Handlers \ {h} : /\ pc'[k] = pc[k] /\ upstream'[k] = upstream[k]
                                     /\ borrowed'[k] = borrowed[k] /\ retried'[k] = retried[k]
    BY <1>1, <2>1 DEF TypeOK
  <2>4. OwnStep(h)
    BY <1>3, <2>1, <2>3 DEF OwnStep
  <2>5. HandlerOK(h)'
    BY <2>3 DEF HandlerOK, Busy
  <2>6. RequestOK(h)'
    <3>1. runs[serving[h]] <= 1 /\ runs[serving[h]] \in Nat
      BY <1>1, <1>6 DEF RequestOK, TypeOK
    <3>2. Unasked(h)'
      BY <2>3 DEF Unasked
    <3> QED
      BY <1>1, <1>6, <2>1, <2>3, <3>1, <3>2 DEF RequestOK
  <2> QED
    BY <1>1, <1>3, <2>1, <2>2, <2>3, <2>4, <2>5, <2>6, OwnStepKeeps
<1> QED
  BY <1>5, <1>6

(* No connection to the upstream: a 502.                                   *)
LEMMA ConnectFailsKeeps ==
  ASSUME IInv, NEW h \in Handlers, ConnectFails(h)
  PROVE  IInv'
<1>1. /\ pc[h] = "connect" /\ Return(h, <<0>>)
      /\ UNCHANGED <<pool, link, serving, raw, borrowed, retried, answer, runs, first, asked, made>>
  BY DEF ConnectFails, BadGateway
<1>2. TypeOK /\ forwarded[serving[h]] = <<>> /\ upstream[h] = 0
  BY <1>1, HandlerFacts DEF Busy
<1>3. <<0>> \in Seq(0 .. MaxRequests) /\ forwarded[serving[h]] \o <<0>> = <<0>>
  BY <1>2, BoundsAreNat
<1>4. link' \in [Links -> LinkSet] /\ pool' \in Seq(Links)
  BY <1>1, <1>2 DEF TypeOK
<1> QED
  BY <1>1, <1>2, <1>3, <1>4, ReturnKeeps

(* The request cannot be sent.                                             *)
LEMMA SendFailsKeeps ==
  ASSUME IInv, NEW h \in Handlers, SendFails(h)
  PROVE  IInv'
<1>1. pc[h] = "send" /\ Broken(h) /\ UNCHANGED <<pool, serving, raw, answer, runs, first, asked, made>>
  BY DEF SendFails
<1>2. link[upstream[h]].out = <<>>
  BY <1>1, HandlerFacts DEF HandlerOK, Rests
<1> QED
  BY <1>1, <1>2, BrokenKeeps

(* The connection ends before the answer.                                  *)
LEMMA ReceiveFailsKeeps ==
  ASSUME IInv, NEW h \in Handlers, ReceiveFails(h)
  PROVE  IInv'
<1>1. /\ pc[h] = "receive" /\ link[upstream[h]].in = <<>> /\ link[upstream[h]].state = "gone"
      /\ Broken(h) /\ UNCHANGED <<pool, serving, raw, answer, runs, first, asked, made>>
  BY DEF ReceiveFails, Over, Incoming
<1>2. link[upstream[h]].out = <<>>
  BY <1>1, HandlerFacts DEF HandlerOK, Asks, IsAnswered, Lost
<1> QED
  BY <1>1, <1>2, BrokenKeeps

(* The answer goes on to the client, the connection to the pool if it is kept. *)
LEMMA ForwardKeeps ==
  ASSUME IInv, NEW h \in Handlers, Forward(h) \/ ForwardFails(h)
  PROVE  IInv'
<1>1. pc[h] = "forward" /\ UNCHANGED <<serving, raw, borrowed, retried, answer, runs, first, asked, made>>
  BY DEF Forward, ForwardFails
<1>2. /\ TypeOK /\ forwarded[serving[h]] = <<>> /\ serving[h] \in RequestIds /\ Busy(h)
      /\ Rests(link[upstream[h]]) /\ answer[h].request = serving[h] /\ upstream[h] \in Links
  BY <1>1, HandlerFacts DEF Busy, HandlerOK
<1>3. <<serving[h]>> \in Seq(0 .. MaxRequests) /\ <<>> \in Seq(0 .. MaxRequests)
      /\ forwarded[serving[h]] \o <<serving[h]>> = <<serving[h]>> /\ forwarded[serving[h]] \o <<>> = <<>>
  BY <1>2, BoundsAreNat DEF RequestIds
<1>4. link[upstream[h]].out = <<>> /\ pool \in Seq(Links) /\ Append(pool, upstream[h]) \in Seq(Links)
      /\ link \in [Links -> LinkSet]
  BY <1>2 DEF Rests, TypeOK
<1>5. CASE ForwardFails(h)
  <2>1. Return(h, <<>>) /\ Close(h) /\ pool' = pool
    BY <1>5 DEF ForwardFails
  <2> QED
    BY <1>1, <1>2, <1>3, <1>4, <2>1, CloseFacts, ReturnKeeps
<1>6. CASE Forward(h)
  <2>1. /\ Return(h, <<serving[h]>>)
        /\ \/ pool' = Append(pool, upstream[h]) /\ link' = link
           \/ Close(h) /\ pool' = pool
    BY <1>2, <1>6 DEF Forward
  <2>2. CASE pool' = Append(pool, upstream[h]) /\ link' = link
    BY <1>1, <1>2, <1>3, <1>4, <2>1, <2>2, ReturnKeeps
  <2>3. CASE Close(h) /\ pool' = pool
    BY <1>1, <1>2, <1>3, <1>4, <2>1, <2>3, CloseFacts, ReturnKeeps
  <2> QED
    BY <2>1, <2>2, <2>3
<1> QED
  BY <1>5, <1>6

(* A relay that ends has nothing more of the request under way.            *)
LEMMA RelayEndsKeeps ==
  ASSUME IInv, NEW h \in Handlers, RelayEnds(h) \/ RelayFails(h)
  PROVE  IInv'
<1>1. /\ pc[h] = "relay" /\ Return(h, <<>>) /\ Close(h) /\ pool' = pool
      /\ UNCHANGED <<serving, raw, borrowed, retried, answer, runs, first, asked, made>>
      /\ link[upstream[h]].in # <<>> \/ link[upstream[h]].state = "gone"
  BY DEF RelayEnds, RelayFails, Over, Incoming
<1>2. /\ TypeOK /\ Busy(h) /\ forwarded[serving[h]] \in {<<>>, <<serving[h]>>} /\ serving[h] \in RequestIds
      /\ link[upstream[h]].out = <<>>
  BY <1>1, HandlerFacts DEF Busy, HandlerOK, Asks, IsAnswered, Lost
<1>3. <<>> \in Seq(0 .. MaxRequests) /\ forwarded[serving[h]] \o <<>> \in {<<>>, <<serving[h]>>}
  BY <1>2
<1>4. pool \in Seq(Links)
  BY <1>2 DEF TypeOK
<1> QED
  BY <1>1, <1>2, <1>3, <1>4, CloseFacts, ReturnKeeps

(* The request is under way, or lost on a connection that is gone.         *)
LEMMA SendRequestKeeps ==
  ASSUME IInv, NEW h \in Handlers, SendRequest(h)
  PROVE  IInv'
<1> DEFINE c == upstream[h]
<1> DEFINE l == link[c]
<1> DEFINE asks == [request |-> serving[h], raw |-> raw[h]]
<1>1. /\ pc[h] = "send" /\ pc' = [pc EXCEPT ![h] = IF raw[h] THEN "relay" ELSE "receive"]
      /\ link' = IF l.state = "open" THEN [link EXCEPT ![c].out = Append(@, asks)] ELSE link
      /\ UNCHANGED <<pool, serving, raw, upstream, borrowed, retried, answer, forwarded, runs, first, asked, made>>
  BY DEF SendRequest
<1>2. /\ TypeOK /\ Rests(l) /\ c \in Links /\ c # 0 /\ l \in LinkSet /\ c \in 1 .. made
      /\ serving[h] \in RequestIds /\ RequestOK(h) /\ forwarded[serving[h]] = <<>>
  BY <1>1, HandlerFacts DEF Busy, HandlerOK
<1>3. asks \in Sent
  BY <1>2 DEF Sent, TypeOK
<1> DEFINE sent == [l EXCEPT !.out = Append(@, asks)]
<1>4. sent \in LinkSet /\ sent.state = l.state /\ sent.in = <<>> /\ sent.out = <<asks>>
  <2> HIDE DEF asks, l
  <2>1. l.out = <<>> /\ l.in = <<>>
    BY <1>2 DEF Rests
  <2>2. Append(l.out, asks) = <<asks>> /\ <<asks>> \in Seq(Sent)
    BY <1>3, <2>1
  <2>3. sent = [l EXCEPT !.out = <<asks>>]
    BY <2>2
  <2> QED
    BY <1>2, <2>1, <2>2, <2>3 DEF LinkSet
<1>5. link' = IF l.state = "open" THEN [link EXCEPT ![c] = sent] ELSE link
  BY <1>1
<1> HIDE DEF sent
<1>6. /\ link' \in [Links -> LinkSet] /\ \A d \in Links \ {c} : link'[d] = link[d]
      /\ link'[c] = IF l.state = "open" THEN sent ELSE l
  BY <1>2, <1>4, <1>5 DEF TypeOK
<1>7. /\ pc' \in [Handlers -> {"idle", "connect", "send", "receive", "forward", "relay"}]
      /\ pc'[h] = (IF raw[h] THEN "relay" ELSE "receive")
      /\ \A k \in Handlers \ {h} : pc'[k] = pc[k]
  BY <1>1, <1>2 DEF TypeOK
<1>8. TypeOK'
  BY <1>1, <1>2, <1>6, <1>7 DEF TypeOK
<1>9. OwnStep(h)
  BY <1>1, <1>6, <1>7 DEF OwnStep
<1>10. upstream'[h] = c /\ serving'[h] = serving[h] /\ raw'[h] = raw[h] /\ made' = made /\ raw[h] \in BOOLEAN
  BY <1>1, <1>2 DEF TypeOK
<1>11. Asks(h)' \/ Lost(h)'
  <2>1. CASE l.state = "open"
    BY <2>1, <1>4, <1>6, <1>10 DEF Asks
  <2>2. CASE l.state # "open"
    BY <2>2, <1>2, <1>6, <1>10 DEF Lost, Rests
  <2> QED
    BY <2>1, <2>2
<1>12. HandlerOK(h)'
  BY <1>2, <1>7, <1>10, <1>11 DEF HandlerOK, Busy
<1>13. RequestOK(h)'
  <2>1. Unasked(h) /\ runs[serving[h]] \in Nat
    BY <1>1, <1>2 DEF Unasked, TypeOK
  <2>2. pc'[h] # "idle"
    BY <1>7
  <2> QED
    BY <1>1, <1>2, <2>1, <2>2 DEF RequestOK
<1>14. forwarded'[serving[h]] \in {<<>>, <<0>>, <<serving[h]>>} /\ pool' = pool /\ pc'[h] \in {"receive", "relay"}
  BY <1>1, <1>2, <1>7
<1> QED
  BY <1>1, <1>8, <1>9, <1>10, <1>12, <1>13, <1>14, OwnStepKeeps

(* An answer is taken off the connection, to be forwarded or relayed.      *)
LEMMA TakeFacts ==
  ASSUME IInv, NEW h \in Handlers, pc[h] \in {"receive", "relay"}, Incoming(h) # <<>>,
         link' = [link EXCEPT ![upstream[h]].in = Tail(@)]
  PROVE  /\ Head(Incoming(h)) \in [request : 0 .. MaxRequests, keep : BOOLEAN]
         /\ Head(Incoming(h)).request = serving[h] /\ IsAnswered(h) /\ ~Asks(h) /\ ~Lost(h)
         /\ Rests(link'[upstream[h]]) /\ link'[upstream[h]].state = link[upstream[h]].state
         /\ link' \in [Links -> LinkSet] /\ \A c \in Links \ {upstream[h]} : link'[c] = link[c]
<1> DEFINE c == upstream[h]
<1> DEFINE l == link[c]
<1>1. /\ TypeOK /\ c \in Links /\ l \in LinkSet /\ serving[h] \in RequestIds
      /\ Asks(h) \/ IsAnswered(h) \/ Lost(h)
  BY HandlerFacts DEF Busy, HandlerOK
<1>2. l.in # <<>>
  BY DEF Incoming
<1>3. IsAnswered(h) /\ ~Asks(h) /\ ~Lost(h)
  BY <1>1, <1>2 DEF Asks, Lost
<1>4. PICK keep \in BOOLEAN : l.in = <<[request |-> serving[h], keep |-> keep]>>
  BY <1>3 DEF IsAnswered
<1> DEFINE taken == [l EXCEPT !.in = Tail(@)]
<1>5. Tail(l.in) = <<>> /\ Head(l.in) = [request |-> serving[h], keep |-> keep]
  BY <1>4
<1>6. l.out = <<>> /\ l.state \in {"open", "gone"}
  BY <1>3 DEF IsAnswered
<1>7. taken \in LinkSet /\ taken.out = <<>> /\ taken.in = <<>> /\ taken.state = l.state
  <2>1. taken = [l EXCEPT !.in = <<>>]
    BY <1>5
  <2>2. <<>> \in Seq(Answered)
    OBVIOUS
  <2> HIDE DEF l
  <2> QED
    BY <1>1, <1>6, <2>1, <2>2 DEF LinkSet
<1>8. link' = [link EXCEPT ![c] = taken]
  OBVIOUS
<1> HIDE DEF taken
<1>9. /\ link' \in [Links -> LinkSet] /\ link'[c] = taken
      /\ \A d \in Links \ {c} : link'[d] = link[d]
  BY <1>1, <1>7, <1>8 DEF TypeOK
<1>10. serving[h] \in 0 .. MaxRequests
  BY <1>1, BoundsAreNat DEF RequestIds
<1> QED
  BY <1>3, <1>5, <1>6, <1>7, <1>9, <1>10 DEF Incoming, Rests

(* An answer received is that of the request of the handler.               *)
LEMMA ReceiveKeeps ==
  ASSUME IInv, NEW h \in Handlers, Receive(h)
  PROVE  IInv'
<1> DEFINE a == Head(Incoming(h))
<1>1. /\ pc[h] = "receive" /\ Incoming(h) # <<>> /\ answer' = [answer EXCEPT ![h] = a]
      /\ link' = [link EXCEPT ![upstream[h]].in = Tail(@)] /\ pc' = [pc EXCEPT ![h] = "forward"]
      /\ UNCHANGED <<pool, serving, raw, upstream, borrowed, retried, forwarded, runs, first, asked, made>>
  BY DEF Receive
<1>2. /\ TypeOK /\ HandlerOK(h) /\ RequestOK(h) /\ serving[h] \in RequestIds /\ forwarded[serving[h]] = <<>>
      /\ upstream[h] \in 1 .. made /\ upstream[h] # 0
  BY <1>1, HandlerFacts DEF Busy, HandlerOK
<1>3. /\ a \in [request : 0 .. MaxRequests, keep : BOOLEAN] /\ a.request = serving[h] /\ ~Asks(h)
      /\ Rests(link'[upstream[h]]) /\ link' \in [Links -> LinkSet]
      /\ \A c \in Links \ {upstream[h]} : link'[c] = link[c]
  BY <1>1, TakeFacts
<1> HIDE DEF a
<1>4. /\ answer' \in [Handlers -> [request : 0 .. MaxRequests, keep : BOOLEAN]] /\ answer'[h] = a
      /\ \A k \in Handlers \ {h} : answer'[k] = answer[k]
  BY <1>1, <1>2, <1>3 DEF TypeOK
<1>5. /\ pc' \in [Handlers -> {"idle", "connect", "send", "receive", "forward", "relay"}]
      /\ pc'[h] = "forward" /\ \A k \in Handlers \ {h} : pc'[k] = pc[k]
  BY <1>1, <1>2 DEF TypeOK
<1>6. TypeOK'
  BY <1>1, <1>2, <1>3, <1>4, <1>5 DEF TypeOK
<1>7. OwnStep(h)
  BY <1>1, <1>3, <1>4, <1>5 DEF OwnStep
<1>8. HandlerOK(h)'
  BY <1>1, <1>2, <1>3, <1>4, <1>5 DEF HandlerOK, Busy
<1>9. RequestOK(h)'
  <2>1. ~Unasked(h) /\ ~Unasked(h)'
    BY <1>1, <1>3, <1>5 DEF Unasked
  <2> QED
    BY <1>1, <1>2, <2>1 DEF RequestOK
<1> QED
  BY <1>1, <1>2, <1>3, <1>6, <1>7, <1>8, <1>9, OwnStepKeeps DEF Rests

(* A relayed one too; there is no more after it.                           *)
LEMMA RelayKeeps ==
  ASSUME IInv, NEW h \in Handlers, Relay(h)
  PROVE  IInv'
<1> DEFINE r == serving[h]
<1>1. /\ pc[h] = "relay" /\ Incoming(h) # <<>>
      /\ forwarded' = [forwarded EXCEPT ![r] = Append(@, Head(Incoming(h)).request)]
      /\ link' = [link EXCEPT ![upstream[h]].in = Tail(@)]
      /\ UNCHANGED <<pool, pc, serving, raw, upstream, borrowed, retried, answer, runs, first, asked, made>>
  BY DEF Relay
<1>2. /\ TypeOK /\ HandlerOK(h) /\ RequestOK(h) /\ r \in RequestIds
      /\ upstream[h] \in 1 .. made /\ upstream[h] # 0 /\ raw[h]
  BY <1>1, HandlerFacts DEF Busy, HandlerOK
<1>3. /\ Head(Incoming(h)).request = r /\ ~Asks(h) /\ ~Lost(h) /\ IsAnswered(h)
      /\ Rests(link'[upstream[h]]) /\ link' \in [Links -> LinkSet]
      /\ link'[upstream[h]].state = link[upstream[h]].state
      /\ \A c \in Links \ {upstream[h]} : link'[c] = link[c]
  BY <1>1, TakeFacts
<1>4. forwarded[r] = <<>>
  BY <1>1, <1>2, <1>3 DEF RequestOK
<1>5. Append(forwarded[r], r) = <<r>> /\ <<r>> \in Seq(0 .. MaxRequests)
  BY <1>2, <1>4, BoundsAreNat DEF RequestIds
<1>6. /\ forwarded' \in [RequestIds -> Seq(0 .. MaxRequests)] /\ forwarded'[r] = <<r>>
      /\ \A q \in RequestIds \ {r} : forwarded'[q] = forwarded[q]
  BY <1>1, <1>2, <1>3, <1>5 DEF TypeOK
<1>7. TypeOK'
  BY <1>1, <1>2, <1>3, <1>6 DEF TypeOK
<1>8. OwnStep(h)
  BY <1>1, <1>3, <1>6 DEF OwnStep
<1>9. Lost(h)' /\ ~Asks(h)'
  BY <1>1, <1>2, <1>3 DEF Lost, Asks, Rests, IsAnswered
<1>10. HandlerOK(h)'
  BY <1>1, <1>2, <1>9 DEF HandlerOK, Busy
<1>11. RequestOK(h)'
  <2>1. ~Unasked(h) /\ ~Unasked(h)'
    BY <1>1, <1>3, <1>9 DEF Unasked
  <2> QED
    BY <1>1, <1>2, <1>6, <1>9, <2>1 DEF RequestOK
<1> QED
  BY <1>1, <1>3, <1>6, <1>7, <1>8, <1>10, <1>11, OwnStepKeeps DEF Rests

(* A new connection is nobody's until its handler has it.                  *)
LEMMA ConnectKeeps ==
  ASSUME IInv, NEW h \in Handlers, Connect(h)
  PROVE  IInv'
<1> DEFINE c == made + 1
<1>1. /\ pc[h] = "connect" /\ made < MaxLinks /\ made' = c
      /\ link' = [link EXCEPT ![c].state = "open"]
      /\ upstream' = [upstream EXCEPT ![h] = c] /\ pc' = [pc EXCEPT ![h] = "send"]
      /\ UNCHANGED <<pool, serving, raw, borrowed, retried, answer, forwarded, runs, first, asked>>
  BY DEF Connect
<1>2. /\ TypeOK /\ PoolOK /\ LinksOK /\ RequestsOK /\ ProxyAnswersMatch /\ RunsOnce
      /\ HandlerOK(h) /\ RequestOK(h)
  BY DEF IInv
<1>3. /\ made \in Nat /\ c \in Links /\ c \in 1 .. made' /\ c > made /\ asked \in Nat
      /\ MaxLinks \in Nat /\ c \in 0 .. MaxLinks /\ 0 \notin Links
  BY <1>1, <1>2, BoundsAreNat DEF TypeOK, Links
<1>4. link[c] = NoLink
  BY <1>2, <1>3 DEF LinksOK
<1> DEFINE l == [NoLink EXCEPT !.state = "open"]
<1>5. l \in LinkSet /\ Rests(l) /\ l.out = <<>>
  <2>1. l = [state |-> "open", out |-> <<>>, in |-> <<>>]
    BY DEF NoLink
  <2>2. <<>> \in Seq(Sent) /\ <<>> \in Seq(Answered)
    OBVIOUS
  <2> HIDE DEF l
  <2> QED
    BY <2>1, <2>2 DEF LinkSet, Rests
<1>6. link' = [link EXCEPT ![c] = l]
  BY <1>1, <1>4
<1> HIDE DEF c, l
<1>7. link' \in [Links -> LinkSet] /\ link'[c] = l /\ \A d \in Links \ {c} : link'[d] = link[d]
  BY <1>2, <1>3, <1>5, <1>6 DEF TypeOK
<1>8. /\ upstream' \in [Handlers -> 0 .. MaxLinks] /\ upstream'[h] = c
      /\ \A k \in Handlers \ {h} : upstream'[k] = upstream[k]
  BY <1>1, <1>2, <1>3 DEF TypeOK
<1>9. /\ pc' \in [Handlers -> {"idle", "connect", "send", "receive", "forward", "relay"}]
      /\ pc'[h] = "send" /\ \A k \in Handlers \ {h} : pc'[k] = pc[k]
  BY <1>1, <1>2 DEF TypeOK
<1>10. made' \in 0 .. MaxLinks /\ made' \in Nat /\ made' >= made
  BY <1>1, <1>3 DEF c
<1>11. TypeOK'
  BY <1>1, <1>2, <1>7, <1>8, <1>9, <1>10 DEF TypeOK
<1>12. \A k \in Handlers : upstream[k] # 0 => upstream[k] \in Links /\ upstream[k] # c
  <2>1. \A k \in Handlers : upstream[k] # 0 => upstream[k] \in 1 .. made
    BY DEF IInv, HandlerOK
  <2> QED
    BY <2>1, <1>3, <1>10, BoundsAreNat DEF Links
<1>13. ASSUME NEW k \in Handlers PROVE HandlerOK(k)' /\ RequestOK(k)'
  <2>1. CASE k # h
    <3>1. upstream[k] # 0 => link'[upstream[k]] = link[upstream[k]]
      BY <1>7, <1>12
    <3> QED
      BY <2>1, <3>1, <1>1, <1>3, <1>8, <1>9, <1>10, OthersKeep
  <2>2. HandlerOK(h)'
    BY <1>3, <1>5, <1>7, <1>8, <1>9 DEF HandlerOK, Busy
  <2>3. RequestOK(h)'
    <3>1. Unasked(h) /\ Unasked(h)'
      BY <1>1, <1>9 DEF Unasked
    <3> QED
      BY <1>1, <1>2, <1>9, <3>1 DEF RequestOK
  <2> QED
    BY <2>1, <2>2, <2>3
<1>14. PoolOK'
  <2>1. \A i \in 1 .. Len(pool) : pool[i] \in Links /\ pool[i] # c /\ pool[i] \in 1 .. made'
    BY <1>2, <1>3, <1>10 DEF PoolOK, TypeOK
  <2>2. \A i \in 1 .. Len(pool) : link'[pool[i]] = link[pool[i]]
    BY <2>1, <1>7
  <2> QED
    BY <2>1, <2>2, <1>1, <1>2, <1>8 DEF PoolOK
<1>15. LinksOK'
  <2>1. \A g, k \in Handlers : upstream'[g] = upstream'[k] /\ upstream'[g] # 0 => g = k
    BY <1>2, <1>8, <1>12 DEF LinksOK
  <2>2. \A d \in Links : d > made' => link'[d] = NoLink
    <3>1. \A d \in Links : d > made' => d # c /\ d > made
      BY <1>3, <1>10, BoundsAreNat DEF Links
    <3> QED
      BY <3>1, <1>2, <1>7 DEF LinksOK
  <2>3. ASSUME NEW d \in Links, link'[d].out # <<>>
        PROVE  \E k \in Handlers : pc'[k] \in {"receive", "relay"} /\ upstream'[k] = d
    <3>1. link[d].out # <<>>
      BY <2>3, <1>5, <1>7
    <3>2. PICK k \in Handlers : pc[k] \in {"receive", "relay"} /\ upstream[k] = d
      BY <3>1, <1>2 DEF LinksOK
    <3> QED
      BY <3>2, <1>1, <1>8, <1>9
  <2> QED
    BY <2>1, <2>2, <2>3 DEF LinksOK
<1>16. RequestsOK'
  <2>1. \A k \in Handlers : pc'[k] # "idle" <=> pc[k] # "idle"
    BY <1>1, <1>9
  <2> QED
    BY <2>1, <1>1, <1>2 DEF RequestsOK
<1>17. ProxyAnswersMatch' /\ RunsOnce'
  BY <1>1, <1>2 DEF ProxyAnswersMatch, RunsOnce
<1> QED
  BY <1>11, <1>13, <1>14, <1>15, <1>16, <1>17 DEF IInv

(* All elements of a sequence but the last.                                *)
LEMMA FrontFacts ==
  ASSUME NEW S, NEW s \in Seq(S), s # <<>>
  PROVE  LET t == SubSeq(s, 1, Len(s) - 1)
         IN  /\ t \in Seq(S) /\ Len(t) = Len(s) - 1 /\ Len(s) \in Nat /\ Len(t) \in Nat
             /\ \A i \in 1 .. Len(t) : t[i] = s[i] /\ i \in 1 .. Len(s)
<1>1. Len(s) \in Nat \ {0} /\ Len(s) - 1 \in Nat /\ \A i \in 1 .. Len(s) : s[i] \in S
  OBVIOUS
<1> DEFINE t == SubSeq(s, 1, Len(s) - 1)
<1>2. Len(t) = Len(s) - 1 /\ \A i \in 1 .. Len(s) - 1 : t[i] = s[i]
  <2>1. t = [i \in 1 .. (Len(s) - 1) - 1 + 1 |-> s[i + 1 - 1]]
    BY DEF SubSeq
  <2>2. (Len(s) - 1) - 1 + 1 = Len(s) - 1
    BY <1>1
  <2>3. \A i \in 1 .. Len(s) - 1 : i + 1 - 1 = i
    BY <1>1
  <2> HIDE DEF t
  <2>4. t = [i \in 1 .. Len(s) - 1 |-> s[i]]
    BY <2>1, <2>2, <2>3
  <2> QED
    BY <1>1, <2>4
<1>3. t \in Seq(S)
  BY <1>1
<1>4. \A i \in 1 .. Len(s) - 1 : i \in 1 .. Len(s)
  BY <1>1
<1> QED
  BY <1>1, <1>2, <1>3, <1>4

(* A request arrives; it may take the last connection of the pool.         *)
LEMMA StartKeeps ==
  ASSUME IInv, NEW h \in Handlers, NEW isRaw \in BOOLEAN, Start(h, isRaw)
  PROVE  IInv'
<1> DEFINE reuse == ~isRaw /\ pool # <<>>
<1> DEFINE r == asked + 1
<1>1. /\ pc[h] = "idle" /\ asked < MaxRequests /\ asked' = r
      /\ serving' = [serving EXCEPT ![h] = r] /\ raw' = [raw EXCEPT ![h] = isRaw]
      /\ retried' = [retried EXCEPT ![h] = FALSE] /\ borrowed' = [borrowed EXCEPT ![h] = reuse]
      /\ first' = [first EXCEPT ![r] = IF reuse THEN "pooled" ELSE "new"]
      /\ UNCHANGED <<link, answer, forwarded, runs, made>>
  BY DEF Start
<1>2. /\ TypeOK /\ PoolOK /\ LinksOK /\ RequestsOK /\ ProxyAnswersMatch /\ RunsOnce
      /\ HandlerOK(h) /\ upstream[h] = 0
  BY <1>1 DEF IInv, HandlerOK, Busy
<1>3. /\ asked \in Nat /\ r \in RequestIds /\ r > asked /\ r \in 0 .. MaxRequests /\ r \in 1 .. asked'
      /\ made \in Nat /\ asked' \in 0 .. MaxRequests /\ asked' >= asked /\ asked' \in Nat
  BY <1>1, <1>2, BoundsAreNat DEF TypeOK, RequestIds
<1>4. forwarded[r] = <<>> /\ runs[r] = 0
  BY <1>2, <1>3 DEF RequestsOK
<1>5. \A k \in Handlers : pc[k] # "idle" => serving[k] \in 1 .. asked /\ serving[k] # r
  BY <1>3 DEF IInv, RequestOK
<1> DEFINE taken == IF reuse THEN pool[Len(pool)] ELSE 0
<1>6. /\ upstream' = [upstream EXCEPT ![h] = taken]
      /\ pc' = [pc EXCEPT ![h] = IF reuse THEN "send" ELSE "connect"]
      /\ pool' = IF reuse THEN SubSeq(pool, 1, Len(pool) - 1) ELSE pool
  <2>1. CASE reuse
    BY <2>1 DEF Start, Borrow, Last, Front
  <2>2. CASE ~reuse
    <3>1. upstream' = upstream /\ pool' = pool /\ pc' = [pc EXCEPT ![h] = "connect"]
      BY <2>2 DEF Start
    <3>2. [upstream EXCEPT ![h] = 0] = upstream
      BY <1>2 DEF TypeOK
    <3> QED
      BY <2>2, <3>1, <3>2
  <2> QED
    BY <2>1, <2>2
<1>7. /\ reuse => taken \in 1 .. made /\ taken \in Links /\ Rests(link[taken])
      /\ reuse => \A k \in Handlers : upstream[k] # taken
  <2>1. reuse => Len(pool) \in 1 .. Len(pool)
    BY <1>2 DEF TypeOK
  <2>2. reuse => taken \in Links
    BY <2>1, <1>2 DEF TypeOK
  <2> QED
    BY <2>1, <2>2, <1>2 DEF PoolOK
<1>8. /\ pool' \in Seq(Links) /\ Len(pool') <= Len(pool) /\ Len(pool') \in Nat /\ Len(pool) \in Nat
      /\ reuse => Len(pool') = Len(pool) - 1
      /\ \A i \in 1 .. Len(pool') : pool'[i] = pool[i] /\ i \in 1 .. Len(pool)
  <2>1. pool \in Seq(Links)
    BY <1>2 DEF TypeOK
  <2>2. CASE reuse
    <3>1. pool' = SubSeq(pool, 1, Len(pool) - 1) /\ pool # <<>>
      BY <2>2, <1>6
    <3>2. reuse
      BY <2>2
    <3> HIDE DEF reuse
    <3> QED
      BY <2>1, <3>1, <3>2, FrontFacts
  <2>3. CASE ~reuse
    BY <2>1, <2>3, <1>6
  <2> QED
    BY <2>2, <2>3
<1>9. \A i \in 1 .. Len(pool') : pool'[i] # taken
  <2>1. CASE reuse
    <3>1. \A i \in 1 .. Len(pool') : i # Len(pool) /\ i \in 1 .. Len(pool) /\ Len(pool) \in 1 .. Len(pool)
      BY <2>1, <1>8
    <3> QED
      BY <2>1, <3>1, <1>2, <1>8 DEF PoolOK
  <2>2. CASE ~reuse
    <3>1. \A i \in 1 .. Len(pool) : pool[i] # 0
      BY <1>2, <1>3 DEF PoolOK
    <3> QED
      BY <2>2, <3>1, <1>8
  <2> QED
    BY <2>1, <2>2
<1> HIDE DEF taken, r
<1>10. /\ upstream' \in [Handlers -> 0 .. MaxLinks] /\ upstream'[h] = taken
       /\ \A k \in Handlers \ {h} : upstream'[k] = upstream[k]
  <2>1. taken \in 0 .. MaxLinks
    BY <1>7, BoundsAreNat DEF taken, Links
  <2> QED
    BY <2>1, <1>2, <1>6 DEF TypeOK
<1>11. /\ pc' \in [Handlers -> {"idle", "connect", "send", "receive", "forward", "relay"}]
       /\ pc'[h] = (IF reuse THEN "send" ELSE "connect") /\ \A k \in Handlers \ {h} : pc'[k] = pc[k]
  BY <1>2, <1>6 DEF TypeOK
<1>12. /\ serving' \in [Handlers -> 0 .. MaxRequests] /\ serving'[h] = r
       /\ raw' \in [Handlers -> BOOLEAN] /\ raw'[h] = isRaw
       /\ \A k \in Handlers \ {h} : serving'[k] = serving[k] /\ raw'[k] = raw[k]
  BY <1>1, <1>2, <1>3 DEF TypeOK
<1>13. /\ retried' \in [Handlers -> BOOLEAN] /\ ~retried'[h]
       /\ borrowed' \in [Handlers -> BOOLEAN] /\ borrowed'[h] = reuse
       /\ \A k \in Handlers \ {h} : retried'[k] = retried[k] /\ borrowed'[k] = borrowed[k]
  BY <1>1, <1>2 DEF TypeOK
<1>14. /\ first' \in [RequestIds -> {"pooled", "new"}] /\ (reuse => first'[r] = "pooled")
       /\ \A q \in RequestIds \ {r} : first'[q] = first[q]
  BY <1>1, <1>2, <1>3 DEF TypeOK
<1>15. TypeOK'
  <2>1. UNCHANGED <<link, answer, forwarded, runs, made>>
    BY <1>1
  <2> HIDE DEF reuse
  <2> QED
    BY <2>1, <1>2, <1>3, <1>8, <1>10, <1>11, <1>12, <1>13, <1>14 DEF TypeOK
<1>16. ASSUME NEW k \in Handlers PROVE HandlerOK(k)' /\ RequestOK(k)'
  <2>1. CASE k # h
    <3>1. pc[k] # "idle" => serving[k] \in RequestIds \ {r}
      BY <1>2, <1>5, BoundsAreNat DEF TypeOK, RequestIds
    <3>2. UNCHANGED <<link, answer, forwarded, runs, made>>
      BY <1>1
    <3> HIDE DEF reuse
    <3> QED
      BY <2>1, <3>1, <3>2, <1>3, <1>10, <1>11, <1>12, <1>13, <1>14, OthersKeep
  <2>2. HandlerOK(h)'
    <3>1. link' = link /\ made' = made
      BY <1>1
    <3>2. ~reuse => taken = 0
      BY DEF taken
    <3> HIDE DEF reuse
    <3> QED
      BY <3>1, <3>2, <1>7, <1>10, <1>11 DEF HandlerOK, Busy
  <2>3. RequestOK(h)'
    <3>1. Unasked(h)'
      BY <1>11 DEF Unasked
    <3>2. forwarded'[r] = <<>> /\ runs'[r] = 0
      BY <1>1, <1>4
    <3> HIDE DEF reuse
    <3> QED
      BY <3>1, <3>2, <1>3, <1>12, <1>13, <1>14 DEF RequestOK
  <2> QED
    BY <2>1, <2>2, <2>3
<1>17. PoolOK'
  <2>1. link' = link /\ made' = made
    BY <1>1
  <2>2. \A k \in Handlers, i \in 1 .. Len(pool') : upstream'[k] # pool'[i]
    BY <1>2, <1>8, <1>9, <1>10 DEF PoolOK
  <2>3. ASSUME NEW i \in 1 .. Len(pool')
        PROVE  pool'[i] \in 1 .. made' /\ Rests(link'[pool'[i]])
    <3>1. i \in 1 .. Len(pool) /\ pool'[i] = pool[i]
      BY <1>8
    <3>2. pool[i] \in 1 .. made /\ Rests(link[pool[i]])
      BY <3>1, <1>2 DEF PoolOK
    <3> QED
      BY <2>1, <3>1, <3>2
  <2>4. ASSUME NEW i \in 1 .. Len(pool'), NEW j \in 1 .. Len(pool'), pool'[i] = pool'[j] PROVE i = j
    <3>1. i \in 1 .. Len(pool) /\ j \in 1 .. Len(pool) /\ pool[i] = pool[j]
      BY <2>4, <1>8
    <3> QED
      BY <3>1, <1>2 DEF PoolOK
  <2> QED
    BY <2>2, <2>3, <2>4 DEF PoolOK
<1>18. LinksOK'
  <2>1. \A g, k \in Handlers : upstream'[g] = upstream'[k] /\ upstream'[g] # 0 => g = k
    <3>1. \A k \in Handlers : taken # 0 => upstream[k] # taken
      BY <1>7 DEF taken
    <3> QED
      BY <3>1, <1>2, <1>10 DEF LinksOK
  <2>2. \A c \in Links : link'[c].out # <<>> =>
          \E k \in Handlers : pc'[k] \in {"receive", "relay"} /\ upstream'[k] = c
    BY <1>1, <1>2, <1>10, <1>11 DEF LinksOK
  <2> QED
    BY <2>1, <2>2, <1>1, <1>2 DEF LinksOK
<1>19. RequestsOK'
  <2>1. \A g, k \in Handlers : pc'[g] # "idle" /\ pc'[k] # "idle" /\ serving'[g] = serving'[k] => g = k
    BY <1>2, <1>5, <1>11, <1>12 DEF RequestsOK
  <2>2. \A q \in RequestIds : q > asked' => q > asked
    BY <1>3, BoundsAreNat DEF RequestIds
  <2> QED
    BY <2>1, <2>2, <1>1, <1>2 DEF RequestsOK
<1>20. ProxyAnswersMatch' /\ RunsOnce'
  <2>1. \A q \in RequestIds : runs'[q] <= IF first'[q] = "pooled" THEN 2 ELSE 1
    BY <1>1, <1>2, <1>4, <1>14 DEF RunsOnce, TypeOK
  <2> QED
    BY <2>1, <1>1, <1>2 DEF ProxyAnswersMatch, RunsOnce
<1> QED
  BY <1>15, <1>16, <1>17, <1>18, <1>19, <1>20 DEF IInv

-----------------------------------------------------------------------------
(* The upstream serves a connection: its handler, if it has one that has   *)
(* sent its request, is the one the request is from.                       *)
LEMMA OwnerFacts ==
  ASSUME IInv, NEW c \in Links, link[c].out # <<>>
  PROVE  \E h \in Handlers :
           /\ pc[h] \in {"receive", "relay"} /\ upstream[h] = c /\ Asks(h)
           /\ link[c].out = <<[request |-> serving[h], raw |-> raw[h]]>> /\ link[c].in = <<>>
           /\ raw[h] <=> pc[h] = "relay"
           /\ serving[h] \in RequestIds
<1>1. PICK h \in Handlers : pc[h] \in {"receive", "relay"} /\ upstream[h] = c
  BY DEF IInv, LinksOK
<1>2. Asks(h) /\ serving[h] \in RequestIds /\ (raw[h] <=> pc[h] = "relay")
  BY <1>1, HandlerFacts DEF HandlerOK, IsAnswered, Lost, TypeOK
<1>3. link[c].out = <<[request |-> serving[h], raw |-> raw[h]]>> /\ link[c].in = <<>>
  BY <1>1, <1>2 DEF Asks
<1> QED
  BY <1>1, <1>2, <1>3

(* The upstream changes the connection c and what is under way on it, and  *)
(* may have carried out a request.                                         *)
UpstreamStep(c) ==
  /\ UpstreamKeeps
  /\ link' \in [Links -> LinkSet] /\ link'[c].out = <<>>
  /\ \A d \in Links \ {c} : link'[d] = link[d]
  /\ runs' \in [RequestIds -> Nat]

(* Such a step keeps the invariant if what it says of the owner does.      *)
LEMMA UpstreamStepKeeps ==
  ASSUME IInv, NEW c \in Links, link[c].state = "open", UpstreamStep(c),
         Rests(link[c]) => Rests(link'[c]),
         \A h \in Handlers : Busy(h) /\ upstream[h] = c =>
            /\ HandlerOK(h)' /\ RequestOK(h)' /\ runs'[serving[h]] <= IF retried[h] THEN 2 ELSE 1
            /\ \A r \in RequestIds \ {serving[h]} : runs'[r] = runs[r],
         (\A h \in Handlers : upstream[h] # c) => runs' = runs
  PROVE  IInv'
<1>1. /\ TypeOK /\ PoolOK /\ LinksOK /\ RequestsOK /\ ProxyAnswersMatch /\ RunsOnce
      /\ \A k \in Handlers : HandlerOK(k) /\ RequestOK(k)
  BY DEF IInv
<1>2. UNCHANGED <<pool, pc, serving, raw, upstream, borrowed, retried, answer, forwarded, first, asked, made>>
  BY DEF UpstreamStep, UpstreamKeeps
<1>3. asked \in Nat /\ made \in Nat /\ 0 \notin Links /\ Links \subseteq Nat
  BY <1>1, BoundsAreNat DEF TypeOK, Links
<1>4. TypeOK'
  BY <1>1, <1>2 DEF TypeOK, UpstreamStep
<1>5. \A h \in Handlers : upstream[h] = c => Busy(h) /\ pc[h] # "idle"
  BY <1>1, <1>3 DEF HandlerOK, Busy
<1>6. \A h \in Handlers : pc[h] # "idle" => serving[h] \in RequestIds /\ serving[h] \in 1 .. asked
  BY HandlerFacts DEF RequestOK
<1>7. ASSUME NEW k \in Handlers PROVE HandlerOK(k)' /\ RequestOK(k)'
  <2>1. CASE upstream[k] = c
    BY <2>1, <1>5
  <2>2. CASE upstream[k] # c
    <3>1. upstream[k] # 0 => upstream[k] \in Links
      BY <1>1, BoundsAreNat DEF TypeOK, Links
    <3>2. upstream[k] # 0 => link'[upstream[k]] = link[upstream[k]]
      BY <2>2, <3>1 DEF UpstreamStep
    <3>3. pc[k] # "idle" => runs'[serving[k]] = runs[serving[k]]
      <4>1. CASE \A h \in Handlers : upstream[h] # c
        BY <4>1
      <4>2. ASSUME NEW h \in Handlers, upstream[h] = c, pc[k] # "idle"
            PROVE  runs'[serving[k]] = runs[serving[k]]
        <5>1. serving[k] # serving[h]
          BY <4>2, <2>2, <1>1, <1>5 DEF RequestsOK
        <5> QED
          BY <5>1, <4>2, <1>5, <1>6
      <4> QED
        BY <4>1, <4>2
    <3> QED
      BY <3>2, <3>3, <1>2, <1>3, OthersKeep
  <2> QED
    BY <2>1, <2>2
<1>8. PoolOK'
  <2>1. \A i \in 1 .. Len(pool) : pool[i] \in Links /\ Rests(link[pool[i]])
    BY <1>1 DEF PoolOK, TypeOK
  <2>2. \A i \in 1 .. Len(pool) : Rests(link'[pool[i]])
    BY <2>1 DEF UpstreamStep
  <2> QED
    BY <2>2, <1>1, <1>2 DEF PoolOK
<1>9. LinksOK'
  <2>1. c <= made
    <3>1. c > made => link[c] = NoLink
      BY <1>1 DEF LinksOK
    <3> QED
      BY <3>1, <1>3 DEF NoLink
  <2>2. \A d \in Links : d > made' => link'[d] = NoLink
    BY <2>1, <1>1, <1>2, <1>3 DEF LinksOK, UpstreamStep
  <2>3. \A d \in Links : link'[d].out # <<>> => link[d].out # <<>>
    BY DEF UpstreamStep
  <2> QED
    BY <2>2, <2>3, <1>1, <1>2 DEF LinksOK
<1>10. RequestsOK' /\ RunsOnce'
  <2>1. CASE \A h \in Handlers : upstream[h] # c
    BY <2>1, <1>1, <1>2 DEF RequestsOK, RunsOnce
  <2>2. ASSUME NEW h \in Handlers, upstream[h] = c PROVE RequestsOK' /\ RunsOnce'
    <3>1. /\ serving[h] \in 1 .. asked /\ runs'[serving[h]] <= IF retried[h] THEN 2 ELSE 1
          /\ \A r \in RequestIds \ {serving[h]} : runs'[r] = runs[r]
          /\ retried[h] => first[serving[h]] = "pooled"
      BY <2>2, <1>1, <1>5, <1>6 DEF RequestOK
    <3>2. \A r \in RequestIds : r > asked => r # serving[h]
      BY <3>1, <1>3
    <3>3. RequestsOK'
      BY <3>1, <3>2, <1>1, <1>2 DEF RequestsOK
    <3>4. runs'[serving[h]] <= IF first[serving[h]] = "pooled" THEN 2 ELSE 1
      <4>1. runs'[serving[h]] \in Nat
        BY <2>2, <1>5, <1>6 DEF UpstreamStep
      <4> QED
        BY <3>1, <4>1
    <3>5. RunsOnce'
      BY <3>1, <3>4, <1>1, <1>2 DEF RunsOnce
    <3> QED
      BY <3>3, <3>5
  <2> QED
    BY <2>1, <2>2
<1>11. ProxyAnswersMatch'
  BY <1>1, <1>2 DEF ProxyAnswersMatch
<1> QED
  BY <1>4, <1>7, <1>8, <1>9, <1>10, <1>11 DEF IInv

(* One run more of a request.                                              *)
LEMMA RunFacts ==
  ASSUME TypeOK, NEW r \in RequestIds
  PROVE  LET more == [runs EXCEPT ![r] = @ + 1]
         IN  /\ more \in [RequestIds -> Nat] /\ more[r] = runs[r] + 1
             /\ \A q \in RequestIds \ {r} : more[q] = runs[q]
BY DEF TypeOK

(* A request under way becomes an answer under way, or is lost; it has run *)
(* once more, or not.                                                      *)
LEMMA OwnerKeeps ==
  ASSUME IInv, NEW c \in Links, NEW h \in Handlers, pc[h] \in {"receive", "relay"}, upstream[h] = c,
         Asks(h), UpstreamStep(c), IsAnswered(h)' \/ Lost(h)',
         NEW more \in {0, 1}, runs'[serving[h]] = runs[serving[h]] + more,
         \A r \in RequestIds \ {serving[h]} : runs'[r] = runs[r], link[c].state = "open",
         ~Rests(link[c])
  PROVE  IInv'
<1>1. /\ TypeOK /\ HandlerOK(h) /\ RequestOK(h) /\ serving[h] \in RequestIds /\ pc[h] # "idle" /\ Busy(h)
      /\ c # 0 /\ LinksOK
  BY HandlerFacts DEF Busy, IInv
<1>2. UNCHANGED <<pool, pc, serving, raw, upstream, borrowed, retried, answer, forwarded, first, asked, made>>
  BY DEF UpstreamStep, UpstreamKeeps
<1>3. ~Asks(h)'
  <2>1. link'[upstream[h]].out = <<>>
    BY DEF UpstreamStep
  <2> QED
    BY <2>1, <1>2 DEF Asks
<1>4. HandlerOK(h)'
  BY <1>1, <1>2 DEF HandlerOK, Busy
<1>5. runs[serving[h]] <= (IF retried[h] THEN 1 ELSE 0) /\ runs[serving[h]] \in Nat
  <2>1. Unasked(h)
    BY DEF Unasked
  <2> QED
    BY <1>1, <2>1 DEF RequestOK, TypeOK
<1>6. runs'[serving[h]] <= IF retried[h] THEN 2 ELSE 1
  BY <1>5
<1>7. RequestOK(h)'
  <2>1. ~Unasked(h)'
    BY <1>2, <1>3 DEF Unasked
  <2>2. pc[h] = "relay" /\ Lost(h) => FALSE
    BY DEF Asks, Lost
  <2>3. forwarded[serving[h]] = <<>>
    BY <1>1, <2>2 DEF RequestOK
  <2> QED
    BY <1>1, <1>2, <1>6, <2>1, <2>3 DEF RequestOK
<1>8. \A k \in Handlers : upstream[k] = c => k = h
  BY <1>1 DEF LinksOK
<1> QED
  BY <1>1, <1>4, <1>6, <1>7, <1>8, UpstreamStepKeeps

(* The upstream answers a request.                                         *)
LEMMA UpstreamAnswersKeeps ==
  ASSUME IInv, NEW c \in Links, NEW keep \in BOOLEAN, UpstreamAnswers(c, keep)
  PROVE  IInv'
<1> DEFINE l == link[c]
<1>1. TypeOK /\ l.state = "open" /\ l.out # <<>> /\ l \in LinkSet
  BY DEF UpstreamAnswers, IInv, TypeOK
<1>2. PICK h \in Handlers :
        /\ pc[h] \in {"receive", "relay"} /\ upstream[h] = c /\ Asks(h)
        /\ l.out = <<[request |-> serving[h], raw |-> raw[h]]>> /\ l.in = <<>>
        /\ raw[h] <=> pc[h] = "relay"
        /\ serving[h] \in RequestIds
  BY <1>1, OwnerFacts
<1> DEFINE a == [request |-> serving[h], keep |-> keep]
<1>3. Head(l.out).request = serving[h] /\ Head(l.out).raw = raw[h] /\ Tail(l.out) = <<>>
  BY <1>2
<1> DEFINE new == [l EXCEPT !.out = <<>>, !.in = <<a>>, !.state = IF keep THEN "open" ELSE "gone"]
<1>4. /\ runs' = [runs EXCEPT ![serving[h]] = @ + 1] /\ UpstreamKeeps /\ (raw[h] => ~keep)
      /\ link' = [link EXCEPT ![c].out = Tail(@), ![c].in = Append(@, a),
                             ![c].state = IF keep THEN "open" ELSE "gone"]
  BY <1>3 DEF UpstreamAnswers
<1>5. Append(l.in, a) = <<a>> /\ <<a>> \in Seq(Answered) /\ <<>> \in Seq(Sent)
  <2>1. a \in Answered
    BY <1>2 DEF Answered
  <2> HIDE DEF a
  <2> QED
    BY <1>2, <2>1
<1>6. link' = [link EXCEPT ![c] = new]
  <2>1. link' = [link EXCEPT ![c] = [l EXCEPT !.out = Tail(@), !.in = Append(@, a),
                                              !.state = IF keep THEN "open" ELSE "gone"]]
    BY <1>1, <1>4 DEF TypeOK
  <2> QED
    BY <1>3, <1>5, <2>1
<1>7. /\ new \in LinkSet /\ new.out = <<>> /\ new.in = <<a>>
      /\ new.state = (IF keep THEN "open" ELSE "gone")
  <2> HIDE DEF l, a
  <2> QED
    BY <1>1, <1>5 DEF LinkSet
<1> HIDE DEF new
<1>8. /\ link' \in [Links -> LinkSet] /\ link'[c] = new
      /\ \A d \in Links \ {c} : link'[d] = link[d]
  BY <1>1, <1>6, <1>7 DEF TypeOK
<1>9. /\ runs' \in [RequestIds -> Nat] /\ runs'[serving[h]] = runs[serving[h]] + 1
      /\ \A r \in RequestIds \ {serving[h]} : runs'[r] = runs[r]
  BY <1>1, <1>2, <1>4, RunFacts
<1>10. UpstreamStep(c)
  BY <1>4, <1>7, <1>8, <1>9 DEF UpstreamStep
<1>11. IsAnswered(h)'
  <2>1. upstream'[h] = c /\ serving'[h] = serving[h] /\ raw'[h] = raw[h]
    BY <1>2, <1>4 DEF UpstreamKeeps
  <2> QED
    BY <2>1, <1>4, <1>7, <1>8 DEF IsAnswered
<1>12. ~Rests(link[c])
  BY <1>1 DEF Rests
<1> QED
  BY <1>1, <1>2, <1>9, <1>10, <1>11, <1>12, OwnerKeeps

(* The upstream drops a connection, in the pool, before or after a run.    *)
LEMMA UpstreamDropsKeeps ==
  ASSUME IInv, NEW c \in Links, NEW after \in BOOLEAN, UpstreamDrops(c, after)
  PROVE  IInv'
<1> DEFINE l == link[c]
<1> DEFINE new == [l EXCEPT !.state = "gone", !.out = <<>>]
<1>1. /\ TypeOK /\ l.state = "open" /\ l \in LinkSet /\ (after => l.out # <<>>) /\ UpstreamKeeps
      /\ runs' = IF after THEN [runs EXCEPT ![Head(l.out).request] = @ + 1] ELSE runs
      /\ link' = [link EXCEPT ![c].state = "gone", ![c].out = <<>>]
  BY DEF UpstreamDrops, IInv, TypeOK
<1>2. link' = [link EXCEPT ![c] = new]
  BY <1>1 DEF TypeOK
<1>3. new \in LinkSet /\ new.out = <<>> /\ new.in = l.in /\ new.state = "gone"
  <2>1. <<>> \in Seq(Sent)
    OBVIOUS
  <2> HIDE DEF l
  <2> QED
    BY <1>1, <2>1 DEF LinkSet
<1> HIDE DEF new
<1>4. /\ link' \in [Links -> LinkSet] /\ link'[c] = new
      /\ \A d \in Links \ {c} : link'[d] = link[d]
  BY <1>1, <1>2, <1>3 DEF TypeOK
<1>5. UNCHANGED <<pool, pc, serving, raw, upstream, borrowed, retried, answer, forwarded, first, asked, made>>
  BY <1>1 DEF UpstreamKeeps
<1>6. CASE l.out # <<>>
  <2>1. PICK h \in Handlers :
          /\ pc[h] \in {"receive", "relay"} /\ upstream[h] = c /\ Asks(h)
          /\ l.out = <<[request |-> serving[h], raw |-> raw[h]]>> /\ l.in = <<>>
          /\ raw[h] <=> pc[h] = "relay"
          /\ serving[h] \in RequestIds
    BY <1>6, OwnerFacts
  <2>2. Head(l.out).request = serving[h]
    BY <2>1
  <2>3. /\ runs' \in [RequestIds -> Nat]
        /\ runs'[serving[h]] = runs[serving[h]] + (IF after THEN 1 ELSE 0)
        /\ \A r \in RequestIds \ {serving[h]} : runs'[r] = runs[r]
    <3>1. CASE after
      BY <3>1, <2>1, <2>2, <1>1, RunFacts
    <3>2. CASE ~after
      BY <3>2, <2>1, <1>1 DEF TypeOK
    <3> QED
      BY <3>1, <3>2
  <2>4. UpstreamStep(c)
    BY <2>3, <1>1, <1>3, <1>4 DEF UpstreamStep
  <2>5. Lost(h)'
    BY <2>1, <1>3, <1>4, <1>5 DEF Lost
  <2>6. ~Rests(link[c]) /\ (IF after THEN 1 ELSE 0) \in {0, 1}
    BY <1>6 DEF Rests
  <2> QED
    BY <2>1, <2>3, <2>4, <2>5, <2>6, <1>1, OwnerKeeps
<1>7. CASE l.out = <<>>
  <2>1. runs' = runs
    BY <1>1, <1>7
  <2>2. UpstreamStep(c)
    BY <2>1, <1>1, <1>3, <1>4 DEF UpstreamStep, TypeOK
  <2>3. ASSUME NEW h \in Handlers, Busy(h), upstream[h] = c
        PROVE  HandlerOK(h)' /\ RequestOK(h)' /\ runs'[serving[h]] <= IF retried[h] THEN 2 ELSE 1
    <3>1. HandlerOK(h) /\ RequestOK(h) /\ pc[h] # "idle" /\ serving[h] \in RequestIds
      BY <2>3, HandlerFacts DEF Busy
    <3>2. Rests(link[c]) => Rests(link'[c])
      BY <1>3, <1>4 DEF Rests
    <3>3. ~Asks(h) /\ ~Asks(h)'
      BY <2>3, <1>3, <1>4, <1>5, <1>7 DEF Asks
    <3>4. IsAnswered(h) => IsAnswered(h)'
      BY <2>3, <1>3, <1>4, <1>5 DEF IsAnswered
    <3>5. ~Lost(h)
      BY <2>3, <1>1 DEF Lost
    <3>6. HandlerOK(h)'
      BY <2>3, <3>1, <3>2, <3>3, <3>4, <3>5, <1>5 DEF HandlerOK, Busy
    <3>7. Unasked(h)' <=> Unasked(h)
      BY <3>3, <1>5 DEF Unasked
    <3>8. RequestOK(h)'
      BY <2>1, <3>1, <3>5, <3>7, <1>5 DEF RequestOK
    <3>9. runs[serving[h]] <= IF retried[h] THEN 2 ELSE 1
      <4>1. runs[serving[h]] \in Nat
        BY <3>1, <1>1 DEF TypeOK
      <4> QED
        BY <3>1, <4>1 DEF RequestOK
    <3> QED
      BY <3>6, <3>8, <3>9, <2>1
  <2>4. Rests(link[c]) => Rests(link'[c])
    BY <1>3, <1>4 DEF Rests
  <2> QED
    BY <2>1, <2>2, <2>3, <2>4, <1>1, UpstreamStepKeeps
<1> QED
  BY <1>6, <1>7

-----------------------------------------------------------------------------
(* Every step keeps the invariant.                                         *)
LEMMA NextIInv == IInv /\ [Next]_vars => IInv'
<1> SUFFICES ASSUME IInv, [Next]_vars PROVE IInv'
  OBVIOUS
<1>1. ASSUME NEW h \in Handlers, NEW isRaw \in BOOLEAN, Start(h, isRaw) PROVE IInv'
  BY <1>1, StartKeeps
<1>2. ASSUME NEW h \in Handlers, HandlerStep(h) PROVE IInv'
  BY <1>2, ConnectKeeps, ConnectFailsKeeps, SendRequestKeeps, SendFailsKeeps, ReceiveKeeps,
     ReceiveFailsKeeps, ForwardKeeps, RelayKeeps, RelayEndsKeeps DEF HandlerStep
<1>3. ASSUME NEW c \in Links, UpstreamServes(c) PROVE IInv'
  BY <1>3, UpstreamAnswersKeeps, UpstreamDropsKeeps DEF UpstreamServes
<1>4. CASE UNCHANGED vars
  <2>1. UNCHANGED <<pool, link, pc, serving, raw, upstream, borrowed, retried, answer, forwarded, runs, first,
                    asked, made>>
    BY <1>4 DEF vars
  <2>2. TypeOK' /\ PoolOK' /\ LinksOK' /\ RequestsOK' /\ ProxyAnswersMatch' /\ RunsOnce'
    BY <2>1 DEF IInv, TypeOK, PoolOK, LinksOK, RequestsOK, ProxyAnswersMatch, RunsOnce
  <2>3. asked \in Nat /\ made \in Nat
    BY BoundsAreNat DEF IInv, TypeOK
  <2>4. \A h \in Handlers : HandlerOK(h)' /\ RequestOK(h)'
    BY <2>1, <2>3, OthersKeep
  <2> QED
    BY <2>2, <2>4 DEF IInv
<1> QED
  BY <1>1, <1>2, <1>3, <1>4 DEF Next

(* Every connection is in the pool at rest or has one handler, whose       *)
(* request or answer is what is under way on it.                           *)
THEOREM ProxyInvariant == Spec => []IInv
<1>1. Init => IInv
  BY InitIInv
<1>2. IInv /\ [Next]_vars => IInv'
  BY NextIInv
<1> QED
  BY <1>1, <1>2, PTL DEF Spec

(* The client of a request gets a 502 or the answer to that request.       *)
THEOREM EachGetsItsAnswer == Spec => []ProxyAnswersMatch
<1>1. IInv => ProxyAnswersMatch
  BY DEF IInv
<1> QED
  BY <1>1, ProxyInvariant, PTL

(* A request is carried out once, or twice if its connection was pooled.   *)
THEOREM CarriedOutOnce == Spec => []RunsOnce
<1>1. IInv => RunsOnce
  BY DEF IInv
<1> QED
  BY <1>1, ProxyInvariant, PTL
=============================================================================
