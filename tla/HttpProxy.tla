------------------------------- MODULE HttpProxy -------------------------------
(***************************************************************************)
(* The proxy handler of HttpRouter::createProxyHandler.  The handlers of   *)
(* one thread share a pool of idle upstream connections.  A request goes   *)
(* out on a pooled connection if there is one, else on a new one; if a     *)
(* pooled one turns out to be dead the request is sent once more, on a new *)
(* connection.  A raw request has a connection of its own and is answered  *)
(* by whatever comes until the upstream closes it.  HttpProxyState has the *)
(* state.                                                                  *)
(***************************************************************************)
EXTENDS HttpProxyState, SequencesExt

vars == <<pool, link, pc, serving, raw, upstream, borrowed, retried, answer, forwarded, runs, first,
          asked, made>>

Links    == 1 .. MaxLinks

(* state: "none" yet, "open", "gone" when the upstream has closed it,      *)
(* "closed" when the handler has.                                          *)
NoLink   == [state |-> "none", out |-> <<>>, in |-> <<>>]
NoAnswer == [request |-> 0, keep |-> FALSE]

Init ==
  /\ pool = <<>> /\ link = [c \in Links |-> NoLink]
  /\ pc = [h \in Handlers |-> "idle"]
  /\ serving = [h \in Handlers |-> 0] /\ raw = [h \in Handlers |-> FALSE]
  /\ upstream = [h \in Handlers |-> 0]
  /\ borrowed = [h \in Handlers |-> FALSE] /\ retried = [h \in Handlers |-> FALSE]
  /\ answer = [h \in Handlers |-> NoAnswer]
  /\ forwarded = [r \in RequestIds |-> <<>>] /\ runs = [r \in RequestIds |-> 0]
  /\ first = [r \in RequestIds |-> "new"]
  /\ asked = 0 /\ made = 0
-----------------------------------------------------------------------------
BuggyBorrow(h) ==
  /\ upstream' = [upstream EXCEPT ![h] = Last(pool)] /\ UNCHANGED pool

Borrow(h) ==
  /\ upstream' = [upstream EXCEPT ![h] = Last(pool)] /\ pool' = Front(pool)

Start(h, isRaw) ==
  LET reuse == ~isRaw /\ pool # <<>>
  IN  /\ pc[h] = "idle" /\ asked < MaxRequests
      /\ asked' = asked + 1 /\ serving' = [serving EXCEPT ![h] = asked + 1]
      /\ raw' = [raw EXCEPT ![h] = isRaw]
      /\ retried' = [retried EXCEPT ![h] = FALSE] /\ borrowed' = [borrowed EXCEPT ![h] = reuse]
      /\ first' = [first EXCEPT ![asked + 1] = IF reuse THEN "pooled" ELSE "new"]
      /\ IF reuse THEN Borrow(h) /\ pc' = [pc EXCEPT ![h] = "send"]
         ELSE pc' = [pc EXCEPT ![h] = "connect"] /\ UNCHANGED <<upstream, pool>>
      /\ UNCHANGED <<link, answer, forwarded, runs, made>>

(* The downstream client gets an answer, or the handler finds that client  *)
(* gone; either way the handler returns.                                   *)
Return(h, what) ==
  /\ pc' = [pc EXCEPT ![h] = "idle"] /\ upstream' = [upstream EXCEPT ![h] = 0]
  /\ forwarded' = [forwarded EXCEPT ![serving[h]] = @ \o what]

BadGateway(h) == Return(h, <<0>>)

(* connectProxyUpstream.                                                   *)
Connect(h) ==
  /\ pc[h] = "connect" /\ made < MaxLinks
  /\ made' = made + 1
  /\ link' = [link EXCEPT ![made + 1].state = "open"]
  /\ upstream' = [upstream EXCEPT ![h] = made + 1] /\ pc' = [pc EXCEPT ![h] = "send"]
  /\ UNCHANGED <<pool, serving, raw, borrowed, retried, answer, forwarded, runs, first, asked>>

ConnectFails(h) ==
  /\ pc[h] = "connect" /\ BadGateway(h)
  /\ UNCHANGED <<pool, link, serving, raw, borrowed, retried, answer, runs, first, asked, made>>

Close(h) == link' = [link EXCEPT ![upstream[h]].state = "closed"]

(* What a handler does when it cannot send, or gets no answer: it tries    *)
(* once more if the connection came from the pool.                         *)
BuggyBroken(h) ==
  /\ Close(h)
  /\ IF borrowed[h]
     THEN /\ pc' = [pc EXCEPT ![h] = "connect"] /\ upstream' = [upstream EXCEPT ![h] = 0]
          /\ UNCHANGED <<borrowed, retried, forwarded>>
     ELSE BadGateway(h) /\ UNCHANGED <<borrowed, retried>>

Broken(h) ==
  /\ Close(h)
  /\ IF borrowed[h] /\ ~retried[h]
     THEN /\ retried' = [retried EXCEPT ![h] = TRUE] /\ borrowed' = [borrowed EXCEPT ![h] = FALSE]
          /\ pc' = [pc EXCEPT ![h] = "connect"] /\ upstream' = [upstream EXCEPT ![h] = 0]
          /\ UNCHANGED forwarded
     ELSE BadGateway(h) /\ UNCHANGED <<borrowed, retried>>

(* A request sent to an upstream that is gone may look sent.               *)
SendRequest(h) ==
  /\ pc[h] = "send" /\ pc' = [pc EXCEPT ![h] = IF raw[h] THEN "relay" ELSE "receive"]
  /\ link' = IF link[upstream[h]].state = "open"
             THEN [link EXCEPT ![upstream[h]].out = Append(@, [request |-> serving[h], raw |-> raw[h]])]
             ELSE link
  /\ UNCHANGED <<pool, serving, raw, upstream, borrowed, retried, answer, forwarded, runs, first, asked, made>>

SendFails(h) ==
  /\ pc[h] = "send" /\ link[upstream[h]].state = "gone" /\ Broken(h)
  /\ UNCHANGED <<pool, serving, raw, answer, runs, first, asked, made>>

Incoming(h) == link[upstream[h]].in
Over(h) == Incoming(h) = <<>> /\ link[upstream[h]].state = "gone"

Receive(h) ==
  /\ pc[h] = "receive" /\ Incoming(h) # <<>>
  /\ answer' = [answer EXCEPT ![h] = Head(Incoming(h))]
  /\ link' = [link EXCEPT ![upstream[h]].in = Tail(@)]
  /\ pc' = [pc EXCEPT ![h] = "forward"]
  /\ UNCHANGED <<pool, serving, raw, upstream, borrowed, retried, forwarded, runs, first, asked, made>>

ReceiveFails(h) ==
  /\ pc[h] = "receive" /\ Over(h) /\ Broken(h)
  /\ UNCHANGED <<pool, serving, raw, answer, runs, first, asked, made>>

(* Back into the pool, if both ends want it to stay and there is room.     *)
Forward(h) ==
  /\ pc[h] = "forward"
  /\ Return(h, <<answer[h].request>>)
  /\ IF answer[h].keep /\ Len(pool) < MaxIdle
     THEN pool' = Append(pool, upstream[h]) /\ UNCHANGED link
     ELSE Close(h) /\ UNCHANGED pool
  /\ UNCHANGED <<serving, raw, borrowed, retried, answer, runs, first, asked, made>>

ForwardFails(h) ==
  /\ pc[h] = "forward"
  /\ Return(h, <<>>) /\ Close(h)
  /\ UNCHANGED <<pool, serving, raw, borrowed, retried, answer, runs, first, asked, made>>

(* relayRawUpstreamToDownstream.                                           *)
Relay(h) ==
  /\ pc[h] = "relay" /\ Incoming(h) # <<>>
  /\ forwarded' = [forwarded EXCEPT ![serving[h]] = Append(@, Head(Incoming(h)).request)]
  /\ link' = [link EXCEPT ![upstream[h]].in = Tail(@)]
  /\ UNCHANGED <<pool, pc, serving, raw, upstream, borrowed, retried, answer, runs, first, asked, made>>

RelayEnds(h) ==
  /\ pc[h] = "relay" /\ Over(h)
  /\ Return(h, <<>>) /\ Close(h)
  /\ UNCHANGED <<pool, serving, raw, borrowed, retried, answer, runs, first, asked, made>>

RelayFails(h) ==
  /\ pc[h] = "relay" /\ Incoming(h) # <<>>
  /\ Return(h, <<>>) /\ Close(h)
  /\ UNCHANGED <<pool, serving, raw, borrowed, retried, answer, runs, first, asked, made>>
-----------------------------------------------------------------------------
(***************************************************************************)
(* The upstream.  It carries requests out in order, answers them, and may  *)
(* close a connection with its answer or at any other time.                *)
(***************************************************************************)
UpstreamKeeps == UNCHANGED <<pool, pc, serving, raw, upstream, borrowed, retried, answer, forwarded, first,
                             asked, made>>

UpstreamAnswers(c, keep) ==
  /\ link[c].state = "open" /\ link[c].out # <<>>
  /\ Head(link[c].out).raw => ~keep
  /\ LET r == Head(link[c].out).request
     IN  /\ runs' = [runs EXCEPT ![r] = @ + 1]
         /\ link' = [link EXCEPT ![c].out = Tail(@), ![c].in = Append(@, [request |-> r, keep |-> keep]),
                                 ![c].state = IF keep THEN "open" ELSE "gone"]
  /\ UpstreamKeeps

UpstreamDrops(c, after) ==
  /\ link[c].state = "open"
  /\ after => link[c].out # <<>>
  /\ runs' = IF after THEN [runs EXCEPT ![Head(link[c].out).request] = @ + 1] ELSE runs
  /\ link' = [link EXCEPT ![c].state = "gone", ![c].out = <<>>]
  /\ UpstreamKeeps

UpstreamServes(c) ==
  \/ \E keep \in BOOLEAN : UpstreamAnswers(c, keep)
  \/ \E after \in BOOLEAN : UpstreamDrops(c, after)

HandlerStep(h) ==
  \/ Connect(h) \/ ConnectFails(h)
  \/ SendRequest(h) \/ SendFails(h)
  \/ Receive(h) \/ ReceiveFails(h)
  \/ Forward(h) \/ ForwardFails(h)
  \/ Relay(h) \/ RelayEnds(h) \/ RelayFails(h)

Next ==
  \/ \E h \in Handlers, isRaw \in BOOLEAN : Start(h, isRaw)
  \/ \E h \in Handlers : HandlerStep(h)
  \/ \E c \in Links : UpstreamServes(c)

Spec == Init /\ [][Next]_vars
=============================================================================
