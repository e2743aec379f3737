---------------------------- MODULE HttpProxyState ----------------------------
(***************************************************************************)
(* The constants and the state of HttpProxy, and what it promises.         *)
(***************************************************************************)
EXTENDS Integers, Sequences

CONSTANTS
  Handlers,    \* coroutines of downstream connections of a thread
  MaxIdle,     \* kProxyMaxIdleConnectionsPerUpstream
  MaxRequests, \* bound: requests
  MaxLinks     \* bound: upstream connections

ASSUME ProxyAssumption == {MaxIdle, MaxRequests, MaxLinks} \subseteq Nat

VARIABLES
  pool,      \* g_proxyClientPools[key] of the thread
  link,      \* upstream connections: what is under way each way
  pc,        \* of a handler: idle, connect, send, receive, forward, relay
  serving,   \* the request it serves,
  raw,       \* and whether by relay
  upstream,  \* client: its upstream connection
  borrowed,  \* borrowed_from_pool
  retried,
  answer,    \* upstream_response
  forwarded, \* what the client of each request has got: answers by number, 0 for a 502
  runs,      \* times the upstream has carried each request out
  first,     \* whether its first connection was "pooled" or "new"
  asked,     \* counters of requests
  made       \* and of connections

RequestIds == 1 .. MaxRequests
-----------------------------------------------------------------------------
(* The client of a request gets one answer at most: a 502 or the answer    *)
(* the upstream gave to that request, whatever connection it was sent on   *)
(* and whoever used that one before.                                       *)
ProxyAnswersMatch == \A r \in RequestIds : forwarded[r] \in {<<>>, <<0>>, <<r>>}

(* The upstream carries a request out once, or twice if it came on a       *)
(* pooled connection that broke before it was answered.                    *)
RunsOnce ==
  \A r \in RequestIds : runs[r] <= IF first[r] = "pooled" THEN 2 ELSE 1
=============================================================================
