-------------------------- MODULE MCHttp1Connection --------------------------
(***************************************************************************)
(* Small instances of an HTTP/1 connection and of the proxy handlers that  *)
(* use such connections towards an upstream.  They share no state: one of  *)
(* the two runs in each behaviour.                                         *)
(***************************************************************************)
EXTENDS Http1Connection, HttpProxyState

VARIABLE part

Proxy == INSTANCE HttpProxy

proxyVars == <<pool, link, pc, serving, raw, upstream, borrowed, retried, answer, forwarded,
               runs, first, asked, made>>

Kind(framing, chunks, close, routed) ==
  [framing |-> framing, chunks |-> chunks, close |-> close, routed |-> routed]

MCRequests == {
  Kind("none",    <<>>,     FALSE, TRUE),
  Kind("none",    <<>>,     TRUE,  TRUE),
  Kind("length",  <<1>>,    FALSE, FALSE),
  Kind("chunked", <<1, 1>>, FALSE, TRUE)}

MCAnswers == {
  Kind("length",  <<1>>, FALSE, TRUE),
  Kind("chunked", <<1>>, FALSE, TRUE)}

MCInit ==
  /\ part \in {"connection", "proxy"}
  /\ Init /\ Proxy!Init
  /\ part = "proxy" => ~tls

MCNext ==
  /\ part' = part
  /\ \/ part = "connection" /\ Next /\ UNCHANGED proxyVars
     \/ part = "proxy" /\ Proxy!Next /\ UNCHANGED vars

MCSpec == MCInit /\ [][MCNext]_<<part, vars, proxyVars>>

MCFairSpec == MCSpec /\ WF_vars(part = "connection" /\ NextRequest) /\ Progress
=============================================================================
