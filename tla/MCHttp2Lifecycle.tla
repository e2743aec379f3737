-------------------------- MODULE MCHttp2Lifecycle --------------------------
(* Http2Lifecycle on small instances: the handlers are strings, as the     *)
(* other senders of the channel are.                                       *)
EXTENDS Http2Lifecycle

Conf(transport, role, thread, starts, shutdown) ==
  [transport |-> transport, role |-> role, thread |-> thread,
   starts |-> starts, shutdown |-> shutdown]

(* Two streams without shutdown() and one with it, on either transport; a  *)
(* connection handler on another thread; a client.                         *)
MCConfs ==
  UNION {{Conf(t, "server", "io", {"h1", "h2"}, FALSE),
          Conf(t, "server", "io", {"h1"}, TRUE),
          Conf(t, "active", "other", {"h1"}, TRUE),
          Conf(t, "client", "io", {}, TRUE)} : t \in {"tcp", "tls"}}
=============================================================================
