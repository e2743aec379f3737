---------------------------- MODULE MCWsConnection ----------------------------
EXTENDS WsConnection

Byte(v, n) == <<"p", [v |-> v, n |-> n, masked |-> FALSE]>>

Frame(fin, op, payload) == [fin |-> fin, op |-> op, payload |-> payload]

MCWelcome == <<Byte("a", 0)>>

Half1 == Frame(FALSE, "text", <<Byte("lead", 1)>>)
Half2 == Frame(TRUE, "continuation", <<Byte("tail", 2)>>)
Ping  == Frame(TRUE, "ping", <<Byte("a", 3)>>)
Data  == Frame(TRUE, "binary", <<Byte("a", 4)>>)
Close == Frame(TRUE, "close", <<>>)

MCScripts == {
  <<Data, Half1, Half2>>,
  <<Frame(TRUE, "text", <<Byte("lead", 1), Byte("tail", 2)>>), Close>>,
  <<Half1, Ping, Half2>>,
  <<Frame(TRUE, "pong", <<>>), Frame(TRUE, "text", <<>>), Frame(TRUE, "text", <<Byte("lead", 1)>>)>>,
  <<Ping, Frame(TRUE, "binary", [i \in 1 .. 4 |-> Byte("a", i)])>>}
=============================================================================
