----------------------------- MODULE MCHttp2Parts -----------------------------
(***************************************************************************)
(* Three parts around the stream manager that share no state; one of them  *)
(* runs in each behaviour: a connection is set up (Http2Setup), a caller   *)
(* makes requests on one that is (Http2ClientRequest), or the reader tells *)
(* the handler of one about its streams (Http2ActiveMailbox).              *)
(***************************************************************************)
EXTENDS Http2ActiveMailbox, Http2ClientRequest, Http2SetupState, TLC

VARIABLE part

setup == <<transport, peers, fallback, offer, alpn, client, up, down, written, answered,
           server, seen, heard, ends>>
news == <<events, queued, ready, batches, closed, ended, reader, handler, asked, held, told>>

Setup == INSTANCE Http2Setup

MCTokens == Spoken \cup {"b", "c", "l", "x", "z", "!"}

(* Prior knowledge; upgrades that wait, do not wait or go wrong; HTTP/1.1  *)
(* requests, pipelined, with a body, too long or illegal; and neither.     *)
MCScripts ==
  {<<"p", "q", "r", "S", ".", "F", ".">>,
   <<"G", "u", "E", "p", "q", "r", "S", ".">>,
   <<"G", "u", "E", "p", "q", "x">>,
   <<"G", "l", "E", "b", "G", "c", "E">>,
   <<"G", "E">>,
   <<"G", "x", "x", "x", "x", "x">>,
   <<"G", "!", "E">>,
   <<"z", "q", "r">>}

MCTlsScripts ==
  {<<{"h2", "http/1.1"}, <<"p", "q", "r", "S", ".">>>>,
   <<{"h2"}, <<"p", "q", "G">>>>,
   <<{"http/1.1"}, <<"G", "E", "G", "c", "E">>>>,
   <<{}, <<"G", "E">>>>}

MCAnswers ==
  {<<"101", "u", "E", "S", ".", "A", ".">>,
   <<"101", "u", "E", "F", ".">>,
   <<"101", "E", "S", ".">>,
   <<"404", "E">>}

MCHeaderLimit == 5

MCCarried == {"h", "i", "a", "t", "1xx"}

(* A field; fields and a body; a split block; an interim response before   *)
(* the final one and trailers behind the body.                             *)
F(type, part_, endHeaders, endStream) ==
  [type |-> type, id |-> 0, parts |-> <<part_>>, endHeaders |-> endHeaders, endStream |-> endStream]
MCResponses ==
  {<<F("HEADERS", "h", TRUE, TRUE)>>,
   <<F("HEADERS", "h", FALSE, FALSE), F("CONTINUATION", "i", TRUE, FALSE), F("DATA", "a", TRUE, TRUE)>>,
   <<F("HEADERS", "1xx", TRUE, FALSE), F("HEADERS", "h", TRUE, FALSE), F("DATA", "a", TRUE, FALSE),
     F("HEADERS", "t", TRUE, TRUE)>>}
-----------------------------------------------------------------------------
MCInit ==
  /\ part \in {"setup", "calls", "mailbox"}
  /\ Setup!Init /\ CallInit /\ Init
  /\ part # "setup" => peers = "both" /\ fallback = "default" /\ transport = "tls"

MCNext ==
  /\ part' = part
  /\ \/ part = "setup" /\ Setup!Next /\ UNCHANGED <<callVars, news>>
     \/ part = "calls" /\ CallNext /\ UNCHANGED <<setup, news>>
     \/ part = "mailbox" /\ Next /\ UNCHANGED <<setup, callVars>>

all == <<part, setup, callVars, news>>

MCSpec ==
  /\ MCInit /\ [][MCNext]_all
  /\ WF_all(\/ part = "setup" /\ Setup!Progress /\ UNCHANGED <<part, callVars, news>>
            \/ part = "calls" /\ CallProgress /\ UNCHANGED <<part, setup, news>>
            \/ part = "mailbox" /\ FlushActiveStreams /\ UNCHANGED <<part, setup, callVars>>)
  /\ SF_all(part = "mailbox" /\ HandlerResumes /\ UNCHANGED <<part, setup, callVars>>)
  /\ SF_all(part = "mailbox" /\ Asks /\ UNCHANGED <<part, setup, callVars>>)

(* See Http2Setup: the set-up of every connection that is set up ends.     *)
SetupEnds ==
  (part = "setup" /\ peers = "both") ~>
    \/ client.phase = "failed" \/ ends # {}
    \/ client.phase = "Done" /\ (\E i \in DOMAIN seen : seen[i] = "S")
                            /\ (\E i \in DOMAIN heard : heard[i] = "A")

=============================================================================
