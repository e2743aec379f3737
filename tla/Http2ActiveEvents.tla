------------------------- MODULE Http2ActiveEvents -------------------------
(***************************************************************************)
(* What a handler of a whole connection (Http2ActiveConnHandler) may rely  *)
(* on, without the ready list, the batches and the waker: events of a      *)
(* stream add up until takeEvents, a stream with new events is announced   *)
(* by getActiveStreams, and the end of the connection is reported only     *)
(* after everything that was to be announced.                              *)
(***************************************************************************)
CONSTANTS Streams, Events

VARIABLES
  events,  \* the events takeEvents would return
  notice,  \* per stream: nothing to announce, to announce, announced
  over     \* getActiveStreams has returned nullopt

absVars == <<events, notice, over>>

Init ==
  /\ events = [s \in Streams |-> {}]
  /\ notice = [s \in Streams |-> "idle"]
  /\ over = FALSE

Post(s, new) ==
  /\ events' = [events EXCEPT ![s] = @ \cup new]
  /\ notice' = [notice EXCEPT ![s] = IF @ = "idle" THEN "due" ELSE @]
  /\ UNCHANGED over

(* Headers of a request whose body is still to come are not announced.     *)
Defer(s, new) ==
  /\ events' = [events EXCEPT ![s] = @ \cup new]
  /\ UNCHANGED <<notice, over>>

Announce(set) ==
  /\ ~over
  /\ \A s \in set : notice[s] = "due"
  /\ notice' = [s \in Streams |-> IF s \in set THEN "told" ELSE notice[s]]
  /\ UNCHANGED <<events, over>>

Take(s) ==
  /\ events' = [events EXCEPT ![s] = {}]
  /\ notice' = [notice EXCEPT ![s] = "idle"]
  /\ UNCHANGED over

Finish ==
  /\ \A s \in Streams : notice[s] # "due"
  /\ over' = TRUE
  /\ UNCHANGED <<events, notice>>

Next ==
  \/ \E s \in Streams, new \in SUBSET Events : Post(s, new) \/ Defer(s, new)
  \/ \E set \in SUBSET Streams : Announce(set)
  \/ \E s \in Streams : Take(s)
  \/ Finish

Safe == Init /\ [][Next]_absVars

(* Whatever is due is announced, or taken before.                          *)
Announced == \A s \in Streams : notice[s] = "due" ~> notice[s] # "due"
=============================================================================
