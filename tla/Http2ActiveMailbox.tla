------------------------ MODULE Http2ActiveMailbox ------------------------
(***************************************************************************)
(* How the reader tells the one handler of a connection which streams have *)
(* news: Http2ActiveStreamBatch (the ready list of the batch of frames     *)
(* being dispatched), Http2ActiveStreamMailbox (flushed batches, a waker)  *)
(* and Http2ConnContext (the handler's end).                               *)
(*                                                                         *)
(* Reader and handler run on one scheduler: while the reader dispatches a  *)
(* batch it does not suspend, and the handler does not run.                *)
(***************************************************************************)
EXTENDS Naturals, SequencesExt

CONSTANTS
  Streams,    \* streams of the connection
  Events,     \* Http2StreamEvent, the values a frame can raise
  MaxCount,   \* bound: largest max_count given to getActiveStreams
  MaxBatches  \* bound: batches in the mailbox

ASSUME CountsAssumption == MaxCount \in Nat \ {0} /\ MaxBatches \in Nat

VARIABLES
  events,    \* m_pending_events of each stream
  queued,    \* m_active_queued of each stream
  ready,     \* m_ready of the active batch
  batches,   \* m_batches
  closed,    \* m_closed of the mailbox
  ended,     \* m_closed of the context
  reader,    \* "reading", "dispatching" or "gone"
  handler,   \* "running", "waiting" (m_hasWaiter) or "woken"
  asked,     \* max_count of the call the handler waits in
  held,      \* streams the handler was ever given
  told       \* history: streams it was given since it last took their events

streamVars == <<events, queued>>
boxVars == <<ready, batches, closed, reader>>
handlerVars == <<handler, asked, held, told, ended>>
vars == <<streamVars, boxVars, handlerVars>>

Init ==
  /\ events = [s \in Streams |-> {}] /\ queued = [s \in Streams |-> FALSE]
  /\ ready = <<>> /\ batches = <<>> /\ closed = FALSE /\ reader = "reading"
  /\ handler = "running" /\ asked = 1 /\ ended = FALSE
  /\ held = {} /\ told = {}

-----------------------------------------------------------------------------
(* The reader.                                                             *)

Mark(s, new) ==
  /\ events' = [events EXCEPT ![s] = @ \cup new]
  /\ queued' = [queued EXCEPT ![s] = TRUE]
  /\ ready' = IF queued[s] THEN ready ELSE Append(ready, s)

(* A frame of stream s raises some events.                                 *)
FrameArrives(s) ==
  /\ reader \in {"reading", "dispatching"}
  /\ reader' = "dispatching"
  /\ Len(batches) < MaxBatches
  /\ \E new \in SUBSET Events \ {{}} : Mark(s, new)
  /\ UNCHANGED <<batches, closed, handlerVars>>

(* HEADERS with a content-length and without END_STREAM: the event waits   *)
(* for the first DATA.                                                     *)
HeadersDeferred(s) ==
  /\ reader \in {"reading", "dispatching"}
  /\ events[s] = {}
  /\ reader' = "dispatching"
  /\ \E e \in Events : events' = [events EXCEPT ![s] = @ \cup {e}]
  /\ UNCHANGED <<queued, ready, batches, closed, handlerVars>>

(* Bug: a batch that finds others in the mailbox wakes nobody.             *)
BuggyWakeWaiter == handler' = IF handler = "waiting" /\ batches # <<>> THEN "woken" ELSE handler

WakeWaiter == handler' = IF handler = "waiting" THEN "woken" ELSE handler

(* End of the batch: flushActiveStreams, sendBatch.                        *)
FlushActiveStreams ==
  /\ reader = "dispatching"
  /\ reader' = "reading"
  /\ ready' = <<>>
  /\ IF closed \/ ready = <<>>
     THEN UNCHANGED <<batches, handler>>
     ELSE batches' = Append(batches, ready) /\ WakeWaiter
  /\ UNCHANGED <<streamVars, closed, asked, held, told, ended>>

(* The reader loop ends, or TLS fails to send: both between two batches.   *)
CloseActiveStreamQueue ==
  /\ reader = "reading"
  /\ reader' = "gone"
  /\ closed' = TRUE
  /\ WakeWaiter
  /\ UNCHANGED <<streamVars, ready, batches, asked, held, told, ended>>

-----------------------------------------------------------------------------
(* The handler, whenever the reader is suspended.                          *)

Runs == reader # "dispatching"

Given(set) == held' = held \cup set /\ told' = told \cup set

(* popBatch: the front batch, or its first n streams.                      *)
PopBatch(n) ==
  LET front == Head(batches)
  IN  IF Len(front) <= n
      THEN /\ Given(ToSet(front))
           /\ batches' = Tail(batches)
      ELSE /\ Given(ToSet(SubSeq(front, 1, n)))
           /\ batches' = [batches EXCEPT ![1] = SubSeq(front, n + 1, Len(front))]

(* Bug: the end is reported as soon as the mailbox is closed.              *)
BuggyResume(n) ==
  IF closed \/ batches = <<>>
  THEN /\ ended' = closed
       /\ UNCHANGED <<held, told, batches>>
  ELSE PopBatch(n) /\ UNCHANGED ended

(* await_resume: a batch while there is one, then nullopt once closed.     *)
Resume(n) ==
  IF batches = <<>>
  THEN /\ ended' = closed
       /\ UNCHANGED <<held, told, batches>>
  ELSE PopBatch(n) /\ UNCHANGED ended

(* co_await getActiveStreams(n): ready at once, or suspended.              *)
GetActiveStreams(n) ==
  /\ Runs /\ handler = "running" /\ ~ended
  /\ asked' = n
  /\ IF closed \/ batches # <<>>
     THEN Resume(n) /\ UNCHANGED handler
     ELSE handler' = "waiting" /\ UNCHANGED <<held, told, batches, ended>>
  /\ UNCHANGED <<streamVars, ready, closed, reader>>

(* The scheduler runs the woken handler.                                   *)
HandlerResumes ==
  /\ Runs /\ handler = "woken"
  /\ handler' = "running"
  /\ Resume(asked)
  /\ UNCHANGED <<streamVars, ready, closed, reader, asked>>

(* takeEvents, on any stream the handler was ever given.                   *)
TakeEvents(s) ==
  /\ Runs /\ handler = "running" /\ s \in held
  /\ events' = [events EXCEPT ![s] = {}]
  /\ queued' = [queued EXCEPT ![s] = FALSE]
  /\ told' = told \ {s}
  /\ UNCHANGED <<boxVars, handler, asked, held, ended>>

Asks == \E n \in 1..MaxCount : GetActiveStreams(n)

Next ==
  \/ \E s \in Streams : FrameArrives(s) \/ HeadersDeferred(s) \/ TakeEvents(s)
  \/ FlushActiveStreams
  \/ CloseActiveStreamQueue
  \/ Asks \/ HandlerResumes

(* The reader never stops inside a batch; at each of its suspensions the   *)
(* scheduler runs the other coroutines that are ready, so a woken handler  *)
(* is not passed over for ever; the handler is a loop around               *)
(* getActiveStreams.                                                       *)
Fairness ==
  /\ WF_vars(FlushActiveStreams)
  /\ SF_vars(HandlerResumes)
  /\ SF_vars(Asks)

Spec == Init /\ [][Next]_vars /\ Fairness

-----------------------------------------------------------------------------
InMailbox(s) == \E i \in DOMAIN batches : s \in ToSet(batches[i])
Waiting(s) == s \in ToSet(ready) \/ InMailbox(s)

(* Ready list, mailbox and context implement the abstract notices.         *)
Abstract ==
  INSTANCE Http2ActiveEvents WITH
    notice <- [s \in Streams |-> IF ~queued[s] THEN "idle"
                                 ELSE IF Waiting(s) \/ s \notin told THEN "due" ELSE "told"],
    over <- ended

RefinesNotices == Abstract!Safe

(* Everything due is announced: the waker, the split batches and the close *)
(* lose nothing, as long as the handler keeps asking.                      *)
EverythingAnnounced == Abstract!Announced
=============================================================================
