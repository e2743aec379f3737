------------------------- MODULE Http2StreamManager -------------------------
(***************************************************************************)
(* Http2StreamManagerImpl over one connection: the reader that dispatches  *)
(* a batch of frames and then runs the work the batch deferred, the        *)
(* stream table it owns, the user handlers it starts, and graceful         *)
(* shutdown.                                                               *)
(*                                                                         *)
(* The manager runs in one of four modes, fixed when it starts:            *)
(*   server        start(Http2StreamHandler), one handler per stream, over *)
(*                 TCP: readerLoop                                         *)
(*   serverTls     the same over TLS: sslServiceLoop                       *)
(*   serverActive  start(Http2ActiveConnHandler), one handler for the      *)
(*                 connection, fed ready streams through a mailbox         *)
(*   client        a client connection                                     *)
(*                                                                         *)
(* The reader never suspends between the frames of a batch, and the work   *)
(* after a batch (RST_STREAM and GOAWAY actions, retired streams, ready    *)
(* streams, handler starts) is one step.  Handlers may resume on another   *)
(* thread, so their calls interleave with single frames.                   *)
(*                                                                         *)
(* Left to other modules: flow-control windows (Http2FlowControl on the    *)
(* receiving side, Http2Stream on the sending side), the send channel, its *)
(* waiters and the life of the three loops (Http2Lifecycle).               *)
(***************************************************************************)
EXTENDS Naturals, FiniteSets, Http2StreamStates

CONSTANTS
  Modes,          \* the modes explored, a subset of AllModes
  RequestIds,     \* ids of client-initiated streams (odd)
  PushIds,        \* ids of pushed streams (even)
  KMax,           \* kMaxStreamId, above every id
  MaxConcurrent,  \* local SETTINGS_MAX_CONCURRENT_STREAMS
  MaxFrames       \* bound per mode: stream and connection frames the peer sends

AllModes == {"server", "serverTls", "serverActive", "client"}
Ids == RequestIds \cup PushIds

ASSUME ModesAssumption == Modes \subseteq AllModes
ASSUME IdsAssumption ==
  /\ Ids \subseteq Nat \ {0}
  /\ KMax \in Nat
  /\ \A id \in Ids : id < KMax
ASSUME BoundsAssumption == MaxConcurrent \in Nat /\ MaxFrames \in [Modes -> Nat]

VARIABLES
  mode,       \* m_active_conn_mode and m_conn.isClient()
  table,      \* ids in m_conn.m_streams
  strm,       \* the stream object last created for each id
  hot,        \* m_hot_stream: the id it caches, 0 when empty
  retire,     \* ids in m_retire_stream_channel
  expect,     \* continuation stream id, 0 when none is expected
  lastPeer,   \* m_last_peer_stream_id
  nextLocal,  \* m_next_local_stream_id (client)
  reject,     \* m_reject_new_streams
  goaway,     \* m_goaway_sent and the shared m_goaway_last_stream_id
  pendRst,    \* RST_STREAM actions of the batch: <<id, error>>
  pendGoaway, \* a GOAWAY action is pending
  spawns,     \* m_pending_spawns: how often each id is in it
  ready,      \* m_active_batch
  mailbox,    \* streams delivered to the connection handler, events not taken
  taken,      \* streams the connection handler has received
  handlers,   \* running stream handlers, per id
  reader,     \* the reader's position
  phase,      \* progress of shutdownImpl
  closing,    \* m_closing
  frames,     \* frames received so far
  created,    \* history: ids for which a stream object was created
  spawned,    \* history: handlers started, per id
  lastSent    \* history: last_stream_id of the latest GOAWAY sent

tableVars == <<table, strm, hot, retire, created>>
connVars  == <<expect, lastPeer, nextLocal, reject, goaway, lastSent>>
deferVars == <<pendRst, pendGoaway, spawns, ready>>
userVars  == <<mailbox, taken, handlers, spawned>>
ctlVars   == <<mode, phase, closing>>
readVars  == <<reader, frames>>
vars == <<tableVars, connVars, deferVars, userVars, ctlVars, readVars>>

Events == {"Headers", "Data", "ReqComplete", "Reset", "Window"}

StreamRecords ==
  [state: StreamStates, endRecv: BOOLEAN, endSent: BOOLEAN,
   reqDone: BOOLEAN, respDone: BOOLEAN, qclosed: BOOLEAN,
   events: SUBSET Events, queued: BOOLEAN]

FreshStream ==
  [state |-> "Idle", endRecv |-> FALSE, endSent |-> FALSE,
   reqDone |-> FALSE, respDone |-> FALSE, qclosed |-> FALSE,
   events |-> {}, queued |-> FALSE]

Active == mode = "serverActive"
IsClient == mode = "client"
HandlerPerStream == mode \in {"server", "serverTls"}

Init ==
  /\ mode \in Modes
  /\ table = {} /\ created = {} /\ retire = {} /\ hot = 0
  /\ strm = [id \in Ids |-> FreshStream]
  /\ expect = 0 /\ lastPeer = 0 /\ nextLocal = 3
  /\ reject = FALSE
  /\ goaway = [sent |-> FALSE, last |-> 0]
  /\ lastSent = KMax
  /\ pendRst = {} /\ pendGoaway = FALSE /\ ready = {}
  /\ spawns = [id \in Ids |-> 0]
  /\ mailbox = {} /\ taken = {}
  /\ handlers = [id \in Ids |-> 0]
  /\ spawned = [id \in Ids |-> 0]
  /\ reader = "recv" /\ frames = 0
  /\ phase = "run" /\ closing = FALSE

-----------------------------------------------------------------------------
(* Operators the handlers share.                                           *)

(* findAttachedStream: the hot stream is used without a table lookup.      *)
Found(id) == hot = id \/ id \in table

RememberHot(id) == hot' = IF Active THEN id ELSE hot

(* Bug: only a stream ended by both sides retires, a reset one stays.      *)
BuggyRetireIfClosed(id, s) ==
  retire' = IF Active /\ s.state = "Closed" /\ s.endRecv /\ s.endSent
              THEN retire \cup {id} ELSE retire

(* notifyRetireIfClosed; the callback is attached in serverActive only.    *)
RetireIfClosed(id, s) ==
  retire' = IF Active /\ s.state = "Closed" THEN retire \cup {id} ELSE retire

(* Http2ActiveStreamBatch::mark, on the stream and on the ready list.      *)
Marked(s, events) ==
  IF Active THEN [s EXCEPT !.events = @ \cup events, !.queued = TRUE] ELSE s

MarkReady(id) ==
  ready' = IF Active /\ ~strm[id].queued THEN ready \cup {id} ELSE ready

(* tryRetireClientStream                                                   *)
ClientRetires(s) == IsClient /\ s.respDone /\ s.state = "Closed"

(* closeFrameQueue completes both directions before it closes the queue.   *)
QueueClosed(s) ==
  IF s.qclosed THEN s
  ELSE [s EXCEPT !.qclosed = TRUE, !.reqDone = TRUE, !.respDone = TRUE]

(* A GOAWAY goes to the send channel: markGoawaySent.                      *)
GoawaySent(last) ==
  /\ goaway' = [sent |-> TRUE, last |-> last]
  /\ lastSent' = last

(* The next frame of the batch; CONTINUATION state admits it.              *)
NextFrame ==
  /\ reader \in {"recv", "batch"}
  /\ reader = "recv" => ~closing
  /\ frames < MaxFrames[mode]
  /\ frames' = frames + 1
  /\ UNCHANGED <<ctlVars, userVars>>

StreamFrame == NextFrame /\ expect = 0 /\ reader' = "batch"

-----------------------------------------------------------------------------
(* HEADERS and CONTINUATION.                                               *)

(* What completeReceivedHeaders does to the stream, and the events.        *)
HeaderEvents(end) ==
  {"Headers"} \cup (IF end THEN {"ReqComplete"} ELSE {})

(* A body is announced and has not begun: delivery waits for its DATA.     *)
DefersHeaders(end, contentLength) == Active /\ ~end /\ contentLength

CompletedHeaders(s, end, contentLength) ==
  LET done == IF ~end THEN s
              ELSE IF IsClient THEN [s EXCEPT !.respDone = TRUE]
                               ELSE [s EXCEPT !.reqDone = TRUE]
  IN  IF DefersHeaders(end, contentLength)
        THEN [done EXCEPT !.events = @ \cup HeaderEvents(end)]
        ELSE Marked(done, HeaderEvents(end))

CompleteReceivedHeaders(id, end, contentLength) ==
  /\ IF DefersHeaders(end, contentLength)
       THEN UNCHANGED ready
       ELSE MarkReady(id)
  /\ spawns' = IF HandlerPerStream THEN [spawns EXCEPT ![id] = @ + 1] ELSE spawns

(* The stream object s after a header block it accepts.                    *)
HeadersAccepted(s, end, endHeaders, contentLength) ==
  IF endHeaders
    THEN CompletedHeaders(OnHeadersReceived(s, end), end, contentLength)
    ELSE OnHeadersReceived(s, end)

(* A header block leaves its stream as t; known is the table with that     *)
(* stream in it.                                                           *)
AcceptHeaders(id, t, known, end, endHeaders, contentLength) ==
  /\ strm' = [strm EXCEPT ![id] = t]
  /\ RetireIfClosed(id, t)
  /\ table' = IF ClientRetires(t) THEN known \ {id} ELSE known
  /\ RememberHot(id)
  /\ IF endHeaders
       THEN CompleteReceivedHeaders(id, end, contentLength) /\ UNCHANGED expect
       ELSE expect' = id /\ UNCHANGED <<ready, spawns>>
  /\ UNCHANGED <<pendRst, pendGoaway>>

(* Bug: a GOAWAY already sent no longer refuses new streams.               *)
BuggyRefused(id) == ~IsClient /\ reject

(* Bug: off by one, the last accepted id is taken again.                   *)
BuggyOutOfOrder(id) == IsClient \/ (~(reject \/ goaway.sent) /\ id < lastPeer)

(* Bug: the concurrency limit is tested before the order of ids.           *)
BuggyOverLimit(id) == ~IsClient /\ Cardinality(table) >= MaxConcurrent

(* The refusals of findOrCreateHeadersStream for an id it does not find.   *)
Refused(id) ==
  ~IsClient /\ (reject \/ (goaway.sent /\ goaway.last # KMax))

OutOfOrder(id) == IsClient \/ (~Refused(id) /\ id <= lastPeer)

OverLimit(id) ==
  ~IsClient /\ ~Refused(id) /\ id > lastPeer
  /\ Cardinality(table) >= MaxConcurrent

RecvHeadersRefused(id) ==
  /\ StreamFrame
  /\ ~Found(id)
  /\ Refused(id) \/ OverLimit(id)
  /\ pendRst' = pendRst \cup {<<id, "REFUSED_STREAM">>}
  /\ UNCHANGED <<tableVars, connVars, pendGoaway, spawns, ready>>

RecvHeadersOutOfOrder(id) ==
  /\ StreamFrame
  /\ ~Found(id)
  /\ OutOfOrder(id)
  /\ pendGoaway' = TRUE
  /\ UNCHANGED <<tableVars, connVars, pendRst, spawns, ready>>

RecvHeadersNew(id, end, endHeaders, contentLength) ==
  /\ StreamFrame
  /\ ~Found(id)
  /\ ~Refused(id) /\ ~OutOfOrder(id) /\ ~OverLimit(id)
  /\ lastPeer' = id
  /\ created' = created \cup {id}
  /\ AcceptHeaders(id, HeadersAccepted(FreshStream, end, endHeaders, contentLength),
                   table \cup {id}, end, endHeaders, contentLength)
  /\ UNCHANGED <<nextLocal, reject, goaway, lastSent>>

RecvHeadersKnown(id, end, endHeaders, contentLength) ==
  /\ StreamFrame
  /\ Found(id)
  /\ CanReceiveHeaders(strm[id])
  /\ AcceptHeaders(id, HeadersAccepted(strm[id], end, endHeaders, contentLength),
                   table, end, endHeaders, contentLength)
  /\ UNCHANGED <<created, lastPeer, nextLocal, reject, goaway, lastSent>>

(* DATA on a stream that takes none (HEADERS are refused in fewer states   *)
(* and in the same way).                                                   *)
RecvOnFinishedStream(id) ==
  /\ StreamFrame
  /\ Found(id)
  /\ ~CanReceiveData(strm[id])
  /\ pendRst' = pendRst \cup {<<id, "STREAM_CLOSED">>}
  /\ RememberHot(id)
  /\ UNCHANGED <<table, strm, retire, created, connVars, pendGoaway, spawns, ready>>

(* Bug: the END_STREAM that came with the HEADERS frame is forgotten.      *)
BuggyEndsWithHeaders(s) == FALSE

(* END_STREAM of a header block that CONTINUATION completes.               *)
EndsWithHeaders(s) == s.endRecv

(* No test that a CONTINUATION was expected, nor of the stream's state.    *)
RecvContinuation(id, endHeaders, contentLength) ==
  /\ NextFrame
  /\ expect \in {0, id}
  /\ Found(id)
  /\ reader' = "batch"
  /\ RememberHot(id)
  /\ IF endHeaders
       THEN /\ strm' = [strm EXCEPT ![id] =
                          CompletedHeaders(@, EndsWithHeaders(@), contentLength)]
            /\ CompleteReceivedHeaders(id, EndsWithHeaders(strm[id]), contentLength)
            /\ expect' = 0
       ELSE UNCHANGED <<strm, ready, spawns, expect>>
  /\ UNCHANGED <<table, retire, created, pendRst, pendGoaway>>
  /\ UNCHANGED <<lastPeer, nextLocal, reject, goaway, lastSent>>

RecvContinuationUnknown(id) ==
  /\ NextFrame
  /\ expect \in {0, id}
  /\ ~Found(id)
  /\ reader' = "batch"
  /\ pendGoaway' = TRUE
  /\ UNCHANGED <<tableVars, connVars, pendRst, spawns, ready>>

(* Any other frame while a CONTINUATION is expected, or in serverActive a  *)
(* frame view that does not materialize: GOAWAY, and the reader leaves     *)
(* after the batch's deferred work.                                        *)
RecvFatalFrame ==
  /\ NextFrame
  /\ expect # 0 \/ Active
  /\ GoawaySent(lastPeer)
  /\ reader' = "exitBatch"
  /\ UNCHANGED <<tableVars, deferVars, expect, lastPeer, nextLocal, reject>>

-----------------------------------------------------------------------------
(* DATA and the other stream frames.                                       *)

RecvDataUnknown(id) ==
  /\ StreamFrame
  /\ ~Found(id)
  /\ pendRst' = pendRst \cup {<<id, "STREAM_CLOSED">>}
  /\ UNCHANGED <<tableVars, connVars, pendGoaway, spawns, ready>>

DataEvents(end) == {"Data"} \cup (IF end THEN {"ReqComplete"} ELSE {})

(* appendStreamDataAndMarkEvents, after the state transition.              *)
DataAppended(s, end) ==
  LET t == OnDataReceived(s, end)
      done == IF ~end THEN t
              ELSE IF IsClient THEN [t EXCEPT !.respDone = TRUE]
                               ELSE [t EXCEPT !.reqDone = TRUE]
  IN  Marked(done, DataEvents(end))

RecvData(id, end) ==
  /\ StreamFrame
  /\ Found(id)
  /\ CanReceiveData(strm[id])
  /\ LET t == DataAppended(strm[id], end)
     IN  /\ strm' = [strm EXCEPT ![id] = t]
         /\ RetireIfClosed(id, t)
         /\ table' = IF ClientRetires(t) THEN table \ {id} ELSE table
  /\ MarkReady(id)
  /\ RememberHot(id)
  /\ UNCHANGED <<created, connVars, pendRst, pendGoaway, spawns>>

(* handleRstStreamFrame, as it leaves the stream.                          *)
PeerReset(s) ==
  QueueClosed([Marked(OnRstStream(s), {"Reset"})
                 EXCEPT !.reqDone = TRUE, !.respDone = TRUE])

RecvRstStream(id) ==
  /\ StreamFrame
  /\ Found(id)
  /\ LET t == PeerReset(strm[id])
     IN  /\ strm' = [strm EXCEPT ![id] = t]
         /\ RetireIfClosed(id, t)
         /\ table' = IF ClientRetires(t) THEN table \ {id} ELSE table
  /\ MarkReady(id)
  /\ RememberHot(id)
  /\ UNCHANGED <<created, connVars, pendRst, pendGoaway, spawns>>

RecvWindowUpdate(id, increment) ==
  /\ StreamFrame
  /\ Found(id)
  /\ RememberHot(id)
  /\ IF increment = 0
       THEN /\ pendRst' = pendRst \cup {<<id, "PROTOCOL_ERROR">>}
            /\ UNCHANGED <<strm, ready>>
       ELSE /\ strm' = [strm EXCEPT ![id] = Marked(@, {"Window"})]
            /\ MarkReady(id)
            /\ UNCHANGED pendRst
  /\ UNCHANGED <<table, retire, created, connVars, pendGoaway, spawns>>

RecvPushPromise(promised) ==
  /\ StreamFrame
  /\ IF ~IsClient
       THEN /\ pendGoaway' = TRUE
            /\ UNCHANGED <<tableVars, spawns>>
       ELSE /\ IF promised \in table THEN UNCHANGED <<table, strm, created>>
               ELSE /\ table' = table \cup {promised}
                    /\ created' = created \cup {promised}
                    /\ strm' = [strm EXCEPT ![promised] =
                                  [FreshStream EXCEPT !.state = "ReservedRemote"]]
            /\ spawns' = [spawns EXCEPT ![promised] = @ + 1]
            /\ UNCHANGED <<pendGoaway, hot, retire>>
  /\ UNCHANGED <<connVars, pendRst, ready>>

-----------------------------------------------------------------------------
(* Connection frames act at once, before the batch ends.                   *)

(* SETTINGS that applySettings rejects, WINDOW_UPDATE 0 and PING on a      *)
(* stream: GOAWAY goes out, the reader carries on.                         *)
RecvBadConnectionFrame ==
  /\ StreamFrame
  /\ GoawaySent(lastPeer)
  /\ UNCHANGED <<tableVars, deferVars, expect, lastPeer, nextLocal, reject>>

RecvGoaway(last) ==
  /\ StreamFrame
  /\ reject' = TRUE
  /\ goaway' = [goaway EXCEPT !.last = last]
  /\ strm' = [id \in Ids |-> IF IsClient /\ id \in table /\ id > last
                               THEN QueueClosed(strm[id]) ELSE strm[id]]
  /\ UNCHANGED <<table, hot, retire, created, deferVars>>
  /\ UNCHANGED <<expect, lastPeer, nextLocal, lastSent>>

(* A frame that changes nothing here, such as PING.  It is not counted, so *)
(* a connection that stays open keeps completing batches.                  *)
RecvPing ==
  /\ reader = "recv" /\ ~closing /\ expect = 0
  /\ reader' = "batch"
  /\ UNCHANGED <<frames, ctlVars, userVars, tableVars, connVars, deferVars>>

-----------------------------------------------------------------------------
(* The end of a batch: processPendingActions, drainRetiredStreams in the   *)
(* loops that call it, flushActiveStreams, then the pending spawns.        *)

RstTargets == {action[1] : action \in pendRst}

(* processPendingActions, as it leaves the stream objects.                 *)
AfterPendingRst ==
  [id \in Ids |-> IF id \in RstTargets \cap table
                    THEN OnRstStream(strm[id]) ELSE strm[id]]

ClosedByActions == IF Active THEN RstTargets \cap table ELSE {}

(* Bug: the cached stream outlives its table entry.                        *)
BuggyDrainRetired(ids) ==
  /\ table' = table \ ids
  /\ retire' = {}
  /\ UNCHANGED hot

(* drainRetiredStreams                                                     *)
DrainRetired(ids) ==
  /\ table' = table \ ids
  /\ hot' = IF hot \in ids THEN 0 ELSE hot
  /\ retire' = {}

DrainAtBatchEnd ==
  IF mode \in {"serverActive", "serverTls"} THEN DrainRetired(retire \cup ClosedByActions)
            ELSE UNCHANGED <<table, hot, retire>>

EndBatch ==
  /\ reader \in {"batch", "exitBatch"}
  /\ IF pendGoaway THEN GoawaySent(lastPeer)
                   ELSE UNCHANGED <<goaway, lastSent>>
  /\ strm' = AfterPendingRst
  /\ DrainAtBatchEnd
  /\ mailbox' = mailbox \cup ready
  /\ handlers' = [id \in Ids |-> handlers[id] + spawns[id]]
  /\ spawned' = [id \in Ids |-> spawned[id] + spawns[id]]
  /\ pendRst' = {} /\ pendGoaway' = FALSE
  /\ spawns' = [id \in Ids |-> 0] /\ ready' = {}
  /\ reader' = IF reader = "batch" THEN "recv" ELSE "exit"
  /\ UNCHANGED <<created, expect, lastPeer, nextLocal, reject, taken, frames, ctlVars>>

(* Leaving readerLoop: every stream still in the table is closed for its   *)
(* readers, then the retired ones are dropped.                             *)
LeaveReader ==
  /\ strm' = [id \in Ids |-> IF id \in table THEN QueueClosed(strm[id]) ELSE strm[id]]
  /\ DrainRetired(retire)
  /\ reader' = "exited"
  /\ UNCHANGED <<created, expect, lastPeer, nextLocal, reject>>
  /\ UNCHANGED <<deferVars, userVars, ctlVars, frames>>

(* The peer closed, or the connection is closing.                          *)
ReaderEnds ==
  /\ reader \in {"recv", "exit"}
  /\ LeaveReader
  /\ UNCHANGED <<goaway, lastSent>>

(* A frame that does not parse, or an I/O error.                           *)
ReadError ==
  /\ reader = "recv" /\ ~closing
  /\ LeaveReader
  /\ GoawaySent(lastPeer)

-----------------------------------------------------------------------------
(* User code.                                                              *)

(* Streams user code may call: a running handler's, one delivered to the   *)
(* connection handler, or one this client opened.                          *)
Usable(id) ==
  CASE HandlerPerStream -> handlers[id] > 0
    [] Active -> id \in taken
    [] IsClient -> id \in created \cap RequestIds

UserCall(id, s) ==
  /\ strm' = [strm EXCEPT ![id] = s]
  /\ RetireIfClosed(id, s)
  /\ UNCHANGED <<table, hot, created, connVars, deferVars, userVars, ctlVars, readVars>>

(* User code ends its side at most once; no call tests the stream's state. *)
SendHeaders(id, end) ==
  /\ Usable(id) /\ ~strm[id].endSent
  /\ UserCall(id, OnHeadersSent(strm[id], end))

SendLastData(id) ==
  /\ Usable(id) /\ ~strm[id].endSent
  /\ UserCall(id, OnDataSent(strm[id], TRUE))

SendRstStream(id) ==
  /\ Usable(id) /\ strm[id].state # "Closed"
  /\ UserCall(id, OnRstStream(strm[id]))

(* runHandler after co_await handler(stream).                              *)
HandlerReturns(id) ==
  /\ handlers[id] > 0
  /\ handlers' = [handlers EXCEPT ![id] = @ - 1]
  /\ retire' = retire \cup {id}
  /\ UNCHANGED <<table, strm, hot, created, mailbox, taken, spawned>>
  /\ UNCHANGED <<connVars, deferVars, ctlVars, readVars>>

(* Bug: takeEvents leaves m_active_queued set.                             *)
BuggyTakeEvents(id) ==
  /\ id \in mailbox
  /\ mailbox' = mailbox \ {id}
  /\ taken' = taken \cup {id}
  /\ strm' = [strm EXCEPT ![id].events = {}]
  /\ UNCHANGED <<table, hot, retire, created, handlers, spawned>>
  /\ UNCHANGED <<connVars, deferVars, ctlVars, readVars>>

(* The connection handler takes a stream from its mailbox: takeEvents.     *)
TakeEvents(id) ==
  /\ id \in mailbox
  /\ mailbox' = mailbox \ {id}
  /\ taken' = taken \cup {id}
  /\ strm' = [strm EXCEPT ![id].events = {}, ![id].queued = FALSE]
  /\ UNCHANGED <<table, hot, retire, created, handlers, spawned>>
  /\ UNCHANGED <<connVars, deferVars, ctlVars, readVars>>

(* H2cClient::get and post: allocateStream, then HEADERS.                  *)
OpenRequest(end) ==
  /\ IsClient
  /\ nextLocal \in RequestIds
  /\ nextLocal' = nextLocal + 2
  /\ table' = table \cup {nextLocal}
  /\ created' = created \cup {nextLocal}
  /\ strm' = [strm EXCEPT ![nextLocal] = OnHeadersSent(FreshStream, end)]
  /\ UNCHANGED <<hot, retire, expect, lastPeer, reject, goaway, lastSent>>
  /\ UNCHANGED <<deferVars, userVars, ctlVars, readVars>>

-----------------------------------------------------------------------------
(* shutdownImpl, one action per stretch between its waits, and the         *)
(* monitor's timeouts.                                                     *)

ShutdownAnnounces ==
  /\ phase = "run" /\ reader # "exited" /\ ~IsClient
  /\ GoawaySent(KMax)
  /\ phase' = "announced"
  /\ UNCHANGED <<expect, lastPeer, nextLocal, reject, mode, closing>>
  /\ UNCHANGED <<tableVars, deferVars, userVars, readVars>>

ShutdownRefuses ==
  /\ \/ phase = "announced"
     \/ phase = "run" /\ reader # "exited" /\ IsClient
  /\ reject' = TRUE
  /\ GoawaySent(lastPeer)
  /\ phase' = "draining"
  /\ UNCHANGED <<expect, lastPeer, nextLocal, mode, closing>>
  /\ UNCHANGED <<tableVars, deferVars, userVars, readVars>>

(* The handlers are done, or graceful_shutdown_timeout has passed.         *)
ShutdownResets ==
  /\ phase = "draining"
  /\ strm' = [id \in Ids |-> IF id \in table THEN OnRstStream(strm[id]) ELSE strm[id]]
  /\ retire' = IF Active
                 THEN retire \cup {id \in table : strm[id].state # "Closed"}
                 ELSE retire
  /\ phase' = "reset"
  /\ UNCHANGED <<table, hot, created, mode, closing>>
  /\ UNCHANGED <<connVars, deferVars, userVars, readVars>>

ShutdownCloses ==
  /\ phase = "reset"
  /\ strm' = [id \in Ids |-> IF id \in table THEN QueueClosed(strm[id]) ELSE strm[id]]
  /\ closing' = TRUE
  /\ phase' = "closed"
  /\ UNCHANGED <<table, hot, retire, created, mode>>
  /\ UNCHANGED <<connVars, deferVars, userVars, readVars>>

(* SETTINGS or PING acknowledgement timeout in monitorLoop.                *)
MonitorTimeout ==
  /\ ~closing /\ reader # "exited"
  /\ GoawaySent(lastPeer)
  /\ closing' = TRUE
  /\ UNCHANGED <<expect, lastPeer, nextLocal, reject, mode, phase>>
  /\ UNCHANGED <<tableVars, deferVars, userVars, readVars>>

-----------------------------------------------------------------------------
ContentLengths == IF Active THEN BOOLEAN ELSE {FALSE}

RecvStreamFrame(id) ==
  \/ RecvHeadersRefused(id)
  \/ RecvHeadersOutOfOrder(id)
  \/ \E end, endHeaders \in BOOLEAN, contentLength \in ContentLengths :
       \/ RecvHeadersNew(id, end, endHeaders, contentLength)
       \/ RecvHeadersKnown(id, end, endHeaders, contentLength)
  \/ RecvOnFinishedStream(id)
  \/ \E endHeaders \in BOOLEAN, contentLength \in ContentLengths :
       RecvContinuation(id, endHeaders, contentLength)
  \/ RecvContinuationUnknown(id)
  \/ RecvDataUnknown(id)
  \/ \E end \in BOOLEAN : RecvData(id, end)
  \/ RecvRstStream(id)
  \/ \E increment \in {0, 1} : RecvWindowUpdate(id, increment)

RecvConnectionFrame ==
  \/ RecvFatalFrame
  \/ \E promised \in PushIds : RecvPushPromise(promised)
  \/ RecvBadConnectionFrame
  \/ \E last \in {0, KMax} \cup RequestIds : RecvGoaway(last)
  \/ RecvPing

Reader ==
  \/ \E id \in Ids : RecvStreamFrame(id)
  \/ RecvConnectionFrame
  \/ EndBatch \/ ReaderEnds \/ ReadError

User ==
  \/ \E id \in Ids :
       \/ \E end \in BOOLEAN : SendHeaders(id, end)
       \/ SendLastData(id) \/ SendRstStream(id)
       \/ HandlerReturns(id) \/ TakeEvents(id)
  \/ \E end \in BOOLEAN : OpenRequest(end)

Control ==
  \/ ShutdownAnnounces \/ ShutdownRefuses \/ ShutdownResets \/ ShutdownCloses
  \/ MonitorTimeout

Next == Reader \/ User \/ Control

Spec == Init /\ [][Next]_vars

-----------------------------------------------------------------------------
(* Properties.                                                             *)

TableTypeOK ==
  /\ table \subseteq Ids /\ created \subseteq Ids /\ retire \subseteq Ids
  /\ strm \in [Ids -> StreamRecords]
  /\ hot \in Ids \cup {0}

ConnTypeOK ==
  /\ mode \in AllModes
  /\ expect \in Ids \cup {0}
  /\ lastPeer \in Ids \cup {0} /\ nextLocal \in Nat
  /\ goaway \in [sent: BOOLEAN, last: Ids \cup {0, KMax}]
  /\ lastSent \in Ids \cup {0, KMax}
  /\ reader \in {"recv", "batch", "exitBatch", "exit", "exited"}
  /\ phase \in {"run", "announced", "draining", "reset", "closed"}
  /\ frames \in Nat

DeferredTypeOK ==
  /\ pendRst \subseteq Ids \X {"REFUSED_STREAM", "STREAM_CLOSED", "PROTOCOL_ERROR"}
  /\ spawns \in [Ids -> Nat] /\ handlers \in [Ids -> Nat] /\ spawned \in [Ids -> Nat]
  /\ ready \subseteq Ids /\ mailbox \subseteq Ids /\ taken \subseteq Ids

FlagTypeOK == reject \in BOOLEAN /\ pendGoaway \in BOOLEAN /\ closing \in BOOLEAN

(* Every variable keeps its type; in particular no count of running        *)
(* handlers (m_active_handlers) ever goes below zero.                      *)
TypeOK == TableTypeOK /\ ConnTypeOK /\ DeferredTypeOK /\ FlagTypeOK

(* The hot-stream cache of findAttachedStream answers before the table is  *)
(* asked, so it must never hold a stream drainRetiredStreams has removed.  *)
HotStreamInTable == hot # 0 => hot \in table

(* With the connection handler, no closed stream stays in the table        *)
(* unnoticed: whichever side or frame closed it, its id is waiting in the  *)
(* retire channel, or its slot of max_concurrent_streams would be lost.    *)
ClosedStreamWillRetire ==
  Active => \A id \in table : strm[id].state = "Closed" => id \in retire

(* Code awaiting the whole request (server) or response (client) is woken: *)
(* once END_STREAM has arrived and its header block is complete, also when *)
(* CONTINUATION completed it, the message is marked completed.             *)
EndedMessageCompletes ==
  \A id \in created :
    strm[id].endRecv /\ expect # id =>
      IF IsClient THEN strm[id].respDone ELSE strm[id].reqDone

(* m_active_queued is exact, and no event is left on a stream that nothing *)
(* will deliver: the exception is a header block held back until its body  *)
(* begins (shouldDeferHeadersOnlyActiveDelivery).                          *)
EventsReachHandler ==
  Active => \A id \in created :
    /\ strm[id].queued <=> id \in ready \cup mailbox
    /\ strm[id].events # {} => strm[id].queued \/ strm[id].events = {"Headers"}

(* The last_stream_id of the latest GOAWAY the server sent covers every    *)
(* stream it has accepted, whatever order errors, timeouts and shutdown    *)
(* sent GOAWAYs in: a client never retries a stream that is being served.  *)
LatestGoawayCoversAccepted ==
  ~IsClient => \A id \in created : id <= lastSent

(* A server accepts each stream id once and in increasing order, also      *)
(* after the stream has been retired from the table.                       *)
AcceptedOnce ==
  [][~IsClient => \A id \in table' \ table : id > lastPeer /\ id \notin created]_vars

(* REFUSED_STREAM tells the client that nothing was processed and it may   *)
(* retry: outside shutdown it is never queued for a stream that was        *)
(* accepted before.  (Once new streams are refused, a late frame of a      *)
(* retired stream is answered the same way.)                               *)
RefusedMeansUnprocessed ==
  [][~reject /\ ~goaway.sent =>
       \A action \in pendRst' \ pendRst :
         action[2] = "REFUSED_STREAM" => action[1] \notin created]_vars

-----------------------------------------------------------------------------
(* Statements of the repository that the code does not keep.               *)

(* "每个新流创建后 spawn handler(stream)" (stream_mgr.h:331): a stream gets  *)
(* one handler.  Trailers start a second one.                              *)
HandlerStartedOnce == \A id \in Ids : spawned[id] <= 1

=============================================================================
