---------------------- MODULE Http2StreamManagerProofs ----------------------
(***************************************************************************)
(* Theorems of Http2StreamManager, for any sets of stream ids, any         *)
(* concurrency limit and any number of frames: type correctness, and each  *)
(* safety property that the runs of MCHttp2StreamManager check.            *)
(*                                                                         *)
(* First what the stream operators return and leave alone, then one lemma  *)
(* per conjunct of the inductive invariant IInv, each with a step per      *)
(* action, and the theorems at the end.                                    *)
(***************************************************************************)
EXTENDS Http2StreamManager, TLAPS

-----------------------------------------------------------------------------
(* The stream operators.                                                   *)

(* The request (server) or response (client) is marked completed.          *)
Done(s) == IF IsClient THEN s.respDone ELSE s.reqDone

(* Everything a user can wait for or be told is the same in s and t.       *)
SameMessage(s, t) ==
  /\ t.reqDone = s.reqDone /\ t.respDone = s.respDone
  /\ t.queued = s.queued /\ t.events = s.events

LEMMA FreshStreamType == FreshStream \in StreamRecords
  BY DEF FreshStream, StreamRecords, StreamStates, Events

LEMMA TransitionTypes ==
  ASSUME NEW s \in StreamRecords, NEW end \in BOOLEAN
  PROVE  /\ OnHeadersReceived(s, end) \in StreamRecords
         /\ OnDataReceived(s, end) \in StreamRecords
         /\ OnHeadersSent(s, end) \in StreamRecords
         /\ OnDataSent(s, end) \in StreamRecords
         /\ OnRstStream(s) \in StreamRecords
  BY DEF StreamRecords, StreamStates, OnHeadersReceived, OnDataReceived,
         OnHeadersSent, OnDataSent, OnRstStream, PeerEnds, LocalEnds

(* Sending never touches what was received.                                *)
LEMMA SendFields ==
  ASSUME NEW s \in StreamRecords, NEW end \in BOOLEAN
  PROVE  /\ SameMessage(s, OnHeadersSent(s, end))
         /\ OnHeadersSent(s, end).endRecv = s.endRecv
         /\ SameMessage(s, OnDataSent(s, end))
         /\ OnDataSent(s, end).endRecv = s.endRecv
         /\ SameMessage(s, OnRstStream(s))
         /\ OnRstStream(s).endRecv = s.endRecv
         /\ OnRstStream(s).state = "Closed"
  BY DEF StreamRecords, OnHeadersSent, OnDataSent, OnRstStream, LocalEnds, SameMessage

LEMMA ReceiveFields ==
  ASSUME NEW s \in StreamRecords, NEW end \in BOOLEAN
  PROVE  /\ SameMessage(s, OnHeadersReceived(s, end))
         /\ OnHeadersReceived(s, end).endRecv = (s.endRecv \/ end)
         /\ SameMessage(s, OnDataReceived(s, end))
         /\ OnDataReceived(s, end).endRecv = (s.endRecv \/ end)
  BY DEF StreamRecords, OnHeadersReceived, OnDataReceived, PeerEnds, SameMessage

LEMMA MarkedFields ==
  ASSUME NEW s \in StreamRecords, NEW events \in SUBSET Events
  PROVE  LET t == Marked(s, events)
         IN  /\ t \in StreamRecords
             /\ t.state = s.state /\ t.endRecv = s.endRecv
             /\ t.reqDone = s.reqDone /\ t.respDone = s.respDone
             /\ Active => t.queued
  BY DEF StreamRecords, Marked

LEMMA QueueClosedFields ==
  ASSUME NEW s \in StreamRecords
  PROVE  LET t == QueueClosed(s)
         IN  /\ t \in StreamRecords
             /\ t.state = s.state /\ t.endRecv = s.endRecv
             /\ t.queued = s.queued /\ t.events = s.events
             /\ Done(s) => Done(t)
  BY DEF StreamRecords, QueueClosed, Done

LEMMA EventTypes ==
  ASSUME NEW end \in BOOLEAN
  PROVE  HeaderEvents(end) \in SUBSET Events /\ DataEvents(end) \in SUBSET Events
  BY DEF HeaderEvents, DataEvents, Events

LEMMA CompletedHeadersFields ==
  ASSUME NEW s \in StreamRecords, NEW end \in BOOLEAN, NEW contentLength \in BOOLEAN
  PROVE  LET t == CompletedHeaders(s, end, contentLength)
         IN  /\ t \in StreamRecords
             /\ t.state = s.state /\ t.endRecv = s.endRecv
             /\ end \/ Done(s) => Done(t)
             /\ IF DefersHeaders(end, contentLength)
                  THEN t.queued = s.queued /\ t.events = s.events \cup {"Headers"}
                  ELSE Active => t.queued
<1>1. CompletedHeaders(s, end, contentLength) \in StreamRecords
  BY EventTypes, Zenon DEF StreamRecords, CompletedHeaders, Marked
<1> QED
  BY <1>1 DEF StreamRecords, CompletedHeaders, Marked, HeaderEvents, DefersHeaders, Done

LEMMA DataAppendedFields ==
  ASSUME NEW s \in StreamRecords, NEW end \in BOOLEAN
  PROVE  LET t == DataAppended(s, end)
         IN  /\ t \in StreamRecords
             /\ t.endRecv = (s.endRecv \/ end)
             /\ end \/ Done(s) => Done(t)
             /\ Active => t.queued
<1> DEFINE r == OnDataReceived(s, end)
           done == IF ~end THEN r
                   ELSE IF IsClient THEN [r EXCEPT !.respDone = TRUE]
                                    ELSE [r EXCEPT !.reqDone = TRUE]
<1>1. r \in StreamRecords /\ SameMessage(s, r) /\ r.endRecv = (s.endRecv \/ end)
  BY TransitionTypes, ReceiveFields
<1> HIDE DEF r
<1>2. /\ done \in StreamRecords
      /\ done.endRecv = r.endRecv
      /\ end \/ Done(s) => Done(done)
  BY <1>1 DEF StreamRecords, SameMessage, Done
<1>3. DataAppended(s, end) = Marked(done, DataEvents(end))
  BY DEF DataAppended, r
<1> HIDE DEF done
<1> QED
  BY <1>1, <1>2, <1>3, EventTypes, MarkedFields DEF Done

LEMMA PeerResetFields ==
  ASSUME NEW s \in StreamRecords
  PROVE  LET t == PeerReset(s)
         IN  t \in StreamRecords /\ Done(t) /\ (Active => t.queued)
<1> DEFINE m == Marked(OnRstStream(s), {"Reset"})
           r == [m EXCEPT !.reqDone = TRUE, !.respDone = TRUE]
<1>1. m \in StreamRecords /\ (Active => m.queued)
  BY TransitionTypes, MarkedFields DEF Events
<1> HIDE DEF m
<1>2. r \in StreamRecords /\ Done(r) /\ (Active => r.queued)
  BY <1>1 DEF StreamRecords, Done
<1>3. PeerReset(s) = QueueClosed(r)
  BY DEF PeerReset, m
<1> HIDE DEF r
<1> QED
  BY <1>2, <1>3, QueueClosedFields

LEMMA HeadersAcceptedFields ==
  ASSUME NEW s \in StreamRecords, NEW end \in BOOLEAN,
         NEW endHeaders \in BOOLEAN, NEW contentLength \in BOOLEAN
  PROVE  LET t == HeadersAccepted(s, end, endHeaders, contentLength)
         IN  /\ t \in StreamRecords
             /\ t.endRecv = (s.endRecv \/ end)
             /\ Done(s) => Done(t)
             /\ endHeaders /\ end => Done(t)
             /\ endHeaders /\ ~DefersHeaders(end, contentLength) /\ Active => t.queued
             /\ ~endHeaders \/ DefersHeaders(end, contentLength) =>
                  t.queued = s.queued
<1> DEFINE r == OnHeadersReceived(s, end)
<1>1. r \in StreamRecords /\ SameMessage(s, r) /\ r.endRecv = (s.endRecv \/ end)
  BY TransitionTypes, ReceiveFields
<1>2. HeadersAccepted(s, end, endHeaders, contentLength)
        = IF endHeaders THEN CompletedHeaders(r, end, contentLength) ELSE r
  BY DEF HeadersAccepted
<1> HIDE DEF r
<1>3. CASE endHeaders
  BY <1>1, <1>2, <1>3, CompletedHeadersFields DEF SameMessage, Done
<1>4. CASE ~endHeaders
  BY <1>1, <1>2, <1>4 DEF SameMessage, Done
<1> QED
  BY <1>3, <1>4

LEMMA HeadersAcceptedEvents ==
  ASSUME NEW s \in StreamRecords, NEW end \in BOOLEAN,
         NEW endHeaders \in BOOLEAN, NEW contentLength \in BOOLEAN,
         ~endHeaders \/ DefersHeaders(end, contentLength)
  PROVE  HeadersAccepted(s, end, endHeaders, contentLength).events
           \subseteq s.events \cup {"Headers"}
<1> DEFINE r == OnHeadersReceived(s, end)
<1>1. r \in StreamRecords /\ r.events = s.events
  BY TransitionTypes, ReceiveFields DEF SameMessage
<1>2. HeadersAccepted(s, end, endHeaders, contentLength)
        = IF endHeaders THEN CompletedHeaders(r, end, contentLength) ELSE r
  BY DEF HeadersAccepted
<1> HIDE DEF r
<1>3. CASE endHeaders
  BY <1>1, <1>2, <1>3, CompletedHeadersFields
<1>4. CASE ~endHeaders
  BY <1>1, <1>2, <1>4
<1> QED
  BY <1>3, <1>4


-----------------------------------------------------------------------------
(* The inductive invariant, one conjunct for each property.                *)

(* Accepted ids are bounded by the last accepted one, and it by the latest *)
(* GOAWAY.  While new streams are admitted no peer GOAWAY has been seen,   *)
(* so that the shared m_goaway_last_stream_id is the one sent.             *)
AcceptedInv ==
  ~IsClient =>
    /\ \A id \in created : id <= lastPeer
    /\ lastPeer <= lastSent
    /\ ~reject => lastSent = IF goaway.sent THEN goaway.last ELSE KMax

(* The hot stream is used in serverActive only, where it is in the table.  *)
HotInv == hot # 0 => Active /\ hot \in table

CreatedInv == table \subseteq created

ClosedInv(i) == Active /\ i \in table /\ strm[i].state = "Closed" => i \in retire

EndedInv(i) == strm[i].endRecv /\ expect # i => Done(strm[i])

EventsInv(i) ==
  Active =>
    /\ strm[i].queued <=> i \in ready \cup mailbox
    /\ i \notin ready \cap mailbox
    /\ strm[i].queued => i \in created
    /\ strm[i].events # {} => strm[i].queued \/ strm[i].events = {"Headers"}

IInv ==
  /\ TypeOK
  /\ AcceptedInv /\ HotInv /\ CreatedInv
  /\ \A i \in Ids : ClosedInv(i) /\ EndedInv(i) /\ EventsInv(i)

-----------------------------------------------------------------------------
(* The stream table and its streams keep their types.                      *)
LEMMA TableTypeStep ==
  ASSUME TypeOK, [Next]_vars
  PROVE  TableTypeOK'
<1> USE DEF vars, tableVars, connVars, deferVars, userVars, ctlVars,
  readVars, StreamFrame, NextFrame, GoawaySent, TypeOK, TableTypeOK
<1>1. CASE \E id \in Ids :
            RecvHeadersRefused(id) \/ RecvHeadersOutOfOrder(id) \/
            RecvContinuationUnknown(id) \/ RecvDataUnknown(id)
  BY <1>1 DEF RecvHeadersRefused, RecvHeadersOutOfOrder,
    RecvContinuationUnknown, RecvDataUnknown
<1>2. ASSUME NEW id \in Ids, NEW end \in BOOLEAN, NEW endHeaders \in BOOLEAN,
             NEW contentLength \in BOOLEAN,
             RecvHeadersNew(id, end, endHeaders, contentLength)
      PROVE  TableTypeOK'
  <2> DEFINE t == HeadersAccepted(FreshStream, end, endHeaders, contentLength)
  <2>1. t \in StreamRecords
    BY HeadersAcceptedFields, FreshStreamType
  <2> HIDE DEF t
  <2> QED
    BY <1>2, <2>1
    DEF RecvHeadersNew, AcceptHeaders, StreamFrame, NextFrame, t,
      RetireIfClosed, RememberHot, ClientRetires
<1>3. ASSUME NEW id \in Ids, NEW end \in BOOLEAN, NEW endHeaders \in BOOLEAN,
             NEW contentLength \in BOOLEAN,
             RecvHeadersKnown(id, end, endHeaders, contentLength)
      PROVE  TableTypeOK'
  <2> DEFINE t == HeadersAccepted(strm[id], end, endHeaders, contentLength)
  <2>1. t \in StreamRecords
    BY HeadersAcceptedFields
  <2> HIDE DEF t
  <2> QED
    BY <1>3, <2>1
    DEF RecvHeadersKnown, AcceptHeaders, StreamFrame, NextFrame, t,
      RetireIfClosed, RememberHot, ClientRetires
<1>4. CASE \E id \in Ids : RecvOnFinishedStream(id)
  BY <1>4 DEF RecvOnFinishedStream, RememberHot
<1>5. CASE \E id \in Ids, endHeaders, contentLength \in BOOLEAN :
            RecvContinuation(id, endHeaders, contentLength)
  BY <1>5, CompletedHeadersFields DEF RecvContinuation, RememberHot,
    EndsWithHeaders, StreamRecords
<1>6. CASE \E id \in Ids, end \in BOOLEAN : RecvData(id, end)
  BY <1>6, DataAppendedFields DEF RecvData, RememberHot, RetireIfClosed,
    MarkReady
<1>7. CASE \E id \in Ids : RecvRstStream(id)
  BY <1>7, PeerResetFields DEF RecvRstStream, RememberHot, RetireIfClosed,
    MarkReady
<1>8. CASE \E id \in Ids, increment \in {0, 1} :
            RecvWindowUpdate(id, increment)
  BY <1>8, MarkedFields DEF RecvWindowUpdate, RememberHot, MarkReady, Events
<1>9. CASE RecvFatalFrame \/ RecvBadConnectionFrame \/ RecvPing
  BY <1>9 DEF RecvFatalFrame, RecvBadConnectionFrame, RecvPing
<1>10. CASE \E promised \in PushIds : RecvPushPromise(promised)
  BY <1>10, FreshStreamType DEF RecvPushPromise, StreamRecords, StreamStates,
    Ids
<1>11. CASE \E last \in {0, KMax} \cup RequestIds : RecvGoaway(last)
  BY <1>11, QueueClosedFields DEF RecvGoaway
<1>12. CASE EndBatch
  BY <1>12, TransitionTypes DEF EndBatch, DrainAtBatchEnd, DrainRetired,
    AfterPendingRst
<1>13. CASE ReaderEnds
  BY <1>13, QueueClosedFields DEF ReaderEnds, LeaveReader, DrainRetired
<1>14. CASE ReadError
  BY <1>14, QueueClosedFields DEF ReadError, LeaveReader, DrainRetired
<1>15. CASE \E id \in Ids, end \in BOOLEAN : SendHeaders(id, end)
  BY <1>15, TransitionTypes DEF SendHeaders, UserCall, RetireIfClosed
<1>16. ASSUME NEW id \in Ids, SendLastData(id) PROVE TableTypeOK'
  BY <1>16, TransitionTypes DEF SendLastData, UserCall, RetireIfClosed
<1>17. ASSUME NEW id \in Ids, SendRstStream(id) PROVE TableTypeOK'
  BY <1>17, TransitionTypes DEF SendRstStream, UserCall, RetireIfClosed
<1>18. CASE \E id \in Ids : HandlerReturns(id)
  BY <1>18 DEF HandlerReturns
<1>19. ASSUME NEW id \in Ids, TakeEvents(id) PROVE TableTypeOK'
  BY <1>19 DEF TakeEvents, StreamRecords
<1>20. ASSUME NEW end \in BOOLEAN, OpenRequest(end) PROVE TableTypeOK'
  BY <1>20, TransitionTypes, FreshStreamType DEF OpenRequest, Ids
<1>21. CASE
            ShutdownAnnounces \/ ShutdownRefuses \/ MonitorTimeout \/
            UNCHANGED vars
  BY <1>21 DEF ShutdownAnnounces, ShutdownRefuses, MonitorTimeout
<1>22. CASE ShutdownResets
  BY <1>22, TransitionTypes DEF ShutdownResets
<1>23. CASE ShutdownCloses
  BY <1>23, QueueClosedFields DEF ShutdownCloses
<1> QED
  BY <1>1, <1>2, <1>3, <1>4, <1>5, <1>6, <1>7, <1>8, <1>9, <1>10, <1>11,
    <1>12, <1>13, <1>14, <1>15, <1>16, <1>17, <1>18, <1>19, <1>20, <1>21,
    <1>22, <1>23 DEF Next, Reader, RecvStreamFrame, RecvConnectionFrame,
    User, Control, ContentLengths

(* The connection's variables keep their types.                            *)
LEMMA ConnTypeStep ==
  ASSUME TypeOK, [Next]_vars
  PROVE  ConnTypeOK'
<1> USE DEF vars, tableVars, connVars, deferVars, userVars, ctlVars,
  readVars, StreamFrame, NextFrame, GoawaySent, TypeOK, TableTypeOK,
  ConnTypeOK
<1>1. CASE \E id \in Ids :
            RecvHeadersRefused(id) \/ RecvHeadersOutOfOrder(id) \/
            RecvContinuationUnknown(id) \/ RecvDataUnknown(id)
  BY <1>1 DEF RecvHeadersRefused, RecvHeadersOutOfOrder,
    RecvContinuationUnknown, RecvDataUnknown
<1>2. ASSUME NEW id \in Ids, NEW end \in BOOLEAN, NEW endHeaders \in BOOLEAN,
             NEW contentLength \in BOOLEAN,
             RecvHeadersNew(id, end, endHeaders, contentLength)
      PROVE  ConnTypeOK'
  <2> DEFINE t == HeadersAccepted(FreshStream, end, endHeaders, contentLength)
  <2>1. t \in StreamRecords
    BY HeadersAcceptedFields, FreshStreamType
  <2> HIDE DEF t
  <2> QED
    BY <1>2, <2>1
    DEF RecvHeadersNew, AcceptHeaders, StreamFrame, NextFrame, t, ctlVars
<1>3. ASSUME NEW id \in Ids, NEW end \in BOOLEAN, NEW endHeaders \in BOOLEAN,
             NEW contentLength \in BOOLEAN,
             RecvHeadersKnown(id, end, endHeaders, contentLength)
      PROVE  ConnTypeOK'
  <2> DEFINE t == HeadersAccepted(strm[id], end, endHeaders, contentLength)
  <2>1. t \in StreamRecords
    BY HeadersAcceptedFields
  <2> HIDE DEF t
  <2> QED
    BY <1>3, <2>1
    DEF RecvHeadersKnown, AcceptHeaders, StreamFrame, NextFrame, t, ctlVars
<1>4. CASE \E id \in Ids : RecvOnFinishedStream(id)
  BY <1>4 DEF RecvOnFinishedStream, RememberHot
<1>5. CASE \E id \in Ids, endHeaders, contentLength \in BOOLEAN :
            RecvContinuation(id, endHeaders, contentLength)
  BY <1>5 DEF RecvContinuation, RememberHot
<1>6. CASE \E id \in Ids, end \in BOOLEAN : RecvData(id, end)
  BY <1>6 DEF RecvData, RememberHot, RetireIfClosed, MarkReady
<1>7. CASE \E id \in Ids : RecvRstStream(id)
  BY <1>7 DEF RecvRstStream, RememberHot, RetireIfClosed, MarkReady
<1>8. CASE \E id \in Ids, increment \in {0, 1} :
            RecvWindowUpdate(id, increment)
  BY <1>8 DEF RecvWindowUpdate, RememberHot, MarkReady
<1>9. CASE RecvFatalFrame
  BY <1>9 DEF RecvFatalFrame
<1>10. CASE \E promised \in PushIds : RecvPushPromise(promised)
  BY <1>10 DEF RecvPushPromise
<1>11. CASE RecvBadConnectionFrame
  BY <1>11 DEF RecvBadConnectionFrame
<1>12. CASE \E last \in {0, KMax} \cup RequestIds : RecvGoaway(last)
  BY <1>12 DEF RecvGoaway, Ids
<1>13. CASE RecvPing
  BY <1>13 DEF RecvPing
<1>14. CASE EndBatch
  <2>1. CASE pendGoaway
    <3>1. /\ goaway' = [sent |-> TRUE, last |-> lastPeer]
          /\ lastSent' = lastPeer
      BY <1>14, <2>1 DEF EndBatch, GoawaySent
    <3>2. /\ reader' \in {"recv", "exit"}
          /\ UNCHANGED <<mode, expect, lastPeer, nextLocal, phase, frames>>
      BY <1>14 DEF EndBatch, ctlVars
    <3> QED
      BY <3>1, <3>2
  <2>2. CASE ~pendGoaway
    BY <1>14, <2>2 DEF EndBatch, ctlVars
  <2> QED
    BY <2>1, <2>2
<1>15. CASE ReaderEnds
  BY <1>15 DEF ReaderEnds, LeaveReader, DrainRetired
<1>16. CASE ReadError
  BY <1>16 DEF ReadError, LeaveReader, DrainRetired
<1>17. CASE \E id \in Ids, end \in BOOLEAN : SendHeaders(id, end)
  BY <1>17 DEF SendHeaders, UserCall, RetireIfClosed
<1>18. CASE \E id \in Ids : SendLastData(id) \/ SendRstStream(id)
  BY <1>18 DEF SendLastData, UserCall, RetireIfClosed, SendRstStream
<1>19. CASE \E id \in Ids : HandlerReturns(id) \/ TakeEvents(id)
  BY <1>19 DEF HandlerReturns, TakeEvents
<1>20. CASE \E end \in BOOLEAN : OpenRequest(end)
  BY <1>20 DEF OpenRequest
<1>21. CASE ShutdownAnnounces
  BY <1>21 DEF ShutdownAnnounces
<1>22. CASE ShutdownRefuses
  BY <1>22 DEF ShutdownRefuses
<1>23. CASE ShutdownResets
  BY <1>23 DEF ShutdownResets
<1>24. CASE ShutdownCloses
  BY <1>24 DEF ShutdownCloses
<1>25. CASE MonitorTimeout
  BY <1>25 DEF MonitorTimeout
<1>26. CASE UNCHANGED vars
  BY <1>26
<1> QED
  BY <1>1, <1>2, <1>3, <1>4, <1>5, <1>6, <1>7, <1>8, <1>9, <1>10, <1>11,
    <1>12, <1>13, <1>14, <1>15, <1>16, <1>17, <1>18, <1>19, <1>20, <1>21,
    <1>22, <1>23, <1>24, <1>25, <1>26 DEF Next, Reader, RecvStreamFrame,
    RecvConnectionFrame, User, Control, ContentLengths

(* The work deferred to the end of the batch keeps its types.              *)
LEMMA DeferredTypeStep ==
  ASSUME TypeOK, [Next]_vars
  PROVE  DeferredTypeOK'
<1> USE DEF vars, tableVars, connVars, deferVars, userVars, ctlVars,
  readVars, StreamFrame, NextFrame, GoawaySent, TypeOK, TableTypeOK,
  DeferredTypeOK
<1>1. CASE \E id \in Ids :
            RecvHeadersRefused(id) \/ RecvHeadersOutOfOrder(id) \/
            RecvContinuationUnknown(id) \/ RecvDataUnknown(id)
  BY <1>1 DEF RecvHeadersRefused, RecvHeadersOutOfOrder,
    RecvContinuationUnknown, RecvDataUnknown
<1>2. ASSUME NEW id \in Ids, NEW end \in BOOLEAN, NEW endHeaders \in BOOLEAN,
             NEW contentLength \in BOOLEAN,
             RecvHeadersNew(id, end, endHeaders, contentLength)
      PROVE  DeferredTypeOK'
  <2> DEFINE t == HeadersAccepted(FreshStream, end, endHeaders, contentLength)
  <2>1. t \in StreamRecords
    BY HeadersAcceptedFields, FreshStreamType
  <2> HIDE DEF t
  <2> QED
    BY <1>2, <2>1
    DEF RecvHeadersNew, AcceptHeaders, StreamFrame, NextFrame, t, userVars,
      CompleteReceivedHeaders, MarkReady
<1>3. ASSUME NEW id \in Ids, NEW end \in BOOLEAN, NEW endHeaders \in BOOLEAN,
             NEW contentLength \in BOOLEAN,
             RecvHeadersKnown(id, end, endHeaders, contentLength)
      PROVE  DeferredTypeOK'
  <2> DEFINE t == HeadersAccepted(strm[id], end, endHeaders, contentLength)
  <2>1. t \in StreamRecords
    BY HeadersAcceptedFields
  <2> HIDE DEF t
  <2> QED
    BY <1>3, <2>1
    DEF RecvHeadersKnown, AcceptHeaders, StreamFrame, NextFrame, t, userVars,
      CompleteReceivedHeaders, MarkReady
<1>4. CASE \E id \in Ids : RecvOnFinishedStream(id)
  BY <1>4 DEF RecvOnFinishedStream, RememberHot
<1>5. CASE \E id \in Ids, endHeaders, contentLength \in BOOLEAN :
            RecvContinuation(id, endHeaders, contentLength)
  BY <1>5 DEF RecvContinuation, RememberHot, CompleteReceivedHeaders,
    MarkReady
<1>6. CASE \E id \in Ids, end \in BOOLEAN : RecvData(id, end)
  BY <1>6 DEF RecvData, RememberHot, RetireIfClosed, MarkReady
<1>7. CASE \E id \in Ids : RecvRstStream(id)
  BY <1>7 DEF RecvRstStream, RememberHot, RetireIfClosed, MarkReady
<1>8. CASE \E id \in Ids, increment \in {0, 1} :
            RecvWindowUpdate(id, increment)
  BY <1>8 DEF RecvWindowUpdate, RememberHot, MarkReady
<1>9. CASE RecvFatalFrame \/ RecvBadConnectionFrame \/ RecvPing
  BY <1>9 DEF RecvFatalFrame, RecvBadConnectionFrame, RecvPing
<1>10. CASE \E promised \in PushIds : RecvPushPromise(promised)
  BY <1>10 DEF RecvPushPromise
<1>11. CASE \E last \in {0, KMax} \cup RequestIds : RecvGoaway(last)
  BY <1>11 DEF RecvGoaway
<1>12. CASE EndBatch
  BY <1>12 DEF EndBatch, DrainAtBatchEnd, DrainRetired
<1>13. CASE ReaderEnds \/ ReadError
  BY <1>13 DEF ReaderEnds, LeaveReader, DrainRetired, ReadError
<1>14. CASE \E id \in Ids, end \in BOOLEAN : SendHeaders(id, end)
  BY <1>14 DEF SendHeaders, UserCall, RetireIfClosed
<1>15. CASE \E id \in Ids : SendLastData(id) \/ SendRstStream(id)
  BY <1>15 DEF SendLastData, UserCall, RetireIfClosed, SendRstStream
<1>16. CASE \E id \in Ids : HandlerReturns(id) \/ TakeEvents(id)
  BY <1>16 DEF HandlerReturns, TakeEvents
<1>17. CASE \E end \in BOOLEAN : OpenRequest(end)
  BY <1>17 DEF OpenRequest
<1>18. CASE
            ShutdownAnnounces \/ ShutdownRefuses \/ MonitorTimeout \/
            UNCHANGED vars
  BY <1>18 DEF ShutdownAnnounces, ShutdownRefuses, MonitorTimeout
<1>19. CASE ShutdownResets
  BY <1>19 DEF ShutdownResets
<1>20. CASE ShutdownCloses
  BY <1>20 DEF ShutdownCloses
<1> QED
  BY <1>1, <1>2, <1>3, <1>4, <1>5, <1>6, <1>7, <1>8, <1>9, <1>10, <1>11,
    <1>12, <1>13, <1>14, <1>15, <1>16, <1>17, <1>18, <1>19, <1>20 DEF Next,
    Reader, RecvStreamFrame, RecvConnectionFrame, User, Control,
    ContentLengths

(* The flags stay Boolean.                                                 *)
LEMMA FlagTypeStep ==
  ASSUME TypeOK, [Next]_vars
  PROVE  FlagTypeOK'
<1> USE DEF vars, tableVars, connVars, deferVars, userVars, ctlVars,
  readVars, StreamFrame, NextFrame, GoawaySent, TypeOK, TableTypeOK,
  FlagTypeOK
<1>1. CASE \E id \in Ids :
            RecvHeadersRefused(id) \/ RecvHeadersOutOfOrder(id) \/
            RecvContinuationUnknown(id) \/ RecvDataUnknown(id)
  BY <1>1 DEF RecvHeadersRefused, RecvHeadersOutOfOrder,
    RecvContinuationUnknown, RecvDataUnknown
<1>2. ASSUME NEW id \in Ids, NEW end \in BOOLEAN, NEW endHeaders \in BOOLEAN,
             NEW contentLength \in BOOLEAN,
             RecvHeadersNew(id, end, endHeaders, contentLength)
      PROVE  FlagTypeOK'
  <2> DEFINE t == HeadersAccepted(FreshStream, end, endHeaders, contentLength)
  <2>1. t \in StreamRecords
    BY HeadersAcceptedFields, FreshStreamType
  <2> HIDE DEF t
  <2> QED
    BY <1>2, <2>1
    DEF RecvHeadersNew, AcceptHeaders, StreamFrame, NextFrame, t, ctlVars
<1>3. ASSUME NEW id \in Ids, NEW end \in BOOLEAN, NEW endHeaders \in BOOLEAN,
             NEW contentLength \in BOOLEAN,
             RecvHeadersKnown(id, end, endHeaders, contentLength)
      PROVE  FlagTypeOK'
  <2> DEFINE t == HeadersAccepted(strm[id], end, endHeaders, contentLength)
  <2>1. t \in StreamRecords
    BY HeadersAcceptedFields
  <2> HIDE DEF t
  <2> QED
    BY <1>3, <2>1
    DEF RecvHeadersKnown, AcceptHeaders, StreamFrame, NextFrame, t, ctlVars
<1>4. CASE \E id \in Ids : RecvOnFinishedStream(id)
  BY <1>4 DEF RecvOnFinishedStream, RememberHot
<1>5. CASE \E id \in Ids, endHeaders, contentLength \in BOOLEAN :
            RecvContinuation(id, endHeaders, contentLength)
  BY <1>5 DEF RecvContinuation, RememberHot
<1>6. CASE \E id \in Ids, end \in BOOLEAN : RecvData(id, end)
  BY <1>6 DEF RecvData, RememberHot, RetireIfClosed, MarkReady
<1>7. CASE \E id \in Ids : RecvRstStream(id)
  BY <1>7 DEF RecvRstStream, RememberHot, RetireIfClosed, MarkReady
<1>8. CASE \E id \in Ids, increment \in {0, 1} :
            RecvWindowUpdate(id, increment)
  BY <1>8 DEF RecvWindowUpdate, RememberHot, MarkReady
<1>9. CASE RecvFatalFrame \/ RecvBadConnectionFrame \/ RecvPing
  BY <1>9 DEF RecvFatalFrame, RecvBadConnectionFrame, RecvPing
<1>10. CASE \E promised \in PushIds : RecvPushPromise(promised)
  BY <1>10 DEF RecvPushPromise
<1>11. CASE \E last \in {0, KMax} \cup RequestIds : RecvGoaway(last)
  BY <1>11 DEF RecvGoaway
<1>12. CASE EndBatch
  BY <1>12 DEF EndBatch, DrainAtBatchEnd, DrainRetired
<1>13. CASE ReaderEnds \/ ReadError
  BY <1>13 DEF ReaderEnds, LeaveReader, DrainRetired, ReadError
<1>14. CASE \E id \in Ids, end \in BOOLEAN : SendHeaders(id, end)
  BY <1>14 DEF SendHeaders, UserCall, RetireIfClosed
<1>15. CASE \E id \in Ids : SendLastData(id) \/ SendRstStream(id)
  BY <1>15 DEF SendLastData, UserCall, RetireIfClosed, SendRstStream
<1>16. CASE \E id \in Ids : HandlerReturns(id) \/ TakeEvents(id)
  BY <1>16 DEF HandlerReturns, TakeEvents
<1>17. CASE \E end \in BOOLEAN : OpenRequest(end)
  BY <1>17 DEF OpenRequest
<1>18. CASE
            ShutdownAnnounces \/ ShutdownRefuses \/ MonitorTimeout \/
            UNCHANGED vars
  BY <1>18 DEF ShutdownAnnounces, ShutdownRefuses, MonitorTimeout
<1>19. CASE ShutdownResets
  BY <1>19 DEF ShutdownResets
<1>20. CASE ShutdownCloses
  BY <1>20 DEF ShutdownCloses
<1> QED
  BY <1>1, <1>2, <1>3, <1>4, <1>5, <1>6, <1>7, <1>8, <1>9, <1>10, <1>11,
    <1>12, <1>13, <1>14, <1>15, <1>16, <1>17, <1>18, <1>19, <1>20 DEF Next,
    Reader, RecvStreamFrame, RecvConnectionFrame, User, Control,
    ContentLengths

(* Accepted ids stay covered by the latest GOAWAY.                         *)
LEMMA AcceptedStep ==
  ASSUME TypeOK, AcceptedInv, [Next]_vars
  PROVE  AcceptedInv'
<1> USE DEF vars, tableVars, connVars, deferVars, userVars, ctlVars,
  readVars, StreamFrame, NextFrame, GoawaySent, TypeOK, TableTypeOK,
  ConnTypeOK, FlagTypeOK, Active, IsClient, AcceptedInv, Refused, OutOfOrder,
  OverLimit
<1>1. CASE \E id \in Ids : RecvHeadersRefused(id)
  BY <1>1, IdsAssumption DEF RecvHeadersRefused
<1>2. CASE \E id \in Ids : RecvHeadersOutOfOrder(id)
  BY <1>2, IdsAssumption DEF RecvHeadersOutOfOrder
<1>3. CASE \E id \in Ids, end, endHeaders, contentLength \in BOOLEAN :
            RecvHeadersNew(id, end, endHeaders, contentLength)
  BY <1>3, IdsAssumption DEF RecvHeadersNew
<1>4. CASE \E id \in Ids, end, endHeaders, contentLength \in BOOLEAN :
            RecvHeadersKnown(id, end, endHeaders, contentLength)
  BY <1>4, IdsAssumption DEF RecvHeadersKnown
<1>5. CASE \E id \in Ids : RecvOnFinishedStream(id)
  BY <1>5, IdsAssumption DEF RecvOnFinishedStream, RememberHot
<1>6. CASE \E id \in Ids, endHeaders, contentLength \in BOOLEAN :
            RecvContinuation(id, endHeaders, contentLength)
  BY <1>6, IdsAssumption DEF RecvContinuation, RememberHot
<1>7. CASE \E id \in Ids : RecvContinuationUnknown(id)
  BY <1>7, IdsAssumption DEF RecvContinuationUnknown
<1>8. CASE \E id \in Ids : RecvDataUnknown(id)
  BY <1>8, IdsAssumption DEF RecvDataUnknown
<1>9. CASE \E id \in Ids, end \in BOOLEAN : RecvData(id, end)
  BY <1>9, IdsAssumption DEF RecvData, RememberHot, RetireIfClosed, MarkReady
<1>10. CASE \E id \in Ids : RecvRstStream(id)
  BY <1>10, IdsAssumption DEF RecvRstStream, RememberHot, RetireIfClosed,
    MarkReady
<1>11. CASE \E id \in Ids, increment \in {0, 1} :
            RecvWindowUpdate(id, increment)
  BY <1>11, IdsAssumption DEF RecvWindowUpdate, RememberHot, MarkReady
<1>12. CASE RecvFatalFrame
  BY <1>12, IdsAssumption DEF RecvFatalFrame
<1>13. CASE \E promised \in PushIds : RecvPushPromise(promised)
  BY <1>13, IdsAssumption DEF RecvPushPromise
<1>14. CASE RecvBadConnectionFrame
  BY <1>14, IdsAssumption DEF RecvBadConnectionFrame
<1>15. CASE \E last \in {0, KMax} \cup RequestIds : RecvGoaway(last)
  BY <1>15, IdsAssumption DEF RecvGoaway
<1>16. CASE RecvPing
  BY <1>16, IdsAssumption DEF RecvPing
<1>17. CASE EndBatch
  BY <1>17, IdsAssumption DEF EndBatch, DrainAtBatchEnd, DrainRetired
<1>18. CASE ReaderEnds
  BY <1>18, IdsAssumption DEF ReaderEnds, LeaveReader, DrainRetired
<1>19. CASE ReadError
  BY <1>19, IdsAssumption DEF ReadError, LeaveReader, DrainRetired
<1>20. CASE \E id \in Ids, end \in BOOLEAN : SendHeaders(id, end)
  BY <1>20, IdsAssumption DEF SendHeaders, UserCall, RetireIfClosed
<1>21. CASE \E id \in Ids : SendLastData(id)
  BY <1>21, IdsAssumption DEF SendLastData, UserCall, RetireIfClosed
<1>22. CASE \E id \in Ids : SendRstStream(id)
  BY <1>22, IdsAssumption DEF SendRstStream, UserCall, RetireIfClosed
<1>23. CASE \E id \in Ids : HandlerReturns(id)
  BY <1>23, IdsAssumption DEF HandlerReturns
<1>24. CASE \E id \in Ids : TakeEvents(id)
  BY <1>24, IdsAssumption DEF TakeEvents
<1>25. CASE \E end \in BOOLEAN : OpenRequest(end)
  BY <1>25, IdsAssumption DEF OpenRequest
<1>26. CASE ShutdownAnnounces
  BY <1>26, IdsAssumption DEF ShutdownAnnounces
<1>27. CASE ShutdownRefuses
  BY <1>27, IdsAssumption DEF ShutdownRefuses
<1>28. CASE ShutdownResets
  BY <1>28, IdsAssumption DEF ShutdownResets
<1>29. CASE ShutdownCloses
  BY <1>29, IdsAssumption DEF ShutdownCloses
<1>30. CASE MonitorTimeout
  BY <1>30, IdsAssumption DEF MonitorTimeout
<1>31. CASE UNCHANGED vars
  BY <1>31
<1> QED
  BY <1>1, <1>2, <1>3, <1>4, <1>5, <1>6, <1>7, <1>8, <1>9, <1>10, <1>11,
    <1>12, <1>13, <1>14, <1>15, <1>16, <1>17, <1>18, <1>19, <1>20, <1>21,
    <1>22, <1>23, <1>24, <1>25, <1>26, <1>27, <1>28, <1>29, <1>30, <1>31 DEF
    Next, Reader, RecvStreamFrame, RecvConnectionFrame, User, Control,
    ContentLengths

(* Only created streams are in the table.                                  *)
LEMMA CreatedStep ==
  ASSUME TypeOK, HotInv, CreatedInv, [Next]_vars
  PROVE  CreatedInv'
<1> USE DEF vars, tableVars, connVars, deferVars, userVars, ctlVars,
  readVars, StreamFrame, NextFrame, GoawaySent, TypeOK, TableTypeOK,
  CreatedInv
<1>1. CASE \E id \in Ids :
            RecvHeadersRefused(id) \/ RecvHeadersOutOfOrder(id) \/
            RecvContinuationUnknown(id) \/ RecvDataUnknown(id)
  BY <1>1 DEF RecvHeadersRefused, RecvHeadersOutOfOrder,
    RecvContinuationUnknown, RecvDataUnknown
<1>2. CASE \E id \in Ids, end, endHeaders, contentLength \in BOOLEAN :
            RecvHeadersNew(id, end, endHeaders, contentLength)
  BY <1>2 DEF RecvHeadersNew, AcceptHeaders
<1>3. CASE \E id \in Ids, end, endHeaders, contentLength \in BOOLEAN :
            RecvHeadersKnown(id, end, endHeaders, contentLength)
  BY <1>3 DEF RecvHeadersKnown, AcceptHeaders
<1>4. CASE \E id \in Ids : RecvOnFinishedStream(id)
  BY <1>4 DEF RecvOnFinishedStream, RememberHot
<1>5. CASE \E id \in Ids, endHeaders, contentLength \in BOOLEAN :
            RecvContinuation(id, endHeaders, contentLength)
  BY <1>5 DEF RecvContinuation, RememberHot
<1>6. CASE \E id \in Ids, end \in BOOLEAN : RecvData(id, end)
  BY <1>6 DEF RecvData, RememberHot, RetireIfClosed, MarkReady
<1>7. CASE \E id \in Ids : RecvRstStream(id)
  BY <1>7 DEF RecvRstStream, RememberHot, RetireIfClosed, MarkReady
<1>8. CASE \E id \in Ids, increment \in {0, 1} :
            RecvWindowUpdate(id, increment)
  BY <1>8 DEF RecvWindowUpdate, RememberHot, MarkReady
<1>9. CASE RecvFatalFrame \/ RecvBadConnectionFrame \/ RecvPing
  BY <1>9 DEF RecvFatalFrame, RecvBadConnectionFrame, RecvPing
<1>10. CASE \E promised \in PushIds : RecvPushPromise(promised)
  BY <1>10 DEF RecvPushPromise
<1>11. CASE \E last \in {0, KMax} \cup RequestIds : RecvGoaway(last)
  BY <1>11 DEF RecvGoaway
<1>12. CASE EndBatch
  BY <1>12 DEF EndBatch, DrainAtBatchEnd, DrainRetired
<1>13. CASE ReaderEnds \/ ReadError
  BY <1>13 DEF ReaderEnds, LeaveReader, DrainRetired, ReadError
<1>14. CASE \E id \in Ids, end \in BOOLEAN : SendHeaders(id, end)
  BY <1>14 DEF SendHeaders, UserCall, RetireIfClosed
<1>15. CASE \E id \in Ids : SendLastData(id) \/ SendRstStream(id)
  BY <1>15 DEF SendLastData, UserCall, RetireIfClosed, SendRstStream
<1>16. CASE \E id \in Ids : HandlerReturns(id) \/ TakeEvents(id)
  BY <1>16 DEF HandlerReturns, TakeEvents
<1>17. CASE \E end \in BOOLEAN : OpenRequest(end)
  BY <1>17 DEF OpenRequest
<1>18. CASE
            ShutdownAnnounces \/ ShutdownRefuses \/ MonitorTimeout \/
            UNCHANGED vars
  BY <1>18 DEF ShutdownAnnounces, ShutdownRefuses, MonitorTimeout
<1>19. CASE ShutdownResets
  BY <1>19 DEF ShutdownResets
<1>20. CASE ShutdownCloses
  BY <1>20 DEF ShutdownCloses
<1> QED
  BY <1>1, <1>2, <1>3, <1>4, <1>5, <1>6, <1>7, <1>8, <1>9, <1>10, <1>11,
    <1>12, <1>13, <1>14, <1>15, <1>16, <1>17, <1>18, <1>19, <1>20 DEF Next,
    Reader, RecvStreamFrame, RecvConnectionFrame, User, Control,
    ContentLengths

(* The hot stream is never one that has left the table.                    *)
LEMMA HotStep ==
  ASSUME TypeOK, HotInv, [Next]_vars
  PROVE  HotInv'
<1> USE DEF vars, tableVars, connVars, deferVars, userVars, ctlVars,
  readVars, StreamFrame, NextFrame, GoawaySent, TypeOK, TableTypeOK, Active,
  IsClient, HotInv, ClientRetires, Found
<1>1. CASE \E id \in Ids :
            RecvHeadersRefused(id) \/ RecvHeadersOutOfOrder(id) \/
            RecvContinuationUnknown(id) \/ RecvDataUnknown(id)
  BY <1>1 DEF RecvHeadersRefused, RecvHeadersOutOfOrder,
    RecvContinuationUnknown, RecvDataUnknown
<1>2. CASE \E id \in Ids, end, endHeaders, contentLength \in BOOLEAN :
            RecvHeadersNew(id, end, endHeaders, contentLength)
  BY <1>2 DEF RecvHeadersNew, AcceptHeaders, RememberHot
<1>3. CASE \E id \in Ids, end, endHeaders, contentLength \in BOOLEAN :
            RecvHeadersKnown(id, end, endHeaders, contentLength)
  BY <1>3 DEF RecvHeadersKnown, AcceptHeaders, RememberHot
<1>4. CASE \E id \in Ids : RecvOnFinishedStream(id)
  BY <1>4 DEF RecvOnFinishedStream, RememberHot
<1>5. CASE \E id \in Ids, endHeaders, contentLength \in BOOLEAN :
            RecvContinuation(id, endHeaders, contentLength)
  BY <1>5 DEF RecvContinuation, RememberHot
<1>6. CASE \E id \in Ids, end \in BOOLEAN : RecvData(id, end)
  BY <1>6 DEF RecvData, RememberHot, RetireIfClosed, MarkReady
<1>7. CASE \E id \in Ids : RecvRstStream(id)
  BY <1>7 DEF RecvRstStream, RememberHot, RetireIfClosed, MarkReady
<1>8. CASE \E id \in Ids, increment \in {0, 1} :
            RecvWindowUpdate(id, increment)
  BY <1>8 DEF RecvWindowUpdate, RememberHot, MarkReady
<1>9. CASE RecvFatalFrame \/ RecvBadConnectionFrame \/ RecvPing
  BY <1>9 DEF RecvFatalFrame, RecvBadConnectionFrame, RecvPing
<1>10. CASE \E promised \in PushIds : RecvPushPromise(promised)
  BY <1>10 DEF RecvPushPromise
<1>11. CASE \E last \in {0, KMax} \cup RequestIds : RecvGoaway(last)
  BY <1>11 DEF RecvGoaway
<1>12. CASE EndBatch
  BY <1>12 DEF EndBatch, DrainAtBatchEnd, DrainRetired
<1>13. CASE ReaderEnds \/ ReadError
  BY <1>13 DEF ReaderEnds, LeaveReader, DrainRetired, ReadError
<1>14. CASE \E id \in Ids, end \in BOOLEAN : SendHeaders(id, end)
  BY <1>14 DEF SendHeaders, UserCall, RetireIfClosed
<1>15. CASE \E id \in Ids : SendLastData(id) \/ SendRstStream(id)
  BY <1>15 DEF SendLastData, UserCall, RetireIfClosed, SendRstStream
<1>16. CASE \E id \in Ids : HandlerReturns(id) \/ TakeEvents(id)
  BY <1>16 DEF HandlerReturns, TakeEvents
<1>17. CASE \E end \in BOOLEAN : OpenRequest(end)
  BY <1>17 DEF OpenRequest
<1>18. CASE
            ShutdownAnnounces \/ ShutdownRefuses \/ MonitorTimeout \/
            UNCHANGED vars
  BY <1>18 DEF ShutdownAnnounces, ShutdownRefuses, MonitorTimeout
<1>19. CASE ShutdownResets
  BY <1>19 DEF ShutdownResets
<1>20. CASE ShutdownCloses
  BY <1>20 DEF ShutdownCloses
<1> QED
  BY <1>1, <1>2, <1>3, <1>4, <1>5, <1>6, <1>7, <1>8, <1>9, <1>10, <1>11,
    <1>12, <1>13, <1>14, <1>15, <1>16, <1>17, <1>18, <1>19, <1>20 DEF Next,
    Reader, RecvStreamFrame, RecvConnectionFrame, User, Control,
    ContentLengths

(* A closed stream stays noticed until it is dropped.                      *)
LEMMA ClosedStep ==
  ASSUME TypeOK, HotInv, NEW i \in Ids, ClosedInv(i), [Next]_vars
  PROVE  ClosedInv(i)'
<1> USE DEF vars, tableVars, connVars, deferVars, userVars, ctlVars,
  readVars, StreamFrame, NextFrame, GoawaySent, TypeOK, TableTypeOK, Active,
  IsClient, ClosedInv, HotInv, Found
<1>1. CASE \E id \in Ids :
            RecvHeadersRefused(id) \/ RecvHeadersOutOfOrder(id) \/
            RecvContinuationUnknown(id) \/ RecvDataUnknown(id)
  BY <1>1 DEF RecvHeadersRefused, RecvHeadersOutOfOrder,
    RecvContinuationUnknown, RecvDataUnknown
<1>2. ASSUME NEW id \in Ids, NEW end \in BOOLEAN, NEW endHeaders \in BOOLEAN,
             NEW contentLength \in BOOLEAN,
             RecvHeadersNew(id, end, endHeaders, contentLength)
      PROVE  ClosedInv(i)'
  <2> DEFINE t == HeadersAccepted(FreshStream, end, endHeaders, contentLength)
  <2>1. /\ strm' = [strm EXCEPT ![id] = t]
        /\ retire' = IF Active /\ t.state = "Closed" THEN retire \cup {id} ELSE retire
        /\ table' \subseteq table \cup {id} /\ UNCHANGED mode
    BY <1>2 DEF RecvHeadersNew, AcceptHeaders, RetireIfClosed, StreamFrame,
      NextFrame, ctlVars, t
  <2> HIDE DEF t
  <2> QED
    BY <2>1
<1>3. ASSUME NEW id \in Ids, NEW end \in BOOLEAN, NEW endHeaders \in BOOLEAN,
             NEW contentLength \in BOOLEAN,
             RecvHeadersKnown(id, end, endHeaders, contentLength)
      PROVE  ClosedInv(i)'
  <2> DEFINE t == HeadersAccepted(strm[id], end, endHeaders, contentLength)
  <2>1. /\ strm' = [strm EXCEPT ![id] = t]
        /\ retire' = IF Active /\ t.state = "Closed" THEN retire \cup {id} ELSE retire
        /\ table' \subseteq table /\ UNCHANGED mode
    BY <1>3 DEF RecvHeadersKnown, AcceptHeaders, RetireIfClosed, StreamFrame,
      NextFrame, ctlVars, t
  <2> HIDE DEF t
  <2> QED
    BY <2>1
<1>4. CASE \E id \in Ids : RecvOnFinishedStream(id)
  BY <1>4 DEF RecvOnFinishedStream, RememberHot
<1>5. ASSUME NEW id \in Ids, NEW endHeaders \in BOOLEAN,
             NEW contentLength \in BOOLEAN,
             RecvContinuation(id, endHeaders, contentLength)
      PROVE  ClosedInv(i)'
  <2> DEFINE t == CompletedHeaders(strm[id], EndsWithHeaders(strm[id]), contentLength)
  <2>1. t.state = strm[id].state
    BY CompletedHeadersFields DEF EndsWithHeaders, StreamRecords
  <2> HIDE DEF t
  <2>2. /\ UNCHANGED <<mode, table, retire>>
        /\ strm' = strm \/ strm' = [strm EXCEPT ![id] = t]
    BY <1>5 DEF RecvContinuation, NextFrame, ctlVars, t
  <2> QED
    BY <2>1, <2>2
<1>6. CASE \E id \in Ids, end \in BOOLEAN : RecvData(id, end)
  BY <1>6 DEF RecvData, RememberHot, RetireIfClosed, MarkReady
<1>7. CASE \E id \in Ids : RecvRstStream(id)
  BY <1>7 DEF RecvRstStream, RememberHot, RetireIfClosed, MarkReady
<1>8. CASE \E id \in Ids, increment \in {0, 1} :
            RecvWindowUpdate(id, increment)
  BY <1>8, MarkedFields DEF RecvWindowUpdate, RememberHot, MarkReady, Events
<1>9. CASE RecvFatalFrame \/ RecvBadConnectionFrame \/ RecvPing
  BY <1>9 DEF RecvFatalFrame, RecvBadConnectionFrame, RecvPing
<1>10. CASE \E promised \in PushIds : RecvPushPromise(promised)
  BY <1>10 DEF RecvPushPromise
<1>11. CASE \E last \in {0, KMax} \cup RequestIds : RecvGoaway(last)
  BY <1>11, QueueClosedFields DEF RecvGoaway
<1>12. CASE EndBatch
  <2>1. strm' = AfterPendingRst /\ DrainAtBatchEnd /\ UNCHANGED mode
    BY <1>12 DEF EndBatch, ctlVars
  <2>2. CASE ~Active
    BY <2>1, <2>2
  <2>3. CASE Active
    <3>1. table' = table \ (retire \cup ClosedByActions)
      BY <2>1, <2>3 DEF DrainAtBatchEnd, DrainRetired
    <3>2. i \in table' => i \notin retire /\ strm'[i] = strm[i]
      BY <2>1, <2>3, <3>1 DEF AfterPendingRst, ClosedByActions
    <3> QED
      BY <2>3, <3>1, <3>2
  <2> QED
    BY <2>2, <2>3
<1>13. CASE ReaderEnds
  BY <1>13, QueueClosedFields DEF ReaderEnds, LeaveReader, DrainRetired
<1>14. CASE ReadError
  BY <1>14, QueueClosedFields DEF ReadError, LeaveReader, DrainRetired
<1>15. CASE \E id \in Ids, end \in BOOLEAN : SendHeaders(id, end)
  BY <1>15 DEF SendHeaders, UserCall, RetireIfClosed
<1>16. CASE \E id \in Ids : SendLastData(id) \/ SendRstStream(id)
  BY <1>16 DEF SendLastData, UserCall, RetireIfClosed, SendRstStream
<1>17. CASE \E id \in Ids : HandlerReturns(id)
  BY <1>17 DEF HandlerReturns
<1>18. CASE \E id \in Ids : TakeEvents(id)
  BY <1>18 DEF TakeEvents
<1>19. CASE \E end \in BOOLEAN : OpenRequest(end)
  BY <1>19 DEF OpenRequest
<1>20. CASE
            ShutdownAnnounces \/ ShutdownRefuses \/ MonitorTimeout \/
            UNCHANGED vars
  BY <1>20 DEF ShutdownAnnounces, ShutdownRefuses, MonitorTimeout
<1>21. CASE ShutdownResets
  BY <1>21 DEF ShutdownResets
<1>22. CASE ShutdownCloses
  BY <1>22, QueueClosedFields DEF ShutdownCloses
<1> QED
  BY <1>1, <1>2, <1>3, <1>4, <1>5, <1>6, <1>7, <1>8, <1>9, <1>10, <1>11,
    <1>12, <1>13, <1>14, <1>15, <1>16, <1>17, <1>18, <1>19, <1>20, <1>21,
    <1>22 DEF Next, Reader, RecvStreamFrame, RecvConnectionFrame, User,
    Control, ContentLengths

(* A stream whose message has ended stays completed.                       *)
LEMMA EndedStep ==
  ASSUME TypeOK, NEW i \in Ids, EndedInv(i), [Next]_vars
  PROVE  EndedInv(i)'
<1> USE DEF vars, tableVars, connVars, deferVars, userVars, ctlVars,
  readVars, StreamFrame, NextFrame, GoawaySent, TypeOK, TableTypeOK,
  EndedInv, Done, IsClient
<1>1. CASE \E id \in Ids :
            RecvHeadersRefused(id) \/ RecvHeadersOutOfOrder(id) \/
            RecvContinuationUnknown(id) \/ RecvDataUnknown(id)
  BY <1>1 DEF RecvHeadersRefused, RecvHeadersOutOfOrder,
    RecvContinuationUnknown, RecvDataUnknown
<1>2. ASSUME NEW id \in Ids, NEW end \in BOOLEAN, NEW endHeaders \in BOOLEAN,
             NEW contentLength \in BOOLEAN,
             RecvHeadersNew(id, end, endHeaders, contentLength)
      PROVE  EndedInv(i)'
  <2> DEFINE t == HeadersAccepted(FreshStream, end, endHeaders, contentLength)
  <2>1. /\ t \in StreamRecords
        /\ t.endRecv /\ endHeaders => Done(t)
    BY FreshStreamType, HeadersAcceptedFields DEF FreshStream
  <2> HIDE DEF t
  <2>2. /\ strm' = [strm EXCEPT ![id] = t] /\ UNCHANGED mode
        /\ expect' = IF endHeaders THEN expect ELSE id
        /\ expect = 0
    BY <1>2 DEF RecvHeadersNew, AcceptHeaders, StreamFrame, NextFrame,
      ctlVars, t
  <2> QED
    BY <2>1, <2>2, IdsAssumption DEF Ids
<1>3. ASSUME NEW id \in Ids, NEW end \in BOOLEAN, NEW endHeaders \in BOOLEAN,
             NEW contentLength \in BOOLEAN,
             RecvHeadersKnown(id, end, endHeaders, contentLength)
      PROVE  EndedInv(i)'
  <2> DEFINE t == HeadersAccepted(strm[id], end, endHeaders, contentLength)
  <2>1. /\ t \in StreamRecords
        /\ t.endRecv = (strm[id].endRecv \/ end)
        /\ Done(strm[id]) => Done(t)
        /\ endHeaders /\ end => Done(t)
    BY HeadersAcceptedFields
  <2> HIDE DEF t
  <2>2. /\ strm' = [strm EXCEPT ![id] = t] /\ UNCHANGED mode
        /\ expect' = IF endHeaders THEN expect ELSE id
        /\ expect = 0
    BY <1>3 DEF RecvHeadersKnown, AcceptHeaders, StreamFrame, NextFrame,
      ctlVars, t
  <2> QED
    BY <2>1, <2>2, IdsAssumption DEF Ids
<1>4. CASE \E id \in Ids : RecvOnFinishedStream(id)
  BY <1>4 DEF RecvOnFinishedStream, RememberHot
<1>5. ASSUME NEW id \in Ids, NEW endHeaders \in BOOLEAN,
             NEW contentLength \in BOOLEAN,
             RecvContinuation(id, endHeaders, contentLength)
      PROVE  EndedInv(i)'
  <2> DEFINE t == CompletedHeaders(strm[id], EndsWithHeaders(strm[id]), contentLength)
  <2>1. /\ t \in StreamRecords /\ t.endRecv = strm[id].endRecv
        /\ t.endRecv => Done(t)
    BY CompletedHeadersFields DEF EndsWithHeaders, StreamRecords
  <2> HIDE DEF t
  <2>2. /\ UNCHANGED mode /\ expect \in {0, id}
        /\ IF endHeaders THEN strm' = [strm EXCEPT ![id] = t] /\ expect' = 0
                         ELSE UNCHANGED <<strm, expect>>
    BY <1>5 DEF RecvContinuation, NextFrame, ctlVars, t
  <2> QED
    BY <2>1, <2>2
<1>6. CASE \E id \in Ids, end \in BOOLEAN : RecvData(id, end)
  BY <1>6, DataAppendedFields DEF RecvData, RememberHot, RetireIfClosed,
    MarkReady
<1>7. CASE \E id \in Ids : RecvRstStream(id)
  BY <1>7, PeerResetFields DEF RecvRstStream, RememberHot, RetireIfClosed,
    MarkReady
<1>8. ASSUME NEW id \in Ids, NEW increment \in {0, 1},
             RecvWindowUpdate(id, increment)
      PROVE  EndedInv(i)'
  <2> DEFINE t == Marked(strm[id], {"Window"})
  <2>1. /\ t \in StreamRecords /\ t.endRecv = strm[id].endRecv
        /\ t.reqDone = strm[id].reqDone /\ t.respDone = strm[id].respDone
    BY MarkedFields DEF Events
  <2> HIDE DEF t
  <2>2. /\ UNCHANGED <<mode, expect>>
        /\ strm' = strm \/ strm' = [strm EXCEPT ![id] = t]
    BY <1>8 DEF RecvWindowUpdate, StreamFrame, NextFrame, connVars, ctlVars, t
  <2> QED
    BY <2>1, <2>2
<1>9. CASE RecvFatalFrame \/ RecvBadConnectionFrame \/ RecvPing
  BY <1>9 DEF RecvFatalFrame, RecvBadConnectionFrame, RecvPing
<1>10. ASSUME NEW promised \in PushIds, RecvPushPromise(promised)
       PROVE  EndedInv(i)'
  <2> DEFINE t == [FreshStream EXCEPT !.state = "ReservedRemote"]
  <2>1. ~t.endRecv
    BY DEF FreshStream
  <2> HIDE DEF t
  <2>2. /\ UNCHANGED <<mode, expect>>
        /\ strm' = strm \/ strm' = [strm EXCEPT ![promised] = t]
    BY <1>10 DEF RecvPushPromise, StreamFrame, NextFrame, tableVars,
      connVars, ctlVars, t
  <2> QED
    BY <2>1, <2>2
<1>11. CASE \E last \in {0, KMax} \cup RequestIds : RecvGoaway(last)
  BY <1>11, QueueClosedFields DEF RecvGoaway
<1>12. CASE EndBatch
  <2>1. UNCHANGED <<mode, expect>> /\ strm' = AfterPendingRst
    BY <1>12 DEF EndBatch, ctlVars
  <2>2. /\ strm'[i].endRecv = strm[i].endRecv
        /\ strm'[i].reqDone = strm[i].reqDone /\ strm'[i].respDone = strm[i].respDone
    BY <2>1, SendFields DEF AfterPendingRst, SameMessage
  <2> QED
    BY <2>1, <2>2
<1>13. CASE ReaderEnds
  BY <1>13, QueueClosedFields DEF ReaderEnds, LeaveReader, DrainRetired
<1>14. CASE ReadError
  BY <1>14, QueueClosedFields DEF ReadError, LeaveReader, DrainRetired
<1>15. ASSUME NEW id \in Ids, NEW end \in BOOLEAN, SendHeaders(id, end)
       PROVE  EndedInv(i)'
  <2> DEFINE t == OnHeadersSent(strm[id], end)
  <2>1. t \in StreamRecords /\ t.endRecv = strm[id].endRecv /\ t.reqDone = strm[id].reqDone /\ t.respDone = strm[id].respDone
    BY TransitionTypes, SendFields DEF SameMessage
  <2> HIDE DEF t
  <2> QED
    BY <1>15, <2>1 DEF SendHeaders, UserCall, RetireIfClosed, connVars,
      deferVars,
      userVars, ctlVars, t
<1>16. ASSUME NEW id \in Ids, SendLastData(id) PROVE EndedInv(i)'
  <2> DEFINE t == OnDataSent(strm[id], TRUE)
  <2>1. t \in StreamRecords /\ t.endRecv = strm[id].endRecv /\ t.reqDone = strm[id].reqDone /\ t.respDone = strm[id].respDone
    BY TransitionTypes, SendFields DEF SameMessage
  <2> HIDE DEF t
  <2> QED
    BY <1>16, <2>1 DEF SendLastData, UserCall, RetireIfClosed, connVars,
      deferVars,
      userVars, ctlVars, t
<1>17. ASSUME NEW id \in Ids, SendRstStream(id) PROVE EndedInv(i)'
  <2> DEFINE t == OnRstStream(strm[id])
  <2>1. t \in StreamRecords /\ t.endRecv = strm[id].endRecv /\ t.reqDone = strm[id].reqDone /\ t.respDone = strm[id].respDone
    BY TransitionTypes, SendFields DEF SameMessage
  <2> HIDE DEF t
  <2> QED
    BY <1>17, <2>1 DEF SendRstStream, UserCall, RetireIfClosed, connVars,
      deferVars,
      userVars, ctlVars, t
<1>18. CASE \E id \in Ids : HandlerReturns(id)
  BY <1>18 DEF HandlerReturns
<1>19. CASE \E id \in Ids : TakeEvents(id)
  BY <1>19 DEF TakeEvents
<1>20. ASSUME NEW end \in BOOLEAN, OpenRequest(end) PROVE EndedInv(i)'
  <2> DEFINE t == OnHeadersSent(FreshStream, end)
  <2>1. ~t.endRecv
    BY FreshStreamType, SendFields DEF FreshStream
  <2> HIDE DEF t
  <2>2. UNCHANGED <<mode, expect>> /\ strm' = [strm EXCEPT ![nextLocal] = t]
    BY <1>20 DEF OpenRequest, readVars, ctlVars, t
  <2> QED
    BY <2>1, <2>2
<1>21. CASE
            ShutdownAnnounces \/ ShutdownRefuses \/ MonitorTimeout \/
            UNCHANGED vars
  BY <1>21 DEF ShutdownAnnounces, ShutdownRefuses, MonitorTimeout
<1>22. CASE ShutdownResets
  <2> DEFINE t == OnRstStream(strm[i])
  <2>1. /\ t.endRecv = strm[i].endRecv
        /\ t.reqDone = strm[i].reqDone /\ t.respDone = strm[i].respDone
    BY SendFields DEF SameMessage
  <2> HIDE DEF t
  <2>2. /\ UNCHANGED <<mode, expect>>
        /\ strm'[i] = strm[i] \/ strm'[i] = t
    BY <1>22 DEF ShutdownResets, connVars, t
  <2> QED
    BY <2>1, <2>2
<1>23. CASE ShutdownCloses
  BY <1>23, QueueClosedFields DEF ShutdownCloses
<1> QED
  BY <1>1, <1>2, <1>3, <1>4, <1>5, <1>6, <1>7, <1>8, <1>9, <1>10, <1>11,
    <1>12, <1>13, <1>14, <1>15, <1>16, <1>17, <1>18, <1>19, <1>20, <1>21,
    <1>22, <1>23 DEF Next, Reader, RecvStreamFrame, RecvConnectionFrame,
    User, Control, ContentLengths

(* A stream is queued exactly when something will deliver it.              *)
LEMMA EventsStep ==
  ASSUME TypeOK, AcceptedInv, HotInv, CreatedInv, NEW i \in Ids, \A j \in Ids : EventsInv(j), [Next]_vars
  PROVE  EventsInv(i)'
<1> USE DEF vars, tableVars, connVars, deferVars, userVars, ctlVars,
  readVars, StreamFrame, NextFrame, GoawaySent, TypeOK, TableTypeOK,
  DeferredTypeOK, Active, IsClient, EventsInv
<1>1. CASE \E id \in Ids :
            RecvHeadersRefused(id) \/ RecvHeadersOutOfOrder(id) \/
            RecvContinuationUnknown(id) \/ RecvDataUnknown(id)
  BY <1>1 DEF RecvHeadersRefused, RecvHeadersOutOfOrder,
    RecvContinuationUnknown, RecvDataUnknown
<1>2. ASSUME NEW id \in Ids, NEW end \in BOOLEAN, NEW endHeaders \in BOOLEAN,
             NEW contentLength \in BOOLEAN,
             RecvHeadersNew(id, end, endHeaders, contentLength)
      PROVE  EventsInv(i)'
  <2> DEFINE t == HeadersAccepted(FreshStream, end, endHeaders, contentLength)
           defers == ~endHeaders \/ DefersHeaders(end, contentLength)
  <2>1. t \in StreamRecords
    BY FreshStreamType, HeadersAcceptedFields
  <2>1a. ~defers => (Active => t.queued)
    BY FreshStreamType, HeadersAcceptedFields
  <2>1b. defers => t.queued = FreshStream.queued
    BY FreshStreamType, HeadersAcceptedFields
  <2>1c. defers => t.events \subseteq FreshStream.events \cup {"Headers"}
    BY FreshStreamType, HeadersAcceptedEvents
  <2>2. /\ strm' = [strm EXCEPT ![id] = t] /\ UNCHANGED <<mode, mailbox>>
        /\ IF defers THEN ready' = ready ELSE MarkReady(id)
    BY <1>2 DEF RecvHeadersNew, AcceptHeaders, CompleteReceivedHeaders,
      StreamFrame, NextFrame, userVars, ctlVars
  <2> HIDE DEF t, defers
  <2>3. created' = created \cup {id} /\ (Active => id \notin created)
    BY <1>2 DEF RecvHeadersNew, OutOfOrder, AcceptedInv, ConnTypeOK
  <2>4. CASE i = id
    <3>1. EventsInv(id)
      OBVIOUS
    <3>2. Active => ~strm[id].queued /\ id \notin ready /\ id \notin mailbox
      BY <2>3, <3>1
    <3>3. defers => ~t.queued /\ t.events \subseteq {"Headers"}
      BY <2>1b, <2>1c DEF FreshStream
    <3> QED
      BY <2>1, <2>1a, <2>2, <2>3, <2>4, <3>2, <3>3 DEF MarkReady
  <2>5. CASE i # id
    BY <2>1, <2>2, <2>3, <2>5 DEF MarkReady
  <2> QED
    BY <2>4, <2>5
<1>3. ASSUME NEW id \in Ids, NEW end \in BOOLEAN, NEW endHeaders \in BOOLEAN,
             NEW contentLength \in BOOLEAN,
             RecvHeadersKnown(id, end, endHeaders, contentLength)
      PROVE  EventsInv(i)'
  <2> DEFINE t == HeadersAccepted(strm[id], end, endHeaders, contentLength)
           defers == ~endHeaders \/ DefersHeaders(end, contentLength)
  <2>1. t \in StreamRecords
    BY HeadersAcceptedFields
  <2>1a. ~defers => (Active => t.queued)
    BY HeadersAcceptedFields
  <2>1b. defers => t.queued = strm[id].queued
    BY HeadersAcceptedFields
  <2>1c. defers => t.events \subseteq strm[id].events \cup {"Headers"}
    BY HeadersAcceptedEvents
  <2>2. /\ strm' = [strm EXCEPT ![id] = t] /\ UNCHANGED <<mode, mailbox>>
        /\ IF defers THEN ready' = ready ELSE MarkReady(id)
    BY <1>3 DEF RecvHeadersKnown, AcceptHeaders, CompleteReceivedHeaders,
      StreamFrame, NextFrame, userVars, ctlVars
  <2> HIDE DEF t, defers
  <2>3. created' = created /\ (Active => id \in created)
    BY <1>3, IdsAssumption DEF RecvHeadersKnown, Found, HotInv, CreatedInv
  <2>4. CASE i = id
    <3>1. EventsInv(id)
      OBVIOUS
    <3> QED
      BY <2>1, <2>1a, <2>1b, <2>1c, <2>2, <2>3, <2>4, <3>1 DEF MarkReady
  <2>5. CASE i # id
    BY <2>1, <2>2, <2>3, <2>5 DEF MarkReady
  <2> QED
    BY <2>4, <2>5
<1>4. CASE \E id \in Ids : RecvOnFinishedStream(id)
  BY <1>4 DEF RecvOnFinishedStream, RememberHot
<1>5. ASSUME NEW id \in Ids, NEW endHeaders \in BOOLEAN,
             NEW contentLength \in BOOLEAN,
             RecvContinuation(id, endHeaders, contentLength)
      PROVE  EventsInv(i)'
  <2> DEFINE ends == EndsWithHeaders(strm[id])
           t == CompletedHeaders(strm[id], ends, contentLength)
           defers == DefersHeaders(ends, contentLength)
  <2>1. /\ t \in StreamRecords
        /\ ~defers => (Active => t.queued)
        /\ defers => /\ t.queued = strm[id].queued
                     /\ t.events = strm[id].events \cup {"Headers"}
    BY CompletedHeadersFields DEF EndsWithHeaders, StreamRecords
  <2>2. /\ UNCHANGED <<mode, mailbox, created>>
        /\ \/ UNCHANGED <<strm, ready>>
           \/ /\ strm' = [strm EXCEPT ![id] = t]
              /\ IF defers THEN ready' = ready ELSE MarkReady(id)
    BY <1>5 DEF RecvContinuation, CompleteReceivedHeaders, NextFrame,
      userVars, ctlVars
  <2> HIDE DEF t, defers, ends
  <2>3. Active => id \in created
    BY <1>5, IdsAssumption DEF RecvContinuation, Found, HotInv, CreatedInv
  <2> QED
    BY <2>1, <2>2, <2>3 DEF MarkReady
<1>6. ASSUME NEW id \in Ids, NEW end \in BOOLEAN, RecvData(id, end)
      PROVE  EventsInv(i)'
  <2> DEFINE t == DataAppended(strm[id], end)
  <2>1. t \in StreamRecords /\ (Active => t.queued)
    BY DataAppendedFields
  <2> HIDE DEF t
  <2>2. /\ strm' = [strm EXCEPT ![id] = t] /\ MarkReady(id)
        /\ UNCHANGED <<mode, mailbox, created>>
    BY <1>6 DEF RecvData, StreamFrame, NextFrame, userVars, ctlVars, t
  <2>3. Active => id \in created
    BY <1>6, IdsAssumption DEF RecvData, Found, HotInv, CreatedInv
  <2> QED
    BY <2>1, <2>2, <2>3 DEF MarkReady
<1>7. ASSUME NEW id \in Ids, RecvRstStream(id) PROVE EventsInv(i)'
  <2> DEFINE t == PeerReset(strm[id])
  <2>1. t \in StreamRecords /\ (Active => t.queued)
    BY PeerResetFields
  <2> HIDE DEF t
  <2>2. /\ strm' = [strm EXCEPT ![id] = t] /\ MarkReady(id)
        /\ UNCHANGED <<mode, mailbox, created>>
    BY <1>7 DEF RecvRstStream, StreamFrame, NextFrame, userVars, ctlVars, t
  <2>3. Active => id \in created
    BY <1>7, IdsAssumption DEF RecvRstStream, Found, HotInv, CreatedInv
  <2> QED
    BY <2>1, <2>2, <2>3 DEF MarkReady
<1>8. ASSUME NEW id \in Ids, NEW increment \in {0, 1},
             RecvWindowUpdate(id, increment)
      PROVE  EventsInv(i)'
  <2> DEFINE t == Marked(strm[id], {"Window"})
  <2>1. t \in StreamRecords /\ (Active => t.queued)
    BY MarkedFields DEF Events
  <2> HIDE DEF t
  <2>2. /\ UNCHANGED <<mode, mailbox, created>>
        /\ \/ UNCHANGED <<strm, ready>>
           \/ strm' = [strm EXCEPT ![id] = t] /\ MarkReady(id)
    BY <1>8 DEF RecvWindowUpdate, StreamFrame, NextFrame, userVars, ctlVars, t
  <2>3. Active => id \in created
    BY <1>8, IdsAssumption DEF RecvWindowUpdate, Found, HotInv, CreatedInv
  <2> QED
    BY <2>1, <2>2, <2>3 DEF MarkReady
<1>9. CASE RecvFatalFrame \/ RecvBadConnectionFrame \/ RecvPing
  BY <1>9 DEF RecvFatalFrame, RecvBadConnectionFrame, RecvPing
<1>10. CASE \E promised \in PushIds : RecvPushPromise(promised)
  BY <1>10 DEF RecvPushPromise
<1>11. CASE \E last \in {0, KMax} \cup RequestIds : RecvGoaway(last)
  BY <1>11, QueueClosedFields DEF RecvGoaway
<1>12. CASE EndBatch
  <2>1. /\ UNCHANGED <<mode, created>> /\ strm' = AfterPendingRst
        /\ ready' = {} /\ mailbox' = mailbox \cup ready
    BY <1>12 DEF EndBatch, ctlVars
  <2>2. strm'[i].queued = strm[i].queued /\ strm'[i].events = strm[i].events
    BY <2>1, SendFields DEF AfterPendingRst, SameMessage
  <2> QED
    BY <2>1, <2>2
<1>13. CASE ReaderEnds
  BY <1>13, QueueClosedFields DEF ReaderEnds, LeaveReader, DrainRetired
<1>14. CASE ReadError
  BY <1>14, QueueClosedFields DEF ReadError, LeaveReader, DrainRetired
<1>15. ASSUME NEW id \in Ids, NEW end \in BOOLEAN, SendHeaders(id, end)
       PROVE  EventsInv(i)'
  <2> DEFINE t == OnHeadersSent(strm[id], end)
  <2>1. t \in StreamRecords /\ t.queued = strm[id].queued /\ t.events = strm[id].events
    BY TransitionTypes, SendFields DEF SameMessage
  <2> HIDE DEF t
  <2> QED
    BY <1>15, <2>1 DEF SendHeaders, UserCall, RetireIfClosed, connVars,
      deferVars,
      userVars, ctlVars, t
<1>16. ASSUME NEW id \in Ids, SendLastData(id) PROVE EventsInv(i)'
  <2> DEFINE t == OnDataSent(strm[id], TRUE)
  <2>1. t \in StreamRecords /\ t.queued = strm[id].queued /\ t.events = strm[id].events
    BY TransitionTypes, SendFields DEF SameMessage
  <2> HIDE DEF t
  <2> QED
    BY <1>16, <2>1 DEF SendLastData, UserCall, RetireIfClosed, connVars,
      deferVars,
      userVars, ctlVars, t
<1>17. ASSUME NEW id \in Ids, SendRstStream(id) PROVE EventsInv(i)'
  <2> DEFINE t == OnRstStream(strm[id])
  <2>1. t \in StreamRecords /\ t.queued = strm[id].queued /\ t.events = strm[id].events
    BY TransitionTypes, SendFields DEF SameMessage
  <2> HIDE DEF t
  <2> QED
    BY <1>17, <2>1 DEF SendRstStream, UserCall, RetireIfClosed, connVars,
      deferVars,
      userVars, ctlVars, t
<1>18. CASE \E id \in Ids : HandlerReturns(id)
  BY <1>18 DEF HandlerReturns
<1>19. ASSUME NEW id \in Ids, TakeEvents(id) PROVE EventsInv(i)'
  <2>1. /\ UNCHANGED <<mode, created, ready>> /\ mailbox' = mailbox \ {id}
        /\ strm' = [strm EXCEPT ![id].events = {}, ![id].queued = FALSE]
    BY <1>19 DEF TakeEvents, deferVars, ctlVars
  <2>2. /\ strm'[id].events = {} /\ strm'[id].queued = FALSE
        /\ i # id => strm'[i] = strm[i]
    BY <2>1 DEF StreamRecords
  <2>3. CASE i = id
    <3>1. id \in mailbox /\ EventsInv(id)
      BY <1>19 DEF TakeEvents
    <3>2. Active => i \notin ready /\ i \notin mailbox'
      BY <2>1, <2>3, <3>1
    <3> QED
      BY <2>1, <2>2, <2>3, <3>2
  <2>4. CASE i # id
    BY <2>1, <2>2, <2>4
  <2> QED
    BY <2>3, <2>4
<1>20. CASE \E end \in BOOLEAN : OpenRequest(end)
  BY <1>20 DEF OpenRequest
<1>21. CASE
            ShutdownAnnounces \/ ShutdownRefuses \/ MonitorTimeout \/
            UNCHANGED vars
  BY <1>21 DEF ShutdownAnnounces, ShutdownRefuses, MonitorTimeout
<1>22. CASE ShutdownResets
  <2> DEFINE t == OnRstStream(strm[i])
  <2>1. t.queued = strm[i].queued /\ t.events = strm[i].events
    BY SendFields DEF SameMessage
  <2> HIDE DEF t
  <2>2. /\ UNCHANGED <<mode, created, ready, mailbox>>
        /\ strm'[i] = strm[i] \/ strm'[i] = t
    BY <1>22 DEF ShutdownResets, deferVars, userVars, t
  <2> QED
    BY <2>1, <2>2
<1>23. CASE ShutdownCloses
  BY <1>23, QueueClosedFields DEF ShutdownCloses
<1> QED
  BY <1>1, <1>2, <1>3, <1>4, <1>5, <1>6, <1>7, <1>8, <1>9, <1>10, <1>11,
    <1>12, <1>13, <1>14, <1>15, <1>16, <1>17, <1>18, <1>19, <1>20, <1>21,
    <1>22, <1>23 DEF Next, Reader, RecvStreamFrame, RecvConnectionFrame,
    User, Control, ContentLengths

-----------------------------------------------------------------------------
(* The action properties, as formulas of one step.                         *)

AcceptsOnce ==
  ~IsClient => \A id \in table' \ table : id > lastPeer /\ id \notin created

RefusesUnprocessed ==
  ~reject /\ ~goaway.sent =>
    \A action \in pendRst' \ pendRst :
      action[2] = "REFUSED_STREAM" => action[1] \notin created

(* A stream enters a server's table once, above every id before it.        *)
LEMMA AcceptsOnceStep ==
  ASSUME TypeOK, AcceptedInv, HotInv, [Next]_vars
  PROVE  AcceptsOnce
<1> USE DEF vars, tableVars, connVars, deferVars, userVars, ctlVars,
  readVars, StreamFrame, NextFrame, GoawaySent, TypeOK, TableTypeOK,
  ConnTypeOK, Active, IsClient, AcceptsOnce
<1>1. CASE \E id \in Ids :
            RecvHeadersRefused(id) \/ RecvHeadersOutOfOrder(id) \/
            RecvContinuationUnknown(id) \/ RecvDataUnknown(id)
  BY <1>1 DEF RecvHeadersRefused, RecvHeadersOutOfOrder,
    RecvContinuationUnknown, RecvDataUnknown
<1>2. CASE \E id \in Ids, end, endHeaders, contentLength \in BOOLEAN :
            RecvHeadersNew(id, end, endHeaders, contentLength)
  BY <1>2, IdsAssumption DEF RecvHeadersNew, AcceptHeaders, ClientRetires,
    OutOfOrder, Refused, OverLimit, AcceptedInv, ConnTypeOK
<1>3. CASE \E id \in Ids, end, endHeaders, contentLength \in BOOLEAN :
            RecvHeadersKnown(id, end, endHeaders, contentLength)
  BY <1>3 DEF RecvHeadersKnown, AcceptHeaders, Found, HotInv, ClientRetires
<1>4. CASE \E id \in Ids : RecvOnFinishedStream(id)
  BY <1>4 DEF RecvOnFinishedStream, RememberHot
<1>5. CASE \E id \in Ids, endHeaders, contentLength \in BOOLEAN :
            RecvContinuation(id, endHeaders, contentLength)
  BY <1>5 DEF RecvContinuation, RememberHot
<1>6. CASE \E id \in Ids, end \in BOOLEAN : RecvData(id, end)
  BY <1>6 DEF RecvData, RememberHot, RetireIfClosed, MarkReady, Found,
    HotInv, ClientRetires
<1>7. CASE \E id \in Ids : RecvRstStream(id)
  BY <1>7 DEF RecvRstStream, RememberHot, RetireIfClosed, MarkReady, Found,
    HotInv, ClientRetires
<1>8. CASE \E id \in Ids, increment \in {0, 1} :
            RecvWindowUpdate(id, increment)
  BY <1>8 DEF RecvWindowUpdate, RememberHot, MarkReady
<1>9. CASE RecvFatalFrame \/ RecvBadConnectionFrame \/ RecvPing
  BY <1>9 DEF RecvFatalFrame, RecvBadConnectionFrame, RecvPing
<1>10. CASE \E promised \in PushIds : RecvPushPromise(promised)
  BY <1>10 DEF RecvPushPromise
<1>11. CASE \E last \in {0, KMax} \cup RequestIds : RecvGoaway(last)
  BY <1>11 DEF RecvGoaway
<1>12. CASE EndBatch
  BY <1>12 DEF EndBatch, DrainAtBatchEnd, DrainRetired
<1>13. CASE ReaderEnds \/ ReadError
  BY <1>13 DEF ReaderEnds, LeaveReader, DrainRetired, ReadError
<1>14. CASE \E id \in Ids, end \in BOOLEAN : SendHeaders(id, end)
  BY <1>14 DEF SendHeaders, UserCall, RetireIfClosed
<1>15. CASE \E id \in Ids : SendLastData(id) \/ SendRstStream(id)
  BY <1>15 DEF SendLastData, UserCall, RetireIfClosed, SendRstStream
<1>16. CASE \E id \in Ids : HandlerReturns(id) \/ TakeEvents(id)
  BY <1>16 DEF HandlerReturns, TakeEvents
<1>17. CASE \E end \in BOOLEAN : OpenRequest(end)
  BY <1>17 DEF OpenRequest
<1>18. CASE
            ShutdownAnnounces \/ ShutdownRefuses \/ MonitorTimeout \/
            UNCHANGED vars
  BY <1>18 DEF ShutdownAnnounces, ShutdownRefuses, MonitorTimeout
<1>19. CASE ShutdownResets
  BY <1>19 DEF ShutdownResets
<1>20. CASE ShutdownCloses
  BY <1>20 DEF ShutdownCloses
<1> QED
  BY <1>1, <1>2, <1>3, <1>4, <1>5, <1>6, <1>7, <1>8, <1>9, <1>10, <1>11,
    <1>12, <1>13, <1>14, <1>15, <1>16, <1>17, <1>18, <1>19, <1>20 DEF Next,
    Reader, RecvStreamFrame, RecvConnectionFrame, User, Control,
    ContentLengths

(* Outside shutdown, only a stream not accepted before is refused.         *)
LEMMA RefusesUnprocessedStep ==
  ASSUME TypeOK, AcceptedInv, [Next]_vars
  PROVE  RefusesUnprocessed
<1> USE DEF vars, tableVars, connVars, deferVars, userVars, ctlVars,
  readVars, StreamFrame, NextFrame, GoawaySent, TypeOK, ConnTypeOK,
  FlagTypeOK, RefusesUnprocessed
<1>1. CASE \E id \in Ids : RecvHeadersRefused(id)
  BY <1>1, IdsAssumption DEF RecvHeadersRefused, Refused, OverLimit,
    AcceptedInv
<1>2. CASE \E id \in Ids :
            RecvHeadersOutOfOrder(id) \/ RecvContinuationUnknown(id) \/
            RecvDataUnknown(id)
  BY <1>2 DEF RecvHeadersOutOfOrder, RecvContinuationUnknown, RecvDataUnknown
<1>3. CASE \E id \in Ids, end, endHeaders, contentLength \in BOOLEAN :
            RecvHeadersNew(id, end, endHeaders, contentLength)
  BY <1>3 DEF RecvHeadersNew, AcceptHeaders
<1>4. CASE \E id \in Ids, end, endHeaders, contentLength \in BOOLEAN :
            RecvHeadersKnown(id, end, endHeaders, contentLength)
  BY <1>4 DEF RecvHeadersKnown, AcceptHeaders
<1>5. CASE \E id \in Ids : RecvOnFinishedStream(id)
  BY <1>5 DEF RecvOnFinishedStream, RememberHot
<1>6. CASE \E id \in Ids, endHeaders, contentLength \in BOOLEAN :
            RecvContinuation(id, endHeaders, contentLength)
  BY <1>6 DEF RecvContinuation, RememberHot
<1>7. CASE \E id \in Ids, end \in BOOLEAN : RecvData(id, end)
  BY <1>7 DEF RecvData, RememberHot, RetireIfClosed, MarkReady
<1>8. CASE \E id \in Ids : RecvRstStream(id)
  BY <1>8 DEF RecvRstStream, RememberHot, RetireIfClosed, MarkReady
<1>9. CASE \E id \in Ids, increment \in {0, 1} :
            RecvWindowUpdate(id, increment)
  BY <1>9 DEF RecvWindowUpdate, RememberHot, MarkReady
<1>10. CASE RecvFatalFrame \/ RecvBadConnectionFrame \/ RecvPing
  BY <1>10 DEF RecvFatalFrame, RecvBadConnectionFrame, RecvPing
<1>11. CASE \E promised \in PushIds : RecvPushPromise(promised)
  BY <1>11 DEF RecvPushPromise
<1>12. CASE \E last \in {0, KMax} \cup RequestIds : RecvGoaway(last)
  BY <1>12 DEF RecvGoaway
<1>13. CASE EndBatch
  BY <1>13 DEF EndBatch, DrainAtBatchEnd, DrainRetired
<1>14. CASE ReaderEnds \/ ReadError
  BY <1>14 DEF ReaderEnds, LeaveReader, DrainRetired, ReadError
<1>15. CASE \E id \in Ids, end \in BOOLEAN : SendHeaders(id, end)
  BY <1>15 DEF SendHeaders, UserCall, RetireIfClosed
<1>16. CASE \E id \in Ids : SendLastData(id) \/ SendRstStream(id)
  BY <1>16 DEF SendLastData, UserCall, RetireIfClosed, SendRstStream
<1>17. CASE \E id \in Ids : HandlerReturns(id) \/ TakeEvents(id)
  BY <1>17 DEF HandlerReturns, TakeEvents
<1>18. CASE \E end \in BOOLEAN : OpenRequest(end)
  BY <1>18 DEF OpenRequest
<1>19. CASE
            ShutdownAnnounces \/ ShutdownRefuses \/ MonitorTimeout \/
            UNCHANGED vars
  BY <1>19 DEF ShutdownAnnounces, ShutdownRefuses, MonitorTimeout
<1>20. CASE ShutdownResets
  BY <1>20 DEF ShutdownResets
<1>21. CASE ShutdownCloses
  BY <1>21 DEF ShutdownCloses
<1> QED
  BY <1>1, <1>2, <1>3, <1>4, <1>5, <1>6, <1>7, <1>8, <1>9, <1>10, <1>11,
    <1>12, <1>13, <1>14, <1>15, <1>16, <1>17, <1>18, <1>19, <1>20, <1>21 DEF
    Next, Reader, RecvStreamFrame, RecvConnectionFrame, User, Control,
    ContentLengths

-----------------------------------------------------------------------------
(* The theorems.                                                           *)

LEMMA InvInit == Init => IInv
<1> SUFFICES ASSUME Init PROVE IInv
  OBVIOUS
<1> USE DEF Init
<1>1. TableTypeOK
  BY FreshStreamType DEF TableTypeOK
<1>2. ConnTypeOK
  BY ModesAssumption DEF ConnTypeOK
<1>3. DeferredTypeOK /\ FlagTypeOK
  BY DEF DeferredTypeOK, FlagTypeOK
<1>4. AcceptedInv /\ HotInv /\ CreatedInv
  BY IdsAssumption DEF AcceptedInv, HotInv, CreatedInv
<1>5. ASSUME NEW i \in Ids PROVE ClosedInv(i) /\ EndedInv(i) /\ EventsInv(i)
  BY <1>5 DEF ClosedInv, EndedInv, EventsInv, FreshStream
<1> QED
  BY <1>1, <1>2, <1>3, <1>4, <1>5 DEF IInv, TypeOK

LEMMA InvNext == IInv /\ [Next]_vars => IInv'
<1> SUFFICES ASSUME IInv, [Next]_vars PROVE IInv'
  OBVIOUS
<1>1. TypeOK'
  BY TableTypeStep, ConnTypeStep, DeferredTypeStep, FlagTypeStep DEF IInv, TypeOK
<1>2. AcceptedInv' /\ HotInv' /\ CreatedInv'
  BY AcceptedStep, HotStep, CreatedStep DEF IInv
<1>3. ASSUME NEW i \in Ids PROVE ClosedInv(i)'
  BY ClosedStep DEF IInv
<1>4. ASSUME NEW i \in Ids PROVE EndedInv(i)'
  BY EndedStep DEF IInv
<1>5. ASSUME NEW i \in Ids PROVE EventsInv(i)'
  BY EventsStep DEF IInv
<1> QED
  BY <1>1, <1>2, <1>3, <1>4, <1>5 DEF IInv

(* The inductive invariant holds of every reachable state.                 *)
THEOREM Invariant == Spec => []IInv
  BY InvInit, InvNext, PTL DEF Spec

(* Every variable keeps its type; no handler count goes below zero.        *)
THEOREM TypeCorrect == Spec => []TypeOK
<1>1. IInv => TypeOK
  BY DEF IInv
<1> QED
  BY <1>1, Invariant, PTL

(* findAttachedStream never answers with a stream that has left the table. *)
THEOREM HotStreamSafe == Spec => []HotStreamInTable
<1>1. IInv => HotStreamInTable
  BY DEF IInv, HotInv, HotStreamInTable
<1> QED
  BY <1>1, Invariant, PTL

(* With the connection handler a closed stream in the table is always on   *)
(* its way out, whoever closed it.                                         *)
THEOREM ClosedStreamsNoticed == Spec => []ClosedStreamWillRetire
<1>1. IInv => ClosedStreamWillRetire
  BY DEF IInv, TypeOK, TableTypeOK, ClosedInv, ClosedStreamWillRetire
<1> QED
  BY <1>1, Invariant, PTL

(* A message whose END_STREAM and header block have arrived is completed.  *)
THEOREM EndedMessagesComplete == Spec => []EndedMessageCompletes
<1>1. IInv => EndedMessageCompletes
  BY DEF IInv, TypeOK, TableTypeOK, EndedInv, Done, EndedMessageCompletes
<1> QED
  BY <1>1, Invariant, PTL

(* No event of a stream is lost between the reader and the connection      *)
(* handler, and no stream is delivered twice for the same events.          *)
THEOREM EventsDelivered == Spec => []EventsReachHandler
<1>1. IInv => EventsReachHandler
  BY DEF IInv, TypeOK, TableTypeOK, EventsInv, EventsReachHandler
<1> QED
  BY <1>1, Invariant, PTL

(* The latest GOAWAY covers every accepted stream.                         *)
THEOREM GoawayCoversAccepted == Spec => []LatestGoawayCoversAccepted
<1>1. IInv => LatestGoawayCoversAccepted
  BY IdsAssumption
  DEF IInv, TypeOK, TableTypeOK, ConnTypeOK, AcceptedInv, LatestGoawayCoversAccepted
<1> QED
  BY <1>1, Invariant, PTL

(* A server accepts each id at most once, in increasing order.             *)
THEOREM AcceptsEachIdOnce == Spec => AcceptedOnce
<1>1. IInv /\ [Next]_vars => AcceptsOnce
  BY AcceptsOnceStep DEF IInv
<1> QED
  BY <1>1, Invariant, PTL DEF Spec, AcceptedOnce, AcceptsOnce

(* Outside shutdown, a refused stream was never processed.                 *)
THEOREM RefusedNeverProcessed == Spec => RefusedMeansUnprocessed
<1>1. IInv /\ [Next]_vars => RefusesUnprocessed
  BY RefusesUnprocessedStep DEF IInv
<1> QED
  BY <1>1, Invariant, PTL DEF Spec, RefusedMeansUnprocessed, RefusesUnprocessed
=============================================================================
