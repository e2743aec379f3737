--------------------------- MODULE Http2Lifecycle ---------------------------
(***************************************************************************)
(* How an HTTP/2 connection starts, runs and stops: the reader, writer and *)
(* monitor coroutines of Http2StreamManagerImpl (over TLS the reader also  *)
(* writes), the user's handlers, the send channel with the waiters of      *)
(* those who wait for a write, shutdown(), and the peer.                   *)
(*                                                                         *)
(* Coroutines on the connection's scheduler are atomic between two         *)
(* co_awaits.  A handler may resume on another thread, where its steps     *)
(* interleave with single atomic operations and where the release store to *)
(* m_draining_handlers may become visible after the acquire load of        *)
(* m_active_handlers that follows it.                                      *)
(*                                                                         *)
(* AsyncWaiter and MpscChannel are galay-kernel's, which is not part of    *)
(* the repository: a notification is kept until it is waited for, and the  *)
(* channel is FIFO.  What frames mean is in Http2StreamManager.            *)
(***************************************************************************)
EXTENDS Naturals, FiniteSets, SequencesExt

CONSTANTS
  Handlers,    \* stream handlers, or the one handler of an active connection
  Confs,       \* the kinds of connection explored, a subset of AllConfs
  MaxSends,    \* bound: sends of one handler
  MaxQueue     \* bound: items in the channel when the manager adds its own

(* The transport; a server with a handler per stream or one handler for    *)
(* the connection, or a client; the thread handlers resume on; those that  *)
(* may start; whether the user calls shutdown().                           *)
AllConfs == [transport: {"tcp", "tls"},
             role: {"server", "active", "client"},
             thread: {"io", "other"},
             starts: SUBSET Handlers,
             shutdown: BOOLEAN]

ASSUME LifecycleAssumption ==
  /\ IsFiniteSet(Handlers) /\ Handlers # {}
  /\ Confs \subseteq AllConfs
  /\ \A c \in Confs : c.role = "active" => Cardinality(c.starts) = 1
  /\ MaxSends \in Nat /\ MaxQueue \in Nat

(* The other names that stand for a sender or a waiter.                    *)
ASSUME NamesAssumption ==
  Handlers \cap {"manager", "end", "goaway1", "goaway2", "handlers"} = {}

VARIABLES
  conf,      \* transport, role and handler thread of this connection
  chan,      \* m_send_channel
  batch,     \* items taken from the channel and being written
  last,      \* has_shutdown: the batch was ended by the end mark
  notified,  \* waiters notified and not yet resumed
  rpc,       \* the foreground: reader loop, then the cleanup after it
  wpc,       \* writerLoop (tcp)
  mpc,       \* monitorLoop
  spc,       \* shutdownImpl
  hpc,       \* each handler
  sends,     \* sends of each handler so far
  running,   \* m_running
  closing,   \* m_conn.isClosing()
  draining,  \* m_draining_handlers as other threads see it
  peerGone,  \* the peer has closed or reset the connection
  failed     \* history: a write failed

writeVars == <<batch, last, wpc, failed>>
handlerVars == <<hpc, sends>>
flagVars == <<running, closing, draining>>
vars == <<conf, chan, notified, rpc, mpc, spc, writeVars, handlerVars, flagVars, peerGone>>

Tls == conf.transport = "tls"
Frame == [by |-> "manager", waits |-> FALSE]
Goaway(n) == [by |-> n, waits |-> TRUE]
EndMark == [by |-> "end", waits |-> FALSE]

InLoop == rpc \in {"read", "send"}
Running(h) == hpc[h] \in {"run", "wait"}
ActiveHandlers == Cardinality({h \in Handlers : Running(h)})
SocketDown == closing \/ peerGone

Waiters(items) == {items[i].by : i \in {j \in DOMAIN items : items[j].waits}}

(* Bug: only the first waiter of a batch is notified.                      *)
BuggyNotifies(items) ==
  notified' = notified \cup
    (IF items # <<>> /\ items[1].waits THEN {items[1].by} ELSE {})

Notifies(items) == notified' = notified \cup Waiters(items)

Init ==
  /\ conf \in Confs
  /\ chan = <<>> /\ batch = <<>> /\ last = FALSE /\ notified = {}
  /\ rpc = "read" /\ mpc = "sleep" /\ spc = "idle"
  /\ wpc = IF conf.transport = "tcp" THEN "wait" ELSE "gone"
  /\ hpc = [h \in Handlers |->
              IF conf.role = "active" /\ h \in conf.starts THEN "run" ELSE "none"]
  /\ sends = [h \in Handlers |-> 0]
  /\ running = TRUE /\ closing = FALSE /\ draining = FALSE
  /\ peerGone = FALSE /\ failed = FALSE

-----------------------------------------------------------------------------
(* The foreground: frames, and the end of the loop.                        *)

(* A batch of frames may start a handler: of those that have not run, all  *)
(* alike, the chosen one.                                                  *)
Starts(new) ==
  /\ new => conf.role = "server" /\ \E h \in conf.starts : hpc[h] = "none"
  /\ hpc' = IF new THEN [hpc EXCEPT ![CHOOSE h \in conf.starts : hpc[h] = "none"] = "run"]
                   ELSE hpc

(* Frames are handled: they may start a handler or get an answer (SETTINGS *)
(* and PING acknowledgements, RST_STREAM, WINDOW_UPDATE).                  *)
HandlesFrames(new, reply) ==
  /\ Starts(new) /\ reply \in {<<>>, <<Frame>>} /\ Len(chan) <= MaxQueue

(* readerLoop, one batch of frames.                                        *)
ReadBatch(new, reply) ==
  /\ rpc = "read" /\ ~Tls
  /\ HandlesFrames(new, reply)
  /\ chan' = chan \o reply
  /\ UNCHANGED <<conf, notified, rpc, mpc, spc, writeVars, sends, flagVars, peerGone>>

(* readerLoop leaves: quietly when the connection is closing or the peer   *)
(* has gone, with GOAWAY on a protocol error.                              *)
ReaderLeaves ==
  /\ rpc = "read" /\ ~Tls
  /\ \/ SocketDown /\ chan' = chan
     \/ Len(chan) <= MaxQueue /\ chan' = Append(chan, Frame)
  /\ rpc' = "left"
  /\ UNCHANGED <<conf, notified, mpc, spc, writeVars, handlerVars, flagVars, peerGone>>

(* A round of sslServiceLoop ends with these items in the channel: it      *)
(* leaves after a protocol error, its GOAWAY behind them, or sends them    *)
(* before it reads again.                                                  *)
EndsRound(items, bad) ==
  IF bad
    THEN rpc' = "left" /\ batch' = <<>> /\ chan' = Append(items, Frame)
    ELSE /\ rpc' = IF items = <<>> THEN "read" ELSE "send"
         /\ batch' = items /\ chan' = <<>>

(* sslServiceLoop reads frames; the channel is empty.                      *)
TlsReads(new, reply, bad) ==
  /\ rpc = "read" /\ Tls /\ chan = <<>>
  /\ HandlesFrames(new, reply)
  /\ EndsRound(reply, bad)
  /\ UNCHANGED <<conf, notified, last, wpc, mpc, spc, sends, flagVars, peerGone, failed>>

(* It wakes with data, or at its poll interval, and the channel has items: *)
(* these are sent before the data is looked at.                            *)
TlsDrains ==
  /\ rpc = "read" /\ Tls /\ chan # <<>>
  /\ EndsRound(chan, FALSE)
  /\ UNCHANGED <<conf, notified, last, wpc, mpc, spc, handlerVars, flagVars, peerGone, failed>>

(* The batch is written and its waiters notified; frames that are buffered *)
(* are handled.                                                            *)
TlsSends(new, reply, bad) ==
  /\ rpc = "send"
  /\ Notifies(batch)
  /\ \/ ~new /\ reply = <<>> /\ ~bad /\ hpc' = hpc
     \/ HandlesFrames(new, reply)
  /\ EndsRound(chan \o reply, bad)
  /\ UNCHANGED <<conf, last, wpc, mpc, spc, sends, flagVars, peerGone, failed>>

(* sendSslOutgoingBatch fails.                                             *)
TlsSendFails ==
  /\ rpc = "send" /\ SocketDown
  /\ Notifies(batch)
  /\ rpc' = "left" /\ batch' = <<>> /\ failed' = TRUE
  /\ UNCHANGED <<conf, chan, last, wpc, mpc, spc, handlerVars, flagVars, peerGone>>

(* recv fails or finds the connection closed: what is in the channel stays.*)
TlsLeaves ==
  /\ rpc = "read" /\ Tls /\ SocketDown
  /\ rpc' = "left"
  /\ UNCHANGED <<conf, chan, notified, mpc, spc, writeVars, handlerVars, flagVars, peerGone>>

-----------------------------------------------------------------------------
(* The foreground: cleanup.                                                *)

(* Bug: the end mark is not sent.                                          *)
BuggyStopsLoops ==
  /\ running' = FALSE
  /\ chan' = chan
  /\ rpc' = IF Tls THEN "monitor" ELSE "writer"

(* m_running is cleared and, over TCP, the writer sent the end mark.       *)
StopsLoops ==
  /\ running' = FALSE
  /\ chan' = IF Tls THEN chan ELSE Append(chan, EndMark)
  /\ rpc' = IF Tls THEN "monitor" ELSE "writer"

(* Bug: the handlers are not waited for.                                   *)
BuggyDrainsHandlers(late) ==
  /\ rpc = "left"
  /\ late => conf.thread = "other"
  /\ draining' = ~late
  /\ StopsLoops
  /\ UNCHANGED <<conf, notified, mpc, spc, writeVars, handlerVars, closing, peerGone>>

(* finishForegroundRun, finishForegroundSslRun and the two loops with      *)
(* cleanup: m_draining_handlers is stored, then m_active_handlers loaded;  *)
(* another thread may see the store late.                                  *)
DrainsHandlers(late) ==
  /\ rpc = "left"
  /\ late => conf.thread = "other"
  /\ draining' = ~late
  /\ IF ActiveHandlers > 0
       THEN rpc' = "handlers" /\ UNCHANGED <<running, chan>>
       ELSE StopsLoops
  /\ UNCHANGED <<conf, notified, mpc, spc, writeVars, handlerVars, closing, peerGone>>

DrainingSeen ==
  /\ ~InLoop /\ rpc # "left" /\ ~draining
  /\ draining' = TRUE
  /\ UNCHANGED <<conf, chan, notified, rpc, mpc, spc, writeVars, handlerVars>>
  /\ UNCHANGED <<running, closing, peerGone>>

(* m_handler_waiter                                                        *)
HandlersDone ==
  /\ rpc = "handlers" /\ "handlers" \in notified
  /\ notified' = notified \ {"handlers"}
  /\ StopsLoops
  /\ UNCHANGED <<conf, mpc, spc, writeVars, handlerVars, closing, draining, peerGone>>

(* Bug: the writer is not waited for.                                      *)
BuggyWriterJoined ==
  /\ rpc = "writer"
  /\ rpc' = "monitor"
  /\ UNCHANGED <<conf, chan, notified, mpc, spc, writeVars, handlerVars, flagVars, peerGone>>

(* m_writer_done                                                           *)
WriterJoined ==
  /\ rpc = "writer" /\ wpc = "gone"
  /\ rpc' = "monitor"
  /\ UNCHANGED <<conf, chan, notified, mpc, spc, writeVars, handlerVars, flagVars, peerGone>>

(* m_monitor_done, then m_stop_waiter is notified and start() returns.     *)
MonitorJoined ==
  /\ rpc = "monitor" /\ mpc = "gone"
  /\ rpc' = "stopped"
  /\ UNCHANGED <<conf, chan, notified, mpc, spc, writeVars, handlerVars, flagVars, peerGone>>

-----------------------------------------------------------------------------
(* writerLoop, over TCP.                                                   *)

EndIn(items) == \E i \in DOMAIN items : items[i] = EndMark
EndAt(items) == CHOOSE i \in DOMAIN items :
                  items[i] = EndMark /\ \A j \in 1 .. i - 1 : items[j] # EndMark

(* Bug: one item is taken and the rest dropped.                            *)
BuggyWriterTakes ==
  /\ wpc = "wait" /\ chan # <<>>
  /\ batch' = <<chan[1]>> /\ chan' = <<>>
  /\ last' = EndIn(chan) /\ wpc' = "write"
  /\ UNCHANGED <<conf, notified, rpc, mpc, spc, failed, handlerVars, flagVars, peerGone>>

(* All there is up to the end mark is taken; what follows it stays.        *)
WriterTakes ==
  /\ wpc = "wait" /\ chan # <<>>
  /\ last' = EndIn(chan)
  /\ IF EndIn(chan)
       THEN /\ batch' = SubSeq(chan, 1, EndAt(chan) - 1)
            /\ chan' = SubSeq(chan, EndAt(chan) + 1, Len(chan))
       ELSE batch' = chan /\ chan' = <<>>
  /\ wpc' = IF chan[1] = EndMark THEN "gone" ELSE "write"
  /\ UNCHANGED <<conf, notified, rpc, mpc, spc, failed, handlerVars, flagVars, peerGone>>

WriterWrites ==
  /\ wpc = "write"
  /\ Notifies(batch)
  /\ batch' = <<>>
  /\ wpc' = IF last THEN "gone" ELSE "wait"
  /\ UNCHANGED <<conf, chan, rpc, mpc, spc, last, failed, handlerVars, flagVars, peerGone>>

(* writev fails: the batch's waiters are notified and the writer is gone.  *)
WriterFails ==
  /\ wpc = "write" /\ SocketDown
  /\ Notifies(batch)
  /\ batch' = <<>> /\ wpc' = "gone" /\ failed' = TRUE
  /\ UNCHANGED <<conf, chan, rpc, mpc, spc, last, handlerVars, flagVars, peerGone>>

-----------------------------------------------------------------------------
(* monitorLoop wakes every 100 ms.  Whether a PING is due, or SETTINGS or  *)
(* a PING have gone unacknowledged for too long, is left open.             *)

MonitorStops ==
  /\ mpc = "sleep" /\ ~running
  /\ mpc' = "gone"
  /\ UNCHANGED <<conf, chan, notified, rpc, spc, writeVars, handlerVars, flagVars, peerGone>>

MonitorPings ==
  /\ mpc = "sleep" /\ running
  /\ Len(chan) <= MaxQueue /\ chan' = Append(chan, Frame)
  /\ UNCHANGED <<conf, notified, rpc, mpc, spc, writeVars, handlerVars, flagVars, peerGone>>

(* Not acknowledged in time: GOAWAY, and the transport is shut down before *)
(* it can be written.                                                      *)
MonitorTimesOut ==
  /\ mpc = "sleep" /\ running
  /\ chan' = Append(chan, Frame) /\ closing' = TRUE /\ mpc' = "gone"
  /\ UNCHANGED <<conf, notified, rpc, spc, writeVars, handlerVars>>
  /\ UNCHANGED <<running, draining, peerGone>>

-----------------------------------------------------------------------------
(* Handlers.                                                               *)

(* A handler sends a frame and goes on, or waits until it is written.      *)
HandlerSends(h, waits) ==
  /\ hpc[h] = "run" /\ sends[h] < MaxSends
  /\ sends' = [sends EXCEPT ![h] = @ + 1]
  /\ chan' = Append(chan, [by |-> h, waits |-> waits])
  /\ hpc' = [hpc EXCEPT ![h] = IF waits THEN "wait" ELSE "run"]
  /\ UNCHANGED <<conf, notified, rpc, mpc, spc, writeVars, flagVars, peerGone>>

HandlerResumes(h) ==
  /\ hpc[h] = "wait" /\ h \in notified
  /\ notified' = notified \ {h}
  /\ hpc' = [hpc EXCEPT ![h] = "run"]
  /\ UNCHANGED <<conf, chan, rpc, mpc, spc, writeVars, sends, flagVars, peerGone>>

(* The user's handler returns and m_active_handlers is counted down.  The  *)
(* handler of an active connection shuts the transport down first.  The    *)
(* last one looks at m_draining_handlers, on this thread at once.          *)
HandlerReturns(h) ==
  /\ hpc[h] = "run"
  /\ closing' = (closing \/ (conf.role = "active" /\ running))
  /\ LET isLast == ActiveHandlers = 1
     IN  /\ hpc' = [hpc EXCEPT ![h] =
                      IF isLast /\ conf.thread = "other" THEN "last" ELSE "done"]
         /\ notified' = IF isLast /\ conf.thread = "io" /\ draining
                          THEN notified \cup {"handlers"} ELSE notified
  /\ UNCHANGED <<conf, chan, rpc, mpc, spc, writeVars, sends, running, draining, peerGone>>

(* On another thread the load comes later.                                 *)
HandlerLooks(h) ==
  /\ hpc[h] = "last"
  /\ hpc' = [hpc EXCEPT ![h] = "done"]
  /\ notified' = IF draining THEN notified \cup {"handlers"} ELSE notified
  /\ UNCHANGED <<conf, chan, rpc, mpc, spc, writeVars, sends, flagVars, peerGone>>

-----------------------------------------------------------------------------
(* shutdownImpl, called once.                                              *)

ShutdownSteps(from, to) == spc = from /\ spc' = to
KeptByShutdown == <<conf, rpc, mpc, writeVars, handlerVars, running, draining, peerGone>>

(* It returns at once when m_running is already cleared; otherwise GOAWAY. *)
ShutdownCalled ==
  /\ conf.shutdown
  /\ IF running
       THEN ShutdownSteps("idle", "first") /\ chan' = Append(chan, Goaway("goaway1"))
       ELSE ShutdownSteps("idle", "returned") /\ UNCHANGED chan
  /\ UNCHANGED <<notified, closing, KeptByShutdown>>

(* A server sends the second GOAWAY after graceful_shutdown_rtt.           *)
FirstGoawayWritten ==
  /\ "goaway1" \in notified /\ notified' = notified \ {"goaway1"}
  /\ ShutdownSteps("first", IF conf.role = "client" THEN "handlers" ELSE "rtt")
  /\ UNCHANGED <<chan, closing, KeptByShutdown>>

SecondGoaway ==
  /\ ShutdownSteps("rtt", "second")
  /\ chan' = Append(chan, Goaway("goaway2"))
  /\ UNCHANGED <<notified, closing, KeptByShutdown>>

SecondGoawayWritten ==
  /\ "goaway2" \in notified /\ notified' = notified \ {"goaway2"}
  /\ ShutdownSteps("second", "handlers")
  /\ UNCHANGED <<chan, closing, KeptByShutdown>>

(* Queues are closed and the transport is shut down; without waiting when  *)
(* m_running has been cleared meanwhile, the socket is closed.             *)
ShutsTransport(from) ==
  /\ ShutdownSteps(from, IF running THEN "stop" ELSE "returned")
  /\ closing' = TRUE
  /\ UNCHANGED <<notified, KeptByShutdown>>

(* When no handler is active, or at graceful_shutdown_timeout whatever     *)
(* they do: RST_STREAM for the streams not closed and a pause, or, if      *)
(* there are none, straight on.                                            *)
ResetsStreams(open) ==
  IF open
    THEN /\ ShutdownSteps("handlers", "reset")
         /\ chan' = Append(chan, Frame)
         /\ UNCHANGED <<notified, closing, KeptByShutdown>>
    ELSE ShutsTransport("handlers") /\ UNCHANGED chan

PauseEnds == ShutsTransport("reset") /\ UNCHANGED chan

(* waitStopped, then the socket is closed.                                 *)
ShutdownReturns ==
  /\ rpc = "stopped"
  /\ ShutdownSteps("stop", "returned")
  /\ UNCHANGED <<chan, notified, closing, KeptByShutdown>>

-----------------------------------------------------------------------------
PeerLeaves ==
  /\ ~peerGone /\ peerGone' = TRUE
  /\ UNCHANGED <<conf, chan, notified, rpc, mpc, spc, writeVars, handlerVars, flagVars>>

Foreground ==
  \/ \E new \in BOOLEAN, reply \in {<<>>, <<Frame>>} :
       \/ ReadBatch(new, reply)
       \/ \E bad \in BOOLEAN :
            TlsReads(new, reply, bad) \/ TlsSends(new, reply, bad)
  \/ ReaderLeaves \/ TlsDrains \/ TlsSendFails \/ TlsLeaves
  \/ \E late \in BOOLEAN : DrainsHandlers(late)
  \/ DrainingSeen \/ HandlersDone \/ WriterJoined \/ MonitorJoined
Writer == WriterTakes \/ WriterWrites \/ WriterFails
Monitor == MonitorStops \/ MonitorPings \/ MonitorTimesOut
Handler(h) ==
  \/ \E waits \in BOOLEAN : HandlerSends(h, waits)
  \/ HandlerResumes(h) \/ HandlerReturns(h) \/ HandlerLooks(h)
Shutdown ==
  \/ ShutdownCalled \/ FirstGoawayWritten \/ SecondGoaway \/ SecondGoawayWritten
  \/ \E open \in BOOLEAN : ResetsStreams(open)
  \/ PauseEnds \/ ShutdownReturns

Next ==
  \/ Foreground \/ Writer \/ Monitor \/ Shutdown \/ PeerLeaves
  \/ \E h \in Handlers : Handler(h)

Spec == Init /\ [][Next]_vars

(* A coroutine that can go on does: timers expire, writes end in success   *)
(* or failure, and the reader sees that the socket is down.  A handler     *)
(* returns once its queue is closed, unless it waits for a write.          *)
Fairness ==
  /\ WF_vars(SocketDown /\ (ReaderLeaves \/ TlsLeaves \/ TlsSendFails))
  /\ WF_vars(\/ TlsDrains \/ TlsSendFails
             \/ \E bad \in BOOLEAN : TlsSends(FALSE, <<>>, bad))
  /\ WF_vars(\E late \in BOOLEAN : DrainsHandlers(late))
  /\ WF_vars(DrainingSeen) /\ WF_vars(HandlersDone)
  /\ WF_vars(WriterJoined) /\ WF_vars(MonitorJoined)
  /\ WF_vars(WriterTakes) /\ WF_vars(WriterWrites \/ WriterFails)
  /\ WF_vars(MonitorStops)
  /\ \A h \in Handlers :
       /\ WF_vars(HandlerResumes(h)) /\ WF_vars(HandlerLooks(h))
       /\ WF_vars(~InLoop /\ HandlerReturns(h))

FairSpec == Spec /\ Fairness

-----------------------------------------------------------------------------
(* Properties.                                                             *)

Items == [by: Handlers \cup {"goaway1", "goaway2"}, waits: BOOLEAN]
           \cup {Frame, EndMark}

TypeOK ==
  /\ conf \in Confs
  /\ chan \in Seq(Items) /\ batch \in Seq(Items) /\ last \in BOOLEAN
  /\ notified \subseteq Handlers \cup {"handlers", "goaway1", "goaway2"}
  /\ rpc \in {"read", "send", "left", "handlers", "writer", "monitor", "stopped"}
  /\ wpc \in {"wait", "write", "gone"} /\ mpc \in {"sleep", "gone"}
  /\ spc \in {"idle", "first", "rtt", "second", "handlers", "reset", "stop", "returned"}
  /\ hpc \in [Handlers -> {"none", "run", "wait", "last", "done"}]
  /\ sends \in [Handlers -> 0 .. MaxSends]
  /\ running \in BOOLEAN /\ closing \in BOOLEAN /\ draining \in BOOLEAN
  /\ peerGone \in BOOLEAN /\ failed \in BOOLEAN

(* No waiter is lost on its way: whoever waits for a frame to be written   *)
(* is in the channel, in the batch being written, or notified, through     *)
(* writes that fail and loops that leave.                                  *)
WaitersAccounted ==
  LET known == Waiters(chan) \cup Waiters(batch) \cup notified
  IN  /\ \A h \in Handlers : hpc[h] = "wait" => h \in known
      /\ spc = "first" => "goaway1" \in known
      /\ spc = "second" => "goaway2" \in known

(* When start() returns (m_stop_waiter) monitor and writer are gone and,   *)
(* with handlers on the connection's thread, no handler is active: nothing *)
(* of the manager runs any more.                                           *)
Quiet == ActiveHandlers = 0 /\ mpc = "gone" /\ wpc = "gone" /\ batch = <<>>
QuietWhenStopped == rpc = "stopped" /\ conf.thread = "io" => Quiet

(* Over TCP everything the handlers sent is written before the manager     *)
(* stops, whatever other coroutines queue around the end mark, unless a    *)
(* write failed.                                                           *)
SentBeforeStop ==
  rpc = "stopped" /\ ~Tls /\ conf.thread = "io" /\ ~failed =>
    \A i \in DOMAIN chan : chan[i].by \notin Handlers

(* With handlers on the connection's thread: once the loop has left and    *)
(* the handlers have returned, start() returns.                            *)
StopCompletes ==
  (conf.thread = "io" /\ ~InLoop /\ ActiveHandlers = 0) ~> (rpc = "stopped")

(* Who waits for its frame to be written is answered, by the write or by   *)
(* its failure, as long as someone writes.                                 *)
WriterGone == wpc = "gone" /\ (Tls => ~InLoop)
SendsAnswered ==
  \A h \in Handlers : (hpc[h] = "wait") ~> (hpc[h] # "wait" \/ WriterGone)
=============================================================================
