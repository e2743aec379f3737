-------------------------- MODULE Http2FlowControl --------------------------
(***************************************************************************)
(* Receiving-side flow control of Http2StreamManagerImpl: the connection's *)
(* window and one per stream, the WINDOW_UPDATEs that refill them, and the *)
(* credit the peer believes it has.                                        *)
(*                                                                         *)
(* Windows are counted in units of a scaled-down kDefaultInitialWindowSize *)
(* (Default).  The reader refills a window when it handles DATA; the       *)
(* WINDOW_UPDATE is an action of the batch, sent when the batch ends, and  *)
(* reaches the peer later still.  The peer obeys the credit it was given.  *)
(* Order plays no part in sums, so frames on their way are counted in      *)
(* bytes: what the peer sent on a stream, what updates return.             *)
(*                                                                         *)
(* Without a flow_control_strategy of the user's.                          *)
(***************************************************************************)
EXTENDS Integers

CONSTANTS
  Streams,         \* the streams of the connection
  Default,         \* kDefaultInitialWindowSize, 65535
  Word,            \* 2^32, the width of conn_target * 3
  InitialWindows,  \* local SETTINGS_INITIAL_WINDOW_SIZE values explored
  Targets,         \* flow_control_target_window values explored
  MaxPad,          \* bound: padding of one DATA frame
  MaxBytes         \* bound: bytes the peer sends in all

ASSUME WindowAssumption ==
  /\ Default \in Nat \ {0} /\ Word \in Nat \ {0}
  /\ InitialWindows \subseteq Nat /\ Targets \subseteq Nat
  /\ MaxPad \in Nat /\ MaxBytes \in Nat

VARIABLES
  iw,         \* m_local_settings.initial_window_size, advertised in SETTINGS
  target,     \* m_runtime_config.flow_control_target_window
  connWin,    \* m_conn_recv_window
  win,        \* m_recv_window of each stream
  pendConn,   \* WINDOW_UPDATE actions of the batch, in bytes: connection
  pend,       \* the same per stream
  sentConn,   \* WINDOW_UPDATEs handed to the send channel: connection
  sent,       \* the same per stream
  live,       \* streams found and able to receive DATA
  opened,     \* streams the peer has opened
  peerConn,   \* the peer's credit on the connection
  peerWin,    \* the peer's credit on each stream
  wireConn,   \* DATA sent and not yet handled, in bytes: all streams
  wire,       \* the same per stream
  lostConn,   \* history: connection credit consumed and never counted here
  lost,       \* history: the same per stream
  total       \* bytes the peer has sent

localVars  == <<connWin, win, pendConn, pend>>
creditVars == <<peerConn, peerWin, total>>
windowsVars == <<iw, target, localVars, sentConn, sent, live, opened, creditVars,
                 wireConn, wire, lostConn, lost>>

MaxOf(a, b) == IF a >= b THEN a ELSE b
MinOf(a, b) == IF a <= b THEN a ELSE b

(* The targets of evaluateRecvWindowUpdate, where 0 means the next default.*)
StreamTarget == IF iw = 0 THEN Default ELSE iw
ConnTarget == IF target = 0 THEN StreamTarget ELSE target

(* The low watermark; the product is taken in uint32_t.                    *)
LowWatermark(t) == ((3 * t) % Word) \div 4

(* Bug: the increment is the whole target.                                 *)
BuggyIncrement(window, t) == IF window < LowWatermark(t) THEN t ELSE 0

Increment(window, t) == IF window < LowWatermark(t) THEN t - window ELSE 0

(* prepareForStart raises a server's connection window to the target.      *)
StartIncrement(server) ==
  IF server /\ target > Default THEN target - Default ELSE 0

WindowsInit ==
  /\ iw \in InitialWindows /\ target \in Targets
  /\ \E server \in BOOLEAN :
       /\ pendConn = StartIncrement(server)
       /\ connWin = Default + StartIncrement(server)
  /\ win = [s \in Streams |-> Default]
  /\ pend = [s \in Streams |-> 0]
  /\ sentConn = 0 /\ sent = [s \in Streams |-> 0]
  /\ live = {} /\ opened = {}
  /\ peerConn = Default /\ peerWin = [s \in Streams |-> iw]
  /\ wireConn = 0 /\ wire = [s \in Streams |-> 0]
  /\ lostConn = 0 /\ lost = [s \in Streams |-> 0]
  /\ total = 0

-----------------------------------------------------------------------------
(* The peer, and the frames on their way.                                  *)

(* HEADERS open a stream; the server may refuse it.                        *)
OpenStream(s, accepted) ==
  /\ s \notin opened
  /\ opened' = opened \cup {s}
  /\ live' = IF accepted THEN live \cup {s} ELSE live
  /\ UNCHANGED <<iw, target, localVars, sentConn, sent, creditVars>>
  /\ UNCHANGED <<wireConn, wire, lostConn, lost>>

(* The peer may not have heard yet that the stream was refused or reset.   *)
PeerSends(s, n) ==
  /\ s \in opened
  /\ n <= peerConn /\ n <= peerWin[s] /\ total + n <= MaxBytes
  /\ peerConn' = peerConn - n
  /\ peerWin' = [peerWin EXCEPT ![s] = @ - n]
  /\ wireConn' = wireConn + n
  /\ wire' = [wire EXCEPT ![s] = @ + n]
  /\ total' = total + n
  /\ UNCHANGED <<iw, target, localVars, sentConn, sent, live, opened, lostConn, lost>>

PeerGetsUpdates ==
  /\ peerConn' = peerConn + sentConn
  /\ peerWin' = [s \in Streams |-> peerWin[s] + sent[s]]
  /\ sentConn' = 0 /\ sent' = [s \in Streams |-> 0]
  /\ UNCHANGED <<iw, target, localVars, live, opened, total>>
  /\ UNCHANGED <<wireConn, wire, lostConn, lost>>

-----------------------------------------------------------------------------
(* The reader.                                                             *)

(* A DATA frame of n + pad bytes leaves the wire.                          *)
Arrives(s, n, pad) ==
  /\ n + pad <= wire[s]
  /\ wireConn' = wireConn - (n + pad)
  /\ wire' = [wire EXCEPT ![s] = @ - (n + pad)]
  /\ UNCHANGED <<iw, target, sentConn, sent, live, opened, creditVars>>

(* Bug: the stream's window is not put up by what it was given.            *)
BuggyApplyRecvWindowUpdate(s, connLeft, left) ==
  LET connUpdate == Increment(connLeft, ConnTarget)
      update == Increment(left, StreamTarget)
  IN  /\ pendConn' = pendConn + connUpdate
      /\ connWin' = connLeft + connUpdate
      /\ pend' = [pend EXCEPT ![s] = @ + update]
      /\ win' = [win EXCEPT ![s] = left]

(* applyRecvWindowUpdate, with what the frame has left of both windows.    *)
ApplyRecvWindowUpdate(s, connLeft, left) ==
  LET connUpdate == Increment(connLeft, ConnTarget)
      update == Increment(left, StreamTarget)
  IN  /\ pendConn' = pendConn + connUpdate
      /\ connWin' = connLeft + connUpdate
      /\ pend' = [pend EXCEPT ![s] = @ + update]
      /\ win' = [win EXCEPT ![s] = left + update]

(* Bug: the stream is refilled only together with the connection.          *)
BuggyRecvData(s, n, pad) ==
  /\ s \in live
  /\ Arrives(s, n, pad)
  /\ IF connWin - n < LowWatermark(ConnTarget)
       THEN ApplyRecvWindowUpdate(s, connWin - n, win[s] - n)
       ELSE /\ connWin' = connWin - n
            /\ win' = [win EXCEPT ![s] = @ - n]
            /\ UNCHANGED <<pendConn, pend>>
  /\ lostConn' = lostConn + pad
  /\ lost' = [lost EXCEPT ![s] = @ + pad]

(* handleDataFrame counts the data without its padding, which the peer's   *)
(* credit pays for too.                                                    *)
RecvData(s, n, pad) ==
  /\ s \in live
  /\ Arrives(s, n, pad)
  /\ ApplyRecvWindowUpdate(s, connWin - n, win[s] - n)
  /\ lostConn' = lostConn + pad
  /\ lost' = [lost EXCEPT ![s] = @ + pad]

(* DATA of a stream that was refused, reset or has ended: answered with    *)
(* RST_STREAM and counted nowhere.                                         *)
RecvDataDropped(s, n) ==
  /\ s \in opened \ live
  /\ Arrives(s, n, 0)
  /\ lostConn' = lostConn + n
  /\ lost' = [lost EXCEPT ![s] = @ + n]
  /\ UNCHANGED localVars

(* The stream is reset or closed on this side.                             *)
CloseStream(s) ==
  /\ s \in live
  /\ live' = live \ {s}
  /\ UNCHANGED <<iw, target, localVars, sentConn, sent, opened, creditVars>>
  /\ UNCHANGED <<wireConn, wire, lostConn, lost>>

(* processPendingActions hands the batch's WINDOW_UPDATEs to the channel.  *)
EndBatch ==
  /\ sentConn' = sentConn + pendConn
  /\ sent' = [s \in Streams |-> sent[s] + pend[s]]
  /\ pendConn' = 0 /\ pend' = [s \in Streams |-> 0]
  /\ UNCHANGED <<iw, target, connWin, win, live, opened, creditVars>>
  /\ UNCHANGED <<wireConn, wire, lostConn, lost>>

-----------------------------------------------------------------------------
WindowsNext ==
  \/ \E s \in Streams :
       \/ \E accepted \in BOOLEAN : OpenStream(s, accepted)
       \/ \E n \in 1 .. MaxBytes : PeerSends(s, n)
       \/ \E n \in 0 .. MaxBytes, pad \in 0 .. MaxPad : RecvData(s, n, pad)
       \/ \E n \in 0 .. MaxBytes : RecvDataDropped(s, n)
       \/ CloseStream(s)
  \/ EndBatch
  \/ PeerGetsUpdates

WindowsSpec == WindowsInit /\ [][WindowsNext]_windowsVars

-----------------------------------------------------------------------------
(* Properties.                                                             *)

WindowsTypeOK ==
  /\ iw \in InitialWindows /\ target \in Targets
  /\ connWin \in Int /\ pendConn \in Int /\ sentConn \in Int
  /\ win \in [Streams -> Int] /\ pend \in [Streams -> Int] /\ sent \in [Streams -> Int]
  /\ live \subseteq opened /\ opened \subseteq Streams
  /\ peerConn \in Int /\ wireConn \in Int /\ lostConn \in Nat /\ total \in Int
  /\ peerWin \in [Streams -> Int] /\ wire \in [Streams -> Int]
  /\ lost \in [Streams -> Nat]

(* Credit the peer holds, has spent on DATA under way, or is about to get  *)
(* back.                                                                   *)
ConnGranted == peerConn + wireConn + pendConn + sentConn
Granted(s) == peerWin[s] + wire[s] + pend[s] + sent[s]

(* Both ends keep the same books: through every batch, refill and race of  *)
(* DATA with WINDOW_UPDATE, the window kept here is what the peer has been *)
(* granted, but for the credit lost on dropped DATA and padding, and for   *)
(* the stream windows that start at the default and not as advertised.     *)
BooksAgree ==
  /\ connWin = ConnGranted + lostConn
  /\ \A s \in Streams : win[s] = Granted(s) + lost[s] + (Default - iw)

(* The peer is never granted more than the larger of the default and the   *)
(* target on the connection; on a stream, more than was advertised only by *)
(* as much as the advertised window exceeds the default.                   *)
GrantBounded ==
  /\ ConnGranted <= MaxOf(Default, ConnTarget)
  /\ \A s \in Streams : Granted(s) <= iw + MaxOf(0, StreamTarget - Default)

(* Credit comes back: when nothing is under way either way, the peer may   *)
(* send up to the low watermark, counting what was lost on dropped DATA    *)
(* and padding and, on a stream, the head start of its window here.        *)
CreditReturns ==
  /\ wireConn = 0 /\ pendConn = 0 /\ sentConn = 0 =>
       peerConn + lostConn >= MinOf(Default, LowWatermark(ConnTarget))
  /\ \A s \in live :
       wire[s] = 0 /\ pend[s] = 0 /\ sent[s] = 0 =>
         peerWin[s] + lost[s] + (Default - iw)
           >= MinOf(Default, LowWatermark(StreamTarget))
=============================================================================
