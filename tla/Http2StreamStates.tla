------------------------- MODULE Http2StreamStates -------------------------
(***************************************************************************)
(* The life-cycle of one HTTP/2 stream as class Http2Stream keeps it:      *)
(* m_state, m_end_stream_received and m_end_stream_sent, and the methods   *)
(* that move them.  A stream value is a record that has at least the       *)
(* fields state, endRecv and endSent; every operator below maps such a     *)
(* record to the record after the call.                                    *)
(*                                                                         *)
(* Module Http2Stream drives these operators from one stream's API and     *)
(* module Http2StreamManager from the frames of a whole connection.        *)
(***************************************************************************)

StreamStates == {"Idle", "ReservedLocal", "ReservedRemote", "Open",
                 "HalfClosedLocal", "HalfClosedRemote", "Closed"}

CanReceiveHeaders(s) ==
  s.state \in {"Idle", "ReservedRemote", "Open", "HalfClosedLocal"}

CanReceiveData(s) == s.state \in {"Open", "HalfClosedLocal"}

-----------------------------------------------------------------------------
(* END_STREAM from the peer, and from us.  A reserved stream keeps its     *)
(* state: only Open and the opposite half-closed state react.              *)

PeerEnds(s) ==
  [s EXCEPT !.endRecv = TRUE,
            !.state = CASE @ = "Open" -> "HalfClosedRemote"
                        [] @ = "HalfClosedLocal" -> "Closed"
                        [] OTHER -> @]

LocalEnds(s) ==
  [s EXCEPT !.endSent = TRUE,
            !.state = CASE @ = "Open" -> "HalfClosedLocal"
                        [] @ = "HalfClosedRemote" -> "Closed"
                        [] OTHER -> @]

OnHeadersReceived(s, end) ==
  LET opened == IF s.state = "Idle" THEN [s EXCEPT !.state = "Open"] ELSE s
  IN  IF end THEN PeerEnds(opened) ELSE opened

OnDataReceived(s, end) == IF end THEN PeerEnds(s) ELSE s

OnHeadersSent(s, end) ==
  LET opened == [s EXCEPT !.state = CASE @ = "Idle" -> "Open"
                                      [] @ = "ReservedLocal" -> "HalfClosedRemote"
                                      [] OTHER -> @]
  IN  IF end THEN LocalEnds(opened) ELSE opened

OnDataSent(s, end) == IF end THEN LocalEnds(s) ELSE s

OnRstStream(s) == [s EXCEPT !.state = "Closed"]

-----------------------------------------------------------------------------
(* Bugs a change to these methods could plausibly introduce.               *)

(* The Idle test of onHeadersReceived is dropped: headers reopen.          *)
BuggyOnHeadersReceived(s, end) ==
  LET opened == [s EXCEPT !.state = "Open"]
  IN  IF end THEN PeerEnds(opened) ELSE opened

(* onHeadersSent opens any stream that is not reserved.                    *)
BuggyOnHeadersSent(s, end) ==
  LET opened == [s EXCEPT !.state = IF @ = "ReservedLocal"
                                      THEN "HalfClosedRemote" ELSE "Open"]
  IN  IF end THEN LocalEnds(opened) ELSE opened
=============================================================================
