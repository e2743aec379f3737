------------------------- MODULE MCHttp2FlowControl -------------------------
(***************************************************************************)
(* Small instances of both directions of a stream's data, which share no   *)
(* state: receiving (Http2FlowControl) or sending (Http2Stream) runs in    *)
(* each behaviour.  The default window for receiving is 8 units, so that   *)
(* its low watermark, 6, is neither the window nor half of it.  The window *)
(* for sending is 2 units of an int32_t of 8 values, -4 to 3, and the      *)
(* increments are 3, the largest one: two of them take the window past the *)
(* largest value and back to a legal one.                                  *)
(***************************************************************************)
EXTENDS Http2FlowControl, Http2SendState, TLC

VARIABLE direction

Sender == INSTANCE Http2Stream

sending == <<life, stream, window, out, written, calls, message, credit, resetRecv>>

Symmetry == Permutations(Streams)

MCInit ==
  /\ direction \in {"receiving", "sending"}
  /\ WindowsInit /\ Sender!Init
  /\ direction = "receiving" => stream = CHOOSE start \in Sender!Starts : TRUE
  /\ direction = "sending" =>
       /\ \A n \in InitialWindows : iw <= n
       /\ \A n \in Targets : target <= n

MCNext ==
  /\ direction' = direction
  /\ \/ direction = "receiving" /\ WindowsNext /\ UNCHANGED sending
     \/ direction = "sending" /\ Sender!Next /\ UNCHANGED windowsVars

MCSpec == MCInit /\ [][MCNext]_<<direction, windowsVars, sending>>
=============================================================================
