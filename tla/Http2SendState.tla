---------------------------- MODULE Http2SendState ----------------------------
(***************************************************************************)
(* The constants and the state of the sending side of a stream, and what   *)
(* its calls promise; Http2Stream has the calls.                           *)
(***************************************************************************)
EXTENDS Integers, Sequences

CONSTANTS
  SendDefault,  \* kDefaultInitialWindowSize, 65535
  SendWord,     \* 2^32, the width of m_send_window
  Sizes,        \* sizes of a DATA payload explored
  Increments,   \* WINDOW_UPDATE increments explored
  MaxChunks,    \* bound: chunks of one call
  MaxCalls,     \* bound: calls
  MaxCredit,    \* bound: credit one stream receives
  MaxLives      \* bound: streams one object serves, one after the other

(* A payload has a size, an increment is 31 bits without a sign, and the   *)
(* default window is an int32_t.                                           *)
ASSUME SendAssumption ==
  /\ Sizes \subseteq Nat /\ Increments \subseteq Nat
  /\ SendWord \in Nat \ {0} /\ SendDefault \in Nat
  /\ {MaxChunks, MaxCalls, MaxCredit, MaxLives} \subseteq Nat

VARIABLES
  life,      \* number of the stream the object serves now
  stream,    \* m_state, m_end_stream_received, m_end_stream_sent
  window,    \* m_send_window
  out,       \* every frame queued on the send channel
  written,   \* how many of them the writer loop has written
  calls,     \* for each call, where it stands with its waiter
  message,   \* what the calls may do next: "headers", "body", "done"
  credit,    \* history: what WINDOW_UPDATEs gave this stream
  resetRecv  \* history: RST_STREAM was received
-----------------------------------------------------------------------------
(* What has been queued for the present stream.                            *)

Frames == {i \in DOMAIN out : out[i].life = life}
Ended == \E i \in Frames : out[i].frame.end
Reset == resetRecv \/ \E i \in Frames : out[i].frame.kind = "rst"

Sums(sizes) ==
  LET upTo[n \in 0 .. Len(sizes)] == IF n = 0 THEN 0 ELSE upTo[n - 1] + sizes[n]
  IN  upTo

Bytes ==
  Sums([i \in DOMAIN out |-> IF i \in Frames THEN out[i].frame.size ELSE 0])[Len(out)]

(* No call sends DATA the peer gave no window for, in a stream whose       *)
(* window overflowed as in any other, in a reused object as in a new one.  *)
NeverOversends == Bytes <= SendDefault + credit

(* The state the calls and the peer left the stream in is the one its      *)
(* frames say: closed by a reset either way or by END_STREAM both ways,    *)
(* half closed by one END_STREAM.  Skipped frames have moved nothing.      *)
StateFromFrames ==
  /\ stream.endSent <=> Ended
  /\ stream.state = "Closed" <=> Reset \/ (Ended /\ stream.endRecv)
  /\ stream.state = "HalfClosedLocal" <=> ~Reset /\ Ended /\ ~stream.endRecv
  /\ stream.state = "HalfClosedRemote" <=> ~Reset /\ ~Ended /\ stream.endRecv

(* The awaitable of a reply* call resumes only when every frame the call   *)
(* queued has been written.                                                *)
AnswerFollowsWholeCall ==
  \A c \in DOMAIN calls :
    calls[c] = "answered" => \A i \in written + 1..Len(out) : out[i].call # c

(* "Send DATA and wait until it is queued": the waiter of every call that  *)
(* waits is in the channel, to be notified when its frame is written.      *)
WaiterIsHeld ==
  \A c \in DOMAIN calls :
    calls[c] = "waiting" =>
      \E i \in written + 1..Len(out) : out[i].call = c /\ out[i].waits
=============================================================================
