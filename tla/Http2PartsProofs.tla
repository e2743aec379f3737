--------------------------- MODULE Http2PartsProofs ---------------------------
(***************************************************************************)
(* Proofs about two of the parts that MCHttp2Parts runs.                   *)
(*                                                                         *)
(* Ready list, mailbox and handler context implement the abstract notices  *)
(* of Http2ActiveEvents, for any streams and events and any max_count.     *)
(* A step of the mailbox changes in which list a stream lies; the notice   *)
(* of the stream depends on that only through Waiting.  The invariant says *)
(* what the mapping needs: between two batches the ready list is empty, a  *)
(* stream that is marked lies in a list unless the handler has it, and the *)
(* handler has seen the end only when nothing is left.                     *)
(*                                                                         *)
(* A request that succeeds returns the whole response to it and nothing    *)
(* else, for any responses a server may give, any number of requests and   *)
(* any way the frames arrive (Http2ClientRequest).  The argument is in     *)
(* front of the invariant, CallInv.                                        *)
(***************************************************************************)
EXTENDS Http2ActiveMailbox, Http2ClientRequest, WellFoundedInduction, TLAPS

MailboxTypes ==
  /\ events \in [Streams -> SUBSET Events]
  /\ queued \in [Streams -> BOOLEAN]
  /\ ready \in Seq(Streams)
  /\ batches \in Seq(Seq(Streams))
  /\ closed \in BOOLEAN /\ ended \in BOOLEAN
  /\ reader \in {"reading", "dispatching", "gone"}
  /\ handler \in {"running", "waiting", "woken"}
  /\ asked \in 1 .. MaxCount
  /\ told \in SUBSET Streams

FlushedBetweenBatches ==
  /\ closed <=> reader = "gone"
  /\ reader # "dispatching" => ready = <<>>

MarkedIsSomewhere == \A s \in Streams : queued[s] => Waiting(s) \/ s \in told

EndIsLast ==
  /\ ended => closed /\ batches = <<>> /\ handler = "running"
  /\ handler = "waiting" => batches = <<>> /\ ~closed

MailboxInv == MailboxTypes /\ FlushedBetweenBatches /\ MarkedIsSomewhere /\ EndIsLast

LEMMA EmptyHasNone == ToSet(<<>>) = {}
  BY DEF ToSet

LEMMA AppendAdds ==
  ASSUME NEW S, NEW seq \in Seq(S), NEW e \in S
  PROVE  /\ Append(seq, e) \in Seq(S)
         /\ ToSet(Append(seq, e)) = ToSet(seq) \cup {e}
<1>1. Append(seq, e) \in Seq(S)
  OBVIOUS
<1>2. ToSet(seq) \cup {e} \subseteq ToSet(Append(seq, e))
  <2>1. ASSUME NEW i \in DOMAIN seq PROVE seq[i] \in ToSet(Append(seq, e))
    <3>1. i \in DOMAIN Append(seq, e) /\ Append(seq, e)[i] = seq[i]
      OBVIOUS
    <3> QED
      BY <3>1 DEF ToSet
  <2>2. e \in ToSet(Append(seq, e))
    <3>1. Len(seq) + 1 \in DOMAIN Append(seq, e) /\ Append(seq, e)[Len(seq) + 1] = e
      OBVIOUS
    <3> QED
      BY <3>1 DEF ToSet
  <2> QED
    BY <2>1, <2>2 DEF ToSet
<1>3. ToSet(Append(seq, e)) \subseteq ToSet(seq) \cup {e}
  <2>1. ASSUME NEW i \in DOMAIN Append(seq, e) PROVE Append(seq, e)[i] \in ToSet(seq) \cup {e}
    <3>1. CASE i = Len(seq) + 1
      BY <3>1
    <3>2. CASE i \in DOMAIN seq
      <4>1. Append(seq, e)[i] = seq[i]
        BY <3>2
      <4> QED
        BY <4>1, <3>2 DEF ToSet
    <3> QED
      BY <3>1, <3>2
  <2> QED
    BY <2>1 DEF ToSet
<1> QED
  BY <1>1, <1>2, <1>3

(* A batch of which the first n streams are given away.                    *)
LEMMA SplitKeeps ==
  ASSUME NEW S, NEW seq \in Seq(S), NEW n \in Nat, n < Len(seq)
  PROVE  /\ SubSeq(seq, n + 1, Len(seq)) \in Seq(S)
         /\ ToSet(SubSeq(seq, 1, n)) \subseteq S
         /\ ToSet(SubSeq(seq, n + 1, Len(seq))) \subseteq ToSet(seq)
         /\ ToSet(seq) \subseteq ToSet(SubSeq(seq, 1, n)) \cup ToSet(SubSeq(seq, n + 1, Len(seq)))
<1> DEFINE a == SubSeq(seq, 1, n)
           b == SubSeq(seq, n + 1, Len(seq))
<1>1. a \in Seq(S) /\ Len(a) = n /\ \A i \in 1 .. n : a[i] = seq[i]
  OBVIOUS
<1>2. b \in Seq(S) /\ Len(b) = Len(seq) - n /\ \A i \in 1 .. Len(seq) - n : b[i] = seq[i + n]
  OBVIOUS
<1> HIDE DEF a, b
<1>3. ToSet(a) \subseteq S
  BY <1>1 DEF ToSet
<1>4. ToSet(b) \subseteq ToSet(seq)
  <2>1. ASSUME NEW i \in DOMAIN b PROVE b[i] \in ToSet(seq)
    <3>1. i + n \in DOMAIN seq /\ b[i] = seq[i + n]
      BY <1>2
    <3> QED
      BY <3>1 DEF ToSet
  <2> QED
    BY <2>1 DEF ToSet
<1>5. ToSet(seq) \subseteq ToSet(a) \cup ToSet(b)
  <2>1. ASSUME NEW i \in DOMAIN seq PROVE seq[i] \in ToSet(a) \cup ToSet(b)
    <3>1. CASE i <= n
      <4>1. i \in DOMAIN a /\ a[i] = seq[i]
        BY <3>1, <1>1
      <4> QED
        BY <4>1 DEF ToSet
    <3>2. CASE i > n
      <4>1. i - n \in DOMAIN b /\ b[i - n] = seq[i]
        BY <3>2, <1>2
      <4> QED
        BY <4>1 DEF ToSet
    <3> QED
      BY <3>1, <3>2
  <2> QED
    BY <2>1 DEF ToSet
<1> QED
  BY <1>2, <1>3, <1>4, <1>5 DEF a, b

-----------------------------------------------------------------------------
(* What the three changes of the mailbox do to where a stream lies.        *)

Lies(bs, s) == \E i \in DOMAIN bs : s \in ToSet(bs[i])

LEMMA FlushedLies ==
  ASSUME NEW S, NEW bs \in Seq(Seq(S)), NEW b \in Seq(S), NEW s
  PROVE  /\ Append(bs, b) \in Seq(Seq(S))
         /\ Lies(Append(bs, b), s) <=> Lies(bs, s) \/ s \in ToSet(b)
<1>1. Append(bs, b) \in Seq(Seq(S))
  OBVIOUS
<1>2. DOMAIN Append(bs, b) = DOMAIN bs \cup {Len(bs) + 1}
  OBVIOUS
<1>3. \A i \in DOMAIN bs : Append(bs, b)[i] = bs[i]
  OBVIOUS
<1>4. Append(bs, b)[Len(bs) + 1] = b
  OBVIOUS
<1> QED
  BY <1>1, <1>2, <1>3, <1>4, Zenon DEF Lies

LEMMA PoppedLies ==
  ASSUME NEW S, NEW bs \in Seq(Seq(S)), bs # <<>>, NEW s
  PROVE  /\ Tail(bs) \in Seq(Seq(S))
         /\ Lies(Tail(bs), s) => Lies(bs, s)
         /\ Lies(bs, s) => Lies(Tail(bs), s) \/ s \in ToSet(Head(bs))
<1>1. Tail(bs) \in Seq(Seq(S))
  OBVIOUS
<1>2. \A i \in DOMAIN Tail(bs) : i + 1 \in DOMAIN bs /\ Tail(bs)[i] = bs[i + 1]
  OBVIOUS
<1>3. \A i \in DOMAIN bs : i = 1 \/ (i - 1 \in DOMAIN Tail(bs) /\ Tail(bs)[i - 1] = bs[i])
  OBVIOUS
<1>4. bs[1] = Head(bs)
  OBVIOUS
<1>5. Lies(Tail(bs), s) => Lies(bs, s)
  BY <1>2, Zenon DEF Lies
<1>6. Lies(bs, s) => Lies(Tail(bs), s) \/ s \in ToSet(Head(bs))
  BY <1>3, <1>4, Zenon DEF Lies
<1> QED
  BY <1>1, <1>5, <1>6

LEMMA CutLies ==
  ASSUME NEW S, NEW bs \in Seq(Seq(S)), bs # <<>>, NEW s, NEW c \in Seq(S), NEW a,
         ToSet(c) \subseteq ToSet(Head(bs)), ToSet(Head(bs)) \subseteq a \cup ToSet(c)
  PROVE  LET cut == [bs EXCEPT ![1] = c]
         IN  /\ cut \in Seq(Seq(S))
             /\ Lies(cut, s) => Lies(bs, s)
             /\ Lies(bs, s) => Lies(cut, s) \/ s \in a
<1> DEFINE cut == [bs EXCEPT ![1] = c]
<1>1. 1 \in DOMAIN bs /\ bs[1] = Head(bs)
  OBVIOUS
<1>2. DOMAIN cut = DOMAIN bs /\ cut[1] = c /\ \A i \in DOMAIN bs : i # 1 => cut[i] = bs[i]
  BY <1>1
<1>3. cut \in Seq(Seq(S))
  BY <1>1
<1> HIDE DEF cut
<1>4. Lies(cut, s) => Lies(bs, s)
  <2> SUFFICES ASSUME NEW i \in DOMAIN bs, s \in ToSet(cut[i]) PROVE s \in ToSet(bs[i])
    BY <1>2, Zenon DEF Lies
  <2> QED
    BY <1>1, <1>2
<1>5. Lies(bs, s) => Lies(cut, s) \/ s \in a
  <2> SUFFICES ASSUME NEW i \in DOMAIN bs, s \in ToSet(bs[i]), s \notin a
               PROVE  s \in ToSet(cut[i])
    BY <1>2, Zenon DEF Lies
  <2> QED
    BY <1>1, <1>2
<1> QED
  BY <1>3, <1>4, <1>5 DEF cut

(* What popBatch takes out of the mailbox the handler has.                 *)
LEMMA PopGives ==
  ASSUME MailboxTypes, batches # <<>>, NEW n \in 1 .. MaxCount, PopBatch(n)
  PROVE  /\ batches' \in Seq(Seq(Streams))
         /\ told \subseteq told' /\ told' \subseteq Streams
         /\ \A s \in Streams : InMailbox(s)' => InMailbox(s)
         /\ \A s \in Streams : InMailbox(s) => InMailbox(s)' \/ s \in told'
<1> DEFINE front == Head(batches)
<1>1. batches \in Seq(Seq(Streams)) /\ told \subseteq Streams /\ n \in Nat
  BY CountsAssumption DEF MailboxTypes
<1>2. front \in Seq(Streams)
  BY <1>1
<1>3. \A s : Lies(batches, s) <=> InMailbox(s)
  BY DEF Lies, InMailbox
<1>4. \A s : Lies(batches', s) <=> InMailbox(s)'
  BY DEF Lies, InMailbox
<1> HIDE DEF front
<1>5. CASE Len(front) <= n
  <2>1. told' = told \cup ToSet(front) /\ batches' = Tail(batches)
    BY <1>5 DEF PopBatch, Given, front
  <2>2. ToSet(front) \subseteq Streams
    BY <1>2 DEF ToSet
  <2>3. ASSUME NEW s PROVE /\ Tail(batches) \in Seq(Seq(Streams))
                           /\ Lies(Tail(batches), s) => Lies(batches, s)
                           /\ Lies(batches, s) => Lies(Tail(batches), s) \/ s \in ToSet(front)
    BY <1>1, PoppedLies, Zenon DEF front
  <2> QED
    BY <1>1, <1>3, <1>4, <2>1, <2>2, <2>3
<1>6. CASE ~(Len(front) <= n)
  <2> DEFINE given == ToSet(SubSeq(front, 1, n))
             rest == SubSeq(front, n + 1, Len(front))
  <2>1. told' = told \cup given /\ batches' = [batches EXCEPT ![1] = rest]
    BY <1>6 DEF PopBatch, Given, front
  <2>2. n < Len(front)
    BY <1>1, <1>2, <1>6
  <2>3. /\ rest \in Seq(Streams) /\ given \subseteq Streams
        /\ ToSet(rest) \subseteq ToSet(front)
        /\ ToSet(front) \subseteq given \cup ToSet(rest)
    BY <1>1, <1>2, <2>2, SplitKeeps
  <2> HIDE DEF given, rest
  <2>4. ASSUME NEW s
        PROVE  /\ batches' \in Seq(Seq(Streams))
               /\ Lies(batches', s) => Lies(batches, s)
               /\ Lies(batches, s) => Lies(batches', s) \/ s \in given
    BY <1>1, <2>1, <2>3, CutLies DEF front
  <2> QED
    BY <1>1, <1>3, <1>4, <2>1, <2>3, <2>4
<1> QED
  BY <1>5, <1>6

(* A mark puts the stream in the ready list, where it was or at the end.   *)
LEMMA MarkAdds ==
  ASSUME MailboxTypes, NEW s \in Streams, NEW new \in SUBSET Events, Mark(s, new)
  PROVE  /\ ready' \in Seq(Streams)
         /\ \A r \in Streams : r \in ToSet(ready)' <=> r \in ToSet(ready) \/ (r = s /\ ~queued[s])
         /\ events' \in [Streams -> SUBSET Events] /\ queued' \in [Streams -> BOOLEAN]
         /\ \A r \in Streams : queued'[r] <=> queued[r] \/ r = s
<1>1. ready' \in Seq(Streams) /\ ToSet(ready') = IF queued[s] THEN ToSet(ready) ELSE ToSet(ready) \cup {s}
  <2>1. ready \in Seq(Streams)
    BY DEF MailboxTypes
  <2>2. CASE queued[s]
    BY <2>1, <2>2 DEF Mark
  <2>3. CASE ~queued[s]
    <3>1. ready' = Append(ready, s)
      BY <2>3 DEF Mark
    <3> QED
      BY <2>1, <2>3, <3>1, AppendAdds
  <2> QED
    BY <2>2, <2>3
<1>2. events' \in [Streams -> SUBSET Events]
  BY DEF Mark, MailboxTypes
<1>3. queued' \in [Streams -> BOOLEAN] /\ \A r \in Streams : queued'[r] <=> queued[r] \/ r = s
  BY DEF Mark, MailboxTypes
<1>4. ToSet(ready)' = ToSet(ready')
  BY DEF ToSet
<1> QED
  BY <1>1, <1>2, <1>3, <1>4

-----------------------------------------------------------------------------
LEMMA InitEstablishes == Init => MailboxInv
<1> SUFFICES ASSUME Init PROVE MailboxInv
  OBVIOUS
<1>1. MailboxTypes
  <2>1. 1 \in 1 .. MaxCount
    BY CountsAssumption
  <2>2. ready \in Seq(Streams) /\ batches \in Seq(Seq(Streams))
    BY DEF Init
  <2>3. events \in [Streams -> SUBSET Events] /\ queued \in [Streams -> BOOLEAN]
    BY DEF Init
  <2> QED
    BY <2>1, <2>2, <2>3 DEF Init, MailboxTypes
<1>2. FlushedBetweenBatches /\ MarkedIsSomewhere /\ EndIsLast
  BY DEF Init, FlushedBetweenBatches, MarkedIsSomewhere, EndIsLast
<1> QED
  BY <1>1, <1>2 DEF MailboxInv

(* The two ways Resume can go.                                             *)
LEMMA ResumeKeeps ==
  ASSUME MailboxInv, NEW n \in 1 .. MaxCount, Resume(n), Runs, ~ended,
         UNCHANGED <<streamVars, ready, closed, reader>>,
         handler' = "running", asked' \in 1 .. MaxCount
  PROVE  MailboxInv'
<1> USE DEF MailboxInv, streamVars
<1>1. CASE batches = <<>>
  <2>1. ended' = closed /\ told' = told /\ batches' = batches
    BY <1>1 DEF Resume
  <2>2. MailboxTypes'
    BY <2>1 DEF MailboxTypes
  <2>3. FlushedBetweenBatches' /\ EndIsLast'
    BY <1>1, <2>1 DEF FlushedBetweenBatches, EndIsLast
  <2>4. MarkedIsSomewhere'
    BY <2>1 DEF MarkedIsSomewhere, Waiting, InMailbox, ToSet
  <2> QED
    BY <2>2, <2>3, <2>4
<1>2. CASE batches # <<>>
  <2>1. PopBatch(n) /\ ended' = ended
    BY <1>2 DEF Resume
  <2>2. /\ batches' \in Seq(Seq(Streams))
        /\ told \subseteq told' /\ told' \subseteq Streams
        /\ \A s \in Streams : InMailbox(s) => InMailbox(s)' \/ s \in told'
    BY <1>2, <2>1, PopGives
  <2>3. MailboxTypes'
    BY <2>1, <2>2 DEF MailboxTypes
  <2>4. FlushedBetweenBatches' /\ EndIsLast'
    BY <2>1 DEF FlushedBetweenBatches, EndIsLast
  <2>5. MarkedIsSomewhere'
    BY <2>2 DEF MarkedIsSomewhere, Waiting, ToSet
  <2> QED
    BY <2>3, <2>4, <2>5
<1> QED
  BY <1>1, <1>2

LEMMA StepKeeps == MailboxInv /\ [Next]_vars => MailboxInv'
<1> SUFFICES ASSUME MailboxInv, [Next]_vars PROVE MailboxInv'
  OBVIOUS
<1> USE DEF MailboxInv, vars, streamVars, boxVars, handlerVars
<1>1. ASSUME NEW s \in Streams, FrameArrives(s) PROVE MailboxInv'
  <2>1. PICK new \in SUBSET Events : Mark(s, new)
    BY <1>1 DEF FrameArrives
  <2>2. /\ reader \in {"reading", "dispatching"} /\ reader' = "dispatching"
        /\ UNCHANGED <<batches, closed, handler, asked, told, ended>>
    BY <1>1 DEF FrameArrives
  <2>3. /\ ready' \in Seq(Streams)
        /\ \A r \in Streams : r \in ToSet(ready)' <=> r \in ToSet(ready) \/ (r = s /\ ~queued[s])
        /\ events' \in [Streams -> SUBSET Events] /\ queued' \in [Streams -> BOOLEAN]
        /\ \A r \in Streams : queued'[r] <=> queued[r] \/ r = s
    BY <2>1, MarkAdds
  <2>4. MailboxTypes'
    BY <2>2, <2>3 DEF MailboxTypes
  <2>5. FlushedBetweenBatches' /\ EndIsLast'
    BY <2>2 DEF FlushedBetweenBatches, EndIsLast
  <2>6. \A r \in Streams : InMailbox(r)' <=> InMailbox(r)
    BY <2>2 DEF InMailbox, ToSet
  <2>7. MarkedIsSomewhere'
    BY <2>2, <2>3, <2>6 DEF MarkedIsSomewhere, Waiting
  <2> QED
    BY <2>4, <2>5, <2>7
<1>2. ASSUME NEW s \in Streams, HeadersDeferred(s) PROVE MailboxInv'
  <2>1. MailboxTypes'
    BY <1>2 DEF HeadersDeferred, MailboxTypes
  <2>2. FlushedBetweenBatches' /\ EndIsLast'
    BY <1>2 DEF HeadersDeferred, FlushedBetweenBatches, EndIsLast
  <2>3. MarkedIsSomewhere'
    BY <1>2 DEF HeadersDeferred, MarkedIsSomewhere, Waiting, InMailbox, ToSet
  <2> QED
    BY <2>1, <2>2, <2>3
<1>3. ASSUME NEW s \in Streams, TakeEvents(s) PROVE MailboxInv'
  <2>1. MailboxTypes'
    BY <1>3 DEF TakeEvents, MailboxTypes
  <2>2. FlushedBetweenBatches' /\ EndIsLast'
    BY <1>3 DEF TakeEvents, FlushedBetweenBatches, EndIsLast
  <2>3. \A r \in Streams : Waiting(r)' <=> Waiting(r)
    BY <1>3 DEF TakeEvents, Waiting, InMailbox, ToSet
  <2>4. \A r \in Streams : queued'[r] => r # s /\ queued[r]
    BY <1>3 DEF TakeEvents, MailboxTypes
  <2>5. MarkedIsSomewhere'
    BY <1>3, <2>3, <2>4 DEF TakeEvents, MarkedIsSomewhere
  <2> QED
    BY <2>1, <2>2, <2>5
<1>4. ASSUME FlushActiveStreams PROVE MailboxInv'
  <2>1. ~closed /\ ~ended
    BY <1>4 DEF FlushActiveStreams, FlushedBetweenBatches, EndIsLast
  <2>2. CASE ready = <<>>
    <3>1. MailboxTypes'
      BY <1>4, <2>2 DEF FlushActiveStreams, MailboxTypes
    <3>2. FlushedBetweenBatches' /\ EndIsLast'
      BY <1>4, <2>2 DEF FlushActiveStreams, FlushedBetweenBatches, EndIsLast
    <3>3. MarkedIsSomewhere'
      BY <1>4, <2>2 DEF FlushActiveStreams, MarkedIsSomewhere, Waiting, InMailbox, ToSet
    <3> QED
      BY <3>1, <3>2, <3>3
  <2>3. CASE ready # <<>>
    <3>1. batches' = Append(batches, ready) /\ ready' = <<>> /\ reader' = "reading"
      BY <1>4, <2>1, <2>3 DEF FlushActiveStreams
    <3>2. handler' = IF handler = "waiting" THEN "woken" ELSE handler
      BY <1>4, <2>1, <2>3 DEF FlushActiveStreams, WakeWaiter
    <3>3. UNCHANGED <<events, queued, closed, asked, told, ended>>
      BY <1>4 DEF FlushActiveStreams
    <3>4. batches' \in Seq(Seq(Streams))
      BY <3>1 DEF MailboxTypes
    <3>5. MailboxTypes'
      BY <3>1, <3>2, <3>3, <3>4 DEF MailboxTypes
    <3>6. FlushedBetweenBatches' /\ EndIsLast'
      BY <1>4, <2>1, <3>1, <3>2, <3>3 DEF FlushActiveStreams, FlushedBetweenBatches, EndIsLast, MailboxTypes
    <3>7. \A s \in Streams : InMailbox(s)' <=> InMailbox(s) \/ s \in ToSet(ready)
      <4>1. \A s : Lies(batches', s) <=> Lies(batches, s) \/ s \in ToSet(ready)
        BY <3>1, FlushedLies DEF MailboxTypes
      <4> QED
        BY <4>1 DEF Lies, InMailbox
    <3>8. MarkedIsSomewhere'
      BY <3>3, <3>7 DEF MarkedIsSomewhere, Waiting
    <3> QED
      BY <3>5, <3>6, <3>8
  <2> QED
    BY <2>2, <2>3
<1>5. ASSUME CloseActiveStreamQueue PROVE MailboxInv'
  <2>1. MailboxTypes'
    BY <1>5 DEF CloseActiveStreamQueue, WakeWaiter, MailboxTypes
  <2>2. FlushedBetweenBatches' /\ EndIsLast'
    BY <1>5 DEF CloseActiveStreamQueue, WakeWaiter, FlushedBetweenBatches, EndIsLast, MailboxTypes
  <2>3. MarkedIsSomewhere'
    BY <1>5 DEF CloseActiveStreamQueue, MarkedIsSomewhere, Waiting, InMailbox, ToSet
  <2> QED
    BY <2>1, <2>2, <2>3
<1>6. ASSUME NEW n \in 1 .. MaxCount, GetActiveStreams(n) PROVE MailboxInv'
  <2>1. CASE closed \/ batches # <<>>
    BY <1>6, <2>1, ResumeKeeps DEF GetActiveStreams
  <2>2. CASE ~(closed \/ batches # <<>>)
    <3>1. MailboxTypes'
      BY <1>6, <2>2 DEF GetActiveStreams, MailboxTypes
    <3>2. FlushedBetweenBatches' /\ EndIsLast'
      BY <1>6, <2>2 DEF GetActiveStreams, FlushedBetweenBatches, EndIsLast
    <3>3. MarkedIsSomewhere'
      BY <1>6, <2>2 DEF GetActiveStreams, MarkedIsSomewhere, Waiting, InMailbox, ToSet
    <3> QED
      BY <3>1, <3>2, <3>3
  <2> QED
    BY <2>1, <2>2
<1>7. ASSUME HandlerResumes PROVE MailboxInv'
  <2>1. ~ended /\ asked \in 1 .. MaxCount
    BY <1>7 DEF HandlerResumes, EndIsLast, MailboxTypes
  <2> QED
    BY <1>7, <2>1, ResumeKeeps DEF HandlerResumes
<1>8. CASE UNCHANGED vars
  <2>1. MailboxTypes' /\ FlushedBetweenBatches' /\ EndIsLast'
    BY <1>8 DEF MailboxTypes, FlushedBetweenBatches, EndIsLast
  <2>2. MarkedIsSomewhere'
    BY <1>8 DEF MarkedIsSomewhere, Waiting, InMailbox, ToSet
  <2> QED
    BY <2>1, <2>2
<1> QED
  BY <1>1, <1>2, <1>3, <1>4, <1>5, <1>6, <1>7, <1>8 DEF Next, Asks

(* Between two batches nothing lies unflushed, a stream that is marked is  *)
(* in a list or with the handler, and the handler waits or has seen the    *)
(* end only over an empty mailbox.                                         *)
THEOREM MailboxInvariant == Spec => []MailboxInv
  BY InitEstablishes, StepKeeps, PTL DEF Spec

-----------------------------------------------------------------------------
(* The refinement: each step of the mailbox is a step of the notices, or   *)
(* changes none.                                                           *)

Notice(s) ==
  IF ~queued[s] THEN "idle" ELSE IF Waiting(s) \/ s \notin told THEN "due" ELSE "told"

Notices == [s \in Streams |-> Notice(s)]

LEMMA ToNext ==
  ASSUME \/ \E s \in Streams, new \in SUBSET Events : Abstract!Post(s, new) \/ Abstract!Defer(s, new)
         \/ \E set \in SUBSET Streams : Abstract!Announce(set)
         \/ \E s \in Streams : Abstract!Take(s)
         \/ Abstract!Finish
         \/ UNCHANGED <<events, Notices, ended>>
  PROVE  [Abstract!Next]_(Abstract!absVars)
  BY DEF Abstract!Next, Abstract!absVars, Notices, Notice

LEMMA SameNotices ==
  ASSUME \A s \in Streams : Notice(s)' = Notice(s)
  PROVE  UNCHANGED Notices
  BY DEF Notices

(* Resume announces what leaves the mailbox, or finishes over an empty one. *)
LEMMA ResumeRefines ==
  ASSUME MailboxInv, NEW n \in 1 .. MaxCount, Resume(n), Runs, ~ended,
         UNCHANGED <<streamVars, ready, closed, reader>>
  PROVE  [Abstract!Next]_(Abstract!absVars)
<1> USE DEF MailboxInv, streamVars
<1>1. CASE batches = <<>>
  <2>1. ended' = closed /\ told' = told /\ batches' = batches
    BY <1>1 DEF Resume
  <2>2. UNCHANGED Notices
    <3>1. \A s \in Streams : Notice(s)' = Notice(s)
      BY <2>1 DEF Notice, Waiting, InMailbox, ToSet
    <3> QED
      BY <3>1, SameNotices
  <2>3. CASE closed
    <3>1. ready = <<>>
      BY <2>3 DEF FlushedBetweenBatches
    <3>2. \A s \in Streams : ~Waiting(s)
      BY <1>1, <3>1, EmptyHasNone DEF Waiting, InMailbox
    <3>3. \A s \in Streams : Notice(s) # "due"
      BY <3>2 DEF MarkedIsSomewhere, Notice
    <3>4. Abstract!Finish
      BY <2>1, <2>2, <2>3, <3>3 DEF Abstract!Finish, Notices, Notice
    <3> QED
      BY <3>4, ToNext
  <2>4. CASE ~closed
    <3>1. ended' = ended
      BY <2>1, <2>4 DEF MailboxTypes
    <3> QED
      BY <2>2, <3>1, ToNext
  <2> QED
    BY <2>3, <2>4
<1>2. CASE batches # <<>>
  <2>1. PopBatch(n) /\ ended' = ended
    BY <1>2 DEF Resume
  <2>2. /\ told \subseteq told'
        /\ \A s \in Streams : InMailbox(s)' => InMailbox(s)
    BY <1>2, <2>1, PopGives
  <2>3. \A s \in Streams : Waiting(s)' => Waiting(s)
    BY <2>2 DEF Waiting, ToSet
  <2>4. \A s \in Streams : Notices'[s] = Notices[s] \/ (Notices[s] = "due" /\ Notices'[s] = "told")
    BY <2>2, <2>3 DEF Notice, Notices
  <2> DEFINE given == {s \in Streams : Notices[s] = "due" /\ Notices'[s] = "told"}
  <2>5. given \in SUBSET Streams /\ \A s \in given : Notices[s] = "due"
    OBVIOUS
  <2>6. Notices' = [s \in Streams |-> IF s \in given THEN "told" ELSE Notices[s]]
    <3>1. Notices' = [s \in Streams |-> Notices'[s]]
      BY DEF Notices
    <3>2. \A s \in Streams : Notices'[s] = IF s \in given THEN "told" ELSE Notices[s]
      BY <2>4
    <3> QED
      BY <3>1, <3>2
  <2> HIDE DEF given
  <2>7. PICK set \in SUBSET Streams : set = given
    BY <2>5
  <2>8. Abstract!Announce(set)
    BY <2>1, <2>5, <2>6, <2>7 DEF Abstract!Announce, Notices, Notice
  <2> QED
    BY <2>8, ToNext
<1> QED
  BY <1>1, <1>2

LEMMA InitRefines == Init => Abstract!Init
<1> SUFFICES ASSUME Init PROVE Abstract!Init
  OBVIOUS
<1>1. Notices = [s \in Streams |-> "idle"]
  BY DEF Init, Notices, Notice
<1> QED
  BY <1>1 DEF Init, Abstract!Init, Notices, Notice

LEMMA StepRefines == MailboxInv /\ [Next]_vars => [Abstract!Next]_(Abstract!absVars)
<1> SUFFICES ASSUME MailboxInv, [Next]_vars PROVE [Abstract!Next]_(Abstract!absVars)
  OBVIOUS
<1> USE DEF MailboxInv, vars, streamVars, boxVars, handlerVars
<1>1. ASSUME NEW s \in Streams, FrameArrives(s) PROVE [Abstract!Next]_(Abstract!absVars)
  <2>1. PICK new \in SUBSET Events : Mark(s, new)
    BY <1>1 DEF FrameArrives
  <2>2. UNCHANGED <<batches, told, ended>>
    BY <1>1 DEF FrameArrives
  <2>3. /\ \A r \in Streams : r \in ToSet(ready)' <=> r \in ToSet(ready) \/ (r = s /\ ~queued[s])
        /\ \A r \in Streams : queued'[r] <=> queued[r] \/ r = s
    BY <2>1, MarkAdds
  <2>4. \A r \in Streams : InMailbox(r)' <=> InMailbox(r)
    BY <2>2 DEF InMailbox, ToSet
  <2>5. \A r \in Streams :
          Notice(r)' = IF r = s /\ Notice(s) = "idle" THEN "due" ELSE Notice(r)
    BY <2>2, <2>3, <2>4 DEF Notice, Waiting
  <2>6. Notices' = [Notices EXCEPT ![s] = IF @ = "idle" THEN "due" ELSE @]
    BY <2>5 DEF Notices
  <2>7. events' = [events EXCEPT ![s] = @ \cup new]
    BY <2>1 DEF Mark
  <2>8. Abstract!Post(s, new)
    BY <2>2, <2>6, <2>7 DEF Abstract!Post, Notices, Notice
  <2> QED
    BY <2>8, ToNext
<1>2. ASSUME NEW s \in Streams, HeadersDeferred(s) PROVE [Abstract!Next]_(Abstract!absVars)
  <2>1. PICK e \in Events : events' = [events EXCEPT ![s] = @ \cup {e}]
    BY <1>2 DEF HeadersDeferred
  <2>2. \A r \in Streams : Notice(r)' = Notice(r)
    BY <1>2 DEF HeadersDeferred, Notice, Waiting, InMailbox, ToSet
  <2>3. UNCHANGED Notices /\ ended' = ended
    BY <1>2, <2>2, SameNotices DEF HeadersDeferred
  <2>4. Abstract!Defer(s, {e})
    BY <2>1, <2>3 DEF Abstract!Defer, Notices, Notice
  <2>5. {e} \in SUBSET Events
    OBVIOUS
  <2> QED
    BY <2>4, <2>5, ToNext
<1>3. ASSUME NEW s \in Streams, TakeEvents(s) PROVE [Abstract!Next]_(Abstract!absVars)
  <2>1. \A r \in Streams : Waiting(r)' <=> Waiting(r)
    BY <1>3 DEF TakeEvents, Waiting, InMailbox, ToSet
  <2>2. \A r \in Streams : queued'[r] <=> r # s /\ queued[r]
    BY <1>3 DEF TakeEvents, MailboxTypes
  <2>3. \A r \in Streams : Notice(r)' = IF r = s THEN "idle" ELSE Notice(r)
    BY <1>3, <2>1, <2>2 DEF TakeEvents, Notice
  <2>4. Notices' = [Notices EXCEPT ![s] = "idle"]
    BY <2>3 DEF Notices
  <2>5. Abstract!Take(s)
    BY <1>3, <2>4 DEF TakeEvents, Abstract!Take, Notices, Notice
  <2> QED
    BY <2>5, ToNext
<1>4. ASSUME FlushActiveStreams PROVE [Abstract!Next]_(Abstract!absVars)
  <2>1. UNCHANGED <<events, queued, told, ended>> /\ ready' = <<>> /\ ~closed
    BY <1>4 DEF FlushActiveStreams, FlushedBetweenBatches
  <2>2. \A s \in Streams : Waiting(s)' <=> Waiting(s)
    <3>1. CASE ready = <<>>
      BY <1>4, <2>1, <3>1 DEF FlushActiveStreams, Waiting, InMailbox, ToSet
    <3>2. CASE ready # <<>>
      <4>1. batches' = Append(batches, ready)
        BY <1>4, <2>1, <3>2 DEF FlushActiveStreams
      <4>2. \A s : Lies(batches', s) <=> Lies(batches, s) \/ s \in ToSet(ready)
        BY <4>1, FlushedLies DEF MailboxTypes
      <4>3. \A s : s \notin ToSet(ready)'
        BY <2>1, EmptyHasNone DEF ToSet
      <4> QED
        BY <4>2, <4>3 DEF Waiting, InMailbox, Lies
    <3> QED
      BY <3>1, <3>2
  <2>3. UNCHANGED Notices
    <3>1. \A s \in Streams : Notice(s)' = Notice(s)
      BY <2>1, <2>2 DEF Notice
    <3> QED
      BY <3>1, SameNotices
  <2> QED
    BY <2>1, <2>3, ToNext
<1>5. ASSUME CloseActiveStreamQueue PROVE [Abstract!Next]_(Abstract!absVars)
  <2>1. \A s \in Streams : Notice(s)' = Notice(s)
    BY <1>5 DEF CloseActiveStreamQueue, Notice, Waiting, InMailbox, ToSet
  <2> QED
    BY <1>5, <2>1, SameNotices, ToNext DEF CloseActiveStreamQueue
<1>6. ASSUME NEW n \in 1 .. MaxCount, GetActiveStreams(n) PROVE [Abstract!Next]_(Abstract!absVars)
  <2>1. CASE closed \/ batches # <<>>
    BY <1>6, <2>1, ResumeRefines DEF GetActiveStreams
  <2>2. CASE ~(closed \/ batches # <<>>)
    <3>1. \A s \in Streams : Notice(s)' = Notice(s)
      BY <1>6, <2>2 DEF GetActiveStreams, Notice, Waiting, InMailbox, ToSet
    <3> QED
      BY <1>6, <2>2, <3>1, SameNotices, ToNext DEF GetActiveStreams
  <2> QED
    BY <2>1, <2>2
<1>7. ASSUME HandlerResumes PROVE [Abstract!Next]_(Abstract!absVars)
  <2>1. ~ended /\ asked \in 1 .. MaxCount
    BY <1>7 DEF HandlerResumes, EndIsLast, MailboxTypes
  <2> QED
    BY <1>7, <2>1, ResumeRefines DEF HandlerResumes
<1>8. CASE UNCHANGED vars
  <2>1. \A s \in Streams : Notice(s)' = Notice(s)
    BY <1>8 DEF Notice, Waiting, InMailbox, ToSet
  <2> QED
    BY <1>8, <2>1, SameNotices, ToNext
<1> QED
  BY <1>1, <1>2, <1>3, <1>4, <1>5, <1>6, <1>7, <1>8 DEF Next, Asks

(* Ready list, batches, waker and context implement the abstract notices:  *)
(* what takeEvents returns and getActiveStreams announces, and when it     *)
(* reports the end, is what Http2ActiveEvents allows.                      *)
THEOREM MailboxRefines == Spec => RefinesNotices
<1>1. Init => Abstract!Init
  BY InitRefines
<1>2. MailboxInv /\ [Next]_vars => [Abstract!Next]_(Abstract!absVars)
  BY StepRefines
<1>3. Spec => []MailboxInv
  BY MailboxInvariant
<1> QED
  BY <1>1, <1>2, <1>3, PTL DEF Spec, RefinesNotices, Abstract!Safe
-----------------------------------------------------------------------------
(***************************************************************************)
(* The requests of a client.                                               *)
(*                                                                         *)
(* All that the server has sent is, in this order, what the machines have  *)
(* read, what is left in the ring and what is under way.  The machine that *)
(* runs has its answer and its open header block from the frames of its    *)
(* own stream among those that are read, whoever read them: frames of the  *)
(* stream that were read before it began there are none, for the stream    *)
(* ids grow.  A server sends the frames of a response in order, no DATA in *)
(* a header block and nothing after the end, so that the answer is the     *)
(* whole response when the machine has read the end.                       *)
(***************************************************************************)
FrameTypes == MessageFrames \cup {"RST_STREAM", "SETTINGS", "SETTINGS_ACK", "PING", "GOAWAY", "broken"}
Parts == Nat \X Carried
Frames == [type : FrameTypes, id : Nat, parts : Seq(Parts), endHeaders : BOOLEAN, endStream : BOOLEAN]
Acks == {Control("SETTINGS_ACK", 0)}
Machines == [phase : {"idle", "run"}, id : Nat, out : Seq(Frames), ack : Seq(Acks),
             block : Seq(Parts), answer : Seq(Parts)]
Outcomes == {"response", "StreamClosed", "RefusedStream", "ProtocolError", "ConnectError", "InternalError"}
Results == [id : Nat, how : Outcomes, answer : Seq(Parts)]

CallTypeOK ==
  /\ machine \in Machines /\ nextId \in Nat \ {0} /\ goaway \in BOOLEAN
  /\ ring \in Seq(Frames) /\ wire \in Seq(Frames) /\ sent \in Seq(Frames)
  /\ requests \in Seq(Frames) /\ results \in Seq(Results) /\ lost \in BOOLEAN
  /\ DOMAIN responder \subseteq Nat /\ responder \in [DOMAIN responder -> Seq(Frames)]

(* Streams have ids that request() has given; the id 0 is the connection's.*)
Numbered(f) == f.id < nextId /\ (f.endStream => f.id # 0)

(* A request has a greater id than those before it; one that was refused   *)
(* before it began has none.                                               *)
IdsInOrder ==
  /\ machine.phase = "run" => machine.id \in 1 .. nextId - 1
  /\ \A i \in 1 .. Len(machine.out) : Numbered(machine.out[i])
  /\ \A i \in 1 .. Len(requests) : Numbered(requests[i])
  /\ DOMAIN responder \subseteq 1 .. nextId - 1
  /\ \A k \in 1 .. Len(results) :
       /\ results[k].id < nextId
       /\ machine.phase = "run" => results[k].id < machine.id
       /\ results[k].how = "response" => results[k].id # 0
       /\ \A j \in 1 .. k - 1 : results[k].id = 0 \/ results[j].id < results[k].id

(* The last of the first n frames that is on the stream leaves its header  *)
(* block open.                                                             *)
OpenBlock(frames, n, id) ==
  \E i \in 1 .. n : /\ OnStream(frames[i], id) /\ ~frames[i].endHeaders
                    /\ \A j \in i + 1 .. n : ~OnStream(frames[j], id)

StreamEnded(id) == \E i \in 1 .. Len(sent) : OnStream(sent[i], id) /\ Ends(sent[i])

(* No DATA in an open header block, and nothing after the end of a stream. *)
SentInOrder(frames) ==
  \A j \in 1 .. Len(frames) :
    /\ frames[j].type = "DATA" => ~OpenBlock(frames, j - 1, frames[j].id)
    /\ frames[j].type \in MessageFrames =>
         \A i \in 1 .. j - 1 : ~(OnStream(frames[i], frames[j].id) /\ Ends(frames[i]))

(* What a server has still to send on a stream goes on in that order.      *)
RestOfResponse(id) ==
  /\ StreamEnded(id) => responder[id] = <<>>
  /\ \A i \in 1 .. Len(responder[id]) :
       /\ OnStream(responder[id][i], id)
       /\ Ends(responder[id][i]) => i = Len(responder[id])
       /\ responder[id][i].type = "DATA" =>
            IF i = 1 THEN ~OpenBlock(sent, Len(sent), id) ELSE responder[id][i - 1].endHeaders

ServerInOrder ==
  /\ SentInOrder(sent)
  /\ \A i \in 1 .. Len(sent) : sent[i].type \in MessageFrames => sent[i].id \in DOMAIN responder
  /\ \A id \in DOMAIN responder : RestOfResponse(id)

(* How many of the frames sent the machines have read.                     *)
Used == Len(sent) - Len(ring) - Len(wire)

(* The machine has what its stream carries among the first n frames.       *)
InStep(m, frames, n) ==
  /\ m.answer \o m.block = Contents(frames, m.id)[n]
  /\ ~OpenBlock(frames, n, m.id) => m.block = <<>>

(* The answer is what the stream carries up to its end.                    *)
Whole(result, frames) ==
  \E i \in 1 .. Len(frames) :
    OnStream(frames[i], result.id) /\ Ends(frames[i]) /\ result.answer = Contents(frames, result.id)[i]

ClientInOrder ==
  /\ Used >= 0
  /\ \A i \in 1 .. Len(ring) : ring[i] = sent[Used + i]
  /\ \A i \in 1 .. Len(wire) : wire[i] = sent[Used + Len(ring) + i]
  /\ machine.phase = "run" => InStep(machine, sent, Used)
  /\ \A k \in 1 .. Len(results) : results[k].how = "response" => Whole(results[k], sent)

CallInv == CallTypeOK /\ IdsInOrder /\ ServerInOrder /\ ClientInOrder

(* Induction, as a fact about sets: what has 0 and the successor of each   *)
(* of its numbers has all of them.                                         *)
LEMMA NatSetInduction ==
  ASSUME NEW S, 0 \in S, \A n \in Nat : n \in S => n + 1 \in S
  PROVE  Nat \subseteq S
<1> DEFINE R == OpToRel(<, Nat)
<1> DEFINE T == Nat \ S
<1>1. IsWellFoundedOn(R, Nat)
  BY NatLessThanWellFounded, Zenon
<1>2. \A x, y \in Nat : <<x, y>> \in R <=> x < y
  BY DEF OpToRel
<1>3. SUFFICES ASSUME T # {} PROVE FALSE
  OBVIOUS
<1> HIDE DEF R, T
<1>4. T \subseteq Nat
  BY DEF T
<1>5. PICK x \in T : \A y \in T : ~(<<y, x>> \in R)
  BY <1>1, <1>3, <1>4, WFMin
<1>6. x \in Nat /\ x # 0 /\ x - 1 \in Nat
  BY DEF T
<1>7. <<x - 1, x>> \in R
  BY <1>2, <1>6
<1>8. x - 1 \notin T
  BY <1>5, <1>7
<1> QED
  BY <1>6, <1>8 DEF T

(* f is what the steps G[1] .. G[n] make of b, one after the other.        *)
Iterated(f, X, n, b, G) ==
  /\ f \in [0 .. n -> X] /\ f[0] = b
  /\ \A i \in 1 .. n : f[i] = G[i][f[i - 1]]

(* A function that is recursive along 0 .. n exists.                       *)
LEMMA RecursiveSequence ==
  ASSUME NEW X, NEW n \in Nat, NEW b \in X, NEW G \in [1 .. n -> [X -> X]]
  PROVE  \E f : Iterated(f, X, n, b, G)
<1> DEFINE Is(f, k) == f[0] = b /\ \A i \in 1 .. k : f[i] = G[i][f[i - 1]]
<1> DEFINE S == {k \in Nat : k <= n => \E f \in [0 .. k -> X] : Is(f, k)}
<1>1. 0 \in S
  <2>1. [i \in 0 .. 0 |-> b] \in [0 .. 0 -> X] /\ Is([i \in 0 .. 0 |-> b], 0)
    OBVIOUS
  <2> QED
    BY <2>1
<1>2. ASSUME NEW k \in Nat, k \in S PROVE k + 1 \in S
  <2>1. SUFFICES ASSUME k + 1 <= n PROVE \E f \in [0 .. k + 1 -> X] : Is(f, k + 1)
    OBVIOUS
  <2>2. PICK f \in [0 .. k -> X] : Is(f, k)
    BY <1>2, <2>1
  <2> DEFINE g == [i \in 0 .. k + 1 |-> IF i = k + 1 THEN G[k + 1][f[k]] ELSE f[i]]
  <2>3. f[k] \in X /\ k + 1 \in 1 .. n
    BY <2>1
  <2>4. g \in [0 .. k + 1 -> X]
    BY <2>3
  <2>5. g[0] = b
    BY <2>2
  <2>6. ASSUME NEW i \in 1 .. k + 1 PROVE g[i] = G[i][g[i - 1]]
    <3>1. CASE i = k + 1
      BY <3>1
    <3>2. CASE i # k + 1
      BY <3>2, <2>2
    <3> QED
      BY <3>1, <3>2
  <2> QED
    BY <2>4, <2>5, <2>6
<1> HIDE DEF S
<1>3. n \in S
  BY <1>1, <1>2, NatSetInduction
<1> QED
  BY <1>3 DEF S, Iterated

(* The equations of Contents.                                              *)
LEMMA ContentsDef ==
  ASSUME NEW frames \in Seq(Frames), NEW id
  PROVE  /\ Contents(frames, id) \in [0 .. Len(frames) -> Seq(Parts)]
         /\ Contents(frames, id)[0] = <<>>
         /\ \A n \in 1 .. Len(frames) :
              Contents(frames, id)[n] =
                IF OnStream(frames[n], id) THEN Contents(frames, id)[n - 1] \o frames[n].parts
                ELSE Contents(frames, id)[n - 1]
<1> DEFINE n == Len(frames)
<1> DEFINE Add(x, f) == IF OnStream(f, id) THEN x \o f.parts ELSE x
<1> DEFINE G == [i \in 1 .. n |-> [x \in Seq(Parts) |-> Add(x, frames[i])]]
<1> DEFINE upTo[k \in 0 .. n] ==
             IF k = 0 THEN <<>>
             ELSE IF OnStream(frames[k], id) THEN upTo[k - 1] \o frames[k].parts
             ELSE upTo[k - 1]
<1>0. <<>> \in Seq(Parts)
  OBVIOUS
<1>a. ASSUME NEW x \in Seq(Parts), NEW i \in 1 .. n PROVE Add(x, frames[i]) \in Seq(Parts)
  <2>0. frames[i] \in Frames
    OBVIOUS
  <2>1. frames[i].parts \in Seq(Parts)
    BY <2>0 DEF Frames
  <2> HIDE DEF n
  <2> QED
    BY <2>1
<1>1. n \in Nat /\ G \in [1 .. n -> [Seq(Parts) -> Seq(Parts)]]
  <2> HIDE DEF Add
  <2> QED
    BY <1>a
<1>2. PICK f : Iterated(f, Seq(Parts), n, <<>>, G)
  <2> HIDE DEF n, G
  <2> QED
    BY <1>0, <1>1, RecursiveSequence, Zenon
<1>3. f = [k \in 0 .. n |-> IF k = 0 THEN <<>>
                            ELSE IF OnStream(frames[k], id) THEN f[k - 1] \o frames[k].parts
                            ELSE f[k - 1]]
  <2>1. f \in [0 .. n -> Seq(Parts)] /\ f[0] = <<>>
    BY <1>2 DEF Iterated
  <2>2. ASSUME NEW k \in 1 .. n PROVE f[k] = Add(f[k - 1], frames[k])
    <3>1. f[k - 1] \in Seq(Parts)
      <4> HIDE DEF n, Add
      <4> QED
        BY <1>1, <2>1
    <3>2. f[k] = G[k][f[k - 1]]
      BY <1>2 DEF Iterated
    <3> HIDE DEF Add, n
    <3> QED
      BY <3>1, <3>2
  <2>3. f = [k \in 0 .. n |-> IF k = 0 THEN <<>> ELSE Add(f[k - 1], frames[k])]
    <3> HIDE DEF n, Add
    <3> QED
      BY <1>1, <2>1, <2>2
  <2> HIDE DEF n
  <2> QED
    BY <2>3, Zenon
<1>4. upTo = [k \in 0 .. n |-> IF k = 0 THEN <<>>
                               ELSE IF OnStream(frames[k], id) THEN upTo[k - 1] \o frames[k].parts
                               ELSE upTo[k - 1]]
  <2> HIDE DEF n
  <2> QED
    BY <1>3, Zenon
<1>5. Contents(frames, id) = upTo
  BY DEF Contents
<1> HIDE DEF upTo
<1>6. upTo[0] = <<>> /\ \A k \in 1 .. n : upTo[k] = Add(upTo[k - 1], frames[k])
  <2> HIDE DEF n
  <2> QED
    BY <1>4, <1>1
<1> DEFINE S == {k \in Nat : k <= n => upTo[k] \in Seq(Parts)}
<1>7. ASSUME NEW k \in Nat, k \in S PROVE k + 1 \in S
  <2>1. SUFFICES ASSUME k + 1 <= n PROVE upTo[k + 1] \in Seq(Parts)
    OBVIOUS
  <2>2. k + 1 \in 1 .. n /\ upTo[k] \in Seq(Parts) /\ k + 1 - 1 = k
    <3> HIDE DEF n
    <3> QED
      BY <1>1, <1>7, <2>1
  <2>3. upTo[k + 1] = Add(upTo[k], frames[k + 1])
    <3> HIDE DEF n, Add
    <3> QED
      BY <2>2, <1>6
  <2> HIDE DEF n, Add
  <2> QED
    BY <2>2, <2>3, <1>a
<1>8. Nat \subseteq S
  <2>1. 0 \in S
    BY <1>0, <1>6, Zenon
  <2> HIDE DEF S
  <2> QED
    BY <2>1, <1>7, NatSetInduction
<1>9. upTo \in [0 .. n -> Seq(Parts)]
  <2>1. \A k \in 0 .. n : upTo[k] \in Seq(Parts)
    <3> HIDE DEF n
    <3> QED
      BY <1>8, <1>1
  <2> HIDE DEF n
  <2> QED
    BY <2>1, <1>4
<1> QED
  BY <1>5, <1>6, <1>9

(* What frames carry does not depend on those behind them.                 *)
LEMMA ContentsAppend ==
  ASSUME NEW frames \in Seq(Frames), NEW f \in Frames, NEW id
  PROVE  /\ \A n \in 0 .. Len(frames) :
              Contents(Append(frames, f), id)[n] = Contents(frames, id)[n]
         /\ Contents(Append(frames, f), id)[Len(frames) + 1] =
              IF OnStream(f, id) THEN Contents(frames, id)[Len(frames)] \o f.parts
              ELSE Contents(frames, id)[Len(frames)]
<1> DEFINE more == Append(frames, f)
<1> DEFINE C == Contents(frames, id)
<1> DEFINE D == Contents(more, id)
<1>1. more \in Seq(Frames) /\ Len(more) = Len(frames) + 1 /\ Len(frames) \in Nat
      /\ (\A n \in 1 .. Len(frames) : more[n] = frames[n]) /\ more[Len(frames) + 1] = f
  OBVIOUS
<1>2. C[0] = <<>> /\ \A n \in 1 .. Len(frames) :
        C[n] = IF OnStream(frames[n], id) THEN C[n - 1] \o frames[n].parts ELSE C[n - 1]
  BY ContentsDef
<1>3. D[0] = <<>> /\ \A n \in 1 .. Len(frames) + 1 :
        D[n] = IF OnStream(more[n], id) THEN D[n - 1] \o more[n].parts ELSE D[n - 1]
  <2> HIDE DEF more
  <2> QED
    BY <1>1, ContentsDef
<1> HIDE DEF more, C, D
<1> DEFINE S == {n \in Nat : n <= Len(frames) => D[n] = C[n]}
<1>4. 0 \in S
  BY <1>2, <1>3
<1>5. ASSUME NEW n \in Nat, n \in S PROVE n + 1 \in S
  <2>1. SUFFICES ASSUME n + 1 <= Len(frames) PROVE D[n + 1] = C[n + 1]
    OBVIOUS
  <2>2. n + 1 \in 1 .. Len(frames) /\ n + 1 \in 1 .. Len(frames) + 1 /\ n + 1 - 1 = n /\ D[n] = C[n]
    BY <1>1, <1>5, <2>1
  <2>3. more[n + 1] = frames[n + 1]
    BY <1>1, <2>2
  <2> QED
    BY <1>2, <1>3, <2>2, <2>3
<1> HIDE DEF S
<1>6. Nat \subseteq S
  BY <1>4, <1>5, NatSetInduction
<1>7. \A n \in 0 .. Len(frames) : D[n] = C[n]
  BY <1>1, <1>6 DEF S
<1>8. D[Len(frames) + 1] = IF OnStream(f, id) THEN C[Len(frames)] \o f.parts ELSE C[Len(frames)]
  <2>1. Len(frames) + 1 \in 1 .. Len(frames) + 1 /\ Len(frames) + 1 - 1 = Len(frames)
        /\ Len(frames) \in 0 .. Len(frames)
    BY <1>1
  <2> QED
    BY <2>1, <1>1, <1>3, <1>7
<1> QED
  BY <1>7, <1>8 DEF C, D, more

(* Frames of other streams add nothing.                                    *)
LEMMA ContentsQuiet ==
  ASSUME NEW frames \in Seq(Frames), NEW id, NEW m \in 0 .. Len(frames),
         \A j \in m + 1 .. Len(frames) : ~OnStream(frames[j], id)
  PROVE  \A n \in m .. Len(frames) : Contents(frames, id)[n] = Contents(frames, id)[m]
<1> DEFINE C == Contents(frames, id)
<1>1. \A n \in 1 .. Len(frames) :
        C[n] = IF OnStream(frames[n], id) THEN C[n - 1] \o frames[n].parts ELSE C[n - 1]
  BY ContentsDef
<1> HIDE DEF C
<1> DEFINE S == {n \in Nat : n \in m .. Len(frames) => C[n] = C[m]}
<1>2. 0 \in S
  OBVIOUS
<1>3. ASSUME NEW n \in Nat, n \in S PROVE n + 1 \in S
  <2>1. SUFFICES ASSUME n + 1 \in m .. Len(frames) PROVE C[n + 1] = C[m]
    OBVIOUS
  <2>2. CASE n + 1 = m
    BY <2>2
  <2>3. CASE n + 1 # m
    <3>1. n \in m .. Len(frames) /\ n + 1 \in m + 1 .. Len(frames) /\ n + 1 \in 1 .. Len(frames)
          /\ n + 1 - 1 = n
      BY <2>1, <2>3
    <3> QED
      BY <1>1, <1>3, <3>1
  <2> QED
    BY <2>2, <2>3
<1> HIDE DEF S
<1>4. Nat \subseteq S
  BY <1>2, <1>3, NatSetInduction
<1> QED
  BY <1>4 DEF S, C

(* Whether a header block is open after one more frame.                    *)
LEMMA OpenBlockStep ==
  ASSUME NEW frames \in Seq(Frames), NEW id, NEW n \in 1 .. Len(frames)
  PROVE  OpenBlock(frames, n, id) <=> IF OnStream(frames[n], id) THEN ~frames[n].endHeaders
                                      ELSE OpenBlock(frames, n - 1, id)
<1>1. CASE OnStream(frames[n], id)
  <2>1. CASE frames[n].endHeaders
    <3>1. SUFFICES ASSUME NEW i \in 1 .. n, OnStream(frames[i], id), ~frames[i].endHeaders,
                          \A j \in i + 1 .. n : ~OnStream(frames[j], id)
                   PROVE  FALSE
      BY <1>1, <2>1 DEF OpenBlock
    <3>2. i # n
      BY <2>1, <3>1
    <3>3. n \in i + 1 .. n
      BY <3>2
    <3> QED
      BY <1>1, <3>1, <3>3
  <2>2. CASE ~frames[n].endHeaders
    <3>1. n \in 1 .. n /\ \A j \in n + 1 .. n : ~OnStream(frames[j], id)
      OBVIOUS
    <3> QED
      BY <1>1, <2>2, <3>1 DEF OpenBlock
  <2> QED
    BY <2>1, <2>2
<1>2. CASE ~OnStream(frames[n], id)
  <2>1. ASSUME OpenBlock(frames, n, id) PROVE OpenBlock(frames, n - 1, id)
    <3>1. PICK i \in 1 .. n : /\ OnStream(frames[i], id) /\ ~frames[i].endHeaders
                              /\ \A j \in i + 1 .. n : ~OnStream(frames[j], id)
      BY <2>1 DEF OpenBlock
    <3>2. i \in 1 .. n - 1 /\ \A j \in i + 1 .. n - 1 : j \in i + 1 .. n
      BY <1>2, <3>1
    <3> QED
      BY <3>1, <3>2 DEF OpenBlock
  <2>2. ASSUME OpenBlock(frames, n - 1, id) PROVE OpenBlock(frames, n, id)
    <3>1. PICK i \in 1 .. n - 1 : /\ OnStream(frames[i], id) /\ ~frames[i].endHeaders
                                  /\ \A j \in i + 1 .. n - 1 : ~OnStream(frames[j], id)
      BY <2>2 DEF OpenBlock
    <3>2. i \in 1 .. n /\ \A j \in i + 1 .. n : j = n \/ j \in i + 1 .. n - 1
      OBVIOUS
    <3> QED
      BY <1>2, <3>1, <3>2 DEF OpenBlock
  <2> QED
    BY <1>2, <2>1, <2>2
<1> QED
  BY <1>1, <1>2

LEMMA OpenBlockAppend ==
  ASSUME NEW frames \in Seq(Frames), NEW f \in Frames, NEW id, NEW n \in 0 .. Len(frames)
  PROVE  OpenBlock(Append(frames, f), n, id) <=> OpenBlock(frames, n, id)
<1>1. \A i \in 1 .. n : Append(frames, f)[i] = frames[i]
  OBVIOUS
<1>2. \A i \in 1 .. n : \A j \in i + 1 .. n : j \in 1 .. n
  OBVIOUS
<1> QED
  BY <1>1, <1>2 DEF OpenBlock

-----------------------------------------------------------------------------
(***************************************************************************)
(* consumeResponseFrames.                                                  *)
(***************************************************************************)
Heard == [id : Nat, ack : Seq(Acks), block : Seq(Parts), answer : Seq(Parts), goaway : BOOLEAN,
          done : Outcomes \cup {"reading"}, rest : Seq(Frames)]

LEMMA HeardFields ==
  ASSUME NEW h \in Heard
  PROVE  /\ h.id \in Nat /\ h.ack \in Seq(Acks) /\ h.block \in Seq(Parts) /\ h.answer \in Seq(Parts)
         /\ h.goaway \in BOOLEAN /\ h.done \in Outcomes \cup {"reading"} /\ h.rest \in Seq(Frames)
BY DEF Heard

LEMMA FrameFields ==
  ASSUME NEW f \in Frames
  PROVE  f.type \in FrameTypes /\ f.id \in Nat /\ f.parts \in Seq(Parts)
         /\ f.endHeaders \in BOOLEAN /\ f.endStream \in BOOLEAN
BY DEF Frames

LEMMA DecodedType ==
  ASSUME NEW h \in Heard, NEW f \in Frames PROVE Decoded(h, f) \in Heard
<1>1. f.parts \in Seq(Parts) /\ h.block \in Seq(Parts) /\ h.answer \in Seq(Parts)
  BY HeardFields, FrameFields
<1>2. h.block \o f.parts \in Seq(Parts)
  BY <1>1
<1>3. h.answer \o (h.block \o f.parts) \in Seq(Parts)
  BY <1>1, <1>2
<1>4. [h EXCEPT !.block = @ \o f.parts] \in Heard
  BY <1>2 DEF Heard
<1>5. [h EXCEPT !.answer = @ \o (h.block \o f.parts)] \in Heard
  BY <1>3 DEF Heard
<1>6. ASSUME NEW g \in Heard PROVE [g EXCEPT !.block = <<>>] \in Heard
  <2>1. <<>> \in Seq(Parts)
    OBVIOUS
  <2> QED
    BY <2>1 DEF Heard
<1> QED
  BY <1>4, <1>5, <1>6 DEF Decoded

LEMMA DoneType ==
  ASSUME NEW h \in Heard, NEW how \in Outcomes PROVE Done(h, how) \in Heard
BY DEF Done, Heard

LEMMA ConsumeType ==
  ASSUME NEW h \in Heard, NEW f \in Frames PROVE Consume(h, f) \in Heard
<1>1. ASSUME f.type \in StreamFrames PROVE ConsumeOwn(h, f) \in Heard
  <2>1. Decoded(h, f) \in Heard /\ Done(Decoded(h, f), "response") \in Heard
        /\ Done(h, "StreamClosed") \in Heard
    BY DecodedType, DoneType DEF Outcomes
  <2> DEFINE more == [h EXCEPT !.answer = @ \o f.parts]
  <2>2. more \in Heard
    <3>0. h.answer \in Seq(Parts) /\ f.parts \in Seq(Parts)
      BY HeardFields, FrameFields
    <3>1. h.answer \o f.parts \in Seq(Parts)
      BY <3>0
    <3> QED
      BY <3>1 DEF Heard
  <2>3. Done(more, "response") \in Heard
    <3> HIDE DEF more
    <3> QED
      BY <2>2, DoneType DEF Outcomes
  <2> HIDE DEF more
  <2>4. ConsumeOwn(h, f) \in {Decoded(h, f), Done(Decoded(h, f), "response"), more,
                              Done(more, "response"), Done(h, "StreamClosed")}
    BY <1>1 DEF ConsumeOwn, StreamFrames, MessageFrames, more
  <2> QED
    BY <2>1, <2>2, <2>3, <2>4
<1>2. ConsumeConnection(h, f) \in Heard
  <2>1. [h EXCEPT !.ack = <<Control("SETTINGS_ACK", 0)>>] \in Heard
    <3>1. <<Control("SETTINGS_ACK", 0)>> \in Seq(Acks)
      BY DEF Acks
    <3> QED
      BY <3>1 DEF Heard
  <2>2. [h EXCEPT !.goaway = TRUE] \in Heard
    BY DEF Heard
  <2>3. Done([h EXCEPT !.goaway = TRUE], "RefusedStream") \in Heard
        /\ Done([h EXCEPT !.goaway = TRUE], "ProtocolError") \in Heard
        /\ Done(h, "ProtocolError") \in Heard
    BY <2>2, DoneType DEF Outcomes
  <2> QED
    BY <2>1, <2>3 DEF ConsumeConnection
<1> QED
  BY <1>1, <1>2 DEF Consume

LEMMA ReadType ==
  ASSUME NEW h \in Heard, NEW f \in Frames PROVE Read(h, f) \in Heard
<1>0. h.rest \in Seq(Frames)
  BY HeardFields
<1>1. Append(h.rest, f) \in Seq(Frames)
  BY <1>0
<1>2. [h EXCEPT !.rest = Append(@, f)] \in Heard
  BY <1>1 DEF Heard
<1> QED
  BY <1>2, ConsumeType DEF Read

Start(m) == [id |-> m.id, ack |-> m.ack, block |-> m.block, answer |-> m.answer,
             goaway |-> goaway, done |-> "reading", rest |-> <<>>]

(* The equations of Reads.                                                 *)
LEMMA ReadsDef ==
  ASSUME NEW m \in Machines, NEW frames \in Seq(Frames), goaway \in BOOLEAN
  PROVE  /\ Start(m) \in Heard
         /\ Reads(m, frames) \in [0 .. Len(frames) -> Heard]
         /\ Reads(m, frames)[0] = Start(m)
         /\ \A n \in 1 .. Len(frames) :
              Reads(m, frames)[n] = Read(Reads(m, frames)[n - 1], frames[n])
<1> DEFINE n == Len(frames)
<1> DEFINE G == [i \in 1 .. n |-> [h \in Heard |-> Read(h, frames[i])]]
<1> DEFINE read[k \in 0 .. n] == IF k = 0 THEN Start(m) ELSE Read(read[k - 1], frames[k])
<1>0. Start(m) \in Heard
  BY DEF Start, Heard, Machines
<1>a. \A i \in 1 .. n : frames[i] \in Frames
  OBVIOUS
<1>b. \A h \in Heard : \A i \in 1 .. n : Read(h, frames[i]) \in Heard
  BY <1>a, ReadType
<1>1. n \in Nat /\ G \in [1 .. n -> [Heard -> Heard]]
  BY <1>b
<1>2. PICK f : Iterated(f, Heard, n, Start(m), G)
  <2> HIDE DEF n, G
  <2> QED
    BY <1>0, <1>1, RecursiveSequence, Zenon
<1>3. f = [k \in 0 .. n |-> IF k = 0 THEN Start(m) ELSE Read(f[k - 1], frames[k])]
  <2>1. f \in [0 .. n -> Heard] /\ f[0] = Start(m)
    BY <1>2 DEF Iterated
  <2>2. ASSUME NEW k \in 1 .. n PROVE f[k] = Read(f[k - 1], frames[k])
    <3>1. f[k - 1] \in Heard
      <4> HIDE DEF n
      <4> QED
        BY <1>1, <2>1
    <3>2. f[k] = G[k][f[k - 1]]
      BY <1>2 DEF Iterated
    <3> QED
      BY <3>1, <3>2
  <2> HIDE DEF n
  <2> QED
    BY <1>1, <2>1, <2>2
<1>4. read = [k \in 0 .. n |-> IF k = 0 THEN Start(m) ELSE Read(read[k - 1], frames[k])]
  <2> HIDE DEF n
  <2> QED
    BY <1>3, Zenon
<1>5. Reads(m, frames) = read
  BY DEF Reads, Start
<1> HIDE DEF read
<1>6. read[0] = Start(m) /\ \A k \in 1 .. n : read[k] = Read(read[k - 1], frames[k])
  <2> HIDE DEF n
  <2> QED
    BY <1>4, <1>1
<1> DEFINE S == {k \in Nat : k <= n => read[k] \in Heard}
<1>7. ASSUME NEW k \in Nat, k \in S PROVE k + 1 \in S
  <2>1. SUFFICES ASSUME k + 1 <= n PROVE read[k + 1] \in Heard
    OBVIOUS
  <2>2. k + 1 \in 1 .. n /\ read[k] \in Heard /\ k + 1 - 1 = k
    <3> HIDE DEF n
    <3> QED
      BY <1>1, <1>7, <2>1
  <2> HIDE DEF n
  <2> QED
    BY <2>2, <1>6, <1>b
<1>8. Nat \subseteq S
  <2>1. 0 \in S
    BY <1>0, <1>6, Zenon
  <2> HIDE DEF S
  <2> QED
    BY <2>1, <1>7, NatSetInduction
<1>9. read \in [0 .. n -> Heard]
  <2>1. \A k \in 0 .. n : read[k] \in Heard
    <3> HIDE DEF n
    <3> QED
      BY <1>8, <1>1
  <2> HIDE DEF n
  <2> QED
    BY <2>1, <1>4
<1> QED
  BY <1>0, <1>5, <1>6, <1>9

LEMMA Concat ==
  ASSUME NEW x \in Seq(Parts), NEW y \in Seq(Parts), NEW z \in Seq(Parts)
  PROVE  (x \o y) \o z = x \o (y \o z) /\ x \o <<>> = x /\ x \o y \in Seq(Parts)
OBVIOUS

(* The frame behind the place k of frames.                                 *)
LEMMA NextFrame ==
  ASSUME NEW frames \in Seq(Frames), NEW k \in Nat, k + 1 <= Len(frames), NEW id
  PROVE  /\ k + 1 \in 1 .. Len(frames) /\ k + 1 - 1 = k /\ k + 1 \in 1 .. k + 1 /\ k + 1 - 0 = k + 1
         /\ frames[k + 1] \in Frames
         /\ Contents(frames, id)[k] \in Seq(Parts)
         /\ Contents(frames, id)[k + 1] =
              IF OnStream(frames[k + 1], id) THEN Contents(frames, id)[k] \o frames[k + 1].parts
              ELSE Contents(frames, id)[k]
         /\ OpenBlock(frames, k + 1, id) <=> IF OnStream(frames[k + 1], id) THEN ~frames[k + 1].endHeaders
                                             ELSE OpenBlock(frames, k, id)
<1>1. k + 1 \in 1 .. Len(frames) /\ k + 1 - 1 = k /\ k \in 0 .. Len(frames)
      /\ k + 1 \in 1 .. k + 1 /\ k + 1 - 0 = k + 1
  OBVIOUS
<1>2. frames[k + 1] \in Frames
  BY <1>1
<1>3. Contents(frames, id)[k + 1] =
        IF OnStream(frames[k + 1], id) THEN Contents(frames, id)[k + 1 - 1] \o frames[k + 1].parts
        ELSE Contents(frames, id)[k + 1 - 1]
  BY <1>1, ContentsDef
<1>4. Contents(frames, id)[k] \in Seq(Parts)
  <2>1. Contents(frames, id) \in [0 .. Len(frames) -> Seq(Parts)]
    BY ContentsDef
  <2> QED
    BY <1>1, <2>1
<1>5. OpenBlock(frames, k + 1, id) <=> IF OnStream(frames[k + 1], id) THEN ~frames[k + 1].endHeaders
                                       ELSE OpenBlock(frames, k + 1 - 1, id)
  BY <1>1, OpenBlockStep
<1> QED
  BY <1>1, <1>2, <1>3, <1>4, <1>5

(* What a machine that has read the first k frames knows: as long as it    *)
(* reads, all that its stream carries; then, what it carries up to the     *)
(* last frame that was read, with the others in rest.                      *)
RestFollows(h, frames, k) ==
  /\ Len(h.rest) <= k
  /\ \A i \in 1 .. Len(h.rest) : h.rest[i] = frames[k - Len(h.rest) + i]

EndsAt(h, id, frames, k) ==
  OnStream(frames[k], id) /\ Ends(frames[k]) /\ h.answer = Contents(frames, id)[k]

Follows(h, id, frames, k) ==
  /\ h.id = id
  /\ RestFollows(h, frames, k)
  /\ h.done = "reading" => h.rest = <<>> /\ InStep(h, frames, k)
  /\ h.done = "response" => k - Len(h.rest) \in 1 .. k /\ EndsAt(h, id, frames, k - Len(h.rest))

LEMMA RestFollowsFrom ==
  ASSUME NEW h, NEW frames, NEW k, Len(h.rest) <= k,
         \A i \in 1 .. Len(h.rest) : h.rest[i] = frames[k - Len(h.rest) + i]
  PROVE  RestFollows(h, frames, k)
BY DEF RestFollows

(* A machine that reads no further.                                        *)
LEMMA FollowsFrom ==
  ASSUME NEW h, NEW frames, NEW k, NEW id, h.done # "reading", h.id = id, RestFollows(h, frames, k),
         h.done = "response" => k - Len(h.rest) \in 1 .. k /\ EndsAt(h, id, frames, k - Len(h.rest))
  PROVE  Follows(h, id, frames, k)
BY DEF Follows

LEMMA EmptyRest ==
  ASSUME NEW h, h.rest = <<>>, NEW frames, NEW k \in Nat
  PROVE  RestFollows(h, frames, k + 1) /\ Len(h.rest) = 0
<1>1. Len(<<>>) = 0 /\ 0 <= k + 1 /\ 1 .. 0 = {}
  OBVIOUS
<1> QED
  BY <1>1 DEF RestFollows

(* Frames of its own stream.                                               *)
LEMMA OwnFrame ==
  ASSUME NEW frames \in Seq(Frames), SentInOrder(frames), NEW k \in Nat, k + 1 <= Len(frames),
         NEW h \in Heard, h.done = "reading", Follows(h, h.id, frames, k),
         OnStream(frames[k + 1], h.id)
  PROVE  Follows(ConsumeOwn(h, frames[k + 1]), h.id, frames, k + 1)
<1> DEFINE f == frames[k + 1]
<1> DEFINE C == Contents(frames, h.id)
<1>1. /\ f \in Frames /\ C[k] \in Seq(Parts) /\ C[k + 1] = C[k] \o f.parts
      /\ OpenBlock(frames, k + 1, h.id) <=> ~f.endHeaders
  BY NextFrame
<1>2. h.rest = <<>> /\ h.answer \o h.block = C[k] /\ (~OpenBlock(frames, k, h.id) => h.block = <<>>)
  BY DEF Follows, InStep
<1>3. f.parts \in Seq(Parts) /\ h.block \in Seq(Parts) /\ h.answer \in Seq(Parts)
      /\ f.endHeaders \in BOOLEAN /\ f.endStream \in BOOLEAN
  BY <1>1, FrameFields, HeardFields
<1>5. f.type = "DATA" => ~OpenBlock(frames, k, h.id)
  <2>1. k + 1 \in 1 .. Len(frames) /\ k + 1 - 1 = k
    BY NextFrame
  <2>2. \A j \in 1 .. Len(frames) :
          frames[j].type = "DATA" => ~OpenBlock(frames, j - 1, frames[j].id)
    BY DEF SentInOrder
  <2>3. f.type = "DATA" => ~OpenBlock(frames, k + 1 - 1, f.id)
    BY <2>1, <2>2
  <2>4. f.id = h.id
    BY DEF OnStream
  <2> QED
    BY <2>1, <2>3, <2>4, Zenon
<1>6. f.type \in {"HEADERS", "CONTINUATION", "DATA"} /\ OnStream(f, h.id)
  BY DEF OnStream, MessageFrames
<1> HIDE DEF f, C
<1>4. h.answer \o (h.block \o f.parts) = C[k + 1] /\ h.block \o f.parts \in Seq(Parts)
  <2>1. (h.answer \o h.block) \o f.parts = h.answer \o (h.block \o f.parts)
    <3>1. h.answer \in Seq(Parts)
      BY <1>3
    <3>2. h.block \in Seq(Parts)
      BY <1>3
    <3>3. f.parts \in Seq(Parts)
      BY <1>3
    <3> DEFINE x == h.answer
    <3> DEFINE y == h.block
    <3> DEFINE z == f.parts
    <3> HIDE DEF x, y, z
    <3>4. (x \o y) \o z = x \o (y \o z)
      <4>1. x \in Seq(Parts) /\ y \in Seq(Parts) /\ z \in Seq(Parts)
        BY <3>1, <3>2, <3>3 DEF x, y, z
      <4> QED
        BY <4>1, Concat
    <3> QED
      BY <3>4 DEF x, y, z
  <2>2. h.block \o f.parts \in Seq(Parts)
    BY <1>3, Concat, Zenon
  <2> QED
    BY <1>1, <1>2, <2>1, <2>2
<1> DEFINE g == Decoded(h, f)
<1>7. /\ g \in Heard /\ g.id = h.id /\ g.done = "reading" /\ g.rest = <<>>
      /\ g.answer \o g.block = C[k + 1]
      /\ f.endHeaders => g.block = <<>> /\ g.answer = C[k + 1]
  <2>1. g \in Heard
    BY <1>1, DecodedType
  <2>2. CASE f.endHeaders
    <3>1. g = [[h EXCEPT !.answer = @ \o (h.block \o f.parts)] EXCEPT !.block = <<>>]
      BY <2>2 DEF Decoded
    <3>2. /\ g.id = h.id /\ g.done = h.done /\ g.rest = h.rest /\ g.block = <<>>
          /\ g.answer = h.answer \o (h.block \o f.parts)
      BY <3>1 DEF Heard
    <3>3. C[k + 1] \o <<>> = C[k + 1]
      <4>1. C[k + 1] \in Seq(Parts)
        <5>1. h.answer \o (h.block \o f.parts) \in Seq(Parts)
          BY <1>3, <1>4, Concat, Zenon
        <5> QED
          BY <1>4, <5>1
      <4> QED
        BY <4>1, Concat
    <3> HIDE DEF g
    <3> QED
      BY <2>1, <3>2, <3>3, <1>2, <1>4
  <2>3. CASE ~f.endHeaders
    <3>1. g = [h EXCEPT !.block = @ \o f.parts]
      BY <2>3 DEF Decoded
    <3>2. /\ g.id = h.id /\ g.done = h.done /\ g.rest = h.rest /\ g.block = h.block \o f.parts
          /\ g.answer = h.answer
      BY <3>1 DEF Heard
    <3> HIDE DEF g
    <3> QED
      BY <2>1, <2>3, <3>2, <1>2, <1>4
  <2> QED
    BY <2>2, <2>3, <1>3
<1> DEFINE d == [h EXCEPT !.answer = @ \o f.parts]
<1>8. ASSUME f.type = "DATA"
      PROVE  /\ d \in Heard /\ d.id = h.id /\ d.done = "reading" /\ d.rest = <<>>
             /\ d.answer = C[k + 1] /\ d.block = <<>> /\ d.answer \o d.block = C[k + 1]
  <2>1. h.answer \o f.parts \in Seq(Parts)
    BY <1>3, Concat
  <2>2. /\ d \in Heard /\ d.id = h.id /\ d.done = h.done /\ d.rest = h.rest /\ d.block = h.block
        /\ d.answer = h.answer \o f.parts
    BY <2>1 DEF Heard
  <2> HIDE DEF d
  <2>3. d.block = <<>>
    BY <1>2, <1>5, <1>8, <2>2
  <2>4. h.answer = C[k]
    <3>1. h.answer \o <<>> = h.answer
      BY <1>3, Concat
    <3> QED
      BY <1>2, <1>5, <1>8, <3>1
  <2>5. d.answer = C[k + 1]
    BY <1>1, <2>2, <2>4
  <2>6. d.answer \o <<>> = d.answer
    BY <2>1, <2>2, Concat
  <2> QED
    BY <1>2, <2>2, <2>3, <2>5, <2>6
<1> HIDE DEF g, d
  (* The two ways to go on: to the next frame, or with the response. *)
<1>9. ASSUME NEW x \in Heard, x.id = h.id, x.done = "reading", x.rest = <<>>,
             x.answer \o x.block = C[k + 1], f.endHeaders => x.block = <<>>
      PROVE  Follows(x, h.id, frames, k + 1)
  <2>1. RestFollows(x, frames, k + 1)
    BY <1>9, EmptyRest
  <2>2. InStep(x, frames, k + 1)
    BY <1>1, <1>9, <1>3 DEF InStep, C
  <2> QED
    BY <1>9, <2>1, <2>2 DEF Follows
<1>10. ASSUME NEW x \in Heard, x.id = h.id, x.rest = <<>>, x.answer = C[k + 1], Ends(f)
       PROVE  Follows(Done(x, "response"), h.id, frames, k + 1)
  <2> DEFINE y == Done(x, "response")
  <2>1. y.id = h.id /\ y.rest = <<>> /\ y.answer = C[k + 1] /\ y.done = "response"
    BY <1>10 DEF Done, Heard
  <2> HIDE DEF y
  <2>2. RestFollows(y, frames, k + 1) /\ Len(y.rest) = 0
    BY <2>1, EmptyRest
  <2>3. k + 1 - Len(y.rest) = k + 1 /\ k + 1 \in 1 .. k + 1
    BY <2>2, NextFrame
  <2>4. EndsAt(y, h.id, frames, k + 1)
    BY <2>1, <1>6, <1>10 DEF f, C, EndsAt
  <2>6. k + 1 - Len(y.rest) \in 1 .. k + 1 /\ EndsAt(y, h.id, frames, k + 1 - Len(y.rest))
    BY <2>3, <2>4, Zenon
  <2>7. y.done # "reading"
    BY <2>1
  <2>5. Follows(y, h.id, frames, k + 1)
    BY <2>1, <2>2, <2>6, <2>7 DEF Follows
  <2> QED
    BY <2>5 DEF y
<1>11. CASE f.type = "HEADERS" /\ f.endHeaders /\ f.endStream
  <2>1. Ends(f)
    BY <1>11 DEF Ends
  <2>2. ConsumeOwn(h, f) = Done(g, "response")
    BY <1>11 DEF ConsumeOwn, g
  <2> QED
    BY <1>7, <1>10, <1>11, <2>1, <2>2 DEF f
<1>12. CASE (f.type = "HEADERS" /\ ~(f.endHeaders /\ f.endStream)) \/ f.type = "CONTINUATION"
  <2>1. ConsumeOwn(h, f) = g
    BY <1>12 DEF ConsumeOwn, g
  <2> QED
    BY <1>7, <1>9, <2>1 DEF f
<1>13. CASE f.type = "DATA"
  <2>1. CASE f.endStream
    <3>1. Ends(f)
      BY <1>13, <2>1 DEF Ends
    <3>2. ConsumeOwn(h, f) = Done(d, "response")
      BY <1>13, <2>1 DEF ConsumeOwn, d
    <3> QED
      BY <1>8, <1>10, <1>13, <3>1, <3>2 DEF f
  <2>2. CASE ~f.endStream
    <3>1. ConsumeOwn(h, f) = d
      BY <1>13, <2>2 DEF ConsumeOwn, d
    <3> QED
      BY <1>8, <1>9, <1>13, <3>1 DEF f
  <2> QED
    BY <2>1, <2>2
<1> QED
  BY <1>6, <1>11, <1>12, <1>13

(* Any frame.                                                              *)
LEMMA ReadFollows ==
  ASSUME NEW frames \in Seq(Frames), SentInOrder(frames), NEW k \in Nat, k + 1 <= Len(frames),
         NEW h \in Heard, Follows(h, h.id, frames, k)
  PROVE  Follows(Read(h, frames[k + 1]), h.id, frames, k + 1)
<1> DEFINE f == frames[k + 1]
<1>1. /\ f \in Frames /\ f.type \in FrameTypes
      /\ ~OnStream(f, h.id) => /\ Contents(frames, h.id)[k + 1] = Contents(frames, h.id)[k]
                               /\ OpenBlock(frames, k + 1, h.id) <=> OpenBlock(frames, k, h.id)
  BY NextFrame, FrameFields
<1>2. CASE h.done # "reading"
  <2>1. PICK g \in Heard : g = Read(h, f)
    BY <1>1, ReadType
  <2>2. /\ g.id = h.id /\ g.done = h.done /\ g.answer = h.answer /\ g.rest = Append(h.rest, f)
    BY <1>2, <2>1 DEF Read, Heard
  <2>3. RestFollows(h, frames, k)
    BY DEF Follows
  <2>4. PICK n : n = k + 1
    OBVIOUS
  <2>a. h.rest \in Seq(Frames)
    BY HeardFields
  <2>b. Len(g.rest) = Len(h.rest) + 1 /\ Len(h.rest) \in Nat /\ g.rest[Len(h.rest) + 1] = f
        /\ \A i \in 1 .. Len(h.rest) : g.rest[i] = h.rest[i]
    BY <1>1, <2>2, <2>a
  <2>c. /\ n - Len(g.rest) = k - Len(h.rest) /\ k - Len(h.rest) + Len(g.rest) = k + 1
        /\ Len(h.rest) <= k => Len(g.rest) <= n
        /\ 1 .. Len(g.rest) = 1 .. Len(h.rest) \cup {Len(g.rest)} /\ 1 .. k \subseteq 1 .. n
    <3> DEFINE a == Len(h.rest)
    <3> DEFINE b == Len(g.rest)
    <3>1. a \in Nat /\ b = a + 1
      BY <2>b
    <3> HIDE DEF a, b
    <3>2. /\ n - b = k - a /\ k - a + b = k + 1 /\ (a <= k => b <= n)
          /\ 1 .. b = 1 .. a \cup {b} /\ 1 .. k \subseteq 1 .. n
      <4>1. n - b = k - a
        BY <2>4, <3>1
      <4>2. k - a + b = k + 1
        BY <3>1
      <4>3. a <= k => b <= n
        BY <2>4, <3>1
      <4>4. 1 .. b = 1 .. a \cup {b}
        BY <3>1
      <4>5. 1 .. k \subseteq 1 .. n
        BY <2>4
      <4> QED
        BY <4>1, <4>2, <4>3, <4>4, <4>5
    <3> QED
      BY <3>2 DEF a, b
  <2>5. RestFollows(g, frames, n)
    <3>1. Len(g.rest) <= n
      BY <2>3, <2>c DEF RestFollows
    <3>2. ASSUME NEW i \in 1 .. Len(g.rest) PROVE g.rest[i] = frames[n - Len(g.rest) + i]
      <4>1. CASE i = Len(g.rest)
        BY <4>1, <2>b, <2>c
      <4>2. CASE i \in 1 .. Len(h.rest)
        <5>1. h.rest[i] = frames[k - Len(h.rest) + i]
          BY <2>3, <4>2 DEF RestFollows
        <5> QED
          BY <4>2, <5>1, <2>b, <2>c
      <4> QED
        BY <4>1, <4>2, <2>c
    <3> QED
      BY <3>1, <3>2, RestFollowsFrom
  <2>6. ASSUME g.done = "response"
        PROVE  n - Len(g.rest) \in 1 .. n /\ EndsAt(g, h.id, frames, n - Len(g.rest))
    <3>1. k - Len(h.rest) \in 1 .. k /\ EndsAt(h, h.id, frames, k - Len(h.rest))
      BY <2>2, <2>6 DEF Follows
    <3> QED
      BY <2>2, <2>c, <3>1 DEF EndsAt
  <2>7. Follows(g, h.id, frames, n)
    BY <1>2, <2>2, <2>5, <2>6, FollowsFrom
  <2> QED
    BY <2>1, <2>4, <2>7
<1>3. CASE h.done = "reading"
  <2>1. Read(h, f) = Consume(h, f)
    BY <1>3 DEF Read
  <2>2. CASE OnStream(f, h.id)
    <3>1. Consume(h, f) = ConsumeOwn(h, f)
      BY <2>2 DEF Consume, OnStream, StreamFrames
    <3> QED
      BY <1>3, <2>1, <2>2, <3>1, OwnFrame
  <2>3. CASE ~OnStream(f, h.id)
    <3> DEFINE g == Consume(h, f)
    <3>1. g \in Heard
      BY <1>1, ConsumeType
    <3>2. /\ g.id = h.id /\ g.rest = h.rest /\ g.answer = h.answer /\ g.block = h.block
          /\ g.done # "response"
      <4>1. ASSUME NEW how, how # "response", NEW x \in Heard, x.id = h.id, x.rest = h.rest,
                   x.answer = h.answer, x.block = h.block, g = Done(x, how)
            PROVE  /\ g.id = h.id /\ g.rest = h.rest /\ g.answer = h.answer /\ g.block = h.block
                   /\ g.done # "response"
        BY <4>1 DEF Done, Heard
      <4>2. CASE g = h
        BY <1>3, <4>2
      <4>3. CASE f.type = "RST_STREAM" /\ f.id = h.id
        <5>1. g = Done(h, "StreamClosed")
          BY <4>3 DEF Consume, ConsumeOwn, StreamFrames
        <5> QED
          BY <4>1, <5>1
      <4>4. CASE f.type = "SETTINGS"
        <5>1. g = [h EXCEPT !.ack = <<Control("SETTINGS_ACK", 0)>>]
          BY <4>4 DEF Consume, ConsumeConnection, StreamFrames, MessageFrames
        <5> QED
          BY <1>3, <5>1 DEF Heard
      <4>5. CASE f.type = "GOAWAY"
        <5> DEFINE x == [h EXCEPT !.goaway = TRUE]
        <5>1. x \in Heard /\ x.id = h.id /\ x.rest = h.rest /\ x.answer = h.answer /\ x.block = h.block
          BY DEF Heard
        <5>2. g = Done(x, "RefusedStream") \/ g = Done(x, "ProtocolError")
          BY <4>5 DEF Consume, ConsumeConnection, StreamFrames, MessageFrames
        <5> HIDE DEF x, g
        <5> QED
          BY <4>1, <5>1, <5>2
      <4>6. CASE f.type = "broken"
        <5>1. g = Done(h, "ProtocolError")
          BY <4>6 DEF Consume, ConsumeConnection, StreamFrames, MessageFrames
        <5> QED
          BY <4>1, <5>1
      <4>7. \/ g = h \/ (f.type = "RST_STREAM" /\ f.id = h.id)
            \/ f.type = "SETTINGS" \/ f.type = "GOAWAY" \/ f.type = "broken"
        BY <2>3 DEF Consume, ConsumeConnection, StreamFrames, OnStream
      <4> QED
        BY <4>2, <4>3, <4>4, <4>5, <4>6, <4>7
    <3> HIDE DEF g
    <3>3. h.rest = <<>> /\ InStep(h, frames, k)
      BY <1>3 DEF Follows
    <3>4. RestFollows(g, frames, k + 1)
      BY <3>2, <3>3, EmptyRest
    <3>5. InStep(g, frames, k + 1)
      BY <1>1, <2>3, <3>2, <3>3 DEF InStep
    <3>6. Follows(g, h.id, frames, k + 1)
      BY <3>2, <3>3, <3>4, <3>5 DEF Follows
    <3> QED
      BY <2>1, <3>6 DEF g
  <2> QED
    BY <2>2, <2>3
<1> QED
  BY <1>2, <1>3

(* All the frames of a batch.                                              *)
LEMMA ReadsFollow ==
  ASSUME goaway \in BOOLEAN, NEW m \in Machines, NEW frames \in Seq(Frames), SentInOrder(frames),
         NEW batch \in Seq(Frames), NEW b \in Nat, NEW n, n = b + Len(batch), n <= Len(frames),
         \A i \in 1 .. Len(batch) : batch[i] = frames[b + i],
         InStep(m, frames, b)
  PROVE  /\ ConsumeResponseFrames(m, batch) \in Heard
         /\ Follows(ConsumeResponseFrames(m, batch), m.id, frames, n)
<1> DEFINE R == Reads(m, batch)
<1>1. /\ Start(m) \in Heard /\ R \in [0 .. Len(batch) -> Heard] /\ R[0] = Start(m)
      /\ \A i \in 1 .. Len(batch) : R[i] = Read(R[i - 1], batch[i])
  BY ReadsDef
<1> HIDE DEF R
<1> DEFINE S == {i \in Nat : i <= Len(batch) => Follows(R[i], m.id, frames, b + i)}
<1>2. 0 \in S
  <2> DEFINE h == Start(m)
  <2>1. h.id = m.id /\ h.rest = <<>> /\ h.done = "reading" /\ h.answer = m.answer /\ h.block = m.block
    BY DEF Start
  <2> HIDE DEF h
  <2>2. InStep(h, frames, b)
    BY <2>1 DEF InStep
  <2>3. RestFollows(h, frames, b)
    <3>1. Len(h.rest) = 0 /\ 0 <= b /\ 1 .. 0 = {}
      BY <2>1
    <3> QED
      BY <3>1 DEF RestFollows
  <2>4. Follows(h, m.id, frames, b)
    BY <2>1, <2>2, <2>3 DEF Follows
  <2>5. b + 0 = b
    OBVIOUS
  <2> QED
    BY <1>1, <2>4, <2>5 DEF h
<1>3. ASSUME NEW i \in Nat, i \in S PROVE i + 1 \in S
  <2>1. SUFFICES ASSUME i + 1 <= Len(batch) PROVE Follows(R[i + 1], m.id, frames, b + (i + 1))
    OBVIOUS
  <2>2. /\ i \in 0 .. Len(batch) /\ i + 1 \in 1 .. Len(batch) /\ i + 1 - 1 = i /\ i <= Len(batch)
        /\ b + (i + 1) = (b + i) + 1 /\ b + i \in Nat /\ (b + i) + 1 <= Len(frames)
    BY <2>1
  <2>3. Follows(R[i], m.id, frames, b + i) /\ R[i] \in Heard
    BY <1>1, <1>3, <2>2
  <2>4. R[i].id = m.id
    BY <2>3 DEF Follows
  <2>5. R[i + 1] = Read(R[i], frames[(b + i) + 1])
    <3>1. R[i + 1] = Read(R[i], batch[i + 1])
      BY <1>1, <2>2
    <3>2. batch[i + 1] = frames[b + (i + 1)]
      BY <2>2
    <3> QED
      BY <2>2, <3>1, <3>2
  <2>6. PICK k \in Nat : k = b + i
    BY <2>2
  <2>7. Follows(Read(R[i], frames[k + 1]), m.id, frames, k + 1)
    <3>1. k + 1 <= Len(frames) /\ Follows(R[i], R[i].id, frames, k)
      BY <2>2, <2>3, <2>4, <2>6
    <3>2. Follows(Read(R[i], frames[k + 1]), R[i].id, frames, k + 1)
      BY <2>3, <3>1, ReadFollows
    <3> QED
      BY <2>4, <3>2
  <2>8. k + 1 = b + (i + 1) /\ k + 1 = (b + i) + 1
    BY <2>6
  <2> QED
    BY <2>5, <2>7, <2>8
<1> HIDE DEF S
<1>4. Nat \subseteq S
  BY <1>2, <1>3, NatSetInduction
<1>5. Len(batch) \in Nat /\ Len(batch) \in 0 .. Len(batch) /\ Len(batch) <= Len(batch)
  OBVIOUS
<1>6. R[Len(batch)] \in Heard
  BY <1>1, <1>5
<1>7. Len(batch) \in S
  BY <1>4, <1>5, Zenon
<1>8. Follows(R[Len(batch)], m.id, frames, b + Len(batch))
  BY <1>5, <1>7, Zenon DEF S
<1> QED
  BY <1>6, <1>8 DEF ConsumeResponseFrames, R

-----------------------------------------------------------------------------
(***************************************************************************)
(* What holds of the frames sent, when one more is.                        *)
(***************************************************************************)

(* A whole answer is all that was sent on its stream.                      *)
LEMMA WholeIsAll ==
  ASSUME NEW frames \in Seq(Frames), SentInOrder(frames), NEW result, Whole(result, frames)
  PROVE  /\ result.answer = Contents(frames, result.id)[Len(frames)]
         /\ \E i \in 1 .. Len(frames) :
              /\ OnStream(frames[i], result.id) /\ frames[i].endStream
              /\ \A j \in i + 1 .. Len(frames) : ~OnStream(frames[j], result.id)
<1>1. PICK i \in 1 .. Len(frames) :
        /\ OnStream(frames[i], result.id) /\ Ends(frames[i])
        /\ result.answer = Contents(frames, result.id)[i]
  BY DEF Whole
<1>2. ASSUME NEW j \in i + 1 .. Len(frames), OnStream(frames[j], result.id) PROVE FALSE
  <2>1. j \in 1 .. Len(frames) /\ i \in 1 .. j - 1
    OBVIOUS
  <2>2. frames[j].type \in MessageFrames /\ frames[j].id = result.id
    BY <1>2 DEF OnStream
  <2>3. ~(OnStream(frames[i], frames[j].id) /\ Ends(frames[i]))
    BY <2>1, <2>2 DEF SentInOrder
  <2> QED
    BY <1>1, <2>2, <2>3
<1>3. Contents(frames, result.id)[Len(frames)] = Contents(frames, result.id)[i]
  <2>1. i \in 0 .. Len(frames) /\ Len(frames) \in i .. Len(frames)
    OBVIOUS
  <2> QED
    BY <1>2, <2>1, ContentsQuiet
<1>4. frames[i].endStream
  BY <1>1 DEF Ends
<1> QED
  BY <1>1, <1>2, <1>3, <1>4

LEMMA Appended ==
  ASSUME NEW frames \in Seq(Frames), NEW f \in Frames
  PROVE  /\ Append(frames, f) \in Seq(Frames) /\ Len(Append(frames, f)) = Len(frames) + 1
         /\ Append(frames, f)[Len(frames) + 1] = f /\ Len(frames) \in Nat
         /\ \A i \in 1 .. Len(frames) : Append(frames, f)[i] = frames[i] /\ i \in 1 .. Len(frames) + 1
OBVIOUS

LEMMA WholeAppend ==
  ASSUME NEW frames \in Seq(Frames), NEW f \in Frames, NEW result, Whole(result, frames)
  PROVE  Whole(result, Append(frames, f))
<1> DEFINE more == Append(frames, f)
<1>1. PICK i \in 1 .. Len(frames) :
        /\ OnStream(frames[i], result.id) /\ Ends(frames[i])
        /\ result.answer = Contents(frames, result.id)[i]
  BY DEF Whole
<1>2. more[i] = frames[i] /\ i \in 1 .. Len(more) /\ i \in 0 .. Len(frames)
  BY Appended
<1>3. Contents(more, result.id)[i] = Contents(frames, result.id)[i]
  BY <1>2, ContentsAppend
<1> HIDE DEF more
<1>4. Whole(result, more)
  BY <1>1, <1>2, <1>3 DEF Whole
<1> QED
  BY <1>4 DEF more

LEMMA InStepAppend ==
  ASSUME NEW frames \in Seq(Frames), NEW f \in Frames, NEW m, NEW n \in 0 .. Len(frames),
         InStep(m, frames, n)
  PROVE  InStep(m, Append(frames, f), n)
<1>1. Contents(Append(frames, f), m.id)[n] = Contents(frames, m.id)[n]
  BY ContentsAppend
<1>2. OpenBlock(Append(frames, f), n, m.id) <=> OpenBlock(frames, n, m.id)
  BY OpenBlockAppend
<1> QED
  BY <1>1, <1>2 DEF InStep

LEMMA SentInOrderAppend ==
  ASSUME NEW frames \in Seq(Frames), SentInOrder(frames), NEW f \in Frames,
         f.type = "DATA" => ~OpenBlock(frames, Len(frames), f.id),
         f.type \in MessageFrames =>
           \A i \in 1 .. Len(frames) : ~(OnStream(frames[i], f.id) /\ Ends(frames[i]))
  PROVE  SentInOrder(Append(frames, f))
<1> DEFINE more == Append(frames, f)
<1> DEFINE Fits(s, j) ==
      /\ s[j].type = "DATA" => ~OpenBlock(s, j - 1, s[j].id)
      /\ s[j].type \in MessageFrames =>
           \A i \in 1 .. j - 1 : ~(OnStream(s[i], s[j].id) /\ Ends(s[i]))
<1>1. ASSUME NEW j \in 1 .. Len(frames) PROVE Fits(more, j)
  <2>1. Fits(frames, j)
    BY DEF SentInOrder
  <2>2. more[j] = frames[j] /\ j - 1 \in 0 .. Len(frames) /\ \A i \in 1 .. j - 1 : i \in 1 .. Len(frames)
    BY Appended
  <2>3. \A i \in 1 .. j - 1 : more[i] = frames[i]
    BY <2>2, Appended
  <2>4. OpenBlock(more, j - 1, frames[j].id) <=> OpenBlock(frames, j - 1, frames[j].id)
    BY <2>2, OpenBlockAppend
  <2> QED
    BY <2>1, <2>2, <2>3, <2>4
<1>2. Fits(more, Len(frames) + 1)
  <2>1. /\ more[Len(frames) + 1] = f /\ Len(frames) + 1 - 1 = Len(frames)
        /\ Len(frames) \in 0 .. Len(frames)
    BY Appended
  <2>2. OpenBlock(more, Len(frames), f.id) <=> OpenBlock(frames, Len(frames), f.id)
    BY <2>1, OpenBlockAppend
  <2>3. \A i \in 1 .. Len(frames) : more[i] = frames[i]
    BY Appended
  <2> QED
    BY <2>1, <2>2, <2>3
<1>3. \A j \in 1 .. Len(more) : j \in 1 .. Len(frames) \/ j = Len(frames) + 1
  BY Appended
<1> HIDE DEF more, Fits
<1>4. \A j \in 1 .. Len(more) : Fits(more, j)
  BY <1>1, <1>2, <1>3
<1>5. SentInOrder(more)
  BY <1>4 DEF SentInOrder, Fits
<1> QED
  BY <1>5 DEF more

LEMMA StreamEndedAppend ==
  ASSUME NEW frames \in Seq(Frames), NEW f \in Frames, NEW id
  PROVE  (\E i \in 1 .. Len(Append(frames, f)) :
            OnStream(Append(frames, f)[i], id) /\ Ends(Append(frames, f)[i]))
         <=> \/ \E i \in 1 .. Len(frames) : OnStream(frames[i], id) /\ Ends(frames[i])
             \/ OnStream(f, id) /\ Ends(f)
<1> DEFINE more == Append(frames, f)
<1>1. /\ Len(more) = Len(frames) + 1 /\ more[Len(frames) + 1] = f /\ Len(frames) \in Nat
      /\ \A i \in 1 .. Len(frames) : more[i] = frames[i] /\ i \in 1 .. Len(frames) + 1
  BY Appended
<1>2. /\ Len(frames) + 1 \in 1 .. Len(more)
      /\ \A j \in 1 .. Len(more) : j \in 1 .. Len(frames) \/ j = Len(frames) + 1
  BY <1>1
<1> HIDE DEF more
<1>3. (\E i \in 1 .. Len(more) : OnStream(more[i], id) /\ Ends(more[i]))
      <=> \/ \E i \in 1 .. Len(frames) : OnStream(frames[i], id) /\ Ends(frames[i])
          \/ OnStream(f, id) /\ Ends(f)
  BY <1>1, <1>2
<1> QED
  BY <1>3 DEF more

-----------------------------------------------------------------------------
(***************************************************************************)
(* The invariant.                                                          *)
(***************************************************************************)
LEMMA CallInvInit == CallInit => CallInv
<1> SUFFICES ASSUME CallInit PROVE CallInv
  OBVIOUS
<1> USE DEF CallInit
<1>1. CallTypeOK
  <2>1. DOMAIN responder = {}
    OBVIOUS
  <2>2. machine \in Machines
    BY DEF Idle, Machines
  <2>3. responder \in [DOMAIN responder -> Seq(Frames)]
    OBVIOUS
  <2>4. <<>> \in Seq(Frames) /\ <<>> \in Seq(Results)
    OBVIOUS
  <2>5. nextId \in Nat \ {0} /\ goaway \in BOOLEAN /\ lost \in BOOLEAN /\ DOMAIN responder \subseteq Nat
    <3>1. DOMAIN responder \subseteq Nat
      BY <2>1
    <3>2. goaway \in BOOLEAN /\ lost \in BOOLEAN
      OBVIOUS
    <3>3. nextId \in Nat \ {0}
      OBVIOUS
    <3> QED
      BY <3>1, <3>2, <3>3
  <2>6. /\ ring \in Seq(Frames) /\ wire \in Seq(Frames) /\ sent \in Seq(Frames)
        /\ requests \in Seq(Frames) /\ results \in Seq(Results)
    BY <2>4
  <2> QED
    BY <2>2, <2>3, <2>5, <2>6 DEF CallTypeOK
<1>2. IdsInOrder
  BY DEF IdsInOrder, Idle
<1>3. ServerInOrder
  BY DEF ServerInOrder, SentInOrder
<1>4. ClientInOrder
  BY DEF ClientInOrder, Used, Idle
<1> QED
  BY <1>1, <1>2, <1>3, <1>4 DEF CallInv

(* A step of the client is none of the server's.                           *)
LEMMA ServerUnchanged ==
  ASSUME ServerInOrder, UNCHANGED <<responder, sent>>
  PROVE  ServerInOrder'
<1>1. SentInOrder(sent)'
  BY DEF ServerInOrder, SentInOrder, OpenBlock
<1>2. ASSUME NEW id \in DOMAIN responder PROVE RestOfResponse(id)'
  BY <1>2 DEF ServerInOrder, RestOfResponse, StreamEnded, OpenBlock
<1> QED
  BY <1>1, <1>2 DEF ServerInOrder

LEMMA MachineFields ==
  ASSUME NEW m \in Machines
  PROVE  /\ m.phase \in {"idle", "run"} /\ m.id \in Nat /\ m.out \in Seq(Frames) /\ m.ack \in Seq(Acks)
         /\ m.block \in Seq(Parts) /\ m.answer \in Seq(Parts)
BY DEF Machines

LEMMA IdleType == Idle \in Machines /\ Idle.phase = "idle" /\ Idle.out = <<>>
BY DEF Idle, Machines

LEMMA RunningType ==
  ASSUME NEW id \in Nat, NEW out \in Seq(Frames), NEW ack \in Seq(Acks), NEW block \in Seq(Parts),
         NEW answer \in Seq(Parts)
  PROVE  /\ Running(id, out, ack, block, answer) \in Machines
         /\ Running(id, out, ack, block, answer).phase = "run"
         /\ Running(id, out, ack, block, answer).id = id
         /\ Running(id, out, ack, block, answer).out = out
         /\ Running(id, out, ack, block, answer).ack = ack
         /\ Running(id, out, ack, block, answer).block = block
         /\ Running(id, out, ack, block, answer).answer = answer
BY DEF Running, Machines

LEMMA ControlType ==
  ASSUME NEW type \in FrameTypes, NEW id \in Nat
  PROVE  Control(type, id) \in Frames /\ Control(type, id).type = type /\ Control(type, id).id = id
         /\ Control(type, id).endHeaders = TRUE /\ Control(type, id).endStream = FALSE
<1>1. <<>> \in Seq(Parts) /\ TRUE \in BOOLEAN /\ FALSE \in BOOLEAN
  OBVIOUS
<1> QED
  BY <1>1 DEF Control, Frame, Frames

(* The frames of a request have its id.                                    *)
LEMMA RequestFramesType ==
  ASSUME NEW id \in Nat, NEW body \in 0 .. 1
  PROVE  /\ RequestFrames(id, body) \in Seq(Frames)
         /\ \A i \in 1 .. Len(RequestFrames(id, body)) : RequestFrames(id, body)[i].id = id
<1> DEFINE head == Frame("HEADERS", id, <<>>, TRUE, body = 0)
<1> DEFINE data == Frame("DATA", id, <<>>, TRUE, TRUE)
<1>1. head \in Frames /\ head.id = id /\ data \in Frames /\ data.id = id
  <2>1. <<>> \in Seq(Parts) /\ TRUE \in BOOLEAN /\ (body = 0) \in BOOLEAN
    OBVIOUS
  <2>2. "HEADERS" \in FrameTypes /\ "DATA" \in FrameTypes
    BY DEF FrameTypes, MessageFrames
  <2> QED
    BY <2>1, <2>2 DEF Frame, Frames
<1> DEFINE tail == [i \in 1 .. body |-> data]
<1>2. RequestFrames(id, body) = <<head>> \o tail
  BY DEF RequestFrames
<1> HIDE DEF head, data
<1>3. tail \in Seq(Frames) /\ Len(tail) = body /\ \A i \in 1 .. body : tail[i] = data
  BY <1>1
<1> HIDE DEF tail
<1>4. <<head>> \in Seq(Frames) /\ Len(<<head>>) = 1 /\ <<head>>[1] = head
  BY <1>1
<1> DEFINE one == <<head>>
<1> HIDE DEF one
<1>5. /\ one \o tail \in Seq(Frames) /\ Len(one \o tail) = 1 + body
      /\ \A i \in 1 .. 1 + body : (one \o tail)[i] \in {head, data}
  BY <1>3, <1>4 DEF one
<1> QED
  BY <1>1, <1>2, <1>5 DEF one

LEMMA Elements ==
  ASSUME CallTypeOK
  PROVE  /\ \A i \in 1 .. Len(requests) : requests[i] \in Frames /\ requests[i].id \in Nat
         /\ \A k \in 1 .. Len(results) : results[k] \in Results /\ results[k].id \in Nat
         /\ \A i \in 1 .. Len(machine.out) : machine.out[i] \in Frames /\ machine.out[i].id \in Nat
         /\ machine.out \in Seq(Frames) /\ machine.id \in Nat
<1>1. requests \in Seq(Frames) /\ results \in Seq(Results) /\ machine.out \in Seq(Frames)
  BY MachineFields DEF CallTypeOK
<1>2. \A i \in 1 .. Len(requests) : requests[i] \in Frames
  BY <1>1
<1>3. \A k \in 1 .. Len(results) : results[k] \in Results
  BY <1>1
<1>4. \A i \in 1 .. Len(machine.out) : machine.out[i] \in Frames
  BY <1>1
<1>5. \A r \in Results : r.id \in Nat
  BY DEF Results
<1> QED
  BY <1>1, <1>2, <1>3, <1>4, <1>5, FrameFields, MachineFields DEF CallTypeOK

LEMMA ClientKept ==
  ASSUME ClientInOrder, UNCHANGED <<ring, wire, sent>>,
         machine'.phase = "run" => InStep(machine', sent, Used),
         \A k \in 1 .. Len(results') : results'[k].how = "response" => Whole(results'[k], sent)
  PROVE  ClientInOrder'
<1>1. Used' = Used
  BY DEF Used
<1>2. /\ Used' >= 0
      /\ \A i \in 1 .. Len(ring') : ring'[i] = sent'[Used' + i]
      /\ \A i \in 1 .. Len(wire') : wire'[i] = sent'[Used' + Len(ring') + i]
  BY <1>1 DEF ClientInOrder
<1>3. machine'.phase = "run" => InStep(machine', sent', Used')
  BY <1>1
<1>4. \A k \in 1 .. Len(results') : results'[k].how = "response" => Whole(results'[k], sent')
  OBVIOUS
<1> QED
  BY <1>2, <1>3, <1>4 DEF ClientInOrder

(* A call that returns has one result more, of its own id.                 *)
LEMMA Returned ==
  ASSUME CallTypeOK, NEW id \in Nat, NEW how \in Outcomes, NEW answer \in Seq(Parts),
         Return(id, how, answer)
  PROVE  /\ machine' = Idle /\ results' \in Seq(Results) /\ Len(results') = Len(results) + 1
         /\ Len(results) \in Nat
         /\ \A k \in 1 .. Len(results) : results'[k] = results[k]
         /\ results'[Len(results) + 1] = [id |-> id, how |-> how, answer |-> answer]
<1> DEFINE r == [id |-> id, how |-> how, answer |-> answer]
<1>1. r \in Results
  BY DEF Results
<1>2. results \in Seq(Results) /\ machine' = Idle /\ results' = Append(results, r)
  BY DEF CallTypeOK, Return
<1> HIDE DEF r
<1>3. /\ results' \in Seq(Results) /\ Len(results') = Len(results) + 1 /\ Len(results) \in Nat
      /\ \A k \in 1 .. Len(results) : results'[k] = results[k]
      /\ results'[Len(results) + 1] = r
  BY <1>1, <1>2
<1> QED
  BY <1>2, <1>3 DEF r

LEMMA IdsReturned ==
  ASSUME CallTypeOK, IdsInOrder, UNCHANGED <<nextId, requests, responder>>,
         NEW id \in Nat, NEW how \in Outcomes, NEW answer \in Seq(Parts), Return(id, how, answer),
         \/ id = 0 /\ how # "response"
         \/ machine.phase = "run" /\ id = machine.id
  PROVE  IdsInOrder'
<1>1. machine'.phase # "run" /\ machine'.out = <<>> /\ nextId \in Nat
  BY Returned, IdleType DEF CallTypeOK
<1>2. DOMAIN responder \subseteq 1 .. nextId - 1 /\ \A i \in 1 .. Len(requests) : Numbered(requests[i])
  BY DEF IdsInOrder
<1>3. \A i \in 1 .. Len(requests) : Numbered(requests[i])'
  BY <1>2 DEF Numbered
<1>4. \A i \in 1 .. Len(machine'.out) : Numbered(machine.out[i])'
  BY <1>1
<1>a. PICK n : n = Len(results) + 1
  OBVIOUS
<1>b. /\ Len(results) \in Nat /\ Len(results') = n
      /\ \A k \in 1 .. Len(results) : results'[k] = results[k]
      /\ results'[n] = [id |-> id, how |-> how, answer |-> answer]
  BY <1>a, Returned
<1>5. /\ \A k \in 1 .. Len(results') : k \in 1 .. Len(results) \/ k = n
      /\ \A k \in 1 .. Len(results) : results'[k] = results[k] /\ n \notin 1 .. k - 1
      /\ results'[n].id = id /\ results'[n].how = how /\ 1 .. n - 1 = 1 .. Len(results)
      /\ \A k \in 1 .. Len(results) : \A j \in 1 .. k - 1 : j \in 1 .. Len(results)
  <2>1. /\ \A k \in 1 .. Len(results') : k \in 1 .. Len(results) \/ k = n
        /\ \A k \in 1 .. Len(results) : n \notin 1 .. k - 1
        /\ 1 .. n - 1 = 1 .. Len(results)
        /\ \A k \in 1 .. Len(results) : \A j \in 1 .. k - 1 : j \in 1 .. Len(results)
    BY <1>a, <1>b
  <2>2. results'[n].id = id /\ results'[n].how = how
    BY <1>b
  <2> QED
    BY <1>b, <2>1, <2>2
<1>6. \A k \in 1 .. Len(results) : results[k].id \in Nat
  BY Elements
<1>7. ASSUME NEW k \in 1 .. Len(results')
      PROVE  /\ results'[k].id < nextId
             /\ results'[k].how = "response" => results'[k].id # 0
             /\ \A j \in 1 .. k - 1 : results'[k].id = 0 \/ results'[j].id < results'[k].id
  <2>1. CASE k \in 1 .. Len(results)
    BY <2>1, <1>5 DEF IdsInOrder
  <2>2. CASE k = n
    <3>1. id < nextId /\ (how = "response" => id # 0)
      BY <1>1 DEF IdsInOrder, CallTypeOK
    <3>2. \A j \in 1 .. Len(results) : id = 0 \/ results[j].id < id
      BY DEF IdsInOrder
    <3> QED
      BY <2>2, <3>1, <3>2, <1>5
  <2> QED
    BY <2>1, <2>2, <1>5
<1>8. DOMAIN responder' \subseteq 1 .. nextId' - 1
  BY <1>2
<1> QED
  BY <1>1, <1>3, <1>4, <1>7, <1>8 DEF IdsInOrder

LEMMA RequestKeeps ==
  ASSUME CallInv, Request
  PROVE  CallInv'
<1>0. CallTypeOK /\ IdsInOrder /\ ServerInOrder /\ ClientInOrder
  BY DEF CallInv
<1>1. /\ machine.phase = "idle"
      /\ UNCHANGED <<ring, goaway, requests, responder, wire, sent, lost>>
  BY DEF Request
<1>2. ServerInOrder'
  BY <1>0, <1>1, ServerUnchanged
<1>a. 0 \in Nat /\ "RefusedStream" \in Outcomes /\ <<>> \in Seq(Parts)
  BY DEF Outcomes
<1>3. CASE goaway
  <2>1. Return(0, "RefusedStream", <<>>) /\ nextId' = nextId
    BY <1>3 DEF Request
  <2>2. /\ machine' = Idle /\ results' \in Seq(Results) /\ Len(results') = Len(results) + 1
        /\ Len(results) \in Nat
        /\ \A k \in 1 .. Len(results) : results'[k] = results[k]
        /\ results'[Len(results) + 1].how = "RefusedStream"
    <3>1. /\ machine' = Idle /\ results' \in Seq(Results) /\ Len(results') = Len(results) + 1
          /\ Len(results) \in Nat
          /\ \A k \in 1 .. Len(results) : results'[k] = results[k]
          /\ results'[Len(results) + 1] = [id |-> 0, how |-> "RefusedStream", answer |-> <<>>]
      BY <1>0, <1>a, <2>1, Returned
    <3> QED
      BY <3>1
  <2>3. CallTypeOK'
    BY <1>0, <1>1, <2>1, <2>2, IdleType DEF CallTypeOK
  <2>4. IdsInOrder'
    <3>1. "RefusedStream" # "response"
      OBVIOUS
    <3> QED
      BY <1>0, <1>1, <1>a, <2>1, <3>1, IdsReturned
  <2>5. ClientInOrder'
    <3>1. \A k \in 1 .. Len(results') : k \in 1 .. Len(results) \/ k = Len(results) + 1
      BY <2>2
    <3>2. \A k \in 1 .. Len(results') : results'[k].how = "response" => Whole(results'[k], sent)
      BY <1>0, <2>2, <3>1 DEF ClientInOrder
    <3> QED
      BY <1>0, <1>1, <2>2, <3>2, ClientKept, IdleType
  <2> QED
    BY <1>2, <2>3, <2>4, <2>5 DEF CallInv
<1>4. CASE ~goaway
  <2>1. PICK body \in Bodies :
          machine' = Running(nextId, RequestFrames(nextId, body), <<>>, <<>>, <<>>)
    BY <1>4 DEF Request
  <2>2. nextId' = nextId + 2 /\ results' = results /\ body \in 0 .. 1 /\ nextId \in Nat \ {0}
    BY <1>0, <1>4, ServerAssumption DEF Request, CallTypeOK
  <2>3. /\ RequestFrames(nextId, body) \in Seq(Frames)
        /\ \A i \in 1 .. Len(RequestFrames(nextId, body)) : RequestFrames(nextId, body)[i].id = nextId
    BY <2>2, RequestFramesType
  <2> DEFINE out == RequestFrames(nextId, body)
  <2> HIDE DEF out
  <2>4. /\ machine' \in Machines /\ machine'.phase = "run" /\ machine'.id = nextId /\ machine'.out = out
        /\ machine'.block = <<>> /\ machine'.answer = <<>>
    BY <2>1, <2>2, <2>3 DEF Running, Machines, out
  <2>5. CallTypeOK'
    BY <1>0, <1>1, <2>2, <2>4 DEF CallTypeOK
  <2>6. IdsInOrder'
    <3>1. \A i \in 1 .. Len(machine'.out) :
            machine'.out[i].id < nextId' /\ (machine'.out[i].endStream => machine'.out[i].id # 0)
      BY <2>2, <2>3, <2>4 DEF out
    <3>2. \A i \in 1 .. Len(requests') :
            requests'[i].id < nextId' /\ (requests'[i].endStream => requests'[i].id # 0)
      <4>1. \A i \in 1 .. Len(requests) :
              /\ requests[i].id \in Nat /\ requests[i].id < nextId
              /\ requests[i].endStream => requests[i].id # 0
        BY <1>0, Elements DEF IdsInOrder, Numbered
      <4>2. \A x \in Nat : x < nextId => x < nextId'
        BY <2>2
      <4> QED
        BY <4>1, <4>2, <1>1
    <3>3. DOMAIN responder' \subseteq 1 .. nextId' - 1
      BY <1>0, <1>1, <2>2 DEF IdsInOrder
    <3>4. \A k \in 1 .. Len(results) :
            /\ results[k].id \in Nat /\ results[k].id < nextId
            /\ results[k].how = "response" => results[k].id # 0
            /\ \A j \in 1 .. k - 1 : results[k].id = 0 \/ results[j].id < results[k].id
      BY <1>0, Elements DEF IdsInOrder
    <3>5. machine'.id \in 1 .. nextId' - 1
      BY <2>2, <2>4
    <3>6. \A k \in 1 .. Len(results') :
            /\ results'[k].id < nextId' /\ results'[k].id < machine'.id
            /\ results'[k].how = "response" => results'[k].id # 0
            /\ \A j \in 1 .. k - 1 : results'[k].id = 0 \/ results'[j].id < results'[k].id
      BY <3>4, <2>2, <2>4
    <3> QED
      BY <3>1, <3>2, <3>3, <3>5, <3>6 DEF IdsInOrder, Numbered
  <2>7. ClientInOrder'
    <3>1. \A i \in 1 .. Len(sent) : ~OnStream(sent[i], nextId)
      <4>1. DOMAIN responder \subseteq 1 .. nextId - 1
        BY <1>0 DEF IdsInOrder
      <4>2. \A i \in 1 .. Len(sent) : sent[i].type \in MessageFrames => sent[i].id \in DOMAIN responder
        BY <1>0 DEF ServerInOrder
      <4> QED
        BY <2>2, <4>1, <4>2 DEF OnStream
    <3>2. sent \in Seq(Frames) /\ Used \in 0 .. Len(sent) /\ 0 \in 0 .. Len(sent)
      BY <1>0 DEF CallTypeOK, ClientInOrder, Used
    <3>3. Contents(sent, nextId)[Used] = <<>>
      <4>1. \A n \in 0 .. Len(sent) : Contents(sent, nextId)[n] = Contents(sent, nextId)[0]
        BY <3>1, <3>2, ContentsQuiet
      <4> QED
        BY <3>2, <4>1, ContentsDef
    <3>4. <<>> \o <<>> = <<>>
      OBVIOUS
    <3>5. InStep(machine', sent, Used)
      BY <2>4, <3>3, <3>4 DEF InStep
    <3>6. \A k \in 1 .. Len(results') : results'[k].how = "response" => Whole(results'[k], sent)
      BY <1>0, <2>2 DEF ClientInOrder
    <3> QED
      BY <1>0, <1>1, <3>5, <3>6, ClientKept
  <2> QED
    BY <1>2, <2>5, <2>6, <2>7 DEF CallInv
<1> QED
  BY <1>3, <1>4

(* A step of the machine that goes on with its request.                    *)
LEMMA IdsKept ==
  ASSUME IdsInOrder, UNCHANGED <<nextId, responder, results>>,
         machine'.phase = machine.phase, machine'.id = machine.id,
         \A i \in 1 .. Len(machine'.out) : Numbered(machine'.out[i]),
         \A i \in 1 .. Len(requests') : Numbered(requests'[i])
  PROVE  IdsInOrder'
BY DEF IdsInOrder, Numbered

LEMMA SendControlKeeps ==
  ASSUME CallInv, SendControl
  PROVE  CallInv'
<1>0. CallTypeOK /\ IdsInOrder /\ ServerInOrder /\ ClientInOrder
  BY DEF CallInv
<1>1. /\ requests' = requests \o machine.ack
      /\ UNCHANGED <<nextId, ring, goaway, responder, wire, sent, results, lost>>
  BY DEF SendControl
<1>2. machine \in Machines /\ requests \in Seq(Frames) /\ nextId \in Nat \ {0}
  BY <1>0 DEF CallTypeOK
<1>3. /\ machine' \in Machines /\ machine'.phase = machine.phase /\ machine'.id = machine.id
      /\ machine'.out = machine.out /\ machine'.block = machine.block /\ machine'.answer = machine.answer
  <2>1. machine' = [machine EXCEPT !.ack = <<>>] /\ <<>> \in Seq(Acks)
    BY DEF SendControl
  <2> QED
    BY <1>2, <2>1 DEF Machines
<1>4. /\ requests' \in Seq(Frames)
      /\ \A i \in 1 .. Len(requests') : Numbered(requests'[i])
  <2>1. Acks \subseteq Frames /\ \A f \in Acks : f.id = 0 /\ ~f.endStream
    <3>1. Control("SETTINGS_ACK", 0) \in Frames /\ Control("SETTINGS_ACK", 0).id = 0
          /\ Control("SETTINGS_ACK", 0).endStream = FALSE
      <4>1. "SETTINGS_ACK" \in FrameTypes /\ 0 \in Nat
        BY DEF FrameTypes
      <4> QED
        BY <4>1, ControlType
    <3> QED
      BY <3>1 DEF Acks
  <2>2. \A f \in Acks : Numbered(f)
    BY <1>2, <2>1 DEF Numbered
  <2>3. machine.ack \in Seq(Acks)
    BY <1>2, MachineFields
  <2> DEFINE ack == machine.ack
  <2> HIDE DEF ack
  <2>4. /\ requests \o ack \in Seq(Frames) /\ Len(requests \o ack) = Len(requests) + Len(ack)
        /\ \A i \in 1 .. Len(requests) + Len(ack) :
             (requests \o ack)[i] = IF i <= Len(requests) THEN requests[i] ELSE ack[i - Len(requests)]
    <3>1. ack \in Seq(Frames)
      BY <2>1, <2>3 DEF ack
    <3> QED
      BY <1>2, <3>1
  <2>5. \A i \in 1 .. Len(ack) : Numbered(ack[i])
    BY <2>2, <2>3 DEF ack
  <2>6. \A i \in 1 .. Len(requests) : Numbered(requests[i])
    BY <1>0 DEF IdsInOrder
  <2>7. \A i \in 1 .. Len(requests) + Len(ack) : i <= Len(requests) => i \in 1 .. Len(requests)
    BY <1>2
  <2>8. \A i \in 1 .. Len(requests) + Len(ack) : ~(i <= Len(requests)) => i - Len(requests) \in 1 .. Len(ack)
    <3>1. Len(requests) \in Nat /\ Len(ack) \in Nat
      BY <1>2, <2>3 DEF ack
    <3> QED
      BY <3>1
  <2>9. \A i \in 1 .. Len(requests \o ack) : Numbered((requests \o ack)[i])
    BY <2>4, <2>5, <2>6, <2>7, <2>8
  <2> QED
    BY <1>1, <2>4, <2>9 DEF ack
<1>5. CallTypeOK'
  BY <1>0, <1>1, <1>3, <1>4 DEF CallTypeOK
<1>6. IdsInOrder'
  BY <1>0, <1>1, <1>3, <1>4, IdsKept DEF IdsInOrder
<1>7. ServerInOrder'
  BY <1>0, <1>1, ServerUnchanged
<1>8. ClientInOrder'
  BY <1>0, <1>1, <1>3, ClientKept DEF ClientInOrder, InStep
<1> QED
  BY <1>5, <1>6, <1>7, <1>8 DEF CallInv

LEMMA SendRequestKeeps ==
  ASSUME CallInv, SendRequest
  PROVE  CallInv'
<1>0. CallTypeOK /\ IdsInOrder /\ ServerInOrder /\ ClientInOrder
  BY DEF CallInv
<1>1. /\ machine.out # <<>> /\ requests' = Append(requests, Head(machine.out))
      /\ UNCHANGED <<nextId, ring, goaway, responder, wire, sent, results, lost>>
  BY DEF SendRequest
<1>2. machine \in Machines /\ requests \in Seq(Frames) /\ nextId \in Nat \ {0} /\ machine.out \in Seq(Frames)
  BY <1>0, Elements DEF CallTypeOK
<1> DEFINE out == machine.out
<1> HIDE DEF out
<1>3. /\ Head(out) \in Frames /\ Tail(out) \in Seq(Frames) /\ Len(Tail(out)) = Len(out) - 1
      /\ Head(out) = out[1] /\ 1 \in 1 .. Len(out) /\ Len(out) \in Nat
      /\ \A i \in 1 .. Len(out) - 1 : Tail(out)[i] = out[i + 1] /\ i + 1 \in 1 .. Len(out)
  <2>1. out \in Seq(Frames) /\ out # <<>>
    BY <1>1, <1>2 DEF out
  <2> QED
    BY <2>1
<1>4. /\ machine' \in Machines /\ machine'.phase = machine.phase /\ machine'.id = machine.id
      /\ machine'.out = Tail(out) /\ machine'.block = machine.block /\ machine'.answer = machine.answer
  <2>1. machine' = [machine EXCEPT !.out = Tail(out)]
    BY DEF SendRequest, out
  <2> QED
    BY <1>2, <1>3, <2>1 DEF Machines
<1>5. \A i \in 1 .. Len(out) : Numbered(out[i])
  BY <1>0 DEF IdsInOrder, out
<1>6. \A i \in 1 .. Len(machine'.out) : Numbered(machine'.out[i])
  BY <1>3, <1>4, <1>5
<1>7. /\ requests' \in Seq(Frames)
      /\ \A i \in 1 .. Len(requests') : Numbered(requests'[i])
  <2>1. /\ requests' \in Seq(Frames) /\ Len(requests') = Len(requests) + 1
        /\ requests'[Len(requests) + 1] = Head(out)
        /\ \A i \in 1 .. Len(requests) : requests'[i] = requests[i]
        /\ \A i \in 1 .. Len(requests') : i \in 1 .. Len(requests) \/ i = Len(requests) + 1
    <3>1. requests' = Append(requests, Head(out))
      BY <1>1 DEF out
    <3> QED
      BY <1>2, <1>3, <3>1, Appended
  <2>2. \A i \in 1 .. Len(requests) : Numbered(requests[i])
    BY <1>0 DEF IdsInOrder
  <2> QED
    BY <1>3, <1>5, <2>1, <2>2
<1>8. CallTypeOK'
  BY <1>0, <1>1, <1>4, <1>7 DEF CallTypeOK
<1>9. IdsInOrder'
  BY <1>0, <1>1, <1>4, <1>6, <1>7, IdsKept
<1>10. ServerInOrder'
  BY <1>0, <1>1, ServerUnchanged
<1>11. ClientInOrder'
  BY <1>0, <1>1, <1>4, ClientKept DEF ClientInOrder, InStep
<1> QED
  BY <1>8, <1>9, <1>10, <1>11 DEF CallInv

LEMMA IoErrorKeeps ==
  ASSUME CallInv, IoError
  PROVE  CallInv'
<1>0. CallTypeOK /\ IdsInOrder /\ ServerInOrder /\ ClientInOrder
  BY DEF CallInv
<1>1. UNCHANGED <<nextId, ring, goaway, requests, responder, wire, sent, lost>>
  BY DEF IoError
<1>2. PICK how : how = IF Reading THEN "ConnectError" ELSE "InternalError"
  OBVIOUS
<1>3. /\ machine.phase = "run" /\ machine.id \in Nat /\ how \in Outcomes /\ how # "response"
      /\ <<>> \in Seq(Parts) /\ Return(machine.id, how, <<>>)
  BY <1>0, <1>2, Elements DEF IoError, Outcomes
<1>4. /\ machine' = Idle /\ results' \in Seq(Results) /\ Len(results') = Len(results) + 1
      /\ Len(results) \in Nat
      /\ \A k \in 1 .. Len(results) : results'[k] = results[k]
      /\ results'[Len(results) + 1] = [id |-> machine.id, how |-> how, answer |-> <<>>]
  BY <1>0, <1>3, Returned
<1>5. CallTypeOK'
  BY <1>0, <1>1, <1>4, IdleType DEF CallTypeOK
<1>6. IdsInOrder'
  BY <1>0, <1>1, <1>3, IdsReturned
<1>7. ServerInOrder'
  BY <1>0, <1>1, ServerUnchanged
<1>8. ClientInOrder'
  <2>1. \A k \in 1 .. Len(results') : k \in 1 .. Len(results) \/ k = Len(results) + 1
    BY <1>4
  <2>2. \A k \in 1 .. Len(results') : results'[k].how = "response" => Whole(results'[k], sent)
    <3>1. results'[Len(results) + 1].how # "response"
      BY <1>3, <1>4
    <3> QED
      BY <1>0, <1>4, <2>1, <3>1 DEF ClientInOrder
  <2> QED
    BY <1>0, <1>1, <1>4, <2>2, ClientKept, IdleType
<1> QED
  BY <1>5, <1>6, <1>7, <1>8 DEF CallInv

LEMMA NothingSentKeeps ==
  ASSUME CallInv, Disconnect \/ UNCHANGED callVars
  PROVE  CallInv'
<1>0. CallTypeOK /\ IdsInOrder /\ ServerInOrder /\ ClientInOrder
  BY DEF CallInv
<1>1. UNCHANGED <<machine, nextId, ring, goaway, requests, responder, wire, sent, results>>
      /\ lost' \in BOOLEAN
  BY <1>0 DEF Disconnect, callVars, CallTypeOK
<1>2. CallTypeOK'
  BY <1>0, <1>1 DEF CallTypeOK
<1>3. IdsInOrder'
  BY <1>0, <1>1, IdsKept DEF IdsInOrder
<1>4. ServerInOrder'
  BY <1>0, <1>1, ServerUnchanged
<1>5. ClientInOrder'
  BY <1>0, <1>1, ClientKept DEF ClientInOrder
<1> QED
  BY <1>2, <1>3, <1>4, <1>5 DEF CallInv

(* What the machine makes of frames that were sent, up to place k.         *)
LEMMA AppliedKeeps ==
  ASSUME CallInv, machine.phase = "run", UNCHANGED <<nextId, requests, responder, sent, lost>>,
         NEW k \in Nat, k = Len(sent) - Len(wire'), k <= Len(sent), wire' \in Seq(Frames),
         \A i \in 1 .. Len(wire') : wire'[i] = sent[k + i],
         NEW h \in Heard, Follows(h, machine.id, sent, k), Apply(h)
  PROVE  CallInv'
<1>0. CallTypeOK /\ IdsInOrder /\ ServerInOrder /\ ClientInOrder
  BY DEF CallInv
<1>1. /\ h.id \in Nat /\ h.ack \in Seq(Acks) /\ h.block \in Seq(Parts) /\ h.answer \in Seq(Parts)
      /\ h.goaway \in BOOLEAN /\ h.done \in Outcomes \cup {"reading"} /\ h.rest \in Seq(Frames)
  BY HeardFields
<1>2. ring' = h.rest /\ goaway' = h.goaway /\ h.id = machine.id
  BY DEF Apply, Follows
<1>3. ServerInOrder'
  BY <1>0, ServerUnchanged
<1>4. PICK r : r = Len(h.rest)
  OBVIOUS
<1>5. RestFollows(h, sent, k) /\ r \in Nat /\ Len(sent) \in Nat /\ Len(wire') \in Nat
  BY <1>0, <1>1, <1>4 DEF Follows, CallTypeOK
<1>6. r <= k /\ Used' = k - r /\ Used' >= 0 /\ Used' + Len(ring') = k
  <2>1. r <= k
    BY <1>4, <1>5 DEF RestFollows
  <2>2. Used' = Len(sent) - r - Len(wire') /\ Len(ring') = r
    BY <1>2, <1>4 DEF Used
  <2> QED
    BY <1>5, <2>1, <2>2
<1>7. \A i \in 1 .. Len(ring') : ring'[i] = sent'[Used' + i]
  BY <1>2, <1>4, <1>5, <1>6 DEF RestFollows
<1>8. \A i \in 1 .. Len(wire') : wire'[i] = sent'[Used' + Len(ring') + i]
  BY <1>6
<1>9. /\ machine' \in Machines /\ results' \in Seq(Results) /\ IdsInOrder'
      /\ machine'.phase = "run" => InStep(machine', sent', Used')
      /\ \A j \in 1 .. Len(results') : results'[j].how = "response" => Whole(results'[j], sent')
  <2>1. CASE h.done = "reading"
    <3>1. machine' = Running(machine.id, machine.out, h.ack, h.block, h.answer) /\ results' = results
      BY <2>1 DEF Apply
    <3>2. machine \in Machines /\ results \in Seq(Results)
      BY <1>0 DEF CallTypeOK
    <3>3. /\ machine' \in Machines /\ machine'.phase = "run" /\ machine'.id = machine.id
          /\ machine'.out = machine.out /\ machine'.block = h.block /\ machine'.answer = h.answer
      BY <1>1, <3>1, <3>2 DEF Running, Machines
    <3>4. IdsInOrder'
      BY <1>0, <3>1, <3>3, IdsKept DEF IdsInOrder
    <3>5. InStep(h, sent, k) /\ r = 0
      BY <1>4, <2>1 DEF Follows
    <3>6. Used' = k
      BY <1>6, <3>5
    <3>7. InStep(machine', sent', Used')
      BY <1>2, <3>3, <3>5, <3>6 DEF InStep
    <3> QED
      BY <1>0, <3>1, <3>2, <3>3, <3>4, <3>7 DEF ClientInOrder
  <2>2. CASE h.done # "reading"
    <3>1. Return(h.id, h.done, h.answer) /\ h.done \in Outcomes
      BY <1>1, <2>2 DEF Apply
    <3>2. /\ machine' = Idle /\ results' \in Seq(Results) /\ Len(results') = Len(results) + 1
          /\ Len(results) \in Nat
          /\ \A j \in 1 .. Len(results) : results'[j] = results[j]
          /\ results'[Len(results) + 1] = [id |-> h.id, how |-> h.done, answer |-> h.answer]
      BY <1>0, <1>1, <3>1, Returned
    <3>3. IdsInOrder'
      BY <1>0, <1>1, <1>2, <3>1, IdsReturned
    <3>4. ASSUME h.done = "response" PROVE Whole(results'[Len(results) + 1], sent)
      <4>1. k - r \in 1 .. k /\ EndsAt(h, machine.id, sent, k - r)
        BY <1>4, <3>4 DEF Follows
      <4>2. k - r \in 1 .. Len(sent)
        BY <1>5, <4>1
      <4>3. PICK x : x = results'[Len(results) + 1]
        OBVIOUS
      <4>4. x.id = machine.id /\ x.answer = h.answer
        BY <1>2, <3>2, <4>3
      <4>5. Whole(x, sent)
        BY <4>1, <4>2, <4>4 DEF Whole, EndsAt
      <4> QED
        BY <4>3, <4>5
    <3>5. \A j \in 1 .. Len(results') : j \in 1 .. Len(results) \/ j = Len(results) + 1
      BY <3>2
    <3>6. results'[Len(results) + 1].how = h.done
      BY <3>2
    <3>7. ASSUME NEW j \in 1 .. Len(results'), results'[j].how = "response" PROVE Whole(results'[j], sent')
      <4>1. CASE j \in 1 .. Len(results)
        <5>1. results'[j] = results[j]
          BY <3>2, <4>1
        <5>2. Whole(results[j], sent)
          BY <1>0, <3>7, <4>1, <5>1 DEF ClientInOrder
        <5> QED
          BY <5>1, <5>2
      <4>2. CASE j = Len(results) + 1
        BY <3>4, <3>6, <3>7, <4>2
      <4> QED
        BY <3>5, <4>1, <4>2
    <3> QED
      BY <3>2, <3>3, <3>7, IdleType
  <2> QED
    BY <2>1, <2>2
<1>10. CallTypeOK'
  BY <1>0, <1>1, <1>2, <1>9 DEF CallTypeOK
<1>11. ClientInOrder'
  BY <1>6, <1>7, <1>8, <1>9 DEF ClientInOrder
<1> QED
  BY <1>3, <1>9, <1>10, <1>11 DEF CallInv

LEMMA ConsumeRingKeeps ==
  ASSUME CallInv, ConsumeRing
  PROVE  CallInv'
<1>0. CallTypeOK /\ IdsInOrder /\ ServerInOrder /\ ClientInOrder
  BY DEF CallInv
<1>1. /\ machine.phase = "run" /\ UNCHANGED <<nextId, requests, responder, wire, sent, lost>>
      /\ Apply(ConsumeResponseFrames(machine, ring))
  BY DEF ConsumeRing, Reading
<1>2. /\ machine \in Machines /\ sent \in Seq(Frames) /\ ring \in Seq(Frames) /\ wire \in Seq(Frames)
      /\ goaway \in BOOLEAN /\ SentInOrder(sent) /\ InStep(machine, sent, Used)
      /\ \A i \in 1 .. Len(ring) : ring[i] = sent[Used + i]
  BY <1>0, <1>1 DEF CallTypeOK, ServerInOrder, ClientInOrder
<1>3. PICK k : k = Used + Len(ring)
  OBVIOUS
<1>4. Used \in Nat /\ k \in Nat /\ k <= Len(sent) /\ k = Len(sent) - Len(wire)
  BY <1>0, <1>2, <1>3 DEF ClientInOrder, Used
<1> DEFINE h == ConsumeResponseFrames(machine, ring)
<1>5. h \in Heard /\ Follows(h, machine.id, sent, k)
  BY <1>2, <1>3, <1>4, ReadsFollow
<1>6. \A i \in 1 .. Len(wire) : wire[i] = sent[k + i]
  BY <1>0, <1>3 DEF ClientInOrder
<1> HIDE DEF h
<1>7. Apply(h)
  BY <1>1 DEF h
<1> QED
  BY <1>1, <1>2, <1>4, <1>5, <1>6, <1>7, AppliedKeeps

LEMMA RecvKeeps ==
  ASSUME CallInv, Recv
  PROVE  CallInv'
<1>0. CallTypeOK /\ IdsInOrder /\ ServerInOrder /\ ClientInOrder
  BY DEF CallInv
<1>1. /\ machine.phase = "run" /\ ring = <<>>
      /\ UNCHANGED <<nextId, requests, responder, sent, lost>>
  BY DEF Recv, Reading
<1>2. PICK n \in 1 .. Len(wire) :
        /\ Apply(ConsumeResponseFrames(machine, SubSeq(wire, 1, n)))
        /\ wire' = SubSeq(wire, n + 1, Len(wire))
  BY DEF Recv
<1>3. /\ machine \in Machines /\ sent \in Seq(Frames) /\ wire \in Seq(Frames)
      /\ goaway \in BOOLEAN /\ SentInOrder(sent) /\ InStep(machine, sent, Used)
      /\ \A i \in 1 .. Len(wire) : wire[i] = sent[Used + Len(ring) + i]
  BY <1>0, <1>1 DEF CallTypeOK, ServerInOrder, ClientInOrder
<1>4. Len(ring) = 0 /\ Used \in Nat /\ Used = Len(sent) - Len(wire) /\ n \in Nat /\ n <= Len(wire)
  <2>1. Len(ring) = 0
    BY <1>1
  <2>2. Used >= 0
    BY <1>0 DEF ClientInOrder
  <2> QED
    BY <1>3, <2>1, <2>2 DEF Used
<1> DEFINE b == Used
<1>5. \A i \in 1 .. Len(wire) : wire[i] = sent[b + i]
  BY <1>3, <1>4
<1> HIDE DEF b
<1> DEFINE batch == SubSeq(wire, 1, n)
<1>6. batch \in Seq(Frames) /\ Len(batch) = n /\ \A i \in 1 .. n : batch[i] = wire[i]
  BY <1>3, <1>4
<1>7. /\ wire' \in Seq(Frames) /\ Len(wire') = Len(wire) - n
      /\ \A i \in 1 .. Len(wire) - n : wire'[i] = wire[n + i]
  BY <1>2, <1>3, <1>4
<1>8. PICK k : k = b + n
  OBVIOUS
<1>9. k \in Nat /\ k <= Len(sent) /\ k = Len(sent) - Len(wire') /\ b \in Nat
  <2>1. Len(wire) \in Nat /\ Len(sent) \in Nat
    BY <1>3
  <2>2. b \in Nat /\ b = Len(sent) - Len(wire)
    BY <1>4 DEF b
  <2>3. Len(wire') = Len(wire) - n
    BY <1>7
  <2> QED
    BY <1>4, <1>8, <2>1, <2>2, <2>3
<1>10. \A i \in 1 .. Len(batch) : batch[i] = sent[b + i]
  BY <1>4, <1>5, <1>6
<1>11. \A i \in 1 .. Len(wire') : wire'[i] = sent[k + i]
  <2> SUFFICES ASSUME NEW i \in 1 .. Len(wire') PROVE wire'[i] = sent[k + i]
    OBVIOUS
  <2>1. n + i \in 1 .. Len(wire) /\ b + (n + i) = k + i
    <3>1. Len(wire) \in Nat
      BY <1>3
    <3> QED
      BY <1>4, <1>7, <1>8, <1>9, <3>1
  <2>2. wire'[i] = wire[n + i]
    BY <1>7
  <2>3. wire[n + i] = sent[b + (n + i)]
    BY <1>5, <2>1
  <2> QED
    BY <2>1, <2>2, <2>3
<1> HIDE DEF batch
<1> DEFINE h == ConsumeResponseFrames(machine, batch)
<1>12. h \in Heard /\ Follows(h, machine.id, sent, k)
  <2>1. k = b + Len(batch) /\ InStep(machine, sent, b)
    BY <1>3, <1>6, <1>8 DEF b
  <2> QED
    BY <1>3, <1>6, <1>9, <1>10, <2>1, ReadsFollow
<1> HIDE DEF h
<1>13. Apply(h)
  BY <1>2 DEF h, batch
<1> QED
  BY <1>1, <1>7, <1>9, <1>11, <1>12, <1>13, AppliedKeeps

(* A response, as the frames a the server has to send.                     *)
Carries(a, id, response) ==
  /\ a \in Seq(Frames) /\ Len(a) = Len(response) /\ Len(response) \in Nat
  /\ \A i \in 1 .. Len(response) :
       /\ OnStream(a[i], id) /\ a[i].type = response[i].type
       /\ a[i].endHeaders = response[i].endHeaders /\ a[i].endStream = response[i].endStream

LEMMA AnsweringType ==
  ASSUME NEW id \in Nat, NEW response, IsResponse(response)
  PROVE  Carries(Answering(id, response), id, response)
<1> DEFINE R == [type : MessageFrames, id : {0}, parts : Seq(Carried), endHeaders : BOOLEAN,
                 endStream : BOOLEAN]
<1>1. response \in Seq(R)
  BY DEF IsResponse
<1>2. Len(response) \in Nat /\ \A i \in 1 .. Len(response) : response[i] \in R
  <2> HIDE DEF R
  <2> QED
    BY <1>1
<1> DEFINE part(r) == [j \in 1 .. Len(r.parts) |-> <<id, r.parts[j]>>]
<1> DEFINE frame(r) == Frame(r.type, id, part(r), r.endHeaders, r.endStream)
<1>3. ASSUME NEW r \in R
      PROVE  /\ frame(r) \in Frames /\ OnStream(frame(r), id) /\ frame(r).type = r.type
             /\ frame(r).endHeaders = r.endHeaders /\ frame(r).endStream = r.endStream
  <2>1. part(r) \in Seq(Parts)
    <3>1. r.parts \in Seq(Carried)
      OBVIOUS
    <3>2. PICK p \in Seq(Carried) : p = r.parts
      BY <3>1
    <3>3. Len(p) \in Nat /\ \A j \in 1 .. Len(p) : <<id, p[j]>> \in Parts
      BY DEF Parts
    <3>4. [j \in 1 .. Len(p) |-> <<id, p[j]>>] \in Seq(Parts)
      BY <3>3
    <3> QED
      BY <3>2, <3>4
  <2>2. PICK q \in Seq(Parts) : q = part(r)
    BY <2>1
  <2>3. r.type \in MessageFrames /\ r.type \in FrameTypes /\ r.endHeaders \in BOOLEAN /\ r.endStream \in BOOLEAN
    BY DEF FrameTypes
  <2> HIDE DEF part, R
  <2>4. frame(r) = [type |-> r.type, id |-> id, parts |-> q, endHeaders |-> r.endHeaders,
                    endStream |-> r.endStream]
    BY <2>2 DEF Frame
  <2> HIDE DEF frame
  <2> QED
    BY <2>3, <2>4 DEF Frames, OnStream
<1>4. Answering(id, response) = [i \in 1 .. Len(response) |-> frame(response[i])]
  BY DEF Answering
<1> HIDE DEF frame, part, R
<1>5. [i \in 1 .. Len(response) |-> frame(response[i])] \in Seq(Frames)
  <2>1. \A i \in 1 .. Len(response) : frame(response[i]) \in Frames
    BY <1>2, <1>3
  <2> QED
    BY <1>2, <2>1
<1>6. \A i \in 1 .. Len(response) : Answering(id, response)[i] = frame(response[i])
  BY <1>4
<1>7. Len(Answering(id, response)) = Len(response)
  BY <1>2, <1>4
<1> QED
  BY <1>2, <1>3, <1>4, <1>5, <1>6, <1>7 DEF Carries

LEMMA RespondKeeps ==
  ASSUME CallInv, Respond
  PROVE  CallInv'
<1>0. CallTypeOK /\ IdsInOrder /\ ServerInOrder /\ ClientInOrder
  BY DEF CallInv
<1>1. UNCHANGED <<machine, nextId, ring, goaway, requests, wire, sent, results, lost>>
  BY DEF Respond
<1>2. PICK id \in {requests[i].id : i \in 1 .. Len(requests)} \ DOMAIN responder :
        /\ Ended(id)
        /\ \E response \in Responses :
             responder' = [x \in DOMAIN responder \cup {id} |->
                             IF x = id THEN Answering(id, response) ELSE responder[x]]
  BY DEF Respond
<1>3. PICK response \in Responses :
        responder' = [x \in DOMAIN responder \cup {id} |->
                        IF x = id THEN Answering(id, response) ELSE responder[x]]
  BY <1>2
<1>4. id \in Nat /\ id \in 1 .. nextId - 1
  <2>1. PICK i \in 1 .. Len(requests) : requests[i].id = id /\ requests[i].endStream
    BY <1>2 DEF Ended
  <2>2. Numbered(requests[i]) /\ id \in Nat
    BY <1>0, <2>1, Elements DEF IdsInOrder
  <2> QED
    BY <1>0, <2>1, <2>2 DEF Numbered, CallTypeOK
<1>5. IsResponse(response)
  BY ServerAssumption
<1> DEFINE a == Answering(id, response)
<1>a. Carries(a, id, response)
  BY <1>4, <1>5, AnsweringType
<1>7. /\ DOMAIN responder' = DOMAIN responder \cup {id} /\ responder'[id] = a
      /\ \A x \in DOMAIN responder : responder'[x] = responder[x]
  BY <1>2, <1>3
<1> HIDE DEF a
<1>6. /\ a \in Seq(Frames) /\ Len(a) = Len(response) /\ Len(response) \in Nat
      /\ \A i \in 1 .. Len(response) :
           /\ OnStream(a[i], id) /\ a[i].type = response[i].type
           /\ a[i].endHeaders = response[i].endHeaders /\ a[i].endStream = response[i].endStream
  BY <1>a DEF Carries
<1>8. CallTypeOK'
  <2>1. DOMAIN responder \subseteq Nat /\ responder \in [DOMAIN responder -> Seq(Frames)]
    BY <1>0 DEF CallTypeOK
  <2>2. \A x \in DOMAIN responder' : responder'[x] \in Seq(Frames)
    BY <1>6, <1>7, <2>1
  <2>3. responder' = [x \in DOMAIN responder' |-> responder'[x]]
    BY <1>3
  <2>4. responder' \in [DOMAIN responder' -> Seq(Frames)]
    BY <2>2, <2>3
  <2>5. DOMAIN responder' \subseteq Nat
    BY <1>4, <1>7, <2>1
  <2> QED
    BY <1>0, <1>1, <2>4, <2>5 DEF CallTypeOK
<1>9. IdsInOrder'
  <2>1. DOMAIN responder' \subseteq 1 .. nextId' - 1
    BY <1>0, <1>1, <1>4, <1>7 DEF IdsInOrder
  <2> QED
    BY <1>0, <1>1, <2>1 DEF IdsInOrder, Numbered
<1>10. ServerInOrder'
  <2>1. \A i \in 1 .. Len(sent) : ~OnStream(sent[i], id)
    BY <1>0, <1>2 DEF ServerInOrder, OnStream
  <2>2. ~(\E i \in 1 .. Len(sent) : OnStream(sent[i], id) /\ Ends(sent[i]))
        /\ ~OpenBlock(sent, Len(sent), id)
    BY <2>1 DEF OpenBlock
  <2>3. RestOfResponse(id)'
    <3>1. ~StreamEnded(id)'
      BY <1>1, <2>2 DEF StreamEnded
    <3>2. ASSUME NEW i \in 1 .. Len(a)
          PROVE  /\ OnStream(a[i], id) /\ (Ends(a[i]) => i = Len(a))
                 /\ a[i].type = "DATA" => IF i = 1 THEN ~OpenBlock(sent, Len(sent), id)
                                          ELSE a[i - 1].endHeaders
      <4>1. OnStream(a[i], id)
        BY <1>6
      <4>2. Ends(a[i]) => i = Len(a)
        <5>1. Ends(a[i]) => Ends(response[i])
          BY <1>6 DEF Ends
        <5> QED
          BY <1>5, <1>6, <5>1 DEF IsResponse
      <4>3. ASSUME a[i].type = "DATA", i # 1 PROVE a[i - 1].endHeaders
        <5>1. i > 1 /\ i - 1 \in 1 .. Len(response) /\ i \in 1 .. Len(response)
          BY <1>6, <4>3
        <5>2. response[i].type = "DATA"
          BY <1>6, <4>3, <5>1
        <5>3. response[i - 1].endHeaders
          BY <1>5, <5>1, <5>2 DEF IsResponse
        <5> QED
          BY <1>6, <5>1, <5>3
      <4> QED
        BY <2>2, <4>1, <4>2, <4>3
    <3> QED
      BY <1>1, <1>7, <3>1, <3>2 DEF RestOfResponse
  <2>4. ASSUME NEW x \in DOMAIN responder PROVE RestOfResponse(x)'
    <3>1. RestOfResponse(x) /\ responder'[x] = responder[x]
      BY <1>0, <1>7 DEF ServerInOrder
    <3> QED
      BY <1>1, <3>1 DEF RestOfResponse, StreamEnded
  <2>5. \A x \in DOMAIN responder' : RestOfResponse(x)'
    BY <1>7, <2>3, <2>4
  <2>6. SentInOrder(sent')
        /\ \A i \in 1 .. Len(sent') : sent'[i].type \in MessageFrames => sent'[i].id \in DOMAIN responder'
    BY <1>0, <1>1, <1>7 DEF ServerInOrder
  <2> QED
    BY <2>5, <2>6 DEF ServerInOrder
<1>11. ClientInOrder'
  BY <1>0, <1>1, ClientKept DEF ClientInOrder
<1> QED
  BY <1>8, <1>9, <1>10, <1>11 DEF CallInv

(* What is sent is behind everything under way.                            *)
LEMMA EmittedClient ==
  ASSUME CallTypeOK, ClientInOrder, NEW f \in Frames, Emit(f), UNCHANGED <<machine, ring, results>>
  PROVE  ClientInOrder' /\ wire' \in Seq(Frames) /\ sent' \in Seq(Frames)
<1>1. /\ wire' = Append(wire, f) /\ sent' = Append(sent, f)
      /\ wire \in Seq(Frames) /\ sent \in Seq(Frames) /\ ring \in Seq(Frames)
  BY DEF Emit, CallTypeOK
<1>2. /\ wire' \in Seq(Frames) /\ Len(wire') = Len(wire) + 1 /\ wire'[Len(wire) + 1] = f /\ Len(wire) \in Nat
      /\ \A i \in 1 .. Len(wire) : wire'[i] = wire[i]
  BY <1>1, Appended
<1>3. /\ sent' \in Seq(Frames) /\ Len(sent') = Len(sent) + 1 /\ sent'[Len(sent) + 1] = f /\ Len(sent) \in Nat
      /\ \A i \in 1 .. Len(sent) : sent'[i] = sent[i]
  BY <1>1, Appended
<1>4. PICK u : u = Used
  OBVIOUS
<1>5. PICK r : r = Len(ring)
  OBVIOUS
<1>6. u >= 0 /\ u = Len(sent) - r - Len(wire) /\ r \in Nat
  BY <1>1, <1>4, <1>5 DEF ClientInOrder, Used
<1>7. u \in 0 .. Len(sent) /\ Len(ring') = r /\ u + r + Len(wire) = Len(sent)
  BY <1>2, <1>3, <1>5, <1>6
<1>8. Used' = u
  <2>1. Used' = (Len(sent) + 1) - r - (Len(wire) + 1)
    BY <1>2, <1>3, <1>7 DEF Used
  <2> QED
    BY <1>2, <1>3, <1>6, <2>1
<1>9. \A i \in 1 .. Len(ring') : ring'[i] = sent'[u + i]
  <2>1. \A i \in 1 .. r : ring[i] = sent[u + i]
    BY <1>4, <1>5 DEF ClientInOrder
  <2>2. \A i \in 1 .. r : u + i \in 1 .. Len(sent)
    BY <1>2, <1>3, <1>6
  <2> QED
    BY <1>3, <1>7, <2>1, <2>2
<1>10. \A i \in 1 .. Len(wire') : wire'[i] = sent'[u + r + i]
  <2>1. \A i \in 1 .. Len(wire) : wire[i] = sent[u + r + i]
    BY <1>4, <1>5 DEF ClientInOrder
  <2>2. \A i \in 1 .. Len(wire) : u + r + i \in 1 .. Len(sent)
    BY <1>2, <1>3, <1>6, <1>7
  <2>3. u + r + (Len(wire) + 1) = Len(sent) + 1
    BY <1>2, <1>3, <1>6
  <2>4. \A i \in 1 .. Len(wire') : i \in 1 .. Len(wire) \/ i = Len(wire) + 1
    BY <1>2
  <2> SUFFICES ASSUME NEW i \in 1 .. Len(wire') PROVE wire'[i] = sent'[u + r + i]
    OBVIOUS
  <2>5. CASE i \in 1 .. Len(wire)
    BY <1>2, <1>3, <2>1, <2>2, <2>5
  <2>6. CASE i = Len(wire) + 1
    BY <1>2, <1>3, <2>3, <2>6
  <2> QED
    BY <2>4, <2>5, <2>6
<1>11. machine'.phase = "run" => InStep(machine', sent', u)
  <2>1. SUFFICES ASSUME machine.phase = "run" PROVE InStep(machine, Append(sent, f), u)
    BY <1>1
  <2>2. InStep(machine, sent, u)
    BY <1>4, <2>1 DEF ClientInOrder
  <2> QED
    BY <1>1, <1>7, <2>2, InStepAppend
<1>12. \A k \in 1 .. Len(results') : results'[k].how = "response" => Whole(results'[k], sent')
  <2>1. SUFFICES ASSUME NEW k \in 1 .. Len(results), results[k].how = "response"
                 PROVE  Whole(results[k], Append(sent, f))
    BY <1>1
  <2>2. Whole(results[k], sent)
    BY <2>1 DEF ClientInOrder
  <2> QED
    BY <1>1, <2>2, WholeAppend
<1>13. u >= 0
  BY <1>6
<1> QED
  BY <1>2, <1>3, <1>7, <1>8, <1>9, <1>10, <1>11, <1>12, <1>13 DEF ClientInOrder

(* A frame of another stream.                                              *)
LEMMA RestAppend ==
  ASSUME NEW f \in Frames, sent \in Seq(Frames), NEW id, ~OnStream(f, id), RestOfResponse(id),
         sent' = Append(sent, f), responder'[id] = responder[id]
  PROVE  RestOfResponse(id)'
<1>1. StreamEnded(id)' <=> StreamEnded(id)
  BY StreamEndedAppend DEF StreamEnded
<1>2. OpenBlock(sent', Len(sent'), id) <=> OpenBlock(sent, Len(sent), id)
  <2>1. /\ sent' \in Seq(Frames) /\ Len(sent') = Len(sent) + 1 /\ sent'[Len(sent) + 1] = f
        /\ Len(sent) \in Nat
    BY Appended
  <2>2. Len(sent') \in 1 .. Len(sent') /\ Len(sent') - 1 = Len(sent) /\ Len(sent) \in 0 .. Len(sent)
        /\ sent'[Len(sent')] = f
    BY <2>1
  <2>3. OpenBlock(sent', Len(sent'), id) <=> OpenBlock(sent', Len(sent') - 1, id)
    BY <2>1, <2>2, OpenBlockStep
  <2>4. OpenBlock(sent', Len(sent), id) <=> OpenBlock(sent, Len(sent), id)
    BY <2>2, OpenBlockAppend
  <2> QED
    BY <2>2, <2>3, <2>4
<1> QED
  BY <1>1, <1>2 DEF RestOfResponse

LEMMA SendResponseKeeps ==
  ASSUME CallInv, SendResponse
  PROVE  CallInv'
<1>0. CallTypeOK /\ IdsInOrder /\ ServerInOrder /\ ClientInOrder
  BY DEF CallInv
<1>1. UNCHANGED <<machine, nextId, ring, goaway, requests, results, lost>>
  BY DEF SendResponse
<1>2. PICK id \in DOMAIN responder :
        /\ responder[id] # <<>> /\ Emit(Head(responder[id]))
        /\ responder' = [responder EXCEPT ![id] = Tail(@)]
  BY DEF SendResponse
<1>3. /\ responder \in [DOMAIN responder -> Seq(Frames)] /\ sent \in Seq(Frames)
      /\ DOMAIN responder \subseteq Nat
  BY <1>0 DEF CallTypeOK
<1> DEFINE a == responder[id]
<1>4. a \in Seq(Frames) /\ a # <<>>
  BY <1>2, <1>3
<1>5. /\ DOMAIN responder' = DOMAIN responder /\ responder'[id] = Tail(a)
      /\ \A x \in DOMAIN responder : x # id => responder'[x] = responder[x]
  BY <1>2
<1> HIDE DEF a
<1> DEFINE f == Head(a)
<1>6. /\ f \in Frames /\ Tail(a) \in Seq(Frames) /\ Len(Tail(a)) = Len(a) - 1 /\ f = a[1]
      /\ 1 \in 1 .. Len(a) /\ Len(a) \in Nat
      /\ \A i \in 1 .. Len(a) - 1 : Tail(a)[i] = a[i + 1] /\ i + 1 \in 1 .. Len(a)
  BY <1>4
<1> HIDE DEF f
<1>7. Emit(f) /\ wire' = Append(wire, f) /\ sent' = Append(sent, f)
  BY <1>2 DEF f, a, Emit
<1>8. RestOfResponse(id) /\ SentInOrder(sent)
  BY <1>0 DEF ServerInOrder
<1>9. /\ StreamEnded(id) => a = <<>>
      /\ \A i \in 1 .. Len(a) :
           /\ OnStream(a[i], id) /\ (Ends(a[i]) => i = Len(a))
           /\ a[i].type = "DATA" => IF i = 1 THEN ~OpenBlock(sent, Len(sent), id)
                                    ELSE a[i - 1].endHeaders
  BY <1>8 DEF RestOfResponse, a
<1>10. /\ ~StreamEnded(id) /\ OnStream(f, id) /\ (f.type = "DATA" => ~OpenBlock(sent, Len(sent), id))
       /\ Ends(f) => Len(a) = 1
  BY <1>4, <1>6, <1>9
<1>11. f.id = id /\ f.type \in MessageFrames
  BY <1>10 DEF OnStream
<1>12. SentInOrder(sent')
  <2>1. \A i \in 1 .. Len(sent) : ~(OnStream(sent[i], f.id) /\ Ends(sent[i]))
    BY <1>10, <1>11 DEF StreamEnded
  <2>2. SentInOrder(Append(sent, f))
    BY <1>3, <1>6, <1>8, <1>10, <1>11, <2>1, SentInOrderAppend
  <2> QED
    BY <1>7, <2>2
<1>13. ClientInOrder' /\ wire' \in Seq(Frames) /\ sent' \in Seq(Frames)
  BY <1>0, <1>1, <1>6, <1>7, EmittedClient
<1>14. \A x \in DOMAIN responder' : responder'[x] \in Seq(Frames)
  BY <1>3, <1>5, <1>6
<1>15. CallTypeOK'
  <2>1. responder' \in [DOMAIN responder' -> Seq(Frames)]
    <3>1. responder' = [x \in DOMAIN responder' |-> responder'[x]]
      BY <1>2, <1>3
    <3> QED
      BY <1>14, <3>1
  <2> QED
    BY <1>0, <1>1, <1>3, <1>5, <1>13, <2>1 DEF CallTypeOK
<1>16. IdsInOrder'
  BY <1>0, <1>1, <1>5 DEF IdsInOrder, Numbered
<1>17. /\ Len(sent') = Len(sent) + 1 /\ sent'[Len(sent) + 1] = f /\ Len(sent) \in Nat
       /\ \A i \in 1 .. Len(sent) : sent'[i] = sent[i]
  BY <1>3, <1>6, <1>7, Appended
<1>18. RestOfResponse(id)'
  <2>1. StreamEnded(id)' => Ends(f)
    BY <1>3, <1>6, <1>7, <1>10, StreamEndedAppend DEF StreamEnded
  <2>2. OpenBlock(sent', Len(sent'), id) => ~f.endHeaders
    <3>1. Len(sent') \in 1 .. Len(sent') /\ sent'[Len(sent')] = f
      BY <1>17
    <3> QED
      BY <1>10, <1>13, <3>1, OpenBlockStep
  <2>3. StreamEnded(id)' => Tail(a) = <<>>
    <3>1. ASSUME Len(a) = 1 PROVE Tail(a) = <<>>
      <4>1. Tail(a) \in Seq(Frames) /\ Len(Tail(a)) = 0
        BY <1>6, <3>1
      <4>2. PICK s \in Seq(Frames) : s = Tail(a)
        BY <4>1
      <4> QED
        BY <4>1, <4>2
    <3> QED
      BY <1>10, <2>1, <3>1
  <2> DEFINE b == Tail(a)
  <2>4. \A i \in 1 .. Len(b) : b[i] = a[i + 1] /\ i + 1 \in 1 .. Len(a) /\ Len(b) = Len(a) - 1
    BY <1>6
  <2>5. Len(b) \in Nat
    BY <1>6
  <2> HIDE DEF b
  <2>6. ASSUME NEW i \in 1 .. Len(b)
        PROVE  /\ OnStream(b[i], id) /\ (Ends(b[i]) => i = Len(b))
               /\ b[i].type = "DATA" => IF i = 1 THEN ~OpenBlock(sent', Len(sent'), id)
                                        ELSE b[i - 1].endHeaders
    <3>1. PICK j \in 1 .. Len(a) : j = i + 1
      BY <2>4
    <3>2. b[i] = a[j] /\ Len(b) = Len(a) - 1 /\ j # 1 /\ i = j - 1 /\ Len(a) \in Nat
      <4>1. b[i] = a[j] /\ Len(b) = Len(a) - 1
        BY <2>4, <3>1
      <4>2. i \in Nat /\ i >= 1
        BY <2>5
      <4>3. j # 1 /\ i = j - 1
        BY <3>1, <4>2
      <4> QED
        BY <1>6, <4>1, <4>3
    <3>3. OnStream(a[j], id) /\ (Ends(a[j]) => j = Len(a)) /\ (a[j].type = "DATA" => a[j - 1].endHeaders)
      BY <1>9, <3>2
    <3>4. CASE i = 1
      <4>1. a[j - 1] = f
        BY <1>6, <3>2, <3>4
      <4> QED
        BY <2>2, <3>2, <3>3, <3>4, <4>1
    <3>5. CASE i # 1
      <4>1. i - 1 \in 1 .. Len(b) /\ (i - 1) + 1 = j - 1
        BY <2>5, <3>2, <3>5
      <4>2. b[i - 1] = a[j - 1]
        BY <2>4, <4>1
      <4> QED
        BY <3>2, <3>3, <3>5, <4>2
    <3> QED
      BY <3>4, <3>5
  <2>7. responder'[id] = b
    BY <1>5 DEF b
  <2> QED
    BY <2>3, <2>6, <2>7 DEF RestOfResponse, b
<1>19. ASSUME NEW x \in DOMAIN responder, x # id PROVE RestOfResponse(x)'
  <2>1. ~OnStream(f, x) /\ RestOfResponse(x) /\ responder'[x] = responder[x]
    BY <1>0, <1>5, <1>11, <1>19 DEF OnStream, ServerInOrder
  <2> QED
    BY <1>3, <1>6, <1>7, <2>1, RestAppend
<1>20. ServerInOrder'
  <2>1. \A i \in 1 .. Len(sent') : sent'[i].type \in MessageFrames => sent'[i].id \in DOMAIN responder'
    <3>1. \A i \in 1 .. Len(sent') : i \in 1 .. Len(sent) \/ i = Len(sent) + 1
      BY <1>17
    <3> QED
      BY <1>0, <1>5, <1>11, <1>17, <3>1 DEF ServerInOrder
  <2>2. \A x \in DOMAIN responder' : RestOfResponse(x)'
    BY <1>5, <1>18, <1>19
  <2> QED
    BY <1>12, <2>1, <2>2 DEF ServerInOrder
<1> QED
  BY <1>13, <1>15, <1>16, <1>20 DEF CallInv

(* Frames that are none of a message.                                      *)
LEMMA SendControlFrameKeeps ==
  ASSUME CallInv, SendControlFrame
  PROVE  CallInv'
<1>0. CallTypeOK /\ IdsInOrder /\ ServerInOrder /\ ClientInOrder
  BY DEF CallInv
<1>1. UNCHANGED <<machine, nextId, ring, goaway, requests, results, lost>>
  BY DEF SendControlFrame
<1>2. /\ responder \in [DOMAIN responder -> Seq(Frames)] /\ sent \in Seq(Frames)
      /\ DOMAIN responder \subseteq Nat
  BY <1>0 DEF CallTypeOK
<1>3. PICK type \in {"SETTINGS", "PING", "broken", "RST_STREAM", "GOAWAY"}, id \in {0} \cup DOMAIN responder :
        /\ Emit(Control(type, id))
        /\ \/ UNCHANGED responder
           \/ id \in DOMAIN responder /\ responder' = [responder EXCEPT ![id] = <<>>]
  BY DEF SendControlFrame
<1> DEFINE f == Control(type, id)
<1>4. f \in Frames /\ f.type = type
  <2>1. type \in FrameTypes /\ id \in Nat
    BY <1>2 DEF FrameTypes
  <2> QED
    BY <2>1, ControlType
<1>5. Emit(f)
  BY <1>3
<1> HIDE DEF f
<1>6. f.type \notin MessageFrames /\ \A x : ~OnStream(f, x)
  BY <1>4 DEF MessageFrames, OnStream
<1>7. wire' = Append(wire, f) /\ sent' = Append(sent, f)
  BY <1>5 DEF Emit
<1>8. /\ DOMAIN responder' = DOMAIN responder
      /\ \A x \in DOMAIN responder : responder'[x] = responder[x] \/ responder'[x] = <<>>
      /\ responder' = [x \in DOMAIN responder' |-> responder'[x]]
  <2>1. CASE responder' = responder
    BY <1>2, <2>1
  <2>2. CASE responder' = [responder EXCEPT ![id] = <<>>]
    BY <2>2
  <2> QED
    BY <1>3, <2>1, <2>2
<1>9. ClientInOrder' /\ wire' \in Seq(Frames) /\ sent' \in Seq(Frames)
  BY <1>0, <1>1, <1>4, <1>5, EmittedClient
<1>10. CallTypeOK'
  <2>1. \A x \in DOMAIN responder' : responder'[x] \in Seq(Frames)
    <3>1. <<>> \in Seq(Frames)
      OBVIOUS
    <3> QED
      BY <1>2, <1>8, <3>1
  <2>2. responder' \in [DOMAIN responder' -> Seq(Frames)]
    BY <1>8, <2>1
  <2> QED
    BY <1>0, <1>1, <1>2, <1>8, <1>9, <2>2 DEF CallTypeOK
<1>11. IdsInOrder'
  BY <1>0, <1>1, <1>8 DEF IdsInOrder, Numbered
<1>12. ServerInOrder'
  <2>1. SentInOrder(sent')
    <3>1. SentInOrder(sent) /\ f.type # "DATA"
      BY <1>0, <1>6 DEF ServerInOrder, MessageFrames
    <3>2. SentInOrder(Append(sent, f))
      BY <1>2, <1>4, <1>6, <3>1, SentInOrderAppend
    <3> QED
      BY <1>7, <3>2
  <2>2. \A i \in 1 .. Len(sent') : sent'[i].type \in MessageFrames => sent'[i].id \in DOMAIN responder'
    <3>1. /\ Len(sent') = Len(sent) + 1 /\ sent'[Len(sent) + 1] = f /\ Len(sent) \in Nat
          /\ \A i \in 1 .. Len(sent) : sent'[i] = sent[i]
      BY <1>2, <1>4, <1>7, Appended
    <3>2. \A i \in 1 .. Len(sent') : i \in 1 .. Len(sent) \/ i = Len(sent) + 1
      BY <3>1
    <3> QED
      BY <1>0, <1>6, <1>8, <3>1, <3>2 DEF ServerInOrder
  <2>3. ASSUME NEW x \in DOMAIN responder PROVE RestOfResponse(x)'
    <3>1. CASE responder'[x] = <<>>
      <4>1. Len(<<>>) = 0 /\ 1 .. 0 = {}
        OBVIOUS
      <4> QED
        BY <3>1, <4>1 DEF RestOfResponse
    <3>2. CASE responder'[x] = responder[x]
      <4>1. RestOfResponse(x) /\ ~OnStream(f, x)
        BY <1>0, <1>6 DEF ServerInOrder
      <4> QED
        BY <1>2, <1>4, <1>7, <3>2, <4>1, RestAppend
    <3> QED
      BY <1>8, <3>1, <3>2
  <2> QED
    BY <1>8, <2>1, <2>2, <2>3 DEF ServerInOrder
<1> QED
  BY <1>9, <1>10, <1>11, <1>12 DEF CallInv

(* The invariant that ResponseIsOwn follows from: the server sends a       *)
(* response's frames in order, and the client holds those it has not read  *)
(* yet, in its ring or under way, behind all that its machine has read.    *)
THEOREM CallInvariant == CallSpec => []CallInv
<1>1. CallInit => CallInv
  BY CallInvInit
<1>2. CallInv /\ [CallNext]_callVars => CallInv'
  <2> SUFFICES ASSUME CallInv, [CallNext]_callVars PROVE CallInv'
    OBVIOUS
  <2>1. CASE Request
    BY <2>1, RequestKeeps
  <2>2. CASE SendControl
    BY <2>2, SendControlKeeps
  <2>3. CASE SendRequest
    BY <2>3, SendRequestKeeps
  <2>4. CASE ConsumeRing
    BY <2>4, ConsumeRingKeeps
  <2>5. CASE Recv
    BY <2>5, RecvKeeps
  <2>6. CASE IoError
    BY <2>6, IoErrorKeeps
  <2>7. CASE Respond
    BY <2>7, RespondKeeps
  <2>8. CASE SendResponse
    BY <2>8, SendResponseKeeps
  <2>9. CASE SendControlFrame
    BY <2>9, SendControlFrameKeeps
  <2>10. CASE Disconnect \/ UNCHANGED callVars
    BY <2>10, NothingSentKeeps
  <2> QED
    BY <2>1, <2>2, <2>3, <2>4, <2>5, <2>6, <2>7, <2>8, <2>9, <2>10
       DEF CallNext, CallProgress, CallStep, Answer
<1> QED
  BY <1>1, <1>2, PTL DEF CallSpec

THEOREM ResponsesAreOwn == CallSpec => []ResponseIsOwn
<1>1. CallInv => ResponseIsOwn
  <2> SUFFICES ASSUME CallInv, NEW k \in 1 .. Len(results), results[k].how = "response"
               PROVE  /\ results[k].answer = Contents(sent, results[k].id)[Len(sent)]
                      /\ \E i \in 1 .. Len(sent) :
                           /\ OnStream(sent[i], results[k].id) /\ sent[i].endStream
                           /\ \A j \in i + 1 .. Len(sent) : ~OnStream(sent[j], results[k].id)
                      /\ \A j \in 1 .. k - 1 : results[j].id # results[k].id
    BY DEF ResponseIsOwn
  <2>1. CallTypeOK /\ IdsInOrder /\ ServerInOrder /\ ClientInOrder
    BY DEF CallInv
  <2>2. sent \in Seq(Frames) /\ SentInOrder(sent) /\ Whole(results[k], sent)
    BY <2>1 DEF CallTypeOK, ServerInOrder, ClientInOrder
  <2>3. \A j \in 1 .. k - 1 : results[j].id # results[k].id
    <3>1. results[k].id # 0 /\ \A j \in 1 .. k - 1 : results[k].id = 0 \/ results[j].id < results[k].id
      BY <2>1 DEF IdsInOrder
    <3>2. results[k].id \in Nat /\ \A j \in 1 .. k - 1 : j \in 1 .. Len(results)
      BY <2>1, Elements
    <3> QED
      BY <2>1, <3>1, <3>2, Elements
  <2> QED
    BY <2>2, <2>3, WholeIsAll
<1>2. CallSpec => []CallInv
  BY CallInvariant
<1> QED
  BY <1>1, <1>2, PTL
=============================================================================
