------------------------ MODULE Http2LifecycleProofs ------------------------
(***************************************************************************)
(* Theorems of Http2Lifecycle for any number of handlers, any set of kinds *)
(* of connection, and channels of any length: no waiter is lost, nothing   *)
(* runs after the stop, and what handlers sent is written before it.       *)
(***************************************************************************)
EXTENDS Http2Lifecycle, FiniteSetTheorems, TLAPS

Past == rpc \in {"writer", "monitor", "stopped"}
NoneRuns == \A h \in Handlers : ~Running(h)

(* Where the coroutines are says who has gone.                             *)
LoopsGone ==
  /\ Tls => wpc = "gone"
  /\ rpc = "send" => Tls
  /\ rpc \in {"monitor", "stopped"} => wpc = "gone"
  /\ rpc = "stopped" => mpc = "gone"
  /\ wpc # "write" /\ rpc # "send" => batch = <<>>

(* m_draining_handlers is set after the loop, and then no handler starts;  *)
(* on this thread the last handler's notification says that none runs.     *)
HandlersQuiet ==
  /\ InLoop \/ rpc = "left" => ~draining
  /\ conf.thread = "io" =>
       /\ \A h \in Handlers : hpc[h] # "last"
       /\ Past => NoneRuns
       /\ "handlers" \in notified => NoneRuns /\ ~InLoop

NoHandlerItem(items) == \A i \in DOMAIN items : items[i].by \notin Handlers \cup {"end"}
OneEnd(items) ==
  \A i, j \in DOMAIN items : items[i] = EndMark /\ items[j] = EndMark => i = j
NothingBehindEnd(items) ==
  \A i, j \in DOMAIN items :
    i < j /\ items[i] = EndMark => items[j].by \notin Handlers \cup {"end"}

(* Where the end mark is: there is one at most.                            *)
EndMarkPlace ==
  ~Tls =>
    /\ ~Past => ~EndIn(chan) /\ ~last /\ (wpc = "gone" => failed)
    /\ OneEnd(chan)
    /\ Past /\ wpc = "wait" => EndIn(chan)
    /\ Past /\ wpc = "write" => last \/ EndIn(chan)

(* What is behind it, over TCP with handlers on the connection's thread: no *)
(* handler's frame, and none in the channel once the writer has the mark.  *)
BehindEnd ==
  ~Tls /\ conf.thread = "io" /\ Past =>
    /\ NothingBehindEnd(chan)
    /\ wpc = "write" /\ last => NoHandlerItem(chan)
    /\ wpc = "gone" /\ ~failed => NoHandlerItem(chan)

IInv ==
  TypeOK /\ LoopsGone /\ HandlersQuiet /\ EndMarkPlace /\ BehindEnd /\ WaitersAccounted

-----------------------------------------------------------------------------
(* Items and the sequences of them.                                        *)

LEMMA ItemTypes ==
  /\ Frame \in Items /\ EndMark \in Items
  /\ Goaway("goaway1") \in Items /\ Goaway("goaway2") \in Items
  /\ \A h \in Handlers, waits \in BOOLEAN : [by |-> h, waits |-> waits] \in Items
  BY DEF Items, Frame, EndMark, Goaway

LEMMA ItemsWait ==
  ASSUME NEW x \in Items, x.waits
  PROVE  x.by \in Handlers \cup {"goaway1", "goaway2"}
  BY DEF Items, Frame, EndMark

LEMMA WaitersType ==
  ASSUME NEW s \in Seq(Items)
  PROVE  Waiters(s) \subseteq Handlers \cup {"goaway1", "goaway2"}
<1> SUFFICES ASSUME NEW i \in DOMAIN s, s[i].waits
             PROVE  s[i].by \in Handlers \cup {"goaway1", "goaway2"}
  BY DEF Waiters
<1>1. s[i] \in Items
  OBVIOUS
<1> QED
  BY <1>1, ItemsWait

(* The end mark splits the channel.                                        *)
LEMMA EndAtType ==
  ASSUME NEW s \in Seq(Items), EndIn(s), OneEnd(s)
  PROVE  EndAt(s) \in 1 .. Len(s) /\ s[EndAt(s)] = EndMark
<1>1. PICK k \in DOMAIN s : s[k] = EndMark
  BY DEF EndIn
<1>2. DOMAIN s = 1 .. Len(s) /\ Len(s) \in Nat
  OBVIOUS
<1>3. \A j \in 1 .. k - 1 : s[j] # EndMark
  BY <1>1, <1>2 DEF OneEnd
<1> QED
  BY <1>1, <1>2, <1>3 DEF EndAt

LEMMA AppendItems ==
  ASSUME NEW s \in Seq(Items), NEW x \in Items
  PROVE  /\ Append(s, x) \in Seq(Items)
         /\ Waiters(s) \subseteq Waiters(Append(s, x))
         /\ x.waits => x.by \in Waiters(Append(s, x))
<1> DEFINE t == Append(s, x)
<1>1. /\ t \in Seq(Items) /\ Len(t) = Len(s) + 1 /\ Len(s) \in Nat
      /\ DOMAIN t = 1 .. Len(t) /\ DOMAIN s = 1 .. Len(s)
      /\ \A i \in 1 .. Len(s) : t[i] = s[i]
      /\ t[Len(t)] = x
  OBVIOUS
<1> HIDE DEF t
<1>2. ASSUME NEW i \in DOMAIN s, s[i].waits PROVE s[i].by \in Waiters(t)
  BY <1>1, <1>2 DEF Waiters
<1>3. ASSUME x.waits PROVE x.by \in Waiters(t)
  BY <1>1, <1>3 DEF Waiters
<1>4. Waiters(s) \subseteq Waiters(t)
  BY <1>2 DEF Waiters
<1> QED
  BY <1>1, <1>3, <1>4 DEF t

LEMMA AppendEnds ==
  ASSUME NEW s \in Seq(Items), NEW x \in Items, x # EndMark
  PROVE  /\ EndIn(Append(s, x)) <=> EndIn(s)
         /\ OneEnd(s) => OneEnd(Append(s, x))
         /\ x.by \notin Handlers \cup {"end"} =>
              /\ NoHandlerItem(s) => NoHandlerItem(Append(s, x))
              /\ NothingBehindEnd(s) => NothingBehindEnd(Append(s, x))
<1> DEFINE t == Append(s, x)
<1>1. /\ t \in Seq(Items) /\ Len(t) = Len(s) + 1 /\ Len(s) \in Nat
      /\ DOMAIN t = 1 .. Len(s) + 1 /\ DOMAIN s = 1 .. Len(s)
      /\ \A i \in 1 .. Len(s) : t[i] = s[i]
      /\ t[Len(s) + 1] = x
  OBVIOUS
<1> HIDE DEF t
<1>2. EndIn(t) <=> EndIn(s)
  BY <1>1 DEF EndIn
<1>3. OneEnd(s) => OneEnd(t)
  BY <1>1 DEF OneEnd
<1>4. ASSUME x.by \notin Handlers \cup {"end"}, NoHandlerItem(s)
      PROVE  NoHandlerItem(t)
  BY <1>1, <1>4 DEF NoHandlerItem
<1>5. ASSUME x.by \notin Handlers \cup {"end"}, NothingBehindEnd(s)
      PROVE  NothingBehindEnd(t)
  BY <1>1, <1>5 DEF NothingBehindEnd
<1> QED
  BY <1>2, <1>3, <1>4, <1>5 DEF t

LEMMA AppendEndMark ==
  ASSUME NEW s \in Seq(Items), ~EndIn(s)
  PROVE  LET t == Append(s, EndMark)
         IN  EndIn(t) /\ OneEnd(t) /\ NothingBehindEnd(t)
<1> DEFINE t == Append(s, EndMark)
<1>1. /\ DOMAIN t = 1 .. Len(s) + 1 /\ DOMAIN s = 1 .. Len(s) /\ Len(s) \in Nat
      /\ \A i \in 1 .. Len(s) : t[i] = s[i]
      /\ t[Len(s) + 1] = EndMark
  OBVIOUS
<1> HIDE DEF t
<1>2. \A i \in 1 .. Len(s) : t[i] # EndMark
  BY <1>1 DEF EndIn
<1> QED
  BY <1>1, <1>2 DEF EndIn, OneEnd, NothingBehindEnd, t

LEMMA ConcatWaiters ==
  ASSUME NEW s \in Seq(Items), NEW reply \in {<<>>, <<Frame>>}
  PROVE  s \o reply \in Seq(Items) /\ Waiters(s) \subseteq Waiters(s \o reply)
<1>1. CASE reply = <<>>
  <2>1. s \o reply = s
    BY <1>1
  <2> QED
    BY <2>1
<1>2. CASE reply = <<Frame>>
  <2>1. s \o reply = Append(s, Frame)
    BY <1>2
  <2> QED
    BY <2>1, AppendItems, ItemTypes
<1> QED
  BY <1>1, <1>2

LEMMA NoWaiters == Waiters(<<>>) = {}
  BY DEF Waiters

LEMMA SplitItems ==
  ASSUME NEW s \in Seq(Items), NEW k \in 1 .. Len(s), s[k] = EndMark
  PROVE  LET a == SubSeq(s, 1, k - 1)
             b == SubSeq(s, k + 1, Len(s))
         IN  /\ a \in Seq(Items) /\ b \in Seq(Items)
             /\ Waiters(s) \subseteq Waiters(a) \cup Waiters(b)
             /\ OneEnd(s) => OneEnd(b)
             /\ NothingBehindEnd(s) => NothingBehindEnd(b) /\ NoHandlerItem(b)
<1> DEFINE a == SubSeq(s, 1, k - 1)
<1> DEFINE b == SubSeq(s, k + 1, Len(s))
<1>1. /\ Len(s) \in Nat /\ DOMAIN s = 1 .. Len(s)
      /\ a \in Seq(Items) /\ DOMAIN a = 1 .. k - 1
      /\ \A i \in 1 .. k - 1 : a[i] = s[i]
      /\ b \in Seq(Items) /\ DOMAIN b = 1 .. Len(s) - k
      /\ \A i \in 1 .. Len(s) - k : b[i] = s[k + i]
  OBVIOUS
<1> HIDE DEF a, b
<1>2. ASSUME NEW i \in DOMAIN s, s[i].waits
      PROVE  s[i].by \in Waiters(a) \cup Waiters(b)
  <2>1. i # k
    BY <1>2 DEF EndMark
  <2>2. CASE i < k
    <3>1. i \in DOMAIN a /\ a[i] = s[i]
      BY <1>1, <2>2
    <3> QED
      BY <1>2, <3>1 DEF Waiters
  <2>3. CASE i > k
    <3>1. i - k \in DOMAIN b /\ b[i - k] = s[i]
      BY <1>1, <2>3
    <3> QED
      BY <1>2, <3>1 DEF Waiters
  <2> QED
    BY <1>1, <2>1, <2>2, <2>3
<1>3. Waiters(s) \subseteq Waiters(a) \cup Waiters(b)
  BY <1>2 DEF Waiters
<1>4. ASSUME OneEnd(s) PROVE OneEnd(b)
  <2>1. ASSUME NEW i \in DOMAIN b, b[i] = EndMark PROVE FALSE
    <3>1. k + i \in DOMAIN s /\ s[k + i] = EndMark /\ k + i # k
      BY <1>1, <2>1
    <3> QED
      BY <1>1, <1>4, <3>1 DEF OneEnd
  <2> QED
    BY <2>1 DEF OneEnd
<1>5. ASSUME NothingBehindEnd(s) PROVE NoHandlerItem(b)
  <2>1. ASSUME NEW i \in DOMAIN b PROVE b[i].by \notin Handlers \cup {"end"}
    <3>1. k + i \in DOMAIN s /\ b[i] = s[k + i] /\ k < k + i
      BY <1>1
    <3> QED
      BY <1>1, <1>5, <3>1 DEF NothingBehindEnd
  <2> QED
    BY <2>1 DEF NoHandlerItem
<1>6. ASSUME NoHandlerItem(b) PROVE NothingBehindEnd(b)
  BY <1>6 DEF NothingBehindEnd, NoHandlerItem
<1> QED
  BY <1>1, <1>3, <1>4, <1>5, <1>6 DEF a, b

(* The last active handler and the others.                                 *)
LEMMA ActiveType ==
  /\ ActiveHandlers \in Nat
  /\ ActiveHandlers = 0 <=> NoneRuns
<1>1. IsFiniteSet({h \in Handlers : Running(h)})
  BY LifecycleAssumption, FS_Subset
<1> QED
  BY <1>1, FS_CardinalityType, FS_EmptySet DEF ActiveHandlers, NoneRuns

LEMMA LastActive ==
  ASSUME ActiveHandlers = 1, NEW h \in Handlers, Running(h)
  PROVE  \A g \in Handlers \ {h} : ~Running(g)
<1> DEFINE S == {g \in Handlers : Running(g)}
<1>1. IsFiniteSet(S)
  BY LifecycleAssumption, FS_Subset
<1>2. PICK x : S = {x}
  BY <1>1, FS_Singleton DEF ActiveHandlers
<1> QED
  BY <1>2

-----------------------------------------------------------------------------
LEMMA InvInit == Init => IInv
<1> SUFFICES ASSUME Init PROVE IInv
  OBVIOUS
<1>1. conf \in AllConfs
  BY LifecycleAssumption DEF Init
<1>2. TypeOK
  <2>1. <<>> \in Seq(Items)
    OBVIOUS
  <2>2. /\ hpc \in [Handlers -> {"none", "run", "wait", "last", "done"}]
        /\ sends \in [Handlers -> 0 .. MaxSends]
    BY LifecycleAssumption DEF Init
  <2>3. wpc \in {"wait", "write", "gone"}
    BY DEF Init
  <2> QED
    BY <2>1, <2>2, <2>3 DEF Init, TypeOK
<1>3. LoopsGone
  BY <1>1 DEF Init, LoopsGone, Tls, AllConfs
<1>4. HandlersQuiet
  BY DEF Init, HandlersQuiet, InLoop, Past
<1>5. EndMarkPlace /\ BehindEnd
  BY <1>1 DEF Init, EndMarkPlace, BehindEnd, Past, EndIn, OneEnd, Tls, AllConfs
<1>6. WaitersAccounted
  BY DEF Init, WaitersAccounted
<1> QED
  BY <1>2, <1>3, <1>4, <1>5, <1>6 DEF IInv

LEMMA StartsType ==
  ASSUME TypeOK, NEW new \in BOOLEAN, Starts(new)
  PROVE  /\ hpc' \in [Handlers -> {"none", "run", "wait", "last", "done"}]
         /\ \A h \in Handlers : hpc'[h] = hpc[h] \/ (hpc[h] = "none" /\ hpc'[h] = "run")
<1>1. CASE ~new
  BY <1>1 DEF Starts, TypeOK
<1>2. CASE new
  <2> DEFINE c == CHOOSE h \in conf.starts : hpc[h] = "none"
  <2>1. conf.starts \subseteq Handlers
    BY LifecycleAssumption DEF TypeOK, AllConfs
  <2>2. c \in Handlers /\ hpc[c] = "none"
    BY <1>2, <2>1 DEF Starts
  <2>3. hpc' = [hpc EXCEPT ![c] = "run"]
    BY <1>2 DEF Starts
  <2> HIDE DEF c
  <2> QED
    BY <2>2, <2>3 DEF TypeOK
<1> QED
  BY <1>1, <1>2

-----------------------------------------------------------------------------
(* Types.                                                                  *)
LEMMA TypeInvariant ==
  TypeOK /\ EndMarkPlace /\ LoopsGone /\ [Next]_vars
  => TypeOK'
<1> SUFFICES ASSUME TypeOK, EndMarkPlace, LoopsGone, [Next]_vars PROVE TypeOK'
  OBVIOUS
<1> USE DEF writeVars, handlerVars, flagVars, ShutdownSteps, KeptByShutdown
<1>0. /\ Append(chan, Frame) \in Seq(Items)
      /\ Append(chan, EndMark) \in Seq(Items)
      /\ Append(chan, Goaway("goaway1")) \in Seq(Items)
      /\ Append(chan, Goaway("goaway2")) \in Seq(Items)
      /\ \A h \in Handlers, waits \in BOOLEAN :
           Append(chan, [by |-> h, waits |-> waits]) \in Seq(Items)
  BY ItemTypes, AppendItems DEF TypeOK
<1>1. ASSUME NEW new \in BOOLEAN, NEW reply \in {<<>>, <<Frame>>},
             ReadBatch(new, reply)
      PROVE  TypeOK'
  <2>1. chan' \in Seq(Items)
    BY <1>1, ConcatWaiters DEF ReadBatch, TypeOK
  <2>2. hpc' \in [Handlers -> {"none", "run", "wait", "last", "done"}]
    BY <1>1, StartsType DEF ReadBatch, HandlesFrames
  <2> QED
    BY <1>1, <2>1, <2>2 DEF TypeOK, ReadBatch
<1>2. ASSUME NEW new \in BOOLEAN, NEW reply \in {<<>>, <<Frame>>}, NEW bad \in BOOLEAN,
             TlsReads(new, reply, bad)
      PROVE  TypeOK'
  <2>0. <<>> \in Seq(Items) /\ <<Frame>> \in Seq(Items)
    BY ItemTypes
  <2>1. reply \in Seq(Items) /\ Append(reply, Frame) \in Seq(Items)
    BY <2>0, ItemTypes, AppendItems
  <2>2. hpc' \in [Handlers -> {"none", "run", "wait", "last", "done"}]
    BY <1>2, StartsType DEF TlsReads, HandlesFrames
  <2> HIDE DEF writeVars, handlerVars
  <2>3. chan' \in Seq(Items) /\ batch' \in Seq(Items) /\ rpc' \in {"read", "left", "send"}
    BY <1>2, <2>0, <2>1 DEF TlsReads, EndsRound
  <2> QED
    BY <1>2, <2>2, <2>3 DEF TypeOK, TlsReads
<1>3. ASSUME NEW new \in BOOLEAN, NEW reply \in {<<>>, <<Frame>>}, NEW bad \in BOOLEAN,
             TlsSends(new, reply, bad)
      PROVE  TypeOK'
  <2>0. <<>> \in Seq(Items)
    OBVIOUS
  <2>1. /\ chan \o reply \in Seq(Items)
        /\ Append(chan \o reply, Frame) \in Seq(Items)
    BY ConcatWaiters, AppendItems, ItemTypes DEF TypeOK
  <2>2. hpc' \in [Handlers -> {"none", "run", "wait", "last", "done"}]
    BY <1>3, StartsType DEF TlsSends, HandlesFrames, TypeOK
  <2>3. notified' \subseteq Handlers \cup {"handlers", "goaway1", "goaway2"}
    BY <1>3, WaitersType DEF TlsSends, Notifies, TypeOK
  <2> HIDE DEF writeVars, handlerVars
  <2>4. chan' \in Seq(Items) /\ batch' \in Seq(Items) /\ rpc' \in {"read", "left", "send"}
    BY <1>3, <2>0, <2>1 DEF TlsSends, EndsRound
  <2> QED
    BY <1>3, <2>2, <2>3, <2>4 DEF TypeOK, TlsSends
<1>4. ASSUME ReaderLeaves PROVE TypeOK'
  <2>1. chan' \in Seq(Items)
    BY <1>0, <1>4 DEF ReaderLeaves, TypeOK
  <2> QED
    BY <1>4, <2>1 DEF TypeOK, ReaderLeaves
<1>5. ASSUME TlsDrains PROVE TypeOK'
  BY <1>5, <1>0
  DEF TypeOK, TlsDrains, EndsRound
<1>6. ASSUME TlsSendFails PROVE TypeOK'
  BY <1>6, <1>0, WaitersType
  DEF TypeOK, TlsSendFails, Notifies
<1>7. ASSUME TlsLeaves PROVE TypeOK'
  BY <1>7, <1>0
  DEF TypeOK, TlsLeaves
<1>8. ASSUME NEW late \in BOOLEAN, DrainsHandlers(late) PROVE TypeOK'
  BY <1>8, <1>0
  DEF TypeOK, DrainsHandlers, StopsLoops
<1>9. ASSUME DrainingSeen PROVE TypeOK'
  BY <1>9, <1>0
  DEF TypeOK, DrainingSeen
<1>10. ASSUME HandlersDone PROVE TypeOK'
  BY <1>10, <1>0
  DEF TypeOK, HandlersDone, StopsLoops
<1>11. ASSUME WriterJoined PROVE TypeOK'
  BY <1>11, <1>0
  DEF TypeOK, WriterJoined
<1>12. ASSUME MonitorJoined PROVE TypeOK'
  BY <1>12, <1>0
  DEF TypeOK, MonitorJoined
<1>13. ASSUME WriterTakes PROVE TypeOK'
  <2>1. wpc = "wait" /\ chan \in Seq(Items) /\ chan # <<>>
    BY <1>13 DEF WriterTakes, TypeOK
  <2>2. ~Tls
    BY <2>1 DEF LoopsGone
  <2>3. batch' \in Seq(Items) /\ chan' \in Seq(Items)
    <3>1. CASE EndIn(chan)
      BY <1>13, <2>1, <2>2, <3>1, EndAtType, SplitItems DEF WriterTakes, EndMarkPlace
    <3>2. CASE ~EndIn(chan)
      BY <1>13, <2>1, <3>2 DEF WriterTakes
    <3> QED
      BY <3>1, <3>2
  <2> QED
    BY <1>13, <2>3 DEF TypeOK, WriterTakes, EndIn
<1>14. ASSUME WriterWrites PROVE TypeOK'
  BY <1>14, <1>0, WaitersType
  DEF TypeOK, WriterWrites, Notifies
<1>15. ASSUME WriterFails PROVE TypeOK'
  BY <1>15, <1>0, WaitersType
  DEF TypeOK, WriterFails, Notifies
<1>16. ASSUME MonitorStops PROVE TypeOK'
  BY <1>16, <1>0
  DEF TypeOK, MonitorStops
<1>17. ASSUME MonitorPings PROVE TypeOK'
  BY <1>17, <1>0
  DEF TypeOK, MonitorPings
<1>18. ASSUME MonitorTimesOut PROVE TypeOK'
  BY <1>18, <1>0
  DEF TypeOK, MonitorTimesOut
<1>19. ASSUME ShutdownCalled PROVE TypeOK'
  BY <1>19, <1>0
  DEF TypeOK, ShutdownCalled
<1>20. ASSUME FirstGoawayWritten PROVE TypeOK'
  BY <1>20, <1>0
  DEF TypeOK, FirstGoawayWritten
<1>21. ASSUME SecondGoaway PROVE TypeOK'
  BY <1>21, <1>0
  DEF TypeOK, SecondGoaway
<1>22. ASSUME SecondGoawayWritten PROVE TypeOK'
  BY <1>22, <1>0
  DEF TypeOK, SecondGoawayWritten
<1>23. ASSUME NEW open \in BOOLEAN, ResetsStreams(open) PROVE TypeOK'
  <2>1. chan' \in Seq(Items) /\ closing' \in BOOLEAN
    BY <1>0, <1>23 DEF ResetsStreams, ShutsTransport, TypeOK
  <2>2. spc' \in {"reset", "stop", "returned"}
    BY <1>23 DEF ResetsStreams, ShutsTransport
  <2> QED
    BY <1>23, <2>1, <2>2 DEF TypeOK, ResetsStreams, ShutsTransport
<1>24. ASSUME PauseEnds PROVE TypeOK'
  BY <1>24, <1>0
  DEF TypeOK, PauseEnds, ShutsTransport
<1>25. ASSUME ShutdownReturns PROVE TypeOK'
  BY <1>25, <1>0
  DEF TypeOK, ShutdownReturns
<1>26. ASSUME PeerLeaves PROVE TypeOK'
  BY <1>26, <1>0
  DEF TypeOK, PeerLeaves
<1>27. ASSUME NEW h \in Handlers, NEW waits \in BOOLEAN,
              HandlerSends(h, waits)
       PROVE  TypeOK'
  <2>1. chan' \in Seq(Items)
    BY <1>0, <1>27 DEF HandlerSends
  <2>2. /\ sends' \in [Handlers -> 0 .. MaxSends]
        /\ hpc' \in [Handlers -> {"none", "run", "wait", "last", "done"}]
    BY <1>27, LifecycleAssumption DEF HandlerSends, TypeOK
  <2> QED
    BY <1>27, <2>1, <2>2 DEF TypeOK, HandlerSends
<1>28. ASSUME NEW h \in Handlers, HandlerResumes(h) PROVE TypeOK'
  BY <1>28, <1>0
  DEF TypeOK, HandlerResumes
<1>29. ASSUME NEW h \in Handlers, HandlerReturns(h) PROVE TypeOK'
  BY <1>29, <1>0
  DEF TypeOK, HandlerReturns
<1>30. ASSUME NEW h \in Handlers, HandlerLooks(h) PROVE TypeOK'
  BY <1>30, <1>0
  DEF TypeOK, HandlerLooks
<1>31. ASSUME UNCHANGED vars PROVE TypeOK'
  BY <1>31, <1>0
  DEF TypeOK, vars
<1>32. ASSUME Foreground PROVE TypeOK'
  BY <1>32, <1>1, <1>2, <1>3, <1>4, <1>5, <1>6, <1>7, <1>8, <1>9, <1>10,
     <1>11, <1>12 DEF Foreground
<1>33. ASSUME Writer \/ Monitor PROVE TypeOK'
  BY <1>33, <1>13, <1>14, <1>15, <1>16, <1>17, <1>18 DEF Writer, Monitor
<1>34. ASSUME Shutdown PROVE TypeOK'
  BY <1>34, <1>19, <1>20, <1>21, <1>22, <1>23, <1>24, <1>25 DEF Shutdown
<1>35. ASSUME NEW h \in Handlers, Handler(h) PROVE TypeOK'
  BY <1>35, <1>27, <1>28, <1>29, <1>30 DEF Handler
<1> QED
  BY <1>26, <1>31, <1>32, <1>33, <1>34, <1>35 DEF Next

(* Where the coroutines are.                                              *)
LEMMA LoopsInvariant ==
  TypeOK /\ EndMarkPlace /\ LoopsGone /\ [Next]_vars
  => LoopsGone'
<1> SUFFICES ASSUME TypeOK, EndMarkPlace, LoopsGone, [Next]_vars PROVE LoopsGone'
  OBVIOUS
<1> USE DEF writeVars, handlerVars, flagVars, ShutdownSteps, KeptByShutdown
<1>1. ASSUME NEW new \in BOOLEAN, NEW reply \in {<<>>, <<Frame>>},
             ReadBatch(new, reply)
      PROVE  LoopsGone'
  BY <1>1
  DEF LoopsGone, Tls, ReadBatch, HandlesFrames, Starts
<1>2. ASSUME NEW new \in BOOLEAN, NEW reply \in {<<>>, <<Frame>>}, NEW bad \in BOOLEAN,
             TlsReads(new, reply, bad)
      PROVE  LoopsGone'
  BY <1>2
  DEF LoopsGone, Tls, TlsReads, HandlesFrames, Starts, EndsRound
<1>3. ASSUME NEW new \in BOOLEAN, NEW reply \in {<<>>, <<Frame>>}, NEW bad \in BOOLEAN,
             TlsSends(new, reply, bad)
      PROVE  LoopsGone'
  BY <1>3
  DEF LoopsGone, Tls, TlsSends, HandlesFrames, Starts, EndsRound, Notifies
<1>4. ASSUME ReaderLeaves PROVE LoopsGone'
  BY <1>4
  DEF LoopsGone, Tls, ReaderLeaves
<1>5. ASSUME TlsDrains PROVE LoopsGone'
  BY <1>5
  DEF LoopsGone, Tls, TlsDrains, EndsRound
<1>6. ASSUME TlsSendFails PROVE LoopsGone'
  BY <1>6
  DEF LoopsGone, Tls, TlsSendFails, Notifies
<1>7. ASSUME TlsLeaves PROVE LoopsGone'
  BY <1>7
  DEF LoopsGone, Tls, TlsLeaves
<1>8. ASSUME NEW late \in BOOLEAN, DrainsHandlers(late) PROVE LoopsGone'
  BY <1>8
  DEF LoopsGone, Tls, DrainsHandlers, StopsLoops
<1>9. ASSUME DrainingSeen PROVE LoopsGone'
  BY <1>9
  DEF LoopsGone, Tls, DrainingSeen
<1>10. ASSUME HandlersDone PROVE LoopsGone'
  BY <1>10
  DEF LoopsGone, Tls, HandlersDone, StopsLoops
<1>11. ASSUME WriterJoined PROVE LoopsGone'
  BY <1>11
  DEF LoopsGone, Tls, WriterJoined
<1>12. ASSUME MonitorJoined PROVE LoopsGone'
  BY <1>12
  DEF LoopsGone, Tls, MonitorJoined
<1>13. ASSUME WriterTakes PROVE LoopsGone'
  <2>1. wpc = "wait" /\ ~Tls /\ chan \in Seq(Items) /\ chan # <<>>
    BY <1>13 DEF WriterTakes, TypeOK, LoopsGone
  <2>2. ASSUME chan[1] = EndMark PROVE batch' = <<>>
    <3>1. 1 \in DOMAIN chan /\ EndIn(chan) /\ OneEnd(chan)
      BY <2>1, <2>2 DEF EndIn, EndMarkPlace
    <3>2. EndAt(chan) = 1
      BY <2>1, <2>2, <3>1, EndAtType DEF OneEnd
    <3> QED
      BY <1>13, <2>1, <3>1, <3>2 DEF WriterTakes
  <2> QED
    BY <1>13, <2>1, <2>2 DEF LoopsGone, WriterTakes, Tls
<1>14. ASSUME WriterWrites PROVE LoopsGone'
  BY <1>14
  DEF LoopsGone, Tls, WriterWrites, Notifies
<1>15. ASSUME WriterFails PROVE LoopsGone'
  BY <1>15
  DEF LoopsGone, Tls, WriterFails, Notifies
<1>16. ASSUME MonitorStops PROVE LoopsGone'
  BY <1>16
  DEF LoopsGone, Tls, MonitorStops
<1>17. ASSUME MonitorPings PROVE LoopsGone'
  BY <1>17
  DEF LoopsGone, Tls, MonitorPings
<1>18. ASSUME MonitorTimesOut PROVE LoopsGone'
  BY <1>18
  DEF LoopsGone, Tls, MonitorTimesOut
<1>19. ASSUME ShutdownCalled PROVE LoopsGone'
  BY <1>19
  DEF LoopsGone, Tls, ShutdownCalled
<1>20. ASSUME FirstGoawayWritten PROVE LoopsGone'
  BY <1>20
  DEF LoopsGone, Tls, FirstGoawayWritten
<1>21. ASSUME SecondGoaway PROVE LoopsGone'
  BY <1>21
  DEF LoopsGone, Tls, SecondGoaway
<1>22. ASSUME SecondGoawayWritten PROVE LoopsGone'
  BY <1>22
  DEF LoopsGone, Tls, SecondGoawayWritten
<1>23. ASSUME NEW open \in BOOLEAN, ResetsStreams(open) PROVE LoopsGone'
  BY <1>23
  DEF LoopsGone, Tls, ResetsStreams, ShutsTransport
<1>24. ASSUME PauseEnds PROVE LoopsGone'
  BY <1>24
  DEF LoopsGone, Tls, PauseEnds, ShutsTransport
<1>25. ASSUME ShutdownReturns PROVE LoopsGone'
  BY <1>25
  DEF LoopsGone, Tls, ShutdownReturns
<1>26. ASSUME PeerLeaves PROVE LoopsGone'
  BY <1>26
  DEF LoopsGone, Tls, PeerLeaves
<1>27. ASSUME NEW h \in Handlers, NEW waits \in BOOLEAN,
              HandlerSends(h, waits)
       PROVE  LoopsGone'
  BY <1>27
  DEF LoopsGone, Tls, HandlerSends
<1>28. ASSUME NEW h \in Handlers, HandlerResumes(h) PROVE LoopsGone'
  BY <1>28
  DEF LoopsGone, Tls, HandlerResumes
<1>29. ASSUME NEW h \in Handlers, HandlerReturns(h) PROVE LoopsGone'
  BY <1>29
  DEF LoopsGone, Tls, HandlerReturns
<1>30. ASSUME NEW h \in Handlers, HandlerLooks(h) PROVE LoopsGone'
  BY <1>30
  DEF LoopsGone, Tls, HandlerLooks
<1>31. ASSUME UNCHANGED vars PROVE LoopsGone'
  BY <1>31
  DEF LoopsGone, Tls, vars
<1>32. ASSUME Foreground PROVE LoopsGone'
  BY <1>32, <1>1, <1>2, <1>3, <1>4, <1>5, <1>6, <1>7, <1>8, <1>9, <1>10,
     <1>11, <1>12 DEF Foreground
<1>33. ASSUME Writer \/ Monitor PROVE LoopsGone'
  BY <1>33, <1>13, <1>14, <1>15, <1>16, <1>17, <1>18 DEF Writer, Monitor
<1>34. ASSUME Shutdown PROVE LoopsGone'
  BY <1>34, <1>19, <1>20, <1>21, <1>22, <1>23, <1>24, <1>25 DEF Shutdown
<1>35. ASSUME NEW h \in Handlers, Handler(h) PROVE LoopsGone'
  BY <1>35, <1>27, <1>28, <1>29, <1>30 DEF Handler
<1> QED
  BY <1>26, <1>31, <1>32, <1>33, <1>34, <1>35 DEF Next

(* Handlers and their last notification.                                   *)
LEMMA HandlersInvariant ==
  TypeOK /\ LoopsGone /\ HandlersQuiet /\ [Next]_vars
  => HandlersQuiet'
<1> SUFFICES ASSUME TypeOK, LoopsGone, HandlersQuiet, [Next]_vars PROVE HandlersQuiet'
  OBVIOUS
<1> USE DEF writeVars, handlerVars, flagVars, ShutdownSteps, KeptByShutdown
<1>1. ASSUME NEW new \in BOOLEAN, NEW reply \in {<<>>, <<Frame>>},
             ReadBatch(new, reply)
      PROVE  HandlersQuiet'
  BY <1>1, StartsType
  DEF HandlersQuiet, NoneRuns, Running, InLoop, Past, ReadBatch,
      HandlesFrames, Starts
<1>2. ASSUME NEW new \in BOOLEAN, NEW reply \in {<<>>, <<Frame>>}, NEW bad \in BOOLEAN,
             TlsReads(new, reply, bad)
      PROVE  HandlersQuiet'
  BY <1>2, StartsType
  DEF HandlersQuiet, NoneRuns, Running, InLoop, Past, TlsReads,
      HandlesFrames, Starts, EndsRound
<1>3. ASSUME NEW new \in BOOLEAN, NEW reply \in {<<>>, <<Frame>>}, NEW bad \in BOOLEAN,
             TlsSends(new, reply, bad)
      PROVE  HandlersQuiet'
  BY <1>3, StartsType, WaitersType, NamesAssumption
  DEF HandlersQuiet, NoneRuns, Running, InLoop, Past, TypeOK, TlsSends,
      HandlesFrames, Starts, EndsRound, Notifies
<1>4. ASSUME ReaderLeaves PROVE HandlersQuiet'
  BY <1>4
  DEF HandlersQuiet, NoneRuns, Running, InLoop, Past, ReaderLeaves
<1>5. ASSUME TlsDrains PROVE HandlersQuiet'
  BY <1>5
  DEF HandlersQuiet, NoneRuns, Running, InLoop, Past, TlsDrains, EndsRound
<1>6. ASSUME TlsSendFails PROVE HandlersQuiet'
  BY <1>6, WaitersType, NamesAssumption
  DEF HandlersQuiet, NoneRuns, Running, InLoop, Past, TypeOK, TlsSendFails,
      Notifies
<1>7. ASSUME TlsLeaves PROVE HandlersQuiet'
  BY <1>7
  DEF HandlersQuiet, NoneRuns, Running, InLoop, Past, TlsLeaves
<1>8. ASSUME NEW late \in BOOLEAN, DrainsHandlers(late) PROVE HandlersQuiet'
  BY <1>8, ActiveType
  DEF HandlersQuiet, NoneRuns, Running, InLoop, Past, DrainsHandlers,
      StopsLoops
<1>9. ASSUME DrainingSeen PROVE HandlersQuiet'
  BY <1>9
  DEF HandlersQuiet, NoneRuns, Running, InLoop, Past, DrainingSeen
<1>10. ASSUME HandlersDone PROVE HandlersQuiet'
  BY <1>10
  DEF HandlersQuiet, NoneRuns, Running, InLoop, Past, HandlersDone,
      StopsLoops
<1>11. ASSUME WriterJoined PROVE HandlersQuiet'
  BY <1>11
  DEF HandlersQuiet, NoneRuns, Running, InLoop, Past, WriterJoined
<1>12. ASSUME MonitorJoined PROVE HandlersQuiet'
  BY <1>12
  DEF HandlersQuiet, NoneRuns, Running, InLoop, Past, MonitorJoined
<1>13. ASSUME WriterTakes PROVE HandlersQuiet'
  BY <1>13
  DEF HandlersQuiet, NoneRuns, Running, InLoop, Past, WriterTakes
<1>14. ASSUME WriterWrites PROVE HandlersQuiet'
  BY <1>14, WaitersType, NamesAssumption
  DEF HandlersQuiet, NoneRuns, Running, InLoop, Past, TypeOK, WriterWrites,
      Notifies
<1>15. ASSUME WriterFails PROVE HandlersQuiet'
  BY <1>15, WaitersType, NamesAssumption
  DEF HandlersQuiet, NoneRuns, Running, InLoop, Past, TypeOK, WriterFails,
      Notifies
<1>16. ASSUME MonitorStops PROVE HandlersQuiet'
  BY <1>16
  DEF HandlersQuiet, NoneRuns, Running, InLoop, Past, MonitorStops
<1>17. ASSUME MonitorPings PROVE HandlersQuiet'
  BY <1>17
  DEF HandlersQuiet, NoneRuns, Running, InLoop, Past, MonitorPings
<1>18. ASSUME MonitorTimesOut PROVE HandlersQuiet'
  BY <1>18
  DEF HandlersQuiet, NoneRuns, Running, InLoop, Past, MonitorTimesOut
<1>19. ASSUME ShutdownCalled PROVE HandlersQuiet'
  BY <1>19
  DEF HandlersQuiet, NoneRuns, Running, InLoop, Past, ShutdownCalled
<1>20. ASSUME FirstGoawayWritten PROVE HandlersQuiet'
  BY <1>20
  DEF HandlersQuiet, NoneRuns, Running, InLoop, Past, FirstGoawayWritten
<1>21. ASSUME SecondGoaway PROVE HandlersQuiet'
  BY <1>21
  DEF HandlersQuiet, NoneRuns, Running, InLoop, Past, SecondGoaway
<1>22. ASSUME SecondGoawayWritten PROVE HandlersQuiet'
  BY <1>22
  DEF HandlersQuiet, NoneRuns, Running, InLoop, Past, SecondGoawayWritten
<1>23. ASSUME NEW open \in BOOLEAN, ResetsStreams(open) PROVE HandlersQuiet'
  BY <1>23
  DEF HandlersQuiet, NoneRuns, Running, InLoop, Past, ResetsStreams,
      ShutsTransport
<1>24. ASSUME PauseEnds PROVE HandlersQuiet'
  BY <1>24
  DEF HandlersQuiet, NoneRuns, Running, InLoop, Past, PauseEnds,
      ShutsTransport
<1>25. ASSUME ShutdownReturns PROVE HandlersQuiet'
  BY <1>25
  DEF HandlersQuiet, NoneRuns, Running, InLoop, Past, ShutdownReturns
<1>26. ASSUME PeerLeaves PROVE HandlersQuiet'
  BY <1>26
  DEF HandlersQuiet, NoneRuns, Running, InLoop, Past, PeerLeaves
<1>27. ASSUME NEW h \in Handlers, NEW waits \in BOOLEAN,
              HandlerSends(h, waits)
       PROVE  HandlersQuiet'
  BY <1>27
  DEF HandlersQuiet, NoneRuns, Running, InLoop, Past, TypeOK, HandlerSends
<1>28. ASSUME NEW h \in Handlers, HandlerResumes(h) PROVE HandlersQuiet'
  BY <1>28
  DEF HandlersQuiet, NoneRuns, Running, InLoop, Past, TypeOK, HandlerResumes
<1>29. ASSUME NEW h \in Handlers, HandlerReturns(h) PROVE HandlersQuiet'
  BY <1>29, LastActive
  DEF HandlersQuiet, NoneRuns, Running, InLoop, Past, TypeOK, HandlerReturns
<1>30. ASSUME NEW h \in Handlers, HandlerLooks(h) PROVE HandlersQuiet'
  BY <1>30
  DEF HandlersQuiet, NoneRuns, Running, InLoop, Past, TypeOK, HandlerLooks
<1>31. ASSUME UNCHANGED vars PROVE HandlersQuiet'
  BY <1>31
  DEF HandlersQuiet, NoneRuns, Running, InLoop, Past, vars
<1>32. ASSUME Foreground PROVE HandlersQuiet'
  BY <1>32, <1>1, <1>2, <1>3, <1>4, <1>5, <1>6, <1>7, <1>8, <1>9, <1>10,
     <1>11, <1>12 DEF Foreground
<1>33. ASSUME Writer \/ Monitor PROVE HandlersQuiet'
  BY <1>33, <1>13, <1>14, <1>15, <1>16, <1>17, <1>18 DEF Writer, Monitor
<1>34. ASSUME Shutdown PROVE HandlersQuiet'
  BY <1>34, <1>19, <1>20, <1>21, <1>22, <1>23, <1>24, <1>25 DEF Shutdown
<1>35. ASSUME NEW h \in Handlers, Handler(h) PROVE HandlersQuiet'
  BY <1>35, <1>27, <1>28, <1>29, <1>30 DEF Handler
<1> QED
  BY <1>26, <1>31, <1>32, <1>33, <1>34, <1>35 DEF Next

(* The end mark.                                                           *)
LEMMA EndMarkInvariant ==
  TypeOK /\ LoopsGone /\ EndMarkPlace /\ [Next]_vars
  => EndMarkPlace'
<1> SUFFICES ASSUME TypeOK, LoopsGone, EndMarkPlace, [Next]_vars PROVE EndMarkPlace'
  OBVIOUS
<1> USE DEF writeVars, handlerVars, flagVars, ShutdownSteps, KeptByShutdown
<1>0. /\ chan \in Seq(Items)
      /\ \A x \in Items \ {EndMark} :
           /\ EndIn(Append(chan, x)) <=> EndIn(chan)
           /\ OneEnd(chan) => OneEnd(Append(chan, x))
      /\ Frame \in Items \ {EndMark}
      /\ Goaway("goaway1") \in Items \ {EndMark}
      /\ Goaway("goaway2") \in Items \ {EndMark}
  BY ItemTypes, AppendEnds DEF TypeOK, Frame, EndMark, Goaway
<1>1. ASSUME NEW new \in BOOLEAN, NEW reply \in {<<>>, <<Frame>>},
             ReadBatch(new, reply)
      PROVE  EndMarkPlace'
  <2>1. ~Past /\ ~Past'
    BY <1>1 DEF ReadBatch, Past
  <2>2. chan' = chan \/ chan' = Append(chan, Frame)
    BY <1>0, <1>1 DEF ReadBatch
  <2> QED
    BY <1>0, <1>1, <2>1, <2>2 DEF EndMarkPlace, ReadBatch, Tls
<1>2. ASSUME NEW new \in BOOLEAN, NEW reply \in {<<>>, <<Frame>>}, NEW bad \in BOOLEAN,
             TlsReads(new, reply, bad)
      PROVE  EndMarkPlace'
  BY <1>2, <1>0
  DEF EndMarkPlace, Past, Tls, TlsReads, HandlesFrames, Starts, EndsRound
<1>3. ASSUME NEW new \in BOOLEAN, NEW reply \in {<<>>, <<Frame>>}, NEW bad \in BOOLEAN,
             TlsSends(new, reply, bad)
      PROVE  EndMarkPlace'
  BY <1>3, <1>0
  DEF EndMarkPlace, Past, Tls, LoopsGone, TlsSends, HandlesFrames, Starts,
      EndsRound, Notifies
<1>4. ASSUME ReaderLeaves PROVE EndMarkPlace'
  BY <1>4, <1>0
  DEF EndMarkPlace, Past, Tls, ReaderLeaves
<1>5. ASSUME TlsDrains PROVE EndMarkPlace'
  BY <1>5, <1>0
  DEF EndMarkPlace, Past, Tls, TlsDrains, EndsRound
<1>6. ASSUME TlsSendFails PROVE EndMarkPlace'
  BY <1>6, <1>0
  DEF EndMarkPlace, Past, Tls, TlsSendFails, Notifies
<1>7. ASSUME TlsLeaves PROVE EndMarkPlace'
  BY <1>7, <1>0
  DEF EndMarkPlace, Past, Tls, TlsLeaves
<1>8. ASSUME NEW late \in BOOLEAN, DrainsHandlers(late) PROVE EndMarkPlace'
  <2>1. ~Past
    BY <1>8 DEF DrainsHandlers, Past
  <2>2. CASE StopsLoops /\ ~Tls
    <3>1. EndIn(chan') /\ OneEnd(chan')
      BY <1>0, <2>1, <2>2, AppendEndMark DEF EndMarkPlace, StopsLoops
    <3> QED
      BY <1>8, <2>1, <2>2, <3>1 DEF EndMarkPlace, DrainsHandlers, StopsLoops, Past, Tls
  <2> QED
    BY <1>8, <2>1, <2>2 DEF EndMarkPlace, DrainsHandlers, Past, Tls
<1>9. ASSUME DrainingSeen PROVE EndMarkPlace'
  BY <1>9, <1>0
  DEF EndMarkPlace, Past, Tls, DrainingSeen
<1>10. ASSUME HandlersDone PROVE EndMarkPlace'
  <2>1. ~Past
    BY <1>10 DEF HandlersDone, Past
  <2>2. CASE ~Tls
    <3>1. EndIn(chan') /\ OneEnd(chan')
      BY <1>0, <1>10, <2>1, <2>2, AppendEndMark DEF EndMarkPlace, HandlersDone, StopsLoops
    <3> QED
      BY <1>10, <2>1, <2>2, <3>1 DEF EndMarkPlace, HandlersDone, StopsLoops, Past, Tls
  <2> QED
    BY <1>10, <2>2 DEF EndMarkPlace, HandlersDone, Tls
<1>11. ASSUME WriterJoined PROVE EndMarkPlace'
  BY <1>11, <1>0
  DEF EndMarkPlace, Past, Tls, WriterJoined
<1>12. ASSUME MonitorJoined PROVE EndMarkPlace'
  BY <1>12, <1>0
  DEF EndMarkPlace, Past, Tls, MonitorJoined
<1>13. ASSUME WriterTakes PROVE EndMarkPlace'
  <2>1. wpc = "wait" /\ ~Tls /\ chan # <<>> /\ OneEnd(chan)
    BY <1>13 DEF WriterTakes, LoopsGone, EndMarkPlace
  <2>2. CASE EndIn(chan)
    <3>1. OneEnd(chan')
      BY <1>0, <1>13, <2>1, <2>2, EndAtType, SplitItems DEF WriterTakes
    <3>2. Past /\ last' /\ wpc' \in {"gone", "write"}
      BY <1>13, <2>1, <2>2 DEF WriterTakes, EndMarkPlace
    <3> QED
      BY <1>13, <3>1, <3>2 DEF EndMarkPlace, WriterTakes, Past
  <2>3. CASE ~EndIn(chan)
    <3>1. chan[1] # EndMark
      BY <1>0, <2>1, <2>3 DEF EndIn
    <3>2. ~Past /\ wpc' = "write" /\ ~last' /\ chan' = <<>>
      BY <1>13, <2>1, <2>3, <3>1 DEF WriterTakes, EndMarkPlace
    <3>3. ~EndIn(<<>>) /\ OneEnd(<<>>)
      BY DEF EndIn, OneEnd
    <3> QED
      BY <1>13, <3>2, <3>3 DEF EndMarkPlace, WriterTakes, Past
  <2> QED
    BY <2>2, <2>3
<1>14. ASSUME WriterWrites PROVE EndMarkPlace'
  BY <1>14, <1>0
  DEF EndMarkPlace, Past, Tls, WriterWrites, Notifies
<1>15. ASSUME WriterFails PROVE EndMarkPlace'
  BY <1>15, <1>0
  DEF EndMarkPlace, Past, Tls, WriterFails, Notifies
<1>16. ASSUME MonitorStops PROVE EndMarkPlace'
  BY <1>16, <1>0
  DEF EndMarkPlace, Past, Tls, MonitorStops
<1>17. ASSUME MonitorPings PROVE EndMarkPlace'
  BY <1>17, <1>0
  DEF EndMarkPlace, Past, Tls, MonitorPings
<1>18. ASSUME MonitorTimesOut PROVE EndMarkPlace'
  BY <1>18, <1>0
  DEF EndMarkPlace, Past, Tls, MonitorTimesOut
<1>19. ASSUME ShutdownCalled PROVE EndMarkPlace'
  BY <1>19, <1>0
  DEF EndMarkPlace, Past, Tls, ShutdownCalled
<1>20. ASSUME FirstGoawayWritten PROVE EndMarkPlace'
  BY <1>20, <1>0
  DEF EndMarkPlace, Past, Tls, FirstGoawayWritten
<1>21. ASSUME SecondGoaway PROVE EndMarkPlace'
  BY <1>21, <1>0
  DEF EndMarkPlace, Past, Tls, SecondGoaway
<1>22. ASSUME SecondGoawayWritten PROVE EndMarkPlace'
  BY <1>22, <1>0
  DEF EndMarkPlace, Past, Tls, SecondGoawayWritten
<1>23. ASSUME NEW open \in BOOLEAN, ResetsStreams(open) PROVE EndMarkPlace'
  BY <1>23, <1>0
  DEF EndMarkPlace, Past, Tls, ResetsStreams, ShutsTransport
<1>24. ASSUME PauseEnds PROVE EndMarkPlace'
  BY <1>24, <1>0
  DEF EndMarkPlace, Past, Tls, PauseEnds, ShutsTransport
<1>25. ASSUME ShutdownReturns PROVE EndMarkPlace'
  BY <1>25, <1>0
  DEF EndMarkPlace, Past, Tls, ShutdownReturns
<1>26. ASSUME PeerLeaves PROVE EndMarkPlace'
  BY <1>26, <1>0
  DEF EndMarkPlace, Past, Tls, PeerLeaves
<1>27. ASSUME NEW h \in Handlers, NEW waits \in BOOLEAN,
              HandlerSends(h, waits)
       PROVE  EndMarkPlace'
  <2>1. [by |-> h, waits |-> waits] \in Items \ {EndMark}
    BY ItemTypes, NamesAssumption DEF EndMark
  <2> QED
    BY <1>0, <1>27, <2>1 DEF EndMarkPlace, HandlerSends, Past, Tls
<1>28. ASSUME NEW h \in Handlers, HandlerResumes(h) PROVE EndMarkPlace'
  BY <1>28, <1>0
  DEF EndMarkPlace, Past, Tls, HandlerResumes
<1>29. ASSUME NEW h \in Handlers, HandlerReturns(h) PROVE EndMarkPlace'
  BY <1>29, <1>0
  DEF EndMarkPlace, Past, Tls, HandlerReturns
<1>30. ASSUME NEW h \in Handlers, HandlerLooks(h) PROVE EndMarkPlace'
  BY <1>30, <1>0
  DEF EndMarkPlace, Past, Tls, HandlerLooks
<1>31. ASSUME UNCHANGED vars PROVE EndMarkPlace'
  BY <1>31, <1>0
  DEF EndMarkPlace, Past, Tls, vars
<1>32. ASSUME Foreground PROVE EndMarkPlace'
  BY <1>32, <1>1, <1>2, <1>3, <1>4, <1>5, <1>6, <1>7, <1>8, <1>9, <1>10,
     <1>11, <1>12 DEF Foreground
<1>33. ASSUME Writer \/ Monitor PROVE EndMarkPlace'
  BY <1>33, <1>13, <1>14, <1>15, <1>16, <1>17, <1>18 DEF Writer, Monitor
<1>34. ASSUME Shutdown PROVE EndMarkPlace'
  BY <1>34, <1>19, <1>20, <1>21, <1>22, <1>23, <1>24, <1>25 DEF Shutdown
<1>35. ASSUME NEW h \in Handlers, Handler(h) PROVE EndMarkPlace'
  BY <1>35, <1>27, <1>28, <1>29, <1>30 DEF Handler
<1> QED
  BY <1>26, <1>31, <1>32, <1>33, <1>34, <1>35 DEF Next

(* What is behind the end mark.                                            *)
LEMMA BehindInvariant ==
  TypeOK /\ LoopsGone /\ HandlersQuiet /\ EndMarkPlace /\ BehindEnd /\ [Next]_vars
  => BehindEnd'
<1> SUFFICES ASSUME TypeOK, LoopsGone, HandlersQuiet, EndMarkPlace, BehindEnd, [Next]_vars PROVE BehindEnd'
  OBVIOUS
<1> USE DEF writeVars, handlerVars, flagVars, ShutdownSteps, KeptByShutdown
<1>0. /\ chan \in Seq(Items)
      /\ \A x \in {Frame, Goaway("goaway1"), Goaway("goaway2")} :
           /\ NoHandlerItem(chan) => NoHandlerItem(Append(chan, x))
           /\ NothingBehindEnd(chan) => NothingBehindEnd(Append(chan, x))
  <2>1. chan \in Seq(Items)
    BY DEF TypeOK
  <2>2. ASSUME NEW x \in {Frame, Goaway("goaway1"), Goaway("goaway2")}
        PROVE  x \in Items /\ x # EndMark /\ x.by \notin Handlers \cup {"end"}
    <3>1. x \in Items
      BY ItemTypes
    <3>2. x # EndMark /\ x.by \notin Handlers \cup {"end"}
      BY NamesAssumption DEF Frame, EndMark, Goaway
    <3> QED
      BY <3>1, <3>2
  <2> QED
    BY <2>1, <2>2, AppendEnds
<1>1. ASSUME NEW new \in BOOLEAN, NEW reply \in {<<>>, <<Frame>>},
             ReadBatch(new, reply)
      PROVE  BehindEnd'
  BY <1>1, <1>0
  DEF BehindEnd, Past, Tls, InLoop, ReadBatch, HandlesFrames, Starts
<1>2. ASSUME NEW new \in BOOLEAN, NEW reply \in {<<>>, <<Frame>>}, NEW bad \in BOOLEAN,
             TlsReads(new, reply, bad)
      PROVE  BehindEnd'
  BY <1>2, <1>0
  DEF BehindEnd, Past, Tls, TlsReads, HandlesFrames, Starts, EndsRound
<1>3. ASSUME NEW new \in BOOLEAN, NEW reply \in {<<>>, <<Frame>>}, NEW bad \in BOOLEAN,
             TlsSends(new, reply, bad)
      PROVE  BehindEnd'
  BY <1>3, <1>0
  DEF BehindEnd, Past, Tls, LoopsGone, TlsSends, HandlesFrames, Starts,
      EndsRound, Notifies
<1>4. ASSUME ReaderLeaves PROVE BehindEnd'
  BY <1>4, <1>0
  DEF BehindEnd, Past, Tls, ReaderLeaves
<1>5. ASSUME TlsDrains PROVE BehindEnd'
  BY <1>5, <1>0
  DEF BehindEnd, Past, Tls, TlsDrains, EndsRound
<1>6. ASSUME TlsSendFails PROVE BehindEnd'
  BY <1>6, <1>0
  DEF BehindEnd, Past, Tls, TlsSendFails, Notifies
<1>7. ASSUME TlsLeaves PROVE BehindEnd'
  BY <1>7, <1>0
  DEF BehindEnd, Past, Tls, TlsLeaves
<1>8. ASSUME NEW late \in BOOLEAN, DrainsHandlers(late) PROVE BehindEnd'
  <2>1. ~Past
    BY <1>8 DEF DrainsHandlers, Past
  <2>2. CASE StopsLoops /\ ~Tls
    <3>1. NothingBehindEnd(chan')
      BY <1>0, <2>1, <2>2, AppendEndMark DEF EndMarkPlace, StopsLoops
    <3> QED
      BY <1>8, <2>1, <2>2, <3>1 DEF EndMarkPlace, BehindEnd, DrainsHandlers, Past, Tls
  <2> QED
    BY <1>8, <2>1, <2>2 DEF BehindEnd, DrainsHandlers, Past, Tls
<1>9. ASSUME DrainingSeen PROVE BehindEnd'
  BY <1>9, <1>0
  DEF BehindEnd, Past, Tls, DrainingSeen
<1>10. ASSUME HandlersDone PROVE BehindEnd'
  <2>1. ~Past
    BY <1>10 DEF HandlersDone, Past
  <2>2. CASE ~Tls
    <3>1. NothingBehindEnd(chan')
      BY <1>0, <1>10, <2>1, <2>2, AppendEndMark DEF EndMarkPlace, HandlersDone, StopsLoops
    <3> QED
      BY <1>10, <2>1, <2>2, <3>1 DEF EndMarkPlace, BehindEnd, HandlersDone, Past, Tls
  <2> QED
    BY <1>10, <2>2 DEF BehindEnd, HandlersDone, Tls
<1>11. ASSUME WriterJoined PROVE BehindEnd'
  BY <1>11, <1>0
  DEF BehindEnd, Past, Tls, WriterJoined
<1>12. ASSUME MonitorJoined PROVE BehindEnd'
  BY <1>12, <1>0
  DEF BehindEnd, Past, Tls, MonitorJoined
<1>13. ASSUME WriterTakes PROVE BehindEnd'
  <2> SUFFICES ASSUME ~Tls, conf.thread = "io", Past
               PROVE  NothingBehindEnd(chan') /\ NoHandlerItem(chan')
    BY <1>13 DEF BehindEnd, WriterTakes, Past, Tls
  <2>1. wpc = "wait" /\ OneEnd(chan) /\ EndIn(chan) /\ NothingBehindEnd(chan)
    BY <1>13 DEF WriterTakes, EndMarkPlace, BehindEnd
  <2> QED
    BY <1>0, <1>13, <2>1, EndAtType, SplitItems DEF WriterTakes
<1>14. ASSUME WriterWrites PROVE BehindEnd'
  BY <1>14, <1>0
  DEF BehindEnd, Past, Tls, EndMarkPlace, WriterWrites, Notifies
<1>15. ASSUME WriterFails PROVE BehindEnd'
  BY <1>15, <1>0
  DEF BehindEnd, Past, Tls, WriterFails, Notifies
<1>16. ASSUME MonitorStops PROVE BehindEnd'
  BY <1>16, <1>0
  DEF BehindEnd, Past, Tls, MonitorStops
<1>17. ASSUME MonitorPings PROVE BehindEnd'
  BY <1>17, <1>0
  DEF BehindEnd, Past, Tls, MonitorPings
<1>18. ASSUME MonitorTimesOut PROVE BehindEnd'
  BY <1>18, <1>0
  DEF BehindEnd, Past, Tls, MonitorTimesOut
<1>19. ASSUME ShutdownCalled PROVE BehindEnd'
  BY <1>19, <1>0
  DEF BehindEnd, Past, Tls, ShutdownCalled
<1>20. ASSUME FirstGoawayWritten PROVE BehindEnd'
  BY <1>20, <1>0
  DEF BehindEnd, Past, Tls, FirstGoawayWritten
<1>21. ASSUME SecondGoaway PROVE BehindEnd'
  BY <1>21, <1>0
  DEF BehindEnd, Past, Tls, SecondGoaway
<1>22. ASSUME SecondGoawayWritten PROVE BehindEnd'
  BY <1>22, <1>0
  DEF BehindEnd, Past, Tls, SecondGoawayWritten
<1>23. ASSUME NEW open \in BOOLEAN, ResetsStreams(open) PROVE BehindEnd'
  BY <1>23, <1>0
  DEF BehindEnd, Past, Tls, ResetsStreams, ShutsTransport
<1>24. ASSUME PauseEnds PROVE BehindEnd'
  BY <1>24, <1>0
  DEF BehindEnd, Past, Tls, PauseEnds, ShutsTransport
<1>25. ASSUME ShutdownReturns PROVE BehindEnd'
  BY <1>25, <1>0
  DEF BehindEnd, Past, Tls, ShutdownReturns
<1>26. ASSUME PeerLeaves PROVE BehindEnd'
  BY <1>26, <1>0
  DEF BehindEnd, Past, Tls, PeerLeaves
<1>27. ASSUME NEW h \in Handlers, NEW waits \in BOOLEAN,
              HandlerSends(h, waits)
       PROVE  BehindEnd'
  <2>1. conf.thread = "io" => ~Past
    BY <1>27 DEF HandlerSends, HandlersQuiet, NoneRuns, Running
  <2> QED
    BY <1>27, <2>1 DEF BehindEnd, HandlerSends, Past, Tls
<1>28. ASSUME NEW h \in Handlers, HandlerResumes(h) PROVE BehindEnd'
  BY <1>28, <1>0
  DEF BehindEnd, Past, Tls, HandlerResumes
<1>29. ASSUME NEW h \in Handlers, HandlerReturns(h) PROVE BehindEnd'
  BY <1>29, <1>0
  DEF BehindEnd, Past, Tls, HandlerReturns
<1>30. ASSUME NEW h \in Handlers, HandlerLooks(h) PROVE BehindEnd'
  BY <1>30, <1>0
  DEF BehindEnd, Past, Tls, HandlerLooks
<1>31. ASSUME UNCHANGED vars PROVE BehindEnd'
  BY <1>31, <1>0
  DEF BehindEnd, Past, Tls, vars
<1>32. ASSUME Foreground PROVE BehindEnd'
  BY <1>32, <1>1, <1>2, <1>3, <1>4, <1>5, <1>6, <1>7, <1>8, <1>9, <1>10,
     <1>11, <1>12 DEF Foreground
<1>33. ASSUME Writer \/ Monitor PROVE BehindEnd'
  BY <1>33, <1>13, <1>14, <1>15, <1>16, <1>17, <1>18 DEF Writer, Monitor
<1>34. ASSUME Shutdown PROVE BehindEnd'
  BY <1>34, <1>19, <1>20, <1>21, <1>22, <1>23, <1>24, <1>25 DEF Shutdown
<1>35. ASSUME NEW h \in Handlers, Handler(h) PROVE BehindEnd'
  BY <1>35, <1>27, <1>28, <1>29, <1>30 DEF Handler
<1> QED
  BY <1>26, <1>31, <1>32, <1>33, <1>34, <1>35 DEF Next

(* Those who wait.                                                         *)
LEMMA WaitersInvariant ==
  TypeOK /\ LoopsGone /\ EndMarkPlace /\ WaitersAccounted /\ [Next]_vars
  => WaitersAccounted'
<1> SUFFICES ASSUME TypeOK, LoopsGone, EndMarkPlace, WaitersAccounted, [Next]_vars PROVE WaitersAccounted'
  OBVIOUS
<1> USE DEF writeVars, handlerVars, flagVars, ShutdownSteps, KeptByShutdown
<1>0. /\ chan \in Seq(Items)
      /\ Waiters(chan) \subseteq Waiters(Append(chan, Frame))
      /\ Waiters(chan) \subseteq Waiters(Append(chan, EndMark))
      /\ \A n \in {"goaway1", "goaway2"} :
           /\ Waiters(chan) \subseteq Waiters(Append(chan, Goaway(n)))
           /\ n \in Waiters(Append(chan, Goaway(n)))
  <2>1. chan \in Seq(Items)
    BY DEF TypeOK
  <2>2. \A n \in {"goaway1", "goaway2"} :
          Goaway(n) \in Items /\ Goaway(n).waits /\ Goaway(n).by = n
    BY ItemTypes DEF Goaway
  <2> QED
    BY <2>1, <2>2, AppendItems, ItemTypes
<1>1. ASSUME NEW new \in BOOLEAN, NEW reply \in {<<>>, <<Frame>>},
             ReadBatch(new, reply)
      PROVE  WaitersAccounted'
  <2>1. Waiters(chan) \subseteq Waiters(chan')
    BY <1>0, <1>1, ConcatWaiters DEF ReadBatch
  <2>2. \A h \in Handlers : hpc'[h] = "wait" => hpc[h] = "wait"
    BY <1>1, StartsType DEF ReadBatch, HandlesFrames
  <2> QED
    BY <1>1, <2>1, <2>2 DEF WaitersAccounted, ReadBatch
<1>2. ASSUME NEW new \in BOOLEAN, NEW reply \in {<<>>, <<Frame>>}, NEW bad \in BOOLEAN,
             TlsReads(new, reply, bad)
      PROVE  WaitersAccounted'
  <2>1. Waiters(chan) = {} /\ Waiters(batch) = {}
    BY <1>2, NoWaiters DEF TlsReads, LoopsGone
  <2>2. \A h \in Handlers : hpc'[h] = "wait" => hpc[h] = "wait"
    BY <1>2, StartsType DEF TlsReads, HandlesFrames
  <2> QED
    BY <1>2, <2>1, <2>2 DEF WaitersAccounted, TlsReads
<1>3. ASSUME NEW new \in BOOLEAN, NEW reply \in {<<>>, <<Frame>>}, NEW bad \in BOOLEAN,
             TlsSends(new, reply, bad)
      PROVE  WaitersAccounted'
  <2>1. Waiters(chan) \subseteq Waiters(chan') \cup Waiters(batch')
    <3>1. chan \o reply \in Seq(Items) /\ Waiters(chan) \subseteq Waiters(chan \o reply)
      BY <1>0, ConcatWaiters
    <3>2. Waiters(chan \o reply) \subseteq Waiters(Append(chan \o reply, Frame))
      BY <3>1, AppendItems, ItemTypes
    <3> QED
      BY <1>3, <3>1, <3>2 DEF TlsSends, EndsRound
  <2>2. notified' = notified \cup Waiters(batch)
    BY <1>3 DEF TlsSends, Notifies
  <2>3. \A h \in Handlers : hpc'[h] = "wait" => hpc[h] = "wait"
    BY <1>3, StartsType DEF TlsSends, HandlesFrames
  <2> QED
    BY <1>3, <2>1, <2>2, <2>3 DEF WaitersAccounted, TlsSends
<1>4. ASSUME ReaderLeaves PROVE WaitersAccounted'
  BY <1>4, <1>0
  DEF WaitersAccounted, ReaderLeaves
<1>5. ASSUME TlsDrains PROVE WaitersAccounted'
  <2>1. Waiters(batch) = {}
    BY <1>5, NoWaiters DEF TlsDrains, LoopsGone
  <2>2. batch' = chan
    BY <1>5 DEF TlsDrains, EndsRound
  <2> QED
    BY <1>5, <2>1, <2>2 DEF WaitersAccounted, TlsDrains
<1>6. ASSUME TlsSendFails PROVE WaitersAccounted'
  BY <1>6, <1>0
  DEF WaitersAccounted, TlsSendFails, Notifies
<1>7. ASSUME TlsLeaves PROVE WaitersAccounted'
  BY <1>7, <1>0
  DEF WaitersAccounted, TlsLeaves
<1>8. ASSUME NEW late \in BOOLEAN,
             DrainsHandlers(late)
      PROVE  WaitersAccounted'
  BY <1>8, <1>0
  DEF WaitersAccounted, DrainsHandlers, StopsLoops
<1>9. ASSUME DrainingSeen PROVE WaitersAccounted'
  BY <1>9, <1>0
  DEF WaitersAccounted, DrainingSeen
<1>10. ASSUME HandlersDone PROVE WaitersAccounted'
  BY <1>10, <1>0, NamesAssumption
  DEF WaitersAccounted, HandlersDone, StopsLoops
<1>11. ASSUME WriterJoined PROVE WaitersAccounted'
  BY <1>11, <1>0
  DEF WaitersAccounted, WriterJoined
<1>12. ASSUME MonitorJoined PROVE WaitersAccounted'
  BY <1>12, <1>0
  DEF WaitersAccounted, MonitorJoined
<1>13. ASSUME WriterTakes PROVE WaitersAccounted'
  <2>1. /\ wpc = "wait" /\ ~Tls /\ rpc # "send"
        /\ chan # <<>> /\ OneEnd(chan) /\ Waiters(batch) = {}
    BY <1>13, NoWaiters DEF WriterTakes, LoopsGone, EndMarkPlace
  <2>2. Waiters(chan) \subseteq Waiters(chan') \cup Waiters(batch')
    <3>1. CASE EndIn(chan)
      BY <1>0, <1>13, <2>1, <3>1, EndAtType, SplitItems DEF WriterTakes
    <3>2. CASE ~EndIn(chan)
      BY <1>13, <2>1, <3>2 DEF WriterTakes
    <3> QED
      BY <3>1, <3>2
  <2> QED
    BY <1>13, <2>1, <2>2 DEF WaitersAccounted, WriterTakes
<1>14. ASSUME WriterWrites PROVE WaitersAccounted'
  BY <1>14, <1>0
  DEF WaitersAccounted, WriterWrites, Notifies
<1>15. ASSUME WriterFails PROVE WaitersAccounted'
  BY <1>15, <1>0
  DEF WaitersAccounted, WriterFails, Notifies
<1>16. ASSUME MonitorStops PROVE WaitersAccounted'
  BY <1>16, <1>0
  DEF WaitersAccounted, MonitorStops
<1>17. ASSUME MonitorPings PROVE WaitersAccounted'
  BY <1>17, <1>0
  DEF WaitersAccounted, MonitorPings
<1>18. ASSUME MonitorTimesOut PROVE WaitersAccounted'
  BY <1>18, <1>0
  DEF WaitersAccounted, MonitorTimesOut
<1>19. ASSUME ShutdownCalled PROVE WaitersAccounted'
  BY <1>19, <1>0
  DEF WaitersAccounted, ShutdownCalled
<1>20. ASSUME FirstGoawayWritten PROVE WaitersAccounted'
  BY <1>20, <1>0, NamesAssumption
  DEF WaitersAccounted, FirstGoawayWritten
<1>21. ASSUME SecondGoaway PROVE WaitersAccounted'
  BY <1>21, <1>0
  DEF WaitersAccounted, SecondGoaway
<1>22. ASSUME SecondGoawayWritten PROVE WaitersAccounted'
  BY <1>22, <1>0, NamesAssumption
  DEF WaitersAccounted, SecondGoawayWritten
<1>23. ASSUME NEW open \in BOOLEAN,
              ResetsStreams(open)
       PROVE  WaitersAccounted'
  BY <1>23, <1>0
  DEF WaitersAccounted, ResetsStreams, ShutsTransport
<1>24. ASSUME PauseEnds PROVE WaitersAccounted'
  BY <1>24, <1>0
  DEF WaitersAccounted, PauseEnds, ShutsTransport
<1>25. ASSUME ShutdownReturns PROVE WaitersAccounted'
  BY <1>25, <1>0
  DEF WaitersAccounted, ShutdownReturns
<1>26. ASSUME PeerLeaves PROVE WaitersAccounted'
  BY <1>26, <1>0
  DEF WaitersAccounted, PeerLeaves
<1>27. ASSUME NEW h \in Handlers, NEW waits \in BOOLEAN,
              HandlerSends(h, waits)
       PROVE  WaitersAccounted'
  <2>1. /\ Waiters(chan) \subseteq Waiters(chan')
        /\ waits => h \in Waiters(chan')
    BY <1>0, <1>27, ItemTypes, AppendItems DEF HandlerSends
  <2>2. \A g \in Handlers : hpc'[g] = "wait" => hpc[g] = "wait" \/ (g = h /\ waits)
    BY <1>27 DEF HandlerSends, TypeOK
  <2> QED
    BY <1>27, <2>1, <2>2 DEF WaitersAccounted, HandlerSends
<1>28. ASSUME NEW h \in Handlers, HandlerResumes(h) PROVE WaitersAccounted'
  BY <1>28, <1>0, NamesAssumption
  DEF WaitersAccounted, TypeOK, HandlerResumes
<1>29. ASSUME NEW h \in Handlers, HandlerReturns(h) PROVE WaitersAccounted'
  BY <1>29, <1>0
  DEF WaitersAccounted, TypeOK, HandlerReturns
<1>30. ASSUME NEW h \in Handlers, HandlerLooks(h) PROVE WaitersAccounted'
  BY <1>30, <1>0
  DEF WaitersAccounted, TypeOK, HandlerLooks
<1>31. ASSUME UNCHANGED vars PROVE WaitersAccounted'
  BY <1>31, <1>0
  DEF WaitersAccounted, vars
<1>32. ASSUME Foreground PROVE WaitersAccounted'
  BY <1>32, <1>1, <1>2, <1>3, <1>4, <1>5, <1>6, <1>7, <1>8, <1>9, <1>10,
     <1>11, <1>12 DEF Foreground
<1>33. ASSUME Writer \/ Monitor PROVE WaitersAccounted'
  BY <1>33, <1>13, <1>14, <1>15, <1>16, <1>17, <1>18 DEF Writer, Monitor
<1>34. ASSUME Shutdown PROVE WaitersAccounted'
  BY <1>34, <1>19, <1>20, <1>21, <1>22, <1>23, <1>24, <1>25 DEF Shutdown
<1>35. ASSUME NEW h \in Handlers, Handler(h) PROVE WaitersAccounted'
  BY <1>35, <1>27, <1>28, <1>29, <1>30 DEF Handler
<1> QED
  BY <1>26, <1>31, <1>32, <1>33, <1>34, <1>35 DEF Next

-----------------------------------------------------------------------------
(* The conjuncts of IInv hold together in every state of every connection. *)
THEOREM Invariant == Spec => []IInv
<1>1. IInv /\ [Next]_vars => IInv'
  BY TypeInvariant, LoopsInvariant, HandlersInvariant, EndMarkInvariant,
     BehindInvariant, WaitersInvariant
  DEF IInv
<1> QED
  BY <1>1, InvInit, PTL DEF Spec

(* Every variable has its type: only those who can wait are notified.      *)
THEOREM TypesHold == Spec => []TypeOK
<1>1. IInv => TypeOK
  BY DEF IInv
<1> QED
  BY <1>1, Invariant, PTL

(* No waiter is lost between the send channel, a batch and its answer,     *)
(* whoever fails, leaves or stops.                                         *)
THEOREM NoWaiterLost == Spec => []WaitersAccounted
<1>1. IInv => WaitersAccounted
  BY DEF IInv
<1> QED
  BY <1>1, Invariant, PTL

(* With handlers on the connection's thread nothing of the manager runs    *)
(* once start() has returned.                                              *)
THEOREM QuietAfterStop == Spec => []QuietWhenStopped
<1>1. ASSUME IInv, rpc = "stopped", conf.thread = "io" PROVE Quiet
  <2>1. ActiveHandlers = 0
    BY <1>1, ActiveType DEF IInv, HandlersQuiet, Past
  <2>2. mpc = "gone" /\ wpc = "gone" /\ batch = <<>>
    BY <1>1 DEF IInv, LoopsGone
  <2> QED
    BY <2>1, <2>2 DEF Quiet
<1>2. IInv => QuietWhenStopped
  BY <1>1 DEF QuietWhenStopped
<1> QED
  BY <1>2, Invariant, PTL

(* Over TCP what the handlers sent is written before the stop, or a write  *)
(* has failed.                                                             *)
THEOREM HandlersSentBeforeStop == Spec => []SentBeforeStop
<1>1. ASSUME IInv, rpc = "stopped", ~Tls, conf.thread = "io", ~failed
      PROVE  NoHandlerItem(chan)
  BY <1>1 DEF IInv, LoopsGone, BehindEnd, Past
<1>2. IInv => SentBeforeStop
  BY <1>1 DEF SentBeforeStop, NoHandlerItem
<1> QED
  BY <1>2, Invariant, PTL
=============================================================================
