---------------------------- MODULE HttpStaticFiles ----------------------------
(***************************************************************************)
(* A static file route: the handler of HttpRouter::createStaticFileHandler *)
(* with sendFileContent, sendSingleRange and sendMultipleRanges, the range *)
(* parser and the validators.  One client asks for one file, again and     *)
(* again, whole or in ranges and under conditions, and keeps a copy of it; *)
(* meanwhile the file is rewritten, replaced or removed.  The handler      *)
(* looks at the file several times: for its size, for its tag, when it     *)
(* opens it and when it reads it.                                          *)
(*                                                                         *)
(* Byte i of version v of the file is <<v, i>>.                            *)
(***************************************************************************)
EXTENDS Integers, Sequences, SequencesExt

CONSTANTS
  Modes,       \* transfer modes the route is configured with
  Small, Large, \* the thresholds of AUTO
  Chunk,       \* bytes of a read, or of a call of sendfile
  Routes,      \* how the route was registered: "mount", "hard" or "try"
  Sizes,       \* bound: sizes of the file
  Ranges,      \* bound: Range headers asked for, sequences of <<first, last>>
  Omitted,     \* in place of a number of a range that is left out
  Junk,        \* in place of one that does not start with digits
  Star,        \* the condition "*"
  MaxChanges,  \* bound: changes of the file
  MaxRequests, \* bound: requests
  Wrap         \* 2^64 of the code: unsigned numbers wrap there

(* A number of a Range header, and a pair of them.                         *)
Numbers == Nat \cup {Omitted, Junk}

ASSUME StaticFileAssumption ==
  /\ Wrap \in Nat \ {0} /\ Chunk \in Nat \ {0} /\ MaxChanges \in Nat
  /\ \A n \in Sizes : n \in Nat /\ n + 1 < Wrap
  /\ Omitted \notin Nat /\ Junk \notin Nat /\ Omitted # Junk
  /\ \A specs \in Ranges : specs \in Seq(Numbers \X Numbers)

VARIABLES
  route,    \* how the route was registered
  mode, etags, \* its configuration: transfer mode, whether tags are on
  disk,     \* the file under the path: inode, time, version and size
  held,     \* the file the handler has open
  pc,       \* "idle", "size", "tag", "open", "send"
  req,      \* the request
  size,     \* the size the handler has seen
  answer,   \* head of the answer: status, length, tag and time, ranges of the body
  body,     \* what has been sent of the body: bytes of the file
  sent,     \* and how many bytes it is with all that is put between them
  todo,     \* ranges still to be sent, the first one perhaps in part
  copy,     \* of the client: tag and time it has it under, bytes by offset
  asked, changes, \* counters
  broken,   \* the connection is
  raced     \* the file changed while an answer was under way

setup == <<route, mode, etags>>
file == <<disk, held, changes, raced>>
vars == <<route, mode, etags, disk, held, pc, req, size, answer, body, sent, todo, copy, asked,
          changes, broken, raced>>

Gone    == [inode |-> 0, time |-> 0, version |-> 0, size |-> 0]
NoTag   == <<>>
NoCopy  == [tag |-> NoTag, time |-> 0, at |-> <<>>]
NoAnswer == [status |-> 0, length |-> 0, tag |-> NoTag, time |-> 0, ranges |-> <<>>]
Chunked == -1
Byte(f, i) == <<f.version, i>>
-----------------------------------------------------------------------------
(***************************************************************************)
(* HttpRangeParser.  A range of the header is <<first, last>>; either may  *)
(* be Omitted or Junk.                                                     *)
(***************************************************************************)
HttpRange(first, last) ==
  [start |-> first, end |-> last, length |-> (last - first + 1) % Wrap]

InvalidRange == [start |-> 0, end |-> 0, length |-> 0]
IsValid(r) == r.start <= r.end /\ r.length > 0

Least(a, b) == IF a < b THEN a ELSE b

BuggyParseSingleRange(spec, fileSize) ==
  LET first == spec[1]
      last  == spec[2]
      end   == (fileSize - 1) % Wrap
  IN  IF Junk \in {first, last} \/ (first = Omitted /\ last = Omitted) THEN InvalidRange
      ELSE IF first = Omitted THEN HttpRange(fileSize - Least(last, fileSize), end)
      ELSE IF first >= fileSize THEN InvalidRange
      ELSE IF last = Omitted THEN HttpRange(first, end)
      ELSE IF first > last THEN InvalidRange ELSE HttpRange(first, last)

ParseSingleRange(spec, fileSize) ==
  LET first  == spec[1]
      last   == spec[2]
      end    == (fileSize - 1) % Wrap
      suffix == IF last = 0 \/ last > fileSize THEN fileSize ELSE last
  IN  IF Junk \in {first, last} \/ (first = Omitted /\ last = Omitted) THEN InvalidRange
      ELSE IF first = Omitted THEN HttpRange(fileSize - suffix, end)
      ELSE IF first >= fileSize THEN InvalidRange
      ELSE IF last = Omitted THEN HttpRange(first, end)
      ELSE IF first > last THEN InvalidRange ELSE HttpRange(first, Least(last, end))

(* The elements of s that ok holds of, in their order.                     *)
Those(s, ok) ==
  LET upTo[n \in 0 .. Len(s)] ==
        IF n = 0 THEN <<>>
        ELSE IF ok[n] THEN Append(upTo[n - 1], s[n]) ELSE upTo[n - 1]
  IN  upTo[Len(s)]

(* parse: of several ranges those that are invalid are passed over, and    *)
(* the answer to them is of several parts even if one is left.             *)
ParseRanges(specs, fileSize) ==
  LET ranges == [i \in DOMAIN specs |-> ParseSingleRange(specs[i], fileSize)]
  IN  Those(ranges, [i \in DOMAIN specs |-> IsValid(ranges[i])])

(***************************************************************************)
(* ETagGenerator.  A condition names tags, or is "*" for any; marks of     *)
(* weak tags and quotes make no difference.                                *)
(***************************************************************************)
GenerateStrong(f, fileSize) == <<f.inode, fileSize, f.time>>

MatchEtagHeader(tag, tags) == tags # {} /\ (Star \in tags \/ tag \in tags)

BuggyMatchIfRange(tag, time, cond) ==
  CASE cond.kind = "none" -> TRUE
    [] cond.kind = "tag"  -> cond.tag = tag
    [] cond.kind = "date" -> cond.time <= time

MatchIfRange(tag, time, cond) ==
  CASE cond.kind = "none" -> TRUE
    [] cond.kind = "tag"  -> cond.tag = tag
    [] cond.kind = "date" -> time <= cond.time

DecideTransferMode(n) ==
  IF mode # "AUTO" THEN mode
  ELSE IF n <= Small THEN "MEMORY"
  ELSE IF n <= Large THEN "CHUNK" ELSE "SENDFILE"
-----------------------------------------------------------------------------
NoCondition == [kind |-> "none", tag |-> NoTag, time |-> 0]

Init ==
  /\ route \in Routes /\ mode \in Modes /\ etags \in BOOLEAN
  /\ \E n \in Sizes : disk = [inode |-> 1, time |-> 1, version |-> 1, size |-> n]
  /\ held = Gone /\ pc = "idle" /\ size = 0
  /\ req = [ranges |-> <<>>, ifMatch |-> {}, ifNoneMatch |-> {}, ifRange |-> NoCondition]
  /\ answer = NoAnswer /\ body = <<>> /\ sent = 0 /\ todo = <<>>
  /\ copy = NoCopy /\ asked = 0 /\ changes = 0
  /\ broken = FALSE /\ raced = FALSE

(* The client's conditions are about its copy: revalidate it, or go on     *)
(* with it by ranges.                                                      *)
Conditions ==
  {[ifMatch |-> {}, ifNoneMatch |-> {}, ifRange |-> NoCondition],
   [ifMatch |-> {}, ifNoneMatch |-> {Star}, ifRange |-> NoCondition]} \cup
  (IF copy.tag = NoTag THEN {}
   ELSE {[ifMatch |-> {copy.tag}, ifNoneMatch |-> {}, ifRange |-> NoCondition],
         [ifMatch |-> {}, ifNoneMatch |-> {copy.tag}, ifRange |-> NoCondition],
         [ifMatch |-> {}, ifNoneMatch |-> {}, ifRange |-> [NoCondition EXCEPT !.kind = "tag", !.tag = copy.tag]]})
  \cup
  (IF copy.time = 0 THEN {}
   ELSE {[ifMatch |-> {}, ifNoneMatch |-> {}, ifRange |-> [NoCondition EXCEPT !.kind = "date", !.time = copy.time]]})

Ask(ranges, cond) ==
  /\ pc = "idle" /\ asked < MaxRequests /\ ~broken
  /\ req' = [ranges |-> ranges, ifMatch |-> cond.ifMatch, ifNoneMatch |-> cond.ifNoneMatch,
             ifRange |-> cond.ifRange]
  /\ pc' = "size" /\ asked' = asked + 1
  /\ answer' = NoAnswer /\ body' = <<>> /\ sent' = 0 /\ todo' = <<>>
  /\ UNCHANGED <<setup, size, copy, broken, file>>

(* The answer is over.  The client takes a 200 for its copy, puts a range  *)
(* it asked for under a condition into the copy it has, and takes any      *)
(* other single range for a new one.                                       *)
Offsets(range, bytes) == [i \in range.start .. range.start + Len(bytes) - 1 |-> bytes[i - range.start + 1]]

Several == Len(req.ranges) > 1

Finish(ans, bytes) ==
  /\ pc' = "idle" /\ held' = Gone
  /\ copy' =
       CASE ~broken' /\ ans.status = 200 ->
              [tag |-> ans.tag, time |-> ans.time, at |-> Offsets([start |-> 0], bytes)]
         [] ~broken' /\ ans.status = 206 /\ ~Several ->
              LET part == Offsets(ans.ranges[1], bytes)
              IN  [tag |-> ans.tag, time |-> ans.time,
                   at |-> IF req.ifRange.kind = "none" THEN part
                          ELSE [i \in DOMAIN copy.at \cup DOMAIN part |->
                                  IF i \in DOMAIN part THEN part[i] ELSE copy.at[i]]]
         [] OTHER -> copy

(* The time of a file that is gone is the present.                         *)
Head200(f) ==
  LET t == IF f = Gone THEN changes + 1 ELSE f.time
  IN  [status |-> 200, length |-> Chunked, ranges |-> <<>>, time |-> t,
       tag |-> IF etags THEN GenerateStrong([f EXCEPT !.time = t], size) ELSE NoTag]

Short(status, n) == [NoAnswer EXCEPT !.status = status, !.length = n]
-----------------------------------------------------------------------------
(***************************************************************************)
(* The handler.                                                            *)
(***************************************************************************)

Found ==
  /\ disk # Gone
  /\ pc' = "tag" /\ size' = disk.size /\ UNCHANGED <<answer, sent, held, copy>>

NotFound ==
  /\ disk = Gone
  /\ answer' = Short(404, 1) /\ sent' = 1
  /\ Finish(answer', <<>>) /\ UNCHANGED size

(* tryFiles gives the request to its other handler, a proxy.               *)
FallBack ==
  /\ disk = Gone
  /\ Finish(NoAnswer, <<>>) /\ UNCHANGED <<answer, sent, size>>

(* createStaticFileHandler: is it there, and how large.                    *)
LookUnderDirectory ==
  /\ pc = "size" /\ route \in {"mount", "try"} /\ broken' = broken
  /\ \/ Found
     \/ route = "mount" /\ NotFound
     \/ route = "try" /\ FallBack
  /\ UNCHANGED <<setup, disk, req, body, todo, asked, changes, raced>>

(* createSingleFileHandler: the same of a file that was there when the     *)
(* route was made.                                                         *)
LookAtFile ==
  /\ pc = "size" /\ route = "hard" /\ broken' = broken
  /\ Found \/ NotFound
  /\ UNCHANGED <<setup, disk, req, body, todo, asked, changes, raced>>

(* What goes around each range of a multipart body: its delimiter, type    *)
(* and range lines, an empty line and the line break after it.             *)
Delimiter == 5
Value     == 10
Break     == 2
PartLines == Delimiter + Break + 14 + Value + Break + 15 + Value + Break + Break

(* sendMultipleRanges counts them again for the header.                    *)
CountedLines == Delimiter + Break + 14 + Value + Break + 16 + Value + Break + Break

LastDelimiter == Delimiter + 2 + Break

TotalLength(rs) ==
  IF ~Several THEN rs[1].length
  ELSE FoldLeft(LAMBDA n, r : n + CountedLines + r.length + Break, 0, rs) + LastDelimiter

(* sendFileContent, up to the head of the answer.                          *)
Decide ==
  LET head   == Head200(disk)
      parsed == ParseRanges(req.ranges, size)
      hasRange == req.ranges # <<>> /\ MatchIfRange(head.tag, head.time, req.ifRange)
  IN  IF etags /\ req.ifMatch # {} /\ ~MatchEtagHeader(head.tag, req.ifMatch) THEN Short(412, 0)
      ELSE IF etags /\ MatchEtagHeader(head.tag, req.ifNoneMatch) THEN Short(304, 0)
      ELSE IF hasRange /\ parsed = <<>> THEN Short(416, 1)
      ELSE IF hasRange
      THEN [head EXCEPT !.status = 206, !.ranges = parsed, !.length = TotalLength(parsed)]
      ELSE [head EXCEPT !.length = IF DecideTransferMode(size) = "CHUNK" THEN Chunked ELSE size]

Tag ==
  /\ pc = "tag" /\ broken' = broken
  /\ answer' = Decide
  /\ IF Decide.status \in {200, 206}
     THEN /\ pc' = "open"
          /\ todo' = IF Decide.status = 206 THEN Decide.ranges ELSE <<HttpRange(0, size - 1)>>
          /\ UNCHANGED <<held, copy, sent>>
     ELSE /\ sent' = Decide.length
          /\ Finish(Decide, <<>>) /\ UNCHANGED todo
  /\ UNCHANGED <<setup, disk, req, size, body, asked, changes, raced>>

(* A whole file in MEMORY mode is read before anything is sent, and its    *)
(* size is that seen before; in the other modes the head goes first.  If   *)
(* the file cannot be opened that head stands, or the body ends at once.   *)
InMemory == answer.status = 200 /\ DecideTransferMode(size) = "MEMORY"

ReadAll == [i \in 1 .. size |-> IF i <= disk.size THEN Byte(disk, i - 1) ELSE <<0, 0>>]

Open ==
  /\ pc = "open" /\ broken' = broken
  /\ CASE InMemory ->
            /\ answer' = IF disk = Gone THEN Short(500, 1) ELSE answer
            /\ body' = IF disk = Gone THEN <<>> ELSE ReadAll
            /\ sent' = IF disk = Gone THEN 1 ELSE size
            /\ Finish(answer', body')
       [] ~InMemory /\ disk = Gone ->
            /\ Finish(answer, <<>>) /\ UNCHANGED <<answer, body, sent>>
       [] OTHER ->
            /\ held' = disk /\ pc' = "send"
            /\ sent' = IF answer.status = 206 /\ Several THEN PartLines ELSE 0
            /\ UNCHANGED <<answer, body, copy>>
  /\ UNCHANGED <<setup, disk, req, size, todo, asked, changes, raced>>

(* What a read at offset i can get when n bytes are wanted; a sendfile may *)
(* get less.                                                               *)
Available(i, n) == Least(Least(n, Chunk), IF i < held.size THEN held.size - i ELSE 0)

BySendfile ==
  IF answer.status = 200 THEN answer.length # Chunked
  ELSE ~Several /\ DecideTransferMode(answer.ranges[1].length) = "SENDFILE"

Gets(n) ==
  LET r == todo[1]
      most == Available(r.start, IF answer.length = Chunked THEN Chunk ELSE r.length)
  IN  IF BySendfile THEN (n > 0 \/ most = 0) /\ n <= most ELSE n = most

Taken(n) == [i \in 1 .. n |-> Byte(held, todo[1].start + i - 1)]

(* What is left of a range once n of its bytes are there.                  *)
Rest(r, n) == [start |-> r.start + n, end |-> r.end, length |-> (r.length - n) % Wrap]

BuggySendPiece(n) ==
  /\ pc = "send" /\ n > 0 /\ Gets(n)
  /\ body' = body \o Taken(n) /\ sent' = sent + n
  /\ todo' = <<[todo[1] EXCEPT !.start = @ + n]>> \o Tail(todo)
  /\ UNCHANGED <<setup, disk, held, pc, req, size, answer, copy, asked, changes, broken, raced>>

(* A turn of a loop that gets something.  In CHUNK mode it goes on to the  *)
(* end of the file, else until the range is all there.                     *)
SendPiece(n) ==
  /\ pc = "send" /\ n > 0 /\ Gets(n)
  /\ answer.length # Chunked => todo[1].length > 0
  /\ body' = body \o Taken(n) /\ sent' = sent + n
  /\ todo' = <<Rest(todo[1], n)>> \o Tail(todo)
  /\ UNCHANGED <<setup, disk, held, pc, req, size, answer, copy, asked, changes, broken, raced>>

(* It gets nothing more, or needs nothing more: the next range, or the end *)
(* of the answer.                                                          *)
RangeOver ==
  /\ pc = "send"
  /\ Gets(0) \/ (answer.length # Chunked /\ todo[1].length = 0)
  /\ broken' = broken
  /\ IF Len(todo) > 1
     THEN /\ todo' = Tail(todo) /\ sent' = sent + Break + PartLines
          /\ UNCHANGED <<pc, held, copy>>
     ELSE /\ Finish(answer, body) /\ todo' = <<>>
          /\ sent' = IF answer.status = 206 /\ Several THEN sent + Break + LastDelimiter ELSE sent
  /\ UNCHANGED <<setup, disk, req, size, answer, body, asked, changes, raced>>

(* A send fails: the connection is of no more use.                         *)
SendFails ==
  /\ pc \in {"open", "send"}
  /\ broken' = TRUE
  /\ Finish(answer, body)
  /\ UNCHANGED <<setup, disk, req, size, answer, body, sent, todo, asked, changes, raced>>
-----------------------------------------------------------------------------
(***************************************************************************)
(* The file changes.  Its time moves when it does.                         *)
(***************************************************************************)
Change(f) ==
  /\ changes < MaxChanges
  /\ disk' = f /\ changes' = changes + 1
  /\ raced' = (raced \/ pc # "idle")
  /\ UNCHANGED <<setup, pc, req, size, answer, body, sent, todo, copy, asked, broken>>

Rewrite(n) ==
  /\ disk # Gone
  /\ Change([disk EXCEPT !.time = @ + 1, !.version = @ + 1, !.size = n])
  /\ held' = IF held.inode = disk.inode THEN disk' ELSE held

Replace(n) ==
  /\ Change([inode |-> changes + 2, time |-> changes + 2, version |-> changes + 2, size |-> n])
  /\ UNCHANGED held

Unlink == disk # Gone /\ Change(Gone) /\ UNCHANGED held

Next ==
  \/ \E r \in Ranges, c \in Conditions : Ask(r, c)
  \/ LookUnderDirectory \/ LookAtFile \/ Tag \/ Open
  \/ \E n \in 1 .. Chunk : SendPiece(n)
  \/ RangeOver \/ SendFails
  \/ \E n \in Sizes : Rewrite(n) \/ Replace(n)
  \/ Unlink

Spec == Init /\ [][Next]_vars
-----------------------------------------------------------------------------
(* What a range header asks for, as a set of offsets.  A range that is     *)
(* empty at the end of the file, "-0", is taken for the whole file by the  *)
(* code; it is left out here.                                              *)
Asked(spec, n) ==
  IF Junk \in {spec[1], spec[2]} \/ (spec[1] = Omitted /\ spec[2] = Omitted) THEN {}
  ELSE {i \in 0 .. n - 1 :
          /\ spec[1] = Omitted => i >= n - spec[2]
          /\ spec[1] # Omitted => i >= spec[1] /\ (spec[2] # Omitted => i <= spec[2])}

(* The ranges of a 206 are, in their order, those that were asked for as   *)
(* far as the file has them, and there is a 416 when it has none of them.  *)
RangesAsAsked ==
  LET offsets == [i \in DOMAIN req.ranges |-> Asked(req.ranges[i], size)]
      wanted  == Those(offsets, [i \in DOMAIN req.ranges |-> offsets[i] # {}])
  IN  <<Omitted, 0>> \notin ToSet(req.ranges) =>
        /\ answer.status = 206 =>
             wanted = [i \in DOMAIN answer.ranges |-> answer.ranges[i].start .. answer.ranges[i].end]
        /\ answer.status = 416 => wanted = <<>>

(* When the handler returns and the connection is to go on, it has sent    *)
(* as many bytes as the head of the answer has announced, unless the file  *)
(* changed meanwhile.                                                      *)
BodyAsAnnounced ==
  pc = "idle" /\ ~broken /\ ~raced /\ answer.length # Chunked
    /\ ~(answer.status = 206 /\ Several) =>
    sent = answer.length

(* The copy the client has put together is, byte for byte, of one version  *)
(* of the file, if the file changes only between answers.                  *)
CopyIsOneVersion ==
  ~raced => \E v \in 1 .. MaxChanges + 1 : \A i \in DOMAIN copy.at : copy.at[i] = <<v, i>>
=============================================================================
