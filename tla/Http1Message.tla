----------------------------- MODULE Http1Message -----------------------------
(***************************************************************************)
(* HTTP/1 messages on the wire and the incremental parsers of HttpRequest, *)
(* HttpResponse and Chunk, which are the same code twice over.             *)
(*                                                                         *)
(* A message is a record: its number id, its framing ("none", "length" or  *)
(* "chunked"), the sizes of its chunks, close (it ends the connection) and *)
(* routed (the router has a handler for it).  On the wire it is a sequence *)
(* of units <<kind, value>>: two for the header, so that it can be cut,    *)
(* then bytes of the body and, around chunks, their size, CR and LF.       *)
(***************************************************************************)
EXTENDS Naturals, Sequences, FiniteSetsExt

CR == <<"cr", 0>>
LF == <<"lf", 0>>

(* Where chunk n of m ends in its body.                                    *)
ChunkEnds(m) ==
  LET end[n \in 0 .. Len(m.chunks)] == IF n = 0 THEN 0 ELSE end[n - 1] + m.chunks[n]
  IN  end

(* What of the body is behind the first byte first, up to byte last.       *)
Bytes(m, first, last) == [i \in 1 .. last - first |-> <<"b", <<m.id, first + i>>>>]

BodyOf(m) == Bytes(m, 0, ChunkEnds(m)[Len(m.chunks)])

(* Chunk::toChunk: the size, the data, and the empty chunk at the end.     *)
ToChunk(data) == <<<<"size", Len(data)>>, CR, LF>> \o data \o <<CR, LF>>
LastChunk     == <<<<"size", 0>>, CR, LF, CR, LF>>

(* The first n chunks, for every n.                                        *)
FirstChunks(m) ==
  LET first[n \in 0 .. Len(m.chunks)] ==
        IF n = 0 THEN <<>>
        ELSE first[n - 1] \o ToChunk(Bytes(m, ChunkEnds(m)[n - 1], ChunkEnds(m)[n]))
  IN  first

ChunksOf(m) == FirstChunks(m)[Len(m.chunks)] \o LastChunk

Wire(m) == <<<<"h", m>>, <<"end", m.id>>>>
             \o (IF m.framing = "chunked" THEN ChunksOf(m) ELSE BodyOf(m))
-----------------------------------------------------------------------------
(***************************************************************************)
(* Chunk::fromIOVec over the units d.                                      *)
(***************************************************************************)

(* The position of the LF that ends the line starting at i, 0 if there is  *)
(* none yet.  A CR without LF is passed over; a LF without CR ends the     *)
(* search.                                                                 *)
FindCRLF(d, i) ==
  LET ends == {k \in i .. Len(d) - 1 : d[k] = CR /\ d[k + 1] = LF}
  IN  IF ends = {} \/ (\E k \in i .. Min(ends) : d[k] = LF) THEN 0 ELSE Min(ends) + 1

(* Where the line from i on, up to nl, has something; CRs are dropped.     *)
Line(d, i, nl) == {k \in i .. nl - 2 : d[k] # CR}

(* One turn of its loop, over one chunk.  x is how far it is, the data it  *)
(* has appended, whether it has parsed a chunk, and its outcome: "go" on,  *)
(* "some" chunks, the "last" one, or an error.  The size line has been     *)
(* counted as consumed by the time the chunk turns out to be incomplete.   *)
ChunkTurn(d, x) ==
  LET nl    == FindCRLF(d, x.at + 1)
      line  == Line(d, x.at + 1, nl)
      first == d[Min(line)]
      size  == first[2]
      rest  == FindCRLF(d, nl + 1)
      short(at) == [x EXCEPT !.out = IF x.parsed THEN "some" ELSE "kIncomplete", !.at = at]
  IN  IF x.at = Len(d) \/ nl = 0 THEN short(x.at)
      ELSE IF line = {} \/ first[1] # "size" THEN [x EXCEPT !.out = "kChunkSizeConvertError"]
      ELSE IF size = 0
      THEN IF rest = 0 THEN short(nl)
           ELSE IF Line(d, nl + 1, rest) # {} THEN [x EXCEPT !.out = "kInvalidChunkFormat"]
           ELSE [x EXCEPT !.at = rest, !.out = "last"]
      ELSE IF Len(d) - nl < size + 2 THEN short(nl)
      ELSE IF SubSeq(d, nl + size + 1, nl + size + 2) # <<CR, LF>>
      THEN [x EXCEPT !.out = "kInvalidChunkFormat"]
      ELSE [x EXCEPT !.at = nl + size + 2, !.parsed = TRUE,
                     !.body = @ \o SubSeq(d, nl + 1, nl + size)]

GoOn(d, x) == IF x.out = "go" THEN ChunkTurn(d, x) ELSE x

ChunkFromIOVec(d) ==
  LET turns[k \in 0 .. Len(d)] ==
        IF k = 0 THEN [at |-> 0, body |-> <<>>, parsed |-> FALSE, out |-> "go"]
        ELSE GoOn(d, turns[k - 1])
  IN  turns[Len(d)]
-----------------------------------------------------------------------------
(***************************************************************************)
(* HttpRequest::fromIOVec and HttpResponse::fromIOVec.  A parser keeps how *)
(* far its header is (m_headerParsed, and the state inside it), the header *)
(* read, the body so far, and how long it will be.                         *)
(***************************************************************************)
FreshParser ==
  [header |-> "start", head |-> [id |-> 0], body |-> <<>>, need |-> 0, chunked |-> FALSE]

Parsed(m, used)  == [msg |-> m, used |-> used, err |-> "kNoError"]
Refused(m, err)  == [msg |-> m, used |-> 0, err |-> err]

(* Where a start line meets the inside of another header, the line is bad. *)
ParseHeader(m, d) ==
  LET missing == IF m.header = "start" THEN <<"h", "end">> ELSE <<"end">>
      n       == Min({Len(missing), Len(d)})
  IN  IF \E i \in 1 .. n : d[i][1] # missing[i] THEN Refused(m, "kBadRequest")
      ELSE Parsed([m EXCEPT
             !.header = IF n = Len(missing) THEN "parsed" ELSE "inside",
             !.head   = IF m.header = "start" THEN d[1][2] ELSE @], n)

BuggyParseBody(m, d, at) ==
  LET rest == SubSeq(d, at + 1, Len(d))
  IN  IF m.need = 0 THEN Parsed(m, at) ELSE Parsed([m EXCEPT !.body = @ \o rest], Len(d))

(* The content of the body from unit at on.  A chunked message that is     *)
(* complete gives up its transfer-encoding for a content-length.           *)
ParseBody(m, d, at) ==
  LET rest  == SubSeq(d, at + 1, Len(d))
      chunk == ChunkFromIOVec(rest)
      take  == Min({m.need - Len(m.body), Len(rest)})
  IN  IF m.chunked
      THEN IF rest = <<>> \/ chunk.out = "kIncomplete" THEN Parsed(m, at)
           ELSE IF chunk.out \notin {"some", "last"} THEN Refused(m, chunk.out)
           ELSE Parsed([m EXCEPT !.body    = @ \o chunk.body,
                                 !.chunked = chunk.out # "last",
                                 !.need    = IF chunk.out = "last"
                                             THEN Len(m.body) + Len(chunk.body) ELSE @],
                       at + chunk.at)
      ELSE Parsed([m EXCEPT !.body = @ \o SubSeq(rest, 1, take)], at + take)

FromIOVec(m, d) ==
  LET h == ParseHeader(m, d)
      framed == [h.msg EXCEPT
        !.chunked = h.msg.head.framing = "chunked",
        !.need    = IF h.msg.head.framing = "length" THEN Len(BodyOf(h.msg.head)) ELSE 0]
  IN  IF m.header = "parsed" THEN ParseBody(m, d, 0)
      ELSE IF h.err # "kNoError" \/ h.msg.header # "parsed" THEN h
      ELSE ParseBody(framed, d, h.used)

(* HttpResponse::fromIOVec: the same over again for answers.               *)
ResponseFromIOVec(m, d) == FromIOVec(m, d)

IsComplete(m) == m.header = "parsed" /\ ~m.chunked /\ Len(m.body) >= m.need

(***************************************************************************)
(* One turn of a reader over its ring buffer: parseFromRingBuffer and, if  *)
(* the message is not complete, prepareRecvWindow, which fails when the    *)
(* ring is full.  An incomplete header comes back as kNoError, so the      *)
(* limit of HttpReaderSetting is not looked at.                            *)
(***************************************************************************)
TurnOver(r, ring, size) ==
  LET rest == SubSeq(ring, r.used + 1, Len(ring))
  IN  [msg |-> r.msg, ring |-> rest,
       out |-> IF r.err # "kNoError" THEN "error"
               ELSE IF IsComplete(r.msg) THEN "done"
               ELSE IF Len(rest) = size THEN "error"
               ELSE "more"]

RequestTurn(m, ring, size) ==
  TurnOver(IF ring = <<>> THEN Parsed(m, 0) ELSE FromIOVec(m, ring), ring, size)

ResponseTurn(m, ring, size) ==
  TurnOver(IF ring = <<>> THEN Parsed(m, 0) ELSE ResponseFromIOVec(m, ring), ring, size)
=============================================================================
