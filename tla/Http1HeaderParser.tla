-------------------------- MODULE Http1HeaderParser --------------------------
(***************************************************************************)
(* The header parsers of HttpRequestHeader and HttpResponseHeader.  Each   *)
(* has two: parseChar takes one character at a time (fromString), and      *)
(* fromIOVec scans whole runs of the pieces a read has left in the ring    *)
(* buffer.  A parser is a record; characters are the few kinds the code    *)
(* tells apart, and a word is a sequence of them.                          *)
(*                                                                         *)
(* p is the parser that has seen every character that arrived, one by one, *)
(* q the one that is given pieces, and data what has arrived and not been  *)
(* read yet.  Both are tables with one row per branch of the code: where   *)
(* no row fits, the code returns kBadRequest.                              *)
(***************************************************************************)
EXTENDS Naturals, Sequences

CONSTANTS
  KeyLimit,    \* 256, the longest header name
  MaxWord,     \* bound: length of a word
  MaxHeaders,  \* bound: header lines of a message
  MaxPiece     \* bound: characters between two reads

SP == " "
CR == "\r"
LF == "\n"
CO == ":"

(* h and H spell a common header (host), v is a supported version, 1 a     *)
(* number; other letters behave as one of them.                            *)
Text == {"h", "H", "v", "1", CO}
Chars == Text \cup {SP, CR, LF}
Lower(c) == IF c = "H" THEN "h" ELSE c
Upper(c) == IF c = "h" THEN "H" ELSE c

VARIABLES
  role,   \* "request" or "response"
  mode,   \* HeaderPair::Mode of the parser's headers
  p,      \* parseChar, fed character by character
  q,      \* fromIOVec, fed in pieces
  data,   \* characters arrived and not consumed by q
  body    \* characters of the body among them

vars == <<role, mode, p, q, data, body>>

(***************************************************************************)
(* A parser: its state, the words of the start line, the header line being *)
(* parsed and the headers committed.                                       *)
(***************************************************************************)
Fresh(r) ==
  [st |-> IF r = "request" THEN "Method" ELSE "Version",
   method |-> <<>>, uri |-> <<>>, version |-> <<>>, code |-> <<>>,
   key |-> <<>>, val |-> <<>>, isCommon |-> FALSE,
   common |-> <<>>, pairs |-> <<>>]

Errors == {"kBadRequest", "kVersionNotSupport", "kHttpCodeInvalid"}
Over(r) == r.st \in Errors \cup {"Done"}

(* normalizeHeaderKeyChar: a server keeps names in lower case.             *)
Put(r, field, c) ==
  CASE field = ""    -> r
    [] field = "key" -> [r EXCEPT !.key = Append(@, IF mode = "ServerSide" THEN Lower(c) ELSE c)]
    [] OTHER         -> [r EXCEPT ![field] = Append(@, c)]

(* toCanonicalHeaderKey of a client.                                       *)
Canonical(key) == IF key = <<>> THEN key ELSE <<Upper(Head(key))>> \o Tail(key)

(* A common header that is there already is appended to, any other one is  *)
(* replaced (insert_or_assign).                                            *)
CommitParsedHeaderPair(r) ==
  LET key    == IF mode = "ServerSide" THEN r.key ELSE Canonical(r.key)
      others == SelectSeq(r.pairs, LAMBDA kv : kv[1] # key)
      kept   == [r EXCEPT !.key = <<>>, !.val = <<>>, !.isCommon = FALSE]
  IN  IF mode = "ServerSide" /\ r.isCommon
      THEN [kept EXCEPT !.common = Append(@, r.val)]
      ELSE [kept EXCEPT !.pairs = Append(others, <<key, r.val>>)]

Fail(r, err) == [r EXCEPT !.st = err]

VersionKnown(r) == r.version = <<"v">>

(* The number of digits a status code starts with: stoi takes them and     *)
(* ignores the rest, from_chars wants nothing else.                        *)
StoiTakes(word) == word # <<>> /\ word[1] = "1"
FromCharsTakes(word) == word # <<>> /\ \A i \in 1 .. Len(word) : word[i] = "1"

(* What a branch does besides storing the character and moving.            *)
Do(r, what) ==
  CASE what = ""        -> r
    [] what = "version" -> IF VersionKnown(r) THEN r ELSE Fail(r, "kVersionNotSupport")
    [] what = "stoi"    -> IF StoiTakes(r.code) THEN r ELSE Fail(r, "kHttpCodeInvalid")
    [] what = "chars"   -> IF FromCharsTakes(r.code) THEN r ELSE Fail(r, "kHttpCodeInvalid")
    [] what = "commit"  -> CommitParsedHeaderPair(r)
    [] what = "match"   -> IF Len(r.key) > KeyLimit THEN Fail(r, "kBadRequest")
                           ELSE [r EXCEPT !.isCommon = mode = "ServerSide" /\ r.key = <<"h">>]

Row(from, on, to, field, what) ==
  [from |-> from, on |-> on, to |-> to, field |-> field, what |-> what]

Branch(rows, r, c) ==
  LET fit == {row \in rows : row.from = r.st /\ c \in row.on}
      row == CHOOSE x \in fit : TRUE
  IN  IF fit = {} THEN Fail(r, "kBadRequest")
      ELSE Do([Put(r, row.field, c) EXCEPT !.st = row.to], row.what)
-----------------------------------------------------------------------------
(***************************************************************************)
(* parseChar.                                                              *)
(***************************************************************************)
RequestLineChars == {
  Row("Method",    {SP},             "MethodSP",    "",        ""),
  Row("Method",    Text,             "Method",      "method",  ""),
  Row("MethodSP",  {SP},             "MethodSP",    "",        ""),
  Row("MethodSP",  Text,             "Uri",         "uri",     ""),
  Row("Uri",       {SP},             "UriSP",       "",        ""),
  Row("Uri",       Text,             "Uri",         "uri",     ""),
  Row("UriSP",     {SP},             "UriSP",       "",        ""),
  Row("UriSP",     Text,             "Version",     "version", ""),
  Row("Version",   {CR},             "VersionCR",   "",        "version"),
  Row("Version",   Text \cup {SP},   "Version",     "version", ""),
  Row("VersionCR", {LF},             "VersionLF",   "",        ""),
  Row("VersionLF", {CR},             "HeaderEndCR", "",        ""),
  Row("VersionLF", Text \cup {SP},   "HeaderKey",   "key",     "")}

RequestHeaderChars == {
  Row("HeaderKey",   {CO},             "HeaderColon", "",    "match"),
  Row("HeaderKey",   Chars \ {CO, CR, LF}, "HeaderKey", "key", ""),
  Row("HeaderColon", {SP},             "HeaderSpace", "",    ""),
  Row("HeaderColon", {CR},             "HeaderCR",    "",    "commit"),
  Row("HeaderColon", Chars \ {SP, CR}, "HeaderValue", "val", ""),
  Row("HeaderSpace", {SP},             "HeaderSpace", "",    ""),
  Row("HeaderSpace", {CR},             "HeaderCR",    "",    "commit"),
  Row("HeaderSpace", Chars \ {SP, CR}, "HeaderValue", "val", ""),
  Row("HeaderValue", {CR},             "HeaderCR",    "",    "commit"),
  Row("HeaderValue", Chars \ {CR},     "HeaderValue", "val", ""),
  Row("HeaderCR",    {LF},             "HeaderLF",    "",    ""),
  Row("HeaderLF",    {CR},             "HeaderEndCR", "",    ""),
  Row("HeaderLF",    Chars \ {CR},     "HeaderKey",   "key", ""),
  Row("HeaderEndCR", {LF},             "Done",        "",    "")}

ResponseLineChars == {
  Row("Version",   {SP},           "VersionSP",   "",        "version"),
  Row("Version",   Text,           "Version",     "version", ""),
  Row("VersionSP", {SP},           "VersionSP",   "",        ""),
  Row("VersionSP", Text,           "Code",        "code",    ""),
  Row("Code",      {SP},           "CodeSP",      "",        "stoi"),
  Row("Code",      {CR},           "StatusCR",    "",        "stoi"),
  Row("Code",      Text,           "Code",        "code",    ""),
  Row("CodeSP",    {SP},           "CodeSP",      "",        ""),
  Row("CodeSP",    {CR},           "StatusCR",    "",        ""),
  Row("CodeSP",    Text,           "Status",      "",        ""),
  Row("Status",    {CR},           "StatusCR",    "",        ""),
  Row("Status",    Text \cup {SP}, "Status",      "",        ""),
  Row("StatusCR",  {LF},           "StatusLF",    "",        ""),
  Row("StatusLF",  {CR},           "HeaderEndCR", "",        ""),
  Row("StatusLF",  Text \cup {SP}, "HeaderKey",   "key",     "")}

(* The same branches over again in the response's class.                   *)
ResponseHeaderChars == RequestHeaderChars

(* The early return for a long name is parseChar's alone.                  *)
ParseChar(r, c) ==
  IF r.st = "HeaderKey" /\ c \notin {CO, CR, LF} /\ Len(r.key) >= KeyLimit
  THEN Fail(r, "kBadRequest")
  ELSE IF role = "request"
       THEN Branch(RequestLineChars \cup RequestHeaderChars, r, c)
       ELSE Branch(ResponseLineChars \cup ResponseHeaderChars, r, c)
-----------------------------------------------------------------------------
(***************************************************************************)
(* fromIOVec.  A state with a run takes its characters all at once, into   *)
(* the field named or into none; the rows say what the character after the *)
(* run does, which is the first one in a state without a run.              *)
(***************************************************************************)
Run(from, over, field) == [from |-> from, over |-> over, field |-> field]

RequestRuns == {
  Run("Method",      Text,                 "method"),
  Run("MethodSP",    {SP},                 ""),
  Run("Uri",         Text,                 "uri"),
  Run("UriSP",       {SP},                 ""),
  Run("Version",     Text \cup {SP},       "version"),
  Run("HeaderKey",   Chars \ {CO, CR, LF}, "key"),
  Run("HeaderSpace", {SP},                 ""),
  Run("HeaderValue", Chars \ {CR},         "val")}

RequestLineSpans == {
  Row("Method",    {SP},           "MethodSP",    "",        ""),
  Row("MethodSP",  Text,           "Uri",         "uri",     ""),
  Row("Uri",       {SP},           "UriSP",       "",        ""),
  Row("UriSP",     Text,           "Version",     "version", ""),
  Row("Version",   {CR},           "VersionCR",   "",        "version"),
  Row("VersionCR", {LF},           "VersionLF",   "",        ""),
  Row("VersionLF", {CR},           "HeaderEndCR", "",        ""),
  Row("VersionLF", Text \cup {SP}, "HeaderKey",   "key",     "")}

RequestHeaderSpans == {
  Row("HeaderKey",   {CO},             "HeaderColon", "",    "match"),
  Row("HeaderColon", {SP},             "HeaderSpace", "",    ""),
  Row("HeaderColon", {CR},             "HeaderCR",    "",    "commit"),
  Row("HeaderColon", Chars \ {SP, CR}, "HeaderValue", "val", ""),
  Row("HeaderSpace", {CR},             "HeaderCR",    "",    "commit"),
  Row("HeaderSpace", Chars \ {SP, CR}, "HeaderValue", "val", ""),
  Row("HeaderValue", {CR},             "HeaderCR",    "",    "commit"),
  Row("HeaderCR",    {LF},             "HeaderLF",    "",    ""),
  Row("HeaderLF",    {CR},             "HeaderEndCR", "",    ""),
  Row("HeaderLF",    Chars \ {CR},     "HeaderKey",   "key", ""),
  Row("HeaderEndCR", {LF},             "Done",        "",    "")}

ResponseRuns == {
  Run("Version",     Text,                 "version"),
  Run("VersionSP",   {SP},                 ""),
  Run("Code",        Text,                 "code"),
  Run("CodeSP",      {SP},                 ""),
  Run("Status",      Text \cup {SP},       ""),
  Run("HeaderKey",   Chars \ {CO, CR, LF}, "key"),
  Run("HeaderSpace", {SP},                 ""),
  Run("HeaderValue", Chars \ {CR},         "val")}

ResponseLineSpans == {
  Row("Version",   {SP},           "VersionSP",   "",     "version"),
  Row("VersionSP", Text,           "Code",        "code", ""),
  Row("Code",      {SP},           "CodeSP",      "",     "chars"),
  Row("Code",      {CR},           "StatusCR",    "",     "chars"),
  Row("CodeSP",    {CR},           "StatusCR",    "",     ""),
  Row("CodeSP",    Text,           "Status",      "",     ""),
  Row("Status",    {CR},           "StatusCR",    "",     ""),
  Row("StatusCR",  {LF},           "StatusLF",    "",     ""),
  Row("StatusLF",  {CR},           "HeaderEndCR", "",     ""),
  Row("StatusLF",  Text \cup {SP}, "HeaderKey",   "key",  "")}

(* The same branches over again in the response's class.                   *)
ResponseHeaderSpans == RequestHeaderSpans

(* How many characters from position i on belong to the run of the state.  *)
RunLength(r, d, i) ==
  LET runs == IF role = "request" THEN RequestRuns ELSE ResponseRuns
      over == UNION {x.over : x \in {y \in runs : y.from = r.st}}
  IN  CHOOSE n \in 0 .. Len(d) - i :
        /\ \A k \in 1 .. n : d[i + k] \in over
        /\ n < Len(d) - i => d[i + n + 1] \notin over

TakeRun(r, d, i, n) ==
  LET runs == IF role = "request" THEN RequestRuns ELSE ResponseRuns
      put[k \in 0 .. n] ==
        IF k = 0 THEN r
        ELSE Put(put[k - 1], (CHOOSE x \in runs : x.from = r.st).field, d[i + k])
  IN  put[n]

(* One turn of the loop over a piece d: the run, then the character that   *)
(* ended it.  A run cut by the end of the piece stays in its state.        *)
BuggyTurn(r, d, i) ==
  LET n  == RunLength(r, d, i)
      r1 == TakeRun(r, d, i, n)
      r2 == IF role = "request"
            THEN Branch(RequestLineSpans \cup RequestHeaderSpans, r1, d[i + n + 1])
            ELSE Branch(ResponseLineSpans \cup ResponseHeaderSpans, r1, d[i + n + 1])
  IN  IF i + n = Len(d) THEN <<r, Len(d)>> ELSE <<r2, i + n + 1>>

Turn(r, d, i) ==
  LET n  == RunLength(r, d, i)
      r1 == TakeRun(r, d, i, n)
      r2 == IF role = "request"
            THEN Branch(RequestLineSpans \cup RequestHeaderSpans, r1, d[i + n + 1])
            ELSE Branch(ResponseLineSpans \cup ResponseHeaderSpans, r1, d[i + n + 1])
  IN  IF i + n = Len(d) THEN <<r1, Len(d)>> ELSE <<r2, i + n + 1>>

(* fromIOVec over one piece: the parser and how much was consumed.  The    *)
(* loop over several pieces is the loop over several calls: nothing is     *)
(* kept between pieces but the parser.                                     *)
FromIOVec(r, d) ==
  LET turns[k \in 0 .. Len(d)] ==
        IF k = 0 THEN <<r, 0>>
        ELSE LET at == turns[k - 1]
             IN  IF Over(at[1]) \/ at[2] = Len(d) THEN at ELSE Turn(at[1], d, at[2])
  IN  turns[Len(d)]
-----------------------------------------------------------------------------
Init ==
  /\ role \in {"request", "response"}
  /\ mode \in {"ServerSide", "ClientSide"}
  /\ p = Fresh(role) /\ q = Fresh(role)
  /\ data = <<>> /\ body = 0

(* The characters worth sending where the parser is: elsewhere a letter is *)
(* a letter.                                                               *)
Interesting ==
  CASE p.st \in {"VersionLF", "StatusLF", "HeaderKey", "HeaderLF"} -> Chars \ {"1", SP}
    [] p.st \in {"VersionSP", "Code"}                  -> {"1", "v", SP, CR, LF}
    [] OTHER                                           -> {"v", SP, CR, LF}

Bounded(r) ==
  /\ Len(r.method) + Len(r.uri) <= MaxWord
  /\ Len(r.version) <= MaxWord /\ Len(r.code) <= MaxWord
  /\ Len(r.key) <= KeyLimit + 1
  /\ Len(r.common) + Len(r.pairs) <= MaxHeaders
  /\ Len(r.val) + Len(r.common) + Len(r.pairs) <= MaxWord

(* The next character of the connection: of the header, or of the body     *)
(* that follows it in the same read.                                       *)
Arrive(c) ==
  /\ Len(data) < MaxPiece
  /\ p.st # "Done" /\ c \in Interesting
  /\ p.st \notin Errors
  /\ p' = ParseChar(p, c) /\ Bounded(p')
  /\ data' = Append(data, c)
  /\ UNCHANGED <<role, mode, q, body>>

ArriveBody ==
  /\ Len(data) < MaxPiece
  /\ p.st = "Done" /\ q.st # "Done"
  /\ data' = Append(data, "v")
  /\ body' = body + 1
  /\ UNCHANGED <<role, mode, p, q>>

(* A read hands what has arrived to the parser; the ring buffer may wrap,  *)
(* which makes two pieces of it.  What is not consumed stays.              *)
Read ==
  /\ data # <<>> /\ ~Over(q)
  /\ LET got == FromIOVec(q, data)
     IN  /\ q' = got[1]
         /\ data' = SubSeq(data, got[2] + 1, Len(data))
  /\ UNCHANGED <<role, mode, p, body>>

Next ==
  \/ \E c \in Chars : Arrive(c)
  \/ ArriveBody
  \/ Read

Spec == Init /\ [][Next]_vars
-----------------------------------------------------------------------------
(* However the header is cut into reads, fromIOVec ends up where parseChar *)
(* does: the same state, words, headers and error; and once it is done it  *)
(* has consumed the header and nothing of the body behind it.  Two         *)
(* differences of the code are allowed for: a name that is too long is     *)
(* refused only at its end, and a status code with something after its     *)
(* digits is accepted by one parser and refused by the other.              *)
SameAs(r, s) ==
  \/ r = s
  \/ r.st \in Errors /\ s.st \in Errors
  \/ r.st \in Errors /\ Len(s.key) > KeyLimit
  \/ StoiTakes(s.code) /\ ~FromCharsTakes(s.code)

CutsDoNotMatter ==
  /\ data = <<>> => SameAs(p, q)
  /\ q.st = "Done" => Len(data) = body
=============================================================================
