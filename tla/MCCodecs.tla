-------------------------------- MODULE MCCodecs --------------------------------
(***************************************************************************)
(* The codecs, which share no state: one of them runs in each behaviour.   *)
(***************************************************************************)
EXTENDS Integers, Sequences, TLC

CONSTANTS
  KeyLimit, MaxWord, MaxHeaders, MaxLine,
  Blocks, StaticTable, StaticSize, Sensitive, FieldSize, FirstRing, TableSizes, ListLimit,
  Frames, Foreign, MaxSent, MaxPiece, Capacity, MaxFrame

VARIABLES
  codec,
  role, pairs, p, q, text, body,
  encoder, pending, decoder, newest, block, result,
  mode, sent, data, wire, ring, views, got, outcome, ended

parser == <<role, pairs, p, q, text, body>>
tables == <<encoder, pending, decoder, newest, block, result>>
frames == <<mode, sent, data, wire, ring, views, got, outcome, ended>>

Parser == INSTANCE Http1HeaderParser WITH mode <- pairs, data <- text, MaxPiece <- MaxLine
Tables == INSTANCE Hpack WITH wire <- block
Reader == INSTANCE Http2Frames
-----------------------------------------------------------------------------
MCFields ==
  {<<"a", "1">>, <<"a", "2">>, <<"b", "1">>, <<"cookie", "1">>, <<"date", "1">>, <<"method", "GET">>}
MCBlocks ==
  {<<f>> : f \in MCFields}
    \cup {<<<<"a", "1">>, <<"b", "1">>>>, <<<<"date", "1">>, <<"a", "2">>, <<"a", "1">>>>}
MCStatic    == 2 :> <<"method", "GET">> @@ 33 :> <<"date", "">>
MCFieldSize == [f \in MCFields \cup {<<"date", "">>} |-> IF f[1] = "date" THEN 2 ELSE 1]

F(type, flags, sid) == [type |-> type, flags |-> flags, sid |-> sid]
MCFrames == {
  [pad |-> 0, block |-> <<7>>] @@ F(0, 1, 1),
  [pad |-> 1, block |-> <<7, 8>>] @@ F(0, 8, 2147483647),
  [pad |-> 0, block |-> <<>>] @@ F(0, 8, 3),
  [pad |-> 0, block |-> <<130>>, exclusive |-> FALSE, dep |-> 0, weight |-> 16] @@ F(1, 4, 1),
  [pad |-> 2, block |-> <<>>, exclusive |-> TRUE, dep |-> 2147483647, weight |-> 255] @@ F(1, 44, 3),
  [pad |-> 0, block |-> <<1>>, exclusive |-> TRUE, dep |-> 1, weight |-> 0] @@ F(1, 32, 5),
  [exclusive |-> FALSE, dep |-> 258, weight |-> 9] @@ F(2, 0, 5),
  [code |-> 8] @@ F(3, 0, 1),
  [settings |-> <<>>] @@ F(4, 1, 0),
  [settings |-> <<<<4, 2147483647>>, <<300, 70000>>>>] @@ F(4, 0, 0),
  [pad |-> 1, promised |-> 2, block |-> <<130>>] @@ F(5, 12, 1),
  [opaque |-> <<1, 2, 3, 4, 5, 6, 7, 255>>] @@ F(6, 1, 0),
  [last |-> 2147483647, code |-> 2, debug |-> <<9>>] @@ F(7, 0, 0),
  [increment |-> 65536] @@ F(8, 0, 0),
  [block |-> <<131, 132>>] @@ F(9, 4, 1) }

(* No such type; more padding than payload; a dependency cut short; a PING *)
(* of seven bytes; an increment of 0; an ACK with settings; a length above *)
(* MaxFrame.                                                               *)
MCForeign ==
  LET H(type, flags, length) == Reader!Big(length, 3) \o <<type, flags, 0, 0, 0, 1>>
  IN  {H(10, 0, 1) \o <<0>>, H(0, 8, 2) \o <<2, 0>>, H(1, 40, 5) \o <<0, 0, 0, 0, 1>>,
       H(6, 0, 7) \o <<1, 2, 3, 4, 5, 6, 7>>, H(8, 0, 4) \o <<128, 0, 0, 0>>,
       H(4, 1, 6) \o <<0, 4, 0, 0, 0, 1>>, H(0, 0, 70000) \o <<1>>}
-----------------------------------------------------------------------------
MCInit ==
  /\ codec \in {"parser", "tables", "frames"}
  /\ Parser!Init /\ Tables!Init /\ Reader!Init
  /\ codec # "parser" => role = "request" /\ pairs = "ServerSide"
  /\ codec # "frames" => mode = "one"

MCNext ==
  /\ codec' = codec
  /\ \/ codec = "parser" /\ Parser!Next /\ UNCHANGED <<tables, frames>>
     \/ codec = "tables" /\ Tables!Next /\ UNCHANGED <<parser, frames>>
     \/ codec = "frames" /\ Reader!Next /\ UNCHANGED <<parser, tables>>

MCSpec == MCInit /\ [][MCNext]_<<codec, parser, tables, frames>>

(* See Http1HeaderParser.                                                  *)
CutsDoNotMatter == Parser!CutsDoNotMatter

(* See Hpack.                                                              *)
DecodedAsEncoded == Tables!DecodedAsEncoded

(* See Http2Frames.                                                        *)
FramesArriveAsSent == Reader!FramesArriveAsSent

(* See Hpack.                                                              *)
NewestFirst == Tables!NewestFirst
================================================================================
