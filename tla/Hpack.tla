--------------------------------- MODULE Hpack ---------------------------------
(***************************************************************************)
(* Header compression: HpackEncoder at one end, HpackDecoder at the other, *)
(* each with its HpackDynamicTable, a ring buffer that grows.  A header    *)
(* block is a sequence of representations; the integers in them are coded  *)
(* in bytes, strings are passed whole (the encoder never uses Huffman      *)
(* codes).  Blocks arrive whole and in order.                              *)
(***************************************************************************)
EXTENDS Integers, Sequences, SequencesExt

CONSTANTS
  Blocks,      \* bound: lists of headers that are sent, each <<name, value>>
  StaticTable, \* entries of the static table that they touch, by index
  StaticSize,  \* entries it has
  Sensitive,   \* names that are never put into the table
  FieldSize,   \* size of a field, 32 bytes more than its strings
  FirstRing,   \* slots of a ring that is made for the first entry
  TableSizes,  \* bound: table sizes the decoder's end asks for
  ListLimit    \* m_max_header_list_size

VARIABLES
  encoder,  \* table of the encoder
  pending,  \* m_table_size_update_pending, m_pending_table_size: <<>> or the size
  decoder,  \* table of the decoder
  newest,   \* the same table as a plain sequence, newest entry first
  wire,     \* block under way, with the headers it was made of
  result    \* headers that went into the last block and came out of it

vars == <<encoder, pending, decoder, newest, wire, result>>

NoField == <<"", "">>
LargestTable == CHOOSE n \in TableSizes : \A m \in TableSizes : m <= n
-----------------------------------------------------------------------------
(***************************************************************************)
(* HpackDynamicTable.                                                      *)
(***************************************************************************)
Empty(max) == [ring |-> <<>>, head |-> 0, count |-> 0, size |-> 0, max |-> max]

(* Slot of the entry with index i; 0 is to be the newest.                  *)
Slot(t, i) == ((t.head + Len(t.ring) - 1 - i) % Len(t.ring)) + 1
Get(t, i)  == t.ring[Slot(t, i)]

Evict(t) ==
  LET oldest == ((t.head + Len(t.ring) - t.count) % Len(t.ring)) + 1
  IN  [t EXCEPT !.size = @ - FieldSize[t.ring[oldest]], !.ring[oldest] = NoField, !.count = @ - 1]

EvictTo(t, room) ==
  FoldLeft(LAMBDA u, i : IF u.size > room THEN Evict(u) ELSE u, t, [i \in 1 .. t.count |-> i])

(* A full ring is laid out anew with twice the slots: the new entry in the *)
(* first one, then the others from the newest to the oldest.               *)
Grow(t, field) ==
  [t EXCEPT !.ring = [i \in 1 .. (IF t.count = 0 THEN FirstRing ELSE 2 * t.count) |->
                        IF i = 1 THEN field
                        ELSE IF i <= t.count + 1 THEN Get(t, i - 2) ELSE NoField],
            !.head = (t.count + 1) % (IF t.count = 0 THEN FirstRing ELSE 2 * t.count)]

Add(t, field) ==
  LET u == EvictTo(t, t.max - FieldSize[field])
      v == IF u.count < Len(u.ring)
           THEN [u EXCEPT !.ring[u.head + 1] = field, !.head = (@ + 1) % Len(u.ring)]
           ELSE Grow(u, field)
  IN  IF FieldSize[field] > t.max THEN Empty(t.max)
      ELSE [v EXCEPT !.count = @ + 1, !.size = @ + FieldSize[field]]

SetMaxSize(t, max) == EvictTo([t EXCEPT !.max = max], max)

(* Indices of the entries of a table that are like a field: in all, or in  *)
(* name.  The first of them counts.                                        *)
Find(t, field) ==
  LET same  == {i \in 0 .. t.count - 1 : Get(t, i) = field}
      named == {i \in 0 .. t.count - 1 : Get(t, i)[1] = field[1]}
      First(S) == CHOOSE i \in S : \A j \in S : i <= j
  IN  IF same # {} THEN [index |-> First(same), nameOnly |-> FALSE]
      ELSE IF named # {} THEN [index |-> First(named), nameOnly |-> TRUE]
      ELSE [index |-> -1, nameOnly |-> TRUE]

StaticFind(field) ==
  LET same  == {i \in DOMAIN StaticTable : StaticTable[i] = field}
      named == {i \in DOMAIN StaticTable : StaticTable[i][1] = field[1]}
      First(S) == CHOOSE i \in S : \A j \in S : i <= j
  IN  IF same # {} THEN [index |-> First(same), nameOnly |-> FALSE]
      ELSE IF named # {} THEN [index |-> First(named), nameOnly |-> TRUE]
      ELSE [index |-> 0, nameOnly |-> TRUE]
-----------------------------------------------------------------------------
(***************************************************************************)
(* Integers: a prefix, and if it is full, seven bits at a time.            *)
(***************************************************************************)
RECURSIVE Septets(_)
Septets(n) == IF n < 128 THEN <<n>> ELSE <<(n % 128) + 128>> \o Septets(n \div 128)

EncodeInteger(n, bits) ==
  LET full == 2 ^ bits - 1
  IN  IF n < full THEN <<n>> ELSE <<full>> \o Septets(n - full)

(* An integer that goes on for too long is an error, -1.                   *)
DecodeInteger(bytes, bits) ==
  LET full == 2 ^ bits - 1
      rest == Tail(bytes)
      sum  == FoldLeft(LAMBDA n, i : n + ((rest[i] % 128) * (128 ^ (i - 1))), full, [i \in DOMAIN rest |-> i])
  IN  IF bytes[1] < full THEN bytes[1]
      ELSE IF rest = <<>> \/ Len(rest) > 5 \/ Last(rest) >= 128 THEN -1
      ELSE sum

Representation(kind, bits, index, name, value) ==
  [kind |-> kind, bytes |-> EncodeInteger(index, bits), name |-> name, value |-> value]

EncodeIndexed(index) == Representation("indexed", 7, index, "", "")

EncodeLiteral(kind, index, field) ==
  Representation(kind, IF kind = "literal" THEN 6 ELSE 4, index,
                 IF index = 0 THEN field[1] ELSE "", field[2])
-----------------------------------------------------------------------------
(* HpackEncoder::encodeField: what the table becomes, and the field's      *)
(* representation.                                                         *)
EncodeField(t, field) ==
  LET static == StaticFind(field)
      dyn    == Find(t, field)
      name   == IF static.index > 0 THEN static.index
                ELSE IF dyn.index >= 0 THEN StaticSize + dyn.index + 1 ELSE 0
  IN  IF static.index > 0 /\ ~static.nameOnly
      THEN [table |-> t, item |-> EncodeIndexed(static.index)]
      ELSE IF dyn.index >= 0 /\ ~dyn.nameOnly
      THEN [table |-> t, item |-> EncodeIndexed(StaticSize + dyn.index + 1)]
      ELSE IF field[1] \in Sensitive
      THEN [table |-> t, item |-> EncodeLiteral("never", static.index, field)]
      ELSE [table |-> Add(t, field), item |-> EncodeLiteral("literal", name, field)]

BuggyEncodeBlock(t, update, headers) ==
  FoldLeft(LAMBDA acc, f : LET e == EncodeField(acc.table, f)
                           IN  [table |-> e.table, block |-> Append(acc.block, e.item)],
           [table |-> t, block |-> <<>>], headers)

(* HpackEncoder::encode: a pending change of the table's size goes first.  *)
EncodeBlock(t, update, headers) ==
  FoldLeft(LAMBDA acc, f : LET e == EncodeField(acc.table, f)
                           IN  [table |-> e.table, block |-> Append(acc.block, e.item)],
           [table |-> t, block |-> [i \in DOMAIN update |-> Representation("size", 5, update[i], "", "")]],
           headers)

(* HpackDecoder::getField, NoField if there is none.                       *)
GetField(t, index) ==
  CASE index \in DOMAIN StaticTable -> StaticTable[index]
    [] index > StaticSize /\ index - StaticSize - 1 < t.count -> Get(t, index - StaticSize - 1)
    [] OTHER -> NoField

Failed(acc) == [acc EXCEPT !.failed = TRUE]

(* A field that has been decoded, if the list has not grown too long.      *)
Take(acc, field, intoTable) ==
  IF acc.length + FieldSize[field] > ListLimit THEN Failed(acc)
  ELSE [acc EXCEPT !.headers = Append(@, field), !.length = @ + FieldSize[field],
                   !.table = IF intoTable THEN Add(@, field) ELSE @]

Literal(acc, item, index) ==
  LET named == GetField(acc.table, index)
      name  == IF index = 0 THEN item.name ELSE named[1]
  IN  IF index < 0 \/ (index > 0 /\ named = NoField) THEN Failed(acc)
      ELSE Take(acc, <<name, item.value>>, item.kind = "literal")

DecodeItem(acc, item) ==
  LET bits  == CASE item.kind = "indexed" -> 7 [] item.kind = "literal" -> 6
                 [] item.kind = "size" -> 5 [] OTHER -> 4
      n     == DecodeInteger(item.bytes, bits)
      field == GetField(acc.table, n)
  IN  IF acc.failed THEN acc
      ELSE CASE item.kind = "indexed" -> IF field = NoField THEN Failed(acc) ELSE Take(acc, field, FALSE)
             [] item.kind = "size" ->
                  IF n < 0 \/ n > LargestTable THEN Failed(acc) ELSE [acc EXCEPT !.table = SetMaxSize(@, n)]
             [] OTHER -> Literal(acc, item, n)

DecodeBlock(t, block) ==
  FoldLeft(DecodeItem, [table |-> t, headers |-> <<>>, length |-> 0, failed |-> FALSE], block)
-----------------------------------------------------------------------------
Init ==
  /\ encoder = Empty(LargestTable) /\ pending = <<>>
  /\ decoder = Empty(LargestTable) /\ newest = <<>>
  /\ wire = <<>> /\ result = <<>>

(* The peer's settings change the size of the encoder's table.  Bound: one *)
(* change before the next block.  Of several the encoder announces only    *)
(* the last, and the tables would come apart if an earlier one was smaller.*)
SetMaxTableSize(n) ==
  /\ pending = <<>> /\ wire = <<>>
  /\ encoder' = SetMaxSize(encoder, n) /\ pending' = <<n>>
  /\ UNCHANGED <<decoder, newest, wire, result>>

Encode(headers) ==
  /\ wire = <<>>
  /\ \E made \in {EncodeBlock(encoder, pending, headers)} :
       /\ encoder' = made.table
       /\ wire' = <<[block |-> made.block, headers |-> headers]>>
  /\ pending' = <<>> /\ result' = <<>>
  /\ UNCHANGED <<decoder, newest>>

(* The decoder's table as it should be: what was added, newest first, as   *)
(* far as there is room.                                                   *)
Room(entries, max) ==
  LET SizeOf(n) == FoldLeft(LAMBDA s, i : s + FieldSize[entries[i]], 0, [i \in 1 .. n |-> i])
      n == CHOOSE k \in 0 .. Len(entries) :
             SizeOf(k) <= max /\ (k < Len(entries) => SizeOf(k + 1) > max)
  IN  SubSeq(entries, 1, n)

Follow(block, headers) ==
  FoldLeft(LAMBDA acc, item :
             CASE item.kind = "size" ->
                    LET max == DecodeInteger(item.bytes, 5)
                    IN  [acc EXCEPT !.max = max, !.entries = Room(@, max)]
               [] OTHER ->
                    [acc EXCEPT !.i = @ + 1,
                                !.entries = IF item.kind = "literal"
                                            THEN Room(<<headers[acc.i]>> \o @, acc.max) ELSE @],
           [i |-> 1, max |-> decoder.max, entries |-> newest], block)

Decode ==
  /\ wire # <<>>
  /\ \E got \in {DecodeBlock(decoder, wire[1].block)} :
       /\ decoder' = got.table
       /\ result' = <<[sent |-> wire[1].headers, headers |-> got.headers, failed |-> got.failed]>>
  /\ newest' = Follow(wire[1].block, wire[1].headers).entries
  /\ wire' = <<>>
  /\ UNCHANGED <<encoder, pending>>

Next ==
  \/ \E n \in TableSizes : SetMaxTableSize(n)
  \/ \E headers \in Blocks : Encode(headers)
  \/ Decode

Spec == Init /\ [][Next]_vars
-----------------------------------------------------------------------------
(* The headers that come out of a block are those that went into it, with  *)
(* both tables having changed in step, through evictions, changes of size  *)
(* and entries that are too large.                                         *)
DecodedAsEncoded ==
  result # <<>> => ~result[1].failed /\ result[1].headers = result[1].sent

(* Index 0 of the decoder's table is the newest entry, and so on.          *)
NewestFirst ==
  newest = [i \in 1 .. decoder.count |-> Get(decoder, i - 1)]
=============================================================================
