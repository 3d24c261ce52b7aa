---------------------------- MODULE GremlinCodec ----------------------------
(***************************************************************************)
(* What the code that gremlinc generates for a message does at run time    *)
(* (shared/gremlin_go/gremlinc/internal/generators/golang): Marshal sizes  *)
(* the message, allocates exactly that and writes the fields; Unmarshal    *)
(* notes the offset of each field it knows and skips the others; getters   *)
(* parse a field when it is first asked for and keep it; ToStruct turns    *)
(* the reader into a struct again.  A message type is a sequence of        *)
(* fields; a struct is a sequence of values, or Nil.  The reader may be    *)
(* generated from an older .proto and know only some of the fields.        *)
(***************************************************************************)
EXTENDS GremlinWire

CONSTANT Nil,         \* a nil pointer to a struct or reader
         Schemas,     \* the message types
         Messages(_)  \* the structs to marshal of each type

VARIABLES
  schema, msg,    \* the message type and the struct
  known,          \* the fields the reader knows
  reversed,       \* the order in which Go ranges over a map
  pc,             \* struct, unmarshal, reader, done
  capacity, buf,  \* XXX_PbContentSize and the bytes written
  offset,         \* of Unmarshal's loop
  offsets,        \* for each field the offsets and wire types noted
  data,           \* for each field: whether it was parsed, and its value
  out             \* the struct made by ToStruct

vars == <<schema, msg, known, reversed, pc, capacity, buf, offset, offsets, data, out>>

-----------------------------------------------------------------------------
\* EntryIsNotEmpty.
NotEmpty(f, v) ==
  CASE f.kind = "scalar" -> f.required \/ ~Same(f.type, v, f.default)
    [] f.kind \in {"packed", "list", "structs"} -> v # <<>>
    [] f.kind = "struct" -> f.required \/ v # Nil
    [] f.kind = "map" -> DOMAIN v # {}
    [] f.kind = "group" -> TRUE

\* Keys of a map in the order of a range loop.
Ranged(v, rev) ==
  SetToSortSeq(DOMAIN v, LAMBDA a, b : IF rev THEN a > b ELSE a < b)

\* The key and the value of a map entry are fields 1 and 2; Element is the field of one
\* entry of a list.
Key(f) == [kind |-> "scalar", tag |-> 1, type |-> f.key, default |-> 0, required |-> FALSE]
Element(f) == [f EXCEPT !.kind = IF f.kind = "structs" THEN "struct" ELSE "scalar"]

\* XXX_PbContentSize and EntryFullSizeWithTag.
RECURSIVE SizeMsg(_, _)
RECURSIVE SizeField(_, _)
SizeMsg(S, m) ==
  IF m = Nil THEN 0
  ELSE Total([i \in DOMAIN S |-> IF NotEmpty(S[i], m[i]) THEN SizeField(S[i], m[i]) ELSE 0])
\* A list of more than one number.
SizePacked(f, v) ==
  LET size == Total([i \in DOMAIN v |-> SizeScalar(f.type, v[i])])
  IN SizeVarInt(size) + SizeTag(f.tag) + size
SizeField(f, v) ==
  CASE f.kind = "scalar" -> SizeTag(f.tag) + SizeScalar(f.type, v)
    [] f.kind = "packed" -> IF Len(v) > 1 THEN SizePacked(f, v)
                            ELSE Total([i \in DOMAIN v |-> SizeField(Element(f), v[i])])
    [] f.kind \in {"list", "structs"} -> Total([i \in DOMAIN v |-> SizeField(Element(f), v[i])])
    [] f.kind = "struct" ->
         LET size == SizeMsg(f.sub, v) IN size + SizeVarInt(size) + SizeTag(f.tag)
    [] f.kind = "map" ->
         LET entry(k) == SizeField(Key(f), k) + SizeField(f.value, v[k])
             keys == Ranged(v, FALSE)
         IN Total([i \in DOMAIN keys |->
              entry(keys[i]) + SizeTag(f.tag) + SizeVarInt(entry(keys[i]))])
    [] f.kind = "group" -> 2 * SizeTag(f.tag) + SizeMsg(f.sub, v)

\* MarshalTo and EntryWriter; lengths are computed before the contents are written.
RECURSIVE WriteMsg(_, _, _)
RECURSIVE WriteField(_, _, _)
WriteMsg(S, m, rev) ==
  IF m = Nil THEN <<>>
  ELSE FlattenSeq([i \in DOMAIN S |->
         IF NotEmpty(S[i], m[i]) THEN WriteField(S[i], m[i], rev) ELSE <<>>])
WriteField(f, v, rev) ==
  CASE f.kind = "scalar" -> Tag(f.tag, WireType(f.type)) \o WriteScalar(f.type, v)
    [] f.kind = "packed" /\ Len(v) > 1 ->
         Tag(f.tag, BytesType) \o VarInt(Total([i \in DOMAIN v |-> SizeScalar(f.type, v[i])]))
           \o FlattenSeq([i \in DOMAIN v |-> WriteScalar(f.type, v[i])])
    [] f.kind \in {"list", "structs"} \/ (f.kind = "packed" /\ Len(v) <= 1) ->
         FlattenSeq([i \in DOMAIN v |-> WriteField(Element(f), v[i], rev)])
    [] f.kind = "struct" ->
         Tag(f.tag, BytesType) \o VarInt(SizeMsg(f.sub, v)) \o WriteMsg(f.sub, v, rev)
    [] f.kind = "map" ->
         LET keys == Ranged(v, rev)
             entry(k) == Tag(f.tag, BytesType)
                           \o VarInt(SizeField(Key(f), k) + SizeField(f.value, v[k]))
                           \o WriteField(Key(f), k, rev) \o WriteField(f.value, v[k], rev)
         IN FlattenSeq([i \in DOMAIN keys |-> entry(keys[i])])
    [] f.kind = "group" ->    \* written by other implementations only
         Tag(f.tag, StartGroupType) \o WriteMsg(f.sub, v, rev) \o Tag(f.tag, EndGroupType)

-----------------------------------------------------------------------------
\* One iteration of Unmarshal's loop: the offsets o with the field at position at, and the
\* position behind it (-1 on an error).
Noted(S, fields, b, at, o) ==
  LET t == ReadTag(b, at)
  IN [i \in DOMAIN S |->
        IF i \in fields /\ S[i].tag = t.tag /\ S[i].kind # "group"
        THEN IF S[i].kind \in {"scalar", "struct"} THEN <<[at |-> at + t.n, wire |-> t.wire]>>
             ELSE Append(o[i], [at |-> at + t.n, wire |-> t.wire])
        ELSE o[i]]
Behind(b, at) ==
  LET t == ReadTag(b, at) IN IF t.n < 0 THEN -1 ELSE SkipData(b, at + t.n, t.wire)

NoOffsets(S) == [i \in DOMAIN S |-> <<>>]

RECURSIVE Scan(_, _, _, _)
Scan(S, b, at, o) ==
  IF at < 0 \/ ~HasNext(b, at, 0) THEN o
  ELSE Scan(S, b, Behind(b, at), Noted(S, DOMAIN S, b, at, o))

\* EntryReader: the value of a field from its offsets.
RECURSIVE ReadMsg(_, _)
RECURSIVE ReadField(_, _, _)
\* A nested message: empty data make no reader.
ReadStruct(S, b) == IF b = <<>> THEN Nil ELSE ReadMsg(S, b)

\* The numbers of a packed list.
RECURSIVE ReadPacked(_, _, _, _)
ReadPacked(type, b, at, end) ==
  IF at >= end THEN <<>>
  ELSE LET t == ReadScalar(type, b, at) IN <<t.v>> \o ReadPacked(type, b, at + t.n, end)

\* A value of a list, a struct or a map entry.
StructAt(S, bytes) == [v |-> ReadStruct(S, bytes.v), n |-> bytes.n]
ReadValue(f, b, at) ==
  IF f.kind \in {"struct", "structs"} THEN StructAt(f.sub, ReadScalar("bytes", b, at))
                                      ELSE ReadScalar(f.type, b, at)

\* The key and value of a map entry between two offsets: field 1 and field 2 at an offset.
RECURSIVE ReadEntry(_, _, _, _, _)
EntryKey(f, b, at, end, e, t) == ReadEntry(f, b, at + t.n, end, [e EXCEPT !.k = t.v])
EntryValue(f, b, at, end, e, t) == ReadEntry(f, b, at + t.n, end, [e EXCEPT !.v = t.v])
EntryField(f, b, at, end, e, t) ==
  CASE t.tag = 1 -> EntryKey(f, b, at + t.n, end, e, ReadScalar(f.key, b, at + t.n))
    [] t.tag = 2 -> EntryValue(f, b, at + t.n, end, e, ReadValue(f.value, b, at + t.n))
    [] OTHER -> ReadEntry(f, b, Behind(b, at), end, e)
ReadEntry(f, b, at, end, e) ==
  IF at >= end THEN e ELSE EntryField(f, b, at, end, e, ReadTag(b, at))

\* A map from its entries: the last one of a key counts.
Zero(f) == [k |-> 0, v |-> IF f.value.kind = "struct" THEN Nil ELSE 0]
SizedEntry(f, b, at, size) == ReadEntry(f, b, at + size.n, at + size.n + size.v, Zero(f))
MapFrom(entries) ==
  [k \in {entries[i].k : i \in DOMAIN entries} |->
     entries[Max({i \in DOMAIN entries : entries[i].k = k})].v]

\* Mutant: a number that was not packed is read as a packed list.
ReadListPackedOnly(f, b, o, t) == ReadPacked(f.type, b, o.at + t.n, o.at + t.n + t.v)
\* One occurrence of a list of numbers, packed or not, of which t is the varint.
ReadList(f, b, o, t) ==
  IF o.wire = BytesType THEN ReadPacked(f.type, b, o.at + t.n, o.at + t.n + t.v)
  ELSE <<ReadScalar(f.type, b, o.at).v>>

ReadField(f, b, o) ==
  CASE f.kind = "scalar" -> IF o = <<>> THEN f.default ELSE ReadValue(f, b, o[1].at).v
    [] f.kind = "struct" -> IF o = <<>> THEN Nil ELSE ReadValue(f, b, o[1].at).v
    [] f.kind = "packed" -> FlattenSeq([i \in DOMAIN o |-> ReadList(f, b, o[i], ReadVarInt(b, o[i].at))])
    [] f.kind \in {"list", "structs"} -> [i \in DOMAIN o |-> ReadValue(f, b, o[i].at).v]
    [] f.kind = "map" ->
         MapFrom([i \in DOMAIN o |-> SizedEntry(f, b, o[i].at, ReadVarInt(b, o[i].at))])
    [] f.kind = "group" -> <<>>
ReadMsg(S, b) ==
  LET o == Scan(S, b, 0, NoOffsets(S)) IN [i \in DOMAIN S |-> ReadField(S[i], b, o[i])]

\* ToStruct: of a map of structs only the entries that are not nil.
RECURSIVE StructOf(_, _)
\* Mutant: nil elements of a list are left out.
FieldOfNoNil(f, v) ==
  CASE f.kind = "struct" -> StructOf(f.sub, v)
    [] f.kind = "structs" -> SelectSeq([i \in DOMAIN v |-> StructOf(f.sub, v[i])], LAMBDA r : r # Nil)
    [] f.kind = "map" /\ f.value.kind = "struct" ->
         [k \in {k \in DOMAIN v : v[k] # Nil} |-> StructOf(f.value.sub, v[k])]
    [] OTHER -> v
FieldOf(f, v) ==
  CASE f.kind = "struct" -> StructOf(f.sub, v)
    [] f.kind = "structs" -> [i \in DOMAIN v |-> StructOf(f.sub, v[i])]
    [] f.kind = "map" /\ f.value.kind = "struct" ->
         [k \in {k \in DOMAIN v : v[k] # Nil} |-> StructOf(f.value.sub, v[k])]
    [] OTHER -> v
StructOf(S, r) == IF r = Nil THEN Nil ELSE [i \in DOMAIN S |-> FieldOf(S[i], r[i])]

-----------------------------------------------------------------------------
Init ==
  /\ \E s \in DOMAIN Schemas : schema = Schemas[s] /\ msg \in Messages(s)
  /\ known \in SUBSET DOMAIN schema
  /\ reversed \in {r \in BOOLEAN : r => \E i \in DOMAIN schema : schema[i].kind \in {"map", "struct"}}
  /\ pc = "struct" /\ capacity = 0 /\ buf = <<>> /\ offset = 0
  /\ offsets = NoOffsets(schema)
  /\ data = [i \in DOMAIN schema |-> <<>>] /\ out = Nil

Marshal ==
  /\ pc = "struct"
  /\ capacity' = SizeMsg(schema, msg)
  /\ buf' = IF capacity' = 0 THEN <<>> ELSE WriteMsg(schema, msg, reversed)
  /\ pc' = "unmarshal"
  /\ UNCHANGED <<schema, msg, known, reversed, offset, offsets, data, out>>

UnmarshalField ==
  /\ pc = "unmarshal" /\ offset >= 0 /\ HasNext(buf, offset, 0)
  /\ offsets' = Noted(schema, known, buf, offset, offsets)
  /\ offset' = Behind(buf, offset)
  /\ UNCHANGED <<schema, msg, known, reversed, pc, capacity, buf, data, out>>

\* Unmarshal returns, with an error when the offset is -1.
UnmarshalEnds ==
  /\ pc = "unmarshal" /\ (offset < 0 \/ ~HasNext(buf, offset, 0))
  /\ pc' = IF offset < 0 THEN "failed" ELSE "reader"
  /\ UNCHANGED <<schema, msg, known, reversed, capacity, buf, offset, offsets, data, out>>

\* A getter: the value is parsed once and kept.
Parsed(i) == IF data[i] # <<>> THEN data[i] ELSE <<ReadField(schema[i], buf, offsets[i])>>
Get(i) ==
  /\ pc = "reader" /\ i \in known
  /\ data' = [data EXCEPT ![i] = Parsed(i)]
  /\ UNCHANGED <<schema, msg, known, reversed, pc, capacity, buf, offset, offsets, out>>

ToStruct ==
  /\ pc = "reader" /\ known = DOMAIN schema
  /\ data' = [i \in DOMAIN schema |-> Parsed(i)]
  /\ out' = StructOf(schema, [i \in DOMAIN schema |-> Parsed(i)[1]])
  /\ pc' = "done"
  /\ UNCHANGED <<schema, msg, known, reversed, capacity, buf, offset, offsets>>

Next == Marshal \/ UnmarshalField \/ UnmarshalEnds \/ (\E i \in DOMAIN schema : Get(i)) \/ ToStruct

Spec == Init /\ [][Next]_vars

-----------------------------------------------------------------------------
\* Unmarshal does not fail on what Marshal wrote, and the offsets it notes lie behind a tag:
\* the readers take 0 for a field that is not there.
OffsetsNoted ==
  /\ pc # "failed"
  /\ \A i \in DOMAIN schema : \A j \in DOMAIN offsets[i] : offsets[i][j].at \in 1..Len(buf)

\* Marshal writes exactly what it allocated: one byte more panics, one less leaves the
\* message open at its end.
SizeExact == pc # "struct" => Len(buf) = capacity

\* A struct without content.
Hollow(S, m) == m = Nil \/ \A i \in DOMAIN S : ~NotEmpty(S[i], m[i])

\* What a reader shows of a struct: a nested struct without content reads as nil.
RECURSIVE Seen(_, _)
SeenStruct(S, m) == IF Hollow(S, m) THEN Nil ELSE Seen(S, m)
SeenField(f, v) ==
  CASE f.kind = "struct" -> SeenStruct(f.sub, v)
    [] f.kind = "structs" -> [i \in DOMAIN v |-> SeenStruct(f.sub, v[i])]
    [] f.kind = "map" /\ f.value.kind = "struct" -> [k \in DOMAIN v |-> SeenStruct(f.value.sub, v[k])]
    [] f.kind = "group" -> <<>>
    [] OTHER -> v
Seen(S, m) == [i \in DOMAIN S |-> SeenField(S[i], m[i])]

\* A getter returns what was marshalled, whatever fields around it the reader does not
\* know and in whatever order a map was written.
RoundTrip ==
  \A i \in DOMAIN schema : data[i] # <<>> =>
    IF schema[i].kind = "scalar" THEN Same(schema[i].type, data[i][1], msg[i])
                                 ELSE data[i][1] = SeenField(schema[i], msg[i])

\* The content of a struct: nothing but presence is left out, so that a nested struct without
\* content is nil and the entry of a map whose value is one is not there.
RECURSIVE Content(_, _)
ContentField(f, v) ==
  CASE f.kind = "scalar" -> IF Same(f.type, v, f.default) THEN f.default ELSE v
    [] f.kind = "struct" -> Content(f.sub, v)
    [] f.kind = "structs" -> [i \in DOMAIN v |-> Content(f.sub, v[i])]
    [] f.kind = "map" /\ f.value.kind = "struct" ->
         [k \in {k \in DOMAIN v : Content(f.value.sub, v[k]) # Nil} |-> Content(f.value.sub, v[k])]
    [] OTHER -> v
Content(S, m) ==
  IF m = Nil THEN Nil
  ELSE LET c == [i \in DOMAIN S |-> ContentField(S[i], m[i])] IN IF Hollow(S, c) THEN Nil ELSE c

\* A struct that was marshalled, read, turned into a struct, marshalled in whatever order Go
\* takes this time and read again still has its content: of a nested message without content
\* the presence is lost, level by level, and nothing else.  The second bytes have the length
\* of the first when nothing was lost.  (gremlin structs have no groups.)
Stable ==
  pc = "done" /\ (\A i \in DOMAIN schema : schema[i].kind # "group") =>
    \A rev \in BOOLEAN :
      LET again == WriteMsg(schema, out, rev)
      IN /\ Content(schema, StructOf(schema, ReadMsg(schema, again))) = Content(schema, msg)
         /\ out = msg => Len(again) = Len(buf)
=============================================================================
