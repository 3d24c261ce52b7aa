--------------------------- MODULE MCGremlinCodec ---------------------------
(***************************************************************************)
(* Message types and structs for GremlinCodec.  ScalarSchemas has one      *)
(* message for each scalar type, with every value of the small word;       *)
(* the composite ones nest messages, lists, maps and groups, with values   *)
(* at the limits of the varint lengths.                                    *)
(***************************************************************************)
EXTENDS GremlinWire

CONSTANT Nil

Scalar(tag, type, default) ==
  [kind |-> "scalar", tag |-> tag, type |-> type, default |-> default, required |-> FALSE]
Packed(tag, type) == [kind |-> "packed", tag |-> tag, type |-> type, default |-> 0, required |-> FALSE]
Struct(tag, sub) == [kind |-> "struct", tag |-> tag, sub |-> sub, required |-> FALSE]
Structs(tag, sub) == [Struct(tag, sub) EXCEPT !.kind = "structs"]
MapOf(tag, key, value) == [kind |-> "map", tag |-> tag, key |-> key, value |-> value]
Group(tag, sub) == [kind |-> "group", tag |-> tag, sub |-> sub]
BytesField(tag) == [Scalar(tag, "bytes", <<>>) EXCEPT !.kind = "scalar"]
Chunks(tag) == [BytesField(tag) EXCEPT !.kind = "list"]

Numeric == <<"uint64", "uint32", "int64", "int32", "sint64", "sint32", "fixed64", "fixed32",
             "sfixed64", "sfixed32", "float", "double">>
\* A field with a default, one without, and a required one.
ScalarSchemas ==
  [t \in 1..Len(Numeric) |->
     <<Scalar(1, Numeric[t], 0), [Scalar(31, Numeric[t], 1) EXCEPT !.required = (t % 2 = 0)]>>]
ScalarMessages(t) == {<<v, w>> : v \in Values(Numeric[t]), w \in {0, 1}}

Leaf == <<Scalar(1, "uint32", 0), BytesField(2)>>
Leaves == {Nil, <<0, <<>>>>, <<0, <<0>>>>, <<4, <<>>>>}
Flag == <<Scalar(1, "bool", FALSE)>>

Edges == {0, 3, 4, Word - 1}
UpTo2(V) == {<<>>} \cup {<<a>> : a \in V} \cup {<<a, b>> : a, b \in V}

CompositeSchemas == <<
  <<Packed(1, "uint64"), Scalar(2, "sint64", 0), Packed(3, "sfixed32")>>,
  <<Struct(1, Leaf), Structs(2, Leaf), Struct(3, Flag)>>,
  <<MapOf(1, "uint32", Struct(2, Leaf)), MapOf(2, "int32", Scalar(2, "sint32", 0))>>,
  <<Scalar(1, "uint64", 0), Group(2, <<Scalar(1, "fixed32", 0), Group(3, Leaf)>>), Chunks(4)>>,
  <<Struct(1, <<Struct(1, <<Packed(1, "uint64"), MapOf(2, "uint32", Struct(2, Flag))>>)>>), BytesField(9)>> >>

Maps(K, V) == UNION {[D -> V] : D \in {D \in SUBSET K : Cardinality(D) <= 2}}

CompositeMessages(s) ==
  CASE s = 1 -> {<<a, b, c>> : a \in UpTo2(Edges) \cup {<<1, 2, 16>>},
                               b \in {0, -1, Word \div 2 - 1, -(Word \div 2)}, c \in UpTo2({-1, 1})}
    [] s = 2 -> {<<a, b, c>> : a \in Leaves, b \in UpTo2(Leaves), c \in {Nil, <<FALSE>>, <<TRUE>>}}
    [] s = 3 -> {<<a, b>> : a \in Maps({0, 1, 5}, Leaves), b \in Maps({-1, 0, 3}, {0, -2})}
    [] s = 4 -> {<<a, <<b, c>>, d>> : a \in Edges, b \in {0, 5}, c \in Leaves \ {Nil},
                                      d \in UpTo2({<<>>, <<1>>, <<7, 0>>})}
    [] s = 5 -> {<<a, b>> : a \in {Nil, <<Nil>>} \cup {<<<<p, m>>>> : p \in UpTo2(Edges),
                                                           m \in Maps({0, 4}, {Nil, <<FALSE>>, <<TRUE>>})},
                            b \in {<<>>, <<3>>}}

Schemas == ScalarSchemas \o CompositeSchemas
Messages(s) == IF s <= Len(Numeric) THEN ScalarMessages(s) ELSE CompositeMessages(s - Len(Numeric))
=============================================================================
