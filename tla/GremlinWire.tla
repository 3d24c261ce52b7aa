---------------------------- MODULE GremlinWire ----------------------------
(***************************************************************************)
(* The wire format of shared/gremlin_go (writer.go, reading.go): variable  *)
(* length integers, zigzag, fixed width words, tags and skipping.  The     *)
(* widths are parameters, so that all values of a small word can be        *)
(* checked: the code has seven payload bits in a byte, nine such groups    *)
(* and one more bit make a word of 64, a fixed word is eight or four       *)
(* bytes.  The wire type keeps its three bits.  A buffer is a sequence of  *)
(* bytes; offsets count from 0 as in the code.                             *)
(***************************************************************************)
EXTENDS Integers, Sequences, FiniteSets, SequencesExt, FiniteSetsExt

CONSTANTS GroupBits,   \* payload bits of a byte of a varint, 7
          FullGroups,  \* full groups of a word, 9
          F64, F32     \* bytes of a fixed word, 8 and 4

High == 2^GroupBits                        \* 0x80
ByteValues == 0..(2 * High - 1)
Word == 2^(GroupBits * FullGroups + 1)     \* values of uint64
Word32 == (2 * High)^F32                   \* values of uint32
Signed(v, w) == IF 2 * v >= w THEN v - w ELSE v    \* uint to int of the same width

VarIntType == 0
Fixed64Type == 1
BytesType == 2
StartGroupType == 3
EndGroupType == 4
Fixed32Type == 5

-----------------------------------------------------------------------------
\* Mutant: the limit of each length is taken for the shorter one.
SizeVarIntLess(v) ==
  Min({FullGroups + 1} \cup {n \in 1..FullGroups : v <= High^n})
SizeVarInt(v) ==
  Min({FullGroups + 1} \cup {n \in 1..FullGroups : v < High^n})

\* appendVarInt.
VarInt(v) ==
  LET n == Min({FullGroups + 1} \cup {k \in 1..FullGroups : v < High^k})
  IN [i \in 1..n |-> IF i < n THEN High + ((v \div High^(i - 1)) % High)
                              ELSE v \div High^(i - 1)]

HasNext(buf, offset, size) == offset + size < Len(buf)

\* The sum of a sequence of numbers.
Total(s) == FoldLeft(LAMBDA a, b : a + b, 0, s)

\* readVarIntAt: the value and the number of bytes, -1 when there is none.
VarIntEnds(buf, offset) ==
  {n \in 1..(FullGroups + 1) :
     HasNext(buf, offset, n - 1) /\ buf[offset + n] < IF n <= FullGroups THEN High ELSE 2}
VarIntOf(buf, offset, n) ==
  [v |-> Total([i \in 1..n |-> (buf[offset + i] % High) * High^(i - 1)]) % Word, n |-> n]
ReadVarInt(buf, offset) ==
  IF VarIntEnds(buf, offset) = {} THEN [v |-> 0, n |-> -1]
  ELSE VarIntOf(buf, offset, Min(VarIntEnds(buf, offset)))

\* appendFixed32, appendFixed64 and the reverse.
Fixed(v, bytes) == [i \in 1..bytes |-> (v \div (2 * High)^(i - 1)) % (2 * High)]
ReadFixed(buf, offset, bytes) == Total([i \in 1..bytes |-> buf[offset + i] * (2 * High)^(i - 1)])

\* appendSignedVarInt: (v << 1) ^ (v >> 63); readSignedVarIntAt.
ZigZag(x) == IF x < 0 THEN Word - 1 - ((2 * x) % Word) ELSE (2 * x) % Word
UnZigZag(v) == IF v % 2 = 1 THEN -(v \div 2) - 1 ELSE v \div 2

SizeTag(tag) == SizeVarInt(8 * tag)
Tag(tag, wire) == VarInt(8 * tag + wire)

\* ReadTagAt; n is -1 on an error.  A tag is an int32.
ReadTag(buf, offset) ==
  LET t == ReadVarInt(buf, offset)
  IN [tag |-> t.v \div 8, wire |-> t.v % 8,
      n |-> IF t.v \div 8 > Word32 \div 2 - 1 THEN -1 ELSE t.n]

\* getVarIntSize: it does not look at the value of the last byte.
VarIntSize(buf, offset) ==
  LET ends == {n \in 1..(FullGroups + 1) : HasNext(buf, offset, n - 1) /\ buf[offset + n] < High}
  IN IF ends # {} THEN Min(ends)
     ELSE IF HasNext(buf, offset, FullGroups) THEN FullGroups + 1 ELSE -1

\* SkipData: the offset behind the value, -1 on an error.
RECURSIVE SkipData(_, _, _)
RECURSIVE SkipGroup(_, _)
SkipGroup(buf, offset) ==
  LET t == ReadTag(buf, offset)
  IN IF t.n < 0 THEN -1
     ELSE IF t.wire = EndGroupType THEN offset + t.n
     ELSE LET next == SkipData(buf, offset + t.n, t.wire)
          IN IF next < 0 THEN -1 ELSE SkipGroup(buf, next)
SkipData(buf, offset, wire) ==
  LET t == ReadVarInt(buf, offset)
      n == VarIntSize(buf, offset)
  IN CASE wire = VarIntType -> IF n < 0 THEN -1 ELSE offset + n
       [] wire = Fixed32Type -> offset + F32
       [] wire = Fixed64Type -> offset + F64
       [] wire = BytesType -> IF t.n < 0 THEN -1 ELSE offset + t.n + t.v
       [] wire = StartGroupType -> SkipGroup(buf, offset)
       [] OTHER -> -1

-----------------------------------------------------------------------------
\* The scalar types of a .proto file (goBasicTypesMap).  Enums are int32.  A float is its
\* bits; the two zeros are equal.
Types == {"uint64", "uint32", "int64", "int32", "sint64", "sint32", "bool", "fixed64",
          "fixed32", "sfixed64", "sfixed32", "float", "double", "bytes"}

Ints(w) == (-(w \div 2))..(w \div 2 - 1)

Values(type) ==
  CASE type \in {"uint64", "fixed64", "double"} -> 0..(Word - 1)
    [] type \in {"uint32", "fixed32", "float"} -> 0..(Word32 - 1)
    [] type \in {"int64", "sint64", "sfixed64"} -> Ints(Word)
    [] type \in {"int32", "sint32", "sfixed32"} -> Ints(Word32)
    [] type = "bool" -> BOOLEAN

\* Go's == on values of the type.
Same(type, a, b) ==
  \/ a = b
  \/ type = "double" /\ {a, b} = {0, Word \div 2}
  \/ type = "float" /\ {a, b} = {0, Word32 \div 2}

WireType(type) ==
  CASE type \in {"fixed64", "sfixed64", "double"} -> Fixed64Type
    [] type \in {"fixed32", "sfixed32", "float"} -> Fixed32Type
    [] type = "bytes" -> BytesType
    [] OTHER -> VarIntType

\* The word that is written as a varint.
AsWord(type, v) ==
  CASE type = "bool" -> IF v THEN 1 ELSE 0
    [] type \in {"sint64", "sint32"} -> ZigZag(v)
    [] OTHER -> v % Word

\* Append...WithoutTag and Size...; bytes include their length.
WriteScalar(type, v) ==
  CASE type = "bytes" -> VarInt(Len(v)) \o v
    [] WireType(type) = Fixed64Type -> Fixed(v % Word, F64)
    [] WireType(type) = Fixed32Type -> Fixed(v % Word32, F32)
    [] OTHER -> VarInt(AsWord(type, v))

SizeScalar(type, v) ==
  CASE type = "bytes" -> Len(v) + SizeVarInt(Len(v))
    [] WireType(type) = Fixed64Type -> F64
    [] WireType(type) = Fixed32Type -> F32
    [] type = "bool" -> 1
    [] OTHER -> SizeVarInt(AsWord(type, v))

\* The value of a type that a varint or a fixed word stands for.
FromVarInt(type, v) ==
  CASE type = "bool" -> v # 0
    [] type = "uint64" -> v
    [] type = "uint32" -> v % Word32
    [] type = "int64" -> Signed(v, Word)
    [] type = "int32" -> Signed(v % Word32, Word32)
    [] type = "sint64" -> UnZigZag(v)
    [] type = "sint32" -> Signed(UnZigZag(v) % Word32, Word32)
FromFixed(type, v) ==
  CASE type = "sfixed64" -> Signed(v, Word)
    [] type = "sfixed32" -> Signed(v, Word32)
    [] OTHER -> v

\* Sized...: the value at an offset and its size.
BytesAt(buf, offset, t) ==
  [v |-> SubSeq(buf, offset + t.n + 1, offset + t.n + t.v), n |-> t.n + t.v]
VarIntAt(type, t) == [v |-> FromVarInt(type, t.v), n |-> t.n]
FixedAt(type, buf, offset, bytes) ==
  [v |-> FromFixed(type, ReadFixed(buf, offset, bytes)), n |-> bytes]
ReadScalar(type, buf, offset) ==
  CASE type = "bytes" -> BytesAt(buf, offset, ReadVarInt(buf, offset))
    [] WireType(type) = Fixed64Type -> FixedAt(type, buf, offset, F64)
    [] WireType(type) = Fixed32Type -> FixedAt(type, buf, offset, F32)
    [] OTHER -> VarIntAt(type, ReadVarInt(buf, offset))
=============================================================================
