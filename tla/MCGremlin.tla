----------------------------- MODULE MCGremlin -----------------------------
(***************************************************************************)
(* gremlin for TLC: a behaviour either resolves a project of .proto files  *)
(* (ProtoResolve, the compiler) or marshals and reads one message          *)
(* (GremlinCodec, the code the compiler generates and the runtime under    *)
(* it).  The two share no state.                                           *)
(***************************************************************************)
EXTENDS MCProtoResolve, MCGremlinCodec

VARIABLES
  part,                                           \* resolve or codec
  schema, msg, known, reversed, pc, capacity, buf, offset, offsets, data, out
                                                  \* see GremlinCodec

Codec == INSTANCE GremlinCodec

codecVars == <<schema, msg, known, reversed, pc, capacity, buf, offset, offsets, data, out>>
gremlinVars == <<part, vars, codecVars>>

ResolverIdle ==
  /\ files = <<>> /\ phase = 0 /\ at = 0 /\ imports = <<>> /\ messages = <<>>
  /\ errors = <<>> /\ aliases = <<>>
CodecIdle ==
  /\ schema = <<>> /\ msg = <<>> /\ known = {} /\ reversed = FALSE /\ pc = "idle" /\ capacity = 0
  /\ buf = <<>> /\ offset = 0 /\ offsets = <<>> /\ data = <<>> /\ out = Nil

GremlinInit ==
  \/ part = "resolve" /\ Init /\ CodecIdle
  \/ part = "codec" /\ Codec!Init /\ ResolverIdle

GremlinNext ==
  \/ part = "resolve" /\ Next /\ UNCHANGED <<part, codecVars>>
  \/ part = "codec" /\ Codec!Next /\ UNCHANGED <<part, vars>>

GremlinSpec == GremlinInit /\ [][GremlinNext]_gremlinVars

-----------------------------------------------------------------------------
\* The size computed before writing is exact, see GremlinCodec.
SizeExact == part = "codec" => Codec!SizeExact
\* Getters return what was marshalled, see GremlinCodec.
RoundTrip == part = "codec" => Codec!OffsetsNoted /\ Codec!RoundTrip
\* Marshalling again, in another order of maps, keeps the content, see GremlinCodec.
Stable == part = "codec" => Codec!Stable
=============================================================================
