-------------------------- MODULE MCProtoResolve --------------------------
(***************************************************************************)
(* Projects of three or four small .proto files for ProtoResolve: every    *)
(* graph of imports between three files, public or not, with packages      *)
(* around each other; extensions of local and of imported messages, with   *)
(* nested types; folders; options of enum values.                          *)
(***************************************************************************)
EXTENDS ProtoResolve

Field(type) == [type |-> type, extra |-> <<>>, ref |-> None]
Message(name, types) == [name |-> name, extends |-> None, options |-> {},
                         fields |-> [k \in DOMAIN types |-> Field(types[k])]]
Extension(name, of, types) == [Message(name, types) EXCEPT !.extends = of]
Enum(name, options) == [name |-> name, options |-> options]
File(dir, name, pkg, imps, enums, msgs) ==
  [dir |-> dir, name |-> name, pkg |-> pkg, imports |-> imps, enums |-> enums, messages |-> msgs,
   go |-> [path |-> <<dir, pkg>>, short |-> IF pkg = <<>> THEN "r" ELSE pkg[Len(pkg)]]]
Import(path, public) == [path |-> path, public |-> public]

FileNames == <<"f1", "f2", "f3", "f4">>
Kinds == {"none", "plain", "public"}
\* The imports of file f: the others in order, those of kind none left out.
ImportsOf(kinds, f) ==
  LET all == [g \in DOMAIN kinds |-> [to |-> g, kind |-> kinds[f][g]]]
      some == SelectSeq(all, LAMBDA i : i.kind # "none")
  IN [k \in DOMAIN some |-> Import(<<FileNames[some[k].to]>>, some[k].kind = "public")]

\* Every import graph of three files.  Each file declares a message and refers to one.
Graphs ==
  {[f \in 1..3 |-> File(<<"r">>, FileNames[f], pkgs[f], ImportsOf(kinds, f), <<>>,
                        <<Message(Append(pkgs[f], "R"), <<ref>>), Message(Append(pkgs[f], own[f]), <<>>)>>)] :
     pkgs \in {<<<<"a">>, <<"a", "b">>, <<"c">>>>, <<<<"a">>, <<"a">>, <<"b">>>>, <<<<>>, <<"b">>, <<"a">>>>},
     own \in {<<"M", "M", "M">>, <<"L", "M", "N">>},
     ref \in {<<"M">>, <<"b", "M">>},
     kinds \in {k \in [1..3 -> [1..3 -> Kinds]] : \A f \in 1..3 : k[f][f] = "none"}}

\* Every graph of four files in which imports lead to files earlier in the walk.
Chains ==
  {[f \in 1..4 |-> File(<<"r">>, FileNames[f], <<"a">>, ImportsOf([h \in 1..4 |-> [g \in 1..4 |->
                           IF g < h THEN kinds[<<h, g>>] ELSE "none"]], f), <<>>,
                        <<Message(<<"a", FileNames[f]>>, <<<<"f1">>>>)>>)] :
     kinds \in [{e \in (1..4) \X (1..4) : e[2] < e[1]} -> Kinds]}

\* Every graph of two files that may import themselves.
Loops ==
  {[f \in 1..2 |-> File(<<"r">>, FileNames[f], <<"a">>, ImportsOf(kinds, f), <<>>,
                        <<Message(<<"a", FileNames[f]>>, <<<<"f1">>>>)>>)] :
     kinds \in [1..2 -> [1..2 -> Kinds]]}

\* Src of package a, whose field is of a type declared in it, beside it or as an enum, with
\* or without an extension of its own.
Sources(imps) ==
  LET Src == Message(<<"a", "Src">>, <<<<"N">>>>)
      ext == Extension(<<"a", "Src">>, <<"Src">>, <<<<"T">>>>)
      T == Message(<<"a", "T">>, <<>>)
      inner == Message(<<"a", "Src", "N">>, <<>>)
      outer == Message(<<"a", "N">>, <<>>)
  IN {File(<<"r">>, "f1", <<"a">>, imps, e, m) :
        e \in {<<>>}, m \in {<<Src, inner, T>>, <<Src, outer, T>>, <<Src, ext, inner, T>>, <<ext, Src, outer, T>>}}
     \cup {File(<<"r">>, "f1", <<"a">>, imps, <<Enum(<<"a", "Src", "N">>, {})>>, <<Src, T>>)}
\* A file that extends Src under its whole name or by the scope, and one that uses both.
Extending(imps) ==
  {File(<<"r">>, "f2", <<"b">>, imps, <<>>, <<Extension(<<"b", "a.Src">>, <<"a", "Src">>, own)>>) :
     own \in {<<>>, <<<<"a", "T">>>>}}
  \cup {File(<<"r">>, "f2", <<"a", "c">>, imps, <<>>, <<Extension(<<"a", "c", "Src">>, <<"Src">>, <<>>)>>)}
  \cup {File(<<"r">>, "f2", <<>>, imps, <<>>, <<Extension(<<"a", "Src">>, <<"a", "Src">>, <<>>)>>)}
Using(public) ==
  {File(<<"r">>, "f3", p, <<Import(<<"f2">>, public), Import(<<"f1">>, FALSE)>>, <<>>,
        <<Message(Append(p, "R"), <<<<"a", "Src">>>>)>>) : p \in {<<"d">>, <<"a">>}}
Extensions ==
  UNION {{<<x, y, z>>, <<y, x, z>>, <<z, y, x>>, <<z, x, y>>} :
           x \in Sources(<<>>), y \in Extending(<<Import(<<"f1">>, TRUE)>>), z \in Using(FALSE)}

\* A file whose package holds a message that hides a.Src from who imports it first.
Hiding == File(<<"r">>, "f3", <<"x">>, <<>>, <<>>,
               <<Message(<<"x", "a">>, <<>>), Message(<<"x", "a", "Src">>, <<<<"T">>>>),
                 Message(<<"x", "T">>, <<>>)>>)
Hidden ==
  UNION {{<<x, Hiding, y>>, <<y, x, Hiding>>} : x \in Sources(<<>>),
           y \in UNION {Extending(<<Import(<<i[1]>>, FALSE), Import(<<i[2]>>, FALSE)>>) :
                         i \in {<<"f1", "f3">>, <<"f3", "f1">>}}}

\* Packages of the same name in different folders, and an import out of the folder.
Folders ==
  {<<File(<<"r", "p", "x">>, "f1", <<b1>>, <<>>, <<>>, <<Message(<<b1, "M">>, <<>>)>>),
     File(<<"r", "p", "y">>, "f2", <<b2>>, <<>>, <<>>, <<Message(<<b2, "N">>, <<>>)>>),
     File(<<"r", "p">>, "f3", <<b3>>, <<Import(<<"x", "f1">>, FALSE), Import(<<"y", "f2">>, FALSE)>>,
          <<>>, <<Message(<<b3, "R">>, <<<<b1, "M">>, <<b2, "N">>>>)>>),
     File(<<"r", "q">>, "f4", <<"e">>, away, <<>>, <<>>)>> :
     b1, b2 \in {"b", "gremlin", "c"}, b3 \in {"b", "e"},
     away \in {<<>>, <<Import(<<"x", "f1">>, TRUE)>>}}

\* Enum values with options that the file declares, another file declares, or nobody.
Options ==
  LET ext(p) == [Extension(Append(p, "google.protobuf.EnumValueOptions"),
                           <<"google", "protobuf", "EnumValueOptions">>, <<>>) EXCEPT !.options = {"label"}]
  IN {<<File(<<"r">>, "f1", <<"a">>, <<>>, <<Enum(<<"a", "E">>, o)>>, <<ext(<<"a">>)>>),
        File(<<"r">>, "f2", <<"b">>, <<Import(<<"f1">>, FALSE)>>, <<Enum(<<"b", "E">>, p)>>, <<>>)>> :
        o \in {{}, {"label"}}, p \in {{}, {"label"}}}

AllProjects == Graphs \cup Chains \cup Loops \cup Extensions \cup Hidden \cup Folders \cup Options
=============================================================================
