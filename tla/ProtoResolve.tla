---------------------------- MODULE ProtoResolve ----------------------------
(***************************************************************************)
(* gremlinc after parsing (shared/gremlin_go/gremlinc/internal imports.go, *)
(* resolving.go, types/scopes.go and the generator's mapper): files, in    *)
(* the order of the directory walk, get their imports, then the public     *)
(* imports of those, then their extensions are filled in, references are   *)
(* bound and options of enum values read, each phase over all files before *)
(* the next, and at last the Go import aliases are chosen.                 *)
(*                                                                         *)
(* A name is the sequence of its parts and equality of names that of the   *)
(* sequences.  An extension of another package's message has the whole     *)
(* name of that message as its last part, as in the code.  Scalar fields   *)
(* need no resolving and are left out; enums are types as messages are,    *)
(* looked up before them.  The alias of a Go package is the pair of its    *)
(* short name and its number, so that a package whose short name itself    *)
(* ends in a number is left out.                                           *)
(***************************************************************************)
EXTENDS Naturals, Sequences, FiniteSets, SequencesExt, FiniteSetsExt

CONSTANTS
  None,
  Projects    \* a project is the sequence of its files, in the order of the walk

\* What the parser leaves of a file.
Names == Seq(STRING)
Referents == [file : Nat, name : Names, enum : BOOLEAN, extends : Names \cup {None}]
FieldTypes == [type : Names, extra : Seq(Names), ref : Referents \cup {None}]
MessageTypes == [name : Names, extends : Names \cup {None}, options : SUBSET STRING, fields : Seq(FieldTypes)]
EnumTypes == [name : Names, options : SUBSET STRING]
ImportPaths == [path : Names, public : BOOLEAN]
GoPackages == [path : Seq(Names), short : STRING]
Files == [dir : Names, name : STRING, pkg : Names, go : GoPackages,
          imports : Seq(ImportPaths), enums : Seq(EnumTypes), messages : Seq(MessageTypes)]

ASSUME ProjectsAssumption ==
  None \notin Nat /\ \A p \in Projects : p \in Seq(Files) /\ p # <<>>

VARIABLES
  files,      \* the project as parsed
  phase, at,  \* the phase and the file it is at
  imports,    \* per file: the resolved imports
  messages,   \* per file: its messages with their fields
  errors,     \* per phase: the files with an error
  aliases     \* per file: the imports of its Go file, [path, alias]

vars == <<files, phase, at, imports, messages, errors, aliases>>

\* Mutant: references are bound before the extensions are filled in.
PhasesSwapped == <<"imports", "public", "references", "extensions", "options", "aliases", "done", "panic">>
Phases == <<"imports", "public", "extensions", "references", "options", "aliases", "done", "panic">>
Done == 7
Panic == 8

-----------------------------------------------------------------------------
\* The names a type is looked up by: in the scope given, then in each scope around it.
Scoped(type, scope) == [k \in 1..(Len(scope) + 1) |-> SubSeq(scope, 1, Len(scope) + 1 - k) \o type]

\* The first of the results of a search that is one.
FirstFound(v) ==
  LET found == {k \in DOMAIN v : v[k] # None} IN IF found = {} THEN None ELSE v[Min(found)]

\* The first of a set of positions.
First(ps) == IF ps = {} THEN None ELSE Min(ps)

\* The elements at a set of positions, in their order.
Picked(s, ps) ==
  LET P[n \in 0..Len(s)] ==
        IF n = 0 THEN <<>> ELSE IF n \in ps THEN Append(P[n - 1], s[n]) ELSE P[n - 1]
  IN P[Len(s)]

-----------------------------------------------------------------------------
\* resolveBaseFolders: the root is where the folders of the files part; a file's imports
\* are relative to its folder below the root, or to the root when the files are there.
Root == LET dirs == {files[f].dir : f \in DOMAIN files}
            common == {n \in 0..Max({Len(d) : d \in dirs}) :
                         \A d, e \in dirs : Len(d) >= n /\ SubSeq(d, 1, n) = SubSeq(e, 1, n)}
        IN SubSeq(files[1].dir, 1, Max(common))
BaseFolder(f) == IF files[f].dir = Root THEN Root ELSE SubSeq(files[f].dir, 1, Len(Root) + 1)
\* Files both at the root and below it are refused.
Ambiguous == /\ \E f \in DOMAIN files : files[f].dir = Root
             /\ \E f \in DOMAIN files : files[f].dir # Root

\* The file at a path, None when there is none.
Target(f, path) ==
  LET p == BaseFolder(f) \o path
  IN First({g \in DOMAIN files : Append(files[g].dir, files[g].name) = p})

Init ==
  /\ files \in Projects
  /\ ~Ambiguous
  /\ phase = 1 /\ at = 1
  /\ imports = [f \in DOMAIN files |->
                  [k \in DOMAIN files[f].imports |->
                     [target |-> None, public |-> files[f].imports[k].public]]]
  /\ messages = [f \in DOMAIN files |-> files[f].messages]
  /\ errors = [p \in 1..Len(Phases) |-> {}]
  /\ aliases = [f \in DOMAIN files |-> <<>>]

\* Each phase is a loop over the files; main stops after the references when there were
\* errors.
Advance ==
  IF at < Len(files) THEN phase' = phase /\ at' = at + 1
  ELSE /\ at' = 1
       /\ phase' = IF Phases[phase] = "options" /\ \E p \in DOMAIN errors : errors[p] # {}
                   THEN Done ELSE phase + 1

At(p) == Phases[phase] = p
Failed(bad) == errors' = IF bad THEN [errors EXCEPT ![phase] = @ \cup {at}] ELSE errors

ResolveImports ==
  /\ At("imports")
  /\ imports' = [imports EXCEPT ![at] =
                   [k \in DOMAIN @ |-> [@[k] EXCEPT !.target = Target(at, files[at].imports[k].path)]]]
  /\ Failed(\E k \in DOMAIN imports'[at] : imports'[at][k].target = None)
  /\ Advance /\ UNCHANGED <<files, messages, aliases>>

\* Mutant: only the first public import of a file is passed on.
PublicImportsFirst(imps) ==
  LET ps == {k \in DOMAIN imps : imps[k].public} IN IF ps = {} THEN <<>> ELSE <<imps[Min(ps)]>>
PublicImports(imps) == Picked(imps, {k \in DOMAIN imps : imps[k].public})

\* The imports of a file once its own have been followed: the public imports that the
\* imported file has by now are added, for a file that imports itself those added so far too.
Followed(f, imps) ==
  LET own == imps[f]
      F[n \in 0..Len(own)] ==
        IF n = 0 THEN own
        ELSE IF own[n].target = None THEN F[n - 1]
        ELSE F[n - 1] \o PublicImports(IF own[n].target = f THEN F[n - 1] ELSE imps[own[n].target])
  IN F[Len(own)]

AddPublicImports ==
  /\ At("public")
  /\ imports' = [imports EXCEPT ![at] = Followed(at, imports)]
  /\ Advance /\ UNCHANGED <<files, messages, errors, aliases>>

-----------------------------------------------------------------------------
\* The message that an extension extends: one that is no extension itself.
Plain(f, name) ==
  LET k == First({j \in DOMAIN messages[f] : messages[f][j].name = name /\ messages[f][j].extends = None})
  IN IF k = None THEN None ELSE messages[f][k]
PlainIn(f, names) == FirstFound([k \in DOMAIN names |-> Plain(f, names[k])])

LocalExtendSource(f, m) == PlainIn(f, Scoped(m.extends, m.name))

\* The searches of the files that a file imports, in the order of the imports.
\* Mutant: only the package of the imported file is searched, not what is around it.
ImportedExtendSourceInner(f, m) ==
  FirstFound([i \in DOMAIN imports[f] |->
    IF imports[f][i].target = None THEN None
    ELSE Plain(imports[f][i].target, files[imports[f][i].target].pkg \o m.extends)])
ImportedExtendSource(f, m) ==
  FirstFound([i \in DOMAIN imports[f] |->
    IF imports[f][i].target = None THEN None
    ELSE PlainIn(imports[f][i].target, Scoped(m.extends, files[imports[f][i].target].pkg))])

ExtendSource(f, m) ==
  IF LocalExtendSource(f, m) # None THEN LocalExtendSource(f, m) ELSE ImportedExtendSource(f, m)

\* The message with copies of the fields of its source, which remember the source's name.
Extended(f, m) ==
  IF m.extends = None \/ ExtendSource(f, m) = None THEN m
  ELSE LET src == ExtendSource(f, m)
       IN [m EXCEPT !.fields = @ \o [k \in DOMAIN src.fields |->
                                       [src.fields[k] EXCEPT !.extra = Append(@, src.name)]]]

\* A message of the file is dropped for an extension that has its name.
Overridden(f, m) ==
  /\ m.extends = None
  /\ \E k \in DOMAIN messages[f] :
       LET e == messages[f][k]
       IN e.extends # None /\ e.name = m.name /\ LocalExtendSource(f, e) = m

ResolveExtensions ==
  /\ At("extensions")
  /\ messages' = [messages EXCEPT ![at] =
       LET kept == Picked(@, {k \in DOMAIN @ : ~Overridden(at, @[k])})
       IN [k \in DOMAIN kept |-> Extended(at, kept[k])]]
  /\ Failed(\E k \in DOMAIN messages[at] :
              LET m == messages[at][k]
              IN m.extends # None /\ ExtendSource(at, m) = None /\ m.extends[1] # "google")
  /\ Advance /\ UNCHANGED <<files, imports, aliases>>

-----------------------------------------------------------------------------
\* The enum, or else the message, of a name in a file.
Named(f, name) ==
  IF \E k \in DOMAIN files[f].enums : files[f].enums[k].name = name
  THEN [file |-> f, name |-> name, enum |-> TRUE, extends |-> None]
  ELSE LET k == First({j \in DOMAIN messages[f] : messages[f][j].name = name})
       IN IF k = None THEN None
          ELSE [file |-> f, name |-> name, enum |-> FALSE, extends |-> messages[f][k].extends]
NamedIn(f, names) == FirstFound([k \in DOMAIN names |-> Named(f, names[k])])

\* The names by which the type of a field is looked up.
TypeNames(field) == <<field.type>> \o field.extra

LocalReference(f, m, field) ==
  FirstFound([k \in DOMAIN TypeNames(field) |-> NamedIn(f, Scoped(TypeNames(field)[k], m.name))])
ImportedReference(f, field) ==
  FirstFound([k \in DOMAIN TypeNames(field) |->
    FirstFound([i \in DOMAIN imports[f] |->
      IF imports[f][i].target = None THEN None
      ELSE NamedIn(imports[f][i].target,
                   Scoped(TypeNames(field)[k], files[imports[f][i].target].pkg))])])
Reference(f, m, field) ==
  IF LocalReference(f, m, field) # None THEN LocalReference(f, m, field)
  ELSE ImportedReference(f, field)

\* A message with the references of its fields.
Bind(f, m) ==
  [m EXCEPT !.fields = [j \in DOMAIN m.fields |->
                          [m.fields[j] EXCEPT !.ref = Reference(f, m, m.fields[j])]]]

ResolveReferences ==
  /\ At("references")
  /\ messages' = [messages EXCEPT ![at] = [k \in DOMAIN @ |-> Bind(at, @[k])]]
  /\ Failed(\E k \in DOMAIN messages'[at] : \E j \in DOMAIN messages'[at][k].fields :
              messages'[at][k].fields[j].ref = None)
  /\ Advance /\ UNCHANGED <<files, imports, aliases>>

\* resolveOptions: an option of an enum value must be a field by which this file extends
\* EnumValueOptions.  For an unknown one an error is noted that is never returned, and the
\* field, nil, is used.
OptionsOf(f) ==
  UNION {files[f].messages[k].options : k \in {k \in DOMAIN files[f].messages :
           Last(files[f].messages[k].name) = "google.protobuf.EnumValueOptions"}}
ResolveOptions ==
  /\ At("options")
  /\ IF \E k \in DOMAIN files[at].enums : ~(files[at].enums[k].options \subseteq OptionsOf(at))
     THEN phase' = Panic /\ at' = at
     ELSE Advance
  /\ UNCHANGED <<files, imports, messages, errors, aliases>>

-----------------------------------------------------------------------------
\* AddProtoImport and AddImport: a package is imported once, under its short name or, when
\* that is taken, under the name and the number of imports that have it.
Added(gos, go) ==
  IF \E k \in DOMAIN gos : gos[k].path = go.path THEN gos
  ELSE LET used == Cardinality({k \in DOMAIN gos : gos[k].alias = <<go.short, 0>>})
       IN Append(gos, [path |-> go.path, alias |-> <<go.short, used>>])

Library == [path |-> <<<<"gremlin_go">>>>, short |-> "gremlin"]

\* mapImports for one file: an import of the file's own package needs no Go import.
Aliased(f, imps, fs) ==
  LET go(n) == fs[imps[n].target].go
      A[n \in 0..Len(imps)] ==
        IF n = 0 THEN <<>>
        ELSE IF go(n).path = fs[f].go.path THEN A[n - 1] ELSE Added(A[n - 1], go(n))
  IN A[Len(imps)]

\* mapImports, and the library's import of GenerateCode.
MapImports ==
  /\ At("aliases")
  /\ LET gos == Aliased(at, imports[at], files)
     IN aliases' = [aliases EXCEPT ![at] =
                      IF messages[at] # <<>> THEN Added(gos, Library) ELSE gos]
  /\ Advance /\ UNCHANGED <<files, imports, messages, errors>>

Next == \/ ResolveImports \/ AddPublicImports \/ ResolveExtensions \/ ResolveReferences
        \/ ResolveOptions \/ MapImports

Spec == Init /\ [][Next]_vars

-----------------------------------------------------------------------------
\* The references of a file's fields, with what they were bound to.
Bound(f) == UNION {{messages[f][k].fields[j] : j \in DOMAIN messages[f][k].fields} :
                   k \in DOMAIN messages[f]}

\* When code is generated every reference is bound to an enum or message that its file
\* still has: a struct dropped for an extension would leave the generator without a type.
NoDangling ==
  phase = Done /\ (\A p \in DOMAIN errors : errors[p] = {}) =>
    \A f \in DOMAIN files : \A x \in Bound(f) :
      \/ x.ref.enum
      \/ \E k \in DOMAIN messages[x.ref.file] :
           LET m == messages[x.ref.file][k] IN m.name = x.ref.name /\ m.extends = x.ref.extends

\* What the .proto files say is visible from a file: its imports and, from there, whatever
\* is reached through public imports.
Imported(f, public) ==
  {g \in DOMAIN files : \E k \in DOMAIN files[f].imports :
     /\ Target(f, files[f].imports[k].path) = g
     /\ public => files[f].imports[k].public}
\* The smallest set that contains s and the imports of its files.
Reached(s, public) ==
  {g \in DOMAIN files : \A r \in SUBSET DOMAIN files :
     s \subseteq r /\ (\A h \in r : Imported(h, public) \subseteq r) => g \in r}
Visible(f) == Reached(Imported(f, FALSE), TRUE)

\* A reference leads only into the file itself, its imports, and what some file that it
\* depends on imports publicly.  (Not only into what is visible: a public import of a plain
\* import is passed on as if it were the importing file's own public import.)
VisibleOnly ==
  phase = Done => \A f \in DOMAIN files :
    LET direct == Imported(f, FALSE)
        allowed == {f} \cup direct \cup UNION {Imported(g, TRUE) : g \in Reached(direct, FALSE)}
    IN \A x \in Bound(f) : x.ref # None => x.ref.file \in allowed

\* When every import leads to a file that the walk meets earlier, a file has all imports
\* that are visible to it.  (In another order chains of more than one public import are cut.)
PublicReach ==
  phase = Done /\ (\A f \in DOMAIN files : \A g \in Imported(f, FALSE) : g < f) =>
    \A f \in DOMAIN files : Visible(f) \subseteq {imports[f][k].target : k \in DOMAIN imports[f]}

\* What an extension may mean to a search that goes through the imports in their order and
\* through the scopes of each: the messages whose name ends with the name it extends.
Candidates(f, m) ==
  {c \in UNION {Range(files[imports[f][k].target].messages) :
                  k \in {k \in DOMAIN imports[f] : imports[f][k].target # None}} :
     c.extends = None /\ IsSuffix(m.extends, c.name)}
FieldsOf(m) == [k \in DOMAIN m.fields |-> m.fields[k].type]

\* An extension of a message that a direct import declares, and that no extension there
\* has taken the place of, ends with all fields, in their order, of one message that has that
\* name or a name that ends with it; hence of the message meant, unless an import holds
\* another such name, which may hide it (x.a.Src hides a.Src).
ExtensionComplete ==
  phase = Done =>
    \A f \in DOMAIN files : \A k \in DOMAIN messages[f] :
      LET m == messages[f][k]
      IN /\ m.extends # None /\ LocalExtendSource(f, m) = None
         /\ \E g \in Imported(f, FALSE) : Plain(g, m.extends) # None
         => \E c \in Candidates(f, m) : IsSuffix(FieldsOf(c), FieldsOf(m))

\* No two packages that a file imports have the same alias, as long as at most two of them
\* have the same short name.
AliasesUnique ==
  \A f \in DOMAIN files :
    LET gos == aliases[f]
        namesakes(k) == {j \in DOMAIN gos : gos[j].alias[1] = gos[k].alias[1]}
    IN (\A k \in DOMAIN gos : Cardinality(namesakes(k)) <= 2) =>
         \A j, k \in DOMAIN gos : gos[j].alias = gos[k].alias => j = k

\* In the generated code every reference leads to one Go type: to one that its file still
\* has, under an alias of its own.
ReferencesLead == NoDangling /\ AliasesUnique

\* References stay within what was imported, and public imports are followed.
ImportsFollowed == VisibleOnly /\ PublicReach
=============================================================================
