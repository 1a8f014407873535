-------------------------- MODULE LanguageSemantics --------------------------
(***************************************************************************)
(* What a language adds to the edges the walker finds: the type hierarchy, *)
(* and calls whose receiver is written as the type it is declared with.    *)
(* Names are sequences of segments, <<"lib", "Store">> is lib.Store (or    *)
(* lib::Store); <<>> is no name.  A file comes as what the patterns of the *)
(* code find in its text: the patterns themselves are not modelled.        *)
(***************************************************************************)
EXTENDS Naturals, Integers, Sequences, FiniteSets, SequencesExt, TLC

CONSTANTS MajorVersions   \* segments like v2 at the end of a Go import path

Lookup(map, key) == IF key \in DOMAIN map THEN map[key] ELSE <<>>
\* A map of the keys and values a scan finds one after the other: the last wins.
MapOf(found) == FoldLeft(LAMBDA map, e : (e.key :> e.value) @@ map, <<>>, found)

QualifyTypeName(package, type) == IF Len(type) = 1 THEN package \o type ELSE type

ImplementsAndInherits(line, child, base, traits) ==
    {[kind |-> "inherits", line |-> line, source |-> child, target |-> t] : t \in {base} \ {<<>>}}
    \union {[kind |-> "implements", line |-> line, source |-> child, target |-> t] : t \in Range(traits) \ {<<>>}}

-----------------------------------------------------------------------------
\* Java and Kotlin

PlainImports(imports) == SelectSeq(imports, LAMBDA i : ~i.static /\ ~i.wildcard)

\* Both readers of the imports know a type by the last segment of its path, also
\* where the file gives it another name.
ImportAliasesBySimpleName(imports) ==
    MapOf([i \in DOMAIN PlainImports(imports) |->
              [key |-> <<Last(PlainImports(imports)[i].path)>>, value |-> PlainImports(imports)[i].path]])
CollectJVMImportMetadata(imports) ==
    [imports  |-> ImportAliasesBySimpleName(imports),
     blocked  |-> {<<i.alias>> : i \in {i \in Range(imports) : ~i.static /\ i.alias # ""}},
     wildcard |-> \E i \in Range(imports) : ~i.static /\ i.wildcard]

QualifyImportedTypeName(type, package, aliases) ==
    IF Len(type) = 1 /\ type \in DOMAIN aliases THEN aliases[type] ELSE QualifyTypeName(package, type)

\* Mutant of QualifyJVMReceiverTypeName: a name the imports leave open is taken
\* for one of the package.
QualifyWithoutDoubt(type, package, meta) == QualifyImportedTypeName(type, package, meta.imports)

\* No name when the file's own names or a wildcard leave open what is meant.
QualifyJVMReceiverTypeName(type, package, meta) ==
    IF Len(type) # 1 THEN type
    ELSE IF type \in meta.blocked \/ (type \notin DOMAIN meta.imports /\ meta.wildcard) THEN <<>>
    ELSE QualifyImportedTypeName(type, package, meta.imports)

IsLooseReceiverType(type) ==
    type \in {<<>>, <<"any">>, <<"unknown">>, <<"object">>, <<"Object">>, <<"Any">>}

\* The supertypes of a class, or of a Kotlin object, qualified like a reader of
\* the file would: as imported, or in the package.
JVMAdditionalEdges(file) ==
    LET aliases == ImportAliasesBySimpleName(file.imports)
        Qualified(t) == QualifyImportedTypeName(t, file.package, aliases)
    IN  UNION {ImplementsAndInherits(c.line, QualifyTypeName(file.package, <<c.name>>), Qualified(c.base),
                                     [i \in DOMAIN c.traits |-> Qualified(c.traits[i])]) :
                  c \in Range(file.classes)}
JVMImplementedTypes(file, class) ==
    LET aliases == ImportAliasesBySimpleName(file.imports)
    IN  [i \in DOMAIN class.traits |-> QualifyImportedTypeName(class.traits[i], file.package, aliases)]

-----------------------------------------------------------------------------
\* Calls on a receiver of declared type.  The whole text counts, whatever its
\* scopes: a name has the type its last annotation gives.

\* Java writes the type before the name: in a row of words each second one is
\* taken for a name, up to its first dot.
WordPairs(words) ==
    FoldLeft(LAMBDA r, word :
                IF r.type = <<>> THEN [r EXCEPT !.type = word]
                ELSE [type |-> Tail(word), pairs |-> Append(r.pairs, [name |-> word[1], type |-> r.type])],
             [type |-> <<>>, pairs |-> <<>>], words).pairs

\* How the language of a file reads the name of a type, and of one it declares.
TypeIn(file, type) ==
    IF file.lang = "typescript" THEN type
    ELSE QualifyJVMReceiverTypeName(type, file.package, CollectJVMImportMetadata(file.imports))

OwnerIn(file, type) == IF file.lang = "typescript" THEN type ELSE QualifyTypeName(file.package, type)

\* The names of a file with the types they get.
CollectReceiverBindings(file) ==
    LET annotations == IF file.lang = "java" THEN FlattenSeq([i \in DOMAIN file.words |-> WordPairs(file.words[i])])
                       ELSE file.annotations
        typed == SelectSeq(annotations, LAMBDA a : ~IsLooseReceiverType(TypeIn(file, a.type)))
    IN  MapOf([i \in DOMAIN typed |-> [key |-> typed[i].name, value |-> TypeIn(file, typed[i].type)]])

\* The members of the outermost type a line is in.  The line that opens a type
\* is not looked at for its end: one that opens and ends it leaves the type open
\* for the line below.
ScanLine(file, r, line) ==
    IF r.owner = <<>>
    THEN IF line.opens = "" THEN r
         ELSE [r EXCEPT !.owner = OwnerIn(file, <<line.opens>>), !.depth = line.braces]
    ELSE LET depth == r.depth + line.braces
             taken == IF line.member = <<>> \/ IsLooseReceiverType(TypeIn(file, line.member[2])) THEN <<>>
                      ELSE <<[key |-> <<r.owner, line.member[1]>>, value |-> TypeIn(file, line.member[2])]>>
         IN  [owner |-> IF depth <= 0 THEN <<>> ELSE r.owner, depth |-> IF depth <= 0 THEN 0 ELSE depth,
              found |-> r.found \o taken]

CollectMembersFromText(file) ==
    MapOf(FoldLeft(LAMBDA r, line : ScanLine(file, r, line),
                   [owner |-> <<>>, depth |-> 0, found |-> <<>>], file.lines).found)

\* The names up to the first parenthesis.  A Java call has the receiver as a node
\* of its own, that is a chain only when it has a dot.
ReceiverChain(lang, call) ==
    LET text == SubSeq(call.callee, 1, call.stop)
    IN  IF lang # "java" THEN text
        ELSE LET receiver == SubSeq(call.callee, 1, Min({call.stop, Len(call.callee) - 1}))
             IN  Append(IF Len(receiver) > 1 THEN receiver ELSE <<>>, Last(call.callee))

\* Every hop must have a type of its own.
RewriteChain(chain, bindings, members) ==
    LET Hop(type, name) == Lookup(members, <<type, name>>)
        type == FoldLeft(Hop, Lookup(bindings, chain[1]), SubSeq(chain, 2, Len(chain) - 1))
    IN  IF type = <<>> THEN <<>> ELSE Append(type, Last(chain))

RewriteTypedCall(file, call) ==
    LET chain == ReceiverChain(file.lang, call)
        typed == IF Len(chain) < 2 THEN <<>>
                 ELSE RewriteChain(chain, CollectReceiverBindings(file), CollectMembersFromText(file))
    IN  IF typed = <<>> THEN call.callee ELSE typed

-----------------------------------------------------------------------------
\* TypeScript, JavaScript and Python hierarchies

\* The names of import {...} from a path that has a package.
TypeScriptImportPackages(imports, packages) ==
    LET known == SelectSeq(imports, LAMBDA i : i.from \in DOMAIN packages)
        Local(i) == <<IF i.alias # "" THEN i.alias ELSE i.name>>
    IN  MapOf([k \in DOMAIN known |-> [key |-> Local(known[k]), value |-> packages[known[k].from]]])

QualifyTypeScriptHeritageTypeName(file, type, imports) ==
    IF Lookup(imports, type) # <<>> THEN QualifyTypeName(imports[type], type)
    ELSE IF \E n \in file.nodes : n.kind \in {"class", "type"} /\ <<n.name>> = type
    THEN QualifyTypeName(file.package, type)
    ELSE type

TypeScriptAdditionalEdges(file, packages) ==
    LET imports == TypeScriptImportPackages(file.named, packages)
        Qualified(t) == QualifyTypeScriptHeritageTypeName(file, t, imports)
    IN  UNION {ImplementsAndInherits(c.line, QualifyTypeName(file.package, <<c.name>>), Qualified(c.base),
                                     [i \in DOMAIN c.traits |-> Qualified(c.traits[i])]) :
                  c \in Range(file.classes)}

JavaScriptAdditionalEdges(file) ==
    UNION {ImplementsAndInherits(c.line, <<c.name>>, c.base, <<>>) : c \in Range(file.classes)}
PythonAdditionalEdges(file) ==
    UNION {UNION {ImplementsAndInherits(c.line, <<c.name>>, p, <<>>) : p \in Range(c.parents)} :
              c \in Range(file.classes)}

-----------------------------------------------------------------------------
\* Go

DefaultGoImportName(path) ==
    IF Last(path) \in MajorVersions THEN IF Len(path) = 1 THEN "." ELSE path[Len(path) - 1] ELSE Last(path)

\* The name an import has in the file, and the package it leads to.
GoImportAliases(imports, packages) ==
    LET Package(i) == IF i.path \in DOMAIN packages THEN packages[i.path] ELSE DefaultGoImportName(i.path)
        Local(i) == IF i.alias # "" THEN i.alias ELSE Package(i)
        named == SelectSeq(imports, LAMBDA i : Package(i) # "." /\ Local(i) \notin {"_", "."})
    IN  MapOf([i \in DOMAIN named |-> [key |-> Local(named[i]), value |-> Package(named[i])]])

NormalizeGoTypeName(type, aliases) ==
    IF Len(type) > 2 THEN <<>>
    ELSE IF Len(type) = 2 /\ type[1] \in DOMAIN aliases THEN <<aliases[type[1]], type[2]>>
    ELSE type

\* x := v.(T) and its like: the name at the place of the assertion is a T from
\* this line on, in whatever function.
CollectGoAssertionCallBindings(assertions, aliases) ==
    LET Bound(a) == a.at \in DOMAIN a.names /\ a.names[a.at] # "_" /\ NormalizeGoTypeName(a.type, aliases) # <<>>
        bound == SelectSeq(assertions, Bound)
    IN  [i \in DOMAIN bound |-> [name |-> bound[i].names[bound[i].at], line |-> bound[i].line,
                                 type |-> NormalizeGoTypeName(bound[i].type, aliases)]]

GoRewriteCall(bindings, call) ==
    LET above == {i \in DOMAIN bindings : bindings[i].name = call.callee[1] /\ bindings[i].line <= call.line}
        best == CHOOSE i \in above : \A j \in above :
                    bindings[j].line < bindings[i].line \/ (bindings[j].line = bindings[i].line /\ i <= j)
    IN  IF Len(call.callee) < 2 \/ above = {} THEN call.callee ELSE bindings[best].type \o Tail(call.callee)

\* var _ Interface = (*Type)(nil)
GoAssertionImplements(specs, aliases) ==
    {[kind |-> "implements", line |-> s.line, source |-> NormalizeGoTypeName(s.concrete, aliases),
      target |-> NormalizeGoTypeName(s.type, aliases)] :
        s \in {s \in Range(specs) : /\ s.name = "_" /\ s.concrete # <<>>
                                    /\ NormalizeGoTypeName(s.type, aliases) # <<>>
                                    /\ NormalizeGoTypeName(s.concrete, aliases) # <<>>}}

\* Of an interface the methods it spells out, of a struct its embedded types.
GoEnrichDefinition(def) ==
    [interfaces |-> IF def.type = "interface" /\ def.methods # {}
                    THEN {[name |-> def.name, methods |-> def.methods]} ELSE {},
     edges |-> IF def.type # "class" THEN {}
               ELSE UNION {ImplementsAndInherits(f.line, <<def.name>>, f.type, <<>>) :
                              f \in {f \in def.fields : ~f.named /\ Len(f.type) = 1}}]

-----------------------------------------------------------------------------
\* Rust

\* A use tree is a path that ends in a name, in a star or in braces; Rust's own
\* name for the path before the braces is self.
RECURSIVE RustExpandUse(_, _)
RustExpandUse(prefix, tree) ==
    IF tree.group = <<>> THEN <<[path |-> prefix \o tree.path, alias |-> tree.alias]>>
    ELSE LET inside == prefix \o tree.path
             Expanded(t) == IF t.path = <<"self">> /\ t.alias = "" /\ t.group = <<>>
                            THEN (IF inside = <<>> THEN <<>> ELSE <<[path |-> inside, alias |-> ""]>>)
                            ELSE RustExpandUse(inside, t)
         IN  FlattenSeq([i \in DOMAIN tree.group |-> Expanded(tree.group[i])])

RustImportAliases(uses) ==
    LET entries == FlattenSeq([i \in DOMAIN uses |-> RustExpandUse(<<>>, uses[i])])
        named == SelectSeq(entries, LAMBDA e : Last(e.path) # "*")
    IN  MapOf([i \in DOMAIN named |->
                  [key |-> <<IF named[i].alias # "" THEN named[i].alias ELSE Last(named[i].path)>>,
                   value |-> named[i].path]])

RustQualifyImportedTypeName(type, aliases) ==
    IF Len(type) = 1 /\ Lookup(aliases, type) # <<>> THEN aliases[type] ELSE type

\* Trait::method, also of <Type as Trait>::method: the trait gets its full path,
\* the type stays as it is written.
RustRewriteCall(aliases, call) ==
    IF Len(call.callee) < 2 THEN call
    ELSE [call EXCEPT !.callee = RustQualifyImportedTypeName(Front(@), aliases) \o <<Last(@)>>]

RustImplementedTypes(uses, trait, captured) ==
    IF trait = <<>> THEN captured ELSE <<RustQualifyImportedTypeName(trait, RustImportAliases(uses))>>

-----------------------------------------------------------------------------
\* The hooks of the languages

AdditionalEdges(file, packages) ==
    CASE file.lang \in {"java", "kotlin"} -> JVMAdditionalEdges(file)
      [] file.lang = "typescript" -> TypeScriptAdditionalEdges(file, packages)
      [] file.lang = "javascript" -> JavaScriptAdditionalEdges(file)
      [] file.lang = "python" -> PythonAdditionalEdges(file)
      [] file.lang = "go" -> GoAssertionImplements(file.specs, GoImportAliases(file.imports, packages))
      [] OTHER -> {}

RewriteCall(file, packages, call) ==
    CASE file.lang \in {"java", "kotlin", "typescript"} -> [call EXCEPT !.callee = RewriteTypedCall(file, call)]
      [] file.lang = "go" ->
           [call EXCEPT !.callee =
               GoRewriteCall(CollectGoAssertionCallBindings(file.assertions,
                                                            GoImportAliases(file.imports, packages)), call)]
      [] file.lang = "rust" -> RustRewriteCall(RustImportAliases(file.uses), call)
      [] OTHER -> call
=============================================================================
