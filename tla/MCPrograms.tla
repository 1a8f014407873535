----------------------------- MODULE MCPrograms -----------------------------
(* Small programs for the language semantics: two classes and a method with   *)
(* parameters in Java, Kotlin or TypeScript, and short Go and Rust files.     *)
EXTENDS MCSources

Lang == INSTANCE LanguageSemantics WITH MajorVersions <- {"v2"}

\* What the repository's packages are called: of a Go and a TypeScript import.
PackagesOfImports == (<<"m", "store">> :> "db") @@ (<<"lib", "store">> :> <<"lib", "store">>)

Import(path, alias, static, wildcard) ==
    [path |-> path, alias |-> alias, static |-> static, wildcard |-> wildcard]
ImportChoices ==
    {<<>>, <<Import(<<"lib", "Store">>, "", FALSE, FALSE)>>, <<Import(<<"lib", "Other">>, "Store", FALSE, FALSE)>>,
     <<Import(<<"lib", "Store">>, "Disk", FALSE, FALSE)>>, <<Import(<<"lib">>, "", FALSE, TRUE)>>, <<Import(<<"lib", "Store", "of">>, "", TRUE, FALSE)>>}

Line(opens, member, braces) == [opens |-> opens, member |-> member, braces |-> braces]
\* A class that ends where it starts, or none, and a line between or none; then
\* Deps, whose store has type t, and App, that implements t and has a method with
\* a parameter deps and one of the name other.
TypedProgram(lang, imports, t, empty, gap, other, type, after) ==
    [lang |-> lang, package |-> <<"app">>, imports |-> imports,
     annotations |-> <<[name |-> "store", type |-> t], [name |-> "deps", type |-> <<"Deps">>],
                       [name |-> other, type |-> type]>>,
     words |-> <<<<<<"class">>, <<"Deps">>>>, <<t, <<"store">>>>, <<<<"class">>, <<"App">>>>,
                 <<<<"Deps">>, <<"deps">>>>, <<type, <<other>>>>>>
               \o (IF after THEN <<<<<<"return">>, <<other, "get">>>>>> ELSE <<>>),
     lines |-> (IF empty THEN <<Line("Empty", <<>>, 0)>> ELSE <<>>)
               \o (IF gap THEN <<Line("", <<>>, 0)>> ELSE <<>>)
               \o <<Line("Deps", <<>>, 1), Line("", <<"store", t>>, 0), Line("", <<>>, -1),
                    Line("App", <<>>, 1), Line("", <<>>, 1), Line("", <<>>, -1), Line("", <<>>, -1)>>,
     classes |-> <<[name |-> "App", line |-> 4, base |-> <<>>, traits |-> <<t>>]>>,
     fields |-> {<<"Deps", "store", t>>}, empty |-> empty /\ ~gap,
     named |-> <<>>, nodes |-> {}]
TypedPrograms ==
    {TypedProgram("java", imports, t, empty, gap, other, type, after) :
        imports \in {<<>>} \union {is \in ImportChoices : is # <<>> /\ is[1].alias = ""},
        t \in {<<"Store">>, <<"lib", "Store">>}, empty \in BOOLEAN, gap \in BOOLEAN,
        other \in {"deps", "x"}, type \in {<<"Deps">>, <<"Store">>}, after \in BOOLEAN}
    \union
    {TypedProgram(lang, imports, t, empty, gap, other, type, after) :
        lang \in {"kotlin", "typescript"}, imports \in ImportChoices,
        t \in {<<"Store">>, <<"Any">>, <<"lib", "Store">>}, empty \in BOOLEAN, gap \in BOOLEAN,
        other \in {"deps", "x"}, type \in {<<"Deps">>, <<"Store">>, <<"Any">>}, after \in {FALSE}}

GoPrograms ==
    {[lang |-> "go", imports |-> <<[path |-> <<"m", "store">>, alias |-> alias], [path |-> <<"x", "api", "v2">>, alias |-> ""]>>,
      assertions |-> <<[line |-> 3, names |-> <<"x", "ok">>, at |-> at, type |-> first],
                       [line |-> line, names |-> <<"_", "x">>, at |-> 2, type |-> <<"Second">>]>>,
      specs |-> <<[name |-> "_", type |-> first, concrete |-> <<"Disk">>, line |-> 1]>>] :
        alias \in {"", "s", "_"}, at \in 1 .. 2, line \in {2, 5}, first \in {<<"First">>, <<"s", "Store">>, <<"db", "Store">>, <<"api", "I">>}}
UseTree(path, alias, group) == [path |-> path, alias |-> alias, group |-> group]
RustPrograms ==
    {[lang |-> "rust", uses |-> <<UseTree(<<"lib">>, "", group), UseTree(<<"lib", "*">>, "", <<>>)>>] :
        group \in {<<UseTree(<<"Store">>, alias, <<>>)>> : alias \in {"", "Other"}}
                  \union {<<UseTree(<<"db">>, "", <<UseTree(<<"self">>, "", <<>>), UseTree(<<"Store">>, "", <<>>)>>)>>}}

GivenPrograms == TypedPrograms \union GoPrograms \union RustPrograms
CallsIn(file) ==
    {[callee |-> c[1], stop |-> c[2], line |-> 4] :
        c \in {<<<<"deps", "store", "get">>, 3>>, <<<<"store", "get">>, 2>>, <<<<"deps", "get">>, 2>>,
               <<<<"x", "get">>, 2>>, <<<<"x", "open", "get">>, 2>>, <<<<"get">>, 1>>, <<<<"Store", "get">>, 2>>,
               <<<<"db", "get">>, 2>>}}

-----------------------------------------------------------------------------
\* What a reader of the file takes them to mean

TypesOf(file, name) == {a.type : a \in {a \in Range(file.annotations) : a.name = name}}
IsTyped(file) == file.lang \in {"java", "kotlin", "typescript"}

\* A type as the imports have it; <<>> where a reader cannot tell.
Meaning(file, t) ==
    LET Names(i) == ~i.static /\ ~i.wildcard /\ <<IF i.alias # "" THEN i.alias ELSE Last(i.path)>> = t
        named == {i \in Range(file.imports) : Names(i)}
        local == {i \in Range(file.imports) : i.alias = t[1]}
    IN  IF file.lang = "go"
        THEN IF local = {} \/ Len(t) = 1 THEN t
             ELSE <<PackagesOfImports[(CHOOSE i \in local : TRUE).path], t[2]>>
        ELSE IF file.lang = "typescript" \/ Len(t) > 1 THEN t
        ELSE IF named # {} THEN (CHOOSE i \in named : TRUE).path
        ELSE IF \E i \in Range(file.imports) : i.wildcard THEN <<>>
        ELSE file.package \o t

TypesNamed(file, name) == {a \in Range(file.annotations) : a.type = <<name>>}
Clear(file, call) ==
    IsTyped(file) =>
        /\ call.stop = Len(call.callee)
        /\ \A i \in Range(file.imports) : i.alias # "" => TypesNamed(file, Last(i.path)) = {}
        /\ \A a \in Range(file.annotations) :
              /\ TypesOf(file, a.name) = {a.type}
              /\ file.lang # "typescript" => a.type # <<"Any">>

\* The callee of a call whose receiver is written with its type.
MeantCallee(file, call) ==
    LET first == TypesOf(file, call.callee[1])
        through == {f \in file.fields : <<f[1]>> \in first /\ f[2] = call.callee[2]}
        types == IF Len(call.callee) = 2 THEN first ELSE {f[3] : f \in through}
        last == Meaning(file, CHOOSE t \in types : TRUE)
    IN  CASE IsTyped(file) ->
               IF Len(call.callee) < 2 \/ types = {} \/ types = {<<"Any">>} \/ last = <<>> THEN <<>>
               ELSE Append(last, Last(call.callee))
          [] file.lang = "go" ->
               LET At(a) == a.names[a.at] = call.callee[1] /\ a.line <= call.line
                   near == {a \in Range(file.assertions) : At(a) /\ \A b \in Range(file.assertions) : At(b) => b.line <= a.line}
               IN  IF near = {} \/ Len(call.callee) < 2 THEN <<>>
                   ELSE Meaning(file, (CHOOSE a \in near : TRUE).type) \o Tail(call.callee)
          [] OTHER ->
               LET paths == {e.path : e \in {e \in Range(Lang!RustExpandUse(<<>>, file.uses[1])) :
                                  call.callee[1] = IF e.alias = "" THEN Last(e.path) ELSE e.alias}}
               IN  IF paths = {} \/ Len(call.callee) # 2 THEN <<>>
                   ELSE Append(CHOOSE p \in paths : TRUE, Last(call.callee))

Renames(file) == IsTyped(file) /\ \E i \in Range(file.imports) : i.alias # ""

\* Java takes a receiver of one name for no receiver, and a word before a name
\* for its type; a class that ends on its own line hides the one on the next;
\* an alias may keep its type from being written out.
SeenWhole(file, call) ==
    /\ ~Renames(file)
    /\ file.lang = "java" =>
          Len(call.callee) > 2 /\ \A i \in DOMAIN file.words : file.words[i][1] # <<"return">>
    /\ IsTyped(file) /\ Len(call.callee) > 2 => ~file.empty
    /\ IsTyped(file) /\ Len(call.callee) > 2 =>
          \A f \in file.fields : Meaning(file, <<f[1]>>) # <<>>

HierarchyTypes(file) ==
    IF IsTyped(file) THEN {t : t \in UNION {Range(c.traits) : c \in Range(file.classes)}}
    ELSE IF file.lang = "go" THEN {s.type : s \in Range(file.specs)}
    ELSE {}
=============================================================================
