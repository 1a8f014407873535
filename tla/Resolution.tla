------------------------------ MODULE Resolution ------------------------------
(***************************************************************************)
(* internal/app/ingest/resolve: the syntax edges of parsed files get the   *)
(* ids of stored nodes, and those that cannot yet wait under a key that a  *)
(* node added later must hit.                                              *)
(*                                                                         *)
(* Names, paths and selectors are sequences of segments; fingerprints are  *)
(* taken apart: an edge has a kind, its file and line, and the names       *)
(* `source` and `target`; `scoped` tells a selector written with ::, where *)
(* `concrete` is the T of <T as Trait>::method, or <<>>.  A lookup gives   *)
(* the set of its answers, at most one where the code gives a pointer.     *)
(* The fixed order in which ties are broken is that of the ids.            *)
(***************************************************************************)
EXTENDS Naturals, Sequences, FiniteSets, SequencesExt

CONSTANT Exported   \* the names with a capital

Callable == {"function", "test"}
TypeLike == {"type", "class"}
OwnerLanguages == {"typescript", "java", "kotlin"}

\* A node of one of the kinds, if there is exactly one.
Unique(nodes, kinds) ==
    LET some == {n \in nodes : n.kind \in kinds}
    IN  IF Cardinality(some) = 1 THEN some ELSE {}

LeastId(nodes) == {n \in nodes : \A m \in nodes : n.id <= m.id}

FirstFound(lookups) ==
    LET hits == {i \in DOMAIN lookups : lookups[i] # {}}
    IN  IF hits = {} THEN {} ELSE lookups[CHOOSE i \in hits : \A j \in hits : i <= j]

-----------------------------------------------------------------------------
\* The nodes a pass has loaded, and the implementers it knows, each under the
\* interface's qualified name and under its bare name.

Named(st, name) == {n \in st.loaded : n.qn = name}
InFile(st, f) == {n \in st.loaded : n.file = f}
Implementers(st, key) == {p[2] : p \in {q \in st.implementers : q[1] = key}}

AddImplementer(st, iface, concrete) ==
    [st EXCEPT !.implementers = @ \union {<<iface.qn, concrete>>, <<<<iface.name>>, concrete>>}]

\* The narrowest callable around a line.
EnclosingCallable(st, f, line) ==
    LET around == {n \in InFile(st, f) : n.kind \in Callable /\ n.first <= line /\ line <= n.last}
    IN  LeastId({n \in around : \A m \in around : n.last - n.first <= m.last - m.first})

PackagePrefix(n) ==
    CASE n.lang = "rust" -> <<>>
      [] n.lang = "go"   -> IF Len(n.qn) > 1 THEN <<Head(n.qn)>> ELSE <<>>
      [] OTHER           -> IF Len(n.qn) > 1 /\ Last(n.qn) = n.name THEN Front(n.qn) ELSE <<>>

PackageForFile(st, f) ==
    LET telling == {n \in InFile(st, f) : n.kind # "file" /\ PackagePrefix(n) # <<>>}
    IN  {PackagePrefix(n) : n \in LeastId(telling)}

\* Names to try for a caller or a file of some package, if it has one.
Below(prefixes, name) == {p \o name : p \in prefixes \ {<<>>}}
CallerPackages(callers) == {PackagePrefix(c) : c \in callers}

NamedAny(st, names) == UNION {Named(st, n) : n \in names}

-----------------------------------------------------------------------------
\* Call dispatch of the languages that have it: a selector is owner and method

Owner(callee) == Front(callee)
Bare(name) == <<Last(name)>>

GoImplementers(st, caller, iface) ==
    (UNION {Implementers(st, k) : k \in Below({PackagePrefix(caller)}, <<iface>>)})
        \union (IF iface \in Exported THEN Implementers(st, <<iface>>) ELSE {})

GoDispatch(st, caller, callee) ==
    LET iface == Last(Owner(callee))
        samePackage == {iface, Last(callee)} \notin SUBSET Exported
        impls == {t \in GoImplementers(st, caller, iface) :
                    samePackage => PackagePrefix(t) = PackagePrefix(caller)}
    IN  IF Len(callee) < 2 \/ (samePackage /\ PackagePrefix(caller) = <<>>) THEN {}
        ELSE Unique(UNION {Unique(Named(st, t.qn \o Bare(callee)), Callable) : t \in impls}, Callable)

\* A method calls methods of its own receiver.
SameReceiver(st, caller, callee) ==
    IF caller.lang = "go" /\ Len(caller.qn) >= 3
    THEN Unique(Named(st, Front(caller.qn) \o Bare(callee)), Callable) ELSE {}

IsOwnerSelector(callee) ==
    Len(callee) >= 2 /\ (Len(callee) > 2 \/ Head(callee) \in Exported)

\* A short owner is looked for among everything that happens to be loaded.
OwnerTarget(st, owner) ==
    Unique(IF Len(owner) > 1 THEN Named(st, owner)
           ELSE {n \in st.loaded : n.name = owner[1]}, TypeLike)

OwnerImplementers(st, owner) ==
    UNION {Implementers(st, o.qn) : o \in OwnerTarget(st, owner)}

OwnerDispatch(st, callee) ==
    LET impls == OwnerImplementers(st, Owner(callee))
        MethodsOf(types) == UNION {Unique(Named(st, t.qn \o Bare(callee)), Callable) : t \in types}
    IN  IF ~IsOwnerSelector(callee) THEN {}
        ELSE FirstFound(<<IF Cardinality(impls) = 1 THEN MethodsOf(impls) ELSE {},
                          MethodsOf(OwnerTarget(st, Owner(callee)))>>)

RustImplementers(st, e) ==
    {t \in Implementers(st, Owner(e.target)) : e.concrete = <<>> \/ t.qn = e.concrete}

RustDispatch(st, e) ==
    LET impls == RustImplementers(st, e)
    IN  IF ~e.scoped \/ Cardinality(impls) # 1 THEN {}
        ELSE UNION {Unique(Named(st, t.qn \o Bare(e.target)), Callable) : t \in impls}

InterfaceDispatch(st, caller, e) ==
    CASE caller.lang = "go"             -> GoDispatch(st, caller, e.target)
      [] caller.lang \in OwnerLanguages -> OwnerDispatch(st, e.target)
      [] caller.lang = "rust"           -> RustDispatch(st, e)
      [] OTHER                          -> {}

-----------------------------------------------------------------------------
\* One edge.  An endpoint that is not found is 0.

IdOf(nodes) == IF nodes = {} THEN 0 ELSE (CHOOSE n \in nodes : TRUE).id

\* By full name, in the caller's package, by bare name in the file; a node's
\* name holds no ::.
CallLookups(st, callers, e) ==
    IF e.scoped THEN <<{}, {}, {}>> ELSE
    <<Named(st, e.target), NamedAny(st, Below(CallerPackages(callers), Bare(e.target))),
      {n \in InFile(st, e.file) : n.kind \in Callable /\ n.name = Last(e.target)}>>

\* Mutant of ResolveCall: with the option, what a guess finds is taken first.
ResolveCallGuessing(st, e, fallback) ==
    LET callers == EnclosingCallable(st, e.file, e.line)
        lookups == CallLookups(st, callers, e)
        strict == FirstFound([i \in 1 .. 3 |-> Unique(lookups[i], Callable)])
        guess == FirstFound([i \in 1 .. 3 |-> {n \in lookups[i] : n.kind \in Callable}])
    IN  [e EXCEPT !.from = IdOf(callers),
                  !.to = IdOf(IF fallback THEN LeastId(guess) ELSE strict),
                  !.kind = IF fallback /\ strict = {} /\ guess # {} THEN "fallback_calls" ELSE @]

ResolveCall(st, e, fallback) ==
    LET callers == EnclosingCallable(st, e.file, e.line)
        lookups == CallLookups(st, callers, e)
        strict == FirstFound(
            <<UNION {SameReceiver(st, c, e.target) : c \in callers},
              UNION {InterfaceDispatch(st, c, e) : c \in callers}>>
            \o [i \in 1 .. 3 |-> Unique(lookups[i], Callable)])
        guesses == IF callers = {} THEN SubSeq(lookups, 1, 1) ELSE lookups
        guess == FirstFound([i \in DOMAIN guesses |-> {n \in guesses[i] : n.kind \in Callable}])
    IN  IF strict # {} \/ ~fallback
        THEN [e EXCEPT !.from = IdOf(callers), !.to = IdOf(strict)]
        ELSE [e EXCEPT !.from = IdOf(callers), !.to = IdOf(LeastId(guess)),
                       !.kind = IF guess = {} THEN @ ELSE "fallback_calls"]

FileNode(st, f) == {n \in InFile(st, f) : n.kind = "file"}

ResolveContains(st, e) ==
    [e EXCEPT !.from = IdOf(FileNode(st, e.file)),
              !.to = IdOf(LET found == Named(st, e.target)
                          IN  IF Cardinality(found) = 1 THEN found ELSE {})]

TypeEndpoint(st, f, name) ==
    FirstFound(<<Unique(Named(st, name), TypeLike)>> \o
        IF Len(name) > 1 THEN <<>>
        ELSE <<Unique(NamedAny(st, Below(PackageForFile(st, f), name)), TypeLike),
               Unique({n \in InFile(st, f) : n.name = name[1]}, TypeLike)>>)

\* inherits and implements
ResolveTypes(st, e) ==
    [e EXCEPT !.from = IdOf(TypeEndpoint(st, e.file, e.source)),
              !.to = IdOf(TypeEndpoint(st, e.file, e.target))]

ResolveTestedBy(st, e) ==
    LET lookups == <<Named(st, e.target),
                     NamedAny(st, Below(PackageForFile(st, e.file), Bare(e.target))),
                     {n \in InFile(st, e.file) : n.name = Last(e.target)}>>
    IN  [e EXCEPT !.from = IdOf(Unique(Named(st, e.source), Callable)),
                  !.to = IdOf(FirstFound([i \in 1 .. 3 |-> Unique(lookups[i], Callable)]))]

-----------------------------------------------------------------------------
\* Imports: files by their directory

Files(nodes) == {n \in nodes : n.kind = "file"}
Dir(f) == Front(f)

CommonSuffixDepth(p, q) ==
    LET depths == {d \in 0 .. Len(p) : d <= Len(q) /\
                    \A i \in 0 .. d - 1 : p[Len(p) - i] = q[Len(q) - i]}
    IN  CHOOSE d \in depths : \A k \in depths : k <= d

\* The files in the directory of that path, else in those with the longest
\* common suffix: bestImportFileMatch and Store.GetFileNodesByPathSuffix.
BestMatch(files, p) ==
    LET placed == {n \in files : Dir(n.file) # <<>>}
        depth == [n \in placed |-> CommonSuffixDepth(p, Dir(n.file))]
        exact == {n \in placed : Dir(n.file) = p}
    IN  IF exact # {} THEN exact
        ELSE {n \in placed : depth[n] > 0 /\ \A m \in placed : depth[m] <= depth[n]}

\* ImportFileIndex.Find: suffixes of the path, longest first, in an index of
\* the directories' suffixes.
Find(files, p) ==
    LET exact == {n \in files : Dir(n.file) = p}
        EndingIn(s) == {n \in files : Dir(n.file) # <<>> /\ IsSuffix(s, Dir(n.file))}
    IN  IF exact # {} THEN exact
        ELSE FirstFound([i \in 1 .. Len(p) |-> EndingIn(SubSeq(p, i, Len(p)))])

\* A file stands for its directory, not for several.
Representative(files) ==
    IF Cardinality({Dir(n.file) : n \in files}) = 1 THEN LeastId(files) ELSE {}

\* What the pass has loaded is preferred to what the store would find.
ImportFile(store, st, p) ==
    FirstFound(<<FileNode(st, p), Representative(BestMatch(Files(st.loaded), p)),
                 Representative(Find(Files(store.nodes), p))>>)

LoadFile(store, st, f) ==
    IF Cardinality(InFile(st, f)) > 1 THEN st
    ELSE [st EXCEPT !.loaded = @ \union {n \in store.nodes : n.file = f}]

LoadFiles(store, st, files) ==
    [st EXCEPT !.loaded = UNION ({st.loaded} \union {LoadFile(store, st, n.file).loaded : n \in files})]

\* The target of an import, and the state with its files loaded.
ResolveImport(store, st, e) ==
    LET packages == Unique(Named(st, e.target), {"package"})
        files == FirstFound(<<Unique(Named(st, e.target), {"file"}), ImportFile(store, st, e.target)>>)
        done(found) == [e EXCEPT !.from = IdOf(FileNode(st, e.file)), !.to = IdOf(found)]
    IN  IF packages # {}
        THEN [edge |-> done(packages),
              st |-> LoadFiles(store, st, Find(Files(store.nodes), e.target))]
        ELSE [edge |-> done(files), st |-> LoadFiles(store, st, files)]

-----------------------------------------------------------------------------
\* A pass: prefetch, the other edges in order, implementers, then the calls

Ancestors(p) == {SubSeq(p, 1, i) : i \in 1 .. Len(p)}

DispatchCandidates(caller, e) ==
    LET callee == e.target IN
    CASE caller.lang = "go" /\ Len(callee) > 1 ->
            Below({PackagePrefix(caller)}, Bare(Owner(callee)))
      [] caller.lang \in OwnerLanguages /\ IsOwnerSelector(callee) ->
            IF Len(callee) > 2 THEN {Owner(callee)}
            ELSE Below(Ancestors(PackagePrefix(caller)), Owner(callee))
      [] caller.lang = "rust" /\ e.scoped -> {Owner(callee)}
      [] OTHER -> {}

EndpointCandidates(st, f, name) ==
    {name} \union (IF Len(name) > 1 THEN {} ELSE Below(PackageForFile(st, f), name))

QualifiedCandidates(st, e) ==
    CASE e.kind = "calls" ->
            {e.target} \union UNION {Below({PackagePrefix(c)}, Bare(e.target))
                                       \union DispatchCandidates(c, e) :
                                     c \in EnclosingCallable(st, e.file, e.line)}
      [] e.kind \in {"inherits", "implements"} ->
            EndpointCandidates(st, e.file, e.source) \union EndpointCandidates(st, e.file, e.target)
      [] e.kind = "tested_by" -> EndpointCandidates(st, e.file, e.target) \union {e.source}
      [] OTHER -> {e.target}

\* The methods that dispatch may lead a call to.
DispatchTargets(st, e) ==
    LET callee == e.target
        Targets(c) ==
            CASE c.lang = "go" ->
                    (IF Len(c.qn) >= 3 THEN {Front(c.qn)} ELSE {})
                    \union (IF Len(callee) < 2 THEN {}
                            ELSE {t.qn : t \in GoImplementers(st, c, Last(Owner(callee)))})
              [] c.lang \in OwnerLanguages /\ IsOwnerSelector(callee) ->
                    LET impls == OwnerImplementers(st, Owner(callee))
                    IN  {t.qn : t \in OwnerTarget(st, Owner(callee))
                                      \union (IF Cardinality(impls) = 1 THEN impls ELSE {})}
              [] c.lang = "rust" /\ e.scoped -> {t.qn : t \in RustImplementers(st, e)}
              [] OTHER -> {}
    IN  {t \o Bare(callee) : t \in UNION {Targets(c) : c \in EnclosingCallable(st, e.file, e.line)}}

LoadNamed(store, st, names) ==
    [st EXCEPT !.loaded = @ \union {n \in store.nodes : n.qn \in names}]

LoadExistingImplements(store, st) ==
    LET ifaces == {n.id : n \in {m \in st.loaded : m.kind = "type"}}
        pairs == {p \in store.nodes \X store.nodes :
                     p[1].id \in ifaces /\ <<p[2].id, p[1].id>> \in store.implements}
    IN  [loaded |-> st.loaded \union {n \in store.nodes : \E p \in pairs : n \in {p[1], p[2]}},
         implementers |-> st.implementers \union
            (UNION {AddImplementer(st, p[1], p[2]).implementers : p \in pairs})]

\* What is resolved so far with one more edge; an implements edge counts at once.
WithTyped(st, typed) ==
    LET NodeWith(id) == CHOOSE n \in st.loaded : n.id = id
    IN  [st |-> IF typed.kind # "implements" \/ typed.from = 0 \/ typed.to = 0 THEN st
                ELSE AddImplementer(st, NodeWith(typed.to), NodeWith(typed.from)),
         edge |-> typed]
Add(edges, found) == [st |-> found.st, edges |-> Append(edges, found.edge)]

ResolveOther(store, run, e) ==
    LET With(edge) == [st |-> run.st, edge |-> edge]
    IN  Add(run.edges,
            CASE e.kind = "contains"     -> With(ResolveContains(run.st, e))
              [] e.kind = "tested_by"    -> With(ResolveTestedBy(run.st, e))
              [] e.kind = "imports_from" -> ResolveImport(store, run.st, e)
              [] e.kind \in {"inherits", "implements"} -> WithTyped(run.st, ResolveTypes(run.st, e))
              [] OTHER -> With(e))

Calls(edges) == {i \in DOMAIN edges : edges[i].kind = "calls"}

ResolveOthers(store, first, edges) ==
    LET run[i \in 0 .. Len(edges)] ==
            IF i = 0 THEN [st |-> LoadNamed(store, first, UNION {QualifiedCandidates(first, edges[j]) :
                                                                    j \in DOMAIN edges}),
                           edges |-> <<>>]
            ELSE ResolveOther(store, run[i - 1], edges[i])
    IN  run[Len(edges)]

LoadDispatchTargets(store, st, edges) ==
    LoadNamed(store, st, UNION {DispatchTargets(st, edges[i]) : i \in Calls(edges)})

ResolveCalls(st, edges, fallback) ==
    [i \in DOMAIN edges |-> IF i \in Calls(edges) THEN ResolveCall(st, edges[i], fallback) ELSE edges[i]]

\* others.edges holds the calls as they came.
ResolveAfter(store, others, fallback) ==
    ResolveCalls(LoadDispatchTargets(store, LoadExistingImplements(store, others.st), others.edges),
                 others.edges, fallback)

ResolveWithOptions(store, edges, fallback) ==
    ResolveAfter(store,
                 ResolveOthers(store, [loaded |-> {n \in store.nodes : n.file \in {edges[i].file : i \in DOMAIN edges}},
                                       implementers |-> {}], edges), fallback)

-----------------------------------------------------------------------------
\* Edges that wait, and the key a new node must hit

\* The default case takes the last part of the fingerprint: for tested_by the test.
UnresolvedKey(e) == IF e.kind = "tested_by" THEN Last(e.source) ELSE Last(e.target)

Waits(e) == e.from # 0 /\ e.to = 0 /\ e.kind # "contains"

\* Mutant of LookupKeys: the directory of a new file is no key.
LookupKeysOfNames(nodes) == {Last(n.qn) : n \in nodes} \union {n.name : n \in nodes}

LookupKeys(nodes) ==
    {Last(n.qn) : n \in nodes} \union {n.name : n \in nodes}
        \union {Last(Dir(n.file)) : n \in {m \in nodes : Len(m.file) > 1}}

\* The replay takes every waiting edge of a file one of whose keys was hit.
Replayed(waiting, added) ==
    LET hit == {e.file : e \in {w \in waiting : UnresolvedKey(w) \in LookupKeys(added)}}
    IN  {e \in waiting : e.file \in hit}
=============================================================================
