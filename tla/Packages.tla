------------------------------- MODULE Packages -------------------------------
(***************************************************************************)
(* Packages: how each language's files make packages (adapters/outbound/   *)
(* treesitter/package_discovery.go), how those of all languages are merged *)
(* and what a build or an update does with them (app/ingest/workflow,      *)
(* packages.go): package nodes, their edges to files, the names imports    *)
(* resolve to, the peers of an added file, and the refresh of Go's         *)
(* structural implementations.                                             *)
(*                                                                         *)
(* A file of Ingest also has a declared package `clause` (segments, <<>>   *)
(* if none) and is a `test` if Go names it or its package so; its path     *)
(* ends in the name without extension.  A package has its import path, its *)
(* name, its directory, its language and its files.                        *)
(***************************************************************************)
EXTENDS Ingest

CONSTANTS Width(_),       \* length of an import path as text
          Before(_, _)    \* alphabetical order of import paths

NodeLanguages == {"typescript", "javascript"}
JvmLanguages == {"java", "kotlin"}

\* A dotted name is one segment as long as its text has no slash.
Dotted(name) == IF Len(name) > 1 THEN <<".">> \o name ELSE name

Declared(path, name, dir, f) ==
    [path |-> path, name |-> name, dir |-> dir, lang |-> f.lang, files |-> {f.path}]

-----------------------------------------------------------------------------
\* Files found one by one: an import path that is declared in two ways is
\* dropped, and blocked for whatever comes later.

Agree(p, q) == p.name = q.name /\ p.lang = q.lang /\ p.dir = q.dir

\* The declarations of a path are one package, of all their files.
Joined(p, known) == [p EXCEPT !.files = @ \union UNION {q.files : q \in known}]

\* Mutant of Remember: the path is dropped but not blocked.
RememberUnblocked(found, new) ==
    LET Known(p) == {q \in found.packages : q.path = p.path}
        agreed == {p \in new : \A q \in Known(p) : Agree(p, q)}
    IN  [found EXCEPT !.packages = {q \in @ : \A p \in new : q.path # p.path}
                                   \union {Joined(p, Known(p)) : p \in agreed}]

\* New packages, whose paths all differ: one of a file, or those of a language.
Remember(found, new) ==
    LET open == {p \in new : p.path \notin found.ambiguous}
        Known(p) == {q \in found.packages : q.path = p.path}
        agreed == {p \in open : \A q \in Known(p) : Agree(p, q)}
    IN  [packages |-> {q \in found.packages : \A p \in open : q.path # p.path}
                      \union {Joined(p, Known(p)) : p \in agreed},
         ambiguous |-> found.ambiguous \union {p.path : p \in open \ agreed}]

Nothing == [packages |-> {}, ambiguous |-> {}]

PythonPackages(f) ==
    IF Dir(f.path) = <<>> THEN {}
    ELSE {Declared(Dotted(Dir(f.path)), Last(Dir(f.path)), Dir(f.path), f)}

GoPackages(module, f) ==
    IF module = <<>> \/ f.test \/ f.clause = <<>> THEN {}
    ELSE {Declared(module \o Dir(f.path), Last(f.clause), Dir(f.path), f)}

\* A package that is split over source roots gets the directory of its name.
JvmPackages(f) ==
    IF f.clause = <<>> THEN {} ELSE {Declared(Dotted(f.clause), Last(f.clause), f.clause, f)}

-----------------------------------------------------------------------------
\* Node: workspaces and the aliases of tsconfig files

\* Whether what is left of a pattern matches what is left of a path.
MatchParts(pattern, rel) ==
    LET match[i \in 1 .. Len(pattern) + 1, j \in 1 .. Len(rel) + 1] ==
            IF i > Len(pattern) THEN j > Len(rel)
            ELSE IF pattern[i] = "**" THEN \E k \in j .. Len(rel) + 1 : match[i + 1, k]
            ELSE j <= Len(rel) /\ pattern[i] \in {"*", rel[j]} /\ match[i + 1, j + 1]
    IN  match[1, 1]

InWorkspace(patterns, rel) ==
    LET Matching(exclude) ==
            \E p \in Range(patterns) : p.exclude = exclude /\ MatchParts(p.parts, rel)
    IN  Matching(FALSE) /\ ~Matching(TRUE)

\* A manifest has a directory and a name, <<>> when it gives none.
RootName(repo) == UNION {{m.name} : m \in {n \in repo.manifests : n.dir = <<>>}}

\* Patterns stand in package.json and in pnpm-workspace.yaml.
Patterns(repo) == repo.workspaces \o repo.pnpm

WorkspacePackageRoots(repo) ==
    {m \in repo.manifests : m.dir # <<>> /\ InWorkspace(Patterns(repo), m.dir)}

PackageScopes(repo) ==
    {[dir |-> <<>>, name |-> IF RootName(repo) = {} THEN <<>> ELSE CHOOSE n \in RootName(repo) : TRUE]}
    \union {m \in WorkspacePackageRoots(repo) : m.name # <<>>}

BestScope(repo, path) ==
    LET around == {s \in PackageScopes(repo) : IsPrefix(s.dir, path)}
    IN  CHOOSE s \in around : \A t \in around : Len(t.dir) <= Len(s.dir)

Beneath(path, prefix) == SubSeq(path, Len(prefix) + 1, Len(path))

\* A tsconfig has a directory, the config it extends (0 for none), a base and
\* its paths in the order of Go's map; its aliases are keyed by their target.
Aliases(configs) ==
    LET With(known, dir, p) ==
            LET target == dir \o p.target
            IN  IF p.alias = <<>> \/ target = <<>> THEN known
                ELSE [t \in DOMAIN known \union {target} |-> IF t = target THEN p.alias ELSE known[t]]
        Aliased[c \in 0 .. Len(configs), seen \in SUBSET DOMAIN configs] ==
            IF c = 0 \/ c \in seen THEN <<>>
            ELSE FoldLeft(LAMBDA known, p : With(known, configs[c].dir \o configs[c].base, p),
                          Aliased[configs[c].parent, seen \union {c}], configs[c].paths)
    IN  [c \in DOMAIN configs |-> Aliased[c, {}]]

\* Only files named tsconfig.json open a scope, their parents may have any name.
AliasScopes(repo) ==
    UNION {LET known == Aliases(repo.configs)[c]
           IN  {[dir |-> repo.configs[c].dir, target |-> t, alias |-> known[t]] : t \in DOMAIN known} :
              c \in {d \in DOMAIN repo.configs : repo.configs[d].leaf}}

\* An alias of a directory that holds the file names its directory and itself.
AliasPaths(repo, path) ==
    UNION {{s.alias \o Beneath(Dir(path), s.target), s.alias \o Beneath(path, s.target)} :
              s \in {a \in AliasScopes(repo) : IsPrefix(a.dir, path) /\ IsPrefix(a.target, Dir(path))}}

\* A file right in the directory of its manifest is in "<name>/.".
NodePaths(repo, f) ==
    LET scope == BestScope(repo, f.path)
        inside == Dir(Beneath(f.path, scope.dir))
    IN  (IF scope.name = <<>> THEN {} ELSE {scope.name \o (IF inside = <<>> THEN <<".">> ELSE inside)})
        \union (IF f.lang = "typescript" THEN AliasPaths(repo, f.path) ELSE {})

NodePackages(repo, f) ==
    IF Dir(f.path) = <<>> THEN {}
    ELSE {Declared(p, Last(Dir(f.path)), Dir(f.path), f) : p \in NodePaths(repo, f)}

-----------------------------------------------------------------------------
\* All languages

PackagesOfFile(repo, f) ==
    CASE f.lang = "python"         -> PythonPackages(f)
      [] f.lang = "go"             -> GoPackages(repo.module, f)
      [] f.lang \in JvmLanguages   -> JvmPackages(f)
      [] f.lang \in NodeLanguages  -> NodePackages(repo, f)
      [] OTHER                     -> {}

\* What the files of a language declare, in the order of the walk.
Discoveries(repo, lang, files) ==
    LET found[i \in 0 .. Len(files)] ==
            IF i = 0 THEN Nothing
            ELSE IF files[i].lang # lang THEN found[i - 1]
            ELSE Remember(found[i - 1], PackagesOfFile(repo, files[i]))
    IN  found

DiscoverPackages(repo, lang, files) == Discoveries(repo, lang, files)[Len(files)].packages

\* One language after the other, by the same rule; one that meets a file it
\* cannot read is left out.
MergeLanguagePackages(repo, languages, files) ==
    LET merged[i \in 0 .. Len(languages)] ==
            IF i = 0 THEN Nothing
            ELSE IF languages[i] \in repo.failing THEN merged[i - 1]
            ELSE Remember(merged[i - 1], DiscoverPackages(repo, languages[i], files))
    IN  merged

CollectLanguagePackages(repo, languages, files) ==
    MergeLanguagePackages(repo, languages, files)[Len(languages)].packages

-----------------------------------------------------------------------------
\* The names imports and files get

\* Of several paths of a directory the longest; which of two is the map's choice.
CanonicalPaths(packages, dir) ==
    LET own == {p \in packages : p.lang \in NodeLanguages /\ p.dir = dir}
    IN  {p.path : p \in {q \in own : \A o \in own : Width(o.path) <= Width(q.path)}}

ImportPackageContext(packages) ==
    [path \in {p.path : p \in packages} |->
        LET p == CHOOSE q \in packages : q.path = path
        IN  IF p.lang \in NodeLanguages THEN CanonicalPaths(packages, p.dir) ELSE {<<p.name>>}]

\* A file's own names start with the first of its paths in the alphabet.
FilePackageImportPath(packages, path) ==
    LET own == {p \in packages : p.lang \in NodeLanguages /\ path \in p.files}
    IN  {p.path : p \in {q \in own : \A o \in own : ~Before(o.path, q.path)}}

-----------------------------------------------------------------------------
\* Package nodes, and their edges to the files.  A namespace has its graph,
\* package nodes, and members: pairs of a package node and a file.

PackageNode(p) == [qn |-> p.path, file |-> p.dir, name |-> p.name, lang |-> p.lang]

SameNode(n, m) == n.qn = m.qn /\ n.file = m.file

UpsertPackageNodes(ns, packages) ==
    LET new == {PackageNode(p) : p \in packages}
    IN  [ns EXCEPT !.packages = {n \in @ : \A m \in new : ~SameNode(n, m)} \union new,
                   !.members = {[node |-> IF \E m \in new : SameNode(m, x.node)
                                          THEN CHOOSE m \in new : SameNode(m, x.node) ELSE x.node,
                                 file |-> x.file] : x \in @}]

FileNodes(g, path) == {n \in g.nodes : n.file = path /\ n.kind = "file"}

UpsertPackageContainsEdges(ns, packages) ==
    LET NodesOf(p) == {n \in ns.packages : n.qn = p.path}
    IN  [ns EXCEPT !.members = @ \union
            UNION {{[node |-> n, file |-> f] :
                       n \in NodesOf(p), f \in {f \in p.files : Cardinality(FileNodes(ns.graph, f)) = 1}} :
                   p \in {q \in packages : Cardinality(NodesOf(q)) = 1}}]

-----------------------------------------------------------------------------
\* What an update of some files touches

AffectedPackages(packages, paths) ==
    {p \in packages : \/ p.files \intersect paths # {}
                      \/ p.dir \in {Dir(f) : f \in paths}}

\* Files without nodes are added: unchanged files of their packages and
\* directories are parsed again, and a package or a directory that had no
\* nodes at all calls for more.
AddUnchangedPeers(packages, existing, current) ==
    LET added == DOMAIN current \ DOMAIN existing
        touched == AffectedPackages(packages, added)
        dirs == {Dir(f) : f \in added}
        peers == UNION {p.files : p \in touched} \union {f \in DOMAIN existing : Dir(f) \in dirs}
    IN  [wide |-> added # {} /\ \/ \E p \in touched : p.files \intersect DOMAIN existing = {}
                                \/ dirs \ {Dir(f) : f \in DOMAIN existing} # {},
         force |-> {f \in peers \intersect DOMAIN existing \intersect DOMAIN current :
                       existing[f] = current[f]}]

AllUnchanged(existing, current) ==
    {f \in DOMAIN existing \intersect DOMAIN current : existing[f] = current[f]}

\* Mutant of AnchorsOf: only what was parsed takes part.
AnchorsChanged(packages, paths) == paths \intersect UNION {p.files : p \in AffectedPackages(packages, paths)}

\* Every file of a package with a file that changed, or whose directory has one.
AnchorsOf(packages, paths) == UNION {p.files : p \in AffectedPackages(packages, paths)}

DeletePackageSemanticEdges(g, anchors) ==
    LET rows == {r \in g.rows : ~(r.kind = "implements" /\ r.line = 0 /\ r.file \in anchors)}
    IN  [g EXCEPT !.rows = rows,
                  !.implements = {<<r.from, r.to>> : r \in {q \in rows : q.kind = "implements"}}]

\* The stored nodes and what a new parse tells of the files' interfaces.
RefreshPackageSemanticEdges(g, packages, files, paths, fallback) ==
    LET anchors == AnchorsOf(packages, paths)
        Stored(f) == {n \in g.nodes : n.file = f.path}
        group == SelectSeq(files, LAMBDA f : f.path \in anchors /\ Stored(f) # {})
        batches == PackageSemanticEdgeBatches([i \in DOMAIN group |->
                      [group[i] EXCEPT !.nodes = Stored(group[i]),
                          !.package = IF @ # "" THEN @
                                      ELSE (CHOOSE p \in packages : group[i].path \in p.files).name]])
        cleared == DeletePackageSemanticEdges(g, anchors)
    IN  RunPasses(ResolveImplementsOf(cleared, batches, fallback),
                  FoldLeft(Pack, <<>>, OtherPasses(batches)), fallback)

\* Files with an edge from or to a node of a file that changed or is gone, and
\* with a call from or to either end of such an implements edge.
ForceReparseFiles(g, existing, current) ==
    LET stale == {f \in DOMAIN existing : f \notin DOMAIN current \/ existing[f] # current[f]}
        changed == {n.id : n \in {m \in g.nodes : m.file \in stale}}
        touching == {r \in g.rows : {r.from, r.to} \intersect changed # {}}
        related == UNION {{r.from, r.to} : r \in {q \in touching : q.kind = "implements"}}
    IN  {r.file : r \in touching} \union
            {r.file : r \in {q \in g.rows : /\ q.kind \in {"calls", "fallback_calls"}
                                          /\ {q.from, q.to} \intersect related # {}}}

-----------------------------------------------------------------------------
\* The two ways in, without size limits

EmptyNamespace == [graph |-> EmptyGraph, packages |-> {}, members |-> {}]

StorePackages(ns, packages) == UpsertPackageContainsEdges(UpsertPackageNodes(ns, packages), packages)

BuildPackages(repo, languages, files) ==
    StorePackages([EmptyNamespace EXCEPT !.graph = Build(EmptyGraph, files, 0, 0, FALSE)],
                  CollectLanguagePackages(repo, languages, files))

\* An update that may not hand over to a build and has no index of candidates.
UpdateWith(ns, packages, files, existing) ==
    LET current == [p \in {files[i].path : i \in DOMAIN files} |->
                       (CHOOSE f \in Range(files) : f.path = p).hash]
        peers == AddUnchangedPeers(packages, existing, current)
        forced == ForceReparseFiles(ns.graph, existing, current) \union peers.force
                  \union (IF peers.wide THEN AllUnchanged(existing, current) ELSE {})
        parsed == [i \in DOMAIN files |-> [files[i] EXCEPT !.force = files[i].path \in forced]]
        changed == {p \in DOMAIN current : p \in forced \/ p \notin DOMAIN existing
                                           \/ existing[p] # current[p]}
        deleted == DOMAIN existing \ DOMAIN current
        synced == StagedSync(ns.graph, existing, <<parsed>>, deleted, FALSE)
    IN  StorePackages(
            [ns EXCEPT
                !.graph = RefreshPackageSemanticEdges(synced, packages, parsed, changed \union deleted, FALSE),
                !.members = {x \in @ : x.file \notin (changed \intersect DOMAIN existing) \union deleted}],
            packages)

UpdatePackages(ns, repo, languages, files, existing) ==
    UpdateWith(ns, CollectLanguagePackages(repo, languages, files), files, existing)
===============================================================================
