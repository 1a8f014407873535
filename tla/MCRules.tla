------------------------------- MODULE MCRules -------------------------------
(* The rules the handlers apply, on small sets of inputs: what a server has   *)
(* (its configuration, a graph) is chosen at the start, one action per        *)
(* handler takes a request and computes the answer.                           *)
EXTENDS MCReads, Handlers, Builds

\* Import paths as text: their length, and an alphabet of their first segments.
WidthOf(path) == FoldLeft(LAMBDA n, s : n + 1 + Len(s), 0, path)
Alphabet == <<"@", "@acme", "root", "util">>
BeforeOf(p, q) ==
    LET At(x) == CHOOSE i \in DOMAIN Alphabet : Alphabet[i] = x[1]
    IN  At(p) < At(q) \/ (At(p) = At(q) /\ Len(p) < Len(q))

UpTo(S, n) == UNION {[1 .. k -> S] : k \in 0 .. n}

-----------------------------------------------------------------------------
\* Webhook: owners o and p, names of two or three segments, one with a dash

O == <<"o">>  P == <<"p">>  A == <<"a">>  B == <<"b">>  AB == <<"a", "b">>
MCRepoNames == {<<O, A>>, <<O, AB>>, <<P, AB>>, <<O, A, B>>, <<O, <<"..">>>>, <<A>>}
RepoRules == [negate : BOOLEAN, path : {<<O, Star>>, <<O, AB>>, <<P, AB>>, <<Star, Star>>},
              branches : {<<>>, <<{"dev"}>>}]
MCConfigs == [rules : UpTo(RepoRules, 2), secret : BOOLEAN, insecure : BOOLEAN,
            bases : {<<>>, <<"good">>, <<"blank">>}]
Deliveries == [readable : {TRUE}, signature : {"good", "bad"}, event : {"push"},
               body : {"good"}, ref : {"branch"}, branch : {"main", "dev"},
               deleted : {FALSE}, after : {"commit"}, name : MCRepoNames, url : {"u"},
               queue : {"ok"}]
OddDeliveries == {d \in [readable : BOOLEAN, signature : {"good", "bad"}, event : {"push", "ping"},
                   body : {"good", "bad"}, ref : {"branch", "tag"}, branch : {"main"},
                   deleted : BOOLEAN, after : {"commit", "zeros"}, name : {<<O, A>>},
                   url : {"u", "blank"}, queue : {"ok", "full", "shutting down", "other"}] :
                   d.queue = "ok" \/ (d.readable /\ d.event = "push" /\ d.body = "good")}
OpenRule == [negate |-> FALSE, path |-> <<O, Star>>, branches |-> <<>>]
MCDeliveriesFor(c) == Deliveries \union (IF c.rules = <<OpenRule>> THEN OddDeliveries ELSE {})

-----------------------------------------------------------------------------
\* Impact: a graph of two namespaces with references between them; flows: calls
\* and guessed calls among three nodes, and an import

Pairs == {p \in (1 .. 4) \X (1 .. 4) : p[1] # p[2]}
GraphEdge(p, kind) == [namespace |-> IF p[1] = 4 \/ p[2] = 4 THEN "b" ELSE "a",
                       from |-> p[1], to |-> p[2], kind |-> kind]
Refs == {[namespace |-> "a", from |-> p[1], to |-> p[2], status |-> status] :
            p \in {<<2, 4>>, <<4, 1>>}, status \in {"resolved", "dead"}}
MCGraphs == [edges : UpTo({GraphEdge(p, "calls") : p \in Pairs}, 2), refs : UpTo(Refs, 1)]
MCImpactRequests == [cross : BOOLEAN, start : {1}, depth : 1 .. 3, maxDepth : {0, 2}, maxNodes : {0, 2, 3}]

FlowPairs == {<<1, 2>>, <<1, 3>>, <<2, 3>>, <<3, 2>>}
MCCalls ==
    UpTo({GraphEdge(p, kind) : p \in FlowPairs,
          kind \in {"calls", "fallback_calls", "imports_from"}}, 3)
MCFlowRequests == [start : {1}, maxNodes : {0, 2}, fallback : BOOLEAN]
MCFlowNodes == {[id |-> n, kind |-> IF n = 3 THEN "type" ELSE "function"] : n \in 1 .. 3}

-----------------------------------------------------------------------------
\* Changes: three nodes, two in one file, up to two hunks; two stored flows

ChangedNodes == {[id |-> 1, file |-> 1, first |-> 1, last |-> 3, name |-> 1],
                 [id |-> 2, file |-> 1, first |-> 3, last |-> 4, name |-> 2],
                 [id |-> 3, file |-> 2, first |-> 1, last |-> 2, name |-> 1]}
Hunks == [file : {1, 2}, first : 1 .. 4, last : 1 .. 4]
StoredFlows == {[id |-> 1, name |-> 2, members |-> {1, 2}], [id |-> 2, name |-> 2, members |-> {3}],
                [id |-> 3, name |-> 1, members |-> {2, 3}]}
MCDiffs ==
    [nodes : {ChangedNodes}, files : {{1, 2}, {1}},
     hunks : UpTo({h \in Hunks : h.first <= h.last}, 2),
     outgoing : {<<0, 0, 0>>, <<1, 0, 3>>}, flows : {StoredFlows}]
MCPageRequests ==
    [of : {"risks"}, limit : 0 .. 2, offset : 0 .. 2] \union [of : {"flows"}, limit : 1 .. 2, offset : 0 .. 2]
    \union {[of |-> of, limit |-> 4, offset |-> 0] : of \in {"risks", "flows"}}
    \union {[of |-> of, limit |-> 1, offset |-> -1] : of \in {"risks", "flows"}}

-----------------------------------------------------------------------------
\* Resolution: a file with a caller, a test, a method and a function, and up
\* to seven more nodes, some of them added later

FileA == <<"app", "a">>  FileS == <<"app", "s">>  FileG == <<"lib", "db", "g">>  FileH == <<"db", "h">>
Node(id, kind, file, qn, lang, first, last) ==
    [id |-> id, kind |-> kind, file |-> file, qn |-> qn, name |-> Last(qn), lang |-> lang,
     first |-> first, last |-> last]
Fixed(lang) ==
    {Node(1, "file", FileA, FileA, lang, 1, 20),
     Node(2, "function", FileA, <<"app", "Run">>, lang, 2, 4),
     Node(3, "test", FileA, <<"app", "TestRun">>, lang, 6, 8),
     Node(4, "function", FileA, <<"app", "Disk", "Put">>, lang, 10, 12),
     Node(5, "function", FileA, <<"app", "Get">>, lang, 14, 16)}
Optional(lang) ==
    {{Node(6, "type", FileS, <<"app", "Store">>, lang, 1, 3)},
     {Node(7, "class", FileS, <<"app", "Disk">>, lang, 5, 9)},
     {Node(8, "function", FileS, <<"app", "Disk", "Get">>, lang, 6, 7)},
     {Node(9, "file", FileG, FileG, lang, 1, 5)},
     {Node(10, "function", FileG, <<"db", "Get">>, lang, 1, 5)},
     {Node(11, "file", FileH, FileH, lang, 1, 1),
      Node(12, "function", FileH, <<"db", "Get">>, lang, 1, 1)}}
Edge(kind, line, source, target) ==
    [kind |-> kind, file |-> FileA, line |-> line, source |-> source, target |-> target,
     scoped |-> FALSE, concrete |-> <<>>, from |-> 0, to |-> 0]
CallEdges == {Edge("calls", line, <<>>, target) : line \in {3, 7, 11},
            target \in {<<"Get">>, <<"Put">>, <<"Store", "Get">>, <<"db", "Get">>}}
Implements == Edge("implements", 1, <<"Disk">>, <<"Store">>)
OtherEdges ==
    {Edge("imports_from", 1, <<>>, target) : target \in {<<"lib", "db">>, <<"x", "db">>, <<"app">>}}
    \union {Edge("inherits", 1, <<"Disk">>, <<"Store">>), Implements,
            Edge("contains", 1, <<>>, <<"db", "Get">>),
            [Edge("calls", 3, <<>>, <<"Store", "Get">>) EXCEPT !.scoped = TRUE],
            [Edge("calls", 3, <<>>, <<"Store", "Get">>) EXCEPT !.scoped = TRUE,
                                                           !.concrete = <<"app", "Disk">>]}
MCBatches ==
    {<<e>> : e \in CallEdges \union OtherEdges}
    \union {<<[e EXCEPT !.kind = "tested_by", !.source = <<"app", "TestRun">>], e>> :
               e \in {c \in CallEdges : c.line = 7}}
    \union {<<Implements, e>> : e \in {c \in CallEdges : c.line = 3}}
GraphsOf(lang, old) ==
    {[lang |-> lang, implements |-> {<<7, 6>>}, old |-> Fixed(lang) \union UNION old, added |-> UNION added] :
        added \in SUBSET (Optional(lang) \ old)}
\* The type Disk is known to implement Store when both are stored.
MCGivenNodes ==
    UNION {GraphsOf(lang, old) : <<lang, old>> \in
              UNION {{l} \X SUBSET Optional(l) : l \in {"go", "java", "rust", "python"}}}
MCImportPaths == {<<"lib", "db">>, <<"x", "db">>, <<"db">>, <<"app">>, <<"lib">>}

-----------------------------------------------------------------------------
\* Ingest: three files, the caller, a package it imports and the interface

SourceFile(path, nodes, lang, ifaces, edges) ==
    [path |-> path, size |-> 1, bytes |-> 2, nodes |-> nodes, lang |-> lang,
     package |-> IF lang = "go" THEN path[1] ELSE "", ifaces |-> ifaces, hash |-> "new",
     force |-> FALSE, edges |-> edges]
CallerEdges ==
    {<<Edge("calls", 3, <<>>, <<"Store", "Get">>)>>,
     <<Edge("calls", 7, <<>>, <<"Put">>), Edge("calls", 3, <<>>, <<"Store", "Get">>),
       Edge("imports_from", 1, <<>>, <<"lib", "db">>)>>,
     <<Edge("imports_from", 1, <<>>, <<"github.com", "x">>),
       Edge("imports_from", 1, <<>>, <<"lib", "none">>),
       Edge("calls", 3, <<>>, <<"None">>), Edge("tested_by", 7, <<"app", "TestRun">>, <<"Get">>)>>,
     <<Edge("contains", 1, <<>>, <<"app", "Run">>), Edge("imports_from", 1, <<>>, <<"lib", "db">>),
       Edge("calls", 11, <<>>, <<"db", "Get">>), Edge("calls", 3, <<>>, <<"Store", "Get">>)>>}
ContainsIn(path, name) == [Edge("contains", 1, <<>>, name) EXCEPT !.file = path]
Interfaces == {[name |-> "Store", methods |-> {"Get"}]}
ThreeFiles(lang, calls, own) ==
    <<SourceFile(FileA, Fixed(lang), lang, {}, calls),
      SourceFile(FileG, {Node(9, "file", FileG, FileG, lang, 1, 5),
                         Node(10, "function", FileG, <<"db", "Get">>, lang, 1, 5)}, lang, {},
                 <<ContainsIn(FileG, <<"db", "Get">>)>>),
      SourceFile(FileS, {Node(13, "file", FileS, FileS, lang, 1, 9),
                         Node(6, "type", FileS, <<"app", "Store">>, lang, 1, 3),
                         Node(7, "class", FileS, <<"app", "Disk">>, lang, 5, 9),
                         Node(8, "function", FileS, <<"app", "Disk", "Get">>, lang, 6, 7)},
                 lang, Interfaces,
                 <<ContainsIn(FileS, <<"app", "Disk">>)>>
                 \o (IF own THEN <<[Implements EXCEPT !.file = FileS]>> ELSE <<>>))>>
GivenSources == {ThreeFiles(l, c, own) : l \in {"go", "java"}, c \in CallerEdges, own \in BOOLEAN}
\* What was stored before: an entry of the parse cache and a graph of older files.
OldRecord(s) == [s[1] EXCEPT !.edges = <<>>, !.hash = "old"]
Cached(s) ==
    {[key |-> [path |-> FileA, hash |-> hash, version |-> version, context |-> context],
      readable |-> TRUE,
      payload |-> IF hash = "new" /\ version = "v1" /\ context = "c1" THEN s[1] ELSE OldRecord(s)] :
        hash \in {"new", "old"}, version \in {"v1", "v2"}, context \in {"c1", "c2"}}
    \union {[key |-> [path |-> FileA, hash |-> "new", version |-> "v1", context |-> "c1"],
             readable |-> FALSE, payload |-> OldRecord(s)]}
Splits(s) == {<<s>>, <<<<s[1]>>, <<s[2]>>, <<s[3]>>>>, <<<<s[1], s[2]>>, <<s[3]>>>>,
              <<<<s[3]>>, <<s[1], s[2]>>>>}
IngestRequests(s) ==
    [records : Splits(s), cached : Cached(s), version : {"v1"}, fallback : {FALSE},
     known : {{}}, maxFile : {0}, maxTotal : {0}]
    \union [records : Splits(s), cached : {CHOOSE c \in Cached(s) : TRUE}, version : {"", "v1"},
            fallback : BOOLEAN, known : SUBSET {FileA, FileS}, maxFile : {0, 1}, maxTotal : {0, 3, 6}]

-----------------------------------------------------------------------------
\* Packages: a Go package of up to three files whose clauses may differ, beside
\* another; or a workspace with aliases, and names that several languages use

MCLanguages == <<"go", "java", "javascript", "python", "typescript">>
PlainRepo == [module |-> <<"m">>, manifests |-> {}, workspaces |-> <<>>, pnpm |-> <<>>, configs |-> <<>>, failing |-> {}]
InPackage(f, clause, test, hash) ==
    [path |-> f.path, size |-> 1, bytes |-> 2, nodes |-> f.nodes, lang |-> f.lang, package |-> clause,
     clause |-> <<clause>>, test |-> test, ifaces |-> f.ifaces, hash |-> hash, force |-> FALSE,
     edges |-> f.edges]
GoFile(path, id, nodes, ifaces) ==
    SourceFile(path, {Node(id, "file", path, path, "go", 1, 9)} \union nodes, "go", ifaces, <<>>)
TypeFile == GoFile(<<"app", "a">>, 20, {Node(21, "type", <<"app", "a">>, <<"app", "Store">>, "go", 1, 2)}, Interfaces)
DiskFile(whole) ==
    GoFile(<<"app", "s">>, 22,
           {Node(23, "class", <<"app", "s">>, <<"app", "Disk">>, "go", 1, 2)}
           \union (IF whole THEN {Node(24, "function", <<"app", "s">>, <<"app", "Disk", "Get">>, "go", 3, 4)}
                  ELSE {}), {})
MoreFile(other) ==
    GoFile(<<"app", "t">>, 25,
           {IF other THEN Node(26, "function", <<"app", "t">>, <<"app", "Disk", "Put">>, "go", 1, 2)
            ELSE Node(27, "function", <<"app", "t">>, <<"app", "Disk", "Get">>, "go", 1, 2)}, {})
FarFile == GoFile(<<"db", "h">>, 28, {Node(29, "function", <<"db", "h">>, <<"db", "Disk", "Get">>, "go", 1, 2)}, {})
GoVersions(type, disk, more, far) ==
    SelectSeq(<<InPackage(TypeFile, "app", FALSE, "new"),
                InPackage(DiskFile(disk = "whole"), IF disk = "odd" THEN "odd" ELSE "app", FALSE, disk),
                InPackage(MoreFile(more = "put"), "app", FALSE, more),
                InPackage(FarFile, "db", FALSE, "new")>>,
              LAMBDA f : /\ f.path = TypeFile.path => type
                         /\ f.path = FarFile.path => far
                         /\ f.hash # "none")
GoChoices == {GoVersions(type, disk, more, far) : type \in BOOLEAN, disk \in {"none", "whole", "half", "odd"},
                more \in {"none", "get", "put"}, far \in BOOLEAN}

PlainFile(path, lang, clause) ==
    [path |-> path, size |-> 1, bytes |-> 1, nodes |-> {Node(30, "file", path, path, lang, 1, 1)}, lang |-> lang,
     package |-> "", clause |-> clause, test |-> FALSE, ifaces |-> {}, hash |-> "new", force |-> FALSE,
     edges |-> <<>>]
Mixed ==
    <<PlainFile(<<"src", "x">>, "java", <<"com", "acme">>), PlainFile(<<"test", "y">>, "java", <<"com", "acme">>),
      PlainFile(<<"com", "acme", "p">>, "python", <<>>), PlainFile(<<"com", "q">>, "python", <<>>),
      PlainFile(<<"ui", "i">>, "typescript", <<>>), PlainFile(<<"ui", "src", "u">>, "typescript", <<>>),
      PlainFile(<<"ui", "src", "v">>, "typescript", <<>>), PlainFile(<<"ui", "src", "w">>, "javascript", <<>>),
      PlainFile(<<"lib", "z">>, "typescript", <<>>)>>
NodeRepos ==
    [module : {<<>>}, manifests : {{[dir |-> <<>>, name |-> <<"root">>], [dir |-> <<"ui">>, name |-> <<"@acme", "ui">>]},
                                   {[dir |-> <<"ui">>, name |-> <<"@acme", "ui">>]}},
     workspaces : {<<>>, <<[exclude |-> FALSE, parts |-> <<"**">>]>>},
     pnpm : {<<>>, <<[exclude |-> FALSE, parts |-> <<"*">>], [exclude |-> TRUE, parts |-> <<"ui">>]>>},
     configs : {<<>>,
                <<[dir |-> <<"ui">>, leaf |-> TRUE, parent |-> 2, base |-> <<>>,
                   paths |-> <<[alias |-> <<"@">>, target |-> <<"src">>]>>],
                  [dir |-> <<>>, leaf |-> FALSE, parent |-> 1, base |-> <<>>,
                   paths |-> <<[alias |-> <<"util">>, target |-> <<"lib">>],
                               [alias |-> <<"@">>, target |-> <<"ui", "src">>]>>]>>,
                <<[dir |-> <<>>, leaf |-> TRUE, parent |-> 0, base |-> <<"ui">>,
                   paths |-> <<[alias |-> <<"util">>, target |-> <<"src">>],
                               [alias |-> <<"root">>, target |-> <<"src">>]>>]>>},
     failing : {{}, {"javascript"}}]
Tree(repo, files) == [repo |-> repo, files |-> files]
\* The workspace was another directory, with the name it has now; the aliases were
\* of what is another directory now, and no file has changed.
Elsewhere(path) == [i \in DOMAIN path |-> IF path[i] = "ui" THEN "web" ELSE path[i]]
MovedRepo(r) ==
    [r EXCEPT !.manifests = {[m EXCEPT !.dir = Elsewhere(@)] : m \in @},
              !.configs = [c \in DOMAIN @ |-> [@[c] EXCEPT !.dir = Elsewhere(@), !.base = Elsewhere(@)]]]
MovedFiles == [i \in DOMAIN Mixed |-> PlainFile(Elsewhere(Mixed[i].path), Mixed[i].lang, Mixed[i].clause)]
OtherAliases(r) ==
    [r EXCEPT !.configs = [c \in DOMAIN @ |->
        [@[c] EXCEPT !.paths = [p \in DOMAIN @ |-> [@[p] EXCEPT !.target = IF @ = <<"src">> THEN <<>> ELSE <<"src">>]]]]]
NodeHistories(r) ==
    LET now == Tree(r, Mixed)
        others == {Tree(MovedRepo(r), MovedFiles), Tree(OtherAliases(r), Mixed)}
    IN  {<<Tree(r, <<>>)>>, <<Tree(r, Tail(Mixed))>>}
        \union {<<other>> : other \in others} \union {<<now, other>> : other \in others}
MCPackages ==
    {[repo |-> PlainRepo, files |-> f, before |-> {<<Tree(PlainRepo, b)>> : b \in GoChoices}] : f \in GoChoices}
    \union {[repo |-> r, files |-> Mixed, before |-> NodeHistories(r)] : r \in NodeRepos}
\* Every order of the first three files.
MCWalks(files) ==
    IF Len(files) < 3 THEN {files}
    ELSE {[i \in DOMAIN files |-> IF i <= 3 THEN files[o[i]] ELSE files[i]] : o \in Orders({1, 2, 3})}

-----------------------------------------------------------------------------
\* Files: every layout of up to four lines, and up to three captures of two names

MCFiles ==
    {[lines |-> l, captures |-> <<>>] : l \in UNION {Layouts(n) : n \in 1 .. 4}}
    \union {[lines |-> <<>>, captures |-> c] : c \in UpTo(SomeCaptures, 2)}
FileReadings(f) ==
    IF f.lines # <<>>
    THEN {Source(f.lines, lang, innerFirst) : lang \in {"go", "python", "rust"}, innerFirst \in BOOLEAN}
    ELSE {CapturedFile(c) : c \in {d \in {Append(f.captures, e) : e \in SomeCaptures} : InTreeOrder(d)}}

-----------------------------------------------------------------------------
\* The handlers

\* The caller's file was stored with another content, the interface's as it
\* is, and a file that is gone defined the function the caller imports.
GoneFile == SourceFile(FileH, {Node(12, "function", FileH, <<"db", "Get">>, "go", 1, 1)}, "go", {}, <<>>)
HashesOf(known) == [p \in known \union {FileH} |-> IF p = FileA THEN "old" ELSE "new"]
StoredBefore(s, known) ==
    LET old == SelectSeq(<<s[1], s[3]>>, LAMBDA f : f.path \in known)
    IN  StagedSync(EmptyGraph, <<>>, <<Append(old, GoneFile)>>, {}, FALSE)
ParsedFiles(s, r) ==
    FoldLeft(LAMBDA run, f :
                LET one == ParseBuildInput(run.cache, f, r.version, "c1")
                IN  [cache |-> one.cache, files |-> Append(run.files, one.record)],
             [cache |-> {r.cached}, files |-> <<>>], s).files

IngestAnswer(r, before, parsed) ==
    [before |-> before, parsed |-> parsed,
     built |-> Build(before, parsed, r.maxFile, r.maxTotal, r.fallback),
     synced |-> [records \in {r.records, <<given.has>>} |->
                    StagedSync(before, HashesOf(r.known), records, {FileH}, r.fallback)]]

IngestFiles ==
    \E r \in IngestRequests(given.has) :
        Handle(r, IngestAnswer(r, StoredBefore(given.has, r.known), ParsedFiles(given.has, r)))

RewriteCalls ==
    \E call \in CallsIn(given.has) :
        Handle(call, [callee |-> Lang!RewriteCall(given.has, PackagesOfImports, call).callee,
                      edges |-> Lang!AdditionalEdges(given.has, PackagesOfImports)])

ReadWiki == \E r \in WikiRequests(given.has) : Handle(r, AskWiki(given.has, r))

Init ==
    /\ Unasked
    /\ \/ Served
       \/ Built
       \/ \E s \in GivenSources : given = [of |-> "files", has |-> s]
       \/ \E p \in GivenPrograms : given = [of |-> "program", has |-> p]
       \/ \E n \in GivenWikis : given = [of |-> "wiki", has |-> n]

Next ==
    \/ Serve
    \/ Work
    \/ given.of = "files" /\ IngestFiles
    \/ given.of = "program" /\ RewriteCalls
    \/ given.of = "wiki" /\ ReadWiki

Spec == Init /\ [][Next]_<<given, asked, answer>>

-----------------------------------------------------------------------------
\* Properties

\* A build that is let in stores every node of every file, uses a cached parse
\* only when it is the parse of this content, version and context, and lets no
\* edge vanish: whatever the chunks and flushes, it becomes a row, waits as a
\* candidate that is counted, or is an import from elsewhere.  So does every
\* edge of a file that a staged synchronisation takes up.
EdgeSettled(g, e) ==
    \/ \E r \in g.rows : Fingerprint(r) = e
    \/ e \in g.waiting
    \/ e.kind = "imports_from" /\ LikelyExternal(e.target)
RowsStand(g) ==
    \A r \in g.rows : {r.from, r.to} \subseteq {n.id : n \in g.nodes}
Synced == Reply.synced[Request.records]
IngestLosesNothing ==
    Answered("files") =>
        LET s == given.has  built == Reply.built
            refused == \/ Request.maxTotal \in 1 .. 5
                       \/ Request.maxFile # 0 /\ \E i \in DOMAIN s : s[i].size > Request.maxFile
        IN  /\ Reply.parsed = s
            /\ IF refused THEN built = Reply.before
               ELSE /\ built.nodes = UNION {s[i].nodes : i \in DOMAIN s}
                    /\ \A i \in DOMAIN s : \A e \in Range(s[i].edges) : EdgeSettled(built, e)
                    /\ built.dropped = Cardinality(built.waiting)
            /\ \A i \in DOMAIN s :
                  Changed(HashesOf(Request.known), s[i]) =>
                      \A e \in Range(s[i].edges) : EdgeSettled(Synced, e)
            /\ RowsStand(built) /\ RowsStand(Synced)

\* A staged synchronisation gives the same graph however the spool splits the
\* files into records: a call sees an interface's implementation even when it
\* is staged in a later record.
SplitDoesNotMatter ==
    Answered("files") => Synced = [Reply.synced[<<given.has>>] EXCEPT !.samples = Synced.samples]

\* After an update of a tree whose directories hold one package each, the
\* structural implementations are those a build finds, every package has its node,
\* and its edges to the files it has now, unless a package of its name was in
\* another directory before: updates never remove a package's node, and of two
\* with one name neither gets an edge, so that such a package keeps at most what it
\* had there.  What else stays are package nodes that nothing declares any more,
\* and their edges, to files that exist.
Structural(g) == {r \in g.rows : r.kind = "implements" /\ r.line = 0}
WellKept(files) ==
    \A i, j \in DOMAIN files : (files[i].clause = files[j].clause) = (Front(files[i].path) = Front(files[j].path))
LeftElsewhere(ns, p) == \E n \in ns.packages : n.qn = p.path /\ n.file # p.dir
PackagesFollowFiles ==
    Answered("packages") /\ (given.has.repo.module = <<"m">> => WellKept(given.has.files)) =>
        LET built == Reply.built  updated == Reply.updated
            FilesIn(ns, p) == {x.file : x \in {y \in ns.members : y.node = PackageNode(p)}}
        IN  /\ Structural(updated.graph) = Structural(built.graph)
            /\ built.packages \subseteq updated.packages
            /\ \A x \in updated.members : \E n \in updated.graph.nodes : n.kind = "file" /\ n.file = x.file
            /\ \A p \in UNION Reply.found :
                  /\ FilesIn(built, p) = p.files
                  /\ IF LeftElsewhere(updated, p) THEN FilesIn(updated, p) \subseteq FilesIn(Reply.stored, p)
                     ELSE FilesIn(updated, p) = p.files

\* Comment lines in a row right above a declaration.
DocRun(l, n) ==
    {i \in 1 .. n.first - 1 : \A k \in i .. n.first - 1 : l[k] \in Comments}
\* No other comment is near: since the last code above, or on the line itself.
OnlyDoc(l, n) ==
    LET near == {i \in Since(SourceLines(l), n) .. n.first : i # 0}
    IN  {i \in near : l[i] \in Comments \union Trailing} = DocRun(l, n)
\* Texts count unless they follow a tag that was refused.
KeptLines(l, n) ==
    {i \in DocRun(l, n) :
        \/ l[i] = "tag"
        \/ /\ l[i] = "doc"
           /\ \A j \in DocRun(l, n) :
                 j < i /\ l[j] # "doc" /\ (\A k \in j + 1 .. i : l[k] = "doc") => l[j] = "tag"}

\* The annotation of a declaration speaks only of comments with no code between
\* them and the declaration, of comments in one row with such a comment (the
\* walker takes a comment behind code into the row), or of its docstring; and
\* when the lines right above are comments and no other comment is near, it says
\* all of them but the tags the parser refuses.  What an earlier version of the
\* file said is gone.
DocsReachTheirDeclaration ==
    Answered("source") /\ given.has.lines # <<>> =>
        LET l == given.has.lines
            At(n) == Key(n)
            said(n) == IF At(n) \in DOMAIN Reply.db.annotations
                       THEN LinesSaid(Reply.db.annotations[At(n)]) ELSE {}
        IN  \A n \in Range(Symbols(Reply.parsed.nodes)) :
                /\ \A i \in said(n) :
                      \/ /\ i < n.first
                         /\ \A k \in i .. Since(SourceLines(l), n) : l[k] \in Comments \union Trailing
                      \/ i > n.last /\ l[i] = "docstring"
                /\ DocRun(l, n) # {} /\ OnlyDoc(l, n) => said(n) = KeptLines(l, n)

\* A call that is rewritten names the type the file declares its receiver with,
\* as the imports have it, and keeps its method; a receiver whose every hop has a
\* type that is known is rewritten; and the hierarchy has the same name for the
\* same type.  This asks that a name has one type in the whole file, that no
\* call stands in the receiver, and of the JVM languages that no type is Any or
\* Object and an import gives its type no other name (for the hierarchy: gives
\* no name at all); without that the rewriter may name another type.
RewritesNameDeclaredTypes ==
    Answered("program") /\ Clear(given.has, Request) =>
        LET file == given.has  meant == MeantCallee(file, Request)
        IN  /\ Reply.callee # Request.callee => Reply.callee = meant
            /\ meant # <<>> /\ SeenWhole(file, Request) => Reply.callee = meant
            /\ \A e \in Reply.edges : e.kind = "implements" /\ ~Renames(file) =>
                  \E t \in HierarchyTypes(file) : Meaning(file, t) \in {<<>>, e.target}

\* The browser, that opens the tree level by level, sees what the whole tree has:
\* the same nodes in the same order, with a mark where there is more.  Where a
\* package has something below that is not directly in it, the browser cannot
\* get there, but what it sees is in the whole tree.  What the whole tree has is
\* found at every depth, except that the browser names the root by no name: by
\* the name it has in the answers it is found in the whole tree only.
LazyTreeIsFullTree ==
    Answered("wiki") /\ Request.of = "tree" /\ Reply.status # 400 =>
        LET full == {n \in WholeTree(given.has) : n.id = NamedBy(Request.id)}
            AllIn(tree) == \A n \in Range(Wk!Preorder(tree)) : \E m \in WholeTree(given.has) : m.id = n.id
        IN  /\ (Reply.status = 404) = (full = {} \/ (Request.id = RootId /\ Request.depth > 0))
            /\ Request.depth > 0 /\ Reply.status = 200 =>
                  /\ AllIn(Reply.root)
                  /\ ~Nested(given.has, Request.id) => \E n \in full : SameUpTo(Reply.root, n, Request.depth)

\* What a search or a reference finds can be opened and is what was found, unless
\* two symbols share a qualified name; a reference that fits one node leads the
\* tree and the graph to that node, and its document is that of the file its
\* details are in; edges of the graph view join nodes of it; and a named
\* namespace shows no document but its own.
WikiAnswersOpen ==
    Answered("wiki") =>
        LET nodes == given.has
            Opens(n) ==
                LET base == Wk!LazyBaseNode(nodes, {}, OpenedBy(n.id))
                IN  base # <<>> /\ (Cardinality({m \in Range(nodes) : m.qn = n.id[2]}) < 2 =>
                                       <<base[1].label, base[1].kind, base[1].details>> = <<n.label, n.kind, n.details>>)
            fitting == {n \in Range(nodes) : Wk!FitsRef(n, Request)}
            Own(shown) == "file" \in DOMAIN shown => IsPrefix(<<"namespaces", "b">>, shown.file)
        IN  CASE Request.of = "search" /\ Reply.status = 200 -> \A i \in DOMAIN Reply.results : Opens(Reply.results[i].node)
              [] Request.of = "ref" /\ Reply.status = 200 ->
                   LET target == Reply.target
                   IN  /\ target.tree # <<>> => Opens(target.tree[1])
                       /\ Request.symbol # <<>> /\ Cardinality(fitting) = 1 =>
                             Range(target.details) = fitting /\ Range(target.graph) = fitting
                       /\ Request.symbol = <<>> /\ target.graph # <<>> => IsPrefix(Request.path, target.graph[1].path)
                       /\ target.doc # <<>> /\ target.details # <<>> => target.doc = Wk!DocPath(target.details[1].path)
              [] Request.of = "ref" /\ Reply.status = 404 -> fitting = {}
              [] Request.of = "graph" /\ Reply.status = 200 ->
                   /\ \A e \in Range(Reply.edges) : {e.from, e.to} \subseteq {n.id : n \in Range(Reply.nodes)}
                   /\ ~Reply.truncated => Range(Reply.nodes) = Range(nodes)
              [] Request.of = "doc" /\ Request.namespace = "b" ->
                   Own(Reply) /\ ("items" \in DOMAIN Reply => \A item \in Range(Reply.items) : Own(item))
              [] OTHER -> TRUE

=============================================================================
