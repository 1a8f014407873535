-------------------------------- MODULE Builds --------------------------------
(***************************************************************************)
(* What a build makes of a tree and of one of its files, as requests: the  *)
(* packages of a tree, a build of them and an update of what a build       *)
(* stored before (app/ingest/workflow, packages.go and update.go); and one *)
(* file that is parsed and stored again, whatever the syntax tree gave the *)
(* walker (treesitter/walker.go, incremental.go).                          *)
(***************************************************************************)
EXTENDS Requests, Packages, Annotations

CONSTANTS
    GivenPackages,  \* a tree, its configuration and files, and what it was before,
    Languages,      \* in the order their packages are merged,
    Walks(_),       \* and the orders in which a tree may be walked
    GivenFiles,     \* files,
    Readings(_),     \* what their grammar may make of each,
    StoredFile      \* and what was stored of it before

\* A walk comes by every file.  A text has a length and is not before itself.
ASSUME PackagesAssumption ==
    /\ \A g \in GivenPackages :
          /\ Walks(g.files) # {}
          /\ \A w \in Walks(g.files) : w \in Seq(Range(g.files)) /\ Range(w) = Range(g.files)
          /\ \A i \in DOMAIN g.files : \A p \in NodePaths(g.repo, g.files[i]) :
                g.files[i].lang \in NodeLanguages => Width(p) \in Nat /\ ~Before(p, p)
          /\ g.files \in Seq(Range(g.files))
    /\ Languages \in Seq(STRING)

\* Captures come in the order of the tree, whole before part; only the wrapper
\* of a decorated definition may follow what it wraps.
Definitions(matches) == {i \in DOMAIN matches : matches[i].what = "definition"}
InTreeOrder(matches) ==
    \A i, j \in Definitions(matches) : i < j =>
        LET a == matches[i]  b == matches[j]
        IN  \/ a.first < b.first \/ (a.first = b.first /\ b.last <= a.last)
            \/ /\ a.name = b.name /\ a.last = b.last
               /\ \A k \in Definitions(matches) : k <= i \/ j <= k

\* A definition has a name, that is not the path of the file, and lines.
IsSource(s) ==
    /\ s.path \in STRING /\ s.lines \in Seq(STRING)
    /\ s.matches \in Seq(Range(s.matches))
    /\ \A i \in DOMAIN s.matches :
          LET m == s.matches[i]
          IN  /\ m.what \in {"package", "definition", "call", "import"}
              /\ m.what = "package" => m.name \in STRING
              /\ m.what \in {"call", "import"} => m.target \in STRING /\ m.line \in Nat
              /\ m.what = "definition" =>
                    /\ m.name \in STRING \ {"", s.path} /\ m.receiver \in STRING
                    /\ m.implements \subseteq STRING
                    /\ m.first \in Nat /\ m.last \in Nat /\ m.first <= m.last
    /\ InTreeOrder(s.matches)

ASSUME SourcesAssumption ==
    /\ \A f \in GivenFiles : \A s \in Readings(f) : IsSource(s)
    /\ StoredFile = [nodes |-> StoredFile.nodes, annotations |-> StoredFile.annotations, refused |-> FALSE]

-----------------------------------------------------------------------------
\* What the packages of a tree are in every order of the walk, what a build of
\* it stores, and an update of what is stored since it was other trees: a build of
\* the first, updated with each of the others.
HashesIn(files) == [p \in {files[i].path : i \in DOMAIN files} |->
                      (CHOOSE f \in Range(files) : f.path = p).hash]
StoredSince(trees) ==
    LET after[i \in 1 .. Len(trees)] ==
            IF i = 1 THEN BuildPackages(trees[1].repo, Languages, trees[1].files)
            ELSE UpdatePackages(after[i - 1], trees[i].repo, Languages, trees[i].files,
                                HashesIn(trees[i - 1].files))
    IN  after[Len(trees)]
UpdatePackageFiles ==
    \E before \in given.has.before :
        LET repo == given.has.repo  files == given.has.files
        IN  Handle(before,
                   [found |-> {CollectLanguagePackages(repo, Languages, w) : w \in Walks(files)},
                    built |-> BuildPackages(repo, Languages, files),
                    stored |-> StoredSince(before),
                    updated |-> StoredSince(Append(before, [repo |-> repo, files |-> files]))])

ParseFile == \E source \in Readings(given.has) : Handle(source, StoreFile(StoredFile, source, ""))

Built ==
    \/ \E p \in GivenPackages : given = [of |-> "packages", has |-> p]
    \/ \E f \in GivenFiles : given = [of |-> "source", has |-> f]

Work ==
    \/ given.of = "packages" /\ UpdatePackageFiles
    \/ given.of = "source" /\ ParseFile

BuildSpec == (Unasked /\ Built) /\ [][Work]_<<given, asked, answer>>

-----------------------------------------------------------------------------
\* Properties

\* The packages of a tree do not depend on the order of the walk: a path has a
\* package when all files that declare it agree, and no other language has it.
DeclaredBy(repo, files, lang) ==
    UNION {PackagesOfFile(repo, files[i]) : i \in {j \in DOMAIN files : files[j].lang = lang}}
AgreedIn(packages) == {p \in packages : \A q \in packages : q.path = p.path => Agree(p, q)}
AgreedPackages(repo, files) ==
    LET Agreed(lang) == AgreedIn(DeclaredBy(repo, files, lang))
        langs == Range(Languages) \ repo.failing
    IN  {[p EXCEPT !.files = UNION {q.files : q \in {o \in Agreed(p.lang) : o.path = p.path}}] :
            p \in {q \in UNION {Agreed(l) : l \in langs} :
                     \A l \in langs \ {q.lang} : \A o \in Agreed(l) : o.path # q.path}}
\* And where a directory has one path only, the names of its files start with
\* the name that imports of it get.
DiscoveryIgnoresOrder ==
    Answered("packages") =>
        LET found == AgreedPackages(given.has.repo, given.has.files)
        IN  /\ Reply.found = {found}
            /\ \A p \in found : \A f \in p.files :
                  p.lang \in NodeLanguages /\ (\A q \in found : q.dir = p.dir => q = p) =>
                      FilePackageImportPath(found, f) = ImportPackageContext(found)[p.path]

\* However many patterns of the query capture a symbol, and in whatever order,
\* the file has one node per qualified name and line: the store would refuse
\* the annotations of the whole batch otherwise.  No symbol is inside another
\* of its name.
ParseIsStorable ==
    Answered("source") =>
        LET nodes == Reply.parsed.nodes
            Inside(m, n) == n.first <= m.first /\ m.last <= n.last
        IN  /\ ~Reply.db.refused
            /\ \A i, j \in DOMAIN nodes : i # j =>
                  /\ Key(nodes[i]) # Key(nodes[j])
                  /\ nodes[i].name = nodes[j].name => ~Inside(nodes[i], nodes[j])
=============================================================================
