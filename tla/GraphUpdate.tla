---------------------------- MODULE GraphUpdate ----------------------------
(***************************************************************************)
(* The graph of one namespace under full builds (Service.Build) and        *)
(* incremental updates (Service.Update) of internal/app/ingest/workflow.   *)
(* The graph keeps, for every stored file, the definitions of its text,    *)
(* and for every call in it either an edge to the file that defines the    *)
(* callee or, if none could be found, a row of the unresolved-edge index.  *)
(*                                                                         *)
(* An operation walks the source tree, then applies what it read in one    *)
(* transaction; a transaction that fails changes nothing.  The tree may    *)
(* change while it is walked, so a walk is any function from files to what *)
(* was found: a text, nothing, or a file that could not be read.  An       *)
(* update that meets a new directory may hand over to a full build, which  *)
(* walks the tree again.  The build has a transaction of its own, but as   *)
(* it keeps nothing of the graph it finds, the two are one step here.      *)
(*                                                                         *)
(* Calls stand for the edges between files; a text is the set of names it  *)
(* defines and the set of calls it makes, and its hash is the text itself. *)
(***************************************************************************)
EXTENDS Naturals

CONSTANTS
    Files,
    Directories,
    DirOf,        \* the directory of a file
    Packages,
    PackageOf,    \* the package a file declares
    Names,        \* simple names of functions
    Texts,        \* contents a file may have
    Scopes,       \* what include paths may select, Files when there are none
    None,         \* no such file
    Unreadable    \* a file that is there and cannot be read

Call == [package : Packages, name : Names]
Content == [defs : SUBSET Names, calls : SUBSET Call]

ASSUME GraphAssumption ==
    /\ DirOf \in [Files -> Directories]
    /\ PackageOf \in [Files -> Packages]
    /\ Texts \subseteq Content
    /\ Scopes \subseteq SUBSET Files
    /\ None \notin Texts
    /\ Unreadable \notin Texts
    /\ None # Unreadable

VARIABLES
    stored,      \* the content the graph holds of a file, by its nodes
    edges,       \* resolved calls
    candidates,  \* the unresolved-edge index
    ready,       \* whether a build by this version has filled that index
    docs,        \* the content the search documents of a file were made of
    read,        \* files the last operation read
    spared       \* files the last operation, an update, could not read

vars == <<stored, edges, candidates, ready, docs, read, spared>>

\* What the actions depend on: read and spared are history for the properties.
graphState == <<stored, edges, candidates, ready, docs>>

Reference == [from : Files, call : Call]
Edge == [ref : Reference, to : Files]
Walk == [Files -> Texts \union {None, Unreadable}]

Init ==
    /\ stored = [f \in Files |-> None]
    /\ edges = {}
    /\ candidates = {}
    /\ ready = FALSE
    /\ docs = stored
    /\ read = {}
    /\ spared = {}

-----------------------------------------------------------------------------
(* Resolution: a call names a package and a function of it.  It goes to the *)
(* only file that defines that qualified name, else to the only file that  *)
(* defines the bare name in the caller's own package, else to the caller's *)
(* own file.                                                               *)

Present(graph) == {f \in Files : graph[f] # None}

Definers(graph, package, name) ==
    {f \in Files : PackageOf[f] = package /\ graph[f] # None /\ name \in graph[f].defs}

IsSingleton(S) == \E x \in S : S = {x}

Targets(graph, r) ==
    LET qualified == Definers(graph, r.call.package, r.call.name)
        own == Definers(graph, PackageOf[r.from], r.call.name)
    IN  IF IsSingleton(qualified) THEN qualified
        ELSE IF IsSingleton(own) THEN own
        ELSE own \intersect {r.from}

References(graph, files) ==
    {r \in [from : files \intersect Present(graph), call : Call] :
        r.call \in graph[r.from].calls}

Links(graph, refs) == UNION {[ref : {r}, to : Targets(graph, r)] : r \in refs}
Dangling(graph, refs) == {r \in refs : Targets(graph, r) = {}}

-----------------------------------------------------------------------------
(* What an update makes of its walk.  known is what it takes for stored:   *)
(* the files in its scope, or all of them if it replaces the graph.        *)

Known(scope, replace) ==
    IF replace THEN Present(stored) ELSE Present(stored) \intersect scope

CanBuild(scope, replace) == replace \/ scope = Files

ReadFiles(walk) == {f \in Files : walk[f] \in Texts}
UnreadableFiles(walk) == {f \in Files : walk[f] = Unreadable}

Added(walk, known) == ReadFiles(walk) \ known
Unchanged(walk, known) == {f \in known : walk[f] = stored[f]}

\* Mutant of Deleted: a file that could not be read is taken for deleted.
DeletedOrUnreadable(walk, known) == known \ ReadFiles(walk)

Deleted(walk, known) == {f \in known : walk[f] = None}

\* Mutant of EdgeSources: only the changed files' own edges are looked at.
OutgoingSources(walk, known) ==
    {e.ref.from : e \in {d \in edges : d.ref.from \in known \ Unchanged(walk, known)}}

\* Files with an edge from or to a file that changed or is missing.
EdgeSources(walk, known) ==
    LET changed == known \ Unchanged(walk, known)
    IN  {e.ref.from : e \in {d \in edges : d.ref.from \in changed \/ d.to \in changed}}

Peers(walk, known) ==
    {g \in Files : \E f \in Added(walk, known) : DirOf[g] = DirOf[f]}

\* A file was added to a directory without stored files, or whose stored files
\* are all missing from its package; package discovery gives nothing when any
\* file cannot be read.
NewDirectory(walk, known) ==
    \E f \in Added(walk, known) :
        LET members == {g \in known : DirOf[g] = DirOf[f]}
        IN  \/ members = {}
            \/ UnreadableFiles(walk) = {} /\ members \intersect ReadFiles(walk) = {}

FallsBack(walk, known, canBuild) ==
    /\ canBuild
    /\ ~ready
    /\ UnreadableFiles(walk) = {}
    /\ NewDirectory(walk, known)

\* Unchanged files that are parsed all the same.
Forced(walk, known, everything) ==
    Unchanged(walk, known) \intersect
        IF everything THEN Files ELSE EdgeSources(walk, known) \union Peers(walk, known)

-----------------------------------------------------------------------------
(* The transaction of an update.  The nodes of a parsed or deleted file go *)
(* with every edge from or to them; then all parsed files are stored, and  *)
(* only then are their calls resolved.                                     *)

Parsed(walk, known, everything) ==
    (ReadFiles(walk) \ Unchanged(walk, known)) \union Forced(walk, known, everything)

After(walk, parsed, deleted) ==
    [f \in Files |-> IF f \in parsed THEN walk[f]
                     ELSE IF f \in deleted THEN None ELSE stored[f]]

\* Mutant of KeptEdges: only the edges owned by the cleared files are deleted.
KeptUnowned(cleared) == {e \in edges : e.ref.from \notin cleared}

KeptEdges(cleared) == {e \in edges : e.ref.from \notin cleared /\ e.to \notin cleared}
KeptCandidates(cleared) == {r \in candidates : r.from \notin cleared}

\* Mutant of Woken: only candidates of the added files themselves are replayed.
WokenAdded(graph, waiting, added) == {r \in waiting : r.from \in added}

\* All candidates of a file one of whose candidates has the name of a function
\* in an added file.
Woken(graph, waiting, added) ==
    LET matched == {r \in waiting : \E f \in added : r.call.name \in graph[f].defs}
    IN  {r \in waiting : r.from \in {m.from : m \in matched}}

\* Mutant of StillWaiting: all candidates of a file with a replayed one go.
StillWaitingElsewhere(waiting, replayed) ==
    {r \in waiting : r.from \notin {e.ref.from : e \in replayed}}

StillWaiting(waiting, replayed) == waiting \ {e.ref : e \in replayed}

\* Deleting nodes deletes their search documents; RebuildNodes makes new ones.
Indexed(graph, parsed, cleared) ==
    [f \in Files |-> IF f \in parsed THEN graph[f]
                     ELSE IF f \in cleared THEN None ELSE docs[f]]

Apply(walk, parsed, deleted, replayFor) ==
    LET graph == After(walk, parsed, deleted)
        cleared == (parsed \intersect Present(stored)) \union deleted
        refs == References(graph, parsed)
        waiting == KeptCandidates(cleared) \union Dangling(graph, refs)
        replayed == Links(graph, Woken(graph, waiting, replayFor))
    IN  /\ stored' = graph
        /\ edges' = KeptEdges(cleared) \union Links(graph, refs) \union replayed
        /\ candidates' = StillWaiting(waiting, replayed)
        /\ docs' = Indexed(graph, parsed, cleared)

\* A new directory is dealt with by replaying candidates if their index can be
\* relied on, else by parsing everything in scope.
Update(walk, scope, replace) ==
    LET known == Known(scope, replace)
        new == NewDirectory(walk, known)
        semiNaive == new /\ CanBuild(scope, replace) /\ ready
    IN  /\ ~FallsBack(walk, known, CanBuild(scope, replace))
        /\ Apply(walk, Parsed(walk, known, new /\ ~semiNaive), Deleted(walk, known),
                 IF semiNaive THEN Added(walk, known) ELSE {})
        /\ read' = ReadFiles(walk)
        /\ spared' = UnreadableFiles(walk)
        /\ UNCHANGED ready

\* The transaction of a build: everything is deleted and made anew.
Build(walk) ==
    LET graph == [f \in Files |-> IF f \in ReadFiles(walk) THEN walk[f] ELSE None]
        refs == References(graph, Files)
    IN  /\ stored' = graph
        /\ edges' = Links(graph, refs)
        /\ candidates' = Dangling(graph, refs)
        /\ ready' = TRUE
        /\ docs' = graph
        /\ read' = ReadFiles(walk)
        /\ spared' = {}

\* Files outside the scope of an operation are not walked.
Walks(scope) == {walk \in Walk : \A f \in Files \ scope : walk[f] = None}

\* The update finds it needs a full build, and the build walks the tree anew.
UpdateByBuild(scope, replace) ==
    /\ {walk \in Walks(scope) :
           FallsBack(walk, Known(scope, replace), CanBuild(scope, replace))} # {}
    /\ \E walk \in Walks(scope) : Build(walk)

\* A server with other parsers starts: its version is not the one in the index.
Upgrade ==
    /\ ready
    /\ ready' = FALSE
    /\ UNCHANGED <<stored, edges, candidates, docs, read, spared>>

Next ==
    \/ \E scope \in Scopes : \E replace \in {FALSE, scope # Files} :
          \/ \E walk \in Walks(scope) : Update(walk, scope, replace)
          \/ UpdateByBuild(scope, replace)
    \/ \E scope \in Scopes : \E walk \in Walks(scope) : Build(walk)
    \/ Upgrade

Spec == Init /\ [][Next]_vars

-----------------------------------------------------------------------------
(* Properties *)

\* Every variable keeps its shape.
TypeOK ==
    /\ stored \in [Files -> Texts \union {None}]
    /\ edges \subseteq Edge
    /\ candidates \subseteq Reference
    /\ ready \in BOOLEAN
    /\ docs \in [Files -> Texts \union {None}]
    /\ read \subseteq Files
    /\ spared \subseteq Files

\* No edge is stale: its caller is stored and still makes the call, its target is
\* stored and still defines the name, in the package called or in the caller's own.
EdgesSound ==
    \A e \in edges :
        /\ e.ref \in References(stored, Files)
        /\ e.to \in Definers(stored, e.ref.call.package, e.ref.call.name)
                     \union Definers(stored, PackageOf[e.ref.from], e.ref.call.name)

\* A call is in the graph once, as an edge or as a candidate, and every candidate
\* is a call of a stored file.
OneRowPerReference ==
    /\ \A d, e \in edges : d.ref = e.ref => d = e
    /\ \A e \in edges : e.ref \notin candidates
    /\ candidates \subseteq References(stored, Files)

\* The search documents are those of the stored content, whatever was reparsed,
\* cascaded away or left alone.
SearchInStep == docs = stored

\* The rows of the graph are facts: every call a file makes at most once, as an
\* edge that still holds or as a candidate that still waits; and what can be
\* found is what is stored.
RowsSound == EdgesSound /\ OneRowPerReference /\ SearchInStep

Accounted == candidates \union {e.ref : e \in edges}

\* The rows of a file are those a full build of the stored graph would give it.
MatchesBuild(f) ==
    LET refs == References(stored, {f})
    IN  /\ {e \in edges : e.ref.from = f} = Links(stored, refs)
        /\ {r \in candidates : r.from = f} = Dangling(stored, refs)

\* A file that was read and that changed, or called into a file that changed, has
\* after the operation the rows of a full build (forceReparseFiles and the
\* resolution after all batches).
SyncedFilesMatchBuild ==
    [][\A f \in read' :
          (\/ stored'[f] # stored[f]
           \/ \E e \in edges : e.ref.from = f /\ stored'[e.to] # stored[e.to])
          => MatchesBuild(f)']_vars

\* An added file resolves the waiting calls of its directory's files, and if it is
\* the first of its directory those of all files that were read: by the build, by
\* the replay of the candidates, or by parsing them again.
AddedFilesReachCallers ==
    [][\A f \in Files : stored[f] = None /\ stored'[f] # None =>
          \A r \in candidates' :
              /\ r.from \in read'
              /\ \/ DirOf[r.from] = DirOf[f]
                 \/ \A g \in Files : DirOf[g] = DirOf[f] => stored[g] = None
              => f \notin Targets(stored', r)]_vars

\* A call of a file that did not change drops out of the graph only with an edge
\* whose caller was not read, or whose target did not change and was reparsed all
\* the same.
NothingElseLost ==
    [][\A r \in Accounted \ Accounted' :
          \/ stored'[r.from] # stored[r.from]
          \/ \E e \in edges :
                e.ref = r /\ (r.from \notin read' \/ stored'[e.to] = stored[e.to])]_vars

\* A call of a file that was read and did not change stays in the graph, as an edge
\* or as a candidate: forceReparseFiles is there to "keep cross-file edges consistent".
ReadCallersKeepCalls ==
    [][\A r \in Accounted :
          r.from \in read' /\ stored'[r.from] = stored[r.from] => r \in Accounted']_vars

\* What an operation could read is stored after it, and an update keeps what the
\* graph holds of a file it could not read.
WalkApplied ==
    [][/\ read' \subseteq Present(stored')
       /\ \A f \in spared' : stored'[f] = stored[f]]_vars
=============================================================================
