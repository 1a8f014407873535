------------------------------- MODULE Handlers -------------------------------
(***************************************************************************)
(* Handlers that compute their answer from what the server has and from    *)
(* the request alone: the webhook (adapters/inbound/webhook/handler.go),   *)
(* the impact of a node, the trace of a flow and the flows a diff affects  *)
(* (adapters/inbound/mcp, handler_analysis.go), the page of risks that     *)
(* tools and prompts ask the analysis for (app/analyze/changes), and the   *)
(* resolver, that is asked for the edges of a batch before and after nodes *)
(* are added to a graph.  What the server has, its configuration, its      *)
(* graph or a diff, is there before the request.                           *)
(***************************************************************************)
EXTENDS Requests, Admission, Traversal, ChangeRisk, Resolution

CONSTANTS
    Configs,           \* the configurations a server may be given,
    DeliveriesFor(_),  \* the deliveries that may reach it under each of them,
    RepoNames,         \* the names of repositories there are
    Branches,          \* and of their branches
    GivenGraphs,       \* the edges and cross-namespace references of a graph,
    GivenCalls,        \* the edges that a flow reads, as sequences,
    FlowNodes,         \* and the nodes that flows may start from
    ImpactRequests,
    FlowRequests,
    GivenNodes,        \* the nodes of a graph, old and added, and who implements what,
    Batches,           \* the edges that are resolved together,
    ImportPaths,       \* and the paths of imports
    GivenDiffs,        \* diffs of a graph, with the flows that are stored,
    PageRequests       \* and the pages of risks and flows asked for

Segments == Seq(Seq(STRING))

\* A rule's path has a segment, a name may have none.
ASSUME AdmissionAssumption ==
    /\ \A c \in Configs : c.rules \in Seq([negate : BOOLEAN, path : Segments \ {<<>>},
                                           branches : Seq(SUBSET Branches)])
    /\ RepoNames \subseteq Segments
    /\ \A c \in Configs : \A d \in DeliveriesFor(c) : d.name \in Segments

EdgeRow == [namespace : STRING, from : Nat, to : Nat, kind : EdgeKinds]

\* Ids are unsigned.  A depth or limit below zero does what zero does: it is
\* only asked whether it is positive, or more than what was counted.
ASSUME TraversalAssumption ==
    /\ \A g \in GivenGraphs :
          /\ g.edges \in Seq(EdgeRow)
          /\ g.refs \in Seq([namespace : STRING, from : Nat, to : Nat, status : STRING])
    /\ GivenCalls \subseteq Seq(EdgeRow)
    /\ \A n \in FlowNodes : n.id \in Nat
    /\ ImpactRequests \subseteq [cross : BOOLEAN, start : Nat, depth : Nat,
                                 maxDepth : Nat, maxNodes : Nat]
    /\ FlowRequests \subseteq [start : Nat, maxNodes : Nat, fallback : BOOLEAN]

\* Texts are sequences of segments, of one at least; ids are primary keys.
Path == Seq(STRING) \ {<<>>}
GraphNode == [id : Nat \ {0}, kind : {"package", "file", "class", "function", "type", "test"},
              file : Seq(STRING), qn : Path, name : STRING, lang : STRING, first : Nat, last : Nat]
ParsedEdge == [kind : EdgeKinds \ {"fallback_calls", "cross_ref"}, file : Path, line : Nat,
               source : Seq(STRING), target : Path, scoped : BOOLEAN,
               concrete : Seq(STRING), from : {0}, to : {0}]

\* A file is named by its path, and nodes by their ids.
IsStore(nodes) ==
    /\ nodes \subseteq GraphNode /\ IsFiniteSet(nodes)
    /\ \A m, n \in nodes : m.id = n.id => m = n
    /\ \A n \in nodes : n.kind = "file" => n.file # <<>> /\ n.qn = n.file

ASSUME ResolutionAssumption ==
    /\ \A g \in GivenNodes : IsStore(g.old \union g.added)
    /\ Batches \subseteq Seq(ParsedEdge)
    /\ ImportPaths \subseteq Path

\* Rows of the tables of nodes and flows have primary keys, a node and a hunk a
\* first line and a last that is not before it.
ChangedNode == [id : Nat, file : Nat, first : Nat, last : Nat, name : Nat]
Hunk == [file : Nat, first : Nat, last : Nat]
StoredFlow == [id : Nat, name : Nat, members : SUBSET Nat]

ASSUME RiskAssumption ==
    /\ \A d \in GivenDiffs :
          /\ d.nodes \subseteq ChangedNode /\ IsFiniteSet(d.nodes)
          /\ \A m, n \in d.nodes : m.id = n.id => m = n
          /\ \A n \in d.nodes : n.first <= n.last /\ d.outgoing[n.id] \in Nat
          /\ d.hunks \in Seq(Hunk)
          /\ \A i \in DOMAIN d.hunks : d.hunks[i].first <= d.hunks[i].last
          /\ d.flows \subseteq StoredFlow /\ IsFiniteSet(d.flows)
          /\ \A f, g \in d.flows : f.id = g.id => f = g
    /\ PageRequests \subseteq [of : {"risks", "flows"}, limit : Int, offset : Int]
    /\ DefaultLimit \in Nat /\ MaxLimit \in Nat /\ DefaultLimit \in 1 .. MaxLimit

-----------------------------------------------------------------------------
Admit ==
    \E d \in DeliveriesFor(given.has) : Handle(d, ServeHTTP(given.has, d))

\* The namespace of the request is "a".
ImpactEdges(r) == EdgesSeen(given.has, "a", r.cross)

GetImpactRadius ==
    \E r \in ImpactRequests :
        Handle(r, ImpactRadiusBounded(ImpactEdges(r), r.start, r.depth, r.maxDepth, r.maxNodes))

TraceFlow ==
    \E r \in FlowRequests :
        Handle(r, TraceFlowBounded(given.has, r.start, r.maxNodes, r.fallback))

\* What the store gives of the nodes it has.
StoreOf(g, nodes) ==
    [nodes |-> nodes,
     implements |-> {p \in g.implements : {p[1], p[2]} \subseteq {n.id : n \in nodes}}]
BeforeAdding == StoreOf(given.has, given.has.old)
AfterAdding == StoreOf(given.has, given.has.old \union given.has.added)

ResolveEdges ==
    \E edges \in Batches :
        Handle(edges, [before |-> ResolveWithOptions(BeforeAdding, edges, FALSE),
                       after |-> ResolveWithOptions(AfterAdding, edges, FALSE),
                       guessed |-> ResolveWithOptions(AfterAdding, edges, TRUE)])

\* Go ranges over the hits, a map, in any order.
Orders(S) == {o \in [1 .. Cardinality(S) -> S] : Range(o) = S}

AskForRisks ==
    \E r \in PageRequests :
        /\ r.of = "risks"
        /\ Handle(r, {AnalyzePage(o, r.limit, r.offset) : o \in Orders(Candidates(given.has))})

GetAffectedFlows ==
    \E r \in PageRequests :
        /\ r.of = "flows"
        /\ Handle(r, IF r.limit \notin 1 .. MaxLimit \/ r.offset < 0 THEN [refused |-> TRUE]
                     ELSE [refused |-> FALSE,
                           page |-> AffectedFlowsPage(given.has.flows, ChangedNodeIDs(given.has),
                                                      r.limit, r.offset)])

\* A server that starts has a valid configuration.
Served ==
    \/ \E c \in Configs : ValidConfig(c) /\ given = [of |-> "delivery", has |-> c]
    \/ \E g \in GivenGraphs : given = [of |-> "impact", has |-> g]
    \/ \E e \in GivenCalls : given = [of |-> "flow", has |-> e]
    \/ \E g \in GivenNodes : given = [of |-> "edges", has |-> g]
    \/ \E d \in GivenDiffs : given = [of |-> "changes", has |-> d]

Serve ==
    \/ given.of = "delivery" /\ Admit
    \/ given.of = "impact" /\ GetImpactRadius
    \/ given.of = "flow" /\ TraceFlow
    \/ given.of = "edges" /\ ResolveEdges
    \/ given.of = "changes" /\ (AskForRisks \/ GetAffectedFlows)

ServeSpec == (Unasked /\ Served) /\ [][Serve]_<<given, asked, answer>>

-----------------------------------------------------------------------------
\* Properties

\* Two repositories of an owner and a name that a server which started lets in
\* never share a namespace, and thus neither a checkout nor a graph.
NamespacesKeptApart ==
    Answered("delivery") /\ Reply.added # <<>> /\ Plain(Request.name) =>
        \A n \in RepoNames, b \in Branches :
            /\ Plain(n) /\ CleanName(n)
            /\ LastMatchAllows(given.has.rules, n, b)
            /\ ExtractNamespace(n) = ExtractNamespace(Request.name)
            => n = Request.name

BallOf(rel, nodes, start, radius) ==
    [n \in Ball(rel, nodes, start, radius) |-> Distance(rel, nodes, start, n, radius)]

ImpactIsBall ==
    LET edges == ImpactEdges(Request)
        radius == IF Request.maxDepth > 0 /\ Request.depth > Request.maxDepth
                  THEN Request.maxDepth ELSE Request.depth
        dist == BallOf(Neighbourhood(edges), Nodes(edges, Request.start),
                       Request.start, radius)
    IN  SearchOf(Reply.nodes, Reply.truncated, DOMAIN dist, dist, Request.maxNodes)

\* What a node reaches by calls; more of them than there are lead nowhere new.
Reach(edges, start, fallback) ==
    BallOf(CallRelation(edges, fallback), Nodes(edges, start), start, Len(edges) + 1)

FlowIsReach ==
    LET dist == Reach(given.has, Request.start, Request.fallback)
    IN  SearchOf(Reply.members, Reply.truncated, DOMAIN dist, dist, Request.maxNodes)

StoredFlowsAreWhole ==
    \A f \in RebuildFlows(FlowNodes, given.has) :
        Range(f.members) = DOMAIN Reach(given.has, f.entry, TRUE)

\* A bounded search finds the nodes of its ball, nearest first, no node twice;
\* a limit cuts the farthest off and is reported exactly when it cut something.
\* A stored flow is the whole of what its entry point reaches by calls.
SearchesAreBalls ==
    /\ Answered("impact") => ImpactIsBall
    /\ Answered("flow") => FlowIsReach /\ StoredFlowsAreWhole

\* An edge that waits and that one of the added nodes resolves is among those
\* the replay takes.  An edge to a test waits under the name of its test: it is
\* taken when the call it was made of waits too, as edges are taken by file.
ReplayMissesNothing ==
    Answered("edges") =>
        LET waiting == {e \in Range(Reply.before) : Waits(e)}
            Resolved(i) == Reply.after[i].to \in {n.id : n \in given.has.added}
            CallWaits(i) ==
                \E c \in waiting : /\ c.kind = "calls"
                                   /\ c.file = Request[i].file /\ c.target = Request[i].target
        IN  \A i \in DOMAIN Request :
                /\ Reply.before[i] \in waiting /\ Resolved(i)
                /\ Request[i].kind = "tested_by" => CallWaits(i)
                => Reply.before[i] \in Replayed(waiting, given.has.added)

\* The lossy option changes no edge that resolves without it, marks what it
\* guesses, and no call ever leads to a node of another name; and the index of
\* file nodes and the scan of the store find the same files for an import.
ResolutionIsConservative ==
    Answered("edges") =>
        LET nodes == given.has.old \union given.has.added
        IN  /\ \A i \in DOMAIN Request :
                LET strict == Reply.after[i]  guessed == Reply.guessed[i]
                IN  /\ strict.to # 0 \/ guessed.to = 0 => guessed = strict
                    /\ guessed # strict => guessed.kind = "fallback_calls"
                    /\ guessed.kind \in {"calls", "fallback_calls"} /\ guessed.to # 0 =>
                          \E n \in nodes : /\ n.id = guessed.to
                                           /\ Last(guessed.target) \in {n.name, Last(n.qn)}
            /\ \A p \in ImportPaths : Find(Files(nodes), p) = BestMatch(Files(nodes), p)

\* A hit is a node of a changed file with a line that changed.
ChangedLine(diff, n) ==
    \E i \in DOMAIN diff.hunks, line \in n.first .. n.last :
        /\ diff.hunks[i].file = n.file
        /\ diff.hunks[i].first <= line /\ line <= diff.hunks[i].last
HitsAreChanged(diff) ==
    LET changed == {n \in diff.nodes : n.file \in diff.files /\ ChangedLine(diff, n)}
    IN  /\ {c.node : c \in Candidates(diff)} = changed
        /\ Range(ChangedNodeIDs(diff)) = {n.id : n \in changed}

\* How many of n items are on a page.
OnPage(n, limit, offset) ==
    IF offset >= n THEN 0 ELSE Smaller(limit, n - offset)

RisksCovered ==
    LET all == Candidates(given.has)
        limit == IF Request.limit <= 0 THEN DefaultLimit ELSE Request.limit
    IN  /\ \E page \in Reply :
            /\ Reply = {page}
            /\ page.refused = (limit > MaxLimit \/ Request.offset < 0)
            /\ ~page.refused =>
                  /\ Len(page.items) = OnPage(Cardinality(all), limit, Request.offset)
                  /\ \A i \in DOMAIN page.items : /\ page.items[i] \in all
                                                  /\ Rank(page.items[i], all) = Request.offset + i
                  /\ page.hasMore = (Cardinality(all) > Request.offset + limit)
        /\ limit <= MaxLimit =>
              \A order \in Orders(all) : RankedAsWhole(order, Walk(order, limit))

FlowsCovered ==
    LET changed == Range(ChangedNodeIDs(given.has))
        touched == {f \in given.has.flows : \E n \in f.members : n \in changed}
        page == Reply.page
    IN  ~Reply.refused =>
            /\ Len(page.items) = OnPage(Cardinality(touched), Request.limit, Request.offset)
            /\ \A i \in DOMAIN page.items :
                  \E f \in touched :
                      /\ FlowRank(f, touched) = Request.offset + i
                      /\ page.items[i] = [id |-> f.id, nodes |-> {n \in f.members : n \in changed}]
            /\ page.hasMore = (Cardinality(touched) > Request.offset + Request.limit)

\* Whatever order Go's map gives, a page of risks is the same window of the
\* ranking; who follows the pages reads every hit once, riskiest first; a hit is
\* a node with a changed line; and a page of affected flows is the same window
\* of the flows that a hit belongs to.
PagesCoverRanking ==
    Answered("changes") =>
        /\ HitsAreChanged(given.has)
        /\ IF Request.of = "risks" THEN RisksCovered ELSE FlowsCovered

=============================================================================
