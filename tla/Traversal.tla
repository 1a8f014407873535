------------------------------ MODULE Traversal ------------------------------
(***************************************************************************)
(* The bounded breadth-first searches of internal/app/analyze/impact and   *)
(* internal/app/analyze/flow, over the edges that the store or the cross-  *)
(* namespace reader returns, and the rebuild of the stored flows.  Edges   *)
(* are sequences because a limit makes the database's order matter.        *)
(***************************************************************************)
EXTENDS Naturals, Sequences, FiniteSets, SequencesExt

EdgeKinds ==
    {"calls", "fallback_calls", "imports_from", "inherits", "implements", "contains",
     "tested_by", "depends_on", "references", "cross_ref"}

CallKinds == {"calls", "fallback_calls"}

\* The elements that are in the set, in their order.
Kept(seq, set) ==
    LET kept[i \in 0 .. Len(seq)] ==
            IF i = 0 THEN <<>>
            ELSE IF seq[i] \in set THEN Append(kept[i - 1], seq[i]) ELSE kept[i - 1]
    IN  kept[Len(seq)]

-----------------------------------------------------------------------------
\* What the two readers return, in database order.

\* Resolved references take part in a traversal as edges of their own kind.
CrossRefEdges(refs) ==
    LET resolved == Kept(refs, {r \in Range(refs) : r.status = "resolved"})
    IN  [i \in DOMAIN resolved |->
            [namespace |-> resolved[i].namespace, from |-> resolved[i].from,
             to |-> resolved[i].to, kind |-> "cross_ref"]]

EdgesSeen(g, ns, cross) ==
    IF cross THEN g.edges \o CrossRefEdges(g.refs)
             ELSE Kept(g.edges, {e \in Range(g.edges) : e.namespace = ns})

EdgesFromNodes(edges, frontier) ==
    Kept(edges, {e \in Range(edges) : e.from \in Range(frontier)})

EdgesToNodes(edges, frontier) ==
    Kept(edges, {e \in Range(edges) : e.to \in Range(frontier)})

-----------------------------------------------------------------------------
\* ImpactRadiusBounded.  A search has visited `order`, found `next` for the
\* following hop, and is truncated once the limit kept a node out; 0 is no limit.

\* Mutant of Visit: the limit is looked at after the node has been added.
VisitBeforeLimit(s, n, maxNodes) ==
    IF s.truncated \/ n \in Range(s.order) THEN s
    ELSE [order |-> Append(s.order, n), next |-> Append(s.next, n),
          truncated |-> maxNodes > 0 /\ Len(s.order) >= maxNodes]

Visit(s, n, maxNodes) ==
    IF s.truncated \/ n \in Range(s.order) THEN s
    ELSE IF maxNodes > 0 /\ Len(s.order) >= maxNodes
         THEN [s EXCEPT !.truncated = TRUE]
         ELSE [s EXCEPT !.order = Append(@, n), !.next = Append(@, n)]

VisitAll(s, nodes, maxNodes) ==
    LET visits[i \in 0 .. Len(nodes)] ==
            IF i = 0 THEN s ELSE Visit(visits[i - 1], nodes[i], maxNodes)
    IN  visits[Len(nodes)]

Targets(edges) == [i \in DOMAIN edges |-> edges[i].to]
Sources(edges) == [i \in DOMAIN edges |-> edges[i].from]

\* One hop: everything the frontier points to, then everything that points to it.
Hop(s, edges, maxNodes) ==
    LET out == VisitAll([s EXCEPT !.next = <<>>],
                        Targets(EdgesFromNodes(edges, s.next)), maxNodes)
    IN  VisitAll(out, Sources(EdgesToNodes(edges, s.next)), maxNodes)

ImpactRadiusBounded(edges, start, depth, maxDepth, maxNodes) ==
    LET hops == IF maxDepth > 0 /\ depth > maxDepth THEN maxDepth ELSE depth
        search[d \in 0 .. hops] ==
            IF d = 0
            THEN [order |-> <<start>>, next |-> <<start>>, truncated |-> FALSE]
            ELSE IF search[d - 1].truncated \/ search[d - 1].next = <<>>
                 THEN search[d - 1]
                 ELSE Hop(search[d - 1], edges, maxNodes)
    IN  [nodes |-> search[hops].order, truncated |-> search[hops].truncated]

-----------------------------------------------------------------------------
\* TraceFlowBounded

\* Calls expand a flow, and so do references when the reader supplies them.
Expands(e, includeFallback) ==
    \/ e.kind \in {"calls", "cross_ref"}
    \/ e.kind = "fallback_calls" /\ includeFallback

\* A fallback edge is counted before the limit is looked at.
Follow(s, e, includeFallback, maxNodes) ==
    IF e.to \in s.visited \/ ~Expands(e, includeFallback) THEN s
    ELSE LET counted == [s EXCEPT !.fallbacks =
                            @ + (IF e.kind = "fallback_calls" THEN 1 ELSE 0)]
         IN  IF maxNodes > 0 /\ Cardinality(s.visited) >= maxNodes
             THEN [counted EXCEPT !.truncated = TRUE, !.stopped = TRUE]
             ELSE [counted EXCEPT !.visited = @ \union {e.to}, !.next = Append(@, e.to)]

\* The edges of one member: the limit breaks off this loop, not the one around it.
FollowFrom(s, current, edges, includeFallback, maxNodes) ==
    LET own == EdgesFromNodes(edges, <<current>>)
        follows[i \in 0 .. Len(own)] ==
            IF i = 0 THEN [s EXCEPT !.stopped = FALSE]
            ELSE IF follows[i - 1].stopped THEN follows[i - 1]
            ELSE Follow(follows[i - 1], own[i], includeFallback, maxNodes)
    IN  follows[Len(own)]

\* One level: its members join the flow, then their edges are followed.
Level(s, edges, includeFallback, maxNodes) ==
    LET level[i \in 0 .. Len(s.next)] ==
            IF i = 0 THEN [s EXCEPT !.members = @ \o s.next, !.next = <<>>]
            ELSE FollowFrom(level[i - 1], s.next[i], edges, includeFallback, maxNodes)
    IN  level[Len(s.next)]

\* No flow has more levels than there are edges to follow, plus the start.
TraceFlowBounded(edges, start, maxNodes, includeFallback) ==
    LET trace[k \in 0 .. Len(edges) + 1] ==
            IF k = 0
            THEN [members |-> <<>>, next |-> <<start>>, visited |-> {start},
                  truncated |-> FALSE, stopped |-> FALSE, fallbacks |-> 0]
            ELSE IF trace[k - 1].next = <<>> THEN trace[k - 1]
                 ELSE Level(trace[k - 1], edges, includeFallback, maxNodes)
        last == trace[Len(edges) + 1]
    IN  [members |-> last.members, truncated |-> last.truncated,
         fallbacks |-> last.fallbacks]

-----------------------------------------------------------------------------
\* Builder.Rebuild in one transaction: a flow for each entry point, and none
\* of the flows there were before.

FlowEntrypoints(nodes, edges) ==
    {n \in nodes : /\ n.kind \in {"function", "test"}
                   /\ ~\E i \in DOMAIN edges :
                         edges[i].to = n.id /\ edges[i].kind \in CallKinds}

RebuildFlows(nodes, edges) ==
    {[entry |-> n.id, members |-> TraceFlowBounded(edges, n.id, 0, TRUE).members] :
        n \in FlowEntrypoints(nodes, edges)}

-----------------------------------------------------------------------------
\* Reference definitions: the ball of a radius, by paths.

\* Two nodes are d hops apart or less when a path of d steps, each along an
\* edge of the relation or on the spot, joins them.
Within(rel, nodes, a, b, d) ==
    \E path \in [0 .. d -> nodes] :
        /\ path[0] = a /\ path[d] = b
        /\ \A i \in 0 .. d - 1 : path[i] = path[i + 1] \/ <<path[i], path[i + 1]>> \in rel

Nodes(edges, start) == {start} \union Range(Targets(edges)) \union Range(Sources(edges))

Neighbourhood(edges) ==
    LET forward == {<<edges[i].from, edges[i].to>> : i \in DOMAIN edges}
    IN  forward \union {<<p[2], p[1]>> : p \in forward}

CallRelation(edges, includeFallback) ==
    {<<edges[i].from, edges[i].to>> :
        i \in {j \in DOMAIN edges : Expands(edges[j], includeFallback)}}

\* For nodes no more than `most` hops apart.
Distance(rel, nodes, a, b, most) ==
    CHOOSE d \in 0 .. most :
        /\ Within(rel, nodes, a, b, d)
        /\ d > 0 => ~Within(rel, nodes, a, b, d - 1)

Ball(rel, nodes, start, d) == {n \in nodes : Within(rel, nodes, start, n, d)}

\* A search result within a ball: no node twice, the start first, nothing from
\* outside, nearer nodes first, and if the limit left nodes out then it was
\* reached, and none of those is nearer than one that was kept.
SearchOf(found, truncated, ball, dist, maxNodes) ==
    /\ Cardinality(Range(found)) = Len(found)
    /\ Range(found) \subseteq ball
    /\ \A i, j \in DOMAIN found : i < j => dist[found[i]] <= dist[found[j]]
    /\ truncated <=> maxNodes > 0 /\ Cardinality(ball) > maxNodes
    /\ IF truncated
       THEN /\ Len(found) = maxNodes
            /\ \A n \in Range(found), o \in ball \ Range(found) : dist[n] <= dist[o]
       ELSE Range(found) = ball
=============================================================================
