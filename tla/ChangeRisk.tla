------------------------------ MODULE ChangeRisk ------------------------------
(***************************************************************************)
(* Change analysis of internal/app/analyze/changes: the nodes a diff       *)
(* overlaps, their risk, the page of the riskiest, chosen with a heap that *)
(* keeps no more than the page needs, and the stored flows they belong to. *)
(*                                                                         *)
(* A diff names files and hunks; a node has a file, a range of lines, a    *)
(* qualified name and an id, all numbers here because only their order     *)
(* matters; so has a stored flow its name.  Go ranges over the hits, a     *)
(* map, in any order: `iteration` is that order.                           *)
(***************************************************************************)
EXTENDS Integers, Sequences, FiniteSets, Functions

CONSTANTS
    DefaultLimit,  \* defaultAnalyzePageLimit
    MaxLimit       \* maxAnalyzePageLimit

-----------------------------------------------------------------------------
\* collectDiffHunks and matchHunksToNodes

HunksByFile(hunks, f) == {i \in DOMAIN hunks : hunks[i].file = f}

Overlaps(h, n) == h.first <= n.last /\ h.last >= n.first

HunkCount(hunks, n) ==
    Cardinality({i \in HunksByFile(hunks, n.file) : Overlaps(hunks[i], n)})

Hits(nodes, files, hunks) ==
    {n \in nodes : n.file \in files /\ HunkCount(hunks, n) > 0}

\* The hits as candidates: outgoing edges weigh each hunk.
Candidates(diff) ==
    {[node |-> n,
      score |-> HunkCount(diff.hunks, n) * (diff.outgoing[n.id] + 1)] :
        n \in Hits(diff.nodes, diff.files, diff.hunks)}

\* The order of file, first line, name and id that breaks ties.
NodeBefore(m, n) ==
    \/ m.file < n.file
    \/ m.file = n.file /\ m.first < n.first
    \/ m.file = n.file /\ m.first = n.first /\ m.name < n.name
    \/ m.file = n.file /\ m.first = n.first /\ m.name = n.name /\ m.id < n.id

RiskBefore(a, b) == a.score > b.score \/ (a.score = b.score /\ NodeBefore(a.node, b.node))

-----------------------------------------------------------------------------
\* The heap keeps its worst candidate at the root.

Worst(heap) == CHOOSE w \in heap : \A c \in heap : c = w \/ RiskBefore(c, w)

\* Mutant of Retain: a candidate replaces the root when it is worse.
RetainWorse(heap, c, limit) ==
    IF Cardinality(heap) < limit THEN heap \union {c}
    ELSE IF RiskBefore(Worst(heap), c) THEN (heap \ {Worst(heap)}) \union {c} ELSE heap

Retain(heap, c, limit) ==
    IF Cardinality(heap) < limit THEN heap \union {c}
    ELSE IF RiskBefore(c, Worst(heap)) THEN (heap \ {Worst(heap)}) \union {c} ELSE heap

\* What the heap holds after each candidate.
Heaps(iteration, limit) ==
    LET heap[i \in 0 .. Len(iteration)] ==
            IF i = 0 THEN {} ELSE Retain(heap[i - 1], iteration[i], limit)
    IN  heap

TopRiskCandidates(iteration, limit) ==
    IF limit >= Len(iteration) THEN Range(iteration)
    ELSE Heaps(iteration, limit)[Len(iteration)]

\* The elements of a set in the order of a relation, as sort.Slice puts them.
InOrder(S, less) ==
    CHOOSE s \in [1 .. Cardinality(S) -> S] :
        \A i, j \in 1 .. Cardinality(S) : i < j => <<s[i], s[j]>> \in less

ByRisk(S) == {p \in S \X S : RiskBefore(p[1], p[2])}

Sorted(candidates) == InOrder(candidates, ByRisk(candidates))

Smaller(a, b) == IF a < b THEN a ELSE b

\* AnalyzePage on the hits in the order the map gives them.
AnalyzePage(iteration, limitAsked, offset) ==
    LET limit == IF limitAsked <= 0 THEN DefaultLimit ELSE limitAsked
        total == Len(iteration)
        ranked == Sorted(TopRiskCandidates(iteration, Smaller(total, offset + limit + 1)))
    IN  IF limit > MaxLimit \/ offset < 0 THEN [refused |-> TRUE]
        ELSE IF offset >= total THEN [refused |-> FALSE, items |-> <<>>, hasMore |-> FALSE]
        ELSE [refused |-> FALSE,
              items |-> SubSeq(ranked, offset + 1, Smaller(offset + limit, Len(ranked))),
              hasMore |-> total > offset + limit]

\* ChangedNodeIDs, ordered by file, first line, name and id.
ChangedNodeIDs(diff) ==
    LET hit == Hits(diff.nodes, diff.files, diff.hunks)
        nodes == InOrder(hit, {p \in hit \X hit : NodeBefore(p[1], p[2])})
    IN  [i \in DOMAIN nodes |-> nodes[i].id]

FlowBefore(f, g) == f.name < g.name \/ (f.name = g.name /\ f.id < g.id)

Touched(flows, changed) == {f \in flows : f.members \intersect Range(changed) # {}}

\* AffectedFlowsPage: one flow more than the page is asked for to see whether
\* there is a next one.
AffectedFlowsPage(flows, changed, limit, offset) ==
    LET touched == Touched(flows, changed)
        ranked == InOrder(touched, {p \in touched \X touched : FlowBefore(p[1], p[2])})
        rows == SubSeq(ranked, offset + 1, Smaller(offset + limit + 1, Len(ranked)))
        page == SubSeq(rows, 1, Smaller(limit, Len(rows)))
    IN  [items |-> [i \in DOMAIN page |->
                      [id |-> page[i].id, nodes |-> page[i].members \intersect Range(changed)]],
         hasMore |-> Len(rows) > limit]

-----------------------------------------------------------------------------
\* Reference: who follows the next offsets reads the whole ranking, once each.

Rank(c, all) == Cardinality({d \in all : RiskBefore(d, c)}) + 1

\* What has been read after each page, and where the next one starts.
Reads(iteration, limit) ==
    LET read[k \in 0 .. Len(iteration)] ==
            IF k = 0 THEN [items |-> <<>>, offset |-> 0, more |-> TRUE]
            ELSE IF ~read[k - 1].more THEN read[k - 1]
            ELSE LET page == AnalyzePage(iteration, limit, read[k - 1].offset)
                 IN  [items |-> read[k - 1].items \o page.items,
                      offset |-> read[k - 1].offset + limit,
                      more |-> page.hasMore]
    IN  read

\* A page has one item at least: no more pages than there are items are asked for.
Walk(iteration, limit) == Reads(iteration, limit)[Len(iteration)].items

RankedAsWhole(iteration, read) ==
    /\ Len(read) = Len(iteration)
    /\ \A i \in DOMAIN read : /\ read[i] \in Range(iteration)
                              /\ Rank(read[i], Range(iteration)) = i

FlowRank(f, touched) == Cardinality({g \in touched : FlowBefore(g, f)}) + 1
=============================================================================
