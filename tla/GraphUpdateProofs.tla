------------------------- MODULE GraphUpdateProofs -------------------------
(***************************************************************************)
(* Proofs about GraphUpdate, for any files, packages and texts.  The four  *)
(* invariants are inductive together: that a step leaves no stale edge     *)
(* needs that an edge's ends are stored, that it leaves one row for each   *)
(* call needs that candidates are calls of stored files.                   *)
(***************************************************************************)
EXTENDS GraphUpdate, TLAPS

Graph == [Files -> Texts \union {None}]

-----------------------------------------------------------------------------
(* Resolution *)

\* What is a reference: the definition without its record set.
LEMMA ReferenceOf ==
    ASSUME NEW graph \in Graph, NEW files \in SUBSET Files, NEW r
    PROVE  r \in References(graph, files) <=>
               /\ r \in Reference
               /\ r.from \in files
               /\ graph[r.from] # None
               /\ r.call \in graph[r.from].calls
  BY DEF References, Reference, Present

\* A call has at most one target.
LEMMA TargetUnique ==
    ASSUME NEW graph, NEW r, NEW f \in Targets(graph, r), NEW g \in Targets(graph, r)
    PROVE  f = g
  BY DEF Targets, IsSingleton

\* A target is a stored file that defines the name where it was looked for.
LEMMA TargetDefines ==
    ASSUME NEW graph, NEW r, NEW f \in Targets(graph, r)
    PROVE  /\ f \in Files
           /\ f \in Definers(graph, r.call.package, r.call.name)
                      \union Definers(graph, PackageOf[r.from], r.call.name)
  BY DEF Targets, Definers

\* The members of Links.
LEMMA LinkOf ==
    ASSUME NEW graph, NEW refs \in SUBSET Reference, NEW e
    PROVE  e \in Links(graph, refs) <=>
               /\ e \in Edge
               /\ e.ref \in refs
               /\ e.to \in Targets(graph, e.ref)
<1>1. ASSUME e \in Links(graph, refs)
      PROVE  e \in Edge /\ e.ref \in refs /\ e.to \in Targets(graph, e.ref)
  <2>1. PICK r \in refs : e \in [ref : {r}, to : Targets(graph, r)]
    BY <1>1 DEF Links
  <2>2. e.ref = r /\ e.to \in Targets(graph, r) /\ e = [ref |-> r, to |-> e.to]
    BY <2>1
  <2>3. e.to \in Files
    BY <2>2, TargetDefines
  <2> QED
    BY <2>2, <2>3 DEF Edge
<1>2. ASSUME e \in Edge, e.ref \in refs, e.to \in Targets(graph, e.ref)
      PROVE  e \in Links(graph, refs)
  <2>1. e \in [ref : {e.ref}, to : Targets(graph, e.ref)]
    BY <1>2 DEF Edge
  <2> QED
    BY <2>1, <1>2 DEF Links
<1> QED
  BY <1>1, <1>2

\* A link is single-valued.
LEMMA LinkUnique ==
    ASSUME NEW graph, NEW refs \in SUBSET Reference,
           NEW d \in Links(graph, refs), NEW e \in Links(graph, refs), d.ref = e.ref
    PROVE  d = e
<1>1. d \in Edge /\ e \in Edge /\ d.to = e.to
  BY LinkOf, TargetUnique
<1> QED
  BY <1>1 DEF Edge

\* The invariants speak of the graph only.
Sound(graph, links) ==
    \A e \in links :
        /\ e.ref \in References(graph, Files)
        /\ e.to \in Definers(graph, e.ref.call.package, e.ref.call.name)
                     \union Definers(graph, PackageOf[e.ref.from], e.ref.call.name)

\* Links of references of a graph are sound in it.
LEMMA LinksSound ==
    ASSUME NEW graph \in Graph, NEW refs \in SUBSET References(graph, Files)
    PROVE  Sound(graph, Links(graph, refs))
<1>1. refs \subseteq Reference
  BY ReferenceOf
<1> QED
  BY <1>1, LinkOf, TargetDefines DEF Sound

-----------------------------------------------------------------------------
(* One transaction of an update *)

\* Inv is inductive.
Inv == TypeOK /\ EdgesSound /\ OneRowPerReference /\ SearchInStep

\* What an update applies: the files it parses are among those it read, and it
\* deletes others.
Applies(walk, parsed, deleted, replayFor) ==
    /\ walk \in Walk
    /\ parsed \subseteq ReadFiles(walk)
    /\ deleted \subseteq Files
    /\ parsed \intersect deleted = {}
    /\ Apply(walk, parsed, deleted, replayFor)

Cleared(parsed, deleted) == (parsed \intersect Present(stored)) \union deleted
Waiting(parsed, deleted) ==
    KeptCandidates(Cleared(parsed, deleted)) \union Dangling(stored', References(stored', parsed))
Replayed(parsed, deleted, replayFor) ==
    Links(stored', Woken(stored', Waiting(parsed, deleted), replayFor))

\* The transaction in terms of the new graph.
LEMMA ApplyEffect ==
    ASSUME TypeOK, NEW walk, NEW parsed, NEW deleted, NEW replayFor,
           Applies(walk, parsed, deleted, replayFor)
    PROVE  /\ stored' \in Graph
           /\ parsed \subseteq Files
           /\ \A f \in Files :
                 stored'[f] = IF f \in parsed THEN walk[f]
                              ELSE IF f \in deleted THEN None ELSE stored[f]
           /\ edges' = KeptEdges(Cleared(parsed, deleted))
                          \union Links(stored', References(stored', parsed))
                          \union Replayed(parsed, deleted, replayFor)
           /\ candidates' = StillWaiting(Waiting(parsed, deleted),
                                         Replayed(parsed, deleted, replayFor))
           /\ docs' = Indexed(stored', parsed, Cleared(parsed, deleted))
<1>1. stored' = After(walk, parsed, deleted) /\ parsed \subseteq Files
  BY DEF Applies, Apply, ReadFiles
<1>2. \A f \in parsed : walk[f] \in Texts
  BY DEF Applies, ReadFiles
<1> QED
  BY <1>1, <1>2 DEF TypeOK, Graph, After, Applies, Apply, Cleared, Waiting, Replayed

\* A file that is stored and not cleared keeps its content and is not parsed.
LEMMA KeptFile ==
    ASSUME TypeOK, NEW walk, NEW parsed, NEW deleted, NEW replayFor,
           Applies(walk, parsed, deleted, replayFor),
           NEW f \in Files, f \notin Cleared(parsed, deleted), stored[f] # None
    PROVE  stored'[f] = stored[f] /\ f \notin parsed
<1>1. f \notin parsed /\ f \notin deleted
  BY DEF Cleared, Present
<1>2. stored'[f] = IF f \in parsed THEN walk[f]
                   ELSE IF f \in deleted THEN None ELSE stored[f]
  BY ApplyEffect
<1> QED
  BY <1>1, <1>2

\* The references of parsed files, and the candidates that are kept, are references
\* of the new graph; the latter belong to other files.
LEMMA WaitingRefs ==
    ASSUME TypeOK, OneRowPerReference, NEW walk, NEW parsed, NEW deleted, NEW replayFor,
           Applies(walk, parsed, deleted, replayFor)
    PROVE  /\ References(stored', parsed) \subseteq References(stored', Files)
           /\ \A r \in KeptCandidates(Cleared(parsed, deleted)) :
                 r \in candidates /\ r \in References(stored', Files) /\ r.from \notin parsed
           /\ Waiting(parsed, deleted) \subseteq References(stored', Files)
<1>1. stored' \in Graph /\ parsed \in SUBSET Files /\ stored \in Graph
  BY ApplyEffect DEF TypeOK, Graph
<1>2. References(stored', parsed) \subseteq References(stored', Files)
  BY <1>1, ReferenceOf
<1>3. ASSUME NEW r \in KeptCandidates(Cleared(parsed, deleted))
      PROVE  r \in candidates /\ r \in References(stored', Files) /\ r.from \notin parsed
  <2>1. r \in candidates /\ r.from \notin Cleared(parsed, deleted)
    BY <1>3 DEF KeptCandidates
  <2>2. r \in Reference /\ r.from \in Files /\ stored[r.from] # None
          /\ r.call \in stored[r.from].calls
    BY <2>1, <1>1, ReferenceOf DEF OneRowPerReference
  <2>3. stored'[r.from] = stored[r.from] /\ r.from \notin parsed
    BY <2>1, <2>2, KeptFile
  <2> QED
    BY <2>1, <2>2, <2>3, <1>1, ReferenceOf
<1> QED
  BY <1>2, <1>3 DEF Waiting, Dangling

\* Only candidates that were kept are replayed with success.
LEMMA ReplayedKept ==
    ASSUME TypeOK, OneRowPerReference, NEW walk, NEW parsed, NEW deleted, NEW replayFor,
           Applies(walk, parsed, deleted, replayFor),
           NEW e \in Replayed(parsed, deleted, replayFor)
    PROVE  /\ e \in Edge
           /\ e.ref \in KeptCandidates(Cleared(parsed, deleted))
           /\ e.to \in Targets(stored', e.ref)
<1>1. Woken(stored', Waiting(parsed, deleted), replayFor) \subseteq Waiting(parsed, deleted)
  BY DEF Woken
<1>2. Waiting(parsed, deleted) \subseteq Reference
  BY WaitingRefs, ReferenceOf, ApplyEffect
<1>3. e \in Edge /\ e.ref \in Waiting(parsed, deleted) /\ e.to \in Targets(stored', e.ref)
  BY <1>1, <1>2, LinkOf DEF Replayed
<1> QED
  BY <1>3 DEF Waiting, Dangling

-----------------------------------------------------------------------------
(* The invariants *)

\* Every row the transaction leaves has its type.
LEMMA ApplyTypeOK ==
    ASSUME Inv, NEW walk, NEW parsed, NEW deleted, NEW replayFor,
           Applies(walk, parsed, deleted, replayFor)
    PROVE  /\ stored' \in Graph
           /\ edges' \subseteq Edge
           /\ candidates' \subseteq Reference
           /\ docs' = stored'
<1> USE DEF Inv
<1>1. stored' \in Graph /\ References(stored', parsed) \subseteq Reference
  BY ApplyEffect, ReferenceOf
<1>2. Links(stored', References(stored', parsed)) \subseteq Edge
  BY <1>1, LinkOf
<1>3. edges' \subseteq Edge
  BY <1>2, ApplyEffect, ReplayedKept DEF TypeOK, KeptEdges
<1>4. candidates' \subseteq Reference
  BY <1>1, ApplyEffect, WaitingRefs, ReferenceOf DEF StillWaiting
<1>5. docs' = stored'
  <2>1. docs' = [f \in Files |-> IF f \in parsed THEN stored'[f]
                                ELSE IF f \in Cleared(parsed, deleted) THEN None ELSE docs[f]]
    BY ApplyEffect DEF Indexed
  <2>2. ASSUME NEW f \in Files PROVE docs'[f] = stored'[f]
    <3>1. stored'[f] = IF f \in parsed THEN walk[f]
                       ELSE IF f \in deleted THEN None ELSE stored[f]
      BY ApplyEffect
    <3>2. docs[f] = stored[f]
      BY DEF SearchInStep
    <3> QED
      BY <2>1, <3>1, <3>2 DEF Cleared
  <2> QED
    BY <1>1, <2>1, <2>2 DEF Graph
<1> QED
  BY <1>1, <1>3, <1>4, <1>5

\* No edge goes stale: kept ones have both ends unchanged, new ones are resolved in
\* the new graph.
LEMMA ApplySound ==
    ASSUME Inv, NEW walk, NEW parsed, NEW deleted, NEW replayFor,
           Applies(walk, parsed, deleted, replayFor)
    PROVE  EdgesSound'
<1> USE DEF Inv
<1>1. stored' \in Graph /\ parsed \in SUBSET Files /\ stored \in Graph
  BY ApplyEffect DEF TypeOK, Graph
<1>2. Sound(stored', KeptEdges(Cleared(parsed, deleted)))
  <2>1. SUFFICES ASSUME NEW e \in KeptEdges(Cleared(parsed, deleted))
                 PROVE  Sound(stored', {e})
    BY DEF Sound
  <2>2. e \in edges /\ e \in Edge /\ e.ref.from \notin Cleared(parsed, deleted)
          /\ e.to \notin Cleared(parsed, deleted)
    BY <2>1 DEF KeptEdges, TypeOK
  <2>3. e.ref \in Reference /\ e.ref.from \in Files /\ stored[e.ref.from] # None
          /\ e.ref.call \in stored[e.ref.from].calls
    BY <2>2, <1>1, ReferenceOf DEF EdgesSound
  <2>4. stored'[e.ref.from] = stored[e.ref.from]
    BY <2>2, <2>3, KeptFile
  <2>5. e.to \in Files /\ stored[e.to] # None
    BY <2>2 DEF EdgesSound, Definers
  <2>6. stored'[e.to] = stored[e.to]
    BY <2>2, <2>5, KeptFile
  <2>7. e.ref \in References(stored', Files)
    BY <2>3, <2>4, <1>1, ReferenceOf
  <2>8. e.to \in Definers(stored', e.ref.call.package, e.ref.call.name)
                   \union Definers(stored', PackageOf[e.ref.from], e.ref.call.name)
    BY <2>2, <2>6 DEF EdgesSound, Definers
  <2> QED
    BY <2>7, <2>8 DEF Sound
<1>3. Sound(stored', Links(stored', References(stored', parsed)))
  BY <1>1, WaitingRefs, LinksSound
<1>4. Sound(stored', Replayed(parsed, deleted, replayFor))
  <2>1. Woken(stored', Waiting(parsed, deleted), replayFor) \subseteq References(stored', Files)
    BY WaitingRefs DEF Woken
  <2> QED
    BY <1>1, <2>1, LinksSound DEF Replayed
<1>5. Sound(stored', edges')
  BY <1>2, <1>3, <1>4, ApplyEffect DEF Sound
<1> QED
  BY <1>5 DEF Sound, EdgesSound

\* Kept rows belong to files that were not parsed, new ones to files that were; a
\* replayed call was a candidate and had no edge.
LEMMA ApplyOneRow ==
    ASSUME Inv, NEW walk, NEW parsed, NEW deleted, NEW replayFor,
           Applies(walk, parsed, deleted, replayFor)
    PROVE  OneRowPerReference'
<1> USE DEF Inv
<1> DEFINE kept == KeptEdges(Cleared(parsed, deleted))
           refs == References(stored', parsed)
           links == Links(stored', refs)
           replayed == Replayed(parsed, deleted, replayFor)
<1>1. stored' \in Graph /\ parsed \in SUBSET Files /\ stored \in Graph
  BY ApplyEffect DEF TypeOK, Graph
<1>2. edges' = kept \union links \union replayed
        /\ candidates' = StillWaiting(Waiting(parsed, deleted), replayed)
  BY ApplyEffect
<1>3. refs \subseteq Reference /\ \A r \in refs : r.from \in parsed
  BY <1>1, ReferenceOf
<1>4. ASSUME NEW e \in kept
      PROVE  e \in edges /\ e.ref \notin candidates /\ e.ref.from \notin parsed
  <2>1. e \in edges /\ e.ref.from \notin Cleared(parsed, deleted)
    BY <1>4 DEF KeptEdges
  <2>2. e.ref.from \in Files /\ stored[e.ref.from] # None
    BY <2>1, <1>1, ReferenceOf DEF EdgesSound
  <2> QED
    BY <2>1, <2>2, KeptFile DEF OneRowPerReference
<1>5. ASSUME NEW e \in links
      PROVE  e.ref \in refs /\ e.ref.from \in parsed /\ e.to \in Targets(stored', e.ref)
  BY <1>3, LinkOf
<1>6. ASSUME NEW e \in replayed
      PROVE  e.ref \in candidates /\ e.ref.from \notin parsed
  BY ReplayedKept, WaitingRefs
<1>7. ASSUME NEW d \in replayed, NEW e \in replayed, d.ref = e.ref PROVE d = e
  <2>1. d \in Edge /\ e \in Edge /\ d.to = e.to
    BY <1>7, ReplayedKept, TargetUnique
  <2> QED
    BY <2>1, <1>7 DEF Edge
<1>8. ASSUME NEW d \in links, NEW e \in links, d.ref = e.ref PROVE d = e
  BY <1>3, <1>8, LinkUnique
<1>9. \A d, e \in edges' : d.ref = e.ref => d = e
  <2>1. \A d, e \in kept : d.ref = e.ref => d = e
    BY <1>4 DEF OneRowPerReference
  <2> HIDE DEF kept, links, replayed
  <2> QED
    BY <2>1, <1>2, <1>4, <1>5, <1>6, <1>7, <1>8
<1>10. \A e \in edges' : e.ref \notin candidates'
  <2>1. ASSUME NEW e \in kept PROVE e.ref \notin Waiting(parsed, deleted)
    <3>1. e.ref \notin candidates /\ e.ref.from \notin parsed
      BY <2>1, <1>4
    <3> QED
      BY <3>1, <1>3 DEF Waiting, Dangling, KeptCandidates
  <2>2. ASSUME NEW e \in links PROVE e.ref \notin Waiting(parsed, deleted)
    <3>1. e.ref \notin KeptCandidates(Cleared(parsed, deleted))
      BY <2>2, <1>5, WaitingRefs
    <3> QED
      BY <3>1, <2>2, <1>5 DEF Waiting, Dangling
  <2>3. ASSUME NEW e \in replayed PROVE e.ref \notin candidates'
    BY <2>3, <1>2 DEF StillWaiting
  <2> HIDE DEF kept, links, replayed
  <2> QED
    BY <1>2, <2>1, <2>2, <2>3 DEF StillWaiting
<1>11. candidates' \subseteq References(stored', Files)
  BY <1>2, WaitingRefs DEF StillWaiting
<1> QED
  BY <1>9, <1>10, <1>11 DEF OneRowPerReference

-----------------------------------------------------------------------------
(* The steps *)

\* What an update applies to the graph; the arguments Update gives Apply.
ParsesAll(walk, scope, replace) ==
    /\ NewDirectory(walk, Known(scope, replace))
    /\ ~(/\ NewDirectory(walk, Known(scope, replace))
         /\ CanBuild(scope, replace)
         /\ ready)
ParsedBy(walk, scope, replace) ==
    Parsed(walk, Known(scope, replace), ParsesAll(walk, scope, replace))
DeletedBy(walk, scope, replace) == Deleted(walk, Known(scope, replace))
ReplayedFor(walk, scope, replace) ==
    IF /\ NewDirectory(walk, Known(scope, replace))
       /\ CanBuild(scope, replace)
       /\ ready
    THEN Added(walk, Known(scope, replace)) ELSE {}

\* An update is an application: it parses only what it read, because a file whose
\* walk matches the graph has a text, and what it deletes was not there.
LEMMA UpdateApplies ==
    ASSUME TypeOK, NEW walk \in Walk, NEW scope, NEW replace,
           Update(walk, scope, replace)
    PROVE  Applies(walk, ParsedBy(walk, scope, replace), DeletedBy(walk, scope, replace),
                   ReplayedFor(walk, scope, replace))
<1> DEFINE known == Known(scope, replace)
<1>1. known \subseteq Present(stored)
  BY DEF Known
<1>2. Unchanged(walk, known) \subseteq ReadFiles(walk)
  BY <1>1 DEF Unchanged, ReadFiles, Present, TypeOK
<1>3. ParsedBy(walk, scope, replace) \subseteq ReadFiles(walk)
  BY <1>2 DEF ParsedBy, Parsed, Forced
<1>4. DeletedBy(walk, scope, replace) \subseteq Files
  BY <1>1 DEF DeletedBy, Deleted, Present
<1>5. ReadFiles(walk) \intersect DeletedBy(walk, scope, replace) = {}
  BY GraphAssumption DEF ReadFiles, DeletedBy, Deleted
<1>6. Apply(walk, ParsedBy(walk, scope, replace), DeletedBy(walk, scope, replace),
            ReplayedFor(walk, scope, replace))
  BY DEF Update, ParsedBy, ParsesAll, DeletedBy, ReplayedFor
<1> QED
  BY <1>3, <1>4, <1>5, <1>6 DEF Applies

\* An update keeps the invariant.
LEMMA UpdateInv ==
    ASSUME Inv, NEW walk \in Walk, NEW scope, NEW replace,
           Update(walk, scope, replace)
    PROVE  Inv'
<1> DEFINE parsed == ParsedBy(walk, scope, replace)
           deleted == DeletedBy(walk, scope, replace)
           replayFor == ReplayedFor(walk, scope, replace)
<1>1. Applies(walk, parsed, deleted, replayFor)
  BY UpdateApplies DEF Inv
<1>2. ready' = ready /\ read' \subseteq Files /\ spared' \subseteq Files
  BY DEF Update, ReadFiles, UnreadableFiles
<1> HIDE DEF parsed, deleted, replayFor
<1>3. TypeOK' /\ SearchInStep'
  BY <1>1, <1>2, ApplyTypeOK DEF Inv, TypeOK, SearchInStep, Graph
<1>4. EdgesSound'
  BY <1>1, ApplySound
<1>5. OneRowPerReference'
  BY <1>1, ApplyOneRow
<1> QED
  BY <1>3, <1>4, <1>5 DEF Inv

\* A build establishes the invariant, whatever it finds.
LEMMA BuildInv ==
    ASSUME NEW walk \in Walk, Build(walk)
    PROVE  Inv'
<1> DEFINE refs == References(stored', Files)
<1>1. /\ stored' \in Graph
      /\ edges' = Links(stored', refs)
      /\ candidates' = Dangling(stored', refs)
      /\ docs' = stored'
      /\ ready' \in BOOLEAN /\ read' \subseteq Files /\ spared' \subseteq Files
  BY DEF Build, Graph, ReadFiles
<1>2. refs \subseteq Reference
  BY <1>1, ReferenceOf
<1>3. edges' \subseteq Edge /\ candidates' \subseteq refs
  BY <1>1, <1>2, LinkOf DEF Dangling
<1>4. TypeOK' /\ SearchInStep'
  BY <1>1, <1>2, <1>3 DEF TypeOK, SearchInStep, Graph
<1>5. EdgesSound'
  BY <1>1, LinksSound DEF EdgesSound, Sound
<1>6. OneRowPerReference'
  <2>1. \A d, e \in edges' : d.ref = e.ref => d = e
    BY <1>1, <1>2, LinkUnique
  <2>2. ASSUME NEW e \in edges' PROVE e.ref \notin candidates'
    <3>1. e.to \in Targets(stored', e.ref)
      BY <2>2, <1>1, <1>2, LinkOf
    <3> QED
      BY <3>1, <1>1 DEF Dangling
  <2> QED
    BY <2>1, <2>2, <1>3 DEF OneRowPerReference
<1> QED
  BY <1>4, <1>5, <1>6 DEF Inv

\* Every step is an update, a build, an upgrade or a stutter.
LEMMA NextCases ==
    ASSUME [Next]_vars
    PROVE  \/ \E scope \in Scopes : \E replace \in BOOLEAN :
                 /\ replace = FALSE \/ scope # Files
                 /\ \E walk \in Walks(scope) : Update(walk, scope, replace)
           \/ \E scope \in Scopes : \E walk \in Walks(scope) : Build(walk)
           \/ Upgrade
           \/ UNCHANGED vars
<1>1. CASE Next
  BY <1>1 DEF Next, UpdateByBuild
<1>2. CASE UNCHANGED vars
  BY <1>2
<1> QED
  BY <1>1, <1>2

\* The four invariants hold of every reachable state.
THEOREM SpecInv == Spec => []Inv
<1>1. Init => Inv
  BY DEF Init, Inv, TypeOK, EdgesSound, OneRowPerReference, SearchInStep, Edge, Reference
<1>2. Inv /\ [Next]_vars => Inv'
  <2> SUFFICES ASSUME Inv, [Next]_vars PROVE Inv'
    OBVIOUS
  <2>1. ASSUME NEW scope, NEW replace, NEW walk \in Walks(scope), Update(walk, scope, replace)
        PROVE  Inv'
    BY <2>1, UpdateInv DEF Walks
  <2>2. ASSUME NEW scope, NEW walk \in Walks(scope), Build(walk)
        PROVE  Inv'
    BY <2>2, BuildInv DEF Walks
  <2>3. CASE Upgrade
    BY <2>3 DEF Upgrade, Inv, TypeOK, EdgesSound, OneRowPerReference, SearchInStep
  <2>4. CASE UNCHANGED vars
    BY <2>4 DEF vars, Inv, TypeOK, EdgesSound, OneRowPerReference, SearchInStep
  <2> QED
    BY <2>1, <2>2, <2>3, <2>4, NextCases
<1> QED
  BY <1>1, <1>2, PTL DEF Spec

\* The graph is well-typed.
THEOREM GraphTypeCorrect == Spec => []TypeOK
  BY SpecInv, PTL DEF Inv

\* No operation leaves an edge whose caller or callee is gone.
THEOREM NoStaleEdge == Spec => []EdgesSound
  BY SpecInv, PTL DEF Inv

\* A call has one edge or one candidate, never both, and no candidate outlives its file.
THEOREM RowsUnique == Spec => []OneRowPerReference
  BY SpecInv, PTL DEF Inv

\* The search documents are those of the stored content.
THEOREM SearchFollowsGraph == Spec => []SearchInStep
  BY SpecInv, PTL DEF Inv

\* Every row of the graph is sound, no call has two, and the search documents follow.
THEOREM RowsAreSound == Spec => []RowsSound
BY NoStaleEdge, RowsUnique, SearchFollowsGraph, PTL DEF RowsSound

-----------------------------------------------------------------------------
(* What a step does: an update u is the context of the lemmas below *)

\* An update of files in a scope.
Updates(walk, scope, replace) ==
    /\ walk \in Walks(scope)
    /\ replace \in BOOLEAN
    /\ Update(walk, scope, replace)

\* The files an update parses are read and those it deletes are not; a file it could
\* read is parsed or matches what is known of it.
LEMMA ReadOrKnown ==
    ASSUME TypeOK, NEW walk, NEW scope, NEW replace, Updates(walk, scope, replace),
           NEW f \in ReadFiles(walk)
    PROVE  /\ f \in Files
           /\ f \notin DeletedBy(walk, scope, replace)
           /\ \/ f \in ParsedBy(walk, scope, replace)
              \/ /\ f \in Unchanged(walk, Known(scope, replace))
                 /\ f \notin Forced(walk, Known(scope, replace), ParsesAll(walk, scope, replace))
           /\ stored'[f] = walk[f]
<1>1. Applies(walk, ParsedBy(walk, scope, replace), DeletedBy(walk, scope, replace),
              ReplayedFor(walk, scope, replace))
  BY UpdateApplies DEF Updates, Walks
<1>2. f \in Files /\ f \notin DeletedBy(walk, scope, replace)
  BY GraphAssumption DEF ReadFiles, DeletedBy, Deleted
<1>3. \/ f \in ParsedBy(walk, scope, replace)
      \/ /\ f \in Unchanged(walk, Known(scope, replace))
         /\ f \notin Forced(walk, Known(scope, replace), ParsesAll(walk, scope, replace))
  BY DEF ParsedBy, Parsed
<1>4. stored'[f] = IF f \in ParsedBy(walk, scope, replace) THEN walk[f]
                   ELSE IF f \in DeletedBy(walk, scope, replace) THEN None ELSE stored[f]
  BY <1>1, <1>2, ApplyEffect
<1> QED
  BY <1>2, <1>3, <1>4 DEF Unchanged

\* What changes, and was stored, was known and is not unchanged: nothing outside the
\* scope is read.
LEMMA ChangedKnown ==
    ASSUME TypeOK, NEW walk, NEW scope, NEW replace, Updates(walk, scope, replace),
           NEW f \in Files, stored[f] # None, stored'[f] # stored[f]
    PROVE  f \in Known(scope, replace) \ Unchanged(walk, Known(scope, replace))
<1>1. Applies(walk, ParsedBy(walk, scope, replace), DeletedBy(walk, scope, replace),
              ReplayedFor(walk, scope, replace))
  BY UpdateApplies DEF Updates, Walks
<1>2. stored'[f] = IF f \in ParsedBy(walk, scope, replace) THEN walk[f]
                   ELSE IF f \in DeletedBy(walk, scope, replace) THEN None ELSE stored[f]
  BY <1>1, ApplyEffect
<1>3. CASE f \in ParsedBy(walk, scope, replace)
  <2>1. walk[f] \in Texts /\ walk[f] # stored[f]
    BY <1>1, <1>2, <1>3 DEF Applies, ReadFiles
  <2>2. f \in scope
    BY <2>1, GraphAssumption DEF Updates, Walks
  <2>3. f \in Known(scope, replace)
    BY <2>2 DEF Known, Present
  <2> QED
    BY <2>1, <2>3 DEF Unchanged
<1>4. CASE f \in DeletedBy(walk, scope, replace)
  BY <1>4 DEF DeletedBy, Deleted, Unchanged
<1> QED
  BY <1>2, <1>3, <1>4

\* A file that was read and had an edge to a file that changed is parsed.
LEMMA CallerParsed ==
    ASSUME Inv, NEW walk, NEW scope, NEW replace, Updates(walk, scope, replace),
           NEW e \in edges, e.ref.from \in ReadFiles(walk), stored'[e.to] # stored[e.to]
    PROVE  e.ref.from \in ParsedBy(walk, scope, replace)
<1>1. e.to \in Files /\ stored[e.to] # None
  BY DEF Inv, EdgesSound, Definers
<1>2. e.to \in Known(scope, replace) \ Unchanged(walk, Known(scope, replace))
  BY <1>1, ChangedKnown DEF Inv
<1>3. e.ref.from \in EdgeSources(walk, Known(scope, replace))
  BY <1>2 DEF EdgeSources
<1> QED
  BY <1>3, ReadOrKnown DEF Inv, Forced

\* Everything that waits is accounted for after the transaction.
LEMMA WaitingAccounted ==
    ASSUME Inv, NEW walk, NEW parsed, NEW deleted, NEW replayFor,
           Applies(walk, parsed, deleted, replayFor)
    PROVE  /\ Waiting(parsed, deleted) \subseteq Accounted'
           /\ References(stored', parsed) \subseteq Accounted'
<1>1. /\ edges' = KeptEdges(Cleared(parsed, deleted))
                     \union Links(stored', References(stored', parsed))
                     \union Replayed(parsed, deleted, replayFor)
      /\ candidates' = StillWaiting(Waiting(parsed, deleted),
                                    Replayed(parsed, deleted, replayFor))
      /\ stored' \in Graph /\ parsed \in SUBSET Files
  BY ApplyEffect DEF Inv
<1>2. Waiting(parsed, deleted) \subseteq Accounted'
  BY <1>1 DEF StillWaiting, Accounted
<1>3. ASSUME NEW r \in References(stored', parsed) PROVE r \in Accounted'
  <2>1. r \in Reference /\ References(stored', parsed) \subseteq Reference
    BY <1>1, ReferenceOf
  <2>2. CASE Targets(stored', r) = {}
    BY <2>2, <1>2 DEF Waiting, Dangling
  <2>3. CASE Targets(stored', r) # {}
    <3>1. PICK f \in Targets(stored', r) : f \in Files
      BY <2>3, TargetDefines
    <3>2. [ref |-> r, to |-> f] \in Links(stored', References(stored', parsed))
      BY <3>1, <2>1, LinkOf DEF Edge
    <3> QED
      BY <3>2, <1>1 DEF Accounted
  <2> QED
    BY <2>2, <2>3
<1> QED
  BY <1>2, <1>3

\* After a build every reference is accounted for.
LEMMA BuildAccounts ==
    ASSUME NEW walk \in Walk, Build(walk)
    PROVE  References(stored', Files) \subseteq Accounted'
<1> DEFINE refs == References(stored', Files)
<1>1. stored' \in Graph /\ edges' = Links(stored', refs) /\ candidates' = Dangling(stored', refs)
  BY DEF Build, Graph, ReadFiles
<1>2. refs \subseteq Reference
  BY <1>1, ReferenceOf
<1>3. ASSUME NEW r \in refs, Targets(stored', r) # {} PROVE r \in Accounted'
  <2>1. PICK f \in Targets(stored', r) : f \in Files
    BY <1>3, TargetDefines
  <2>2. [ref |-> r, to |-> f] \in edges'
    BY <2>1, <1>1, <1>2, <1>3, LinkOf DEF Edge
  <2> QED
    BY <2>2 DEF Accounted
<1> QED
  BY <1>1, <1>3 DEF Accounted, Dangling

\* The rows of a file after a build are its own.
LEMMA BuildMatches ==
    ASSUME NEW walk \in Walk, Build(walk), NEW f \in Files
    PROVE  MatchesBuild(f)'
<1> DEFINE refs == References(stored', Files)
           own == References(stored', {f})
<1>1. stored' \in Graph /\ edges' = Links(stored', refs) /\ candidates' = Dangling(stored', refs)
  BY DEF Build, Graph, ReadFiles
<1>2. \A r : r \in own <=> r \in refs /\ r.from = f
  BY <1>1, ReferenceOf
<1>3. refs \in SUBSET Reference /\ own \in SUBSET Reference
  BY <1>1, ReferenceOf
<1>4. \A e : e \in Links(stored', own) <=> e \in edges' /\ e.ref.from = f
  <2> HIDE DEF refs, own
  <2> QED
    BY <1>1, <1>2, <1>3, LinkOf
<1>5. {r \in candidates' : r.from = f} = Dangling(stored', own)
  BY <1>1, <1>2 DEF Dangling
<1> QED
  BY <1>4, <1>5 DEF MatchesBuild

\* The rows of a parsed file after an update are those of a build: what was kept and
\* what was replayed belongs to other files.
LEMMA ParsedMatches ==
    ASSUME Inv, NEW walk, NEW parsed, NEW deleted, NEW replayFor,
           Applies(walk, parsed, deleted, replayFor), NEW f \in parsed
    PROVE  MatchesBuild(f)'
<1> USE DEF Inv
<1> DEFINE kept == KeptEdges(Cleared(parsed, deleted))
           refs == References(stored', parsed)
           own == References(stored', {f})
           replayed == Replayed(parsed, deleted, replayFor)
<1>1. stored' \in Graph /\ parsed \in SUBSET Files /\ stored \in Graph
  BY ApplyEffect DEF TypeOK, Graph
<1>2. edges' = kept \union Links(stored', refs) \union replayed
        /\ candidates' = StillWaiting(Waiting(parsed, deleted), replayed)
  BY ApplyEffect
<1>3. \A r : r \in own <=> r \in refs /\ r.from = f
  BY <1>1, ReferenceOf
<1>4. refs \in SUBSET Reference /\ own \in SUBSET Reference
  BY <1>1, ReferenceOf
<1>5. ASSUME NEW e \in kept PROVE e.ref.from \notin parsed
  <2>1. e \in edges /\ e.ref.from \notin Cleared(parsed, deleted)
    BY <1>5 DEF KeptEdges
  <2>2. e.ref.from \in Files /\ stored[e.ref.from] # None
    BY <2>1, <1>1, ReferenceOf DEF EdgesSound
  <2> QED
    BY <2>1, <2>2, KeptFile
<1>6. ASSUME NEW e \in replayed PROVE e.ref.from \notin parsed
  BY ReplayedKept, WaitingRefs
<1>7. \A e : e \in Links(stored', own) <=> e \in edges' /\ e.ref.from = f
  <2> HIDE DEF refs, own, kept, replayed
  <2> QED
    BY <1>2, <1>3, <1>4, <1>5, <1>6, LinkOf
<1>8. \A r : r \in Dangling(stored', own) <=> r \in candidates' /\ r.from = f
  <2>1. \A r \in KeptCandidates(Cleared(parsed, deleted)) : r.from # f
    BY WaitingRefs
  <2>2. \A e \in replayed : e.ref.from # f
    BY <1>6
  <2> HIDE DEF replayed, own, refs
  <2>3. \A r : r \in candidates' /\ r.from = f <=> r \in Dangling(stored', refs) /\ r.from = f
    BY <1>2, <2>1, <2>2 DEF StillWaiting, Waiting, refs
  <2> QED
    BY <2>3, <1>3 DEF Dangling
<1> QED
  BY <1>7, <1>8 DEF MatchesBuild

-----------------------------------------------------------------------------
(* The action properties *)

\* NextCases with the context of the lemmas above.
LEMMA StepCases ==
    ASSUME [Next]_vars
    PROVE  \/ \E scope \in Scopes, replace \in BOOLEAN, walk \in Walk :
                 Updates(walk, scope, replace)
           \/ \E walk \in Walk : Build(walk)
           \/ Upgrade
           \/ UNCHANGED vars
  BY NextCases DEF Updates, Walks

\* What was read is stored; a new version of the server changes neither.
ReadStored == read \subseteq Present(stored)

\* A step applies its walk.
LEMMA StepWalkApplied ==
    ASSUME TypeOK, ReadStored, [Next]_vars
    PROVE  ReadStored' /\ \A f \in spared' : stored'[f] = stored[f]
<1>1. ASSUME NEW scope, NEW replace, NEW walk, Updates(walk, scope, replace)
      PROVE  ReadStored' /\ \A f \in spared' : stored'[f] = stored[f]
  <2>1. read' = ReadFiles(walk) /\ spared' = UnreadableFiles(walk)
    BY <1>1 DEF Updates, Update
  <2>2. \A f \in ReadFiles(walk) : f \in Files /\ stored'[f] # None
    BY <1>1, ReadOrKnown, GraphAssumption DEF ReadFiles
  <2>3. ASSUME NEW f \in UnreadableFiles(walk) PROVE stored'[f] = stored[f]
    <3>1. Applies(walk, ParsedBy(walk, scope, replace), DeletedBy(walk, scope, replace),
                  ReplayedFor(walk, scope, replace))
      BY <1>1, UpdateApplies DEF Updates, Walks
    <3>2. f \in Files /\ f \notin ParsedBy(walk, scope, replace)
      BY <3>1, GraphAssumption DEF UnreadableFiles, Applies, ReadFiles
    <3>3. f \notin DeletedBy(walk, scope, replace)
      BY GraphAssumption DEF UnreadableFiles, DeletedBy, Deleted
    <3>4. stored'[f] = IF f \in ParsedBy(walk, scope, replace) THEN walk[f]
                       ELSE IF f \in DeletedBy(walk, scope, replace) THEN None ELSE stored[f]
      BY <3>1, <3>2, ApplyEffect
    <3> QED
      BY <3>2, <3>3, <3>4
  <2> QED
    BY <2>1, <2>2, <2>3 DEF ReadStored, Present
<1>2. ASSUME NEW walk, Build(walk)
      PROVE  ReadStored' /\ spared' = {}
  BY <1>2, GraphAssumption DEF Build, ReadStored, Present, ReadFiles
<1>3. CASE Upgrade
  BY <1>3 DEF Upgrade, ReadStored, Present
<1>4. CASE UNCHANGED vars
  BY <1>4 DEF vars, ReadStored, Present
<1> QED
  BY <1>1, <1>2, <1>3, <1>4, StepCases

\* What an operation could read is stored after it, and what an update could not read
\* is kept.
THEOREM WalksAreApplied == Spec => WalkApplied
<1>1. Init => ReadStored
  BY DEF Init, ReadStored
<1>2. TypeOK /\ ReadStored /\ [Next]_vars => ReadStored'
  BY StepWalkApplied
<1>3. Spec => []ReadStored
  BY <1>1, <1>2, GraphTypeCorrect, PTL DEF Spec
<1>4. TypeOK /\ ReadStored /\ [Next]_vars
      => [/\ read' \subseteq Present(stored')
          /\ \A f \in spared' : stored'[f] = stored[f]]_vars
  BY StepWalkApplied DEF ReadStored, Present
<1> QED
  BY <1>3, <1>4, GraphTypeCorrect, PTL DEF Spec, WalkApplied

\* A file that was read, and changed or called into one that did, ends up with the rows
\* a full build would give it: the update parses it again.
THEOREM SyncedMatchBuild == Spec => SyncedFilesMatchBuild
<1>1. ASSUME Inv, [Next]_vars,
             NEW f \in read',
             \/ stored'[f] # stored[f]
             \/ \E e \in edges : e.ref.from = f /\ stored'[e.to] # stored[e.to]
      PROVE  MatchesBuild(f)'
  <2>1. ASSUME NEW scope, NEW replace, NEW walk, Updates(walk, scope, replace)
        PROVE  MatchesBuild(f)'
    <3>1. Applies(walk, ParsedBy(walk, scope, replace), DeletedBy(walk, scope, replace),
                  ReplayedFor(walk, scope, replace))
      BY <1>1, <2>1, UpdateApplies DEF Inv, Updates, Walks
    <3>2. f \in ReadFiles(walk)
      BY <2>1 DEF Updates, Update
    <3>3. CASE stored'[f] # stored[f]
      <4>1. f \in ParsedBy(walk, scope, replace)
        BY <1>1, <2>1, <3>2, <3>3, ReadOrKnown DEF Inv, Unchanged
      <4> QED
        BY <1>1, <3>1, <4>1, ParsedMatches
    <3>4. CASE \E e \in edges : e.ref.from = f /\ stored'[e.to] # stored[e.to]
      <4>1. f \in ParsedBy(walk, scope, replace)
        BY <1>1, <2>1, <3>2, <3>4, CallerParsed
      <4> QED
        BY <1>1, <3>1, <4>1, ParsedMatches
    <3> QED
      BY <1>1, <3>3, <3>4
  <2>2. ASSUME NEW walk \in Walk, Build(walk) PROVE MatchesBuild(f)'
    BY <2>2, BuildMatches DEF Build, ReadFiles
  <2>3. CASE Upgrade \/ UNCHANGED vars
    BY <1>1, <2>3 DEF Upgrade, vars
  <2> QED
    BY <1>1, <2>1, <2>2, <2>3, StepCases
<1>2. Inv /\ [Next]_vars
      => [\A f \in read' :
            (\/ stored'[f] # stored[f]
             \/ \E e \in edges : e.ref.from = f /\ stored'[e.to] # stored[e.to])
            => MatchesBuild(f)']_vars
  BY <1>1
<1> QED
  BY <1>2, SpecInv, PTL DEF Spec, SyncedFilesMatchBuild

\* A call of an unchanged file leaves the graph only with an edge whose target was
\* cleared, and then its caller was not read or the target had not changed.
THEOREM OnlyCascadesLose == Spec => NothingElseLost
<1>1. ASSUME Inv, [Next]_vars,
             NEW r \in Accounted \ Accounted', stored'[r.from] = stored[r.from]
      PROVE  \E e \in edges :
                e.ref = r /\ (r.from \notin read' \/ stored'[e.to] = stored[e.to])
  <2>1. stored \in Graph /\ r \in References(stored, Files)
    BY <1>1 DEF Inv, TypeOK, Graph, Accounted, EdgesSound, OneRowPerReference
  <2>2. /\ r \in Reference /\ r.from \in Files /\ stored[r.from] # None
        /\ r.call \in stored[r.from].calls
    BY <2>1, ReferenceOf
  <2>3. ASSUME NEW files \in SUBSET Files, r.from \in files, stored' \in Graph
        PROVE  r \in References(stored', files)
    BY <1>1, <2>2, <2>3, ReferenceOf
  <2>4. ASSUME NEW scope, NEW replace, NEW walk, Updates(walk, scope, replace)
        PROVE  \E e \in edges :
                  e.ref = r /\ (r.from \notin read' \/ stored'[e.to] = stored[e.to])
    <3> DEFINE parsed == ParsedBy(walk, scope, replace)
               deleted == DeletedBy(walk, scope, replace)
               replayFor == ReplayedFor(walk, scope, replace)
    <3>1. Applies(walk, parsed, deleted, replayFor) /\ read' = ReadFiles(walk)
      BY <1>1, <2>4, UpdateApplies DEF Inv, Updates, Walks, Update
    <3>2. /\ edges' = KeptEdges(Cleared(parsed, deleted))
                         \union Links(stored', References(stored', parsed))
                         \union Replayed(parsed, deleted, replayFor)
          /\ stored' \in Graph /\ parsed \in SUBSET Files
          /\ stored'[r.from] = IF r.from \in parsed THEN walk[r.from]
                               ELSE IF r.from \in deleted THEN None ELSE stored[r.from]
      BY <1>1, <2>2, <3>1, ApplyEffect DEF Inv
    <3>3. r.from \notin parsed
      BY <1>1, <2>3, <3>1, <3>2, WaitingAccounted
    <3>4. r.from \notin Cleared(parsed, deleted)
      BY <1>1, <2>2, <3>2, <3>3 DEF Cleared
    <3>5. r \notin candidates
      BY <1>1, <3>1, <3>4, WaitingAccounted DEF Waiting, KeptCandidates
    <3>6. PICK e \in edges : e.ref = r
      BY <1>1, <3>5 DEF Accounted
    <3>7. r.from \in read' => stored'[e.to] = stored[e.to]
      BY <1>1, <2>4, <3>1, <3>3, <3>6, CallerParsed
    <3> QED
      BY <3>6, <3>7
  <2>5. ASSUME NEW walk \in Walk, Build(walk) PROVE FALSE
    BY <1>1, <2>2, <2>3, <2>5, BuildAccounts DEF Build, ReadFiles, Graph
  <2>6. CASE Upgrade \/ UNCHANGED vars
    BY <1>1, <2>6 DEF Upgrade, vars, Accounted
  <2> QED
    BY <1>1, <2>4, <2>5, <2>6, StepCases
<1>2. Inv /\ [Next]_vars
      => [\A r \in Accounted \ Accounted' :
            \/ stored'[r.from] # stored[r.from]
            \/ \E e \in edges :
                  e.ref = r /\ (r.from \notin read' \/ stored'[e.to] = stored[e.to])]_vars
  BY <1>1
<1> QED
  BY <1>2, SpecInv, PTL DEF Spec, NothingElseLost

\* A waiting call of a file that was read does not wait for a file that was added to its
\* directory, or that is the first of its own: the file of the call is parsed, or its
\* candidates are replayed.
THEOREM AddedReachCallers == Spec => AddedFilesReachCallers
<1>1. ASSUME Inv, [Next]_vars,
             NEW f \in Files, stored[f] = None, stored'[f] # None,
             NEW r \in candidates', r.from \in read',
             \/ DirOf[r.from] = DirOf[f]
             \/ \A g \in Files : DirOf[g] = DirOf[f] => stored[g] = None,
             f \in Targets(stored', r)
      PROVE  FALSE
  <2>1. ASSUME NEW scope, NEW replace, NEW walk, Updates(walk, scope, replace)
        PROVE  FALSE
    <3> DEFINE known == Known(scope, replace)
               parsed == ParsedBy(walk, scope, replace)
               deleted == DeletedBy(walk, scope, replace)
               replayFor == ReplayedFor(walk, scope, replace)
    <3>1. /\ Applies(walk, parsed, deleted, replayFor)
          /\ read' = ReadFiles(walk)
          /\ known \subseteq Present(stored)
      BY <1>1, <2>1, UpdateApplies DEF Inv, Updates, Walks, Update, Known
    <3>2. /\ candidates' = StillWaiting(Waiting(parsed, deleted),
                                        Replayed(parsed, deleted, replayFor))
          /\ stored' \in Graph /\ parsed \in SUBSET Files
          /\ stored'[f] = IF f \in parsed THEN walk[f]
                          ELSE IF f \in deleted THEN None ELSE stored[f]
      BY <1>1, <3>1, ApplyEffect DEF Inv
    <3>3. f \in parsed /\ f \in Added(walk, known)
      BY <1>1, <3>1, <3>2 DEF Applies, Added, Present
    <3>4. r \in Waiting(parsed, deleted) /\ Waiting(parsed, deleted) \subseteq Reference
      BY <1>1, <3>1, <3>2, WaitingRefs, ReferenceOf DEF StillWaiting, Inv
    <3>5. r.from \notin parsed
      BY <1>1, <3>1, <3>4, WaitingRefs DEF Waiting, Dangling, Inv
    <3>6. /\ r.from \in Files
          /\ r.from \notin Forced(walk, known, ParsesAll(walk, scope, replace))
          /\ r.from \in Unchanged(walk, known)
      BY <1>1, <2>1, <3>1, <3>5, ReadOrKnown DEF Inv
    <3>7. CASE DirOf[r.from] = DirOf[f]
      <4>1. r.from \in Peers(walk, known)
        BY <3>3, <3>6, <3>7 DEF Peers
      <4> QED
        BY <3>6, <4>1 DEF Forced
    <3>8. CASE \A g \in Files : DirOf[g] = DirOf[f] => stored[g] = None
      <4>1. NewDirectory(walk, known)
        BY <3>1, <3>3, <3>8 DEF NewDirectory, Present
      <4>2. ~ParsesAll(walk, scope, replace)
        BY <3>6 DEF Forced
      <4>3. replayFor = Added(walk, known)
        BY <4>1, <4>2 DEF ParsesAll, ReplayedFor
      <4>4. r.call.name \in stored'[f].defs
        BY <1>1, TargetDefines DEF Definers
      <4>5. r \in Woken(stored', Waiting(parsed, deleted), replayFor)
        <5> HIDE DEF replayFor
        <5> QED
          BY <3>3, <3>4, <4>3, <4>4 DEF Woken
      <4>6. Woken(stored', Waiting(parsed, deleted), replayFor) \in SUBSET Reference
        BY <3>4 DEF Woken
      <4>7. [ref |-> r, to |-> f] \in Replayed(parsed, deleted, replayFor)
        <5> HIDE DEF replayFor, parsed, deleted
        <5> QED
          BY <1>1, <3>4, <4>5, <4>6, LinkOf DEF Replayed, Edge
      <4> QED
        BY <1>1, <3>2, <4>7 DEF StillWaiting
    <3> QED
      BY <1>1, <3>7, <3>8
  <2>2. ASSUME NEW walk \in Walk, Build(walk) PROVE FALSE
    BY <1>1, <2>2 DEF Build, Dangling
  <2>3. CASE Upgrade \/ UNCHANGED vars
    BY <1>1, <2>3 DEF Upgrade, vars
  <2> QED
    BY <1>1, <2>1, <2>2, <2>3, StepCases
<1>2. Inv /\ [Next]_vars
      => [\A f \in Files : stored[f] = None /\ stored'[f] # None =>
            \A r \in candidates' :
                /\ r.from \in read'
                /\ \/ DirOf[r.from] = DirOf[f]
                   \/ \A g \in Files : DirOf[g] = DirOf[f] => stored[g] = None
                => f \notin Targets(stored', r)]_vars
  BY <1>1
<1> QED
  BY <1>2, SpecInv, PTL DEF Spec, AddedFilesReachCallers
=============================================================================
