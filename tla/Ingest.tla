-------------------------------- MODULE Ingest --------------------------------
(***************************************************************************)
(* From parsed files to rows: how a full build (app/ingest/workflow,       *)
(* build.go) and a staged synchronisation (app/ingest/incremental) admit   *)
(* files, batch their nodes, derive Go's structural implementations,       *)
(* resolve edges chunk by chunk and settle where every edge ends.          *)
(*                                                                         *)
(* A file is a record: path, size (when listed), bytes (when read), nodes, *)
(* lang, package, ifaces (name and methods), hash and edges.  A graph has  *)
(* the nodes, the pairs of the implements rows, the rows, the waiting      *)
(* candidates and the counts of what stayed unresolved.  Nodes keep their  *)
(* id when their file is stored again.                                     *)
(***************************************************************************)
EXTENDS Resolution

CONSTANTS ChunkSize, FlushFiles, FlushBytes,   \* edges per pass, files and bytes per flush
          Foreign                              \* first path segments with a dot, @ or scheme

SampleLimit == 5

EmptyGraph == [nodes |-> {}, implements |-> {}, rows |-> {}, waiting |-> {},
               dropped |-> 0, samples |-> <<>>]

-----------------------------------------------------------------------------
\* Which files are read

WithinBudget(sizes, maxFile, maxTotal) ==
    /\ maxFile = 0 \/ \A i \in DOMAIN sizes : sizes[i] <= maxFile
    /\ maxTotal = 0 \/ FoldLeft(LAMBDA a, b : a + b, 0, sizes) <= maxTotal

\* Listed sizes are checked before anything is parsed, read bytes again (in
\* total) as the records reach the spool: a file may have grown in between.
Admitted(files, maxFile, maxTotal) ==
    /\ WithinBudget([i \in DOMAIN files |-> files[i].size], maxFile, maxTotal)
    /\ WithinBudget([i \in DOMAIN files |-> files[i].bytes], 0, maxTotal)

\* The parse cache: one entry per path, good for one content, parser version
\* and context of packages.
CacheKey(f, version, context) ==
    [path |-> f.path, hash |-> f.hash, version |-> version, context |-> context]

Load(cache, key) == {c \in cache : c.key = key /\ c.readable}

StoreParsed(cache, key, payload) ==
    {c \in cache : c.key.path # key.path} \union {[key |-> key, readable |-> TRUE, payload |-> payload]}

\* What a worker makes of one file, whose record stands for its parse: the
\* record it spools, and the cache.
\* A parser without a version is never cached.
ParseBuildInput(cache, f, version, context) ==
    LET key == CacheKey(f, version, context)
        hits == IF version = "" THEN {} ELSE Load(cache, key)
    IN  IF hits # {} THEN [record |-> (CHOOSE c \in hits : TRUE).payload, cache |-> cache]
        ELSE [record |-> f,
              cache |-> IF version = "" THEN cache ELSE StoreParsed(cache, key, f)]

-----------------------------------------------------------------------------
\* Nodes, in batches of files

ShouldFlush(batch) ==
    \/ Len(batch) >= FlushFiles
    \/ FoldLeft(LAMBDA sum, f : sum + f.bytes, 0, batch) >= FlushBytes

FlushNodes(nodes, batch) == nodes \union UNION {batch[i].nodes : i \in DOMAIN batch}

\* Mutant of StoreNodes: what is left after the last full batch is not written.
StoreFullBatches(nodes, files) ==
    FoldLeft(LAMBDA s, f : LET batch == Append(s.batch, f)
                           IN  IF ShouldFlush(batch)
                               THEN [nodes |-> FlushNodes(s.nodes, batch), batch |-> <<>>]
                               ELSE [s EXCEPT !.batch = batch],
             [nodes |-> nodes, batch |-> <<>>], files).nodes

StoreNodes(nodes, files) ==
    LET s == FoldLeft(LAMBDA t, f : LET batch == Append(t.batch, f)
                                    IN  IF ShouldFlush(batch)
                                        THEN [nodes |-> FlushNodes(t.nodes, batch), batch |-> <<>>]
                                        ELSE [t EXCEPT !.batch = batch],
                      [nodes |-> nodes, batch |-> <<>>], files)
    IN  FlushNodes(s.nodes, s.batch)

-----------------------------------------------------------------------------
\* Structural implementations of a Go package

MethodsOf(nodes, receiver) ==
    {Last(n.qn) : n \in {m \in nodes : /\ m.kind = "function" /\ Len(m.qn) >= 3
                                       /\ m.qn[Len(m.qn) - 1] = receiver}}

Receivers(nodes) ==
    {n.qn[Len(n.qn) - 1] : n \in {m \in nodes : m.kind = "function" /\ Len(m.qn) >= 3}}

\* An interface with methods is implemented by every receiver that has them all.
GoStructuralImplements(nodes, ifaces, anchor) ==
    {[kind |-> "implements", file |-> anchor, line |-> 0, source |-> <<p[1]>>,
      target |-> <<p[2].name>>, scoped |-> FALSE, concrete |-> <<>>, from |-> 0, to |-> 0] :
        p \in {q \in Receivers(nodes) \X ifaces :
                  q[2].methods # {} /\ q[2].methods \subseteq MethodsOf(nodes, q[1])}}

PackagesOf(files) ==
    {<<files[i].lang, files[i].package>> :
        i \in {j \in DOMAIN files : files[j].lang = "go" /\ files[j].package # ""}}

\* One more batch of edges per package, owned by its first file; the code
\* goes through packages and receivers in the order of its maps.
PackageSemanticEdgeBatches(files) ==
    LET Batch(p) ==
            LET own == SelectSeq(files, LAMBDA f : <<f.lang, f.package>> = p)
            IN  SetToSeq(GoStructuralImplements(
                    UNION {own[i].nodes : i \in DOMAIN own},
                    UNION {own[i].ifaces : i \in DOMAIN own}, own[1].path))
    IN  SelectSeq(SetToSeq({Batch(p) : p \in PackagesOf(files)}), LAMBDA b : b # <<>>)

-----------------------------------------------------------------------------
\* Chunks, and the passes of the resolver

ImportEdges(edges) == SelectSeq(edges, LAMBDA e : e.kind = "imports_from")

Chunks(edges) ==
    [k \in 1 .. (Len(edges) + ChunkSize - 1) \div ChunkSize |->
        SubSeq(edges, (k - 1) * ChunkSize + 1,
               IF k * ChunkSize < Len(edges) THEN k * ChunkSize ELSE Len(edges))]

\* A pass resolves `input` and keeps the results at the positions `keep`.
Whole(edges) == [input |-> edges, keep |-> DOMAIN edges]

\* Calls take the imports of their file along, to be resolved but not kept.
WithImportWarmup(chunk, imports) ==
    IF \E i \in DOMAIN chunk : chunk[i].kind = "calls"
    THEN [input |-> imports \o chunk, keep |-> Len(imports) + 1 .. Len(imports) + Len(chunk)]
    ELSE Whole(chunk)

FilePasses(edges) ==
    LET c == Chunks(edges)
    IN  [k \in DOMAIN c |-> WithImportWarmup(c[k], ImportEdges(edges))]

\* A build lets passes of several files share one call of the resolver.
\* Mutant of Pack: the ranges to keep are not moved behind what was there.
PackUnshifted(packs, p) ==
    IF packs # <<>> /\ Len(Last(packs).input) + Len(p.input) <= ChunkSize
    THEN Append(Front(packs), [input |-> Last(packs).input \o p.input,
                               keep |-> Last(packs).keep \union p.keep])
    ELSE Append(packs, p)

Pack(packs, p) ==
    IF packs # <<>> /\ Len(Last(packs).input) + Len(p.input) <= ChunkSize
    THEN LET open == Last(packs)
         IN  Append(Front(packs),
                    [input |-> open.input \o p.input,
                     keep |-> open.keep \union {Len(open.input) + i : i \in p.keep}])
    ELSE Append(packs, p)

-----------------------------------------------------------------------------
\* Where a resolved edge ends

\* A path of one segment, or one that starts as modules elsewhere do.
LikelyExternal(path) == Len(path) = 1 \/ Head(path) \in Foreign

ResolvedFully(e) == e.from # 0 /\ e.to # 0
Suppressed(e) == ~ResolvedFully(e) /\ e.kind = "imports_from" /\ LikelyExternal(e.target)
Unresolved(e) == ~ResolvedFully(e) /\ ~Suppressed(e)

\* Rows and candidates have a fingerprint; the first one written stays.
Fingerprint(e) ==
    [e EXCEPT !.from = 0, !.to = 0, !.kind = IF @ = "fallback_calls" THEN "calls" ELSE @]

UpsertFirst(rows, e) ==
    IF \E r \in rows : Fingerprint(r) = Fingerprint(e) THEN rows ELSE rows \union {e}

MergeDiagnostics(g, unresolved) ==
    [g EXCEPT !.dropped = @ + Len(unresolved),
              !.samples = @ \o SubSeq(unresolved, 1, IF Len(unresolved) < SampleLimit - Len(@)
                                                     THEN Len(unresolved) ELSE SampleLimit - Len(@))]

Persist(g, resolved) ==
    LET full == SelectSeq(resolved, ResolvedFully)
        waits == SelectSeq(resolved, LAMBDA e : Unresolved(e) /\ Waits(e))
    IN  [MergeDiagnostics(g, SelectSeq(resolved, Unresolved)) EXCEPT
            !.rows = FoldLeft(UpsertFirst, @, full),
            !.implements = @ \union {<<e.from, e.to>> :
                               e \in {full[i] : i \in {j \in DOMAIN full : full[j].kind = "implements"}}},
            !.waiting = @ \union {Fingerprint(waits[i]) : i \in DOMAIN waits}]

\* One call of the resolver, and the write of what is kept of it.
KeepOf(resolved, keep) ==
    LET kept == SetToSortSeq(keep \intersect DOMAIN resolved, <)
    IN  [i \in DOMAIN kept |-> resolved[kept[i]]]

RunPass(g, pass, fallback) ==
    Persist(g, KeepOf(ResolveWithOptions([nodes |-> g.nodes, implements |-> g.implements],
                                         pass.input, fallback), pass.keep))

RunPasses(g, passes, fallback) ==
    FoldLeft(LAMBDA h, p : RunPass(h, p, fallback), g, passes)

ImplementsOf(edges) == SelectSeq(edges, LAMBDA e : e.kind = "implements")
OthersOf(edges) == SelectSeq(edges, LAMBDA e : e.kind # "implements")

ResolveImplementsOf(g, batches, fallback) ==
    LET chunks == Chunks(FlattenSeq([i \in DOMAIN batches |-> ImplementsOf(batches[i])]))
    IN  RunPasses(g, [k \in DOMAIN chunks |-> Whole(chunks[k])], fallback)

OtherPasses(batches) ==
    FlattenSeq([i \in DOMAIN batches |-> FilePasses(OthersOf(batches[i]))])

-----------------------------------------------------------------------------
\* The two ways in

EdgesOf(files) == [i \in DOMAIN files |-> files[i].edges]

\* Build: everything anew, in one transaction.
Build(g, files, maxFile, maxTotal, fallback) ==
    LET edges == EdgesOf(files) \o PackageSemanticEdgeBatches(files)
        stored == [EmptyGraph EXCEPT !.nodes = StoreNodes({}, files)]
    IN  IF ~Admitted(files, maxFile, maxTotal) THEN g
        ELSE RunPasses(ResolveImplementsOf(stored, edges, fallback),
                       FoldLeft(Pack, <<>>, OtherPasses(edges)), fallback)

\* DeleteNodesByFiles, as far as edges go.
DeleteFiles(g, paths) ==
    LET gone == {n.id : n \in {m \in g.nodes : m.file \in paths}}
        rows == {r \in g.rows : r.file \notin paths /\ {r.from, r.to} \intersect gone = {}}
    IN  [g EXCEPT !.nodes = {n \in @ : n.file \notin paths},
                  !.rows = rows,
                  !.implements = {<<r.from, r.to>> : r \in {q \in rows : q.kind = "implements"}},
                  !.waiting = {w \in @ : w.file \notin paths}]

\* A file whose stored hash is its own is left alone unless it is forced.
Changed(hashes, f) == f.path \notin DOMAIN hashes \/ hashes[f.path] # f.hash \/ f.force

ChangedOf(hashes, files) == SelectSeq(files, LAMBDA f : Changed(hashes, f))

StageBatch(g, hashes, files) ==
    LET changed == ChangedOf(hashes, files)
    IN  [DeleteFiles(g, {changed[i].path : i \in DOMAIN changed} \intersect DOMAIN hashes) EXCEPT
            !.nodes = FlushNodes(@, changed)]

Staged(g, hashes, records, deleted) ==
    DeleteFiles(FoldLeft(LAMBDA h, r : StageBatch(h, hashes, r), g, records), deleted)

\* Mutant of ResolveStaged: all edges of a record before those of the next.
ResolveRecordByRecord(g, batches, fallback) ==
    FoldLeft(LAMBDA h, b : RunPasses(ResolveImplementsOf(h, b, fallback), OtherPasses(b), fallback),
             g, batches)

\* The implements edges of every record, then the other edges file by file.
ResolveStaged(g, batches, fallback) ==
    LET known == FoldLeft(LAMBDA h, b : ResolveImplementsOf(h, b, fallback), g, batches)
    IN  FoldLeft(LAMBDA h, b : RunPasses(h, OtherPasses(b), fallback), known, batches)

\* SyncBatchesWithExisting: the records of a spool, the nodes of all first.
StagedSync(g, hashes, records, deleted, fallback) ==
    ResolveStaged(Staged(g, hashes, records, deleted),
                  [i \in DOMAIN records |-> EdgesOf(ChangedOf(hashes, records[i]))], fallback)

\* SyncWithExisting: one map of files, in the order of their paths; files no
\* longer there go last, after the edges.
SyncWithExisting(g, hashes, files, existing, fallback) ==
    DeleteFiles(StagedSync(g, hashes, <<files>>, {}, fallback),
                existing \ {files[i].path : i \in DOMAIN files})
=============================================================================
