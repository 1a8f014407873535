# code-context-graph in TLA+

`code-context-graph` (ccg) parses source trees into a graph of nodes and edges,
keeps it in a SQL database, keeps it current from webhooks and from tool calls, and
answers queries about it through MCP tools, a CLI and a web wiki. The modules here
are of two kinds. Some model what depends on *order*: what may happen
between two critical sections, two system calls, two transactions or two channel
operations. The others model what depends on *cases*: the rules by which deliveries are
admitted, sources become nodes and edges, edges find their targets, and queries are
answered. All are checked by TLC on small instances and, where
a proof is within reach of TLAPS, by theorems for every value of the constants.

Line numbers below are those of the source files the modules were written from;
`PROJECT.json` maps every definition to its lines.

## 1. The system

### Components, their state and their operations

| Component | State | Operations | Modules |
|---|---|---|---|
| Webhook handler and admission, `adapters/inbound/webhook`, `app/reposync/admission.go`, `cloneurl.go`, `adapters/inbound/http/config.go` | configuration | signature, event, branch and allow rules, namespace, clone URL | `Admission` |
| Webhook sync queue, `app/reposync/queue.go` | `queue`, `dirty`, `processing`, `payloads`, `shutdown`, worker goroutines on one mutex and one condition variable | `Add`, `get`, `done`, `safeHandle`, `Shutdown`, `Stats` | `SyncQueue`, `CoalescingMailbox` |
| Outcome bookkeeping, same file, and `/status` in `http/serve.go` | `repoStats`, `repoStatsOrder`, totals | `recordFailure`, `recordSuccess`, `upsertRepoStatLocked`, `WebhookStatsDegraded` | `RecentRepos`, `SyncQueueOutcomes` |
| Repository lock, `adapters/outbound/gitrepo/checkout.go` | one token per process and repository, one lock file per repository | `WithLock` | `RepoLock` |
| Checkout and sync service, same file and `app/reposync/service.go` | working tree, temporary clone directories | `CloneOrPullBranch`, `Sync` | `SyncPipeline` |
| Build and update, `app/ingest/workflow`, `app/ingest/incremental` | nodes, edges, unresolved-edge index, search documents, parse cache, package nodes | `Build`, `Update`, `SyncBatchesWithExisting` | `GraphUpdate`, `Ingest`, `Packages`, `Builds` |
| Build parse pool, `ingest/workflow/build.go` | jobs and results channels, pending map, window | `parseBuildInputs` | `ParsePool` |
| Edge resolution, `app/ingest/resolve` | none | `ResolveWithOptions`, lookup keys, replay | `Resolution` |
| Source parsing, `adapters/outbound/treesitter` | none | `Walker`, `LanguageSemantics`, package discovery | `Extraction`, `LanguageSemantics`, `Packages` |
| Comment binding, `app/ingest/binding`, `domain/annotation` | none | `Bind`, `Normalize`, `Parse` | `Annotations`, `Builds` |
| Graph store, `adapters/outbound/graphgorm` | tables | upserts, cascades, reads | operators of the modules that use it |
| Cross-namespace references, `app/crossref`, `graphgorm/crossref.go` | table `cross_refs` | `SyncNamespace` | `CrossRefs` |
| MCP query cache, `adapters/inbound/mcp/cache.go`, `handlers.go` | `entries` with expiry times | `Get`, `Set`, `Flush`, cleanup loop, `cachedExecute` | `QueryCache` |
| Impact, flow and change analysis, `app/analyze` | stored flows | `ImpactRadius`, `TraceFlow`, `RebuildFlows`, `AnalyzePage`, `AffectedFlowsPage` | `Traversal`, `ChangeRisk` |
| Wiki, `app/wiki`, `adapters/inbound/wikihttp` | none | tree, search, references, graph view, documents | `Wiki`, `PathSpec` |
| Schema migration, `db/migration` | version row, schema, advisory lock | `EnsureSchemaVersion`, `RunMigrations` | `Migration` |
| HTTP server, CLI, MCP handlers, search, docs, lint, describe | none of their own | read the graph, render | not modelled |

### How they interact

A webhook delivery passes the handler (`Admission`) and reaches `Add` of the sync queue. A
worker takes the repository and calls `Service.Sync`: checkout under the repository lock,
then the walk and the graph update (spool, one transaction, cross references), then the
flush of the query cache. `SyncPipeline` composes that chain, with the queue of each server
replaced by the mailbox `SyncQueue` is proved to implement (`Mailbox == INSTANCE
CoalescingMailbox`). MCP tools call the same build and update directly and flush the same
cache; read tools go through `cachedExecute`. The queue's outcome records feed `/status`.
Inside one update files go through `Extraction`, `Annotations` and `LanguageSemantics` to
parsed files, which `Ingest` stores and `Resolution` connects; `Packages` extends `Ingest`.
The wiki and the analyses read what is stored. `CrossRefs` assumes that no namespace is
synced twice at once, which is `OneSyncPerRepo` of `SyncQueue` and a theorem there, for one
server.

### What is hard

* **Interleavings.** Pushes arrive between any two steps of a worker; several workers and
  servers serve several namespaces against one table and one directory; readers compute
  answers while writers commit and flush; channel operations of `parseBuildInputs` meet in
  any order; two processes migrate one database.
* **Two steps that look like one.** `done` and `recordSuccess`; `os.Stat` and `os.Remove`
  of a lock file; computing and storing a cache entry; resolving and inserting a cross
  reference; checking a version and running steps.
* **Partial failure and crashes.** The graph transaction commits and the pass that follows
  fails; a checkout is torn between reset and clean; a migration step stops between its
  mark and its end.
* **Order that must not matter.** How the spool splits files into records, how edges are
  cut into chunks, in which order files are discovered, in which order Go ranges over a map.
* **Two ways to one answer.** An update and a build; a replayed candidate and an edge
  resolved at once; an index and a scan; a tree opened level by level and the whole tree;
  a page and the ranking it is a part of.
* **Ends.** Shutdown against sleeping workers; stopping a pool whose workers are
  receiving, parsing or sending.

`PROJECT.json` lists these as hazards, each at its line, with the properties that
cover it.

## 2. The modules

### `SyncQueue`, `RecentRepos`, `SyncQueueOutcomes`, `CoalescingMailbox`

Every critical section of the queue's mutex is one action: `AddAccepted` and
`AddRejectedFull` (`Add`), `GetTake`, `GetWait`, `GetExit` (`get`), `DoneFailed` and
`DoneSucceeded` (`done`), `RecordFailure`, `RecordSuccess`, `ShutdownBegin`. The steps
of `safeHandle` between them are actions on the worker's `pc`. `cond.Signal` wakes
any one waiting worker, `cond.Broadcast` all of them; a woken worker must get the
mutex again and may find the queue empty. The handler is an outcome: success, an
error that ends the sync, or an error that is retried. `attempt` is bounded by
`MaxAttempts` as in the code; the counters `failureTotal` and `queueFullTotal` saturate
at `StatCap`.

`RecentRepos` holds the bookkeeping as operators. Timestamps decide only which of a
success and an error came last, so a repository's pair of times is one of `none`,
`success`, `error`. `SyncQueueOutcomes` adds a history variable: how the last finished
sync of each repository really ended.

`CoalescingMailbox` is the abstract specification: a one-place mailbox for each
repository in which a newer payload replaces an older one, at most one sync of a
repository at a time, started with what the mailbox held. `SyncQueue` implements it
under the mapping *pending = payload if dirty, running = what busy workers captured*.

### `RepoLock`

`WithLock` for one repository, from `acquireLocal` to the deferred releases in their
order. The lock file has a creator (`Nobody` once its process is gone) and may become
stale: a live caller keeps it for less than `repoLockStaleAfter` (30 minutes) unless
`SlowHolders`: the server's attempt timeout is 15 minutes by default, and
`CCG_WEBHOOK_ATTEMPT_TIMEOUT` can be set above the stale age. `StatSeesStale` and
`RemoveStale` are two actions because they are two system calls; `Unlink` removes the
file by name, as the code does.

### `QueryCache`

A key is a tool call with its parameters, an answer the version of the data it reads.
`cachedExecute` is three steps: `Hit` or `Miss`, `Compute` or `ComputeFails`,
`StoreAnswer`. A writer commits, perhaps several times, and then flushes or fails in
between (`Service.Sync` and the MCP build return errors without flushing). `order` is
the order of expiry times, from which `evictOneLocked` takes its victim. `owed` and
`late` are history variables used by the properties only.

### `CrossRefs`

One pass of `SyncNamespace` per worker: the loop of `rebuildOutbound` resolves tags one
by one through the memo, `ReplaceRows` is its transaction, `ListInbound` and `UpdateRow`
are `reresolveInbound`. A row is known by its source, target and the replacement that
inserted it, because an update goes by row id and the ids of deleted rows are not used
again. A namespace declares one symbol; a commit gives it a new node id, keeps it, or
removes it. `owed`, `met` and `raced` are history variables.

### `ParsePool`

The coordinator and the workers of `parseBuildInputs`. The unbuffered `jobs` channel is
a rendezvous (`Submit`), the buffered `results` channel the inputs in stage `sent`.
Which inputs fail to parse is chosen in `Init`; a worker that finds its context done
may report that instead. `Terminated` is the returned call.

### `GraphUpdate`

The graph of one namespace. `stored` is what the nodes say of each file, `edges` the
resolved calls, `candidates` the unresolved-edge index, `ready` its version mark, `docs`
the search documents. A text is the names it defines and the calls it makes, and its own
hash. `Build(walk)` is the transaction of a full build, `Update(walk, scope, replace)` that
of an update, from the classification to the rebuilt documents; a transaction that fails
changes nothing and needs no action. The operators follow the code: `EdgeSources` is
`forceReparseFiles`, `Peers` and `NewDirectory` are `addUnchangedPeersForAddedFiles`,
`Deleted` is `existingFilesMissingFromSet`, `KeptEdges` the cascade of `DeleteNodesByFiles`,
`Targets` is `resolveCall`, `Woken` and `StillWaiting` are the replay of the candidates.

The tree may change while it is walked, so a walk is any function from files to a text,
to nothing or to *unreadable*. An update that hands over to a full build
(`UpdateByBuild`) is one step although the code takes two transactions: the first one
changes nothing, and the build keeps nothing of the graph it finds, so that whatever
happens between the two makes no difference to the result. `Upgrade` is a new version of
the server, which finds the mark of another version on the index.

Left out here and modelled in `Ingest`, `Resolution` and `Packages`: calls through receivers and
interfaces, fallback calls, imports, inheritance and implements edges, the filter for calls
of external packages, package nodes. Left out: stores without transactions,
`SkipSearchRebuild`, and `FailOnUnreadable`, with which nothing is applied.
`LookupKeysForNodes` also probes with the name of the directory, which makes the code
replay more files than `Woken` says and resolves nothing else. `read` and `spared` are
history variables.

### `SyncPipeline`

One repository from a push to fresh answers. The remote has a head per branch; `Deliver` puts
a branch into the mailbox of a server; a worker's `pc` walks through `WithLock`, clone into a
temporary directory and rename, or fetch, checkout, hard reset and clean, then scope, walk,
commit, cross references. Every step may fail and is retried up to `MaxAttempts`; a server may
crash anywhere, which empties its queue, leaves its lock file and its temporary directory and
may tear the checkout. The checkout is a record: which commit the tree shows (`Mixed` if none
whole), whether untracked files lie in it, the branch HEAD is on, its local branches and its
remote refs. Servers share the directory and the graph. `accepted`, `last` and `raced` are
history variables.

A waiter examines a stale lock file in one step (`FindStaleLock`) and removes the file of that
name in another (`RemoveStaleLock`), as `os.Stat` and `os.Remove` do; between them another
waiter may have removed it and created its own. After a crash both servers can therefore be
inside at once, one of them without a file, and a release removes by name whatever file
is there (`Unlock`, and `Abort` after `GiveUp`). The steps of the checkout are cut so that two
servers in it can meet: a fetch, the remote ref it sets and the reading of that ref are three,
a reset moves the branch HEAD is on by then, and what two servers write at a time may be of
both (`Outcomes`, `Clash`). `DiskAccounted` says what is left of the lock file's meaning: the
file of a live server is there only while that server is inside, and the server inside has it
as long as no server has crashed. `raced` marks the syncs that met another.

Facts of the code the module keeps: the flush of the cache after a failure of the cross
references is skipped (that is `QueryCache`'s `FailAfterCommit`); an existing checkout ignores
a new clone URL; a branch that is gone on the remote is a failing fetch. With several servers,
as the guide's stateless deployment has them, an older walk may be committed after a newer one:
`raced` marks those runs. A live server's file never looks stale here: an attempt is taken to
be shorter than the stale age, as it is by default (`RepoLock` has `SlowHolders`). A failing
write of the lock's metadata is `RepoLock`'s too.

### `Migration`

`EnsureSchemaVersion` and `RunMigrations`, a read or a transaction per action, with
golang-migrate's mark, body and clear of each step. PostgreSQL's advisory lock is `holder`;
SQLite's driver locks within its process only. The SQL of a step is its number; `Visible` says
which steps the parity check of a driver can see. Steps of an operator's own directory
(`External`) need not do what the embedded ones do. `MigrateLegacyDefaultNamespace`, which only
tests call, is left out. After a crash that leaves an empty version table, automatic migration
refuses until `ccg migrate` has run: `Decide` shows it.

### `Admission`

`ServeHTTP` from the signature to the status of the queue, and the validation of the
configuration at start. A repository name is a sequence of segments and a segment a sequence of
its dash-separated parts, because a namespace writes a dash for a slash: whether two names meet
in one namespace is a question about exactly that. Patterns are `*` and exact names.
`admission.go:206-208` says that validated rules keep namespaces apart; a rule `o/*` also
admits nested names, two of which can share one, so that `NamespacesKeptApart` is about names
of an owner and a repository.

### `Ingest`, `Resolution`, `Packages`

`Resolution` is `ResolveWithOptions`: names are sequences of segments, a lookup is the set of
its answers. It has the loads of a batch, calls with receivers, explicit owners, package and
Rust scopes, interface dispatch in each dispatch language, inheritance, implements and import
edges, tests, fallback calls, the keys a waiting edge is indexed under and the replay.
`Ingest` is what surrounds it: size limits, the parse cache, flushes of nodes, Go's structural
implementations, chunks of edges and the passes of a build (`Build`) and of a staged
synchronisation (`StagedSync`). `Packages` adds the discovery of packages by the languages,
package nodes and their edges, and what an update refreshes. Import resolution prefers a file
already loaded in the batch to the store's longest suffix; an owner written out is looked for
in all nodes that are loaded; an interface added later does not wake a call that waits for a
dispatch; the key of a `tested_by` edge is the test's own name, but it is replayed with its
file.

Abstracted: segments have no dots, fingerprints are records, the order in which Go ranges over
packages and receivers is one fixed order, samples (the first five dropped edges) may differ
with the split. A full build is *not* independent of the order of its batches for imports and
short owners, against the comment of `flushBuildEdges`. A file that cannot be read, or a
symbolic link, makes the discovery of its language give nothing (`failing`); TypeScript and
JavaScript files that claim one path cancel each other; a source file directly in a workspace
package's root gets the import path `<name>/.`; when two aliases have one target, the order of
a map decides. An update never removes package nodes that nothing declares any more; it leaves
out `_test.go` files and packages of the same name elsewhere, which a build groups, and it does
not refresh a directory whose files disagree on their package: `PackagesFollowFiles` is about
trees without these (`WellKept`).

A package that moves to another directory under its name, as a Node workspace does or a Go
package whose module was renamed (a JVM package has the directory of its name, wherever its
files are), gets a second node, because the update leaves the first. `singleNodeOfKind`
(`packages.go:457`) then finds two, `AnchorsOf` gives neither a file, and the package has no
edges to the files it has now, until a full build. `PackagesFollowFiles` says so: a package has
exactly its edges unless a node of its name was left elsewhere, and then at most what it had.
Its run has workspaces that moved there and back, and aliases that were retargeted and back,
with and without a build in between (`StoredSince`, `NodeHistories`).

### `Extraction`, `Annotations`, `LanguageSemantics`

`Extraction` is the walker: from the matches of a query to one node per symbol, edges, tests and
merged comment blocks. For each definition `Accept` decides whether it is a new symbol, one that
another pattern captured already (`Merge`), the wrapper of one (`Widen`), or inside one of its
name and left out. `Annotations` normalises and parses comments, binds them and stores them
(`StoreFile`), and says when the store refuses the rows. Text is a sequence of kinds of lines.
The binder does what its code says, which is less than its comment does (`binder.go:42`): the
farthest qualifying block wins, so a floating block above, or a comment behind the last line of
code, takes the binding from the doc comment; a doc comment above a line that has a comment of
its own ends on that line and is lost; a comment above a Python function wins over its
docstring; a file without a header takes the first function's comment; a nested symbol of an
enclosing one's name gets no node. `DocsReachTheirDeclaration` states what is left: an
annotation is made of comments that belong there, and is whole when no other comment is near.

`LanguageSemantics` has the hierarchy edges of seven languages and the rewriting of calls whose
receiver has a declared type. Bindings are per file and the last one wins; JVM types are
qualified before the test for loose types, so that Kotlin's `Any` becomes a type of the package;
a call inside the receiver is a call of the receiver's name; a Kotlin alias leaves the simple
name captured; `return x` is a pair of words in Java. `RewritesNameDeclaredTypes` excludes these
by name (`Clear`). The text of Rust generics and of hierarchies, Go's definitions and the JVM's
and Rust's implemented types are operators without a run of their own.

### `Traversal`, `ChangeRisk`

The breadth-first searches of impact and flow with depth and node limits, the cross-namespace
reader, and the rebuild of stored flows, against balls of a relation. `flow.go` counts a
fallback edge before it tests the limit. `ChangeRisk` is the match of hunks to nodes, the heap
that keeps a page, and the pages of affected flows; the order in which Go ranges over hits is a
parameter.

### `Wiki`, `PathSpec`

The tree of folders, packages, files and symbols, built whole and level by level; search;
references; the graph view; documents with their fallbacks; path filters. Two things of the code
to know: a package takes the place of the folder of its path, and opened by levels it lists only
what is directly in it, so that nested packages cannot be reached that way (`builder.go:240`;
`Nested` excludes them from `LazyTreeIsFullTree`); and the tree and the graph may choose
different nodes for a reference that fits several. A request that names no node is for the
root. The root's own id, `root`, is found in the whole tree (depth 0) and is a 404 at any other
depth (`builder.go:142,156`), which `LazyTreeIsFullTree` has as its one exception; and a
reference to a path `root` leads to the root, whose id is compared with paths too
(`server.go:883`). An include filter `.` matches `.` only, and the root is above no included
path (`match.go:77`). SQL's `LIKE` is a path prefix here. A glob of
a directory's name prunes a walk, but a filter on files looks at the file's own name.

### `Requests`, `Handlers`, `Builds`, `MCRules` and its inputs

`Requests` is what a call is that keeps no state: what there is (`given`, and of which handler),
the request (`asked`) and the reply (`answer`), taken in one step. Two specifications extend it,
so that theorems can be about every configuration, graph, tree and request their constants
allow.

* `Handlers` (`ServeSpec`) has the server: the webhook, the handlers of impact and flow, the
  resolver, and the pages of changed nodes and of affected flows. A request to the resolver is a
  batch of edges; its answer is what they resolve to before and after nodes are added to the
  store, and after, with the lossy option. `AskForRisks` is `AnalyzePage` behind
  `detect_changes`, the minimal context and the prompts; its reply is the set of pages that the
  orders in which Go may range over the hits (`Orders`) can give.
* `Builds` (`BuildSpec`) has the two parts of a build that depend on an order: the packages of a
  tree in each order of the walk, with a build of them and an update of what was stored
  before, from a build of one tree and updates with others, and one file that is parsed and stored again, whatever its grammar made of it
  (`Readings`).

`MCRules` extends both with the remaining handlers, one action each, whose modules the prover
cannot use; `MCRules.cfg` gives the constants small sets that it defines (`MCConfigs`,
`MCGraphs` and so on), and `MCSources`, `MCPrograms` and `MCReads` hold other small inputs. The
reference definitions (balls, rankings, a whole scan, agreed packages, a build, a single record)
stand in the properties beside the code's.

## 3. The runs

| Run | Instance | Shows |
|---|---|---|
| `queue_safety` | 2 repositories, 2 payloads, 2 workers, 2 attempts, capacity 2 | the FIFO, the payloads and the recent list agree with the work there is, no lost wakeup, clean shutdown, a recorded success clears the error, refinement of the mailbox |
| `queue_live` | 3 repositories for capacity 2, 2 workers, 2 attempts, with fairness | every accepted push is started; shutdown drains |
| `repo_lock` | 3 callers in 2 processes, 1 crash | token and file exclude, each under its own conditions; no leaked file; every call returns |
| `repo_lock_stale` | the same | **violated**: after a crash two callers run `fn` at once |
| `sync_pipeline` | 2 servers, 2 branches, 3 pushes, 1 crash, 2 attempts | fresh when quiet, walks read whole trees, the disk is accounted for, with both servers inside the lock after a crash |
| `migration` | 2 servers and 2 commands of 2 releases, 3 steps, both drivers | neither row nor server overstates the schema; a dirty row has a cause |
| `query_cache` | 3 queries, 2 entries, 2 readers, 1 writer | the two causes of a stale entry; none is served for ever |
| `crossrefs` | 2 namespaces, 2 workers, 3 commits | rows match tags, rows are exact unless passes overlapped |
| `graph_update` | 3 files in 2 directories, 3 texts, 2 scopes | rows and documents are sound, changed files and their callers as after a full build, added files reach their callers, what can be lost and how, unreadable files kept |
| `graph_update_lost` | the same | **violated**: a reparsed file takes the edges of its callers with it |
| `parse_pool` | 5 inputs, 2 workers | deterministic outcome, the pool returns |
| `rules` | about 240 000 requests on small configurations, graphs, diffs, source layouts, programs, trees | the fourteen properties of the handlers, below |

The properties of `rules`: `NamespacesKeptApart` (admission), `SearchesAreBalls` (impact, flow),
`PagesCoverRanking` (changes), `ReplayMissesNothing` and `ResolutionIsConservative`
(resolution), `IngestLosesNothing` and `SplitDoesNotMatter` (builds and staged
synchronisations), `DiscoveryIgnoresOrder` and `PackagesFollowFiles` (packages),
`ParseIsStorable` and `DocsReachTheirDeclaration` (sources), `RewritesNameDeclaredTypes`
(semantics), `LazyTreeIsFullTree` and `WikiAnswersOpen` (wiki).

Two actors and two objects of each kind are enough for the concurrent components because every
hazard is a meeting of two: two workers on one repository, a reader and a writer on one key, two
passes on one row, two servers on one checkout. Where a bound could hide a case it is one
larger: three keys for two entries (eviction of a key nobody is using), three callers for two
processes (both kinds of competition), five inputs for a window of two (the window moves and a
result can be three ahead), and three files for two directories (a file with a peer, a directory
that can be new, a caller outside the directory that changes). The three texts of
`MCGraphUpdate` define one name twice and the other once, so that a call can be resolved,
ambiguous and waiting. Its `VIEW` leaves out the two history variables; the action properties
are evaluated on every step that is generated. `MCMigration` has three steps of which the
drivers see different ones and the last cannot be repeated. `MCSyncPipeline` lets both servers
work at once until the second branch exists (`MCOneServerPerBranches`). With one
crash both servers get inside the lock together, for the first branch and its two commits. The chunks and flushes
of `rules` are of three edges and two files, so that its inputs cross them. The theorems remove
the bounds where there are any.

Deadlock is checked except in `crossrefs`, whose bound on
commits stops the system, and in `rules`, where a request is answered and the run ends.
Symmetry is used for safety only.

### The two violated runs, and promises that are weaker than they read

* `MutualExclusion` (`checkout.go:90`): a crash leaves a file, two waiters both stat it
  as stale, the first removes it and creates its own, the second removes that.
  `LocksExclude` holds, and a single process is always safe (`SingleProcessExclusion`).
* `ReadCallersKeepCalls` (`graphstate.go:59`): `a1` calls into `b1`; `b2` is added beside `b1`,
  so that `b1`, unchanged, is forced; its nodes are deleted and made again, and the edge
  from `a1` goes with them. `a1` is not parsed again, because the files with edges into
  *changed* files were chosen before the peers were forced, and nothing is left to
  replay. `NothingElseLost` shows that a call is lost in no other way by an operation that
  read its caller, and `SyncedFilesMatchBuild` that every file that changed or called into
  a change is right.

Three more races are described by what *does* hold. A worker that succeeded releases its
repository before it records the success; a failure another worker records in between is
cleared by it (`guide/webhook.md:262-264` promises that it stays), while
`SuccessClearsError` holds. An answer computed before a commit is stored after the flush
(`cache.go:72`): `StaleIsExplained` names this and a missing flush as the only causes,
`StaleIsTemporary` says that the TTL ends it. Two overlapping passes of cross references can
leave a dead row although its target exists (`guide/annotations.md:65`): `ExactUnlessRaced` says
that nothing else can, and `SerialRefsFollowRebuilds` that one worker never does.

`unresolved.go:22-23` keeps candidates "until a
future symbol addition can resolve them", but only symbols of added files in *new*
directories are replayed to callers elsewhere. A call that waits for a name which a
*modified* file, or a file added to a known directory, brings in waits for the next parse
of its own file. `AddedFilesReachCallers` states what the code does. `SyncWithExisting` deletes
missing files after it has resolved edges; its callers never ask it for both (`update.go:477`),
and no run does.

## 4. Fairness

* `SyncQueue`: weak fairness of each worker and of the end of the drain. Goroutines that
  can run do; a handler returns, because `Service.Sync` puts an attempt timeout on its
  context; backoff timers fire. No fairness for pushes, cancellation or `Shutdown`.
* `RepoLock`: weak fairness of each caller and of its timeout, strong fairness of the
  choice of an expired context in the polling `select`: Go picks among ready cases at
  random, so a case that is ready again and again is taken. None for calls and crashes.
* `QueryCache`: time passes. Nobody has to read, write or flush.
* `ParsePool`: weak fairness of the coordinator and of each worker. Parsing a file ends;
  nobody has to cancel.
* `CrossRefs`, `GraphUpdate`, `SyncPipeline` and `Migration` state safety only: nothing obliges
  anybody to push, retry or restart, and what a sync leaves when it ends is `FreshWhenQuiet`.

## 5. What is proved

Every theorem holds for any sets of repositories, workers, callers, keys, namespaces or inputs
and any bounds that satisfy the named assumptions of the module (`QueueAssumption`,
`StatsAssumption`, `LockAssumption`, `CacheAssumption`, `CrossRefsAssumption`, `PoolAssumption`,
`GraphAssumption`, `MigrationAssumption`, `PipelineAssumption`, `AdmissionAssumption`,
`TraversalAssumption`, `ResolutionAssumption`, `RiskAssumption`, `PackagesAssumption`,
`SourcesAssumption`), which TLC evaluates in the runs that use them.

* **`SyncQueueProofs`.** `IInv` joins the type invariant with *locals in scope* (a busy
  worker has a repository and a payload, it is in `processing`, each repository in
  `processing` has one worker, nobody waits after `Shutdown`), the exactness of the FIFO and
  of the payload map, and the consistency of the bookkeeping (from `UpsertConsistent`:
  removing and appending in a sequence without duplicates, and eviction at the cap, keep
  order and map in agreement). Exclusion alone is not inductive: that `get` cannot hand out
  a repository twice follows from the FIFO being duplicate-free and disjoint from
  `processing`, which needs `done` to requeue exactly the dirty ones. `WakeupPerQueuedRepo`
  counts woken workers against the queue. `QueueImplementsMailbox` maps each action to a
  step or a stutter of `CoalescingMailbox`. `SuccessIsRecorded` needs two facts beside
  `IInv`: only a failing sync of a repository puts an error into its entry
  (`ErrorComesFromFailure`), and a worker about to record keeps its repository
  (`RecordingKeepsRepo`).
* **`RepoLockProofs`.** `IInv` ties the token to the one caller of its process past
  `acquireLocal`, and, as long as nobody crashed and holders are fast, the lock file to
  the one caller in an owning state.
* **`SyncPipelineProofs`.** `IInv` is `Core /\ Fresh`. `Core`: the shapes; each server's job
  is in step with its `pc` (`JobsMatch`); as long as nobody crashed, whoever is between taking
  and giving back the lock file owns it, and a file always belongs to a server inside or to a
  crash (`LockHeld`): with a crash two servers may be inside, so that nothing else here may
  rest on exclusion; what clone, rename and fetch have established of the checkout and the
  temporary directories, by the position of each server and whatever the others do
  (`DiskKnown`). It is inductive by itself and gives `DiskAccounted`. `Fresh` is about a sync
  that met no other server's: it is alone (`Alone`), no writing of another met its own
  (`NoClash`), files are read in a walk only (`ReadOnlyInWalk`), what it has is at least as new as the newest accepted push of its branch, wherever it is
  by now, unless a mailbox holds more work (`OnItsWay`: fetched head, clone, tree, walk,
  graph), and after a success that nothing followed the graph shows it (`Settled`).
  `WalksAreWhole` and `FreshWhenQuiet` follow.
* **`AnswersProofs`.** Eight theorems about answers. `StalenessExplained` (`QueryCache`) is an
  induction over the steps; the type of the readers is what it needs. `CacheTypeCorrect` and
  `CacheIsBounded` are about the entries and their order of expiry. Their invariant `OInv` says
  that the order lists every entry once and nothing else, and that what has expired comes first
  (`Aged`): that is what an eviction of the oldest entry rests on. What `Remaining` leaves of
  the order are the elements at increasing positions (`Picks`, `RemainingIs`). `EntriesOrdered` is
  not among the properties of a run; TLC agrees with it on the instance of `query_cache`.
  `NoSharedNamespace` (`Admission`): a fold over the rules allows a name only if a rule does
  that is not negated (`AllowedByARule`); a valid configuration has one owner, and its rules
  therefore let in the names of one owner only; then the namespace of a plain name determines it
  (`NamespaceOfPlain`). `SearchesComplete` (`Traversal`): a search grows from one state to the
  next by a set of nodes, and drops one only at the limit (`Grows`); what `d` hops add to the
  start covers the balls of radius up to `d` in layers (`Covers`, `BallLayered`); and a covered
  search is the ball, nearest first, cut at the limit (`CoveredIsSearch`). `trace` stops after
  as many levels as there are edges, because a level that adds nothing ends the search and the
  nodes reached are targets of edges (`TraceEnds`). `ResolutionConserves` and `ReplayComplete`
  (`Resolution`): whatever a pass has loaded by the time it looks at an edge, and the
  implementers it has noted, are nodes of the store (`States`). The lookups for a call in each
  language give nodes of the last name of its target, or nothing (`Fitting`, `DispatchFits`,
  `CallsFit`); the longest suffix that the index of file nodes finds is the longest that a scan
  finds (`FindIsBestMatch`, by the depth of a common suffix, `DepthIs`). An edge of any kind
  that resolves leads to a node one of whose lookup keys is the key the edge would wait under
  (`Leading`). Edges are settled one after the other, and a state an edge is settled in is again
  one of `States` (`OthersSettle`); calls come last, and in a state that the lossy option has
  not touched (`PassIs`). Hence the first theorem. For the second, an edge that resolves to an
  added node has a key of that node, and ids tell which node that is. `PagesCover`
  (`ChangeRisk`): the order by risk, file, line, name and id is strict and total on the hits
  (`RisksStrict`), a finite set has one increasing enumeration under such an order, in which an
  element stands behind as many others as are before it (`Sortable`, `InOrderPlaces`). The
  bounded heap holds after each hit the best `limit` of the hits so far, whatever their order
  (`RetainKeepsBest`, `HeapsAre`), so that a page is the ranking between two positions
  (`OnePage`), and a client that asks for the next page until there is none reads the ranking
  from its start (`ReadOnIs`, `WalkIsRanking`). The pages of flows are cut from their order by
  name and id. The loops of these modules are functions that recurse over `0 .. N`. What they
  compute is proved by an induction that the module derives from the well-founded order of
  finite sets (`LeastOf`, `SetInduction`, `UpToInduction`, `Recursion`), as the induction
  theorems of the library cannot be used here. That is why `Admission`, `Traversal`,
  `ChangeRisk`, `Packages`, `Extraction` and `Annotations` use such functions instead of
  `FoldLeft` and `SelectSeq`, and `Resolution` for what settles edge by edge.
* **`CrossRefsProofs`.** `IInv` says for every active pass what its memo and its listed rows
  know unless another pass has met it, and for every settled pair that its row is exact or
  the pair raced.
* **`BuildProofs`.** Three parts of a build. *The pool* (`ParsePool`): `IInv` ties the stages of
  inputs to the counters and to the workers; the results held by workers, channel and pending
  map all lie in the window `(nextEmit, nextSubmit]`, which bounds them by the number of
  workers. *The packages* (`Packages`): `DiscoveryUnordered`. What a language has after some
  files of a walk is what the set of their declarations makes (`Merged`): a package for each
  path whose declarations agree, with all their files, and the other paths blocked. Adding a
  file to a walk adds its declarations to that set (`RememberMerges`), so that only the set
  counts, and every walk sees the same files (`DiscoveriesAre`); merging the languages is the
  same once more (`CollectedAre`). *The nodes of a file* (`Extraction`, `Annotations`):
  `FilesAreStorable`. The invariant of the loop over captures is `Tidy`: the file's node is
  first, every other has the name and lines of a definition captured so far, and of two symbols
  with one name the later starts and ends later (`After`). That keys differ is too weak for an
  induction: the walker compares a definition with the newest symbol of its name only. A capture
  merges with a symbol, widens one or adds one; widening needs the order of the tree, because a
  symbol that gets earlier lines could start before an older one of its name (`WidenKeeps`).
  Comments then bind to nodes by position, rows of annotations belong to nodes that are stored,
  one each (`BindIs`, `CollectedFits`), and the store finds nothing to refuse (`StoreTakes`);
  `Flattened` says what the library's `FlattenSeq` picks from. `WorkedRight` says that a reply
  of `Builds` is what its action computes.
* **`GraphUpdateProofs`.** The four invariants are inductive together (`Inv`): that a kept
  edge stays sound needs that its target is stored and not cleared, that a replayed call
  gets no second row needs that candidates belong to stored files. The lemmas describe
  one transaction (`ApplyEffect` to `ApplyOneRow`); `CallerParsed` carries the action
  properties: a file that was read and has an edge into a changed file is parsed, because
  nothing outside the scope is read. All eight checked properties are theorems.
* **`MigrationProofs`.** `IInv` says what a process knows where it stands: before its mark and
  in its body the steps below it are applied, after the body its own too, and a legacy database
  is taken over only in the version of the binary. That carries `SchemaNotOverstated` through
  crashes, failures and overlaps. For `DirtyIsExplained` two more parts: `StepsExclude`
  (PostgreSQL's lock belongs to the process at a step) and, while nothing disturbed the
  database, `RowFollowsStep` (row, schema and the process at a step move together).

`AdmissionAssumption` and `TraversalAssumption` say that rules, names, ids and limits have their
types (a negative limit does what zero does), and nothing else: the theorems hold for every
configuration a server accepts, every graph and every request. `ResolutionAssumption` says the
same of nodes and edges, that ids are primary keys, and that a file node's qualified name is its
path (`walker.go:216-224`, the only place that makes one); edges come unresolved, as the parsers
and the replay hand them over. `RiskAssumption` says that nodes and flows have primary keys,
that a line range does not end before it starts, and that limits have their types.
`PackagesAssumption` says that a walk comes by every file of the tree and by nothing else, and
that a path has a length and is not before itself. `SourcesAssumption` is about what tree-sitter
hands to the walker: a definition has a name, which is not the path of its file, and lines;
definitions come in the order of the tree, a whole before its parts, but for the wrapper of a
decorated definition, which may follow what it wraps; and the stored file was not refused
before. TLC evaluates it on every reading of `rules`.

Only model-checked: the liveness properties (`AcceptedIsStarted`, `ShutdownDrains`,
`CallReturns`, `StaleIsTemporary`, `PoolReturns`), which need fairness and `ENABLED`; and seven
properties of `rules`: `IngestLosesNothing`, `SplitDoesNotMatter`, `PackagesFollowFiles`,
`DocsReachTheirDeclaration`, `RewritesNameDeclaredTypes`, `LazyTreeIsFullTree` and
`WikiAnswersOpen`. Most of these are about what folds and `RECURSIVE` operators of the library
and of these modules compute; the prover cannot unfold them, and the modules that declare a
recursive operator (`LanguageSemantics`, `Wiki`, `PathSpec` and the inputs) are closed to it.
`PackagesFollowFiles` and `DocsReachTheirDeclaration` are within reach of it by their form; the
first compares the rows of two operations over a graph, the second needs what the scan over the
lines of a text leaves of it, and neither is done. `IngestLosesNothing` and `SplitDoesNotMatter`
hold of what a parser makes of a repository, where an edge starts at a node of its file. What a
pass resolves depends on what its chunk has loaded, so a theorem about every set of nodes and
edges would have to say first which of them a parser can make; that is not done.

## 6. Not modelled, and why

`PROJECT.json` lists every component with its status. Left out: ranking and full-text search
(numeric weights, SQL engines), rendering (docs, wiki pages, prompts), plumbing (CLI, MCP
request parsing, HTTP wiring, configuration, tracing), the tree-sitter grammars, their queries
and the syntax inside a declaration, stored communities. Partly modelled: the build pipeline
(not its spool files and timings), the graph update (not stores without transactions), the graph
store (SQL is modelled by what its transactions give; the isolation level of a particular
database is not), source parsing and configuration (path filters only). Of the wiki: static
files, absolute paths, symbolic links and Markdown.

## 7. Plan

1. Proofs of `PackagesFollowFiles` and `DocsReachTheirDeclaration`, on top of
   `DiscoveryUnordered` and `FilesAreStorable`, whose lemmas give the packages and the nodes
   they start from; then `SplitDoesNotMatter`, with the loops of `Ingest` written as functions.
2. `GraphUpdate` with interface dispatch, whose resolution depends on implements edges resolved
   earlier in the same transaction, as `Ingest` has it for one operation at a time.
3. Search: the order of evidence and the fallback between exact and ranked results, if a model
   without weights says anything.
