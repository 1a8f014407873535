----------------------------- MODULE QueryCache -----------------------------
(***************************************************************************)
(* The query cache of the MCP tools (internal/adapters/inbound/mcp/cache.go *)
(* and cachedExecute of handlers.go) between readers, which look an answer *)
(* up, compute it from the database and store it in three separate steps,  *)
(* and writers, which commit a graph change and flush the cache afterwards *)
(* (Service.Sync of internal/app/reposync, buildOrUpdateGraph,             *)
(* parseProject and runPostprocess of handler_parse.go).                   *)
(*                                                                         *)
(* A key stands for one tool call with its parameters; an answer is the    *)
(* version of the data the call reads.                                     *)
(***************************************************************************)
EXTENDS Naturals, Sequences, FiniteSets

CONSTANTS
    Keys,             \* distinct cached queries
    Readers, Writers, \* concurrent tool calls and graph updates
    MaxCacheEntries,  \* maxCacheEntries, 1000 in the code
    MaxVersion,       \* bound of the model
    NoEntry, NoKey

ASSUME CacheAssumption ==
    /\ MaxCacheEntries \in Nat \ {0}
    /\ MaxVersion \in Nat
    /\ NoEntry \notin Nat
    /\ NoKey \notin Keys

VARIABLES
    db,       \* the version a query would compute now
    cache,    \* Cache.entries: the stored answer, or NoEntry
    order,    \* the keys of entries by expiry time, the oldest first
    expired,  \* the keys whose entry has outlived its TTL
    readers,  \* the progress of each reader
    writers,  \* the progress of each writer
    owed,     \* history: keys changed by a commit that no flush has followed yet
    late      \* history: keys whose entry was out of date when it was stored

vars == <<db, cache, order, expired, readers, writers, owed, late>>
entryVars == <<cache, order, expired, late>>

Versions == 0 .. MaxVersion

\* A reader is idle, about to call fn, or about to store what fn computed; a
\* writer is idle or between its commit and its flush.
Idle == [at |-> "idle", key |-> NoKey, answer |-> NoEntry]
Computing(k) == [at |-> "compute", key |-> k, answer |-> NoEntry]
Storing(k, v) == [at |-> "store", key |-> k, answer |-> v]

Init ==
    /\ db = [k \in Keys |-> 0]
    /\ cache = [k \in Keys |-> NoEntry]
    /\ order = <<>>
    /\ expired = {}
    /\ readers = [r \in Readers |-> Idle]
    /\ writers = [w \in Writers |-> "idle"]
    /\ owed = {}
    /\ late = {}

-----------------------------------------------------------------------------
\* Cache

\* Mutant of Live: Get does not look at the expiry time.
LiveForever(k) == cache[k] # NoEntry

\* What Get returns.
Live(k) == cache[k] # NoEntry /\ k \notin expired

\* The keys that stay when some entries go, in the same order.
Remaining(s, gone) ==
    LET left[i \in 0 .. Len(s)] ==
            IF i = 0 THEN <<>>
            ELSE IF s[i] \in gone THEN left[i - 1] ELSE Append(left[i - 1], s[i])
    IN  left[Len(s)]

\* Set: the entry gets a new expiry time; if there are now too many, the entry
\* that expires first goes.
Store(k, v) ==
    LET stored == Append(Remaining(order, {k}), k)
        evicted == IF Len(stored) > MaxCacheEntries THEN {Head(stored)} ELSE {}
    IN /\ cache' = [x \in Keys |-> IF x \in evicted THEN NoEntry
                                   ELSE IF x = k THEN v ELSE cache[x]]
       /\ order' = IF evicted = {} THEN stored ELSE Tail(stored)
       /\ expired' = expired \ (evicted \union {k})
       /\ late' = (IF v = db[k] THEN late \ {k} ELSE late \union {k}) \ evicted

\* Mutant of Clear: only what has expired is dropped.
ClearExpired ==
    /\ cache' = [k \in Keys |-> IF k \in expired THEN NoEntry ELSE cache[k]]
    /\ order' = Remaining(order, expired)
    /\ expired' = {}
    /\ late' = late \ expired

\* Flush
Clear ==
    /\ cache' = [k \in Keys |-> NoEntry]
    /\ order' = <<>>
    /\ expired' = {}
    /\ late' = {}

\* Time passes: of the entries still live, the one that was stored first expires.
Expire ==
    \E i \in 1 .. Len(order) :
        /\ order[i] \notin expired
        /\ \A j \in 1 .. i - 1 : order[j] \in expired
        /\ expired' = expired \union {order[i]}
        /\ UNCHANGED <<db, cache, order, readers, writers, owed, late>>

\* The background loop drops what has expired.
Cleanup ==
    /\ expired # {}
    /\ cache' = [k \in Keys |-> IF k \in expired THEN NoEntry ELSE cache[k]]
    /\ order' = Remaining(order, expired)
    /\ expired' = {}
    /\ late' = late \ expired
    /\ UNCHANGED <<db, readers, writers, owed>>

-----------------------------------------------------------------------------
\* cachedExecute

\* A hit answers at once and leaves everything as it is.
Hit(r, k) ==
    /\ readers[r] = Idle
    /\ Live(k)
    /\ UNCHANGED vars

Miss(r, k) ==
    /\ readers[r] = Idle
    /\ ~Live(k)
    /\ readers' = [readers EXCEPT ![r] = Computing(k)]
    /\ UNCHANGED <<db, entryVars, writers, owed>>

Compute(r) ==
    /\ readers[r].at = "compute"
    /\ readers' = [readers EXCEPT ![r] = Storing(readers[r].key, db[readers[r].key])]
    /\ UNCHANGED <<db, entryVars, writers, owed>>

\* An error of fn is returned and not cached.
ComputeFails(r) ==
    /\ readers[r].at = "compute"
    /\ readers' = [readers EXCEPT ![r] = Idle]
    /\ UNCHANGED <<db, entryVars, writers, owed>>

StoreAnswer(r) ==
    /\ readers[r].at = "store"
    /\ Store(readers[r].key, readers[r].answer)
    /\ readers' = [readers EXCEPT ![r] = Idle]
    /\ UNCHANGED <<db, writers, owed>>

-----------------------------------------------------------------------------
\* Writers

\* A committed update changes what some queries would answer, perhaps none (a
\* retry finds the files as it left them).  The flows and the search documents
\* that postprocessing rebuilds are commits of the same writer.
Commit(w, changed) ==
    /\ \A k \in changed : db[k] < MaxVersion
    /\ db' = [k \in Keys |-> IF k \in changed THEN db[k] + 1 ELSE db[k]]
    /\ owed' = owed \union changed
    /\ writers' = [writers EXCEPT ![w] = "committed"]
    /\ UNCHANGED <<entryVars, readers>>

Flush(w) ==
    /\ writers[w] = "committed"
    /\ Clear
    /\ owed' = {}
    /\ writers' = [writers EXCEPT ![w] = "idle"]
    /\ UNCHANGED <<db, readers>>

\* A later step of the update fails (the cross references, or the context is
\* done): the caller returns the error and does not flush.
FailAfterCommit(w) ==
    /\ writers[w] = "committed"
    /\ writers' = [writers EXCEPT ![w] = "idle"]
    /\ UNCHANGED <<db, entryVars, readers, owed>>

-----------------------------------------------------------------------------
Next ==
    \/ \E r \in Readers :
        \/ \E k \in Keys : Hit(r, k) \/ Miss(r, k)
        \/ Compute(r) \/ ComputeFails(r) \/ StoreAnswer(r)
    \/ \E w \in Writers :
        (\E changed \in SUBSET Keys : Commit(w, changed)) \/ Flush(w) \/ FailAfterCommit(w)
    \/ Expire \/ Cleanup

Spec == Init /\ [][Next]_vars

\* Time passes.  Nothing obliges anybody to ask, to write or to flush.
FairSpec == Spec /\ WF_vars(Expire)

-----------------------------------------------------------------------------
\* Every variable keeps its shape.
TypeOK ==
    /\ db \in [Keys -> Versions]
    /\ cache \in [Keys -> Versions \union {NoEntry}]
    /\ order \in Seq(Keys)
    /\ expired \in SUBSET Keys
    /\ readers \in [Readers -> {Idle} \union {Computing(k) : k \in Keys}
                                  \union {Storing(k, v) : k \in Keys, v \in Versions}]
    /\ writers \in [Writers -> {"idle", "committed"}]
    /\ owed \in SUBSET Keys
    /\ late \in SUBSET Keys

\* There is room for every entry, and each has one place among the expiry times,
\* where those that have expired come first: an entry that is still good is never
\* evicted before one that is not.
EntriesOrdered ==
    /\ Len(order) <= MaxCacheEntries
    /\ \A i, j \in 1 .. Len(order) : i < j =>
          order[i] # order[j] /\ (order[j] \in expired => order[i] \in expired)
    /\ {order[i] : i \in 1 .. Len(order)} = {k \in Keys : cache[k] # NoEntry}
    /\ expired \union late \subseteq {k \in Keys : cache[k] # NoEntry}

Stale(k) == cache[k] # NoEntry /\ cache[k] # db[k]

\* An out-of-date entry has one of two causes and no other: a commit that no flush
\* has followed, or a reader that stored what it had computed before a commit.
StaleIsExplained == \A k \in Keys : Stale(k) => k \in owed \/ k \in late

\* The TTL bounds the damage: no out-of-date answer is served for ever, whether or
\* not anybody flushes.
StaleIsTemporary == \A k \in Keys : (Stale(k) /\ Live(k)) ~> ~(Stale(k) /\ Live(k))
=============================================================================
