----------------------------- MODULE SyncQueue -----------------------------
(***************************************************************************)
(* The deduplicating webhook sync queue of                                 *)
(* internal/app/reposync/queue.go: a bounded set of tracked repositories,  *)
(* a FIFO of repositories that wait, the newest payload of each, and a pool *)
(* of workers on one mutex and one condition variable.                     *)
(*                                                                         *)
(* Every critical section of the mutex is one action.  A worker's position *)
(* between critical sections is its pc:                                    *)
(*   get        about to run the critical section of get                   *)
(*   waiting    in cond.Wait                                               *)
(*   handling   inside tryHandle                                           *)
(*   backoff    in the select of safeHandle, before the next attempt       *)
(*   giveup     about to call recordFailure                                *)
(*   failed     safeHandle returned false, about to call done              *)
(*   succeeded  safeHandle returned true, about to call done               *)
(*   recording  past done, about to call recordSuccess                     *)
(*   exited     returned from worker                                       *)
(***************************************************************************)
EXTENDS RecentRepos, FiniteSets

CONSTANTS
    Repos,            \* repository full names
    Payloads,         \* what a push carries: clone URL and branch
    Workers,          \* the worker goroutines
    MaxTrackedRepos,  \* QueueConfig.MaxTrackedRepos after normalisation
    MaxAttempts,      \* RetryConfig.MaxAttempts after normalisation
    NoRepo, NoPayload,
    ShutdownKey       \* the name "shutdown" under which a drain timeout is recorded

ASSUME QueueAssumption ==
    /\ IsFiniteSet(Workers) /\ Workers # {}
    /\ IsFiniteSet(Repos)
    /\ MaxTrackedRepos \in Nat \ {0}
    /\ MaxAttempts \in Nat \ {0}
    /\ NoRepo \notin Repos
    /\ NoPayload \notin Payloads
    /\ ShutdownKey \notin Repos
    /\ StatKeys = Repos \union {ShutdownKey}

VARIABLES
    queue,       \* SyncQueue.queue
    dirty,       \* SyncQueue.dirty
    processing,  \* SyncQueue.processing
    payloads,    \* SyncQueue.payloads; NoPayload where the map has no key
    shutdown,    \* SyncQueue.shutdown
    cancelled,   \* SyncQueue.ctx is done
    drain,       \* progress of the Shutdown call: idle, waiting, returned
    pc,          \* position of each worker
    repoOf,      \* the repository a worker holds
    payloadOf,   \* the payload get captured for it
    attempt,     \* the loop variable of safeHandle
    stats        \* repoStats, repoStatsOrder, last*Time and the totals

workVars == <<queue, dirty, processing, payloads>>
lifeVars == <<shutdown, cancelled, drain>>
workerVars == <<pc, repoOf, payloadOf, attempt>>
vars == <<queue, dirty, processing, payloads, shutdown, cancelled, drain,
          pc, repoOf, payloadOf, attempt, stats>>

Tracked == {r \in Repos : payloads[r] # NoPayload}

WorkerStates == {"get", "waiting", "handling", "backoff", "giveup",
                 "failed", "succeeded", "recording", "exited"}

\* A worker in one of these states has its repository in the processing map.
Busy == {"handling", "backoff", "giveup", "failed", "succeeded"}

Waiting == {w \in Workers : pc[w] = "waiting"}

Init ==
    /\ queue = <<>>
    /\ dirty = {}
    /\ processing = {}
    /\ payloads = [r \in Repos |-> NoPayload]
    /\ shutdown = FALSE
    /\ cancelled = FALSE
    /\ drain = "idle"
    /\ pc = [w \in Workers |-> "get"]
    /\ repoOf = [w \in Workers |-> NoRepo]
    /\ payloadOf = [w \in Workers |-> NoPayload]
    /\ attempt = [w \in Workers |-> 0]
    /\ stats = NoStats

-----------------------------------------------------------------------------
\* Add

\* cond.Signal: wakes one waiting worker if there is one.  pcNow is the pc the
\* rest of the critical section leaves.
Signal(pcNow) ==
    \/ /\ Waiting = {}
       /\ pc' = pcNow
    \/ \E w \in Waiting : pc' = [pcNow EXCEPT ![w] = "get"]

\* A repository that is already tracked is never refused for lack of room.
HasRoom(r) == r \in Tracked \/ Cardinality(Tracked) < MaxTrackedRepos

\* Mutants of AddAccepted: it enqueues a repository that is being processed, or
\* enqueues without cond.Signal.
AddEnqueuesProcessing(r, p) ==
    /\ ~shutdown
    /\ HasRoom(r)
    /\ payloads' = [payloads EXCEPT ![r] = p]
    /\ dirty' = dirty \union {r}
    /\ IF r \in dirty
       THEN UNCHANGED <<queue, pc>>
       ELSE queue' = Append(queue, r) /\ Signal(pc)
    /\ UNCHANGED <<processing, repoOf, payloadOf, attempt, lifeVars, stats>>

AddForgetsSignal(r, p) ==
    /\ ~shutdown
    /\ HasRoom(r)
    /\ payloads' = [payloads EXCEPT ![r] = p]
    /\ dirty' = dirty \union {r}
    /\ queue' = IF r \in dirty \union processing THEN queue ELSE Append(queue, r)
    /\ UNCHANGED <<processing, workerVars, lifeVars, stats>>

\* The payload is replaced even when the repository is already dirty; the
\* repository is enqueued only if it is neither dirty nor being processed.
AddAccepted(r, p) ==
    /\ ~shutdown
    /\ HasRoom(r)
    /\ payloads' = [payloads EXCEPT ![r] = p]
    /\ dirty' = dirty \union {r}
    /\ IF r \in dirty \union processing
       THEN UNCHANGED <<queue, pc>>
       ELSE queue' = Append(queue, r) /\ Signal(pc)
    /\ UNCHANGED <<processing, repoOf, payloadOf, attempt, lifeVars, stats>>

AddRejectedFull(r) ==
    /\ ~shutdown
    /\ ~HasRoom(r)
    /\ stats' = RecordQueueFullIn(stats)
    /\ UNCHANGED <<workVars, lifeVars, workerVars>>

-----------------------------------------------------------------------------
\* worker: get

GetTake(w) ==
    /\ pc[w] = "get"
    /\ queue # <<>>
    /\ LET r == Head(queue) IN
        /\ queue' = Tail(queue)
        /\ processing' = processing \union {r}
        /\ dirty' = dirty \ {r}
        /\ repoOf' = [repoOf EXCEPT ![w] = r]
        /\ payloadOf' = [payloadOf EXCEPT ![w] = payloads[r]]
    /\ pc' = [pc EXCEPT ![w] = "handling"]
    /\ attempt' = [attempt EXCEPT ![w] = 1]
    /\ UNCHANGED <<payloads, lifeVars, stats>>

GetWait(w) ==
    /\ pc[w] = "get"
    /\ queue = <<>>
    /\ ~shutdown
    /\ pc' = [pc EXCEPT ![w] = "waiting"]
    /\ UNCHANGED <<workVars, lifeVars, repoOf, payloadOf, attempt, stats>>

\* Mutant of GetExit: get looks at shutdown before it looks at the queue.
GetExitsEarly(w) ==
    /\ pc[w] = "get"
    /\ shutdown
    /\ pc' = [pc EXCEPT ![w] = "exited"]
    /\ UNCHANGED <<workVars, lifeVars, repoOf, payloadOf, attempt, stats>>

GetExit(w) ==
    /\ pc[w] = "get"
    /\ queue = <<>>
    /\ shutdown
    /\ pc' = [pc EXCEPT ![w] = "exited"]
    /\ UNCHANGED <<workVars, lifeVars, repoOf, payloadOf, attempt, stats>>

-----------------------------------------------------------------------------
\* worker: safeHandle

Goto(w, from, to) ==
    /\ pc[w] = from
    /\ pc' = [pc EXCEPT ![w] = to]

HandleOk(w) ==
    /\ Goto(w, "handling", "succeeded")
    /\ UNCHANGED <<workVars, lifeVars, repoOf, payloadOf, attempt, stats>>

\* A non-retryable error, or any error (a panic included) of the last attempt.
HandleFinalError(w) ==
    /\ Goto(w, "handling", "giveup")
    /\ UNCHANGED <<workVars, lifeVars, repoOf, payloadOf, attempt, stats>>

HandleRetryableError(w) ==
    /\ attempt[w] < MaxAttempts
    /\ Goto(w, "handling", "backoff")
    /\ UNCHANGED <<workVars, lifeVars, repoOf, payloadOf, attempt, stats>>

BackoffElapsed(w) ==
    /\ Goto(w, "backoff", "handling")
    /\ attempt' = [attempt EXCEPT ![w] = @ + 1]
    /\ UNCHANGED <<workVars, lifeVars, repoOf, payloadOf, stats>>

\* The retry is dropped and nothing is recorded.  The payload's own context is
\* detached by Add and never done, so only the queue context gets here.
BackoffCancelled(w) ==
    /\ cancelled
    /\ Goto(w, "backoff", "failed")
    /\ UNCHANGED <<workVars, lifeVars, repoOf, payloadOf, attempt, stats>>

RecordFailure(w) ==
    /\ Goto(w, "giveup", "failed")
    /\ stats' = RecordFailureIn(stats, repoOf[w])
    /\ UNCHANGED <<workVars, lifeVars, repoOf, payloadOf, attempt>>

-----------------------------------------------------------------------------
\* worker: done, then recordSuccess

\* safeHandle's locals go out of scope when the loop of worker starts over.
Forget(w) ==
    /\ repoOf' = [repoOf EXCEPT ![w] = NoRepo]
    /\ payloadOf' = [payloadOf EXCEPT ![w] = NoPayload]
    /\ attempt' = [attempt EXCEPT ![w] = 0]

\* Mutants of Release: it leaks the payload of a repository without work, or
\* requeues without cond.Signal.
ReleaseLeaksPayload(r, pcNow) ==
    /\ processing' = processing \ {r}
    /\ IF r \in dirty
       THEN queue' = Append(queue, r) /\ Signal(pcNow)
       ELSE pc' = pcNow /\ UNCHANGED queue
    /\ UNCHANGED <<dirty, payloads, lifeVars, stats>>

ReleaseForgetsSignal(r, pcNow) ==
    /\ processing' = processing \ {r}
    /\ pc' = pcNow
    /\ IF r \in dirty
       THEN queue' = Append(queue, r) /\ UNCHANGED payloads
       ELSE payloads' = [payloads EXCEPT ![r] = NoPayload] /\ UNCHANGED queue
    /\ UNCHANGED <<dirty, lifeVars, stats>>

Release(r, pcNow) ==
    /\ processing' = processing \ {r}
    /\ IF r \in dirty
       THEN queue' = Append(queue, r) /\ Signal(pcNow) /\ UNCHANGED payloads
       ELSE /\ payloads' = [payloads EXCEPT ![r] = NoPayload]
            /\ pc' = pcNow
            /\ UNCHANGED queue
    /\ UNCHANGED <<dirty, lifeVars, stats>>

DoneFailed(w) ==
    /\ pc[w] = "failed"
    /\ Release(repoOf[w], [pc EXCEPT ![w] = "get"])
    /\ Forget(w)

DoneSucceeded(w) ==
    /\ pc[w] = "succeeded"
    /\ Release(repoOf[w], [pc EXCEPT ![w] = "recording"])
    /\ UNCHANGED <<repoOf, payloadOf, attempt>>

RecordSuccess(w) ==
    /\ Goto(w, "recording", "get")
    /\ stats' = RecordSuccessIn(stats, repoOf[w])
    /\ Forget(w)
    /\ UNCHANGED <<workVars, lifeVars>>

-----------------------------------------------------------------------------
\* Lifecycle

\* The owner cancels the context it gave to the constructor.
Cancel ==
    /\ ~cancelled
    /\ cancelled' = TRUE
    /\ UNCHANGED <<workVars, workerVars, shutdown, drain, stats>>

\* Mutant of ShutdownBegin: no cond.Broadcast.
ShutdownForgetsBroadcast ==
    /\ drain = "idle"
    /\ shutdown' = TRUE
    /\ drain' = "waiting"
    /\ UNCHANGED <<workVars, workerVars, cancelled, stats>>

ShutdownBegin ==
    /\ drain = "idle"
    /\ shutdown' = TRUE
    /\ drain' = "waiting"
    /\ pc' = [w \in Workers |-> IF pc[w] = "waiting" THEN "get" ELSE pc[w]]
    /\ UNCHANGED <<workVars, repoOf, payloadOf, attempt, cancelled, stats>>

ShutdownDrained ==
    /\ drain = "waiting"
    /\ \A w \in Workers : pc[w] = "exited"
    /\ drain' = "returned"
    /\ UNCHANGED <<workVars, workerVars, shutdown, cancelled, stats>>

ShutdownTimeout ==
    /\ drain = "waiting"
    /\ drain' = "returned"
    /\ stats' = RecordFailureIn(stats, ShutdownKey)
    /\ UNCHANGED <<workVars, workerVars, shutdown, cancelled>>

\* Shutdown has returned and every goroutine of the queue is gone.
Stopped ==
    /\ drain = "returned"
    /\ \A w \in Workers : pc[w] = "exited"
    /\ UNCHANGED vars

-----------------------------------------------------------------------------
WorkerStep(w) ==
    \/ GetTake(w) \/ GetWait(w) \/ GetExit(w)
    \/ HandleOk(w) \/ HandleFinalError(w) \/ HandleRetryableError(w)
    \/ BackoffElapsed(w) \/ BackoffCancelled(w)
    \/ RecordFailure(w) \/ DoneFailed(w) \/ DoneSucceeded(w) \/ RecordSuccess(w)

\* Every step but an accepted push.
OtherStep ==
    \/ \E r \in Repos : AddRejectedFull(r)
    \/ \E w \in Workers : WorkerStep(w)
    \/ Cancel \/ ShutdownBegin \/ ShutdownDrained \/ ShutdownTimeout
    \/ Stopped

Next == (\E r \in Repos, p \in Payloads : AddAccepted(r, p)) \/ OtherStep

Spec == Init /\ [][Next]_vars

\* A goroutine that can step does; a handler call returns (its context carries
\* the attempt timeout of Service.Sync) and a backoff timer fires.  Nothing
\* obliges a webhook to arrive or the server to stop.
Fairness ==
    /\ \A w \in Workers : WF_vars(WorkerStep(w))
    /\ WF_vars(ShutdownDrained)

FairSpec == Spec /\ Fairness

-----------------------------------------------------------------------------
Elements(s) == {s[i] : i \in 1 .. Len(s)}

\* Every variable keeps the shape its Go type and the constructor give it.
TypeOK ==
    /\ queue \in Seq(Repos)
    /\ dirty \in SUBSET Repos
    /\ processing \in SUBSET Repos
    /\ payloads \in [Repos -> Payloads \union {NoPayload}]
    /\ shutdown \in BOOLEAN
    /\ cancelled \in BOOLEAN
    /\ drain \in {"idle", "waiting", "returned"}
    /\ pc \in [Workers -> WorkerStates]
    /\ repoOf \in [Workers -> Repos \union {NoRepo}]
    /\ payloadOf \in [Workers -> Payloads \union {NoPayload}]
    /\ attempt \in [Workers -> 0 .. MaxAttempts]
    /\ stats \in Stats

\* Per-repository mutual exclusion of get and done: no two workers run the sync
\* of one repository at the same time, whatever pushes arrive meanwhile.
OneSyncPerRepo ==
    \A v, w \in Workers :
        v # w /\ pc[v] \in Busy /\ pc[w] \in Busy => repoOf[v] # repoOf[w]

\* The FIFO of Add, get and done holds each waiting repository exactly once: a
\* dirty repository nobody processes is in the queue, and nothing else is.
QueueIsWaitingSet ==
    /\ Elements(queue) = dirty \ processing
    /\ \A i, j \in 1 .. Len(queue) : i # j => queue[i] # queue[j]

\* done frees a payload exactly when no work is left for its repository, so the
\* capacity check of Add counts live work only, get never finds a hole, and no
\* more than MaxTrackedRepos repositories have work at any time.
TrackedMatch == Tracked = dirty \union processing
TrackedBounded == Cardinality(Tracked) <= MaxTrackedRepos
TrackedIsLiveWork == TrackedMatch /\ TrackedBounded

\* No lost wakeup: while some worker sleeps in cond.Wait, every queued
\* repository has a woken worker of its own that is about to take it.
NoLostWakeup ==
    Waiting # {} => Len(queue) <= Cardinality({w \in Workers : pc[w] = "get"})

\* After Shutdown nobody sleeps, and a worker leaves only an empty queue behind
\* unless another worker is still there to drain it.
ShutdownLeavesNoWork ==
    /\ shutdown => Waiting = {}
    /\ (\A w \in Workers : pc[w] = "exited") => dirty = {} /\ processing = {}

\* The bookkeeping of outcomes is bounded, names each repository once and
\* agrees with the map of entries.
RecentBounded == Consistent(stats)

\* The books agree with each other whatever pushes, failures and shutdowns meet:
\* the FIFO with the dirty set, the payloads with the work left, and the recent
\* list with its map.
QueueAccounted == QueueIsWaitingSet /\ TrackedIsLiveWork /\ RecentBounded

\* Every accepted push is eventually picked up by a worker.
AcceptedIsStarted == \A r \in Repos : (r \in dirty) ~> (r \notin dirty)

\* Once Shutdown is called every worker leaves: the drain always ends.
ShutdownDrains == shutdown ~> (\A w \in Workers : pc[w] = "exited")

-----------------------------------------------------------------------------
\* The mailbox the queue implements: a repository's pending payload is the one
\* stored while it is dirty, and what runs is what the busy workers captured.
Mailbox == INSTANCE CoalescingMailbox WITH
    Admissible <- {R \in SUBSET Repos : Cardinality(R) <= MaxTrackedRepos},
    pending <- [r \in Repos |-> IF r \in dirty THEN payloads[r] ELSE NoPayload],
    running <- {<<repoOf[w], payloadOf[w]>> : w \in {v \in Workers : pc[v] \in Busy}},
    open <- ~shutdown

\* The queue implements the coalescing mailbox: no accepted push is dropped
\* before a sync starts, a sync starts with the newest push accepted so far, a
\* repository never runs twice at once, and a push is refused only when the
\* queue is full of other work or shut down.
ImplementsMailbox == Mailbox!Spec
=============================================================================
