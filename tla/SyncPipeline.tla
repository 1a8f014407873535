---------------------------- MODULE SyncPipeline ----------------------------
(***************************************************************************)
(* From a push to fresh answers, for one repository: the webhook's         *)
(* deliveries, the queue of each server (as the mailbox it implements),    *)
(* Service.Sync of internal/app/reposync/service.go, the checkout of       *)
(* internal/adapters/outbound/gitrepo/checkout.go under the repository     *)
(* lock, and the graph update.  Servers share the directory of checkouts   *)
(* and the graph; each has a queue of its own, which a crash empties.      *)
(*                                                                         *)
(* A commit is a pair of a branch and its number on it.  The position of a *)
(* server's sync is its pc:                                                *)
(*   idle       no sync runs                                               *)
(*   lock       in WithLock, about to create the lock file                 *)
(*   stale      found it there and old, about to remove it                 *)
(*   open       about to open the checkout                                 *)
(*   cloning    PlainClone writes the temporary directory                  *)
(*   cloned     about to rename it                                         *)
(*   fetch      about to fetch, into an existing checkout                  *)
(*   fetched    has what was fetched, about to set the remote ref          *)
(*   switch     about to read the ref, checks the branch out               *)
(*   reset      resets to the commit of the ref                            *)
(*   clean      about to remove untracked files                            *)
(*   unlock     about to remove the lock file, after the checkout          *)
(*   giveup     about to remove it, after an error                         *)
(*   scope      past the lock, about to load the build scope               *)
(*   walk       reads the files                                            *)
(*   commit     about to commit the graph                                  *)
(*   crossrefs  past the commit, about to sync the references              *)
(*   backoff    waits for the next attempt                                 *)
(***************************************************************************)
EXTENDS Integers, FiniteSets

CONSTANTS
    Servers, Branches,
    MaxAttempts,       \* RetryConfig.MaxAttempts after normalisation
    MaxPushes,         \* bounds of the model: pushes to a branch
    MaxCrashes,        \* and crashes
    NoBranch, NoCommit,
    Mixed,             \* files of several commits, or of none
    Free, Abandoned    \* the lock file: absent, or left by a crash

ASSUME PipelineAssumption ==
    /\ IsFiniteSet(Servers) /\ IsFiniteSet(Branches)
    /\ MaxAttempts \in Nat \ {0}
    /\ MaxPushes \in [Branches -> Nat] /\ MaxCrashes \in Nat
    /\ NoBranch \notin Branches
    /\ Free \notin Servers /\ Abandoned \notin Servers /\ Free # Abandoned
    /\ NoCommit \notin Branches \X Nat /\ Mixed \notin Branches \X Nat
    /\ NoCommit # Mixed

VARIABLES
    head,      \* number of the newest commit of each branch on the remote
    pending,   \* the mailbox of each server
    running,   \* the pairs <<server, branch>> being synced
    accepting, \* the queues take pushes
    pc,
    attempt,   \* the loop variable of safeHandle
    lockFile,  \* whose lock file exists
    dest,      \* the checkout: what RepoDir(root, namespace) holds
    fetched,   \* the number of the commit that a server fetched, then the ref's
    clashed,   \* servers whose writing to the checkout met another's
    temp,      \* the temporary clone of each server
    orphans,   \* how many temporary directories belong to nobody
    walked,    \* what the walk of a server read
    graph,     \* the commit the stored graph shows
    crashes,   \* crashes so far
    accepted,  \* history: the newest commit of a branch that a queue accepted,
    last,      \* the work that ended last and how,
    raced      \* and whether another server synced, or forgot work, meanwhile

queueVars == <<pending, running, accepting>>
checkoutVars == <<dest, fetched, clashed>>
cloneVars == <<temp, orphans>>
diskVars == <<lockFile, checkoutVars, cloneVars>>
historyVars == <<accepted, last, raced>>
vars == <<head, queueVars, pc, attempt, diskVars, walked, graph, crashes, historyVars>>

Mailbox == INSTANCE CoalescingMailbox WITH
    Repos <- Servers, Payloads <- Branches, NoPayload <- NoBranch,
    Admissible <- SUBSET Servers, open <- accepting

Commits == UNION {{b} \X (1 .. MaxPushes[b]) : b \in Branches}
Trees == Commits \union {NoCommit, Mixed}

\* No directory, one that is no repository, and a repository: the branch HEAD is
\* on, the commits of the local branches, the refs of the remote ones (0 if none).
NoCheckout == [kind |-> "none", tree |-> NoCommit, junk |-> FALSE, on |-> NoBranch,
               heads |-> [b \in Branches |-> NoCommit], remote |-> [b \in Branches |-> 0]]
Foreign == [NoCheckout EXCEPT !.kind = "foreign"]
ClonedFrom(b, n) == [kind |-> "repository", tree |-> <<b, n>>, junk |-> FALSE, on |-> b,
                     heads |-> [NoCheckout.heads EXCEPT ![b] = <<b, n>>],
                     remote |-> [NoCheckout.remote EXCEPT ![b] = n]]
Unfinished == [NoCheckout EXCEPT !.kind = "repository", !.tree = Mixed]

\* A server in WithLock's fn, one that changes files of the checkout, and one that
\* has not yet removed the lock file it created.
Writing == {"switch", "reset"}
Inside == {"open", "cloning", "cloned", "fetch", "fetched", "clean"} \union Writing
Locked == Inside \union {"unlock", "giveup"}
Positions == Locked \union {"idle", "lock", "stale", "scope", "walk", "commit", "crossrefs", "backoff"}

Job(s) == CHOOSE b \in Branches : <<s, b>> \in running

Init ==
    /\ head = [b \in Branches |-> 0]
    /\ Mailbox!Init
    /\ pc = [s \in Servers |-> "idle"]
    /\ attempt = [s \in Servers |-> 0]
    /\ lockFile = Free
    /\ dest \in {NoCheckout, Foreign}
    /\ fetched = [s \in Servers |-> 0]
    /\ clashed = {}
    /\ temp = [s \in Servers |-> NoCheckout]
    /\ orphans = 0
    /\ walked = [s \in Servers |-> NoCommit]
    /\ graph = NoCommit
    /\ crashes = 0
    /\ accepted = [b \in Branches |-> 0]
    /\ last = [branch |-> NoBranch, outcome |-> "none"]
    /\ raced = FALSE

-----------------------------------------------------------------------------
\* The remote repository and its deliveries

Push(b) ==
    /\ head[b] < MaxPushes[b]
    /\ head' = [head EXCEPT ![b] = @ + 1]
    /\ UNCHANGED <<queueVars, pc, attempt, diskVars, walked, graph, crashes, historyVars>>

\* A delivery names the branch, not the commit.  One that is late or sent again
\* announces an older commit: taking it for the newest only asks for more.
Deliver(s, b) ==
    /\ head[b] > 0
    /\ Mailbox!Submit(s, b)
    /\ accepted' = [accepted EXCEPT ![b] = head[b]]
    /\ UNCHANGED <<head, pc, attempt, diskVars, walked, graph, crashes,
                   last, raced>>

-----------------------------------------------------------------------------
\* One attempt of Service.Sync: the checkout

Goto(s, from, to) ==
    /\ pc[s] = from
    /\ pc' = [pc EXCEPT ![s] = to]

Others(s) == {t \in Servers \ {s} : pc[t] # "idle"}

StartSync(s) ==
    /\ Goto(s, "idle", "lock")
    /\ Mailbox!Start(s)
    /\ attempt' = [attempt EXCEPT ![s] = 1]
    /\ raced' = (Others(s) # {})
    /\ UNCHANGED <<head, diskVars, walked, graph, crashes, accepted, last>>

\* WithLock; a caller that waited for too long fails (AttemptFails).
TakeLock(s) ==
    /\ Goto(s, "lock", "open")
    /\ lockFile = Free
    /\ lockFile' = s
    /\ UNCHANGED <<head, queueVars, attempt, checkoutVars, cloneVars, walked, graph,
                   crashes, historyVars>>

\* A waiter finds a file that a crash has left, and that is old enough by now.
FindStaleLock(s) ==
    /\ Goto(s, "lock", "stale")
    /\ lockFile = Abandoned
    /\ UNCHANGED <<head, queueVars, attempt, diskVars, walked, graph, crashes, historyVars>>

\* It removes whatever file has the name by now: also that of a server that came
\* between, which is inside.
RemoveLock == lockFile' = Free
RemoveStaleLock(s) ==
    /\ Goto(s, "stale", "lock")
    /\ RemoveLock
    /\ UNCHANGED <<head, queueVars, attempt, checkoutVars, cloneVars, walked, graph,
                   crashes, historyVars>>

\* Nothing there: clone into a directory of its own.
BeginClone(s) ==
    /\ Goto(s, "open", "cloning")
    /\ dest.kind = "none"
    /\ temp' = [temp EXCEPT ![s] = Unfinished]
    /\ UNCHANGED <<head, queueVars, attempt, lockFile, checkoutVars, orphans, walked,
                   graph, crashes, historyVars>>

OpenExisting(s) ==
    /\ Goto(s, "open", "fetch")
    /\ dest.kind = "repository"
    /\ UNCHANGED <<head, queueVars, attempt, diskVars, walked, graph, crashes,
                   historyVars>>

FinishClone(s) ==
    /\ Goto(s, "cloning", "cloned")
    /\ temp' = [temp EXCEPT ![s] = ClonedFrom(Job(s), head[Job(s)])]
    /\ UNCHANGED <<head, queueVars, attempt, lockFile, checkoutVars, orphans, walked,
                   graph, crashes, historyVars>>

\* Another server's walk that is under way reads files of both trees.
Disturb(s) ==
    walked' = [t \in Servers |->
        IF t # s /\ pc[t] = "walk" /\ dest'.tree # dest.tree THEN Mixed ELSE walked[t]]

\* Mutant of Promote: the clone is made in place, without the rename.
PromoteBeforeClone(s) ==
    /\ Goto(s, "cloning", "unlock")
    /\ dest.kind = "none"
    /\ dest' \in {Unfinished, ClonedFrom(Job(s), head[Job(s)])}
    /\ temp' = [temp EXCEPT ![s] = NoCheckout]
    /\ Disturb(s)
    /\ UNCHANGED <<head, queueVars, attempt, lockFile, fetched, clashed, orphans, graph,
                   crashes, historyVars>>

\* The rename fails if there is a directory by now.
Promote(s) ==
    /\ Goto(s, "cloned", "unlock")
    /\ dest.kind = "none"
    /\ dest' = temp[s]
    /\ temp' = [temp EXCEPT ![s] = NoCheckout]
    /\ Disturb(s)
    /\ UNCHANGED <<head, queueVars, attempt, lockFile, fetched, clashed, orphans, graph,
                   crashes, historyVars>>

Fetch(s) ==
    /\ Goto(s, "fetch", "fetched")
    /\ fetched' = [fetched EXCEPT ![s] = head[Job(s)]]
    /\ UNCHANGED <<head, queueVars, attempt, lockFile, dest, clashed, cloneVars, walked,
                   graph, crashes, historyVars>>

SetRemoteRef(s) ==
    /\ Goto(s, "fetched", "switch")
    /\ dest' = [dest EXCEPT !.remote[Job(s)] = fetched[s]]
    /\ UNCHANGED <<head, queueVars, attempt, lockFile, fetched, clashed, cloneVars, walked,
                   graph, crashes, historyVars>>

\* When two servers write at a time the files may be of both.
Outcomes(s, commit) ==
    {commit} \union IF s \in clashed \/ \E t \in Servers \ {s} : pc[t] \in Writing
                    THEN {Mixed} ELSE {}
Clash(s) ==
    clashed' = (clashed \ {s}) \union
        IF pc[s] \in Writing THEN {t \in Servers \ {s} : pc[t] \in Writing} ELSE {}

\* A local branch is checked out where it is, a new one at the commit of the ref.
Switch(s) ==
    LET b == Job(s)
        at == IF dest.heads[b] = NoCommit THEN <<b, dest.remote[b]>> ELSE dest.heads[b]
    IN  /\ Goto(s, "switch", "reset")
        /\ fetched' = [fetched EXCEPT ![s] = dest.remote[b]]
        /\ \E tree \in Outcomes(s, at) :
              dest' = [dest EXCEPT !.tree = tree, !.heads[b] = at, !.on = b]
        /\ Clash(s) /\ Disturb(s)
        /\ UNCHANGED <<head, queueVars, attempt, lockFile, cloneVars, graph, crashes,
                       historyVars>>

\* A reset sets the branch that HEAD is on, whatever it is by now.
ResetTo(s, commit) ==
    /\ Goto(s, "reset", "clean")
    /\ \E tree \in Outcomes(s, commit) :
          dest' = [dest EXCEPT !.tree = tree, !.heads[dest.on] = commit]
    /\ fetched' = [fetched EXCEPT ![s] = 0]
    /\ Clash(s) /\ Disturb(s)
    /\ UNCHANGED <<head, queueVars, attempt, lockFile, cloneVars, graph, crashes,
                   historyVars>>

\* Mutant of Reset: to the local branch instead of the fetched head.
ResetToLocal(s) == ResetTo(s, dest.heads[Job(s)])

Reset(s) == ResetTo(s, <<Job(s), fetched[s]>>)

\* Mutant of Clean: untracked files stay.
CleanNothing(s) ==
    /\ Goto(s, "clean", "unlock")
    /\ UNCHANGED <<head, queueVars, attempt, diskVars, walked, graph, crashes, historyVars>>

Clean(s) ==
    /\ Goto(s, "clean", "unlock")
    /\ dest' = [dest EXCEPT !.junk = FALSE]
    /\ UNCHANGED <<head, queueVars, attempt, lockFile, fetched, clashed, cloneVars, walked,
                   graph, crashes, historyVars>>

\* The release removes the file by its name, whoever created it.
Unlock(s) ==
    /\ Goto(s, "unlock", "scope")
    /\ RemoveLock
    /\ UNCHANGED <<head, queueVars, attempt, checkoutVars, cloneVars, walked, graph,
                   crashes, historyVars>>

-----------------------------------------------------------------------------
\* The rest of the attempt, without the lock

LoadScope(s) ==
    /\ Goto(s, "scope", "walk")
    /\ walked' = [walked EXCEPT ![s] = IF dest.junk THEN Mixed ELSE dest.tree]
    /\ UNCHANGED <<head, queueVars, attempt, diskVars, graph, crashes, historyVars>>

EndWalk(s) ==
    /\ Goto(s, "walk", "commit")
    /\ UNCHANGED <<head, queueVars, attempt, diskVars, walked, graph, crashes,
                   historyVars>>

CommitGraph(s) ==
    /\ Goto(s, "commit", "crossrefs")
    /\ graph' = walked[s]
    /\ walked' = [walked EXCEPT ![s] = NoCommit]
    /\ UNCHANGED <<head, queueVars, attempt, diskVars, crashes, historyVars>>

Ended(s, outcome) ==
    /\ Mailbox!Finish(s)
    /\ last' = [branch |-> Job(s), outcome |-> outcome]
    /\ attempt' = [attempt EXCEPT ![s] = 0]

\* The references are in step, the cache (QueryCache) is flushed, Sync returns.
Finish(s) ==
    /\ Goto(s, "crossrefs", "idle")
    /\ Ended(s, "ok")
    /\ UNCHANGED <<head, diskVars, walked, graph, crashes, accepted, raced>>

-----------------------------------------------------------------------------
\* Failures, retries and crashes

\* A checkout that was being written to may hold anything; what the sync fetched
\* and read is gone.
Torn(s) ==
    /\ dest' \in {dest} \union
          IF pc[s] \in Writing THEN {[dest EXCEPT !.tree = Mixed, !.junk = TRUE]} ELSE {}
    /\ fetched' = [fetched EXCEPT ![s] = 0]
    /\ Clash(s)
    /\ walked' = [t \in Servers |->
          IF t = s THEN NoCommit
          ELSE IF pc[t] = "walk" /\ dest'.tree # dest.tree THEN Mixed ELSE walked[t]]

\* Inside the lock any step may fail: the remote (where the branch may be gone by
\* now) or the disk refuses, or the attempt takes longer than its timeout.  The
\* temporary directory goes first, then the lock.
GiveUp(s) ==
    /\ pc[s] \in Inside
    /\ pc' = [pc EXCEPT ![s] = "giveup"]
    /\ temp' = [temp EXCEPT ![s] = NoCheckout]
    /\ Torn(s)
    /\ UNCHANGED <<head, queueVars, attempt, lockFile, orphans, graph, crashes, historyVars>>

\* And outside: waiting for the lock takes too long, the files or the database
\* refuse.
MayFail == {"lock", "giveup", "scope", "walk", "commit", "crossrefs"}

Abort(s) ==
    /\ pc[s] \in MayFail
    /\ lockFile' = IF pc[s] = "giveup" THEN Free ELSE lockFile
    /\ walked' = [walked EXCEPT ![s] = NoCommit]
    /\ UNCHANGED <<head, checkoutVars, cloneVars, graph, crashes>>

AttemptFails(s) ==
    /\ Abort(s)
    /\ attempt[s] < MaxAttempts
    /\ pc' = [pc EXCEPT ![s] = "backoff"]
    /\ UNCHANGED <<queueVars, attempt, historyVars>>

\* The last attempt, or an error no retry would mend: a broken scope file.
SyncFails(s) ==
    /\ Abort(s)
    /\ attempt[s] = MaxAttempts \/ pc[s] = "scope"
    /\ pc' = [pc EXCEPT ![s] = "idle"]
    /\ Ended(s, "failed")
    /\ UNCHANGED <<accepted, raced>>

Retry(s) ==
    /\ Goto(s, "backoff", "lock")
    /\ attempt' = [attempt EXCEPT ![s] = @ + 1]
    /\ UNCHANGED <<head, queueVars, diskVars, walked, graph, crashes, historyVars>>

Crash(s) ==
    /\ crashes < MaxCrashes
    /\ crashes' = crashes + 1
    /\ lockFile' = IF lockFile = s THEN Abandoned ELSE lockFile
    /\ orphans' = IF temp[s] # NoCheckout THEN orphans + 1 ELSE orphans
    /\ temp' = [temp EXCEPT ![s] = NoCheckout]
    /\ Torn(s)
    /\ pc' = [pc EXCEPT ![s] = "idle"]
    /\ attempt' = [attempt EXCEPT ![s] = 0]
    /\ last' = IF s \in Mailbox!WithWork
               THEN [branch |-> NoBranch, outcome |-> "crashed"] ELSE last
    /\ raced' = (raced \/ (s \in Mailbox!WithWork /\ Others(s) # {}))
    /\ pending' = [pending EXCEPT ![s] = NoBranch]
    /\ running' = {job \in running : job[1] # s}
    /\ UNCHANGED <<head, accepting, graph, accepted>>

-----------------------------------------------------------------------------
Step(s) ==
    \/ StartSync(s) \/ TakeLock(s) \/ FindStaleLock(s) \/ RemoveStaleLock(s) \/ Unlock(s)
    \/ BeginClone(s) \/ OpenExisting(s) \/ FinishClone(s) \/ Promote(s)
    \/ Fetch(s) \/ SetRemoteRef(s) \/ Switch(s) \/ Reset(s) \/ Clean(s)
    \/ LoadScope(s) \/ EndWalk(s) \/ CommitGraph(s) \/ Finish(s)
    \/ GiveUp(s) \/ AttemptFails(s) \/ SyncFails(s) \/ Retry(s)

Next ==
    \/ \E b \in Branches : Push(b)
    \/ \E s \in Servers : \/ \E b \in Branches : Deliver(s, b)
                          \/ Step(s) \/ Crash(s)

Spec == Init /\ [][Next]_vars

-----------------------------------------------------------------------------
\* Properties

Quiet == \A s \in Servers : pc[s] = "idle" /\ pending[s] = NoBranch

\* Every variable keeps its shape, and a server works on a branch exactly while
\* a sync of its own runs.
TypeOK ==
    /\ DOMAIN head = Branches /\ \A b \in Branches : head[b] \in 0 .. MaxPushes[b]
    /\ pending \in [Servers -> Branches \union {NoBranch}]
    /\ running \subseteq Servers \X Branches
    /\ pc \in [Servers -> Positions]
    /\ attempt \in [Servers -> 0 .. MaxAttempts]
    /\ lockFile \in Servers \union {Free, Abandoned}
    /\ fetched \in [Servers -> Nat] /\ clashed \in SUBSET Servers
    /\ dest.tree \in Trees /\ \A s \in Servers : temp[s].tree \in Trees
    /\ walked \in [Servers -> Trees] /\ graph \in Trees
    /\ \A s \in Servers : pc[s] # "idle" <=> Mailbox!IsRunning(s)

\* When nothing is left to do, and what ended last is a sync that succeeded
\* without meeting another server's (not a crash that forgot work), the graph
\* shows the branch it was for, at least as new as any push of it that was
\* accepted by any server before, late or coalesced as it may have been.
FreshWhenQuiet ==
    Quiet /\ last.outcome = "ok" /\ ~raced =>
        \E n \in 1 .. MaxPushes[last.branch] :
            /\ graph = <<last.branch, n>>
            /\ n >= accepted[last.branch]

\* Files of several commits are read only while two servers sync the repository
\* at once: a sync mends whatever earlier crashes and failures left of the
\* checkout before it reads it.
WalksAreWhole == \A s \in Servers : walked[s] = Mixed => raced

\* The disk is accounted for: a directory that holds a repository holds a
\* finished clone, also when a second server clones at the same time; only crashes
\* leave temporary directories; the lock file of a live server is there only while
\* the server is inside; and as long as no server has crashed it is there whenever
\* one is, so that no two are.
DiskAccounted ==
    /\ dest.kind = "repository" => \E b \in Branches : dest.heads[b] # NoCommit
    /\ orphans <= crashes
    /\ \A s \in Servers : /\ temp[s] # NoCheckout => pc[s] \in {"cloning", "cloned"}
                          /\ lockFile = s => pc[s] \in Locked
                          /\ crashes = 0 /\ pc[s] \in Locked => lockFile = s
    /\ lockFile = Abandoned => crashes > 0

=============================================================================
