------------------------- MODULE SyncPipelineProofs -------------------------
(***************************************************************************)
(* Proofs about SyncPipeline for any number of servers, branches, pushes,  *)
(* crashes and attempts.                                                   *)
(***************************************************************************)
EXTENDS SyncPipeline, TLAPS

Checkouts == [kind : {"none", "foreign", "repository"}, tree : Trees, junk : BOOLEAN,
              on : Branches \union {NoBranch}, heads : [Branches -> Commits \union {NoCommit}],
              remote : [Branches -> Nat]]
Results == {"none", "ok", "failed", "crashed"}

Shapes ==
    /\ head \in [Branches -> Nat] /\ \A b \in Branches : head[b] <= MaxPushes[b]
    /\ pending \in [Servers -> Branches \union {NoBranch}]
    /\ running \in SUBSET (Servers \X Branches) /\ accepting \in BOOLEAN
    /\ pc \in [Servers -> Positions]
    /\ attempt \in [Servers -> 0 .. MaxAttempts]
    /\ lockFile \in Servers \union {Free, Abandoned}
    /\ dest \in Checkouts /\ temp \in [Servers -> Checkouts]
    /\ fetched \in [Servers -> Nat] /\ clashed \in SUBSET Servers
    /\ orphans \in Nat /\ crashes \in Nat
    /\ walked \in [Servers -> Trees] /\ graph \in Trees
    /\ accepted \in [Branches -> Nat]
    /\ last \in [branch : Branches \union {NoBranch}, outcome : Results]
    /\ raced \in BOOLEAN

\* A server that is not idle has one job, of a branch that has a commit; so has
\* what waits in a mailbox, and what was accepted.
JobsMatch ==
    /\ \A s \in Servers : pc[s] # "idle" <=> \E b \in Branches : <<s, b>> \in running
    /\ \A s \in Servers, b, c \in Branches : <<s, b>> \in running /\ <<s, c>> \in running => b = c
    /\ \A s \in Servers, b \in Branches : <<s, b>> \in running => head[b] > 0
    /\ \A s \in Servers : pending[s] # NoBranch => head[pending[s]] > 0
    /\ \A b \in Branches : accepted[b] <= head[b]
    /\ \A s \in Servers : pc[s] = "backoff" => attempt[s] < MaxAttempts

\* The lock, exact only until the first crash: the waiter that found the file of a
\* crashed server may remove a later one.
LockHeld ==
    /\ \A s \in Servers : /\ lockFile = s => pc[s] \in Locked
                          /\ crashes = 0 /\ pc[s] \in Locked => lockFile = s
                          /\ pc[s] = "stale" => crashes > 0
    /\ lockFile = Abandoned => crashes > 0

Applying == {"fetch", "fetched", "clean"} \union Writing

\* What the checkout and the temporary directories hold, by the position of the
\* servers, however many of them are inside; what a server fetched, and the ref it
\* reads, is a commit of its branch.
DiskKnown ==
    /\ dest.kind = "repository" => \E b \in Branches : dest.heads[b] # NoCommit
    /\ orphans <= crashes
    /\ \A s \in clashed : pc[s] \in Writing
    /\ \A s \in Servers :
        /\ pc[s] \in Applying => dest.kind = "repository"
        /\ pc[s] = "reset" => dest.on \in Branches
        /\ pc[s] \notin {"cloning", "cloned"} => temp[s] = NoCheckout
    /\ \A s \in Servers, b \in Branches : <<s, b>> \in running =>
        /\ pc[s] \in {"fetched", "reset"} => fetched[s] \in 1 .. head[b]
        /\ pc[s] = "switch" => dest.remote[b] \in 1 .. head[b]
        /\ pc[s] = "cloned" => \E n \in 1 .. head[b] : temp[s] = ClonedFrom(b, n)

Core == Shapes /\ JobsMatch /\ LockHeld /\ DiskKnown

\* The tree is the branch at a commit as new as any accepted push of it, unless
\* a mailbox holds more work.
Newest(b, n) ==
    /\ n \in 1 .. head[b]
    /\ n >= accepted[b] \/ \E t \in Servers : pending[t] # NoBranch
Shows(tree, b) == \E n \in Nat : tree = <<b, n>> /\ Newest(b, n)

\* A sync that met no other server's is alone, and what it has is what was
\* pushed, wherever it is by now.
Alone == ~raced => \A s, t \in Servers : pc[s] # "idle" /\ pc[t] # "idle" => s = t
NoClash == ~raced => clashed = {}
ReadOnlyInWalk == \A s \in Servers : pc[s] \notin {"walk", "commit"} => walked[s] = NoCommit
OnWay(s, b) ==
    /\ pc[s] \in {"fetched", "reset"} => Newest(b, fetched[s])
    /\ pc[s] = "switch" => Newest(b, dest.remote[b])
    /\ pc[s] = "cloned" => \E n \in Nat : temp[s] = ClonedFrom(b, n) /\ Newest(b, n)
    /\ pc[s] \in {"clean", "unlock", "scope"} => Shows(dest.tree, b)
    /\ pc[s] \in {"unlock", "scope"} => ~dest.junk
    /\ pc[s] \in {"walk", "commit"} => Shows(walked[s], b)
    /\ pc[s] = "crossrefs" => Shows(graph, b)
OnItsWay ==
    ~raced => \A s \in Servers, b \in Branches : <<s, b>> \in running => OnWay(s, b)
Settled ==
    (\A s \in Servers : pc[s] = "idle") /\ last.outcome = "ok" /\ ~raced =>
        last.branch \in Branches /\ Shows(graph, last.branch)

Fresh == Alone /\ NoClash /\ ReadOnlyInWalk /\ OnItsWay /\ Settled

\* The inductive invariant.
IInv == Core /\ Fresh

-----------------------------------------------------------------------------
\* The constants, the helpers and the job of a server.

LEMMA Constants ==
    /\ Free \notin Servers /\ Abandoned \notin Servers /\ Free # Abandoned
    /\ NoBranch \notin Branches
    /\ NoCommit # Mixed /\ NoCommit \in Trees /\ Mixed \in Trees
    /\ MaxAttempts \in Nat \ {0} /\ MaxPushes \in [Branches -> Nat]
  BY PipelineAssumption DEF Trees

LEMMA CommitIsTree ==
    ASSUME NEW b \in Branches, NEW n \in 1 .. MaxPushes[b]
    PROVE  <<b, n>> \in Trees
<1>1. <<b, n>> \in {b} \X (1 .. MaxPushes[b])
  OBVIOUS
<1> QED
  BY <1>1 DEF Trees, Commits

LEMMA CommitIsProper ==
    ASSUME NEW b \in Branches, NEW n \in Nat
    PROVE  <<b, n>> # Mixed /\ <<b, n>> # NoCommit
  BY PipelineAssumption

LEMMA CheckoutShapes ==
    /\ NoCheckout \in Checkouts /\ Foreign \in Checkouts /\ Unfinished \in Checkouts
    /\ NoCheckout.kind = "none" /\ Foreign.kind = "foreign"
  BY Constants DEF NoCheckout, Foreign, Unfinished, Checkouts

LEMMA CommitIsCommit ==
    ASSUME NEW b \in Branches, NEW n \in 1 .. MaxPushes[b]
    PROVE  <<b, n>> \in Commits /\ <<b, n>> # NoCommit
<1>1. <<b, n>> \in {b} \X (1 .. MaxPushes[b])
  OBVIOUS
<1>2. MaxPushes[b] \in Nat
  BY Constants
<1> QED
  BY <1>1, <1>2, CommitIsProper DEF Commits

LEMMA CloneShape ==
    ASSUME NEW b \in Branches, NEW n \in 1 .. MaxPushes[b]
    PROVE  LET c == ClonedFrom(b, n) IN
           /\ c \in Checkouts
           /\ c.kind = "repository" /\ c.tree = <<b, n>> /\ ~c.junk
           /\ c.heads[b] # NoCommit
<1>1. n \in Nat /\ <<b, n>> \in Trees /\ <<b, n>> \in Commits /\ <<b, n>> # NoCommit
  BY Constants, CommitIsTree, CommitIsCommit
<1>2. NoCheckout.heads = [c \in Branches |-> NoCommit] /\ NoCheckout.remote = [c \in Branches |-> 0]
  BY DEF NoCheckout
<1>3. /\ [NoCheckout.heads EXCEPT ![b] = <<b, n>>] \in [Branches -> Commits \union {NoCommit}]
      /\ [NoCheckout.heads EXCEPT ![b] = <<b, n>>][b] = <<b, n>>
      /\ [NoCheckout.remote EXCEPT ![b] = n] \in [Branches -> Nat]
  BY <1>1, <1>2
<1> QED
  BY <1>1, <1>3 DEF ClonedFrom, Checkouts

LEMMA CoreTypes ==
    ASSUME Core
    PROVE  /\ Shapes /\ JobsMatch /\ LockHeld /\ DiskKnown
           /\ \A b \in Branches : head[b] \in Nat /\ head[b] <= MaxPushes[b] /\ MaxPushes[b] \in Nat
           /\ dest.tree \in Trees /\ dest.junk \in BOOLEAN
           /\ dest.heads \in [Branches -> Commits \union {NoCommit}]
           /\ dest.remote \in [Branches -> Nat]
           /\ \A s \in Servers : fetched[s] \in Nat
  BY Constants DEF Core, Shapes, Checkouts

LEMMA JobOf ==
    ASSUME Core, NEW s \in Servers, pc[s] # "idle"
    PROVE  /\ Job(s) \in Branches /\ <<s, Job(s)>> \in running
           /\ head[Job(s)] \in 1 .. MaxPushes[Job(s)]
           /\ \A b \in Branches : <<s, b>> \in running => b = Job(s)
<1>1. \E b \in Branches : <<s, b>> \in running
  BY DEF Core, JobsMatch
<1>2. Job(s) \in Branches /\ <<s, Job(s)>> \in running
  BY <1>1 DEF Job
<1>3. head[Job(s)] > 0
  BY <1>2 DEF Core, JobsMatch
<1> QED
  BY <1>2, <1>3, CoreTypes DEF JobsMatch

-----------------------------------------------------------------------------
LEMMA InitCore == Init => Core
<1> SUFFICES ASSUME Init PROVE Core
  OBVIOUS
<1>1. dest \in Checkouts /\ dest.kind # "repository"
  BY CheckoutShapes DEF Init
<1>2. Shapes
  <2>1. head \in [Branches -> Nat] /\ (\A b \in Branches : head[b] <= MaxPushes[b]) /\ accepted \in [Branches -> Nat]
    BY Constants DEF Init
  <2>2. /\ pending \in [Servers -> Branches \union {NoBranch}]
        /\ running \in SUBSET (Servers \X Branches) /\ accepting \in BOOLEAN
    BY DEF Init, Mailbox!Init
  <2>3. pc \in [Servers -> Positions] /\ attempt \in [Servers -> 0 .. MaxAttempts]
    BY Constants DEF Init, Positions
  <2>4. /\ lockFile \in Servers \union {Free, Abandoned} /\ temp \in [Servers -> Checkouts]
        /\ fetched \in [Servers -> Nat] /\ clashed \in SUBSET Servers
    BY CheckoutShapes DEF Init
  <2>5. last \in [branch : Branches \union {NoBranch}, outcome : Results]
    BY DEF Init, Results
  <2>6. orphans \in Nat /\ crashes \in Nat /\ raced \in BOOLEAN
        /\ walked \in [Servers -> Trees] /\ graph \in Trees
    BY Constants DEF Init
  <2> QED
    BY <1>1, <2>1, <2>2, <2>3, <2>4, <2>5, <2>6 DEF Shapes
<1>3. JobsMatch
  BY DEF Init, Mailbox!Init, JobsMatch
<1>4. LockHeld
  BY Constants DEF Init, LockHeld, Locked, Inside, Writing
<1>5. DiskKnown
  BY <1>1 DEF Init, Mailbox!Init, DiskKnown, Applying, Writing
<1> QED
  BY <1>2, <1>3, <1>4, <1>5 DEF Core

LEMMA InitFresh == Init => Fresh
  BY DEF Init, Mailbox!Init, Fresh, Alone, NoClash, ReadOnlyInWalk, OnItsWay, Settled

-----------------------------------------------------------------------------
\* A step of a server on the job it has, or of nobody, leaves the jobs as they are.
JobsUntouched ==
    /\ UNCHANGED <<running, pending, head, accepted>>
    /\ \A s \in Servers : /\ pc'[s] = "idle" <=> pc[s] = "idle"
                          /\ pc'[s] = "backoff" => attempt'[s] < MaxAttempts

LEMMA UntouchedJobsMatch == ASSUME Core, JobsUntouched PROVE JobsMatch'
<1>1. JobsMatch
  BY DEF Core
<1> QED
  BY <1>1 DEF JobsMatch, JobsUntouched

\* What the steps that write the checkout make of it.
Rewritten(from, to) ==
    /\ to \in Checkouts
    /\ to.kind = from.kind /\ to.junk = from.junk /\ to.remote = from.remote
    /\ to.on \in Branches
    /\ \E c \in Branches : to.heads[c] # NoCommit

LEMMA HeadSet ==
    ASSUME NEW d \in Checkouts, NEW tree \in Trees, NEW c \in Branches, NEW b \in Branches,
           NEW commit \in Commits, commit # NoCommit
    PROVE  /\ Rewritten(d, [d EXCEPT !.tree = tree, !.heads[b] = commit, !.on = c])
           /\ d.on = b => Rewritten(d, [d EXCEPT !.tree = tree, !.heads[b] = commit])
<1>1. /\ d.heads \in [Branches -> Commits \union {NoCommit}] /\ d.remote \in [Branches -> Nat]
      /\ d.on \in Branches \union {NoBranch}
  BY DEF Checkouts
<1>2. /\ [d.heads EXCEPT ![b] = commit] \in [Branches -> Commits \union {NoCommit}]
      /\ [d.heads EXCEPT ![b] = commit][b] # NoCommit
  BY <1>1
<1> QED
  BY <1>1, <1>2 DEF Rewritten, Checkouts

LEMMA OutcomeIsTree ==
    ASSUME NEW s \in Servers, NEW commit \in Trees
    PROVE  Outcomes(s, commit) \in SUBSET Trees
  BY Constants DEF Outcomes

LEMMA FetchReads ==
    ASSUME Core, NEW s \in Servers, Fetch(s)
    PROVE  /\ fetched' = [fetched EXCEPT ![s] = head[Job(s)]] /\ fetched' \in [Servers -> Nat]
           /\ fetched'[s] = head[Job(s)] /\ \A t \in Servers \ {s} : fetched'[t] = fetched[t]
           /\ fetched'[s] \in 1 .. head[Job(s)]
<1>1. head[Job(s)] \in Nat /\ head[Job(s)] > 0
  <2>1. pc[s] # "idle"
    BY DEF Fetch, Goto
  <2>2. Job(s) \in Branches /\ head[Job(s)] \in 1 .. MaxPushes[Job(s)]
    BY <2>1, JobOf
  <2> QED
    BY <2>2, CoreTypes
<1> QED
  BY <1>1, CoreTypes DEF Shapes, Fetch

LEMMA RefWrites ==
    ASSUME Core, NEW s \in Servers, SetRemoteRef(s)
    PROVE  /\ dest' \in Checkouts
           /\ dest'.kind = dest.kind /\ dest'.heads = dest.heads /\ dest'.tree = dest.tree
           /\ dest'.junk = dest.junk /\ dest'.on = dest.on
           /\ Job(s) \in Branches /\ fetched[s] \in 1 .. head[Job(s)]
           /\ \A c \in Branches : dest'.remote[c] = IF c = Job(s) THEN fetched[s] ELSE dest.remote[c]
<1> DEFINE b == Job(s)
<1>1. b \in Branches /\ fetched[s] \in Nat /\ fetched[s] \in 1 .. head[b]
  BY JobOf, CoreTypes DEF SetRemoteRef, Goto, DiskKnown
<1>2. dest \in Checkouts /\ dest.remote \in [Branches -> Nat]
  BY CoreTypes DEF Shapes
<1>3. dest' = [dest EXCEPT !.remote[b] = fetched[s]]
  BY DEF SetRemoteRef
<1> HIDE DEF b
<1>4. /\ [dest.remote EXCEPT ![b] = fetched[s]] \in [Branches -> Nat]
      /\ \A c \in Branches : [dest.remote EXCEPT ![b] = fetched[s]][c] = IF c = b THEN fetched[s] ELSE dest.remote[c]
  BY <1>1, <1>2
<1>5. /\ dest' \in Checkouts
      /\ dest'.kind = dest.kind /\ dest'.heads = dest.heads /\ dest'.tree = dest.tree
      /\ dest'.junk = dest.junk /\ dest'.on = dest.on
      /\ \A c \in Branches : dest'.remote[c] = IF c = b THEN fetched[s] ELSE dest.remote[c]
  BY <1>1, <1>2, <1>3, <1>4 DEF Checkouts
<1> QED
  BY <1>1, <1>5 DEF b

LEMMA SwitchWrites ==
    ASSUME Core, NEW s \in Servers, Switch(s)
    PROVE  /\ Rewritten(dest, dest')
           /\ fetched' \in [Servers -> Nat] /\ fetched'[s] = dest.remote[Job(s)]
           /\ \A t \in Servers \ {s} : fetched'[t] = fetched[t]
           /\ fetched'[s] \in 1 .. head[Job(s)]
<1> DEFINE b == Job(s)
           at == IF dest.heads[b] = NoCommit THEN <<b, dest.remote[b]>> ELSE dest.heads[b]
<1>1. b \in Branches /\ dest.remote[b] \in 1 .. head[b] /\ head[b] \in 1 .. MaxPushes[b]
  BY JobOf, CoreTypes DEF Switch, Goto, DiskKnown
<1>2. dest.remote[b] \in 1 .. MaxPushes[b] /\ dest.remote[b] \in Nat
  BY <1>1, CoreTypes
<1>3. at \in Commits /\ at # NoCommit
  <2>1. <<b, dest.remote[b]>> \in Commits /\ <<b, dest.remote[b]>> # NoCommit
    BY <1>1, <1>2, CommitIsCommit
  <2>2. dest.heads[b] \in Commits \union {NoCommit}
    BY <1>1, CoreTypes
  <2> QED
    BY <2>1, <2>2
<1>4. \E tree \in Outcomes(s, at) : dest' = [dest EXCEPT !.tree = tree, !.heads[b] = at, !.on = b]
  BY DEF Switch
<1>5. fetched' = [fetched EXCEPT ![s] = dest.remote[b]] /\ fetched \in [Servers -> Nat] /\ dest \in Checkouts
  BY CoreTypes DEF Switch, Shapes
<1> HIDE DEF b, at
<1>6. Outcomes(s, at) \in SUBSET Trees
  <2>1. at \in Trees
    BY <1>3 DEF Trees
  <2> QED
    BY <2>1, OutcomeIsTree
<1>7. PICK tree \in Trees : dest' = [dest EXCEPT !.tree = tree, !.heads[b] = at, !.on = b]
  BY <1>4, <1>6
<1>8. Rewritten(dest, dest')
  BY <1>1, <1>3, <1>5, <1>7, HeadSet
<1>9. /\ fetched' \in [Servers -> Nat] /\ fetched'[s] = dest.remote[b]
      /\ \A t \in Servers \ {s} : fetched'[t] = fetched[t]
      /\ fetched'[s] \in 1 .. head[b]
  BY <1>1, <1>2, <1>5
<1> QED
  BY <1>8, <1>9 DEF b

LEMMA ResetWrites ==
    ASSUME Core, NEW s \in Servers, Reset(s)
    PROVE  /\ Rewritten(dest, dest')
           /\ fetched' = [fetched EXCEPT ![s] = 0] /\ fetched' \in [Servers -> Nat]
           /\ fetched[s] \in 1 .. head[Job(s)] /\ dest'.tree \in Outcomes(s, <<Job(s), fetched[s]>>)
<1> DEFINE b == Job(s)
           commit == <<b, fetched[s]>>
<1>1. b \in Branches /\ fetched[s] \in 1 .. head[b] /\ head[b] \in 1 .. MaxPushes[b] /\ dest.on \in Branches
  BY JobOf, CoreTypes DEF Reset, ResetTo, Goto, DiskKnown
<1>2. fetched[s] \in 1 .. MaxPushes[b] /\ fetched \in [Servers -> Nat] /\ dest \in Checkouts
  BY <1>1, CoreTypes DEF Shapes
<1>3. commit \in Commits /\ commit # NoCommit
  BY <1>1, <1>2, CommitIsCommit
<1>4. /\ \E tree \in Outcomes(s, commit) : dest' = [dest EXCEPT !.tree = tree, !.heads[dest.on] = commit]
      /\ fetched' = [fetched EXCEPT ![s] = 0]
  BY DEF Reset, ResetTo
<1> HIDE DEF b, commit
<1>5. Outcomes(s, commit) \in SUBSET Trees
  <2>1. commit \in Trees
    BY <1>3 DEF Trees
  <2> QED
    BY <2>1, OutcomeIsTree
<1>6. PICK tree \in Outcomes(s, commit) : dest' = [dest EXCEPT !.tree = tree, !.heads[dest.on] = commit]
  BY <1>4
<1>7. tree \in Trees
  BY <1>5, <1>6
<1>8. Rewritten(dest, dest')
  BY <1>1, <1>2, <1>3, <1>6, <1>7, HeadSet
<1>9. dest'.tree = tree
  BY <1>2, <1>6 DEF Checkouts
<1> QED
  BY <1>1, <1>2, <1>4, <1>6, <1>8, <1>9 DEF b, commit

LEMMA ClashWrites ==
    ASSUME Core, NEW s \in Servers, Clash(s)
    PROVE  /\ clashed' \in SUBSET Servers
           /\ \A t \in clashed' : t # s /\ pc[t] \in Writing
           /\ (\A t \in Servers \ {s} : pc[t] = "idle") => clashed' = {}
<1>1. clashed \in SUBSET Servers /\ \A t \in clashed : pc[t] \in Writing
  BY CoreTypes DEF Shapes, DiskKnown
<1>2. "idle" \notin Writing
  BY DEF Writing
<1> QED
  BY <1>1, <1>2 DEF Clash

LEMMA TornWrites ==
    ASSUME Core, NEW s \in Servers, Torn(s)
    PROVE  /\ dest' \in Checkouts /\ dest'.kind = dest.kind /\ dest'.heads = dest.heads
           /\ dest'.on = dest.on /\ dest'.remote = dest.remote
           /\ pc[s] \notin Writing => dest' = dest
           /\ walked' \in [Servers -> Trees] /\ walked'[s] = NoCommit
           /\ fetched' \in [Servers -> Nat] /\ \A t \in Servers \ {s} : fetched'[t] = fetched[t]
<1>1. dest \in Checkouts /\ Mixed \in Trees
  BY CoreTypes, Constants DEF Shapes
<1>2. /\ dest' \in Checkouts /\ dest'.kind = dest.kind /\ dest'.heads = dest.heads
      /\ dest'.on = dest.on /\ dest'.remote = dest.remote
      /\ pc[s] \notin Writing => dest' = dest
  <2>1. CASE dest' = dest
    BY <1>1, <2>1
  <2>2. CASE dest' = [dest EXCEPT !.tree = Mixed, !.junk = TRUE] /\ pc[s] \in Writing
    BY <1>1, <2>2 DEF Checkouts
  <2> QED
    BY <2>1, <2>2 DEF Torn
<1>3. walked' \in [Servers -> Trees] /\ walked'[s] = NoCommit
  BY CoreTypes, Constants DEF Torn, Shapes
<1>4. fetched' \in [Servers -> Nat] /\ \A t \in Servers \ {s} : fetched'[t] = fetched[t]
  BY CoreTypes DEF Torn, Shapes
<1> QED
  BY <1>2, <1>3, <1>4

LEMMA DisturbTypes ==
    ASSUME Core, NEW s \in Servers, Disturb(s)
    PROVE  walked' \in [Servers -> Trees] /\ walked'[s] = walked[s]
  BY CoreTypes, Constants DEF Disturb, Shapes

\* A server that leaves the lock after an error, or dies, leaves the others what
\* they have.
LEMMA TornKeepsDisk ==
    ASSUME Core, NEW s \in Servers, Torn(s), temp' = [temp EXCEPT ![s] = NoCheckout],
           \A t \in Servers \ {s} : pc'[t] = pc[t], pc'[s] \in {"giveup", "idle"},
           head' = head, running' \subseteq running, orphans' <= crashes'
    PROVE  DiskKnown'
<1>1. /\ \A t \in Servers \ {s} : temp'[t] = temp[t] /\ fetched'[t] = fetched[t]
      /\ temp'[s] = NoCheckout
  BY TornWrites, CoreTypes DEF Shapes
<1>2. \A t \in clashed' : pc'[t] \in Writing
  <2>1. \A t \in clashed' : t \in Servers /\ t # s /\ pc[t] \in Writing
    BY ClashWrites DEF Torn
  <2> QED
    BY <2>1
<1>3. /\ dest'.kind = dest.kind /\ dest'.heads = dest.heads
      /\ dest'.on = dest.on /\ dest'.remote = dest.remote
  BY TornWrites
<1>4. \A t \in Servers :
        /\ pc'[t] \in Applying => dest'.kind = "repository"
        /\ pc'[t] = "reset" => dest'.on \in Branches
        /\ pc'[t] \notin {"cloning", "cloned"} => temp'[t] = NoCheckout
  BY <1>1, <1>3, CoreTypes DEF DiskKnown, Applying, Writing
<1>5. \A t \in Servers, b \in Branches : <<t, b>> \in running' =>
        /\ pc'[t] \in {"fetched", "reset"} => fetched'[t] \in 1 .. head'[b]
        /\ pc'[t] = "switch" => dest'.remote[b] \in 1 .. head'[b]
        /\ pc'[t] = "cloned" => \E n \in 1 .. head'[b] : temp'[t] = ClonedFrom(b, n)
  BY <1>1, <1>3, CoreTypes DEF DiskKnown
<1> QED
  BY <1>2, <1>3, <1>4, <1>5, CoreTypes DEF DiskKnown

-----------------------------------------------------------------------------
\* Every action keeps the core of the invariant.

LEMMA PushCore == ASSUME Core, NEW b \in Branches, Push(b) PROVE Core'
<1>1. Shapes'
  BY CoreTypes DEF Push, queueVars, diskVars, checkoutVars, cloneVars, historyVars, Shapes
<1>2. JobsMatch'
  <2>1. \A c \in Branches : head'[c] \in Nat /\ head'[c] >= head[c]
    BY CoreTypes DEF Push, Shapes
  <2>2. JobsMatch /\ UNCHANGED <<running, pending, accepted, pc, attempt>>
    BY CoreTypes DEF Push, queueVars, historyVars
  <2>3. \A c \in Branches : head[c] \in Nat /\ accepted[c] \in Nat
    BY CoreTypes DEF Shapes
  <2>4. \A s \in Servers : pending[s] # NoBranch => pending[s] \in Branches
    BY CoreTypes DEF Shapes
  <2> QED
    BY <2>1, <2>2, <2>3, <2>4 DEF JobsMatch
<1>3. LockHeld'
  BY CoreTypes DEF Push, diskVars, checkoutVars, cloneVars, LockHeld
<1>4. DiskKnown'
  BY CoreTypes DEF Push, queueVars, diskVars, checkoutVars, cloneVars, DiskKnown
<1> QED
  BY <1>1, <1>2, <1>3, <1>4 DEF Core

LEMMA DeliverCore == ASSUME Core, NEW s \in Servers, NEW b \in Branches, Deliver(s, b) PROVE Core'
<1>1. Shapes'
  BY CoreTypes DEF Deliver, diskVars, checkoutVars, cloneVars, Mailbox!Submit, Shapes
<1>2. JobsMatch'
  <2>1. JobsMatch /\ UNCHANGED <<running, head, pc, attempt>>
    BY CoreTypes DEF Deliver, Mailbox!Submit
  <2>2. \A t \in Servers : pending'[t] = (IF t = s THEN b ELSE pending[t])
    BY CoreTypes DEF Deliver, Mailbox!Submit, Shapes
  <2>3. \A c \in Branches : accepted'[c] = (IF c = b THEN head[b] ELSE accepted[c])
    BY CoreTypes DEF Deliver, Shapes
  <2>4. head[b] > 0 /\ head[b] \in Nat
    BY CoreTypes DEF Deliver, Shapes
  <2> QED
    BY <2>1, <2>2, <2>3, <2>4 DEF JobsMatch
<1>3. LockHeld'
  BY CoreTypes DEF Deliver, diskVars, checkoutVars, cloneVars, LockHeld
<1>4. DiskKnown'
  BY CoreTypes DEF Deliver, diskVars, checkoutVars, cloneVars, Mailbox!Submit, DiskKnown
<1> QED
  BY <1>1, <1>2, <1>3, <1>4 DEF Core

LEMMA StartSyncCore == ASSUME Core, NEW s \in Servers, StartSync(s) PROVE Core'
<1>1. Shapes'
  BY CoreTypes, Constants DEF StartSync, diskVars, checkoutVars, cloneVars, Goto, Mailbox!Start, Shapes, Positions
<1>2. JobsMatch'
  BY CoreTypes DEF StartSync, Goto, Mailbox!Start, Shapes, JobsMatch
<1>3. LockHeld'
  BY CoreTypes, Constants DEF StartSync, diskVars, checkoutVars, cloneVars, Goto, Shapes, LockHeld, Locked, Inside, Writing
<1>4. DiskKnown'
  BY CoreTypes DEF StartSync, diskVars, checkoutVars, cloneVars, Goto, Mailbox!Start, Shapes, DiskKnown, Applying, Writing
<1> QED
  BY <1>1, <1>2, <1>3, <1>4 DEF Core

LEMMA TakeLockCore == ASSUME Core, NEW s \in Servers, TakeLock(s) PROVE Core'
<1>1. Shapes'
  BY CoreTypes
     DEF TakeLock, queueVars, checkoutVars, cloneVars, historyVars, Goto, Shapes, Positions, Locked, Inside, Writing
<1>2. JobsUntouched
  BY CoreTypes DEF TakeLock, queueVars, historyVars, Goto, JobsMatch, JobsUntouched
<1>3. LockHeld'
  BY CoreTypes, Constants DEF TakeLock, Goto, Shapes, LockHeld, Locked, Inside, Writing
<1>4. DiskKnown'
  BY CoreTypes
     DEF TakeLock, queueVars, checkoutVars, cloneVars, Goto, Shapes, DiskKnown, Applying, Writing
<1> QED
  BY <1>1, <1>2, <1>3, <1>4, UntouchedJobsMatch DEF Core

LEMMA FindStaleLockCore == ASSUME Core, NEW s \in Servers, FindStaleLock(s) PROVE Core'
<1>1. Shapes'
  BY CoreTypes
     DEF FindStaleLock, queueVars, diskVars, checkoutVars, cloneVars, historyVars, Goto, Shapes, Positions, Locked, Inside, Writing
<1>2. JobsUntouched
  BY CoreTypes DEF FindStaleLock, queueVars, historyVars, Goto, JobsMatch, JobsUntouched
<1>3. LockHeld'
  BY CoreTypes, Constants DEF FindStaleLock, diskVars, checkoutVars, cloneVars, Goto, Shapes, LockHeld, Locked, Inside, Writing
<1>4. DiskKnown'
  BY CoreTypes
     DEF FindStaleLock, queueVars, diskVars, checkoutVars, cloneVars, Goto, Shapes, DiskKnown, Applying, Writing
<1> QED
  BY <1>1, <1>2, <1>3, <1>4, UntouchedJobsMatch DEF Core

LEMMA RemoveStaleLockCore == ASSUME Core, NEW s \in Servers, RemoveStaleLock(s) PROVE Core'
<1>1. Shapes'
  BY CoreTypes
     DEF RemoveStaleLock, queueVars, RemoveLock, checkoutVars, cloneVars, historyVars, Goto, Shapes, Positions, Locked, Inside, Writing
<1>2. JobsUntouched
  BY CoreTypes DEF RemoveStaleLock, queueVars, historyVars, Goto, JobsMatch, JobsUntouched
<1>3. LockHeld'
  BY CoreTypes, Constants DEF RemoveStaleLock, RemoveLock, Goto, Shapes, LockHeld, Locked, Inside, Writing
<1>4. DiskKnown'
  BY CoreTypes
     DEF RemoveStaleLock, queueVars, checkoutVars, cloneVars, Goto, Shapes, DiskKnown, Applying, Writing
<1> QED
  BY <1>1, <1>2, <1>3, <1>4, UntouchedJobsMatch DEF Core

LEMMA BeginCloneCore == ASSUME Core, NEW s \in Servers, BeginClone(s) PROVE Core'
<1>1. Shapes'
  BY CoreTypes, CheckoutShapes
     DEF BeginClone, queueVars, checkoutVars, cloneVars, historyVars, Goto, Shapes, Positions, Locked, Inside, Writing
<1>2. JobsUntouched
  BY CoreTypes DEF BeginClone, queueVars, historyVars, Goto, JobsMatch, JobsUntouched
<1>3. LockHeld'
  BY CoreTypes, Constants DEF BeginClone, Goto, Shapes, LockHeld, Locked, Inside, Writing
<1>4. DiskKnown'
  BY CoreTypes
     DEF BeginClone, queueVars, checkoutVars, cloneVars, Goto, Shapes, DiskKnown, Applying, Writing
<1> QED
  BY <1>1, <1>2, <1>3, <1>4, UntouchedJobsMatch DEF Core

LEMMA OpenExistingCore == ASSUME Core, NEW s \in Servers, OpenExisting(s) PROVE Core'
<1>1. Shapes'
  BY CoreTypes
     DEF OpenExisting, queueVars, diskVars, checkoutVars, cloneVars, historyVars, Goto, Shapes, Positions, Locked, Inside, Writing
<1>2. JobsUntouched
  BY CoreTypes DEF OpenExisting, queueVars, historyVars, Goto, JobsMatch, JobsUntouched
<1>3. LockHeld'
  BY CoreTypes, Constants DEF OpenExisting, diskVars, checkoutVars, cloneVars, Goto, Shapes, LockHeld, Locked, Inside, Writing
<1>4. DiskKnown'
  BY CoreTypes
     DEF OpenExisting, queueVars, diskVars, checkoutVars, cloneVars, Goto, Shapes, DiskKnown, Applying, Writing
<1> QED
  BY <1>1, <1>2, <1>3, <1>4, UntouchedJobsMatch DEF Core

LEMMA FinishCloneCore == ASSUME Core, NEW s \in Servers, FinishClone(s) PROVE Core'
<1>1. Shapes'
  BY CoreTypes, Constants, JobOf, CloneShape
     DEF FinishClone, queueVars, checkoutVars, cloneVars, historyVars, Goto, Shapes, Positions, Locked, Inside, Writing
<1>2. JobsUntouched
  BY CoreTypes DEF FinishClone, queueVars, historyVars, Goto, JobsMatch, JobsUntouched
<1>3. LockHeld'
  BY CoreTypes, Constants DEF FinishClone, Goto, Shapes, LockHeld, Locked, Inside, Writing
<1>4. DiskKnown'
  <2> DEFINE b == Job(s)
  <2>1. /\ temp' = [temp EXCEPT ![s] = ClonedFrom(b, head[b])]
        /\ UNCHANGED <<head, running, dest, fetched, clashed, orphans, crashes>>
    BY DEF FinishClone, queueVars, checkoutVars
  <2>2. pc[s] = "cloning" /\ pc' = [pc EXCEPT ![s] = "cloned"]
    BY DEF FinishClone, Goto
  <2>3. b \in Branches /\ head[b] \in 1 .. head[b] /\ \A c \in Branches : <<s, c>> \in running => c = b
    <3>1. b \in Branches /\ head[b] \in 1 .. MaxPushes[b] /\ \A c \in Branches : <<s, c>> \in running => c = b
      BY <2>2, JobOf
    <3> QED
      BY <3>1, CoreTypes
  <2>4. pc \in [Servers -> Positions] /\ temp \in [Servers -> Checkouts]
    BY CoreTypes DEF Shapes
  <2> HIDE DEF b
  <2> QED
    BY <2>1, <2>2, <2>3, <2>4, CoreTypes DEF DiskKnown, Applying, Writing
<1> QED
  BY <1>1, <1>2, <1>3, <1>4, UntouchedJobsMatch DEF Core

LEMMA PromoteCore == ASSUME Core, NEW s \in Servers, Promote(s) PROVE Core'
<1>1. Shapes'
  BY CoreTypes, DisturbTypes, CheckoutShapes
     DEF Promote, queueVars, historyVars, Goto, Shapes, Positions, Locked, Inside, Writing
<1>2. JobsUntouched
  BY CoreTypes DEF Promote, queueVars, historyVars, Goto, JobsMatch, JobsUntouched
<1>3. LockHeld'
  BY CoreTypes, Constants DEF Promote, Goto, Shapes, LockHeld, Locked, Inside, Writing
<1>4. DiskKnown'
  <2> DEFINE b == Job(s)
  <2>1. pc[s] = "cloned" /\ pc' = [pc EXCEPT ![s] = "unlock"]
    BY DEF Promote, Goto
  <2>2. b \in Branches /\ <<s, b>> \in running
    BY <2>1, JobOf
  <2>3. PICK n \in 1 .. head[b] : temp[s] = ClonedFrom(b, n)
    BY <2>1, <2>2, CoreTypes DEF DiskKnown
  <2> HIDE DEF b
  <2>4. n \in 1 .. MaxPushes[b]
    BY <2>2, <2>3, CoreTypes
  <2>5. dest' = ClonedFrom(b, n) /\ UNCHANGED <<head, running, fetched, clashed, orphans, crashes>>
    BY <2>3 DEF Promote, queueVars
  <2>6. \E c \in Branches : dest'.heads[c] # NoCommit
    BY <2>2, <2>4, <2>5, CloneShape
  <2>7. \A t \in Servers : pc[t] \notin Applying
    BY CoreTypes DEF Promote, DiskKnown
  <2>8. temp' = [temp EXCEPT ![s] = NoCheckout]
    BY DEF Promote
  <2>9. \A t \in Servers : pc'[t] = IF t = s THEN "unlock" ELSE pc[t]
    BY <2>1, CoreTypes DEF Shapes
  <2>10. \A t \in Servers : /\ pc'[t] \notin Applying
                            /\ pc'[t] \notin {"cloning", "cloned"} => temp'[t] = NoCheckout
    BY <2>1, <2>7, <2>8, <2>9, CoreTypes DEF DiskKnown, Shapes, Applying, Writing
  <2>11. \A t \in Servers, c \in Branches : <<t, c>> \in running' /\ pc'[t] = "cloned" =>
            \E k \in 1 .. head'[c] : temp'[t] = ClonedFrom(c, k)
    BY <2>1, <2>5, <2>8, <2>9, CoreTypes DEF DiskKnown, Shapes
  <2>12. \A t \in clashed' : FALSE
    BY <2>5, <2>7, CoreTypes DEF DiskKnown, Shapes, Applying
  <2> QED
    BY <2>5, <2>6, <2>10, <2>11, <2>12, CoreTypes DEF DiskKnown, Applying, Writing
<1> QED
  BY <1>1, <1>2, <1>3, <1>4, UntouchedJobsMatch DEF Core

LEMMA FetchCore == ASSUME Core, NEW s \in Servers, Fetch(s) PROVE Core'
<1>1. Shapes'
  BY CoreTypes, FetchReads
     DEF Fetch, queueVars, checkoutVars, cloneVars, historyVars, Goto, Shapes, Positions, Locked, Inside, Writing
<1>2. JobsUntouched
  BY CoreTypes DEF Fetch, queueVars, historyVars, Goto, JobsMatch, JobsUntouched
<1>3. LockHeld'
  BY CoreTypes, Constants DEF Fetch, Goto, Shapes, LockHeld, Locked, Inside, Writing
<1>4. DiskKnown'
  <2>1. pc[s] = "fetch" /\ pc' = [pc EXCEPT ![s] = "fetched"]
    BY DEF Fetch, Goto
  <2>2. UNCHANGED <<head, running, dest, clashed, temp, orphans, crashes>>
    BY DEF Fetch, queueVars, cloneVars
  <2>3. \A t \in Servers : pc'[t] = IF t = s THEN "fetched" ELSE pc[t]
    BY <2>1, CoreTypes DEF Shapes
  <2>4. \A c \in Branches : <<s, c>> \in running => c = Job(s)
    BY <2>1, JobOf
  <2> QED
    BY <2>1, <2>2, <2>3, <2>4, FetchReads, CoreTypes DEF DiskKnown, Applying, Writing
<1> QED
  BY <1>1, <1>2, <1>3, <1>4, UntouchedJobsMatch DEF Core

LEMMA SetRemoteRefCore == ASSUME Core, NEW s \in Servers, SetRemoteRef(s) PROVE Core'
<1>1. Shapes'
  BY CoreTypes, RefWrites
     DEF SetRemoteRef, queueVars, checkoutVars, cloneVars, historyVars, Goto, Shapes, Positions, Locked, Inside, Writing
<1>2. JobsUntouched
  BY CoreTypes DEF SetRemoteRef, queueVars, historyVars, Goto, JobsMatch, JobsUntouched
<1>3. LockHeld'
  BY CoreTypes, Constants DEF SetRemoteRef, Goto, Shapes, LockHeld, Locked, Inside, Writing
<1>4. DiskKnown'
  <2>1. pc[s] = "fetched" /\ pc' = [pc EXCEPT ![s] = "switch"]
    BY DEF SetRemoteRef, Goto
  <2>2. UNCHANGED <<head, running, fetched, clashed, temp, orphans, crashes>>
    BY DEF SetRemoteRef, queueVars, cloneVars
  <2>3. \A t \in Servers : pc'[t] = IF t = s THEN "switch" ELSE pc[t]
    BY <2>1, CoreTypes DEF Shapes
  <2>4. \A c \in Branches : <<s, c>> \in running => c = Job(s)
    BY <2>1, JobOf
  <2>5. \A t \in Servers, c \in Branches : <<t, c>> \in running /\ pc'[t] = "switch" =>
            dest'.remote[c] \in 1 .. head[c]
    BY <2>1, <2>3, <2>4, RefWrites, CoreTypes DEF DiskKnown
  <2> QED
    BY <2>1, <2>2, <2>3, <2>5, RefWrites, CoreTypes DEF DiskKnown, Applying, Writing
<1> QED
  BY <1>1, <1>2, <1>3, <1>4, UntouchedJobsMatch DEF Core

LEMMA SwitchCore == ASSUME Core, NEW s \in Servers, Switch(s) PROVE Core'
<1>1. Shapes'
  BY CoreTypes, SwitchWrites, ClashWrites, DisturbTypes
     DEF Switch, queueVars, checkoutVars, cloneVars, Rewritten, historyVars, Goto, Shapes, Positions, Locked, Inside, Writing
<1>2. JobsUntouched
  BY CoreTypes DEF Switch, queueVars, historyVars, Goto, JobsMatch, JobsUntouched
<1>3. LockHeld'
  BY CoreTypes, Constants DEF Switch, Goto, Shapes, LockHeld, Locked, Inside, Writing
<1>4. DiskKnown'
  <2>1. pc[s] = "switch" /\ pc' = [pc EXCEPT ![s] = "reset"]
    BY DEF Switch, Goto
  <2>2. UNCHANGED <<head, running, temp, orphans, crashes>>
    BY DEF Switch, queueVars, cloneVars
  <2>3. \A t \in Servers : pc'[t] = IF t = s THEN "reset" ELSE pc[t]
    BY <2>1, CoreTypes DEF Shapes
  <2>4. \A c \in Branches : <<s, c>> \in running => c = Job(s)
    BY <2>1, JobOf
  <2>5. \A t \in clashed' : pc'[t] \in Writing
    BY <2>3, ClashWrites DEF Switch
  <2>6. \A t \in Servers, c \in Branches : <<t, c>> \in running =>
            /\ pc'[t] \in {"fetched", "reset"} => fetched'[t] \in 1 .. head[c]
            /\ pc'[t] = "switch" => dest'.remote[c] \in 1 .. head[c]
    BY <2>1, <2>3, <2>4, SwitchWrites, CoreTypes DEF Rewritten, DiskKnown
  <2>7. \A t \in Servers : /\ pc'[t] \in Applying => dest'.kind = "repository"
                           /\ pc'[t] = "reset" => dest'.on \in Branches
                           /\ pc'[t] \notin {"cloning", "cloned"} => temp'[t] = NoCheckout
    BY <2>1, <2>2, <2>3, SwitchWrites, CoreTypes DEF Rewritten, DiskKnown, Applying, Writing
  <2>8. \A t \in Servers, c \in Branches : <<t, c>> \in running /\ pc'[t] = "cloned" =>
            \E n \in 1 .. head[c] : temp[t] = ClonedFrom(c, n)
    BY <2>1, <2>3, CoreTypes DEF DiskKnown
  <2> QED
    BY <2>2, <2>5, <2>6, <2>7, <2>8, SwitchWrites, CoreTypes DEF Rewritten, DiskKnown
<1> QED
  BY <1>1, <1>2, <1>3, <1>4, UntouchedJobsMatch DEF Core

LEMMA ResetCore == ASSUME Core, NEW s \in Servers, Reset(s) PROVE Core'
<1>1. Shapes'
  BY CoreTypes, ResetWrites, ClashWrites, DisturbTypes
     DEF Reset, queueVars, ResetTo, checkoutVars, cloneVars, Rewritten, historyVars, Goto, Shapes, Positions, Locked, Inside, Writing
<1>2. JobsUntouched
  BY CoreTypes DEF Reset, ResetTo, queueVars, historyVars, Goto, JobsMatch, JobsUntouched
<1>3. LockHeld'
  BY CoreTypes, Constants DEF Reset, ResetTo, Goto, Shapes, LockHeld, Locked, Inside, Writing
<1>4. DiskKnown'
  <2>1. pc[s] = "reset" /\ pc' = [pc EXCEPT ![s] = "clean"]
    BY DEF Reset, Goto, ResetTo
  <2>2. UNCHANGED <<head, running, temp, orphans, crashes>>
    BY DEF Reset, queueVars, cloneVars, ResetTo
  <2>3. \A t \in Servers : pc'[t] = IF t = s THEN "clean" ELSE pc[t]
    BY <2>1, CoreTypes DEF Shapes
  <2>4. \A c \in Branches : <<s, c>> \in running => c = Job(s)
    BY <2>1, JobOf
  <2>5. \A t \in clashed' : pc'[t] \in Writing
    BY <2>3, ClashWrites DEF Reset, ResetTo
  <2>6. \A t \in Servers \ {s} : fetched'[t] = fetched[t]
    BY ResetWrites, CoreTypes DEF Shapes
  <2>7. \A t \in Servers, c \in Branches : <<t, c>> \in running =>
            /\ pc'[t] \in {"fetched", "reset"} => fetched'[t] \in 1 .. head[c]
            /\ pc'[t] = "switch" => dest'.remote[c] \in 1 .. head[c]
    <3>1. dest'.remote = dest.remote
      BY ResetWrites DEF Rewritten
    <3> QED
      BY <2>1, <2>3, <2>6, <3>1, CoreTypes DEF DiskKnown
  <2>8. \A t \in Servers : /\ pc'[t] \in Applying => dest'.kind = "repository"
                           /\ pc'[t] = "reset" => dest'.on \in Branches
                           /\ pc'[t] \notin {"cloning", "cloned"} => temp'[t] = NoCheckout
    BY <2>1, <2>2, <2>3, ResetWrites, CoreTypes DEF Rewritten, DiskKnown, Applying, Writing
  <2>9. \A t \in Servers, c \in Branches : <<t, c>> \in running /\ pc'[t] = "cloned" =>
            \E n \in 1 .. head[c] : temp[t] = ClonedFrom(c, n)
    BY <2>1, <2>3, CoreTypes DEF DiskKnown
  <2> QED
    <3>1. \E c \in Branches : dest'.heads[c] # NoCommit
      BY ResetWrites DEF Rewritten
    <3> QED
      BY <2>2, <2>5, <2>7, <2>8, <2>9, <3>1, CoreTypes DEF DiskKnown
<1> QED
  BY <1>1, <1>2, <1>3, <1>4, UntouchedJobsMatch DEF Core

LEMMA CleanCore == ASSUME Core, NEW s \in Servers, Clean(s) PROVE Core'
<1>1. Shapes'
  BY CoreTypes
     DEF Clean, queueVars, Checkouts, checkoutVars, cloneVars, historyVars, Goto, Shapes, Positions, Locked, Inside, Writing
<1>2. JobsUntouched
  BY CoreTypes DEF Clean, queueVars, historyVars, Goto, JobsMatch, JobsUntouched
<1>3. LockHeld'
  BY CoreTypes, Constants DEF Clean, Goto, Shapes, LockHeld, Locked, Inside, Writing
<1>4. DiskKnown'
  BY CoreTypes
     DEF Clean, queueVars, checkoutVars, cloneVars, Goto, Shapes, DiskKnown, Applying, Writing
<1> QED
  BY <1>1, <1>2, <1>3, <1>4, UntouchedJobsMatch DEF Core

LEMMA UnlockCore == ASSUME Core, NEW s \in Servers, Unlock(s) PROVE Core'
<1>1. Shapes'
  BY CoreTypes
     DEF Unlock, queueVars, RemoveLock, checkoutVars, cloneVars, historyVars, Goto, Shapes, Positions, Locked, Inside, Writing
<1>2. JobsUntouched
  BY CoreTypes DEF Unlock, queueVars, historyVars, Goto, JobsMatch, JobsUntouched
<1>3. LockHeld'
  BY CoreTypes, Constants DEF Unlock, RemoveLock, Goto, Shapes, LockHeld, Locked, Inside, Writing
<1>4. DiskKnown'
  BY CoreTypes
     DEF Unlock, queueVars, checkoutVars, cloneVars, Goto, Shapes, DiskKnown, Applying, Writing
<1> QED
  BY <1>1, <1>2, <1>3, <1>4, UntouchedJobsMatch DEF Core

LEMMA LoadScopeCore == ASSUME Core, NEW s \in Servers, LoadScope(s) PROVE Core'
<1>1. Shapes'
  BY CoreTypes, Constants
     DEF LoadScope, queueVars, diskVars, checkoutVars, cloneVars, historyVars, Goto, Shapes, Positions, Locked, Inside, Writing
<1>2. JobsUntouched
  BY CoreTypes DEF LoadScope, queueVars, historyVars, Goto, JobsMatch, JobsUntouched
<1>3. LockHeld'
  BY CoreTypes, Constants DEF LoadScope, diskVars, checkoutVars, cloneVars, Goto, Shapes, LockHeld, Locked, Inside, Writing
<1>4. DiskKnown'
  BY CoreTypes
     DEF LoadScope, queueVars, diskVars, checkoutVars, cloneVars, Goto, Shapes, DiskKnown, Applying, Writing
<1> QED
  BY <1>1, <1>2, <1>3, <1>4, UntouchedJobsMatch DEF Core

LEMMA EndWalkCore == ASSUME Core, NEW s \in Servers, EndWalk(s) PROVE Core'
<1>1. Shapes'
  BY CoreTypes, Constants
     DEF EndWalk, queueVars, diskVars, checkoutVars, cloneVars, historyVars, Goto, Shapes, Positions, Locked, Inside, Writing
<1>2. JobsUntouched
  BY CoreTypes DEF EndWalk, queueVars, historyVars, Goto, JobsMatch, JobsUntouched
<1>3. LockHeld'
  BY CoreTypes, Constants DEF EndWalk, diskVars, checkoutVars, cloneVars, Goto, Shapes, LockHeld, Locked, Inside, Writing
<1>4. DiskKnown'
  BY CoreTypes
     DEF EndWalk, queueVars, diskVars, checkoutVars, cloneVars, Goto, Shapes, DiskKnown, Applying, Writing
<1> QED
  BY <1>1, <1>2, <1>3, <1>4, UntouchedJobsMatch DEF Core

LEMMA CommitGraphCore == ASSUME Core, NEW s \in Servers, CommitGraph(s) PROVE Core'
<1>1. Shapes'
  BY CoreTypes, Constants
     DEF CommitGraph, queueVars, diskVars, checkoutVars, cloneVars, historyVars, Goto, Shapes, Positions, Locked, Inside, Writing
<1>2. JobsUntouched
  BY CoreTypes DEF CommitGraph, queueVars, historyVars, Goto, JobsMatch, JobsUntouched
<1>3. LockHeld'
  BY CoreTypes, Constants DEF CommitGraph, diskVars, checkoutVars, cloneVars, Goto, Shapes, LockHeld, Locked, Inside, Writing
<1>4. DiskKnown'
  BY CoreTypes
     DEF CommitGraph, queueVars, diskVars, checkoutVars, cloneVars, Goto, Shapes, DiskKnown, Applying, Writing
<1> QED
  BY <1>1, <1>2, <1>3, <1>4, UntouchedJobsMatch DEF Core

LEMMA GiveUpCore == ASSUME Core, NEW s \in Servers, GiveUp(s) PROVE Core'
<1>0. pc[s] \in Inside /\ \A t \in Servers : pc'[t] = IF t = s THEN "giveup" ELSE pc[t]
  BY CoreTypes DEF GiveUp, Shapes
<1>1. Shapes'
  BY CoreTypes, TornWrites, ClashWrites, CheckoutShapes
     DEF GiveUp, Torn, queueVars, historyVars, Shapes, Positions, Locked
<1>2. JobsUntouched
  BY <1>0, CoreTypes DEF GiveUp, queueVars, historyVars, Inside, Writing, JobsMatch, JobsUntouched
<1>3. LockHeld'
  BY <1>0, CoreTypes DEF GiveUp, LockHeld, Locked
<1>4. DiskKnown'
  <2>1. orphans' <= crashes' /\ running' \subseteq running /\ head' = head
    BY CoreTypes DEF GiveUp, queueVars, DiskKnown
  <2> QED
    BY <1>0, <2>1, TornKeepsDisk DEF GiveUp
<1> QED
  BY <1>1, <1>2, <1>3, <1>4, UntouchedJobsMatch DEF Core

\* A server that ends its sync has no job any more, and the others theirs.
LEMMA EndedJobsMatch ==
    ASSUME Core, NEW s \in Servers, pc' = [pc EXCEPT ![s] = "idle"],
           running' = {job \in running : job[1] # s},
           pending' = pending \/ pending' = [pending EXCEPT ![s] = NoBranch],
           attempt' = [attempt EXCEPT ![s] = 0], UNCHANGED <<head, accepted>>
    PROVE  JobsMatch'
<1>1. /\ pc'[s] = "idle" /\ attempt'[s] = 0
      /\ \A t \in Servers \ {s} : pc'[t] = pc[t] /\ attempt'[t] = attempt[t]
  BY CoreTypes DEF Shapes
<1>2. /\ \A t \in Servers, b \in Branches : <<t, b>> \in running' <=> <<t, b>> \in running /\ t # s
      /\ \A t \in Servers : pending'[t] \in {pending[t], NoBranch}
  BY CoreTypes DEF Shapes
<1>3. \A t \in Servers : pc'[t] # "idle" <=> \E b \in Branches : <<t, b>> \in running'
  BY <1>1, <1>2, CoreTypes, Zenon DEF JobsMatch
<1>4. \A t \in Servers : pc'[t] = "backoff" => attempt'[t] < MaxAttempts
  BY <1>1, CoreTypes DEF JobsMatch
<1>5. \A t \in Servers, b, c \in Branches : <<t, b>> \in running' /\ <<t, c>> \in running' => b = c
  BY <1>2, CoreTypes, Zenon DEF JobsMatch
<1>6. \A t \in Servers, b \in Branches : <<t, b>> \in running' => head'[b] > 0
  BY <1>2, CoreTypes DEF JobsMatch
<1>7. /\ \A t \in Servers : pending'[t] # NoBranch => head'[pending'[t]] > 0
      /\ \A b \in Branches : accepted'[b] <= head'[b]
  BY <1>2, CoreTypes DEF JobsMatch
<1> QED
  BY <1>3, <1>4, <1>5, <1>6, <1>7 DEF JobsMatch

LEMMA FinishCore == ASSUME Core, NEW s \in Servers, Finish(s) PROVE Core'
<1>1. Shapes'
  <2>1. pc[s] = "crossrefs" /\ pc' = [pc EXCEPT ![s] = "idle"]
    BY DEF Finish, Goto
  <2>2. Job(s) \in Branches
    BY <2>1, JobOf
  <2>3. last' \in [branch : Branches \union {NoBranch}, outcome : Results]
    BY <2>2 DEF Finish, Ended, Results
  <2>4. running' \in SUBSET (Servers \X Branches) /\ UNCHANGED <<pending, accepting>>
    BY CoreTypes DEF Finish, Ended, Mailbox!Finish, Shapes
  <2>5. pc' \in [Servers -> Positions] /\ attempt' \in [Servers -> 0 .. MaxAttempts]
    BY <2>1, CoreTypes, Constants DEF Finish, Ended, Shapes, Positions
  <2> QED
    BY <2>3, <2>4, <2>5, CoreTypes DEF Finish, diskVars, checkoutVars, cloneVars, Shapes
<1>2. JobsMatch'
  BY EndedJobsMatch DEF Finish, Goto, Ended, Mailbox!Finish
<1>3. LockHeld'
  BY CoreTypes DEF Finish, diskVars, Goto, Shapes, LockHeld, Locked, Inside, Writing
<1>4. DiskKnown'
  BY CoreTypes
     DEF Finish, diskVars, checkoutVars, cloneVars, Goto, Ended, Mailbox!Finish, Shapes, DiskKnown,
         Applying, Writing
<1> QED
  BY <1>1, <1>2, <1>3, <1>4 DEF Core

LEMMA AttemptFailsCore == ASSUME Core, NEW s \in Servers, AttemptFails(s) PROVE Core'
<1>1. Shapes'
  BY CoreTypes, Constants
     DEF AttemptFails, queueVars, historyVars, Abort, checkoutVars, cloneVars, Shapes, Positions
<1>2. JobsUntouched
  BY CoreTypes
     DEF AttemptFails, Abort, queueVars, historyVars, MayFail, Shapes, JobsMatch, JobsUntouched
<1>3. LockHeld'
  BY CoreTypes, Constants
     DEF AttemptFails, Abort, MayFail, Shapes, LockHeld, Locked, Inside, Writing
<1>4. DiskKnown'
  BY CoreTypes
     DEF AttemptFails, queueVars, Abort, MayFail, checkoutVars, cloneVars, Shapes, DiskKnown,
         Applying, Writing
<1> QED
  BY <1>1, <1>2, <1>3, <1>4, UntouchedJobsMatch DEF Core

LEMMA SyncFailsCore == ASSUME Core, NEW s \in Servers, SyncFails(s) PROVE Core'
<1>1. Shapes'
  <2>1. pc[s] # "idle" /\ pc' = [pc EXCEPT ![s] = "idle"]
    BY DEF SyncFails, Abort, MayFail
  <2>2. Job(s) \in Branches
    BY <2>1, JobOf
  <2>3. last' \in [branch : Branches \union {NoBranch}, outcome : Results]
    BY <2>2 DEF SyncFails, Ended, Results
  <2>4. running' \in SUBSET (Servers \X Branches) /\ UNCHANGED <<pending, accepting>>
    BY CoreTypes DEF SyncFails, Ended, Mailbox!Finish, Shapes
  <2>5. pc' \in [Servers -> Positions] /\ attempt' \in [Servers -> 0 .. MaxAttempts]
    BY CoreTypes, Constants DEF SyncFails, Ended, Shapes, Positions
  <2>6. /\ lockFile' \in Servers \union {Free, Abandoned} /\ walked' \in [Servers -> Trees]
        /\ UNCHANGED <<dest, fetched, clashed, temp, orphans>>
    BY Constants, CoreTypes DEF SyncFails, Abort, checkoutVars, cloneVars, Shapes
  <2> QED
    BY <2>3, <2>4, <2>5, <2>6, CoreTypes DEF SyncFails, Abort, Shapes
<1>2. JobsMatch'
  BY EndedJobsMatch DEF SyncFails, Abort, Ended, Mailbox!Finish
<1>3. LockHeld'
  BY CoreTypes, Constants DEF SyncFails, Abort, MayFail, Shapes, LockHeld, Locked, Inside, Writing
<1>4. DiskKnown'
  BY CoreTypes
     DEF SyncFails, Abort, MayFail, checkoutVars, cloneVars, Ended, Mailbox!Finish, Shapes,
         DiskKnown, Applying, Writing
<1> QED
  BY <1>1, <1>2, <1>3, <1>4 DEF Core

LEMMA RetryCore == ASSUME Core, NEW s \in Servers, Retry(s) PROVE Core'
<1>1. Shapes'
  <2>1. pc[s] = "backoff" /\ pc' = [pc EXCEPT ![s] = "lock"]
    BY DEF Retry, Goto
  <2>2. attempt[s] \in Nat /\ attempt[s] + 1 \in 0 .. MaxAttempts
    BY <2>1, CoreTypes, Constants DEF Shapes, JobsMatch
  <2>3. attempt' \in [Servers -> 0 .. MaxAttempts]
    BY <2>2, CoreTypes DEF Retry, Shapes
  <2>4. pc' \in [Servers -> Positions]
    BY <2>1, CoreTypes DEF Shapes, Positions
  <2> QED
    BY <2>3, <2>4, CoreTypes DEF Retry, queueVars, diskVars, checkoutVars, cloneVars, historyVars, Shapes
<1>2. JobsUntouched
  BY CoreTypes DEF Retry, queueVars, historyVars, Goto, Shapes, JobsMatch, JobsUntouched
<1>3. LockHeld'
  BY CoreTypes DEF Retry, diskVars, Goto, Shapes, LockHeld, Locked, Inside, Writing
<1>4. DiskKnown'
  BY CoreTypes
     DEF Retry, queueVars, diskVars, checkoutVars, cloneVars, Goto, Shapes, DiskKnown, Applying,
         Writing
<1> QED
  BY <1>1, <1>2, <1>3, <1>4, UntouchedJobsMatch DEF Core

LEMMA CrashCore == ASSUME Core, NEW s \in Servers, Crash(s) PROVE Core'
<1>0. /\ Torn(s) /\ \A t \in Servers : pc'[t] = IF t = s THEN "idle" ELSE pc[t]
      /\ crashes' = crashes + 1 /\ crashes \in Nat /\ orphans' \in {orphans, orphans + 1}
      /\ orphans \in Nat /\ orphans <= crashes
  BY CoreTypes DEF Crash, Shapes, DiskKnown
<1>1. Shapes'
  <2>1. last' \in [branch : Branches \union {NoBranch}, outcome : Results] /\ raced' \in BOOLEAN
    BY CoreTypes DEF Crash, Shapes, Results
  <2>2. /\ pending' \in [Servers -> Branches \union {NoBranch}] /\ accepting' \in BOOLEAN
        /\ running' \in SUBSET (Servers \X Branches)
    BY CoreTypes DEF Crash, Shapes
  <2>3. /\ pc' \in [Servers -> Positions] /\ attempt' \in [Servers -> 0 .. MaxAttempts]
        /\ lockFile' \in Servers \union {Free, Abandoned} /\ temp' \in [Servers -> Checkouts]
    BY CoreTypes, Constants, CheckoutShapes DEF Crash, Shapes, Positions
  <2>4. /\ dest' \in Checkouts /\ fetched' \in [Servers -> Nat] /\ clashed' \in SUBSET Servers
        /\ walked' \in [Servers -> Trees]
    BY <1>0, TornWrites, ClashWrites DEF Torn
  <2> QED
    BY <1>0, <2>1, <2>2, <2>3, <2>4, CoreTypes DEF Crash, Shapes
<1>2. JobsMatch'
  BY EndedJobsMatch DEF Crash
<1>3. LockHeld'
  BY <1>0, CoreTypes, Constants DEF Crash, Shapes, LockHeld, Locked, Inside, Writing
<1>4. DiskKnown'
  <2>1. orphans' <= crashes' /\ running' \subseteq running
    BY <1>0 DEF Crash
  <2> QED
    BY <1>0, <2>1, TornKeepsDisk DEF Crash
<1> QED
  BY <1>1, <1>2, <1>3, <1>4 DEF Core

-----------------------------------------------------------------------------
\* What the core says of a step that begins with a busy server s: nobody else
\* matters unless servers met.

LEMMA IInvParts ==
    ASSUME IInv
    PROVE  Core /\ Alone /\ NoClash /\ ReadOnlyInWalk /\ OnItsWay /\ Settled
  BY DEF IInv, Fresh

LEMMA BusyStep ==
    ASSUME IInv, NEW s \in Servers, pc[s] # "idle", UNCHANGED raced, clashed' = clashed \/ Clash(s),
           \A t \in Servers \ {s} : pc'[t] = pc[t], running' \subseteq running,
           ~raced => \A b \in Branches : <<s, b>> \in running /\ <<s, b>> \in running' /\ OnWay(s, b) => OnWay(s, b)'
    PROVE  Alone' /\ NoClash' /\ OnItsWay'
<1>1. \A t \in Servers, b \in Branches : <<t, b>> \in running => pc[t] # "idle"
  BY IInvParts DEF Core, JobsMatch
<1>2. Alone'
  BY IInvParts DEF Alone
<1>3. ASSUME ~raced', NEW t \in Servers, NEW b \in Branches, <<t, b>> \in running'
      PROVE  OnWay(t, b)'
  <2>1. ~raced /\ <<t, b>> \in running
    BY <1>3
  <2>2. t = s /\ OnWay(t, b)
    BY <1>1, <2>1, IInvParts DEF Alone, OnItsWay
  <2> QED
    BY <1>3, <2>1, <2>2
<1>4. NoClash'
  <2>1. ASSUME ~raced PROVE \A t \in Servers \ {s} : pc[t] = "idle"
    BY <2>1, IInvParts DEF Alone
  <2> QED
    BY <2>1, IInvParts, ClashWrites DEF NoClash
<1> QED
  BY <1>2, <1>3, <1>4 DEF OnItsWay

\* A server that writes alone leaves the files of the commit it writes.
LEMMA WritesAlone ==
    ASSUME IInv, NEW s \in Servers, pc[s] # "idle", ~raced, NEW commit
    PROVE  Outcomes(s, commit) = {commit}
<1>1. \A t \in Servers \ {s} : pc[t] \notin Writing
  BY IInvParts DEF Alone, Writing
<1>2. s \notin clashed
  BY IInvParts DEF NoClash
<1> QED
  BY <1>1, <1>2 DEF Outcomes

LEMMA NewestStays ==
    ASSUME UNCHANGED <<head, accepted, pending>>, NEW b \in Branches
    PROVE  /\ \A n \in Nat : Newest(b, n)' <=> Newest(b, n)
           /\ \A tree : Shows(tree, b) => Shows(tree, b)'
  BY DEF Newest, Shows

\* What was just fetched is the newest there is.
LEMMA HeadIsNewest ==
    ASSUME Core, NEW b \in Branches, head[b] > 0
    PROVE  Newest(b, head[b]) /\ head[b] \in Nat
  BY CoreTypes DEF Newest, JobsMatch, Shapes

LEMMA TakeLockFresh == ASSUME IInv, NEW s \in Servers, TakeLock(s) PROVE Fresh'
<1>1. /\ pc[s] # "idle" /\ UNCHANGED <<head, accepted, pending, raced>> /\ running' \subseteq running
      /\ \A t \in Servers \ {s} : pc'[t] = pc[t]
      /\ clashed' = clashed \/ Clash(s)
  BY DEF TakeLock, queueVars, historyVars, checkoutVars, Goto
<1>2. ASSUME ~raced, NEW b \in Branches, <<s, b>> \in running, <<s, b>> \in running', OnWay(s, b)
      PROVE  OnWay(s, b)'
  BY <1>2, NewestStays, IInvParts, CoreTypes
     DEF TakeLock, queueVars, historyVars, checkoutVars, Goto, Shapes, OnWay
<1>3. ReadOnlyInWalk'
  BY IInvParts, CoreTypes DEF TakeLock, Goto, Shapes, ReadOnlyInWalk
<1>4. Settled'
  BY DEF TakeLock, Goto, Settled
<1> QED
  BY <1>1, <1>2, <1>3, <1>4, BusyStep DEF Fresh

LEMMA FindStaleLockFresh == ASSUME IInv, NEW s \in Servers, FindStaleLock(s) PROVE Fresh'
<1>1. /\ pc[s] # "idle" /\ UNCHANGED <<head, accepted, pending, raced>> /\ running' \subseteq running
      /\ \A t \in Servers \ {s} : pc'[t] = pc[t]
      /\ clashed' = clashed \/ Clash(s)
  BY DEF FindStaleLock, queueVars, historyVars, diskVars, checkoutVars, Goto
<1>2. ASSUME ~raced, NEW b \in Branches, <<s, b>> \in running, <<s, b>> \in running', OnWay(s, b)
      PROVE  OnWay(s, b)'
  BY <1>2, NewestStays, IInvParts, CoreTypes
     DEF FindStaleLock, queueVars, historyVars, diskVars, checkoutVars, Goto, Shapes, OnWay
<1>3. ReadOnlyInWalk'
  BY IInvParts, CoreTypes DEF FindStaleLock, Goto, Shapes, ReadOnlyInWalk
<1>4. Settled'
  BY DEF FindStaleLock, Goto, Settled
<1> QED
  BY <1>1, <1>2, <1>3, <1>4, BusyStep DEF Fresh

LEMMA RemoveStaleLockFresh == ASSUME IInv, NEW s \in Servers, RemoveStaleLock(s) PROVE Fresh'
<1>1. /\ pc[s] # "idle" /\ UNCHANGED <<head, accepted, pending, raced>> /\ running' \subseteq running
      /\ \A t \in Servers \ {s} : pc'[t] = pc[t]
      /\ clashed' = clashed \/ Clash(s)
  BY DEF RemoveStaleLock, queueVars, historyVars, checkoutVars, Goto
<1>2. ASSUME ~raced, NEW b \in Branches, <<s, b>> \in running, <<s, b>> \in running', OnWay(s, b)
      PROVE  OnWay(s, b)'
  BY <1>2, NewestStays, IInvParts, CoreTypes
     DEF RemoveStaleLock, queueVars, historyVars, checkoutVars, Goto, Shapes, OnWay
<1>3. ReadOnlyInWalk'
  BY IInvParts, CoreTypes DEF RemoveStaleLock, Goto, Shapes, ReadOnlyInWalk
<1>4. Settled'
  BY DEF RemoveStaleLock, Goto, Settled
<1> QED
  BY <1>1, <1>2, <1>3, <1>4, BusyStep DEF Fresh

LEMMA UnlockFresh == ASSUME IInv, NEW s \in Servers, Unlock(s) PROVE Fresh'
<1>1. /\ pc[s] # "idle" /\ UNCHANGED <<head, accepted, pending, raced>> /\ running' \subseteq running
      /\ \A t \in Servers \ {s} : pc'[t] = pc[t]
      /\ clashed' = clashed \/ Clash(s)
  BY DEF Unlock, queueVars, historyVars, checkoutVars, Goto
<1>2. ASSUME ~raced, NEW b \in Branches, <<s, b>> \in running, <<s, b>> \in running', OnWay(s, b)
      PROVE  OnWay(s, b)'
  BY <1>2, NewestStays, IInvParts, CoreTypes
     DEF Unlock, queueVars, historyVars, checkoutVars, Goto, Shapes, OnWay
<1>3. ReadOnlyInWalk'
  BY IInvParts, CoreTypes DEF Unlock, Goto, Shapes, ReadOnlyInWalk
<1>4. Settled'
  BY DEF Unlock, Goto, Settled
<1> QED
  BY <1>1, <1>2, <1>3, <1>4, BusyStep DEF Fresh

LEMMA BeginCloneFresh == ASSUME IInv, NEW s \in Servers, BeginClone(s) PROVE Fresh'
<1>1. /\ pc[s] # "idle" /\ UNCHANGED <<head, accepted, pending, raced>> /\ running' \subseteq running
      /\ \A t \in Servers \ {s} : pc'[t] = pc[t]
      /\ clashed' = clashed \/ Clash(s)
  BY DEF BeginClone, queueVars, historyVars, checkoutVars, Goto
<1>2. ASSUME ~raced, NEW b \in Branches, <<s, b>> \in running, <<s, b>> \in running', OnWay(s, b)
      PROVE  OnWay(s, b)'
  BY <1>2, NewestStays, IInvParts, CoreTypes
     DEF BeginClone, queueVars, historyVars, checkoutVars, Goto, Shapes, OnWay
<1>3. ReadOnlyInWalk'
  BY IInvParts, CoreTypes DEF BeginClone, Goto, Shapes, ReadOnlyInWalk
<1>4. Settled'
  BY DEF BeginClone, Goto, Settled
<1> QED
  BY <1>1, <1>2, <1>3, <1>4, BusyStep DEF Fresh

LEMMA OpenExistingFresh == ASSUME IInv, NEW s \in Servers, OpenExisting(s) PROVE Fresh'
<1>1. /\ pc[s] # "idle" /\ UNCHANGED <<head, accepted, pending, raced>> /\ running' \subseteq running
      /\ \A t \in Servers \ {s} : pc'[t] = pc[t]
      /\ clashed' = clashed \/ Clash(s)
  BY DEF OpenExisting, queueVars, historyVars, diskVars, checkoutVars, Goto
<1>2. ASSUME ~raced, NEW b \in Branches, <<s, b>> \in running, <<s, b>> \in running', OnWay(s, b)
      PROVE  OnWay(s, b)'
  BY <1>2, NewestStays, IInvParts, CoreTypes
     DEF OpenExisting, queueVars, historyVars, diskVars, checkoutVars, Goto, Shapes, OnWay
<1>3. ReadOnlyInWalk'
  BY IInvParts, CoreTypes DEF OpenExisting, Goto, Shapes, ReadOnlyInWalk
<1>4. Settled'
  BY DEF OpenExisting, Goto, Settled
<1> QED
  BY <1>1, <1>2, <1>3, <1>4, BusyStep DEF Fresh

LEMMA FinishCloneFresh == ASSUME IInv, NEW s \in Servers, FinishClone(s) PROVE Fresh'
<1>1. /\ pc[s] # "idle" /\ UNCHANGED <<head, accepted, pending, raced>> /\ running' \subseteq running
      /\ \A t \in Servers \ {s} : pc'[t] = pc[t]
      /\ clashed' = clashed \/ Clash(s)
  BY DEF FinishClone, queueVars, historyVars, checkoutVars, Goto
<1>2. ASSUME ~raced, NEW b \in Branches, <<s, b>> \in running, <<s, b>> \in running', OnWay(s, b)
      PROVE  OnWay(s, b)'
  <2>1. pc[s] = "cloning" /\ pc'[s] = "cloned" /\ Core
    BY IInvParts, CoreTypes DEF FinishClone, Goto, Shapes
  <2>2. b = Job(s) /\ head[b] > 0
    BY <1>2, <2>1, JobOf DEF Core, JobsMatch
  <2>3. temp'[s] = ClonedFrom(b, head[b])
    BY <2>1, <2>2, CoreTypes DEF FinishClone, Shapes
  <2>4. Newest(b, head[b])' /\ head[b] \in Nat
    BY <1>1, <2>1, <2>2, HeadIsNewest, NewestStays
  <2>5. \E n \in Nat : temp'[s] = ClonedFrom(b, n) /\ Newest(b, n)'
    BY <2>3, <2>4, <1>1 DEF Newest
  <2> QED
    BY <2>1, <2>5 DEF OnWay
<1>3. ReadOnlyInWalk'
  BY IInvParts, CoreTypes DEF FinishClone, Goto, Shapes, ReadOnlyInWalk
<1>4. Settled'
  BY DEF FinishClone, Goto, Settled
<1> QED
  BY <1>1, <1>2, <1>3, <1>4, BusyStep DEF Fresh

LEMMA PromoteFresh == ASSUME IInv, NEW s \in Servers, Promote(s) PROVE Fresh'
<1>1. /\ pc[s] # "idle" /\ UNCHANGED <<head, accepted, pending, raced>> /\ running' \subseteq running
      /\ \A t \in Servers \ {s} : pc'[t] = pc[t]
      /\ clashed' = clashed \/ Clash(s)
  BY DEF Promote, queueVars, historyVars, Goto
<1>2. ASSUME ~raced, NEW b \in Branches, <<s, b>> \in running, <<s, b>> \in running', OnWay(s, b)
      PROVE  OnWay(s, b)'
  <2>1. pc[s] = "cloned" /\ pc'[s] = "unlock" /\ dest' = temp[s]
    BY IInvParts, CoreTypes DEF Promote, Goto, Shapes
  <2>2. PICK n \in Nat : temp[s] = ClonedFrom(b, n) /\ Newest(b, n)
    BY <1>2, <2>1 DEF OnWay
  <2>3. dest'.tree = <<b, n>> /\ ~dest'.junk
    BY <2>1, <2>2 DEF ClonedFrom
  <2>4. Newest(b, n)'
    BY <1>1, <2>2, NewestStays
  <2>5. Shows(dest.tree, b)'
    BY <2>3, <2>4 DEF Shows
  <2> QED
    BY <2>1, <2>3, <2>5 DEF OnWay
<1>3. ReadOnlyInWalk'
  BY IInvParts, CoreTypes DEF Promote, Goto, Disturb, Shapes, ReadOnlyInWalk
<1>4. Settled'
  BY DEF Promote, Goto, Settled
<1> QED
  BY <1>1, <1>2, <1>3, <1>4, BusyStep DEF Fresh

LEMMA FetchFresh == ASSUME IInv, NEW s \in Servers, Fetch(s) PROVE Fresh'
<1>1. /\ pc[s] # "idle" /\ UNCHANGED <<head, accepted, pending, raced>> /\ running' \subseteq running
      /\ \A t \in Servers \ {s} : pc'[t] = pc[t]
      /\ clashed' = clashed \/ Clash(s)
  BY DEF Fetch, queueVars, historyVars, Goto
<1>2. ASSUME ~raced, NEW b \in Branches, <<s, b>> \in running, <<s, b>> \in running', OnWay(s, b)
      PROVE  OnWay(s, b)'
  <2>1. pc[s] = "fetch" /\ pc'[s] = "fetched" /\ Core
    BY IInvParts, CoreTypes DEF Fetch, Goto, Shapes
  <2>2. b = Job(s) /\ head[b] > 0
    BY <1>2, <2>1, JobOf DEF Core, JobsMatch
  <2>3. fetched'[s] = head[b]
    BY <2>1, <2>2, FetchReads
  <2>4. Newest(b, head[b])' /\ head[b] \in Nat
    BY <1>1, <2>1, <2>2, HeadIsNewest, NewestStays
  <2>5. Newest(b, fetched[s])'
    BY <2>3, <2>4, <1>1 DEF Newest
  <2> QED
    BY <2>1, <2>5 DEF OnWay
<1>3. ReadOnlyInWalk'
  BY IInvParts, CoreTypes DEF Fetch, Goto, Shapes, ReadOnlyInWalk
<1>4. Settled'
  BY DEF Fetch, Goto, Settled
<1> QED
  BY <1>1, <1>2, <1>3, <1>4, BusyStep DEF Fresh

LEMMA SetRemoteRefFresh == ASSUME IInv, NEW s \in Servers, SetRemoteRef(s) PROVE Fresh'
<1>1. /\ pc[s] # "idle" /\ UNCHANGED <<head, accepted, pending, raced>> /\ running' \subseteq running
      /\ \A t \in Servers \ {s} : pc'[t] = pc[t]
      /\ clashed' = clashed \/ Clash(s)
  BY DEF SetRemoteRef, queueVars, historyVars, Goto
<1>2. ASSUME ~raced, NEW b \in Branches, <<s, b>> \in running, <<s, b>> \in running', OnWay(s, b)
      PROVE  OnWay(s, b)'
  <2>1. pc[s] = "fetched" /\ pc'[s] = "switch" /\ Core
    BY IInvParts, CoreTypes DEF SetRemoteRef, Goto, Shapes
  <2>2. b = Job(s)
    BY <1>2, <2>1, JobOf
  <2>3. dest'.remote[b] = fetched[s]
    BY <2>1, <2>2, RefWrites
  <2>4. Newest(b, fetched[s])
    BY <1>2, <2>1 DEF OnWay
  <2>5. Newest(b, dest.remote[b])'
    BY <2>3, <2>4, <1>1 DEF Newest
  <2> QED
    BY <2>1, <2>5 DEF OnWay
<1>3. ReadOnlyInWalk'
  BY IInvParts, CoreTypes DEF SetRemoteRef, Goto, Shapes, ReadOnlyInWalk
<1>4. Settled'
  BY DEF SetRemoteRef, Goto, Settled
<1> QED
  BY <1>1, <1>2, <1>3, <1>4, BusyStep DEF Fresh

LEMMA SwitchFresh == ASSUME IInv, NEW s \in Servers, Switch(s) PROVE Fresh'
<1>1. /\ pc[s] # "idle" /\ UNCHANGED <<head, accepted, pending, raced>> /\ running' \subseteq running
      /\ \A t \in Servers \ {s} : pc'[t] = pc[t]
      /\ clashed' = clashed \/ Clash(s)
  BY DEF Switch, queueVars, historyVars, Goto
<1>2. ASSUME ~raced, NEW b \in Branches, <<s, b>> \in running, <<s, b>> \in running', OnWay(s, b)
      PROVE  OnWay(s, b)'
  <2>1. pc[s] = "switch" /\ pc'[s] = "reset" /\ Core
    BY IInvParts, CoreTypes DEF Switch, Goto, Shapes
  <2>2. b = Job(s)
    BY <1>2, <2>1, JobOf
  <2>3. fetched'[s] = dest.remote[b]
    BY <2>1, <2>2, SwitchWrites
  <2>4. Newest(b, dest.remote[b])
    BY <1>2, <2>1 DEF OnWay
  <2>5. Newest(b, fetched[s])'
    BY <2>3, <2>4, <1>1 DEF Newest
  <2> QED
    BY <2>1, <2>5 DEF OnWay
<1>3. ReadOnlyInWalk'
  BY IInvParts, CoreTypes DEF Switch, Goto, Disturb, Shapes, ReadOnlyInWalk
<1>4. Settled'
  BY DEF Switch, Goto, Settled
<1> QED
  BY <1>1, <1>2, <1>3, <1>4, BusyStep DEF Fresh

LEMMA ResetFresh == ASSUME IInv, NEW s \in Servers, Reset(s) PROVE Fresh'
<1>1. /\ pc[s] # "idle" /\ UNCHANGED <<head, accepted, pending, raced>> /\ running' \subseteq running
      /\ \A t \in Servers \ {s} : pc'[t] = pc[t]
      /\ clashed' = clashed \/ Clash(s)
  BY DEF Reset, ResetTo, queueVars, historyVars, Goto
<1>2. ASSUME ~raced, NEW b \in Branches, <<s, b>> \in running, <<s, b>> \in running', OnWay(s, b)
      PROVE  OnWay(s, b)'
  <2>1. pc[s] = "reset" /\ pc'[s] = "clean" /\ Core
    BY IInvParts, CoreTypes DEF Reset, ResetTo, Goto, Shapes
  <2>2. b = Job(s)
    BY <1>2, <2>1, JobOf
  <2>3. dest'.tree = <<b, fetched[s]>>
    <3>1. Outcomes(s, <<Job(s), fetched[s]>>) = {<<Job(s), fetched[s]>>}
      BY <1>2, <2>1, WritesAlone
    <3>2. dest'.tree \in Outcomes(s, <<Job(s), fetched[s]>>)
      BY <2>1, ResetWrites
    <3> QED
      BY <2>2, <3>1, <3>2
  <2>4. Newest(b, fetched[s]) /\ fetched[s] \in Nat
    BY <1>2, <2>1, CoreTypes DEF OnWay
  <2>5. Shows(dest.tree, b)'
    BY <1>1, <2>3, <2>4 DEF Shows, Newest
  <2> QED
    BY <2>1, <2>5 DEF OnWay
<1>3. ReadOnlyInWalk'
  BY IInvParts, CoreTypes DEF Reset, Goto, ResetTo, Disturb, Shapes, ReadOnlyInWalk
<1>4. Settled'
  BY DEF Reset, ResetTo, Goto, Settled
<1> QED
  BY <1>1, <1>2, <1>3, <1>4, BusyStep DEF Fresh

LEMMA CleanFresh == ASSUME IInv, NEW s \in Servers, Clean(s) PROVE Fresh'
<1>1. /\ pc[s] # "idle" /\ UNCHANGED <<head, accepted, pending, raced>> /\ running' \subseteq running
      /\ \A t \in Servers \ {s} : pc'[t] = pc[t]
      /\ clashed' = clashed \/ Clash(s)
  BY DEF Clean, queueVars, historyVars, Goto
<1>2. ASSUME ~raced, NEW b \in Branches, <<s, b>> \in running, <<s, b>> \in running', OnWay(s, b)
      PROVE  OnWay(s, b)'
  <2>1. pc[s] = "clean" /\ pc'[s] = "unlock" /\ dest'.tree = dest.tree /\ ~dest'.junk
    BY IInvParts, CoreTypes DEF Clean, Goto, Shapes, Checkouts
  <2>2. Shows(dest.tree, b)
    BY <1>2, <2>1 DEF OnWay
  <2>3. Shows(dest.tree, b)'
    BY <1>1, <2>1, <2>2 DEF Shows, Newest
  <2> QED
    BY <2>1, <2>3 DEF OnWay
<1>3. ReadOnlyInWalk'
  BY IInvParts, CoreTypes DEF Clean, Goto, Shapes, ReadOnlyInWalk
<1>4. Settled'
  BY DEF Clean, Goto, Settled
<1> QED
  BY <1>1, <1>2, <1>3, <1>4, BusyStep DEF Fresh

LEMMA LoadScopeFresh == ASSUME IInv, NEW s \in Servers, LoadScope(s) PROVE Fresh'
<1>1. /\ pc[s] # "idle" /\ UNCHANGED <<head, accepted, pending, raced>> /\ running' \subseteq running
      /\ \A t \in Servers \ {s} : pc'[t] = pc[t]
      /\ clashed' = clashed \/ Clash(s)
  BY DEF LoadScope, queueVars, historyVars, diskVars, checkoutVars, Goto
<1>2. ASSUME ~raced, NEW b \in Branches, <<s, b>> \in running, <<s, b>> \in running', OnWay(s, b)
      PROVE  OnWay(s, b)'
  BY <1>2, NewestStays, IInvParts, CoreTypes
     DEF LoadScope, queueVars, historyVars, diskVars, checkoutVars, Goto, Shapes, OnWay
<1>3. ReadOnlyInWalk'
  BY IInvParts, CoreTypes DEF LoadScope, Goto, Shapes, ReadOnlyInWalk
<1>4. Settled'
  BY DEF LoadScope, Goto, Settled
<1> QED
  BY <1>1, <1>2, <1>3, <1>4, BusyStep DEF Fresh

LEMMA EndWalkFresh == ASSUME IInv, NEW s \in Servers, EndWalk(s) PROVE Fresh'
<1>1. /\ pc[s] # "idle" /\ UNCHANGED <<head, accepted, pending, raced>> /\ running' \subseteq running
      /\ \A t \in Servers \ {s} : pc'[t] = pc[t]
      /\ clashed' = clashed \/ Clash(s)
  BY DEF EndWalk, queueVars, historyVars, diskVars, checkoutVars, Goto
<1>2. ASSUME ~raced, NEW b \in Branches, <<s, b>> \in running, <<s, b>> \in running', OnWay(s, b)
      PROVE  OnWay(s, b)'
  BY <1>2, NewestStays, IInvParts, CoreTypes
     DEF EndWalk, queueVars, historyVars, diskVars, checkoutVars, Goto, Shapes, OnWay
<1>3. ReadOnlyInWalk'
  BY IInvParts, CoreTypes DEF EndWalk, Goto, Shapes, ReadOnlyInWalk
<1>4. Settled'
  BY DEF EndWalk, Goto, Settled
<1> QED
  BY <1>1, <1>2, <1>3, <1>4, BusyStep DEF Fresh

LEMMA CommitGraphFresh == ASSUME IInv, NEW s \in Servers, CommitGraph(s) PROVE Fresh'
<1>1. /\ pc[s] # "idle" /\ UNCHANGED <<head, accepted, pending, raced>> /\ running' \subseteq running
      /\ \A t \in Servers \ {s} : pc'[t] = pc[t]
      /\ clashed' = clashed \/ Clash(s)
  BY DEF CommitGraph, queueVars, historyVars, diskVars, checkoutVars, Goto
<1>2. ASSUME ~raced, NEW b \in Branches, <<s, b>> \in running, <<s, b>> \in running', OnWay(s, b)
      PROVE  OnWay(s, b)'
  BY <1>2, NewestStays, IInvParts, CoreTypes
     DEF CommitGraph, queueVars, historyVars, diskVars, checkoutVars, Goto, Shapes, OnWay
<1>3. ReadOnlyInWalk'
  BY IInvParts, CoreTypes DEF CommitGraph, Goto, Shapes, ReadOnlyInWalk
<1>4. Settled'
  BY DEF CommitGraph, Goto, Settled
<1> QED
  BY <1>1, <1>2, <1>3, <1>4, BusyStep DEF Fresh

LEMMA FinishFresh == ASSUME IInv, NEW s \in Servers, Finish(s) PROVE Fresh'
<1>1. /\ pc[s] # "idle" /\ UNCHANGED <<head, accepted, pending, raced>> /\ running' \subseteq running
      /\ \A t \in Servers \ {s} : pc'[t] = pc[t]
      /\ clashed' = clashed \/ Clash(s)
  BY DEF Finish, diskVars, checkoutVars, Goto, Ended, Mailbox!Finish
<1>2. ASSUME ~raced, NEW b \in Branches, <<s, b>> \in running, <<s, b>> \in running', OnWay(s, b)
      PROVE  OnWay(s, b)'
  BY <1>2 DEF Finish, Ended, Mailbox!Finish
<1>3. ReadOnlyInWalk'
  BY IInvParts, CoreTypes DEF Finish, Goto, Shapes, ReadOnlyInWalk
<1>4. Settled'
  <2> SUFFICES ASSUME ~raced'
               PROVE  (last.branch \in Branches /\ Shows(graph, last.branch))'
    BY DEF Settled
  <2>1. pc[s] = "crossrefs" /\ Core
    BY IInvParts DEF Finish, Goto
  <2>2. Job(s) \in Branches /\ <<s, Job(s)>> \in running
    BY <2>1, JobOf
  <2>3. Shows(graph, Job(s))
    BY <1>1, <2>1, <2>2, IInvParts DEF OnItsWay, OnWay
  <2>4. (last.branch)' = Job(s) /\ UNCHANGED graph
    BY DEF Finish, Ended
  <2>5. ASSUME NEW b \in Branches, Shows(graph, b) PROVE Shows(graph, b)'
    BY <1>1, <2>4, <2>5 DEF Shows, Newest
  <2>6. Shows(graph', Job(s))
    BY <2>3, <2>4
  <2> QED
    BY <1>1, <2>2, <2>4, <2>6 DEF Shows, Newest
<1> QED
  BY <1>1, <1>2, <1>3, <1>4, BusyStep DEF Fresh

LEMMA GiveUpFresh == ASSUME IInv, NEW s \in Servers, GiveUp(s) PROVE Fresh'
<1>1. /\ pc[s] # "idle" /\ UNCHANGED <<head, accepted, pending, raced>> /\ running' \subseteq running
      /\ \A t \in Servers \ {s} : pc'[t] = pc[t]
      /\ clashed' = clashed \/ Clash(s)
  BY DEF GiveUp, queueVars, historyVars, Torn, Inside, Writing
<1>2. ASSUME ~raced, NEW b \in Branches, <<s, b>> \in running, <<s, b>> \in running', OnWay(s, b)
      PROVE  OnWay(s, b)'
  BY IInvParts, CoreTypes DEF GiveUp, Shapes, OnWay
<1>3. ReadOnlyInWalk'
  BY IInvParts, CoreTypes DEF GiveUp, Goto, Torn, Shapes, ReadOnlyInWalk
<1>4. Settled'
  BY IInvParts, CoreTypes DEF GiveUp, Shapes, Settled
<1> QED
  BY <1>1, <1>2, <1>3, <1>4, BusyStep DEF Fresh

LEMMA AttemptFailsFresh == ASSUME IInv, NEW s \in Servers, AttemptFails(s) PROVE Fresh'
<1>1. /\ pc[s] # "idle" /\ UNCHANGED <<head, accepted, pending, raced>> /\ running' \subseteq running
      /\ \A t \in Servers \ {s} : pc'[t] = pc[t]
      /\ clashed' = clashed \/ Clash(s)
  BY DEF AttemptFails, Abort, MayFail, queueVars, historyVars, checkoutVars
<1>2. ASSUME ~raced, NEW b \in Branches, <<s, b>> \in running, <<s, b>> \in running', OnWay(s, b)
      PROVE  OnWay(s, b)'
  BY IInvParts, CoreTypes DEF AttemptFails, Shapes, OnWay
<1>3. ReadOnlyInWalk'
  BY IInvParts, CoreTypes DEF AttemptFails, Goto, Abort, Shapes, ReadOnlyInWalk
<1>4. Settled'
  BY IInvParts, CoreTypes DEF AttemptFails, Shapes, Settled
<1> QED
  BY <1>1, <1>2, <1>3, <1>4, BusyStep DEF Fresh

LEMMA SyncFailsFresh == ASSUME IInv, NEW s \in Servers, SyncFails(s) PROVE Fresh'
<1>1. /\ pc[s] # "idle" /\ UNCHANGED <<head, accepted, pending, raced>> /\ running' \subseteq running
      /\ \A t \in Servers \ {s} : pc'[t] = pc[t]
      /\ clashed' = clashed \/ Clash(s)
  BY DEF SyncFails, Abort, MayFail, checkoutVars, Ended, Mailbox!Finish
<1>2. ASSUME ~raced, NEW b \in Branches, <<s, b>> \in running, <<s, b>> \in running', OnWay(s, b)
      PROVE  OnWay(s, b)'
  BY <1>2 DEF SyncFails, Ended, Mailbox!Finish
<1>3. ReadOnlyInWalk'
  BY IInvParts, CoreTypes DEF SyncFails, Goto, Abort, Shapes, ReadOnlyInWalk
<1>4. Settled'
  BY DEF SyncFails, Goto, Settled, Ended
<1> QED
  BY <1>1, <1>2, <1>3, <1>4, BusyStep DEF Fresh

LEMMA RetryFresh == ASSUME IInv, NEW s \in Servers, Retry(s) PROVE Fresh'
<1>1. /\ pc[s] # "idle" /\ UNCHANGED <<head, accepted, pending, raced>> /\ running' \subseteq running
      /\ \A t \in Servers \ {s} : pc'[t] = pc[t]
      /\ clashed' = clashed \/ Clash(s)
  BY DEF Retry, queueVars, historyVars, diskVars, checkoutVars, Goto
<1>2. ASSUME ~raced, NEW b \in Branches, <<s, b>> \in running, <<s, b>> \in running', OnWay(s, b)
      PROVE  OnWay(s, b)'
  BY <1>2, NewestStays, IInvParts, CoreTypes
     DEF Retry, queueVars, historyVars, diskVars, checkoutVars, Goto, Shapes, OnWay
<1>3. ReadOnlyInWalk'
  BY IInvParts, CoreTypes DEF Retry, Goto, Shapes, ReadOnlyInWalk
<1>4. Settled'
  BY DEF Retry, Goto, Settled
<1> QED
  BY <1>1, <1>2, <1>3, <1>4, BusyStep DEF Fresh

LEMMA PushFresh == ASSUME IInv, NEW b \in Branches, Push(b) PROVE Fresh'
<1>1. UNCHANGED <<pending, running, pc, dest, fetched, clashed, temp, walked, graph, accepted, last, raced>>
  BY DEF Push, queueVars, diskVars, checkoutVars, cloneVars, historyVars
<1>2. \A c \in Branches : head[c] \in Nat /\ head'[c] \in Nat /\ head'[c] >= head[c]
  BY IInvParts, CoreTypes DEF Push, Shapes
<1>3. \A c \in Branches, n \in Nat : Newest(c, n) => Newest(c, n)'
  BY <1>1, <1>2 DEF Newest
<1>4. \A c \in Branches : \A tree : Shows(tree, c) => Shows(tree, c)'
  BY <1>3 DEF Shows
<1>5. dest.remote \in [Branches -> Nat] /\ \A t \in Servers : fetched[t] \in Nat
  BY IInvParts, CoreTypes
<1>6. \A s \in Servers, c \in Branches : OnWay(s, c) => OnWay(s, c)'
  BY <1>1, <1>3, <1>4, <1>5 DEF OnWay
<1> QED
  BY <1>1, <1>4, <1>6, IInvParts DEF Fresh, Alone, NoClash, ReadOnlyInWalk, OnItsWay, Settled

LEMMA DeliverFresh == ASSUME IInv, NEW s \in Servers, NEW b \in Branches, Deliver(s, b) PROVE Fresh'
<1>1. UNCHANGED <<head, running, pc, dest, fetched, clashed, temp, walked, graph, last, raced>>
  BY DEF Deliver, diskVars, checkoutVars, cloneVars, Mailbox!Submit
<1>2. pending'[s] # NoBranch
  BY IInvParts, CoreTypes, Constants DEF Deliver, Mailbox!Submit, Shapes
<1>3. \A c \in Branches, n \in Nat : Newest(c, n) => Newest(c, n)'
  BY <1>1, <1>2 DEF Newest
<1>4. \A c \in Branches : \A tree : Shows(tree, c) => Shows(tree, c)'
  BY <1>3 DEF Shows
<1>5. dest.remote \in [Branches -> Nat] /\ \A t \in Servers : fetched[t] \in Nat
  BY IInvParts, CoreTypes
<1>6. \A t \in Servers, c \in Branches : OnWay(t, c) => OnWay(t, c)'
  BY <1>1, <1>3, <1>4, <1>5 DEF OnWay
<1> QED
  BY <1>1, <1>4, <1>6, IInvParts DEF Fresh, Alone, NoClash, ReadOnlyInWalk, OnItsWay, Settled

LEMMA StartSyncFresh == ASSUME IInv, NEW s \in Servers, StartSync(s) PROVE Fresh'
<1>1. pc' = [pc EXCEPT ![s] = "lock"] /\ pc[s] = "idle" /\ raced' = (Others(s) # {})
  BY DEF StartSync, Goto
<1>2. \A t \in Servers : pc'[t] = IF t = s THEN "lock" ELSE pc[t]
  BY <1>1, IInvParts, CoreTypes DEF Shapes
<1>3. ~raced' => \A t \in Servers : t # s => pc[t] = "idle"
  BY <1>1 DEF Others
<1>4. Alone' /\ Settled'
  BY <1>2, <1>3 DEF Alone, Settled
<1>5. ReadOnlyInWalk'
  BY <1>1, <1>2, IInvParts DEF StartSync, ReadOnlyInWalk
<1>6. OnItsWay'
  BY <1>2, <1>3 DEF OnItsWay, OnWay
<1>7. NoClash'
  <2>1. \A t \in clashed : t \in Servers /\ pc[t] # "idle"
    BY IInvParts, CoreTypes DEF DiskKnown, Shapes, Writing
  <2>2. UNCHANGED clashed
    BY DEF StartSync, diskVars, checkoutVars
  <2> QED
    BY <1>1, <1>3, <2>1, <2>2 DEF NoClash
<1> QED
  BY <1>4, <1>5, <1>6, <1>7 DEF Fresh

LEMMA CrashFresh == ASSUME IInv, NEW s \in Servers, Crash(s) PROVE Fresh'
<1>1. \A t \in Servers : pc'[t] = IF t = s THEN "idle" ELSE pc[t]
  BY IInvParts, CoreTypes DEF Crash, Shapes
<1>2. ReadOnlyInWalk'
  BY IInvParts DEF Crash, Torn, ReadOnlyInWalk
<1>3. \A t \in Servers, b \in Branches : <<t, b>> \in running' => <<t, b>> \in running /\ t # s /\ pc[t] # "idle"
  BY IInvParts DEF Crash, Core, JobsMatch
<1>4. /\ Torn(s) /\ Clash(s) /\ clashed' \in SUBSET Servers
      /\ \A t \in clashed' : t # s /\ pc[t] # "idle"
  BY IInvParts, ClashWrites DEF Crash, Torn, Writing
<1>5. CASE s \in Mailbox!WithWork
  <2>1. last'.outcome = "crashed" /\ raced' = (raced \/ Others(s) # {})
    BY <1>5 DEF Crash
  <2>2. ~raced' => \A t \in Servers : pc'[t] = "idle"
    BY <1>1, <2>1 DEF Others
  <2>3. Alone' /\ Settled'
    BY <2>1, <2>2 DEF Alone, Settled
  <2>4. OnItsWay'
    BY <1>1, <1>3, <2>2 DEF OnItsWay
  <2>5. NoClash'
    BY <1>1, <1>4, <2>2 DEF NoClash
  <2> QED
    BY <1>2, <2>3, <2>4, <2>5 DEF Fresh
<1>6. CASE s \notin Mailbox!WithWork
  <2>1. pending[s] = NoBranch /\ \A b \in Branches : <<s, b>> \notin running
    BY <1>6 DEF Mailbox!WithWork, Mailbox!IsRunning
  <2>2. pc[s] = "idle"
    BY <2>1, IInvParts DEF Core, JobsMatch
  <2>3. UNCHANGED <<head, graph, accepted, dest, clashed, last, raced>>
    <3>1. pc[s] \notin Writing /\ s \notin clashed
      BY <2>2, IInvParts, CoreTypes DEF DiskKnown, Writing
    <3> QED
      BY <1>6, <3>1, IInvParts, CoreTypes DEF Crash, Torn, Clash, Shapes
  <2>4. UNCHANGED pending
    BY <2>1, IInvParts, CoreTypes DEF Crash, Shapes
  <2>5. \A t \in Servers : pc'[t] = pc[t]
    BY <1>1, <2>2
  <2>6. \A t \in Servers : t # s => temp'[t] = temp[t] /\ fetched'[t] = fetched[t] /\ walked'[t] = walked[t]
    BY <2>3, IInvParts, CoreTypes DEF Crash, Torn, Shapes
  <2>7. \A t \in Servers, b \in Branches : t # s /\ OnWay(t, b) => OnWay(t, b)'
    BY <2>3, <2>4, <2>5, <2>6 DEF OnWay, Shows, Newest
  <2>8. OnItsWay'
    BY <1>3, <2>3, <2>7, IInvParts DEF OnItsWay
  <2>9. Alone' /\ Settled'
    BY <2>3, <2>4, <2>5, IInvParts DEF Alone, Settled, Shows, Newest
  <2>10. NoClash'
    BY <2>3, IInvParts DEF NoClash
  <2> QED
    BY <1>2, <2>8, <2>9, <2>10 DEF Fresh
<1> QED
  BY <1>5, <1>6

LEMMA StutterKeeps == ASSUME IInv, UNCHANGED vars PROVE IInv'
<1>1. Core'
  BY IInvParts
     DEF vars, queueVars, diskVars, checkoutVars, cloneVars, historyVars, Core, Shapes, JobsMatch, LockHeld, DiskKnown
<1>2. Fresh'
  BY IInvParts
     DEF vars, queueVars, diskVars, checkoutVars, cloneVars, historyVars, Fresh, Alone, NoClash, ReadOnlyInWalk, OnItsWay, OnWay, Settled, Shows, Newest
<1> QED
  BY <1>1, <1>2 DEF IInv

-----------------------------------------------------------------------------
LEMMA StepKeepsCore == ASSUME Core, NEW s \in Servers, Step(s) PROVE Core'
  BY StartSyncCore, TakeLockCore, FindStaleLockCore, RemoveStaleLockCore, UnlockCore,
     BeginCloneCore, OpenExistingCore, FinishCloneCore, PromoteCore, FetchCore,
     SetRemoteRefCore, SwitchCore, ResetCore, CleanCore, LoadScopeCore, EndWalkCore,
     CommitGraphCore, FinishCore, GiveUpCore, AttemptFailsCore, SyncFailsCore, RetryCore
     DEF Step

LEMMA StepKeepsFresh == ASSUME IInv, NEW s \in Servers, Step(s) PROVE Fresh'
  BY StartSyncFresh, TakeLockFresh, FindStaleLockFresh, RemoveStaleLockFresh,
     UnlockFresh, BeginCloneFresh, OpenExistingFresh, FinishCloneFresh, PromoteFresh,
     FetchFresh, SetRemoteRefFresh, SwitchFresh, ResetFresh, CleanFresh, LoadScopeFresh,
     EndWalkFresh, CommitGraphFresh, FinishFresh, GiveUpFresh, AttemptFailsFresh,
     SyncFailsFresh, RetryFresh
     DEF Step

LEMMA Inductive == IInv /\ [Next]_vars => IInv'
<1> SUFFICES ASSUME IInv, [Next]_vars PROVE IInv'
  OBVIOUS
<1>1. Core
  BY IInvParts
<1>2. ASSUME NEW b \in Branches, Push(b) PROVE IInv'
  BY <1>1, <1>2, PushCore, PushFresh DEF IInv
<1>3. ASSUME NEW s \in Servers, NEW b \in Branches, Deliver(s, b) PROVE IInv'
  BY <1>1, <1>3, DeliverCore, DeliverFresh DEF IInv
<1>4. ASSUME NEW s \in Servers, Step(s) PROVE IInv'
  BY <1>1, <1>4, StepKeepsCore, StepKeepsFresh DEF IInv
<1>5. ASSUME NEW s \in Servers, Crash(s) PROVE IInv'
  BY <1>1, <1>5, CrashCore, CrashFresh DEF IInv
<1>6. CASE UNCHANGED vars
  BY <1>6, StutterKeeps
<1> QED
  BY <1>2, <1>3, <1>4, <1>5, <1>6 DEF Next

LEMMA Invariance == Spec => []IInv
<1>1. Init => IInv
  BY InitCore, InitFresh DEF IInv
<1> QED
  BY <1>1, Inductive, PTL DEF Spec

-----------------------------------------------------------------------------
\* The variables keep their shape, and a server works on a branch exactly while
\* a sync of its own runs, whatever is pushed, delivered, retried or lost.
THEOREM PipelineTypeCorrect == Spec => []TypeOK
<1>1. IInv => TypeOK
  <2> SUFFICES ASSUME IInv PROVE TypeOK
    OBVIOUS
  <2>1. \A b \in Branches : head[b] \in 0 .. MaxPushes[b]
    BY IInvParts, CoreTypes
  <2>2. \A s \in Servers : temp[s].tree \in Trees
    BY IInvParts, CoreTypes DEF Shapes, Checkouts
  <2>3. \A s \in Servers : pc[s] # "idle" <=> Mailbox!IsRunning(s)
    BY IInvParts DEF Core, JobsMatch, Mailbox!IsRunning
  <2> QED
    BY <2>2, <2>3, IInvParts, CoreTypes DEF Shapes, TypeOK
<1> QED
  BY <1>1, Invariance, PTL

\* The disk is accounted for after any number of crashes and failures of any
\* number of servers, two of them inside the lock at a time included: what holds a
\* repository holds a finished clone, only crashes leave directories, the file of a
\* live server is there only while it is inside, and always so before a crash.
THEOREM DiskIsAccounted == Spec => []DiskAccounted
<1>1. IInv => DiskAccounted
  <2> SUFFICES ASSUME IInv PROVE DiskAccounted
    OBVIOUS
  <2>1. \A s \in Servers : temp[s] # NoCheckout => pc[s] \in {"cloning", "cloned"}
    BY IInvParts, CoreTypes DEF DiskKnown
  <2> QED
    BY IInvParts, CoreTypes DEF DiskKnown, LockHeld, DiskAccounted
<1> QED
  BY <1>1, Invariance, PTL

\* A sync that met no other server's reads the files of one commit, whatever
\* earlier crashes and failures left in the checkout.
THEOREM WalksReadOneCommit == Spec => []WalksAreWhole
<1>1. IInv => WalksAreWhole
  <2> SUFFICES ASSUME IInv, NEW s \in Servers, walked[s] = Mixed, ~raced PROVE FALSE
    BY IInvParts, CoreTypes DEF WalksAreWhole
  <2>1. pc[s] \in {"walk", "commit"}
    BY IInvParts, Constants DEF ReadOnlyInWalk
  <2>2. Job(s) \in Branches /\ <<s, Job(s)>> \in running
    BY <2>1, IInvParts, JobOf
  <2>3. Shows(walked[s], Job(s))
    BY <2>1, <2>2, IInvParts DEF OnItsWay, OnWay
  <2> QED
    BY <2>2, <2>3, CommitIsProper DEF Shows
<1> QED
  BY <1>1, Invariance, PTL

\* When everything is quiet and the last sync ended well and alone, the graph
\* shows its branch at a commit no older than any push of it that was accepted:
\* no coalescing, delay, failure, retry or crash before leaves it behind.
THEOREM QuietIsFresh == Spec => []FreshWhenQuiet
<1>1. IInv => FreshWhenQuiet
  <2> SUFFICES ASSUME IInv, Quiet, last.outcome = "ok", ~raced
               PROVE  \E n \in 1 .. MaxPushes[last.branch] :
                         graph = <<last.branch, n>> /\ n >= accepted[last.branch]
    BY DEF FreshWhenQuiet
  <2>1. last.branch \in Branches /\ Shows(graph, last.branch)
    BY IInvParts DEF Quiet, Settled
  <2>2. PICK n \in Nat : graph = <<last.branch, n>> /\ Newest(last.branch, n)
    BY <2>1 DEF Shows
  <2>3. n \in 1 .. head[last.branch] /\ n >= accepted[last.branch]
    BY <2>2 DEF Newest, Quiet
  <2>4. n \in 1 .. MaxPushes[last.branch]
    BY <2>1, <2>3, IInvParts, CoreTypes
  <2> QED
    BY <2>2, <2>3, <2>4
<1> QED
  BY <1>1, Invariance, PTL

=============================================================================
