-------------------------- MODULE SyncQueueProofs --------------------------
(***************************************************************************)
(* Proofs about SyncQueue for any number of repositories, payloads and      *)
(* workers and any limits.                                                 *)
(***************************************************************************)
EXTENDS SyncQueueOutcomes, FiniteSetTheorems, TLAPS

-----------------------------------------------------------------------------
\* The bounded outcome bookkeeping (RecentRepos) keeps its shape under every
\* update.


Distinct(order) == \A i, j \in 1 .. Len(order) : i # j => order[i] # order[j]
Named(order) == {order[i] : i \in 1 .. Len(order)}

\* Moving a known key to the recent end permutes the order.
LEMMA TouchKnown ==
    ASSUME NEW order \in Seq(StatKeys), Distinct(order),
           NEW k \in StatKeys, \E i \in 1 .. Len(order) : order[i] = k
    PROVE  LET t == Touch(order, k) IN
           /\ t \in Seq(StatKeys)
           /\ Len(t) = Len(order)
           /\ Distinct(t)
           /\ Named(t) = Named(order)
<1> DEFINE n == Len(order)
           i == Position(order, k)
           t == Append(Without(order, i), k)
<1>1. n \in Nat /\ order \in [1 .. n -> StatKeys]
  OBVIOUS
<1>2. i \in 1 .. n /\ order[i] = k
  BY DEF Position
<1>3. /\ SubSeq(order, 1, i - 1) \in Seq(StatKeys)
      /\ Len(SubSeq(order, 1, i - 1)) = i - 1
      /\ \A j \in 1 .. i - 1 : SubSeq(order, 1, i - 1)[j] = order[j]
  BY <1>1, <1>2
<1>4. /\ SubSeq(order, i + 1, n) \in Seq(StatKeys)
      /\ Len(SubSeq(order, i + 1, n)) = n - i
      /\ \A j \in 1 .. n - i : SubSeq(order, i + 1, n)[j] = order[i + j]
  BY <1>1, <1>2
<1>5. /\ Without(order, i) \in Seq(StatKeys)
      /\ Len(Without(order, i)) = n - 1
      /\ \A j \in 1 .. n - 1 :
            Without(order, i)[j] = IF j < i THEN order[j] ELSE order[j + 1]
  <2> DEFINE a == SubSeq(order, 1, i - 1)
             b == SubSeq(order, i + 1, n)
  <2>1. Without(order, i) = a \o b
    BY DEF Without
  <2> HIDE DEF a, b, i
  <2>2. a \in Seq(StatKeys) /\ b \in Seq(StatKeys) /\ Len(a) = i - 1 /\ Len(b) = n - i
    BY <1>3, <1>4 DEF a, b
  <2>3. Len(a \o b) = n - 1 /\ a \o b \in Seq(StatKeys)
    <3>1. Len(a \o b) = Len(a) + Len(b) /\ a \o b \in Seq(StatKeys)
      BY <2>2
    <3> QED
      BY <3>1, <1>1, <1>2, <2>2
  <2>4. \A j \in 1 .. n - 1 : (a \o b)[j] = IF j < i THEN a[j] ELSE b[j - (i - 1)]
    BY <1>1, <1>2, <2>2
  <2>5. ASSUME NEW j \in 1 .. n - 1
        PROVE  (a \o b)[j] = IF j < i THEN order[j] ELSE order[j + 1]
    <3>1. CASE j < i
      <4>1. j \in 1 .. i - 1
        BY <3>1, <1>1, <1>2
      <4> QED
        BY <3>1, <4>1, <2>4, <1>3 DEF a
    <3>2. CASE ~ (j < i)
      <4>1. j - (i - 1) \in 1 .. n - i /\ i + (j - (i - 1)) = j + 1
        BY <3>2, <1>1, <1>2
      <4>2. b[j - (i - 1)] = order[i + (j - (i - 1))]
        BY <4>1, <1>4 DEF b
      <4> QED
        BY <3>2, <4>1, <4>2, <2>4
    <3> QED
      BY <3>1, <3>2
  <2> QED
    BY <2>1, <2>3, <2>5
<1>6. /\ t \in Seq(StatKeys)
      /\ Len(t) = n
      /\ \A j \in 1 .. n :
            t[j] = IF j < i THEN order[j] ELSE IF j < n THEN order[j + 1] ELSE k
  <2> DEFINE u == Without(order, i)
  <2> HIDE DEF i, u
  <2>1. /\ u \in Seq(StatKeys) /\ Len(u) = n - 1
        /\ \A j \in 1 .. n - 1 : u[j] = IF j < i THEN order[j] ELSE order[j + 1]
    BY <1>5 DEF u
  <2>2. /\ Append(u, k) \in Seq(StatKeys) /\ Len(Append(u, k)) = n
        /\ \A j \in 1 .. n - 1 : Append(u, k)[j] = u[j]
        /\ Append(u, k)[n] = k
    BY <2>1, <1>1
  <2>3. t = Append(u, k)
    BY DEF u
  <2> HIDE DEF t
  <2>4. \A j \in 1 .. n : (j \in 1 .. n - 1 /\ j < n) \/ (j = n /\ ~ (j < n) /\ ~ (j < i))
    BY <1>1, <1>2
  <2> QED
    BY <2>1, <2>2, <2>3, <2>4
<1>7. t = Touch(order, k)
  BY DEF Touch
<1>8. Distinct(t)
  <2> HIDE DEF t, i
  <2> DEFINE from(j) == IF j < i THEN j ELSE IF j < n THEN j + 1 ELSE i
  <2>1. \A j \in 1 .. n : from(j) \in 1 .. n
    BY <1>1, <1>2
  <2>2. \A j, m \in 1 .. n : j # m => from(j) # from(m)
    BY <1>1, <1>2
  <2>3. \A j \in 1 .. n : t[j] = order[from(j)]
    BY <1>1, <1>2, <1>6
  <2> HIDE DEF from
  <2>4. \A j, m \in 1 .. n : j # m => t[j] # t[m]
    BY <2>1, <2>2, <2>3 DEF Distinct
  <2> QED
    BY <2>4, <1>6 DEF Distinct
<1>9. Named(t) = Named(order)
  <2> HIDE DEF t, i
  <2>1. \A j \in 1 .. n : \E m \in 1 .. n : t[m] = order[j]
    <3>1. SUFFICES ASSUME NEW j \in 1 .. n
                   PROVE  \E m \in 1 .. n : t[m] = order[j]
      OBVIOUS
    <3>2. CASE j < i
      BY <3>2, <1>1, <1>2, <1>6
    <3>3. CASE j = i
      BY <3>3, <1>1, <1>2, <1>6
    <3>4. CASE j > i
      <4>1. j - 1 \in 1 .. n /\ t[j - 1] = order[j]
        BY <3>4, <1>1, <1>2, <1>6
      <4> QED
        BY <4>1
    <3> QED
      BY <3>2, <3>3, <3>4, <1>1, <1>2
  <2>2. \A m \in 1 .. n : \E j \in 1 .. n : t[m] = order[j]
    BY <1>1, <1>2, <1>6
  <2>3. Named(t) = {t[m] : m \in 1 .. n}
    BY <1>6 DEF Named
  <2>4. Named(order) = {order[j] : j \in 1 .. n}
    BY DEF Named
  <2>5. {t[m] : m \in 1 .. n} \subseteq {order[j] : j \in 1 .. n}
    BY <2>2, Zenon
  <2>6. {order[j] : j \in 1 .. n} \subseteq {t[m] : m \in 1 .. n}
    BY <2>1, Zenon
  <2> QED
    BY <2>3, <2>4, <2>5, <2>6, Zenon
<1> QED
  BY <1>6, <1>7, <1>8, <1>9

\* A new key joins the order; at the cap the oldest key leaves.
LEMMA TouchNew ==
    ASSUME NEW order \in Seq(StatKeys), Distinct(order),
           Len(order) <= MaxRecentRepos,
           NEW k \in StatKeys, ~ \E i \in 1 .. Len(order) : order[i] = k
    PROVE  LET t == Touch(order, k) IN
           /\ t \in Seq(StatKeys)
           /\ Len(t) <= MaxRecentRepos
           /\ Distinct(t)
           /\ k \in Named(t)
           /\ Named(t) \subseteq Named(order) \union {k}
<1> USE StatsAssumption
<1> DEFINE n == Len(order)
           a == Append(order, k)
<1>1. /\ n \in Nat
      /\ a \in Seq(StatKeys) /\ Len(a) = n + 1 /\ a # <<>>
      /\ \A j \in 1 .. n : a[j] = order[j]
      /\ a[n + 1] = k
  OBVIOUS
<1>2. CASE n < MaxRecentRepos
  <2>1. Touch(order, k) = a
    BY <1>2 DEF Touch
  <2> HIDE DEF a
  <2> QED
    BY <1>1, <1>2, <2>1 DEF Distinct, Named
<1>3. CASE ~ (n < MaxRecentRepos)
  <2>1. Touch(order, k) = Tail(a)
    BY <1>3 DEF Touch
  <2> HIDE DEF a
  <2>2. /\ Tail(a) \in Seq(StatKeys) /\ Len(Tail(a)) = n
        /\ \A j \in 1 .. n : Tail(a)[j] = a[j + 1]
    BY <1>1
  <2>3. n >= 1 /\ n <= MaxRecentRepos
    BY <1>1, <1>3
  <2>4. Distinct(Tail(a))
    BY <1>1, <2>2, <2>3 DEF Distinct
  <2>5. k \in Named(Tail(a))
    BY <1>1, <2>2, <2>3 DEF Named
  <2>6. Named(Tail(a)) \subseteq Named(order) \union {k}
    BY <1>1, <2>2, <2>3 DEF Named
  <2> QED
    BY <2>1, <2>2, <2>3, <2>4, <2>5, <2>6
<1> QED
  BY <1>2, <1>3

\* Recording an outcome keeps the bookkeeping well-typed and consistent.
THEOREM UpsertConsistent ==
    ASSUME NEW st \in Stats, Consistent(st),
           NEW k \in StatKeys, NEW outcome \in {"success", "error"}
    PROVE  /\ UpsertRepoStat(st, k, outcome) \in Stats
           /\ Consistent(UpsertRepoStat(st, k, outcome))
<1> DEFINE t == Touch(st.order, k)
           up == UpsertRepoStat(st, k, outcome)
<1>1. st.order \in Seq(StatKeys) /\ Distinct(st.order) /\ Len(st.order) <= MaxRecentRepos
  BY DEF Stats, Consistent, Distinct
<1>2. /\ t \in Seq(StatKeys)
      /\ Len(t) <= MaxRecentRepos
      /\ Distinct(t)
      /\ k \in Named(t)
      /\ Named(t) \subseteq Named(st.order) \union {k}
  <2>1. CASE \E i \in 1 .. Len(st.order) : st.order[i] = k
    <3>1. k \in Named(st.order)
      BY <2>1 DEF Named
    <3>2. t \in Seq(StatKeys) /\ Len(t) = Len(st.order) /\ Distinct(t)
          /\ Named(t) = Named(st.order)
      BY <1>1, <2>1, TouchKnown
    <3> QED
      BY <1>1, <3>1, <3>2
  <2>2. CASE ~ \E i \in 1 .. Len(st.order) : st.order[i] = k
    BY <1>1, <2>2, TouchNew
  <2> QED
    BY <2>1, <2>2
<1>3. /\ up.order = t
      /\ up.aggregate = outcome
      /\ up.failureTotal = st.failureTotal /\ up.queueFullTotal = st.queueFullTotal
      /\ up.repos = [r \in StatKeys |-> IF r = k THEN outcome
                        ELSE IF r \in Named(t) THEN st.repos[r] ELSE "none"]
      /\ up = [order |-> up.order, repos |-> up.repos, aggregate |-> up.aggregate,
               failureTotal |-> up.failureTotal, queueFullTotal |-> up.queueFullTotal]
  <2> HIDE DEF t
  <2>1. t = Touch(st.order, k)
    BY DEF t
  <2>2. up = [st EXCEPT !.order = t,
                        !.repos = [r \in StatKeys |-> IF r = k THEN outcome
                                      ELSE IF r \in Named(t) THEN st.repos[r] ELSE "none"],
                        !.aggregate = outcome]
    BY <2>1, Zenon DEF UpsertRepoStat, Named
  <2> HIDE DEF up
  <2> QED
    BY <2>2 DEF Stats
<1> HIDE DEF t, up
<1>4. up \in Stats
  BY <1>2, <1>3 DEF Stats, Outcomes
<1>5. \A r \in StatKeys : r \in Named(st.order) <=> st.repos[r] # "none"
  BY DEF Consistent, Named
<1>6. \A r \in StatKeys : r \in Named(t) <=> up.repos[r] # "none"
  BY <1>2, <1>3, <1>5
<1>7. Consistent(up)
  BY <1>2, <1>3, <1>6 DEF Consistent, Distinct, Named
<1> QED
  BY <1>4, <1>7 DEF up

-----------------------------------------------------------------------------
\* The queue.

\* A worker's locals are in scope exactly where the code uses them: it never
\* handles, releases or records without a repository, never starts a retry
\* beyond MaxAttempts, and leaves or sleeps only as the shutdown flag allows.
LocalsInScope ==
    /\ shutdown <=> drain # "idle"
    /\ \A w \in Workers :
        /\ pc[w] \in Busy \union {"recording"} =>
               repoOf[w] \in Repos /\ payloadOf[w] \in Payloads
        /\ pc[w] = "backoff" => attempt[w] < MaxAttempts
        /\ pc[w] = "waiting" => ~shutdown
        /\ pc[w] = "exited" => shutdown

\* The worker's pc and the processing map agree: the repositories of the busy
\* workers are exactly the keys of processing.
HoldersMatch ==
    /\ \A w \in Workers : pc[w] \in Busy => repoOf[w] \in processing
    /\ \A r \in processing : \E w \in Workers : pc[w] \in Busy /\ repoOf[w] = r

\* The inductive invariant: every conjunct of the safety argument leans on the
\* others, so they are preserved together.
IInv ==
    /\ TypeOK
    /\ LocalsInScope
    /\ HoldersMatch
    /\ OneSyncPerRepo
    /\ QueueIsWaitingSet
    /\ TrackedMatch
    /\ TrackedBounded
    /\ RecentBounded

-----------------------------------------------------------------------------
\* Appending adds one element to those of a sequence.
LEMMA ElementsAppend ==
    ASSUME NEW T, NEW s \in Seq(T), NEW e \in T
    PROVE  Elements(Append(s, e)) = Elements(s) \union {e}
<1>1. /\ Len(Append(s, e)) = Len(s) + 1 /\ Len(s) \in Nat
      /\ \A i \in 1 .. Len(s) : Append(s, e)[i] = s[i]
      /\ Append(s, e)[Len(s) + 1] = e
  OBVIOUS
<1> DEFINE a == Append(s, e)
           n == Len(s)
<1> HIDE DEF a
<1>2. Elements(a) \subseteq Elements(s) \union {e}
  BY <1>1 DEF Elements, a
<1>3. Elements(s) \union {e} \subseteq Elements(a)
  BY <1>1 DEF Elements, a
<1> QED
  BY <1>2, <1>3 DEF a

\* A sequence without duplicates loses exactly its head by Tail.
LEMMA ElementsTail ==
    ASSUME NEW T, NEW s \in Seq(T), s # <<>>,
           \A i, j \in 1 .. Len(s) : i # j => s[i] # s[j]
    PROVE  /\ Elements(Tail(s)) = Elements(s) \ {Head(s)}
           /\ \A i, j \in 1 .. Len(Tail(s)) : i # j => Tail(s)[i] # Tail(s)[j]
<1>1. /\ Len(s) \in Nat /\ Len(s) >= 1 /\ Head(s) = s[1]
      /\ Tail(s) \in Seq(T) /\ Len(Tail(s)) = Len(s) - 1
      /\ \A i \in 1 .. Len(s) - 1 : Tail(s)[i] = s[i + 1]
  OBVIOUS
<1> DEFINE t == Tail(s)
           n == Len(s)
<1> HIDE DEF t
<1>2. \A i \in 2 .. n : s[i] = t[i - 1] /\ i - 1 \in 1 .. Len(t)
  BY <1>1 DEF t
<1>3. Elements(t) \subseteq Elements(s) \ {Head(s)}
  BY <1>1 DEF Elements, t
<1>4. Elements(s) \ {Head(s)} \subseteq Elements(t)
  <2>1. SUFFICES ASSUME NEW i \in 1 .. n, s[i] # Head(s)
                 PROVE  s[i] \in Elements(t)
    BY DEF Elements
  <2>2. i \in 2 .. n
    BY <2>1, <1>1
  <2> QED
    BY <2>2, <1>2 DEF Elements
<1>5. \A i, j \in 1 .. Len(t) : i # j => t[i] # t[j]
  BY <1>1 DEF t
<1> QED
  BY <1>3, <1>4, <1>5 DEF t

\* cond.Signal changes nothing but, at most, one waiting worker into a woken one.
LEMMA SignalWakes ==
    ASSUME NEW pcNow \in [Workers -> WorkerStates],
           \A v \in Waiting : pcNow[v] = "waiting",
           Signal(pcNow)
    PROVE  /\ pc' \in [Workers -> WorkerStates]
           /\ \A v \in Workers :
                 \/ pc'[v] = pcNow[v]
                 \/ (pcNow[v] = "waiting" /\ pc'[v] = "get")
<1>1. "get" \in WorkerStates
  BY DEF WorkerStates
<1>2. CASE pc' = pcNow
  BY <1>2
<1>3. CASE \E w \in Waiting : pc' = [pcNow EXCEPT ![w] = "get"]
  <2>1. PICK w \in Waiting : pc' = [pcNow EXCEPT ![w] = "get"]
    BY <1>3
  <2>2. w \in Workers /\ pcNow[w] = "waiting"
    BY DEF Waiting
  <2> QED
    BY <1>1, <2>1, <2>2
<1> QED
  BY <1>2, <1>3 DEF Signal

-----------------------------------------------------------------------------
\* The constructor establishes the invariant.
LEMMA InitInv == Init => IInv
<1> SUFFICES ASSUME Init PROVE IInv
  OBVIOUS
<1> USE QueueAssumption, StatsAssumption
<1>1. NoStats \in Stats /\ Consistent(NoStats)
  BY DEF NoStats, Stats, Outcomes, Consistent
<1>2. TypeOK
  <2>0. queue \in Seq(Repos)
    BY DEF Init
  <2>1. /\ dirty \in SUBSET Repos /\ processing \in SUBSET Repos
        /\ payloads \in [Repos -> Payloads \union {NoPayload}]
        /\ shutdown \in BOOLEAN /\ cancelled \in BOOLEAN
        /\ drain \in {"idle", "waiting", "returned"}
    BY DEF Init
  <2>2. /\ pc \in [Workers -> WorkerStates]
        /\ repoOf \in [Workers -> Repos \union {NoRepo}]
        /\ payloadOf \in [Workers -> Payloads \union {NoPayload}]
        /\ attempt \in [Workers -> 0 .. MaxAttempts]
    BY DEF Init, WorkerStates
  <2>3. stats \in Stats
    BY <1>1 DEF Init
  <2> QED
    BY <2>0, <2>1, <2>2, <2>3 DEF TypeOK
<1>3. LocalsInScope /\ HoldersMatch /\ OneSyncPerRepo
  BY DEF Init, LocalsInScope, HoldersMatch, OneSyncPerRepo, Busy
<1>4. QueueIsWaitingSet
  BY DEF Init, QueueIsWaitingSet, Elements
<1>5. Tracked = {}
  BY DEF Init, Tracked
<1>6. TrackedMatch
  BY <1>5 DEF Init, TrackedMatch
<1>7. TrackedBounded
  BY <1>5, FS_EmptySet DEF TrackedBounded
<1> QED
  BY <1>1, <1>2, <1>3, <1>4, <1>6, <1>7 DEF Init, IInv, RecentBounded

\* A step that leaves the work of the queue alone and moves worker w between two
\* states of the same kind, busy or not, preserves the invariant.
LEMMA LocalStepInv ==
    ASSUME IInv, NEW w \in Workers, NEW to \in WorkerStates,
           pc' = [pc EXCEPT ![w] = to],
           pc[w] \in Busy <=> to \in Busy,
           UNCHANGED <<workVars, lifeVars, repoOf, payloadOf>>,
           TypeOK', LocalsInScope', RecentBounded'
    PROVE  IInv'
<1> USE DEF IInv
<1>1. HoldersMatch' /\ OneSyncPerRepo'
  BY DEF HoldersMatch, OneSyncPerRepo, TypeOK, workVars
<1>2. QueueIsWaitingSet' /\ TrackedMatch' /\ TrackedBounded'
  BY DEF QueueIsWaitingSet, TrackedMatch, TrackedBounded, Tracked, Elements, workVars
<1> QED
  BY <1>1, <1>2

-----------------------------------------------------------------------------
\* Add replaces the payload and enqueues the repository when nobody else will.
LEMMA AddInv ==
    ASSUME IInv, NEW r \in Repos, NEW p \in Payloads, AddAccepted(r, p)
    PROVE  IInv'
<1> USE DEF IInv
<1>1. \A w \in Waiting : pc[w] = "waiting"
  BY DEF Waiting
<1>2. /\ pc' \in [Workers -> WorkerStates]
      /\ \A v \in Workers : \/ pc'[v] = pc[v]
                            \/ (pc[v] = "waiting" /\ pc'[v] = "get")
  <2>1. CASE r \in dirty \union processing
    BY <2>1 DEF AddAccepted, TypeOK
  <2>2. CASE r \notin dirty \union processing
    <3>1. Signal(pc)
      BY <2>2 DEF AddAccepted
    <3>2. pc \in [Workers -> WorkerStates]
      BY DEF TypeOK
    <3> QED
      BY <1>1, <3>1, <3>2, SignalWakes
  <2> QED
    BY <2>1, <2>2
<1>3. \A v \in Workers : (pc'[v] \in Busy \union {"recording", "exited", "backoff"}
                             \/ pc[v] \in Busy \union {"recording", "exited", "backoff"})
                          => pc'[v] = pc[v]
  BY <1>2 DEF Busy
<1>4. TypeOK'
  <2>1. queue' \in Seq(Repos)
    <3>1. queue' = queue \/ queue' = Append(queue, r)
      BY DEF AddAccepted
    <3>2. queue \in Seq(Repos)
      BY DEF TypeOK
    <3>3. Append(queue, r) \in Seq(Repos)
      BY <3>2
    <3> QED
      BY <3>1, <3>2, <3>3
  <2>2. /\ dirty' \in SUBSET Repos
        /\ payloads' \in [Repos -> Payloads \union {NoPayload}]
    BY DEF AddAccepted, TypeOK
  <2> QED
    BY <1>2, <2>1, <2>2 DEF AddAccepted, TypeOK, lifeVars
<1>5. LocalsInScope'
  BY <1>2, <1>3 DEF AddAccepted, LocalsInScope, lifeVars, Busy
<1>6. HoldersMatch' /\ OneSyncPerRepo'
  BY <1>3 DEF AddAccepted, HoldersMatch, OneSyncPerRepo
<1>7. QueueIsWaitingSet'
  <2>1. CASE r \in dirty \union processing
    <3>1. queue' = queue /\ dirty' \ processing' = dirty \ processing
      BY <2>1 DEF AddAccepted
    <3> QED
      BY <3>1 DEF QueueIsWaitingSet, Elements
  <2>2. CASE r \notin dirty \union processing
    <3>1. /\ queue' = Append(queue, r) /\ queue \in Seq(Repos)
          /\ dirty' \ processing' = (dirty \ processing) \union {r}
      BY <2>2 DEF AddAccepted, TypeOK
    <3>2. Elements(queue') = Elements(queue) \union {r} /\ r \notin Elements(queue)
      BY <2>2, <3>1, ElementsAppend DEF QueueIsWaitingSet
    <3>3. \A i, j \in 1 .. Len(queue') : i # j => queue'[i] # queue'[j]
      BY <3>1, <3>2 DEF QueueIsWaitingSet, Elements
    <3>4. Elements(queue') = dirty' \ processing'
      BY <3>1, <3>2 DEF QueueIsWaitingSet
    <3> QED
      BY <3>3, <3>4 DEF QueueIsWaitingSet, Elements
  <2> QED
    BY <2>1, <2>2
<1>8. Tracked' = Tracked \union {r}
  BY QueueAssumption DEF AddAccepted, Tracked, TypeOK
<1>9. TrackedMatch'
  BY <1>8 DEF AddAccepted, TrackedMatch
<1>10. TrackedBounded'
  <2>1. IsFiniteSet(Tracked)
    BY QueueAssumption, FS_Subset DEF Tracked
  <2>2. CASE r \in Tracked
    <3>1. Tracked' = Tracked
      BY <1>8, <2>2
    <3> QED
      BY <3>1 DEF TrackedBounded
  <2>3. CASE r \notin Tracked
    <3>1. Cardinality(Tracked) < MaxTrackedRepos
      BY <2>3 DEF AddAccepted, HasRoom
    <3>2. Cardinality(Tracked \union {r}) = Cardinality(Tracked) + 1
      BY <2>1, <2>3, FS_AddElement
    <3>3. Cardinality(Tracked) \in Nat
      BY <2>1, FS_CardinalityType
    <3> QED
      BY <1>8, <3>1, <3>2, <3>3, QueueAssumption DEF TrackedBounded
  <2> QED
    BY <2>2, <2>3
<1>11. RecentBounded'
  BY DEF AddAccepted, RecentBounded
<1> QED
  BY <1>4, <1>5, <1>6, <1>7, <1>9, <1>10, <1>11

\* get pops the head and captures its newest payload.
LEMMA GetTakeInv ==
    ASSUME IInv, NEW w \in Workers, GetTake(w)
    PROVE  IInv'
<1> USE DEF IInv
<1> DEFINE r == Head(queue)
<1>1. r \in Repos /\ r \in Elements(queue) /\ queue \in Seq(Repos) /\ queue # <<>>
  BY DEF GetTake, TypeOK, Elements
<1>2. r \in dirty /\ r \notin processing /\ payloads[r] \in Payloads
  BY <1>1 DEF QueueIsWaitingSet, TrackedMatch, Tracked, TypeOK
<1>3. /\ queue' = Tail(queue) /\ processing' = processing \union {r}
      /\ dirty' = dirty \ {r} /\ payloads' = payloads
      /\ pc[w] = "get" /\ pc' = [pc EXCEPT ![w] = "handling"]
      /\ repoOf' = [repoOf EXCEPT ![w] = r]
      /\ payloadOf' = [payloadOf EXCEPT ![w] = payloads[r]]
      /\ attempt' = [attempt EXCEPT ![w] = 1]
      /\ UNCHANGED lifeVars /\ stats' = stats
  BY DEF GetTake
<1> HIDE DEF r
<1>4. TypeOK'
  <2>1. queue' \in Seq(Repos)
    BY <1>1, <1>3
  <2>2. pc' \in [Workers -> WorkerStates] /\ attempt' \in [Workers -> 0 .. MaxAttempts]
    BY <1>3, QueueAssumption DEF TypeOK, WorkerStates
  <2> QED
    BY <1>1, <1>2, <1>3, <2>1, <2>2 DEF TypeOK, lifeVars
<1>5. LocalsInScope'
  BY <1>1, <1>2, <1>3 DEF LocalsInScope, TypeOK, lifeVars, Busy
<1>6. HoldersMatch'
  BY <1>1, <1>2, <1>3 DEF HoldersMatch, TypeOK, Busy
<1>7. OneSyncPerRepo'
  BY <1>1, <1>2, <1>3 DEF HoldersMatch, OneSyncPerRepo, TypeOK, Busy
<1>8. QueueIsWaitingSet'
  <2>1. /\ Elements(queue') = Elements(queue) \ {r}
        /\ \A i, j \in 1 .. Len(queue') : i # j => queue'[i] # queue'[j]
    BY <1>1, <1>3, ElementsTail DEF QueueIsWaitingSet, r
  <2>2. Elements(queue') = dirty' \ processing'
    BY <1>3, <2>1 DEF QueueIsWaitingSet
  <2> QED
    BY <2>1, <2>2 DEF QueueIsWaitingSet, Elements
<1>9. Tracked' = Tracked /\ dirty' \union processing' = dirty \union processing
  BY <1>2, <1>3 DEF Tracked
<1>10. TrackedMatch' /\ TrackedBounded'
  BY <1>9 DEF TrackedMatch, TrackedBounded
<1>11. RecentBounded'
  BY <1>3 DEF RecentBounded
<1> QED
  BY <1>4, <1>5, <1>6, <1>7, <1>8, <1>10, <1>11

\* done releases the repository: it is queued again if it became dirty while it
\* was processed, and its payload is freed if it did not.
LEMMA ReleaseInv ==
    ASSUME IInv, NEW w \in Workers, NEW to \in {"get", "recording"},
           pc[w] \in Busy,
           Release(repoOf[w], [pc EXCEPT ![w] = to]),
           TypeOK', LocalsInScope',
           \A v \in Workers : v # w => repoOf'[v] = repoOf[v]
    PROVE  IInv'
<1> USE DEF IInv
<1> DEFINE r == repoOf[w]
           pcNow == [pc EXCEPT ![w] = to]
<1>1. r \in Repos /\ r \in processing
  BY DEF LocalsInScope, HoldersMatch
<1>2. /\ processing' = processing \ {r} /\ dirty' = dirty
      /\ r \in dirty => (queue' = Append(queue, r) /\ Signal(pcNow) /\ payloads' = payloads)
      /\ r \notin dirty => (queue' = queue /\ pc' = pcNow
                             /\ payloads' = [payloads EXCEPT ![r] = NoPayload])
      /\ UNCHANGED lifeVars /\ stats' = stats
  BY DEF Release
<1> HIDE DEF r
<1>3. \A v \in Workers : v # w =>
          (pc'[v] = pc[v] \/ (pc[v] = "waiting" /\ pc'[v] = "get"))
  <2>1. CASE r \in dirty
    <3>1. pcNow \in [Workers -> WorkerStates]
      BY DEF TypeOK, WorkerStates
    <3>2. \A v \in Waiting : pcNow[v] = "waiting"
      BY DEF Waiting, Busy, TypeOK
    <3>3. \A v \in Workers : \/ pc'[v] = pcNow[v]
                            \/ (pcNow[v] = "waiting" /\ pc'[v] = "get")
      <4> HIDE DEF pcNow
      <4> QED
        BY <1>2, <2>1, <3>1, <3>2, SignalWakes
    <3> QED
      BY <3>3 DEF TypeOK
  <2>2. CASE r \notin dirty
    BY <1>2, <2>2 DEF TypeOK
  <2> QED
    BY <2>1, <2>2
<1>4. pc'[w] = to
  <2>1. CASE r \in dirty
    <3>1. pcNow[w] = to /\ w \notin Waiting
      BY DEF TypeOK, Waiting, Busy
    <3> QED
      BY <1>2, <2>1, <3>1 DEF Signal, TypeOK
  <2>2. CASE r \notin dirty
    BY <1>2, <2>2 DEF TypeOK
  <2> QED
    BY <2>1, <2>2
<1>5. \A v \in Workers : /\ v # w => (pc'[v] \in Busy <=> pc[v] \in Busy)
                        /\ pc'[w] \notin Busy
  BY <1>3, <1>4 DEF Busy
<1>6. HoldersMatch'
  <2>1. ASSUME NEW v \in Workers, pc'[v] \in Busy
        PROVE  repoOf'[v] \in processing'
    <3>1. v # w /\ pc[v] \in Busy /\ repoOf'[v] = repoOf[v]
      BY <1>5, <2>1
    <3>2. repoOf[v] # r /\ repoOf[v] \in processing
      BY <3>1 DEF OneSyncPerRepo, HoldersMatch, r
    <3> QED
      BY <1>2, <3>1, <3>2
  <2>2. ASSUME NEW q \in processing'
        PROVE  \E v \in Workers : pc'[v] \in Busy /\ repoOf'[v] = q
    <3>1. q \in processing /\ q # r
      BY <1>2
    <3>2. PICK v \in Workers : pc[v] \in Busy /\ repoOf[v] = q
      BY <3>1 DEF HoldersMatch
    <3>3. v # w
      BY <3>1, <3>2 DEF r
    <3> QED
      BY <1>5, <3>2, <3>3
  <2> QED
    BY <2>1, <2>2 DEF HoldersMatch
<1>7. OneSyncPerRepo'
  BY <1>5 DEF OneSyncPerRepo
<1>8. QueueIsWaitingSet'
  <2>1. CASE r \in dirty
    <3>1. /\ queue' = Append(queue, r) /\ queue \in Seq(Repos)
          /\ dirty' \ processing' = (dirty \ processing) \union {r}
      BY <1>2, <2>1 DEF TypeOK
    <3>2. Elements(queue') = Elements(queue) \union {r} /\ r \notin Elements(queue)
      BY <1>1, <3>1, ElementsAppend DEF QueueIsWaitingSet
    <3>3. \A i, j \in 1 .. Len(queue') : i # j => queue'[i] # queue'[j]
      BY <1>1, <3>1, <3>2 DEF QueueIsWaitingSet, Elements
    <3>4. Elements(queue') = dirty' \ processing'
      BY <3>1, <3>2 DEF QueueIsWaitingSet
    <3> QED
      BY <3>3, <3>4 DEF QueueIsWaitingSet, Elements
  <2>2. CASE r \notin dirty
    <3>1. queue' = queue /\ dirty' \ processing' = dirty \ processing
      BY <1>2, <2>2
    <3> QED
      BY <3>1 DEF QueueIsWaitingSet, Elements
  <2> QED
    BY <2>1, <2>2
<1>9. TrackedMatch' /\ TrackedBounded'
  <2>1. CASE r \in dirty
    <3>1. Tracked' = Tracked /\ dirty' \union processing' = dirty \union processing
      BY <1>2, <2>1 DEF Tracked
    <3> QED
      BY <3>1 DEF TrackedMatch, TrackedBounded
  <2>2. CASE r \notin dirty
    <3>1. Tracked' = Tracked \ {r}
      BY <1>1, <1>2, <2>2 DEF Tracked, TypeOK
    <3>2. dirty' \union processing' = (dirty \union processing) \ {r}
      BY <1>2, <2>2
    <3>3. IsFiniteSet(Tracked) /\ Tracked' \subseteq Tracked
      BY <3>1, QueueAssumption, FS_Subset DEF Tracked
    <3>4. /\ Cardinality(Tracked') <= Cardinality(Tracked)
          /\ Cardinality(Tracked') \in Nat /\ Cardinality(Tracked) \in Nat
      BY <3>3, FS_Subset, FS_CardinalityType
    <3> QED
      BY <3>1, <3>2, <3>4, QueueAssumption DEF TrackedMatch, TrackedBounded
  <2> QED
    BY <2>1, <2>2
<1>10. RecentBounded'
  BY <1>2 DEF RecentBounded
<1> QED
  BY <1>6, <1>7, <1>8, <1>9, <1>10

\* Either outcome of a sync ends in a release of its repository.
LEMMA DoneInv ==
    ASSUME IInv, NEW w \in Workers, DoneFailed(w) \/ DoneSucceeded(w)
    PROVE  IInv'
<1> USE DEF IInv
<1> DEFINE to == IF pc[w] = "failed" THEN "get" ELSE "recording"
           r == repoOf[w]
<1>1. /\ pc[w] \in {"failed", "succeeded"}
      /\ Release(r, [pc EXCEPT ![w] = to])
      /\ Forget(w) \/ (pc[w] = "succeeded" /\ UNCHANGED <<repoOf, payloadOf, attempt>>)
  BY DEF DoneFailed, DoneSucceeded
<1>2. to \in {"get", "recording"} /\ pc[w] \in Busy /\ r \in Repos
  BY <1>1 DEF Busy, LocalsInScope
<1>3. \A v \in Workers : v # w =>
          (repoOf'[v] = repoOf[v] /\ payloadOf'[v] = payloadOf[v] /\ attempt'[v] = attempt[v])
  BY <1>1 DEF Forget, TypeOK
<1>4. /\ repoOf' \in [Workers -> Repos \union {NoRepo}]
      /\ payloadOf' \in [Workers -> Payloads \union {NoPayload}]
      /\ attempt' \in [Workers -> 0 .. MaxAttempts]
  <2>1. CASE Forget(w)
    BY <2>1, QueueAssumption DEF Forget, TypeOK
  <2>2. CASE UNCHANGED <<repoOf, payloadOf, attempt>>
    BY <2>2 DEF TypeOK
  <2> QED
    BY <1>1, <2>1, <2>2
<1>5. /\ pc' \in [Workers -> WorkerStates]
      /\ pc'[w] = to
      /\ \A v \in Workers : v # w =>
            (pc'[v] = pc[v] \/ (pc[v] = "waiting" /\ pc'[v] = "get"))
  <2> DEFINE pcNow == [pc EXCEPT ![w] = to]
  <2>1. pcNow \in [Workers -> WorkerStates] /\ pcNow[w] = to
    BY <1>2 DEF TypeOK, WorkerStates
  <2>2. \A v \in Waiting : pcNow[v] = "waiting"
    BY <1>2 DEF Waiting, Busy, TypeOK
  <2>3. pc' = pcNow \/ Signal(pcNow)
    BY <1>1 DEF Release
  <2>4. to # "waiting"
    BY <1>2
  <2>5. \A v \in Workers : v # w => pcNow[v] = pc[v]
    BY DEF TypeOK
  <2> HIDE DEF pcNow
  <2> QED
    BY <2>1, <2>2, <2>3, <2>4, <2>5, SignalWakes
<1>6. TypeOK'
  <2>1. queue' \in Seq(Repos)
    <3>1. queue' = queue \/ queue' = Append(queue, r)
      BY <1>1 DEF Release
    <3>2. queue \in Seq(Repos)
      BY DEF TypeOK
    <3>3. Append(queue, r) \in Seq(Repos)
      <4> HIDE DEF r
      <4> QED
        BY <1>2, <3>2
    <3> QED
      BY <3>1, <3>2, <3>3
  <2>2. /\ payloads' \in [Repos -> Payloads \union {NoPayload}]
        /\ dirty' \in SUBSET Repos /\ processing' \in SUBSET Repos
        /\ UNCHANGED <<shutdown, cancelled, drain, stats>>
    BY <1>1, <1>2 DEF Release, TypeOK, lifeVars
  <2> QED
    BY <1>4, <1>5, <2>1, <2>2 DEF TypeOK
<1>7. LocalsInScope'
  <2>1. UNCHANGED <<shutdown, drain>>
    BY <1>1 DEF Release, lifeVars
  <2>2. pc'[w] = "recording" => (repoOf'[w] \in Repos /\ payloadOf'[w] \in Payloads)
    <3>1. ASSUME pc'[w] = "recording"
          PROVE  UNCHANGED <<repoOf, payloadOf>>
      <4>1. pc[w] = "succeeded"
        BY <1>5, <3>1, <1>1
      <4> QED
        BY <4>1 DEF DoneFailed, DoneSucceeded
    <3>2. repoOf[w] \in Repos /\ payloadOf[w] \in Payloads
      BY <1>2 DEF LocalsInScope
    <3> QED
      BY <3>1, <3>2
  <2>3. pc'[w] \in {"get", "recording"}
    BY <1>2, <1>5
  <2> QED
    BY <1>3, <1>5, <2>1, <2>2, <2>3 DEF LocalsInScope, Busy
<1> HIDE DEF to
<1> QED
  BY <1>1, <1>2, <1>3, <1>6, <1>7, ReleaseInv

\* The bookkeeping of outcomes stays well-formed whatever is recorded.
LEMMA RecordInv ==
    ASSUME stats \in Stats, Consistent(stats), NEW k \in StatKeys
    PROVE  /\ RecordFailureIn(stats, k) \in Stats /\ Consistent(RecordFailureIn(stats, k))
           /\ RecordSuccessIn(stats, k) \in Stats /\ Consistent(RecordSuccessIn(stats, k))
           /\ RecordQueueFullIn(stats) \in Stats /\ Consistent(RecordQueueFullIn(stats))
<1>1. \A n \in 0 .. StatCap : Increment(n) \in 0 .. StatCap
  BY StatsAssumption DEF Increment
<1>2. ASSUME NEW st \in Stats, Consistent(st)
      PROVE  LET one == [st EXCEPT !.failureTotal = Increment(@)]
                 two == [st EXCEPT !.queueFullTotal = Increment(@)]
             IN one \in Stats /\ Consistent(one) /\ two \in Stats /\ Consistent(two)
  BY <1>1, <1>2 DEF Stats, Consistent
<1>3. \A o \in {"success", "error"} : /\ UpsertRepoStat(stats, k, o) \in Stats
                                     /\ Consistent(UpsertRepoStat(stats, k, o))
  BY UpsertConsistent
<1> QED
  BY <1>2, <1>3 DEF RecordFailureIn, RecordSuccessIn, RecordQueueFullIn

\* Every step of a worker preserves the invariant.
LEMMA WorkerStepInv ==
    ASSUME IInv, NEW w \in Workers, WorkerStep(w)
    PROVE  IInv'
<1> USE DEF IInv
<1>1. CASE GetTake(w)
  BY <1>1, GetTakeInv
<1>2. CASE DoneFailed(w) \/ DoneSucceeded(w)
  BY <1>2, DoneInv
<1>3. CASE GetWait(w)
  <2>1. pc[w] = "get" /\ pc' = [pc EXCEPT ![w] = "waiting"] /\ ~shutdown
        /\ UNCHANGED <<workVars, lifeVars, repoOf, payloadOf, attempt, stats>>
    BY <1>3 DEF GetWait
  <2>2. TypeOK' /\ LocalsInScope' /\ RecentBounded'
    BY <2>1 DEF TypeOK, LocalsInScope, RecentBounded, WorkerStates, Busy, workVars, lifeVars
  <2> QED
    BY <2>1, <2>2, LocalStepInv DEF WorkerStates, Busy
<1>4. CASE GetExit(w)
  <2>1. pc[w] = "get" /\ pc' = [pc EXCEPT ![w] = "exited"] /\ shutdown
        /\ UNCHANGED <<workVars, lifeVars, repoOf, payloadOf, attempt, stats>>
    BY <1>4 DEF GetExit
  <2>2. TypeOK' /\ LocalsInScope' /\ RecentBounded'
    BY <2>1 DEF TypeOK, LocalsInScope, RecentBounded, WorkerStates, Busy, workVars, lifeVars
  <2> QED
    BY <2>1, <2>2, LocalStepInv DEF WorkerStates, Busy
<1>5. CASE HandleOk(w)
  <2>1. pc[w] = "handling" /\ pc' = [pc EXCEPT ![w] = "succeeded"]
        /\ UNCHANGED <<workVars, lifeVars, repoOf, payloadOf, attempt, stats>>
    BY <1>5 DEF HandleOk, Goto
  <2>2. TypeOK' /\ LocalsInScope' /\ RecentBounded'
    BY <2>1 DEF TypeOK, LocalsInScope, RecentBounded, WorkerStates, Busy, workVars, lifeVars
  <2> QED
    BY <2>1, <2>2, LocalStepInv DEF WorkerStates, Busy
<1>6. CASE HandleFinalError(w)
  <2>1. pc[w] = "handling" /\ pc' = [pc EXCEPT ![w] = "giveup"]
        /\ UNCHANGED <<workVars, lifeVars, repoOf, payloadOf, attempt, stats>>
    BY <1>6 DEF HandleFinalError, Goto
  <2>2. TypeOK' /\ LocalsInScope' /\ RecentBounded'
    BY <2>1 DEF TypeOK, LocalsInScope, RecentBounded, WorkerStates, Busy, workVars, lifeVars
  <2> QED
    BY <2>1, <2>2, LocalStepInv DEF WorkerStates, Busy
<1>7. CASE HandleRetryableError(w)
  <2>1. pc[w] = "handling" /\ pc' = [pc EXCEPT ![w] = "backoff"] /\ attempt[w] < MaxAttempts
        /\ UNCHANGED <<workVars, lifeVars, repoOf, payloadOf, attempt, stats>>
    BY <1>7 DEF HandleRetryableError, Goto
  <2>2. TypeOK' /\ LocalsInScope' /\ RecentBounded'
    BY <2>1 DEF TypeOK, LocalsInScope, RecentBounded, WorkerStates, Busy, workVars, lifeVars
  <2> QED
    BY <2>1, <2>2, LocalStepInv DEF WorkerStates, Busy
<1>8. CASE BackoffElapsed(w)
  <2>1. pc[w] = "backoff" /\ pc' = [pc EXCEPT ![w] = "handling"]
        /\ attempt' = [attempt EXCEPT ![w] = attempt[w] + 1]
        /\ UNCHANGED <<workVars, lifeVars, repoOf, payloadOf, stats>>
    BY <1>8 DEF BackoffElapsed, Goto
  <2>2. attempt' \in [Workers -> 0 .. MaxAttempts]
    <3>1. attempt[w] + 1 \in 0 .. MaxAttempts
      BY <2>1, QueueAssumption DEF TypeOK, LocalsInScope
    <3> QED
      BY <2>1, <3>1 DEF TypeOK
  <2>3. TypeOK' /\ LocalsInScope' /\ RecentBounded'
    BY <2>1, <2>2 DEF TypeOK, LocalsInScope, RecentBounded, WorkerStates, Busy, workVars, lifeVars
  <2> QED
    BY <2>1, <2>3, LocalStepInv DEF WorkerStates, Busy
<1>9. CASE BackoffCancelled(w)
  <2>1. pc[w] = "backoff" /\ pc' = [pc EXCEPT ![w] = "failed"]
        /\ UNCHANGED <<workVars, lifeVars, repoOf, payloadOf, attempt, stats>>
    BY <1>9 DEF BackoffCancelled, Goto
  <2>2. TypeOK' /\ LocalsInScope' /\ RecentBounded'
    BY <2>1 DEF TypeOK, LocalsInScope, RecentBounded, WorkerStates, Busy, workVars, lifeVars
  <2> QED
    BY <2>1, <2>2, LocalStepInv DEF WorkerStates, Busy
<1>10. CASE RecordFailure(w)
  <2>1. pc[w] = "giveup" /\ pc' = [pc EXCEPT ![w] = "failed"]
        /\ stats' = RecordFailureIn(stats, repoOf[w])
        /\ UNCHANGED <<workVars, lifeVars, repoOf, payloadOf, attempt>>
    BY <1>10 DEF RecordFailure, Goto
  <2>2. stats' \in Stats /\ RecentBounded'
    BY <2>1, RecordInv, QueueAssumption DEF TypeOK, RecentBounded, LocalsInScope, Busy
  <2>3. TypeOK' /\ LocalsInScope'
    BY <2>1, <2>2 DEF TypeOK, LocalsInScope, WorkerStates, Busy, workVars, lifeVars
  <2> QED
    BY <2>1, <2>2, <2>3, LocalStepInv DEF WorkerStates, Busy
<1>11. CASE RecordSuccess(w)
  <2>1. pc[w] = "recording" /\ pc' = [pc EXCEPT ![w] = "get"]
        /\ stats' = RecordSuccessIn(stats, repoOf[w])
        /\ repoOf' = [repoOf EXCEPT ![w] = NoRepo]
        /\ payloadOf' = [payloadOf EXCEPT ![w] = NoPayload]
        /\ attempt' = [attempt EXCEPT ![w] = 0]
        /\ UNCHANGED <<workVars, lifeVars>>
    BY <1>11 DEF RecordSuccess, Goto, Forget
  <2>2. stats' \in Stats /\ RecentBounded'
    BY <2>1, RecordInv, QueueAssumption DEF TypeOK, RecentBounded, LocalsInScope, Busy
  <2>3. TypeOK'
    BY <2>1, <2>2, QueueAssumption DEF TypeOK, WorkerStates, workVars, lifeVars
  <2>4. LocalsInScope'
    BY <2>1 DEF TypeOK, LocalsInScope, Busy, lifeVars
  <2>5. \A v \in Workers :
          /\ pc'[v] \in Busy <=> pc[v] \in Busy
          /\ pc[v] \in Busy => repoOf'[v] = repoOf[v]
    BY <2>1 DEF TypeOK, Busy
  <2>6. HoldersMatch' /\ OneSyncPerRepo'
    BY <2>1, <2>5 DEF HoldersMatch, OneSyncPerRepo, workVars
  <2>7. QueueIsWaitingSet' /\ TrackedMatch' /\ TrackedBounded'
    BY <2>1 DEF QueueIsWaitingSet, TrackedMatch, TrackedBounded, Tracked, Elements, workVars
  <2> QED
    BY <2>2, <2>3, <2>4, <2>6, <2>7
<1> QED
  BY <1>1, <1>2, <1>3, <1>4, <1>5, <1>6, <1>7, <1>8, <1>9, <1>10, <1>11 DEF WorkerStep

\* Refusals and the lifecycle calls leave the work of the queue alone.
LEMMA LifecycleInv ==
    ASSUME IInv,
           \/ \E r \in Repos : AddRejectedFull(r)
           \/ Cancel \/ ShutdownBegin \/ ShutdownDrained \/ ShutdownTimeout
           \/ Stopped \/ UNCHANGED vars
    PROVE  IInv'
<1> USE DEF IInv
<1>1. UNCHANGED <<workVars, repoOf, payloadOf, attempt>>
  BY DEF AddRejectedFull, Cancel, ShutdownBegin, ShutdownDrained, ShutdownTimeout, Stopped,
         vars, workVars, workerVars
<1>2. stats' \in Stats /\ RecentBounded'
  <2>1. \/ stats' = stats
        \/ stats' = RecordQueueFullIn(stats)
        \/ stats' = RecordFailureIn(stats, ShutdownKey)
    BY DEF AddRejectedFull, Cancel, ShutdownBegin, ShutdownDrained, ShutdownTimeout, Stopped, vars
  <2> QED
    BY <2>1, RecordInv, QueueAssumption DEF TypeOK, RecentBounded
<1>3. CASE ShutdownBegin
  <2>1. /\ drain = "idle" /\ shutdown' = TRUE /\ drain' = "waiting" /\ cancelled' = cancelled
        /\ pc' = [w \in Workers |-> IF pc[w] = "waiting" THEN "get" ELSE pc[w]]
    BY <1>3 DEF ShutdownBegin
  <2>2. TypeOK'
    BY <1>1, <1>2, <2>1 DEF TypeOK, WorkerStates, workVars
  <2>3. LocalsInScope'
    BY <1>1, <2>1 DEF LocalsInScope, Busy
  <2>4. \A v \in Workers : pc'[v] \in Busy <=> pc[v] \in Busy
    BY <2>1 DEF Busy
  <2>5. HoldersMatch' /\ OneSyncPerRepo'
    BY <1>1, <2>4 DEF HoldersMatch, OneSyncPerRepo, workVars
  <2>6. QueueIsWaitingSet' /\ TrackedMatch' /\ TrackedBounded'
    BY <1>1 DEF QueueIsWaitingSet, TrackedMatch, TrackedBounded, Tracked, Elements, workVars
  <2> QED
    BY <1>2, <2>2, <2>3, <2>5, <2>6
<1>4. CASE ~ShutdownBegin
  <2>1. /\ pc' = pc /\ shutdown' = shutdown
        /\ \/ drain' = drain
           \/ (drain = "waiting" /\ drain' = "returned")
        /\ cancelled' \in BOOLEAN
    BY <1>4 DEF AddRejectedFull, Cancel, ShutdownDrained, ShutdownTimeout, Stopped,
                vars, lifeVars, workerVars, TypeOK
  <2>2. TypeOK' /\ LocalsInScope'
    BY <1>1, <1>2, <2>1 DEF TypeOK, LocalsInScope, workVars
  <2>3. HoldersMatch' /\ OneSyncPerRepo'
    BY <1>1, <2>1 DEF HoldersMatch, OneSyncPerRepo, workVars
  <2>4. QueueIsWaitingSet' /\ TrackedMatch' /\ TrackedBounded'
    BY <1>1 DEF QueueIsWaitingSet, TrackedMatch, TrackedBounded, Tracked, Elements, workVars
  <2> QED
    BY <1>2, <2>2, <2>3, <2>4
<1> QED
  BY <1>3, <1>4

\* The invariant is inductive.
LEMMA NextInv == IInv /\ [Next]_vars => IInv'
<1> SUFFICES ASSUME IInv, [Next]_vars PROVE IInv'
  OBVIOUS
<1>1. ASSUME NEW r \in Repos, NEW p \in Payloads, AddAccepted(r, p)
      PROVE  IInv'
  BY <1>1, AddInv
<1>2. ASSUME NEW w \in Workers, WorkerStep(w)
      PROVE  IInv'
  BY <1>2, WorkerStepInv
<1> QED
  BY <1>1, <1>2, LifecycleInv DEF Next, OtherStep

\* Every reachable state of the queue satisfies the invariant.
LEMMA SpecInv == Spec => []IInv
BY InitInv, NextInv, PTL DEF Spec

\* Every variable of the queue keeps its type.
THEOREM TypeCorrect == Spec => []TypeOK
<1>1. IInv => TypeOK
  BY DEF IInv
<1> QED
  BY <1>1, SpecInv, PTL

\* No repository is ever synced by two workers at the same time.
THEOREM MutualExclusion == Spec => []OneSyncPerRepo
<1>1. IInv => OneSyncPerRepo
  BY DEF IInv
<1> QED
  BY <1>1, SpecInv, PTL

\* The FIFO holds each waiting repository exactly once and nothing else.
THEOREM QueueExact == Spec => []QueueIsWaitingSet
<1>1. IInv => QueueIsWaitingSet
  BY DEF IInv
<1> QED
  BY <1>1, SpecInv, PTL

\* The tracked repositories are those with live work, and never too many.
THEOREM TrackedExact == Spec => []TrackedIsLiveWork
<1>1. IInv => TrackedIsLiveWork
  BY DEF IInv, TrackedIsLiveWork
<1> QED
  BY <1>1, SpecInv, PTL

\* The recent-repository bookkeeping is bounded and consistent.
THEOREM RecentExact == Spec => []RecentBounded
<1>1. IInv => RecentBounded
  BY DEF IInv
<1> QED
  BY <1>1, SpecInv, PTL

\* The FIFO, the payload map and the recent list always agree with the work there is.
THEOREM QueueBooksExact == Spec => []QueueAccounted
BY QueueExact, TrackedExact, RecentExact, PTL DEF QueueAccounted

-----------------------------------------------------------------------------
\* Shutdown

\* Nobody sleeps once the queue is shut down, and the last worker to leave finds
\* an empty queue, so by the invariant no dirty or processed repository is left.
THEOREM DrainComplete == Spec => []ShutdownLeavesNoWork
<1>1. IInv => (shutdown => Waiting = {})
  BY DEF IInv, LocalsInScope, Waiting
<1> DEFINE AllExited == \A w \in Workers : pc[w] = "exited"
           Left == AllExited => (dirty = {} /\ processing = {})
<1>2. Init => Left
  BY DEF Init
<1>3. IInv /\ Left /\ [Next]_vars => Left'
  <2> SUFFICES ASSUME IInv, Left, [Next]_vars, AllExited'
               PROVE  dirty' = {} /\ processing' = {}
    OBVIOUS
  <2>1. CASE AllExited
    <3>1. \A w \in Workers : ~WorkerStep(w)
      BY <2>1 DEF WorkerStep, GetTake, GetWait, GetExit, HandleOk, HandleFinalError,
                  HandleRetryableError, BackoffElapsed, BackoffCancelled, RecordFailure,
                  DoneFailed, DoneSucceeded, RecordSuccess, Goto
    <3>2. shutdown
      BY <2>1, QueueAssumption DEF IInv, LocalsInScope
    <3>3. UNCHANGED <<dirty, processing>>
      BY <3>1, <3>2 DEF Next, OtherStep, AddAccepted, AddRejectedFull, Cancel, ShutdownBegin,
                        ShutdownDrained, ShutdownTimeout, Stopped, vars, workVars
    <3> QED
      BY <2>1, <3>3
  <2>2. CASE ~AllExited
    <3>1. PICK w \in Workers : pc[w] # "exited" /\ pc'[w] = "exited"
      BY <2>2
    <3>2. GetExit(w)
      <4>1. pc \in [Workers -> WorkerStates]
        BY DEF IInv, TypeOK
      <4>2. ASSUME NEW r \in Repos, NEW p \in Payloads, AddAccepted(r, p)
            PROVE  FALSE
        BY <3>1, <4>1, <4>2 DEF AddAccepted, Signal, Waiting
      <4>3. ASSUME \/ \E r \in Repos : AddRejectedFull(r)
                   \/ Cancel \/ ShutdownBegin \/ ShutdownDrained \/ ShutdownTimeout
                   \/ Stopped \/ UNCHANGED vars
            PROVE  FALSE
        BY <3>1, <4>1, <4>3 DEF AddRejectedFull, Cancel, ShutdownBegin, ShutdownDrained,
                                ShutdownTimeout, Stopped, vars, workerVars
      <4>4. ASSUME NEW v \in Workers, WorkerStep(v), ~GetExit(v)
            PROVE  FALSE
        <5>1. CASE DoneFailed(v) \/ DoneSucceeded(v)
          BY <3>1, <4>1, <5>1 DEF DoneFailed, DoneSucceeded, Release, Signal, Waiting
        <5>2. CASE ~(DoneFailed(v) \/ DoneSucceeded(v))
          BY <3>1, <4>1, <4>4, <5>2
             DEF WorkerStep, GetTake, GetWait, HandleOk, HandleFinalError,
                 HandleRetryableError, BackoffElapsed, BackoffCancelled, RecordFailure,
                 RecordSuccess, Goto
        <5> QED
          BY <5>1, <5>2
      <4>5. PICK v \in Workers : GetExit(v)
        BY <4>2, <4>3, <4>4 DEF Next, OtherStep
      <4>6. v = w
        BY <3>1, <4>1, <4>5 DEF GetExit
      <4> QED
        BY <4>5, <4>6
    <3>3. queue = <<>> /\ UNCHANGED <<dirty, processing>>
      BY <3>2 DEF GetExit, workVars
    <3>4. \A v \in Workers : pc[v] \notin Busy
      BY <3>2 DEF GetExit, IInv, TypeOK, Busy
    <3>5. processing = {}
      BY <3>4 DEF IInv, HoldersMatch
    <3>6. Elements(queue) = {}
      BY <3>3 DEF Elements
    <3> QED
      BY <3>3, <3>5, <3>6 DEF IInv, QueueIsWaitingSet
  <2> QED
    BY <2>1, <2>2
<1>4. Spec => []Left
  BY <1>2, <1>3, SpecInv, PTL DEF Spec
<1> QED
  BY <1>1, <1>4, SpecInv, PTL DEF ShutdownLeavesNoWork

-----------------------------------------------------------------------------
\* Wakeups

Awake == {w \in Workers : pc[w] = "get"}

\* What Signal does to the woken and the sleeping workers: if anyone slept,
\* one more worker is awake than the rest of the critical section leaves.
LEMMA SignalCounts ==
    ASSUME TypeOK, NEW w \in Workers, NEW to \in {"get", "recording"}, pc[w] \in Busy,
           Waiting # {},
           Signal([pc EXCEPT ![w] = to])
    PROVE  /\ Cardinality(Awake') >= Cardinality(Awake) + 1
           /\ Cardinality(Awake) \in Nat /\ Cardinality(Awake') \in Nat
<1>1. PICK v \in Waiting : pc' = [[pc EXCEPT ![w] = to] EXCEPT ![v] = "get"]
  BY DEF Signal
<1>2. v \in Workers /\ v # w /\ v \notin Awake
  BY DEF Waiting, Busy, Awake
<1>3. Awake \union {v} \subseteq Awake'
  BY <1>1, <1>2 DEF Awake, TypeOK, Busy
<1>4. IsFiniteSet(Awake) /\ IsFiniteSet(Awake')
  BY QueueAssumption, FS_Subset DEF Awake
<1>5. Cardinality(Awake \union {v}) = Cardinality(Awake) + 1 /\ IsFiniteSet(Awake \union {v})
  BY <1>2, <1>4, FS_AddElement
<1>6. /\ Cardinality(Awake \union {v}) <= Cardinality(Awake')
      /\ Cardinality(Awake) \in Nat /\ Cardinality(Awake') \in Nat
  BY <1>3, <1>4, FS_Subset, FS_CardinalityType
<1> QED
  BY <1>5, <1>6

\* Steps of a worker keep enough workers awake for the queue.
LEMMA WorkerStepWakeup ==
    ASSUME IInv, NoLostWakeup, NEW w \in Workers, WorkerStep(w)
    PROVE  NoLostWakeup'
<1> USE DEF IInv
<1>1. /\ IsFiniteSet(Awake) /\ IsFiniteSet(Awake')
      /\ Cardinality(Awake) \in Nat /\ Cardinality(Awake') \in Nat
  BY QueueAssumption, FS_Subset, FS_CardinalityType DEF Awake
<1>2. Waiting # {} => Len(queue) <= Cardinality(Awake)
  BY DEF NoLostWakeup, Awake
<1>3. SUFFICES ASSUME Waiting' # {}
               PROVE  Len(queue') <= Cardinality(Awake')
  BY DEF NoLostWakeup, Awake
<1>4. Len(queue) \in Nat /\ queue \in Seq(Repos)
  BY DEF TypeOK
<1>5. CASE GetTake(w)
  <2>1. Waiting' = Waiting /\ Awake' = Awake \ {w} /\ w \in Awake
    BY <1>5 DEF GetTake, Waiting, Awake, TypeOK
  <2>2. Cardinality(Awake') = Cardinality(Awake) - 1
    BY <1>1, <2>1, FS_RemoveElement
  <2>3. Len(queue') = Len(queue) - 1
    BY <1>4, <1>5 DEF GetTake
  <2> QED
    BY <1>1, <1>2, <1>3, <1>4, <2>1, <2>2, <2>3
<1>6. CASE GetWait(w) \/ GetExit(w)
  <2>1. Len(queue') = 0
    BY <1>6 DEF GetWait, GetExit, workVars
  <2> QED
    BY <1>1, <2>1
<1>7. CASE HandleOk(w) \/ HandleFinalError(w) \/ HandleRetryableError(w)
           \/ BackoffElapsed(w) \/ BackoffCancelled(w) \/ RecordFailure(w)
  <2>1. Waiting' = Waiting /\ Awake' = Awake /\ queue' = queue
    BY <1>7 DEF HandleOk, HandleFinalError, HandleRetryableError, BackoffElapsed,
                BackoffCancelled, RecordFailure, Goto, Waiting, Awake, TypeOK, workVars
  <2> QED
    BY <1>2, <1>3, <2>1
<1>8. CASE RecordSuccess(w)
  <2>1. Waiting' = Waiting /\ Awake \subseteq Awake' /\ queue' = queue
    BY <1>8 DEF RecordSuccess, Goto, Waiting, Awake, TypeOK, workVars
  <2>2. Cardinality(Awake) <= Cardinality(Awake')
    BY <1>1, <2>1, FS_Subset
  <2> QED
    BY <1>1, <1>2, <1>3, <1>4, <2>1, <2>2
<1>9. CASE DoneFailed(w) \/ DoneSucceeded(w)
  <2> DEFINE r == repoOf[w]
             to == IF pc[w] = "failed" THEN "get" ELSE "recording"
             pcNow == [pc EXCEPT ![w] = to]
  <2>1. pc[w] \in Busy /\ to \in {"get", "recording"} /\ Release(r, pcNow) /\ r \in Repos
    BY <1>9 DEF DoneFailed, DoneSucceeded, Busy, LocalsInScope
  <2>2. CASE r \in dirty
    <3>1. Signal(pcNow) /\ queue' = Append(queue, r)
      BY <2>1, <2>2 DEF Release
    <3>2. Waiting # {}
      <4>1. CASE Waiting = {}
        <5>1. pc' = pcNow
          BY <3>1, <4>1 DEF Signal
        <5>2. Waiting' = {}
          BY <2>1, <4>1, <5>1 DEF Waiting, TypeOK, Busy
        <5> QED
          BY <1>3, <5>2
      <4> QED
        BY <4>1
    <3>3. Cardinality(Awake') >= Cardinality(Awake) + 1
      <4> HIDE DEF to
      <4> QED
        BY <2>1, <3>1, <3>2, SignalCounts
    <3>4. Len(queue') = Len(queue) + 1
      <4> HIDE DEF r
      <4> QED
        BY <1>4, <2>1, <3>1
    <3> QED
      BY <1>1, <1>2, <1>4, <3>2, <3>3, <3>4
  <2>3. CASE r \notin dirty
    <3>1. pc' = pcNow /\ queue' = queue
      BY <2>1, <2>3 DEF Release
    <3>2. Waiting' = Waiting /\ Awake \subseteq Awake'
      BY <2>1, <3>1 DEF Waiting, Awake, TypeOK, Busy
    <3>3. Cardinality(Awake) <= Cardinality(Awake')
      BY <1>1, <3>2, FS_Subset
    <3> QED
      BY <1>1, <1>2, <1>3, <1>4, <3>1, <3>2, <3>3
  <2> QED
    BY <2>2, <2>3
<1> QED
  BY <1>5, <1>6, <1>7, <1>8, <1>9 DEF WorkerStep

\* An accepted push keeps enough workers awake for the queue.
LEMMA AddWakeup ==
    ASSUME IInv, NoLostWakeup, NEW r \in Repos, NEW p \in Payloads, AddAccepted(r, p)
    PROVE  NoLostWakeup'
<1>1. CASE r \in dirty \union processing
  BY <1>1 DEF AddAccepted, NoLostWakeup, Waiting
<1>2. CASE r \notin dirty \union processing
  <2>1. Signal(pc) /\ queue' = Append(queue, r) /\ Len(queue') = Len(queue) + 1
        /\ Len(queue) \in Nat
    BY <1>2 DEF AddAccepted, IInv, TypeOK
  <2>2. CASE Waiting = {}
    BY <2>1, <2>2 DEF Signal, NoLostWakeup, Waiting
  <2>3. CASE Waiting # {}
    <3>1. PICK v \in Waiting : pc' = [pc EXCEPT ![v] = "get"]
      BY <2>1, <2>3 DEF Signal
    <3>2. v \in Workers /\ v \notin Awake /\ Awake' = Awake \union {v}
      BY <3>1 DEF Waiting, Awake, IInv, TypeOK
    <3>3. IsFiniteSet(Awake)
      BY QueueAssumption, FS_Subset DEF Awake
    <3>4. Cardinality(Awake') = Cardinality(Awake) + 1 /\ Cardinality(Awake) \in Nat
      BY <3>2, <3>3, FS_AddElement, FS_CardinalityType
    <3> QED
      BY <2>1, <2>3, <3>4 DEF NoLostWakeup, Awake
  <2> QED
    BY <2>2, <2>3
<1> QED
  BY <1>1, <1>2

\* No lost wakeup: while a worker sleeps, every queued repository has a woken
\* worker of its own.
THEOREM WakeupPerQueuedRepo == Spec => []NoLostWakeup
<1>1. Init => NoLostWakeup
  BY DEF Init, NoLostWakeup, Waiting
<1>2. IInv /\ NoLostWakeup /\ [Next]_vars => NoLostWakeup'
  <2> SUFFICES ASSUME IInv, NoLostWakeup, [Next]_vars
               PROVE  NoLostWakeup'
    OBVIOUS
  <2>1. ASSUME NEW r \in Repos, NEW p \in Payloads, AddAccepted(r, p)
        PROVE  NoLostWakeup'
    BY <2>1, AddWakeup
  <2>2. ASSUME NEW w \in Workers, WorkerStep(w)
        PROVE  NoLostWakeup'
    BY <2>2, WorkerStepWakeup
  <2>3. CASE ShutdownBegin
    BY <2>3 DEF ShutdownBegin, NoLostWakeup, Waiting
  <2>4. CASE \/ \E r \in Repos : AddRejectedFull(r)
             \/ Cancel \/ ShutdownDrained \/ ShutdownTimeout \/ Stopped \/ UNCHANGED vars
    BY <2>4 DEF AddRejectedFull, Cancel, ShutdownDrained, ShutdownTimeout, Stopped,
                vars, workVars, workerVars, NoLostWakeup, Waiting
  <2> QED
    BY <2>1, <2>2, <2>3, <2>4 DEF Next, OtherStep
<1> QED
  BY <1>1, <1>2, SpecInv, PTL DEF Spec

-----------------------------------------------------------------------------
\* Refinement

Pending == [r \in Repos |-> IF r \in dirty THEN payloads[r] ELSE NoPayload]
Running == {<<repoOf[w], payloadOf[w]>> : w \in {v \in Workers : pc[v] \in Busy}}

\* Read through the refinement, a repository runs iff it is in processing, and
\* has work iff it is tracked.
LEMMA MailboxReading ==
    ASSUME IInv
    PROVE  /\ \A r \in Repos : Mailbox!IsRunning(r) <=> r \in processing
           /\ Mailbox!WithWork = Tracked
<1> USE DEF IInv
<1>1. ASSUME NEW r \in Repos
      PROVE  Mailbox!IsRunning(r) <=> r \in processing
  <2>1. ASSUME Mailbox!IsRunning(r)
        PROVE  r \in processing
    <3>1. PICK p \in Payloads : <<r, p>> \in Running
      BY <2>1 DEF Mailbox!IsRunning, Running
    <3>2. PICK w \in Workers : pc[w] \in Busy /\ <<r, p>> = <<repoOf[w], payloadOf[w]>>
      BY <3>1 DEF Running
    <3> QED
      BY <3>2 DEF HoldersMatch
  <2>2. ASSUME r \in processing
        PROVE  Mailbox!IsRunning(r)
    <3>1. PICK w \in Workers : pc[w] \in Busy /\ repoOf[w] = r
      BY <2>2 DEF HoldersMatch
    <3>2. payloadOf[w] \in Payloads /\ <<r, payloadOf[w]>> \in Running
      BY <3>1 DEF LocalsInScope, Running
    <3> QED
      BY <3>2 DEF Mailbox!IsRunning, Running
  <2> QED
    BY <2>1, <2>2
<1>2. \A r \in dirty : payloads[r] # NoPayload
  BY DEF TrackedMatch, Tracked
<1>3. \A r \in Repos : (Pending[r] # NoPayload) <=> r \in dirty
  BY <1>2 DEF Pending
<1>4. Mailbox!WithWork = {r \in Repos : r \in dirty \union processing}
  BY <1>1, <1>3 DEF Mailbox!WithWork, Pending
<1> QED
  BY <1>1, <1>4 DEF TrackedMatch, TypeOK

\* Steps that change neither the mailboxes nor what runs are stutters.
LEMMA MailboxStutter ==
    ASSUME IInv,
           UNCHANGED <<dirty, payloads, shutdown>>,
           \A v \in Workers : pc'[v] \in Busy <=> pc[v] \in Busy,
           \A v \in Workers : pc[v] \in Busy =>
               (repoOf'[v] = repoOf[v] /\ payloadOf'[v] = payloadOf[v])
    PROVE  UNCHANGED Mailbox!mailVars
<1>1. Pending' = Pending
  BY DEF Pending
<1>2. Running' = Running
  <2>1. {v \in Workers : pc'[v] \in Busy} = {v \in Workers : pc[v] \in Busy}
    OBVIOUS
  <2> QED
    BY <2>1 DEF Running
<1> QED
  BY <1>1, <1>2 DEF Mailbox!mailVars, Pending, Running

\* Add is Submit.
LEMMA AddIsSubmit ==
    ASSUME IInv, NEW r \in Repos, NEW p \in Payloads, AddAccepted(r, p)
    PROVE  Mailbox!Submit(r, p)
<1> USE DEF IInv
<1>1. ~shutdown /\ shutdown' = shutdown
  BY DEF AddAccepted, lifeVars
<1>2. /\ Mailbox!WithWork \union {r} \subseteq Repos
      /\ Cardinality(Mailbox!WithWork \union {r}) <= MaxTrackedRepos
  <2>1. Tracked' = Tracked \union {r}
    BY QueueAssumption DEF AddAccepted, Tracked, TypeOK
  <2>2. Cardinality(Tracked') <= MaxTrackedRepos
    BY AddInv DEF TrackedBounded
  <2> QED
    BY <2>1, <2>2, MailboxReading DEF Tracked
<1>3. Pending' = [Pending EXCEPT ![r] = p]
  BY DEF AddAccepted, Pending, TypeOK
<1>4. Running' = Running
  <2>1. UNCHANGED <<repoOf, payloadOf>>
    BY DEF AddAccepted
  <2>2. \A v \in Workers : pc'[v] \in Busy <=> pc[v] \in Busy
    BY DEF AddAccepted, Signal, Waiting, Busy, TypeOK
  <2>3. {v \in Workers : pc'[v] \in Busy} = {v \in Workers : pc[v] \in Busy}
    BY <2>2
  <2> QED
    BY <2>1, <2>3 DEF Running
<1> QED
  BY <1>1, <1>2, <1>3, <1>4 DEF Mailbox!Submit, Pending, Running

\* get is Start: the captured payload is the newest one.
LEMMA GetIsStart ==
    ASSUME IInv, NEW w \in Workers, GetTake(w)
    PROVE  \E r \in Repos : Mailbox!Start(r)
<1> USE DEF IInv
<1>1. PICK r \in Repos : r = Head(queue) /\ r \in Elements(queue)
  BY DEF GetTake, TypeOK, Elements
<1>2. r \in dirty /\ r \notin processing /\ payloads[r] # NoPayload
  BY <1>1 DEF QueueIsWaitingSet, TrackedMatch, Tracked
<1>3. /\ dirty' = dirty \ {r} /\ payloads' = payloads /\ shutdown' = shutdown
      /\ pc[w] = "get" /\ pc' = [pc EXCEPT ![w] = "handling"]
      /\ repoOf' = [repoOf EXCEPT ![w] = r]
      /\ payloadOf' = [payloadOf EXCEPT ![w] = payloads[r]]
  BY <1>1 DEF GetTake, lifeVars
<1>4. Pending[r] = payloads[r] /\ Pending[r] # NoPayload
  BY <1>1, <1>2 DEF Pending
<1>5. ~Mailbox!IsRunning(r)
  BY <1>1, <1>2, MailboxReading
<1>6. Pending' = [Pending EXCEPT ![r] = NoPayload]
  BY <1>1, <1>2, <1>3 DEF Pending
<1>7. Running' = Running \union {<<r, payloads[r]>>}
  <2>1. {v \in Workers : pc'[v] \in Busy} = {v \in Workers : pc[v] \in Busy} \union {w}
    BY <1>3 DEF Busy, TypeOK
  <2>2. w \notin {v \in Workers : pc[v] \in Busy}
    BY <1>3 DEF Busy
  <2>3. /\ repoOf'[w] = r /\ payloadOf'[w] = payloads[r]
        /\ \A v \in Workers : v # w => (repoOf'[v] = repoOf[v] /\ payloadOf'[v] = payloadOf[v])
    BY <1>3 DEF TypeOK
  <2> QED
    BY <2>1, <2>2, <2>3 DEF Running
<1>8. Mailbox!Start(r)
  BY <1>3, <1>4, <1>5, <1>6, <1>7 DEF Mailbox!Start, Pending, Running
<1> QED
  BY <1>8

\* done is Finish.
LEMMA DoneIsFinish ==
    ASSUME IInv, NEW w \in Workers, DoneFailed(w) \/ DoneSucceeded(w)
    PROVE  \E r \in Repos : Mailbox!Finish(r)
<1> USE DEF IInv
<1> DEFINE to == IF pc[w] = "failed" THEN "get" ELSE "recording"
           pcNow == [pc EXCEPT ![w] = to]
<1>1. pc[w] \in Busy /\ to \in {"get", "recording"} /\ Release(repoOf[w], pcNow)
  BY DEF DoneFailed, DoneSucceeded, Busy
<1>2. PICK r \in Repos : r = repoOf[w] /\ r \in processing
  BY <1>1 DEF LocalsInScope, HoldersMatch
<1>3. \A v \in Workers : v # w =>
          (repoOf'[v] = repoOf[v] /\ payloadOf'[v] = payloadOf[v])
  BY DEF DoneFailed, DoneSucceeded, Forget, TypeOK
<1>4. /\ pc'[w] \notin Busy
      /\ \A v \in Workers : v # w => (pc'[v] \in Busy <=> pc[v] \in Busy)
  <2>1. pc' = pcNow \/ \E v \in Waiting : pc' = [pcNow EXCEPT ![v] = "get"]
    BY <1>1 DEF Release, Signal
  <2> QED
    BY <1>1, <2>1 DEF Waiting, Busy, TypeOK
<1>5. Running' = {job \in Running : job[1] # r}
  <2>1. Running' \subseteq {job \in Running : job[1] # r}
    <3>1. SUFFICES ASSUME NEW v \in Workers, pc'[v] \in Busy
                   PROVE  /\ <<repoOf'[v], payloadOf'[v]>> \in Running
                          /\ <<repoOf'[v], payloadOf'[v]>>[1] # r
      BY DEF Running
    <3>2. v # w /\ pc[v] \in Busy
      BY <1>4, <3>1
    <3>3. repoOf[v] # r
      BY <1>1, <1>2, <3>2 DEF OneSyncPerRepo
    <3> QED
      BY <1>3, <3>2, <3>3 DEF Running
  <2>2. {job \in Running : job[1] # r} \subseteq Running'
    <3>1. SUFFICES ASSUME NEW v \in Workers, pc[v] \in Busy,
                          <<repoOf[v], payloadOf[v]>>[1] # r
                   PROVE  <<repoOf[v], payloadOf[v]>> \in Running'
      BY DEF Running
    <3>2. v # w
      BY <1>2, <3>1
    <3>3. pc'[v] \in Busy /\ <<repoOf[v], payloadOf[v]>> = <<repoOf'[v], payloadOf'[v]>>
      BY <1>3, <1>4, <3>1, <3>2
    <3> QED
      BY <3>3 DEF Running
  <2> QED
    BY <2>1, <2>2
<1>6. Pending' = Pending
  <2>1. dirty' = dirty /\ \A q \in dirty : payloads'[q] = payloads[q]
    BY <1>1, <1>2 DEF Release, TypeOK
  <2> QED
    BY <2>1 DEF Pending
<1>7. Mailbox!IsRunning(r)
  BY <1>2, MailboxReading
<1>8. shutdown' = shutdown
  BY <1>1 DEF Release, lifeVars
<1>9. Mailbox!Finish(r)
  BY <1>5, <1>6, <1>7, <1>8 DEF Mailbox!Finish, Pending, Running
<1> QED
  BY <1>9

\* The queue implements the coalescing mailbox: its initial states map to the
\* mailbox's, and each of its steps to Submit, Start, Finish, Close or a stutter.
THEOREM QueueImplementsMailbox == Spec => ImplementsMailbox
<1>1. Init => Mailbox!Init
  <2> SUFFICES ASSUME Init PROVE Mailbox!Init
    OBVIOUS
  <2>1. Pending = [r \in Repos |-> NoPayload]
    BY DEF Init, Pending
  <2>2. Running = {}
    BY DEF Init, Running, Busy
  <2> QED
    BY <2>1, <2>2 DEF Init, Mailbox!Init, Pending, Running
<1>2. IInv /\ [Next]_vars => [Mailbox!Next]_(Mailbox!mailVars)
  <2> SUFFICES ASSUME IInv, [Next]_vars
               PROVE  Mailbox!Next \/ UNCHANGED Mailbox!mailVars
    OBVIOUS
  <2>1. ASSUME NEW r \in Repos, NEW p \in Payloads, AddAccepted(r, p)
        PROVE  Mailbox!Next
    BY <2>1, AddIsSubmit DEF Mailbox!Next
  <2>2. ASSUME NEW w \in Workers, WorkerStep(w)
        PROVE  Mailbox!Next \/ UNCHANGED Mailbox!mailVars
    <3>1. CASE GetTake(w)
      BY <3>1, GetIsStart DEF Mailbox!Next
    <3>2. CASE DoneFailed(w) \/ DoneSucceeded(w)
      BY <3>2, DoneIsFinish DEF Mailbox!Next
    <3>3. CASE ~GetTake(w) /\ ~DoneFailed(w) /\ ~DoneSucceeded(w)
      <4>1. UNCHANGED <<dirty, payloads, shutdown>>
        BY <2>2, <3>3 DEF WorkerStep, GetWait, GetExit, HandleOk, HandleFinalError,
              HandleRetryableError, BackoffElapsed, BackoffCancelled, RecordFailure,
              RecordSuccess, workVars, lifeVars
      <4>2. \A v \in Workers : pc'[v] \in Busy <=> pc[v] \in Busy
        BY <2>2, <3>3 DEF WorkerStep, GetWait, GetExit, HandleOk, HandleFinalError,
              HandleRetryableError, BackoffElapsed, BackoffCancelled, RecordFailure,
              RecordSuccess, Goto, Busy, IInv, TypeOK
      <4>3. \A v \in Workers : pc[v] \in Busy =>
               (repoOf'[v] = repoOf[v] /\ payloadOf'[v] = payloadOf[v])
        BY <2>2, <3>3 DEF WorkerStep, GetWait, GetExit, HandleOk, HandleFinalError,
              HandleRetryableError, BackoffElapsed, BackoffCancelled, RecordFailure,
              RecordSuccess, Goto, Forget, Busy, IInv, TypeOK
      <4> QED
        BY <4>1, <4>2, <4>3, MailboxStutter
    <3> QED
      BY <3>1, <3>2, <3>3
  <2>3. CASE ShutdownBegin
    <3>1. shutdown = FALSE /\ shutdown' = TRUE
      BY <2>3 DEF ShutdownBegin, IInv, LocalsInScope, TypeOK
    <3>2. Pending' = Pending
      BY <2>3 DEF ShutdownBegin, Pending, workVars
    <3>3. {v \in Workers : pc'[v] \in Busy} = {v \in Workers : pc[v] \in Busy}
      BY <2>3 DEF ShutdownBegin, Busy
    <3>4. Running' = Running
      BY <2>3, <3>3 DEF ShutdownBegin, Running
    <3>5. Mailbox!Close
      BY <3>1, <3>2, <3>4 DEF Mailbox!Close, Pending, Running
    <3> QED
      BY <3>5 DEF Mailbox!Next
  <2>4. CASE \/ \E r \in Repos : AddRejectedFull(r)
             \/ Cancel \/ ShutdownDrained \/ ShutdownTimeout \/ Stopped \/ UNCHANGED vars
    <3>1. UNCHANGED <<dirty, payloads, shutdown, pc, repoOf, payloadOf>>
      BY <2>4 DEF AddRejectedFull, Cancel, ShutdownDrained, ShutdownTimeout, Stopped,
                  vars, workVars, lifeVars, workerVars
    <3> QED
      BY <3>1, MailboxStutter
  <2> QED
    BY <2>1, <2>2, <2>3, <2>4 DEF Next, OtherStep
<1> QED
  BY <1>1, <1>2, SpecInv, PTL DEF Spec, ImplementsMailbox, Mailbox!Spec
-----------------------------------------------------------------------------
\* How syncs end and what is recorded of it

\* Only a failing sync of a repository puts an error into its entry.
LEMMA ErrorComesFromFailure ==
    ASSUME IInv, [Next]_vars, NEW r \in Repos,
           stats.repos[r] # "error", stats'.repos[r] = "error"
    PROVE  \E w \in Workers : repoOf[w] = r /\ Fails(w)
<1> USE QueueAssumption DEF IInv
<1>1. stats \in Stats /\ r \in StatKeys /\ r # ShutdownKey
  BY DEF TypeOK
<1>2. \A k \in StatKeys, o \in Outcomes :
          UpsertRepoStat(stats, k, o).repos[r] = "error" => r = k /\ o = "error"
  BY <1>1 DEF UpsertRepoStat, Stats
<1>3. \A k \in StatKeys : RecordFailureIn(stats, k).repos = UpsertRepoStat(stats, k, "error").repos
  BY <1>1 DEF RecordFailureIn, UpsertRepoStat, Stats
<1>4. ASSUME NEW w \in Workers, RecordFailure(w)
      PROVE  repoOf[w] = r /\ Fails(w)
  <2>1. repoOf[w] \in Repos /\ repoOf[w] \in StatKeys
    BY <1>4 DEF RecordFailure, Goto, LocalsInScope, Busy
  <2>2. repoOf[w] = r
    BY <1>2, <1>3, <1>4, <2>1 DEF RecordFailure, Outcomes
  <2> QED
    BY <1>4, <2>2 DEF RecordFailure, Goto, Fails, TypeOK
<1>5. ASSUME NEW w \in Workers, RecordSuccess(w)
      PROVE  FALSE
  <2>1. repoOf[w] \in StatKeys
    BY <1>5 DEF RecordSuccess, Goto, LocalsInScope
  <2> QED
    BY <1>2, <1>5, <2>1 DEF RecordSuccess, RecordSuccessIn, Outcomes
<1>6. ~ShutdownTimeout
  <2>1. ShutdownKey \in StatKeys
    OBVIOUS
  <2> QED
    BY <1>1, <1>2, <1>3, <2>1 DEF ShutdownTimeout, Outcomes
<1>7. \A q \in Repos : ~AddRejectedFull(q)
  BY <1>1 DEF AddRejectedFull, RecordQueueFullIn, Stats
<1>8. stats' # stats
  OBVIOUS
<1>9. PICK w \in Workers : RecordFailure(w)
  <2>1. \A q \in Repos, p \in Payloads : ~AddAccepted(q, p)
    BY <1>8 DEF AddAccepted
  <2>2. ~Cancel /\ ~ShutdownBegin /\ ~ShutdownDrained /\ ~Stopped /\ ~UNCHANGED vars
    BY <1>8 DEF Cancel, ShutdownBegin, ShutdownDrained, Stopped, vars
  <2>3. PICK w \in Workers : WorkerStep(w)
    BY <1>6, <1>7, <2>1, <2>2 DEF Next, OtherStep
  <2>4. /\ ~GetTake(w) /\ ~GetWait(w) /\ ~GetExit(w) /\ ~HandleOk(w) /\ ~HandleFinalError(w)
        /\ ~HandleRetryableError(w) /\ ~BackoffElapsed(w) /\ ~BackoffCancelled(w)
        /\ ~DoneFailed(w) /\ ~DoneSucceeded(w)
    BY <1>8 DEF GetTake, GetWait, GetExit, HandleOk, HandleFinalError, HandleRetryableError,
                BackoffElapsed, BackoffCancelled, DoneFailed, DoneSucceeded, Release
  <2> QED
    BY <1>5, <2>3, <2>4 DEF WorkerStep
<1> QED
  BY <1>4, <1>9

\* A worker that is about to record a success keeps its repository until it does.
LEMMA RecordingKeepsRepo ==
    ASSUME IInv, [Next]_vars, NEW w \in Workers, ~RecordSuccess(w),
           pc[w] = "recording" \/ (pc[w] = "succeeded" /\ pc'[w] = "recording")
    PROVE  pc'[w] = "recording" /\ repoOf'[w] = repoOf[w]
<1> USE DEF IInv
<1>1. pc \in [Workers -> WorkerStates] /\ repoOf \in [Workers -> Repos \union {NoRepo}]
  BY DEF TypeOK
<1>2. ASSUME NEW r \in Repos, NEW p \in Payloads, AddAccepted(r, p)
      PROVE  pc'[w] = "recording" /\ repoOf'[w] = repoOf[w]
  BY <1>1, <1>2 DEF AddAccepted, Signal, Waiting
<1>3. ASSUME NEW v \in Workers, DoneFailed(v) \/ DoneSucceeded(v)
      PROVE  pc'[w] = "recording" /\ repoOf'[w] = repoOf[w]
  <2> DEFINE to == IF pc[v] = "failed" THEN "get" ELSE "recording"
             pcNow == [pc EXCEPT ![v] = to]
  <2>1. pc' = pcNow \/ \E u \in Waiting : pc' = [pcNow EXCEPT ![u] = "get"]
    BY <1>3 DEF DoneFailed, DoneSucceeded, Release, Signal
  <2>2. pcNow[w] = "recording" \/ pcNow[w] = pc[w]
    BY <1>1
  <2>3. pc'[w] = pcNow[w]
    BY <1>1, <2>1 DEF Waiting
  <2>4. repoOf'[w] = repoOf[w]
    BY <1>1, <1>3 DEF DoneFailed, DoneSucceeded, Forget
  <2> QED
    BY <1>1, <2>2, <2>3, <2>4
<1>4. ASSUME NEW v \in Workers, WorkerStep(v)
      PROVE  pc'[w] = "recording" /\ repoOf'[w] = repoOf[w]
  <2>1. CASE DoneFailed(v) \/ DoneSucceeded(v)
    BY <1>3, <2>1
  <2>2. CASE GetTake(v) \/ GetWait(v) \/ GetExit(v)
    BY <1>1, <2>2 DEF GetTake, GetWait, GetExit
  <2>3. CASE HandleOk(v) \/ HandleFinalError(v) \/ HandleRetryableError(v)
    BY <1>1, <2>3 DEF HandleOk, HandleFinalError, HandleRetryableError, Goto
  <2>4. CASE BackoffElapsed(v) \/ BackoffCancelled(v) \/ RecordFailure(v)
    BY <1>1, <2>4 DEF BackoffElapsed, BackoffCancelled, RecordFailure, Goto
  <2>5. CASE RecordSuccess(v)
    BY <1>1, <2>5 DEF RecordSuccess, Goto, Forget
  <2> QED
    BY <1>4, <2>1, <2>2, <2>3, <2>4, <2>5 DEF WorkerStep
<1>5. CASE ShutdownBegin
  BY <1>1, <1>5 DEF ShutdownBegin
<1>6. CASE \/ \E r \in Repos : AddRejectedFull(r)
           \/ Cancel \/ ShutdownDrained \/ ShutdownTimeout \/ Stopped \/ UNCHANGED vars
  BY <1>6 DEF AddRejectedFull, Cancel, ShutdownDrained, ShutdownTimeout, Stopped, vars,
              workerVars
<1> QED
  BY <1>2, <1>4, <1>5, <1>6 DEF Next, OtherStep

\* A later successful sync of a repository clears its error state, whatever
\* other syncs of it start, fail and evict before the success is recorded.
THEOREM SuccessIsRecorded == OutcomeSpec => []SuccessClearsError
<1>1. OutcomeInit => SuccessClearsError
  BY DEF OutcomeInit, SuccessClearsError
<1>2. IInv /\ SuccessClearsError /\ [OutcomeNext]_<<vars, lastResult>> => SuccessClearsError'
  <2> SUFFICES ASSUME IInv, SuccessClearsError, [OutcomeNext]_<<vars, lastResult>>,
                      NEW r \in Repos,
                      lastResult'[r] = "success",
                      ~\E w \in Workers : pc'[w] = "recording" /\ repoOf'[w] = r,
                      stats'.repos[r] = "error"
               PROVE  FALSE
    BY DEF SuccessClearsError
  <2>1. CASE UNCHANGED <<vars, lastResult>>
    BY <2>1 DEF SuccessClearsError, vars
  <2>2. CASE OutcomeNext
    <3>1. [Next]_vars /\ NoteResult
      BY <2>2 DEF OutcomeNext
    <3>2. ~\E w \in Workers : repoOf[w] = r /\ Succeeds(w)
      <4>1. ASSUME NEW w \in Workers, repoOf[w] = r, Succeeds(w)
            PROVE  FALSE
        <5>1. ~RecordSuccess(w)
          BY <4>1 DEF RecordSuccess, Goto, Succeeds
        <5> QED
          BY <3>1, <4>1, <5>1, RecordingKeepsRepo DEF Succeeds
      <4> QED
        BY <4>1
    <3>3. ~(\E w \in Workers : repoOf[w] = r /\ Fails(w)) /\ lastResult[r] = "success"
      BY <3>1, <3>2 DEF NoteResult
    <3>4. stats.repos[r] = "error"
      BY <3>1, <3>3, ErrorComesFromFailure
    <3>5. PICK w \in Workers : pc[w] = "recording" /\ repoOf[w] = r
      BY <3>3, <3>4 DEF SuccessClearsError
    <3>6. RecordSuccess(w)
      BY <3>1, <3>5, RecordingKeepsRepo
    <3>7. stats'.repos[r] = "success"
      <4>1. stats \in Stats /\ r \in StatKeys
        BY QueueAssumption DEF IInv, TypeOK
      <4> QED
        BY <3>5, <3>6, <4>1 DEF RecordSuccess, RecordSuccessIn, UpsertRepoStat, Stats
    <3> QED
      BY <3>7
  <2> QED
    BY <2>1, <2>2
<1>3. OutcomeSpec => Spec
  <2>1. OutcomeInit => Init
    BY DEF OutcomeInit
  <2>2. [OutcomeNext]_<<vars, lastResult>> => [Next]_vars
    BY DEF OutcomeNext
  <2> QED
    BY <2>1, <2>2, PTL DEF OutcomeSpec, Spec
<1> QED
  BY <1>1, <1>2, <1>3, SpecInv, PTL DEF OutcomeSpec
=============================================================================
