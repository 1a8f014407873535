----------------------------- MODULE CrossRefs -----------------------------
(***************************************************************************)
(* Cross-namespace references: the sync pass that follows the commit of a  *)
(* build or update (Service.SyncNamespace of internal/app/crossref) over   *)
(* the cross_refs table (internal/adapters/outbound/graphgorm/crossref.go), *)
(* run by several workers for different namespaces.  The sync queue never  *)
(* runs one namespace twice at once (OneSyncPerRepo of SyncQueue).         *)
(*                                                                         *)
(* A namespace declares one symbol and references some namespaces.  A row  *)
(* is known by its source, its target and the replacement of the source's  *)
(* rows that inserted it: the ids of deleted rows are not used again.      *)
(*                                                                         *)
(* A worker's position is its at:                                          *)
(*   idle      not in SyncNamespace                                        *)
(*   outbound  in the loop of rebuildOutbound                              *)
(*   inbound   about to list the inbound rows                              *)
(*   rows      in the loop of reresolveInbound                             *)
(***************************************************************************)
EXTENDS Naturals

CONSTANTS
    Namespaces,
    Workers,
    MaxCommits,  \* bound of the model
    None         \* no row, no namespace, or a target the memo does not hold

ASSUME CrossRefsAssumption ==
    /\ MaxCommits \in Nat
    /\ None \notin Nat
    /\ None \notin Namespaces

VARIABLES
    symbol,   \* the node id of a namespace's symbol, Dead if it has none
    tags,     \* the namespaces its @see ccg:// tags name
    link,     \* link[f][t]: ResolvedNodeID of the row from f to t, or None
    gen,      \* how often the rows of a namespace have been replaced
    at,
    ns,       \* the namespace a worker syncs, or None
    memo,     \* resolveOnce: the targets resolved so far in this pass
    pending,  \* the inbound rows still to be looked at, as they were listed
    commits,  \* commits so far, the source of fresh node ids
    owed,     \* history: namespaces whose last commit no sync has completed for
    met,      \* history: namespaces that were synced while a worker's pass ran
    raced     \* history: pairs whose last completed sync met the other one

vars == <<symbol, tags, link, gen, at, ns, memo, pending, commits, owed, met, raced>>
graphVars == <<symbol, tags, commits>>
historyVars == <<owed, met, raced>>

Dead == 0
NodeIds == 0 .. MaxCommits
Rows == [from : Namespaces, gen : Nat, seen : NodeIds]
NoMemo == [t \in Namespaces |-> None]

Active == {w \in Workers : at[w] # "idle"}

Init ==
    /\ symbol = [n \in Namespaces |-> Dead]
    /\ tags = [n \in Namespaces |-> {}]
    /\ link = [f \in Namespaces |-> [t \in Namespaces |-> None]]
    /\ gen = [n \in Namespaces |-> 0]
    /\ at = [w \in Workers |-> "idle"]
    /\ ns = [w \in Workers |-> None]
    /\ memo = [w \in Workers |-> NoMemo]
    /\ pending = [w \in Workers |-> {}]
    /\ commits = 0
    /\ owed = {}
    /\ met = [w \in Workers |-> {}]
    /\ raced = {}

Goto(w, from, to) ==
    /\ at[w] = from
    /\ at' = [at EXCEPT ![w] = to]

-----------------------------------------------------------------------------
\* The transaction that precedes the pass.  A replaced symbol gets a new node id;
\* a retry commits what is already there.
Commit(w, n, id, refs) ==
    /\ \A v \in Active : ns[v] # n
    /\ commits < MaxCommits
    /\ id \in {symbol[n], Dead, commits + 1}
    /\ Goto(w, "idle", "outbound")
    /\ ns' = [ns EXCEPT ![w] = n]
    /\ symbol' = [symbol EXCEPT ![n] = id]
    /\ tags' = [tags EXCEPT ![n] = refs]
    /\ commits' = commits + 1
    /\ owed' = owed \union {n}
    /\ met' = [v \in Workers |-> IF v = w THEN {ns[x] : x \in Active}
                                 ELSE IF v \in Active THEN met[v] \union {n} ELSE met[v]]
    /\ UNCHANGED <<link, gen, memo, pending, raced>>

\* resolveOnce: a target is looked up once in a pass.
Resolved(w, t) == IF memo[w][t] # None THEN memo[w][t] ELSE symbol[t]

\* The loop of rebuildOutbound.  The tags it iterates over change only with a
\* commit of the same namespace.
ResolveTag(w, t) ==
    /\ at[w] = "outbound"
    /\ t \in tags[ns[w]]
    /\ memo' = [memo EXCEPT ![w][t] = Resolved(w, t)]
    /\ UNCHANGED <<graphVars, link, gen, at, ns, pending, historyVars>>

\* ReplaceCrossRefsFrom, once every tag is resolved.
ReplaceRows(w) ==
    /\ Goto(w, "outbound", "inbound")
    /\ \A t \in tags[ns[w]] : memo[w][t] # None
    /\ link' = [link EXCEPT ![ns[w]] =
                    [t \in Namespaces |-> IF t \in tags[ns[w]] THEN memo[w][t] ELSE None]]
    /\ gen' = [gen EXCEPT ![ns[w]] = @ + 1]
    /\ UNCHANGED <<graphVars, ns, memo, pending, historyVars>>

\* Mutant of Inbound: only the rows that are dead.
InboundDead(n) == {f \in Namespaces \ {n} : link[f][n] = Dead}

\* The rows of other namespaces that target n.
Inbound(n) == {f \in Namespaces \ {n} : link[f][n] # None}

ListInbound(w) ==
    /\ Goto(w, "inbound", "rows")
    /\ pending' = [pending EXCEPT ![w] =
                      {[from |-> f, gen |-> gen[f], seen |-> link[f][ns[w]]] : f \in Inbound(ns[w])}]
    /\ UNCHANGED <<graphVars, link, gen, ns, memo, historyVars>>

\* Mutant of Updates: the row is written whether or not it still exists.
Upserts(row, target) == target # row.seen

\* Whether UpdateCrossRefResolution is called and finds the row it was given.
Updates(row, target) == target # row.seen /\ gen[row.from] = row.gen

UpdateRow(w, row) ==
    LET n == ns[w]
        target == Resolved(w, n)
    IN /\ at[w] = "rows"
       /\ row \in pending[w]
       /\ pending' = [pending EXCEPT ![w] = @ \ {row}]
       /\ memo' = [memo EXCEPT ![w][n] = target]
       /\ link' = IF Updates(row, target) THEN [link EXCEPT ![row.from][n] = target] ELSE link
       /\ UNCHANGED <<graphVars, gen, at, ns, historyVars>>

\* The locals of a pass end with it.
Leave(w) ==
    /\ at' = [at EXCEPT ![w] = "idle"]
    /\ ns' = [ns EXCEPT ![w] = None]
    /\ memo' = [memo EXCEPT ![w] = NoMemo]
    /\ pending' = [pending EXCEPT ![w] = {}]
    /\ met' = [met EXCEPT ![w] = {}]

Done(w) ==
    LET n == ns[w]
        untouched == {p \in raced : n \notin {p[1], p[2]}}
    IN /\ at[w] = "rows"
       /\ pending[w] = {}
       /\ Leave(w)
       /\ owed' = owed \ {n}
       /\ raced' = untouched \union ({n} \X met[w]) \union (met[w] \X {n})
       /\ UNCHANGED <<graphVars, link, gen>>

\* A store operation returns an error, the context is done or the process stops:
\* the pass ends where it is.
Fail(w) ==
    /\ at[w] # "idle"
    /\ Leave(w)
    /\ UNCHANGED <<graphVars, link, gen, owed, raced>>

-----------------------------------------------------------------------------
Step(w) ==
    \/ \E t \in Namespaces : ResolveTag(w, t)
    \/ ReplaceRows(w) \/ ListInbound(w)
    \/ \E row \in pending[w] : UpdateRow(w, row)
    \/ Done(w) \/ Fail(w)

Next ==
    \E w \in Workers :
        \/ \E n \in Namespaces, id \in NodeIds, refs \in SUBSET Namespaces :
               Commit(w, n, id, refs)
        \/ Step(w)

Spec == Init /\ [][Next]_vars

-----------------------------------------------------------------------------
\* Every variable keeps its shape.
TypeOK ==
    /\ symbol \in [Namespaces -> NodeIds]
    /\ tags \in [Namespaces -> SUBSET Namespaces]
    /\ link \in [Namespaces -> [Namespaces -> NodeIds \union {None}]]
    /\ gen \in [Namespaces -> Nat]
    /\ at \in [Workers -> {"idle", "outbound", "inbound", "rows"}]
    /\ ns \in [Workers -> Namespaces \union {None}]
    /\ memo \in [Workers -> [Namespaces -> NodeIds \union {None}]]
    /\ pending \in [Workers -> SUBSET Rows]
    /\ commits \in 0 .. MaxCommits
    /\ owed \in SUBSET Namespaces
    /\ met \in [Workers -> SUBSET Namespaces]
    /\ raced \in SUBSET (Namespaces \X Namespaces)

\* The row from f to t is what the annotations and nodes of both call for.
RowExact(f, t) == link[f][t] = IF t \in tags[f] THEN symbol[t] ELSE None

Settled(f, t) == f \notin owed /\ t \notin owed

\* "make outbound cross-ref state a pure function of the namespace's current
\* annotations": after a completed pass a namespace has a row for each of its tags
\* and no other, whatever other namespaces do at the same time; an update that
\* comes too late never brings a replaced row back.
OutboundComplete ==
    \A f \in Namespaces \ owed : {t \in Namespaces : link[f][t] # None} = tags[f]

\* Once both sides have completed their pass, the row between them is exact, unless
\* the last pass of one overlapped with a pass of the other.
ExactUnlessRaced ==
    \A f, t \in Namespaces : Settled(f, t) /\ <<f, t>> \notin raced => RowExact(f, t)

\* "When either side rebuilds, refs are re-resolved automatically, so a dead ref
\* recovers as soon as the target symbol appears."
RefsFollowRebuilds == \A f, t \in Namespaces : Settled(f, t) => RowExact(f, t)
=============================================================================
