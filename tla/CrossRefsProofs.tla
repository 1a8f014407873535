-------------------------- MODULE CrossRefsProofs --------------------------
(***************************************************************************)
(* What the cross-reference pass guarantees for every set of namespaces    *)
(* and workers.                                                            *)
(***************************************************************************)
EXTENDS CrossRefs, TLAPS

\* Passes that run at the same time are for different namespaces, know of each
\* other, and owe their result.
Apart ==
    \A v, w \in Workers :
        v # w /\ at[v] # "idle" /\ at[w] # "idle" => ns[v] # ns[w] /\ ns[v] \in met[w]
Attending ==
    \A w \in Workers :
        at[w] # "idle" => ns[w] \in Namespaces /\ ns[w] \in owed /\ ns[w] \notin met[w]
Resting ==
    \A w \in Workers :
        at[w] = "idle" => memo[w] = NoMemo /\ pending[w] = {} /\ met[w] = {}

\* What a pass has resolved is current, but for the namespaces it met.
MemoCurrent ==
    \A w \in Workers, t \in Namespaces :
        at[w] # "idle" /\ t \notin met[w] /\ memo[w][t] # None => memo[w][t] = symbol[t]

\* Once a pass has replaced its rows, they are complete, and exact but for the
\* namespaces it met.
Replaced(w) == at[w] \in {"inbound", "rows"}
RowsComplete ==
    \A w \in Workers, t \in Namespaces :
        Replaced(w) => (link[ns[w]][t] # None <=> t \in tags[ns[w]])
RowsExact ==
    \A w \in Workers, t \in Namespaces :
        Replaced(w) /\ t \notin met[w] => RowExact(ns[w], t)

\* A listed row is no newer than the rows of its namespace; if it is not older it
\* still exists, and it is as it was seen unless its namespace was met.
Listed ==
    \A w \in Workers : \A row \in pending[w] :
        /\ at[w] = "rows"
        /\ row.from # ns[w]
        /\ row.gen <= gen[row.from]
        /\ row.gen = gen[row.from] => link[row.from][ns[w]] # None
        /\ row.from \notin met[w] => row.gen = gen[row.from] /\ row.seen = link[row.from][ns[w]]

\* Of the rows that target the namespace of a pass, those not looked at yet are
\* listed and the others are up to date, but for the namespaces it met.
Handled ==
    \A w \in Workers, f \in Namespaces :
        at[w] = "rows" /\ f # ns[w] /\ f \notin met[w] /\ link[f][ns[w]] # None =>
            \/ link[f][ns[w]] = symbol[ns[w]]
            \/ \E row \in pending[w] : row.from = f

Complete ==
    \A f \in Namespaces \ owed : \A t \in Namespaces : link[f][t] # None <=> t \in tags[f]

IInv ==
    /\ TypeOK /\ Apart /\ Attending /\ Resting /\ MemoCurrent
    /\ RowsComplete /\ RowsExact /\ Listed /\ Handled /\ Complete /\ ExactUnlessRaced

-----------------------------------------------------------------------------
\* The invariant holds initially.
LEMMA InitIInv == Init => IInv
  BY CrossRefsAssumption
  DEF Init, IInv, TypeOK, Rows, NodeIds, NoMemo, Dead, Apart, Attending, Resting, MemoCurrent,
      RowsComplete, RowsExact, Replaced, Listed, Handled, Complete, ExactUnlessRaced, RowExact

\* A commit makes its namespace owe a pass, and every running pass meet it.
LEMMA CommitIInv ==
    ASSUME IInv, NEW w \in Workers, NEW n \in Namespaces,
           NEW id \in NodeIds, NEW refs \in SUBSET Namespaces, Commit(w, n, id, refs)
    PROVE  IInv'
<1> USE CrossRefsAssumption DEF IInv, TypeOK, NodeIds, graphVars, historyVars, Goto, Commit, Active
<1>1. TypeOK'
  <2>1. met' \in [Workers -> SUBSET Namespaces]
    <3>1. \A v \in Active : ns[v] \in Namespaces
      BY DEF Attending
    <3>2. QED
      BY <3>1
  <2>2. commits' \in 0 .. MaxCommits /\ symbol' \in [Namespaces -> NodeIds]
    OBVIOUS
  <2>3. ns' \in [Workers -> Namespaces \union {None}]
    OBVIOUS
  <2>4. QED
    BY <2>1, <2>2, <2>3 DEF Rows
<1>2. Apart'
  BY DEF Apart
<1>3. Attending'
  BY DEF Attending
<1>4. Resting'
  BY DEF Resting, NoMemo
<1>5. MemoCurrent'
  <2> SUFFICES ASSUME NEW v \in Workers, NEW t \in Namespaces,
                      at'[v] # "idle", t \notin met'[v], memo[v][t] # None
               PROVE  memo[v][t] = symbol'[t]
    BY DEF MemoCurrent
  <2>1. v # w
    BY DEF Resting, NoMemo
  <2>2. v \in Active /\ t # n /\ t \notin met[v]
    BY <2>1
  <2>3. QED
    BY <2>1, <2>2 DEF MemoCurrent
<1>6. RowsComplete'
  BY DEF RowsComplete, Replaced, Apart, Attending
<1>7. RowsExact'
  BY DEF RowsExact, Replaced, RowExact, Apart, Attending
<1>8. Listed'
  BY DEF Listed, Resting
<1>9. Handled'
  <2> SUFFICES ASSUME NEW v \in Workers, NEW f \in Namespaces,
                      at'[v] = "rows", f # ns'[v], f \notin met'[v], link[f][ns'[v]] # None
               PROVE  \/ link[f][ns'[v]] = symbol'[ns'[v]]
                      \/ \E row \in pending[v] : row.from = f
    BY DEF Handled
  <2>1. v # w /\ v \in Active /\ ns'[v] = ns[v] /\ f \notin met[v]
    OBVIOUS
  <2>2. ns[v] # n /\ ns[v] \in Namespaces
    BY <2>1 DEF Attending
  <2>3. QED
    BY <2>1, <2>2 DEF Handled
<1>10. Complete'
  BY DEF Complete
<1>11. ExactUnlessRaced'
  BY DEF ExactUnlessRaced, RowExact, Settled
<1>12. QED
  BY <1>1, <1>2, <1>3, <1>4, <1>5, <1>6, <1>7, <1>8, <1>9, <1>10, <1>11

\* Resolving a target fills the memo with the current node.
LEMMA ResolveTagIInv ==
    ASSUME IInv, NEW w \in Workers, NEW t \in Namespaces, ResolveTag(w, t)
    PROVE  IInv'
<1> USE CrossRefsAssumption DEF IInv, TypeOK, NodeIds, graphVars, historyVars, Goto, ResolveTag, Resolved
<1>1. TypeOK'
  BY DEF Rows, NoMemo, Dead
<1>2. Apart'
  BY DEF Apart
<1>3. Attending'
  BY DEF Attending
<1>4. Resting'
  BY DEF Resting
<1>5. MemoCurrent'
  BY DEF MemoCurrent
<1>6. RowsComplete'
  BY DEF RowsComplete, Replaced
<1>7. RowsExact'
  BY DEF RowsExact, Replaced, RowExact
<1>8. Listed'
  BY DEF Listed
<1>9. Handled'
  BY DEF Handled
<1>10. Complete'
  BY DEF Complete
<1>11. ExactUnlessRaced'
  BY DEF ExactUnlessRaced, RowExact, Settled
<1>12. QED
  BY <1>1, <1>2, <1>3, <1>4, <1>5, <1>6, <1>7, <1>8, <1>9, <1>10, <1>11

\* Replacing the rows of a namespace makes the rows listed elsewhere out of date.
LEMMA ReplaceRowsIInv ==
    ASSUME IInv, NEW w \in Workers, ReplaceRows(w)
    PROVE  IInv'
<1> USE CrossRefsAssumption DEF IInv, TypeOK, NodeIds, graphVars, historyVars, Goto
<1> DEFINE n == ns[w]
<1>n. n \in Namespaces /\ n \in owed /\ n \notin met[w] /\ at[w] = "outbound"
  BY DEF ReplaceRows, Attending
<1>at. at' = [at EXCEPT ![w] = "inbound"] /\ at' \in [Workers -> {"idle", "outbound", "inbound", "rows"}]
  BY DEF ReplaceRows
<1>same. UNCHANGED <<symbol, tags, commits, ns, memo, pending, owed, met, raced>>
  BY DEF ReplaceRows
<1>own. \A t \in Namespaces : link'[n][t] = IF t \in tags[n] THEN memo[w][t] ELSE None
  BY <1>n DEF ReplaceRows
<1>other. \A f \in Namespaces \ {n} : link'[f] = link[f]
  BY <1>n DEF ReplaceRows
<1>memo. \A t \in Namespaces : t \in tags[n] =>
           memo[w][t] \in NodeIds /\ (t \notin met[w] => memo[w][t] = symbol[t])
  BY <1>n DEF ReplaceRows, MemoCurrent
<1>gen. gen' \in [Namespaces -> Nat] /\ gen'[n] = gen[n] + 1
        /\ \A f \in Namespaces \ {n} : gen'[f] = gen[f]
  BY <1>n DEF ReplaceRows
<1>elsewhere. \A v \in Workers : v # w /\ at[v] # "idle" => ns[v] # n /\ n \in met[v]
  BY <1>n DEF Apart
<1>1. TypeOK'
  <2>1. link' \in [Namespaces -> [Namespaces -> NodeIds \union {None}]]
    <3>1. [t \in Namespaces |-> IF t \in tags[n] THEN memo[w][t] ELSE None]
            \in [Namespaces -> NodeIds \union {None}]
      BY <1>memo
    <3>2. QED
      BY <3>1 DEF ReplaceRows
  <2>2. QED
    BY <2>1, <1>at, <1>same, <1>gen DEF Rows
<1>2. Apart'
  BY <1>n, <1>at, <1>same DEF Apart
<1>3. Attending'
  BY <1>n, <1>at, <1>same DEF Attending
<1>4. Resting'
  BY <1>n, <1>at, <1>same DEF Resting
<1>5. MemoCurrent'
  BY <1>n, <1>at, <1>same DEF MemoCurrent
<1>6. RowsComplete'
  <2> SUFFICES ASSUME NEW v \in Workers, NEW t \in Namespaces, Replaced(v)'
               PROVE  link'[ns[v]][t] # None <=> t \in tags[ns[v]]
    BY <1>same DEF RowsComplete
  <2>1. CASE v = w
    BY <2>1, <1>own, <1>memo
  <2>2. CASE v # w
    <3>1. Replaced(v) /\ ns[v] \in Namespaces \ {n}
      BY <2>2, <1>at, <1>elsewhere DEF Replaced, Attending
    <3>2. QED
      BY <3>1, <1>other DEF RowsComplete
  <2>3. QED
    BY <2>1, <2>2
<1>7. RowsExact'
  <2> SUFFICES ASSUME NEW v \in Workers, NEW t \in Namespaces, Replaced(v)', t \notin met[v]
               PROVE  link'[ns[v]][t] = IF t \in tags[ns[v]] THEN symbol[t] ELSE None
    BY <1>same DEF RowsExact, RowExact
  <2>1. CASE v = w
    BY <2>1, <1>own, <1>memo
  <2>2. CASE v # w
    <3>1. Replaced(v) /\ ns[v] \in Namespaces \ {n}
      BY <2>2, <1>at, <1>elsewhere DEF Replaced, Attending
    <3>2. QED
      BY <3>1, <1>other DEF RowsExact, RowExact
  <2>3. QED
    BY <2>1, <2>2
<1>8. Listed'
  <2> SUFFICES ASSUME NEW v \in Workers, NEW row \in pending[v]
               PROVE  /\ at'[v] = "rows"
                      /\ row.from # ns[v]
                      /\ row.gen <= gen'[row.from]
                      /\ row.gen = gen'[row.from] => link'[row.from][ns[v]] # None
                      /\ row.from \notin met[v] =>
                             row.gen = gen'[row.from] /\ row.seen = link'[row.from][ns[v]]
    BY <1>same DEF Listed
  <2>1. at[v] = "rows" /\ v # w /\ row.from # ns[v] /\ row.gen <= gen[row.from]
    BY <1>n DEF Listed
  <2>2. row.from \in Namespaces /\ row.gen \in Nat
    BY DEF Rows
  <2>3. CASE row.from = n
    BY <2>1, <2>2, <2>3, <1>gen, <1>at, <1>elsewhere
  <2>4. CASE row.from # n
    BY <2>1, <2>2, <2>4, <1>gen, <1>at, <1>other DEF Listed
  <2>5. QED
    BY <2>3, <2>4
<1>9. Handled'
  <2> SUFFICES ASSUME NEW v \in Workers, NEW f \in Namespaces, at'[v] = "rows",
                      f # ns[v], f \notin met[v], link'[f][ns[v]] # None
               PROVE  \/ link'[f][ns[v]] = symbol[ns[v]]
                      \/ \E row \in pending[v] : row.from = f
    BY <1>same DEF Handled
  <2>1. v # w /\ at[v] = "rows" /\ ns[v] \in Namespaces
    BY <1>at DEF Attending
  <2>2. f # n
    BY <2>1, <1>elsewhere
  <2>3. QED
    BY <2>1, <2>2, <1>other, link'[f] = link[f] DEF Handled
<1>10. Complete'
  BY <1>n, <1>same, <1>other DEF Complete
<1>11. ExactUnlessRaced'
  BY <1>n, <1>same, <1>other DEF ExactUnlessRaced, RowExact, Settled
<1>12. QED
  BY <1>1, <1>2, <1>3, <1>4, <1>5, <1>6, <1>7, <1>8, <1>9, <1>10, <1>11

\* Every inbound row is listed as it is.
LEMMA ListInboundIInv ==
    ASSUME IInv, NEW w \in Workers, ListInbound(w)
    PROVE  IInv'
<1> USE CrossRefsAssumption DEF IInv, TypeOK, NodeIds, graphVars, historyVars, Goto, ListInbound, Inbound
<1>n. ns[w] \in Namespaces
  BY DEF Attending
<1>1. TypeOK'
  <2>1. \A f \in Inbound(ns[w]) : [from |-> f, gen |-> gen[f], seen |-> link[f][ns[w]]] \in Rows
    BY <1>n DEF Rows
  <2>2. pending' \in [Workers -> SUBSET Rows]
    BY <2>1
  <2>3. at' \in [Workers -> {"idle", "outbound", "inbound", "rows"}]
    OBVIOUS
  <2>4. QED
    BY <2>2, <2>3
<1>2. Apart'
  BY DEF Apart
<1>3. Attending'
  BY DEF Attending
<1>4. Resting'
  BY DEF Resting
<1>5. MemoCurrent'
  BY DEF MemoCurrent
<1>6. RowsComplete'
  BY DEF RowsComplete, Replaced
<1>7. RowsExact'
  BY DEF RowsExact, Replaced, RowExact
<1>8. Listed'
  BY DEF Listed
<1>9. Handled'
  <2> SUFFICES ASSUME NEW v \in Workers, NEW f \in Namespaces, at'[v] = "rows",
                      f # ns[v], f \notin met[v], link[f][ns[v]] # None
               PROVE  \/ link[f][ns[v]] = symbol[ns[v]]
                      \/ \E row \in pending'[v] : row.from = f
    BY DEF Handled
  <2>1. CASE v = w
    <3>1. f \in Inbound(ns[w])
      BY <2>1
    <3>2. [from |-> f, gen |-> gen[f], seen |-> link[f][ns[w]]] \in pending'[w]
      BY <3>1
    <3>3. QED
      BY <2>1, <3>2
  <2>2. CASE v # w
    BY <2>2 DEF Handled
  <2>3. QED
    BY <2>1, <2>2
<1>10. Complete'
  BY DEF Complete
<1>11. ExactUnlessRaced'
  BY DEF ExactUnlessRaced, RowExact, Settled
<1>12. QED
  BY <1>1, <1>2, <1>3, <1>4, <1>5, <1>6, <1>7, <1>8, <1>9, <1>10, <1>11

\* An update touches one existing row of the namespace it resolves.
LEMMA UpdateRowIInv ==
    ASSUME IInv, NEW w \in Workers, NEW row \in pending[w], UpdateRow(w, row)
    PROVE  IInv'
<1> USE CrossRefsAssumption DEF IInv, TypeOK, NodeIds, graphVars, historyVars
<1> DEFINE n == ns[w]
<1>n. n \in Namespaces /\ n \in owed /\ n \notin met[w] /\ at[w] = "rows"
  BY DEF UpdateRow, Attending
<1>row. /\ row.from \in Namespaces /\ row.gen \in Nat /\ row.seen \in NodeIds
        /\ row.from # n
        /\ row.gen = gen[row.from] => link[row.from][n] # None
        /\ row.from \notin met[w] => row.gen = gen[row.from] /\ row.seen = link[row.from][n]
  BY DEF Rows, Listed
<1>target. Resolved(w, n) = symbol[n] /\ symbol[n] \in NodeIds
  BY <1>n DEF Resolved, MemoCurrent
<1>same. UNCHANGED <<symbol, tags, commits, gen, at, ns, owed, met, raced>>
  BY DEF UpdateRow
<1>pending. /\ pending'[w] = pending[w] \ {row}
            /\ \A v \in Workers : v # w => pending'[v] = pending[v]
            /\ pending' \in [Workers -> SUBSET Rows]
  BY DEF UpdateRow
<1>memo. /\ memo' \in [Workers -> [Namespaces -> NodeIds \union {None}]]
         /\ memo'[w][n] = symbol[n]
         /\ \A v \in Workers, t \in Namespaces :
                <<v, t>> # <<w, n>> => memo'[v][t] = memo[v][t]
  BY <1>n, <1>target DEF UpdateRow
<1>link. /\ link' \in [Namespaces -> [Namespaces -> NodeIds \union {None}]]
         /\ \A f, t \in Namespaces : ~(f = row.from /\ t = n) => link'[f][t] = link[f][t]
         /\ row.seen # symbol[n] /\ gen[row.from] = row.gen => link'[row.from][n] = symbol[n]
         /\ ~(row.seen # symbol[n] /\ gen[row.from] = row.gen) => link' = link
  <2>1. CASE Updates(row, symbol[n])
    <3>1. link' = [link EXCEPT ![row.from][n] = symbol[n]]
      BY <2>1, <1>target DEF UpdateRow
    <3>2. QED
      BY <2>1, <3>1, <1>n, <1>row, <1>target DEF Updates
  <2>2. CASE ~Updates(row, symbol[n])
    BY <2>2, <1>target DEF UpdateRow, Updates
  <2>3. QED
    BY <2>1, <2>2
<1>exists. \A f, t \in Namespaces : link'[f][t] # None <=> link[f][t] # None
  <2> SUFFICES ASSUME NEW f \in Namespaces, NEW t \in Namespaces
               PROVE  link'[f][t] # None <=> link[f][t] # None
    OBVIOUS
  <2>1. symbol[n] # None
    BY <1>target
  <2>2. CASE f = row.from /\ t = n /\ row.seen # symbol[n] /\ gen[row.from] = row.gen
    BY <2>1, <2>2, <1>link, <1>row
  <2>3. CASE f = row.from /\ t = n /\ ~(row.seen # symbol[n] /\ gen[row.from] = row.gen)
    BY <2>3, <1>link
  <2>4. CASE ~(f = row.from /\ t = n)
    BY <2>4, <1>link
  <2>5. QED
    BY <2>2, <2>3, <2>4
<1>current. row.from \notin met[w] => link'[row.from][n] = symbol[n]
  BY <1>link, <1>row
<1>elsewhere. \A v \in Workers : v # w /\ at[v] # "idle" => ns[v] # n /\ n \in met[v]
  BY <1>n DEF Apart
<1>active. \A v \in Workers : at[v] # "idle" => ns[v] \in Namespaces
  BY DEF Attending
<1>1. TypeOK'
  BY <1>same, <1>pending, <1>memo, <1>link
<1>2. Apart'
  BY <1>same DEF Apart
<1>3. Attending'
  BY <1>same DEF Attending
<1>4. Resting'
  <2> SUFFICES ASSUME NEW v \in Workers, at[v] = "idle"
               PROVE  memo'[v] = NoMemo /\ pending'[v] = {} /\ met[v] = {}
    BY <1>same DEF Resting
  <2>1. v # w
    BY <1>n
  <2>2. memo'[v] = memo[v]
    BY <2>1 DEF UpdateRow
  <2>3. QED
    BY <2>1, <2>2, <1>pending DEF Resting
<1>5. MemoCurrent'
  BY SMTT(30), <1>same, <1>memo DEF MemoCurrent
<1>6. RowsComplete'
  BY <1>same, <1>exists, <1>active DEF RowsComplete, Replaced
<1>7. RowsExact'
  <2> SUFFICES ASSUME NEW v \in Workers, NEW t \in Namespaces, Replaced(v), t \notin met[v]
               PROVE  link'[ns[v]][t] = IF t \in tags[ns[v]] THEN symbol[t] ELSE None
    BY <1>same DEF RowsExact, RowExact, Replaced
  <2>1. ~(ns[v] = row.from /\ t = n)
    BY <1>row, <1>elsewhere DEF Replaced
  <2>2. QED
    BY <2>1, <1>link, <1>active DEF RowsExact, RowExact, Replaced
<1>8. Listed'
  <2> SUFFICES ASSUME NEW v \in Workers, NEW r \in pending'[v]
               PROVE  /\ at[v] = "rows"
                      /\ r.from # ns[v]
                      /\ r.gen <= gen[r.from]
                      /\ r.gen = gen[r.from] => link'[r.from][ns[v]] # None
                      /\ r.from \notin met[v] =>
                             r.gen = gen[r.from] /\ r.seen = link'[r.from][ns[v]]
    BY <1>same DEF Listed
  <2>1. r \in pending[v]
    BY <1>pending
  <2>2. /\ at[v] = "rows"
        /\ r.from # ns[v]
        /\ r.gen <= gen[r.from]
        /\ r.gen = gen[r.from] => link[r.from][ns[v]] # None
        /\ r.from \notin met[v] => r.gen = gen[r.from] /\ r.seen = link[r.from][ns[v]]
    BY <2>1 DEF Listed
  <2>3. r.from \in Namespaces /\ ns[v] \in Namespaces
    BY <2>1, <2>2, <1>active DEF Rows
  <2>4. CASE v # w
    <3>1. ns[v] # n
      BY <2>2, <2>4, <1>elsewhere
    <3>2. link'[r.from][ns[v]] = link[r.from][ns[v]]
      BY <3>1, <2>3, <1>link
    <3>3. QED
      BY <2>2, <3>2
  <2>5. CASE v = w /\ r.from # row.from
    <3>1. link'[r.from][ns[v]] = link[r.from][ns[v]]
      BY <2>3, <2>5, <1>link
    <3>2. QED
      BY <2>2, <3>1
  <2>6. CASE v = w /\ r.from = row.from
    <3>1. r # row /\ r \in Rows /\ row \in Rows
      BY <2>1, <2>6, <1>pending
    <3>2. r.from \in met[w]
      <4>1. ASSUME r.from \notin met[w]
            PROVE  FALSE
        <5>1. r.gen = row.gen /\ r.seen = row.seen
          BY <4>1, <2>2, <2>6, <1>row
        <5>2. /\ r = [from |-> r.from, gen |-> r.gen, seen |-> r.seen]
              /\ row = [from |-> row.from, gen |-> row.gen, seen |-> row.seen]
          BY <3>1 DEF Rows
        <5>3. QED
          BY <5>1, <5>2, <2>6, <3>1
      <4>2. QED
        BY <4>1
    <3>3. QED
      BY <2>2, <2>3, <2>6, <3>2, <1>exists
  <2>7. QED
    BY <2>4, <2>5, <2>6
<1>9. Handled'
  <2> SUFFICES ASSUME NEW v \in Workers, NEW f \in Namespaces, at[v] = "rows",
                      f # ns[v], f \notin met[v], link'[f][ns[v]] # None
               PROVE  \/ link'[f][ns[v]] = symbol[ns[v]]
                      \/ \E r \in pending'[v] : r.from = f
    BY SMTT(30), <1>same DEF Handled
  <2>1. ns[v] \in Namespaces /\ link[f][ns[v]] # None
    BY <1>active, <1>exists
  <2>2. \/ link[f][ns[v]] = symbol[ns[v]]
        \/ \E r \in pending[v] : r.from = f
    BY <2>1 DEF Handled
  <2>3. CASE v = w /\ f = row.from
    BY <2>3, <1>current
  <2>4. CASE v # w
    <3>1. link'[f][ns[v]] = link[f][ns[v]]
      BY <2>1, <2>4, <1>elsewhere, <1>link
    <3>2. QED
      BY <2>2, <2>4, <3>1, <1>pending
  <2>5. CASE v = w /\ f # row.from
    <3>1. link'[f][ns[v]] = link[f][ns[v]]
      BY <2>1, <2>5, <1>link
    <3>2. QED
      BY <2>2, <2>5, <3>1, <1>pending
  <2>6. QED
    BY <2>3, <2>4, <2>5
<1>10. Complete'
  BY <1>same, <1>exists DEF Complete
<1>11. ExactUnlessRaced'
  <2> SUFFICES ASSUME NEW f \in Namespaces, NEW t \in Namespaces,
                      f \notin owed, t \notin owed, <<f, t>> \notin raced
               PROVE  link'[f][t] = IF t \in tags[f] THEN symbol[t] ELSE None
    BY <1>same DEF ExactUnlessRaced, RowExact, Settled
  <2>1. link'[f][t] = link[f][t]
    BY <1>n, <1>link
  <2>2. QED
    BY <2>1 DEF ExactUnlessRaced, RowExact, Settled
<1>12. QED
  BY <1>1, <1>2, <1>3, <1>4, <1>5, <1>6, <1>7, <1>8, <1>9, <1>10, <1>11

\* A completed pass settles its namespace with every one it did not meet.
LEMMA DoneIInv ==
    ASSUME IInv, NEW w \in Workers, Done(w)
    PROVE  IInv'
<1> USE CrossRefsAssumption DEF IInv, TypeOK, NodeIds, graphVars, historyVars, Goto, Done, Leave
<1>n. ns[w] \in Namespaces /\ ns[w] \notin met[w] /\ at[w] = "rows"
  BY DEF Attending
<1>elsewhere. \A v \in Workers : v # w /\ at[v] # "idle" => ns[v] # ns[w]
  BY <1>n DEF Apart
<1>1. TypeOK'
  <2>1. raced' \in SUBSET (Namespaces \X Namespaces)
    BY <1>n
  <2>2. at' \in [Workers -> {"idle", "outbound", "inbound", "rows"}]
        /\ ns' \in [Workers -> Namespaces \union {None}]
    OBVIOUS
  <2>3. memo' \in [Workers -> [Namespaces -> NodeIds \union {None}]]
    BY DEF NoMemo
  <2>4. pending' \in [Workers -> SUBSET Rows] /\ met' \in [Workers -> SUBSET Namespaces]
    OBVIOUS
  <2>5. QED
    BY <2>1, <2>2, <2>3, <2>4
<1>2. Apart'
  BY DEF Apart
<1>3. Attending'
  BY <1>elsewhere DEF Attending
<1>4. Resting'
  BY DEF Resting
<1>5. MemoCurrent'
  BY DEF MemoCurrent
<1>6. RowsComplete'
  BY DEF RowsComplete, Replaced
<1>7. RowsExact'
  BY DEF RowsExact, Replaced, RowExact
<1>8. Listed'
  BY DEF Listed
<1>9. Handled'
  <2>1. \A v \in Workers : at'[v] = "rows" =>
           /\ at[v] = "rows" /\ ns'[v] = ns[v]
           /\ met'[v] = met[v] /\ pending'[v] = pending[v]
    OBVIOUS
  <2>2. link' = link /\ symbol' = symbol /\ Handled
    OBVIOUS
  <2> HIDE DEF IInv, TypeOK, Done, Leave
  <2>3. QED
    BY <2>1, <2>2 DEF Handled
<1>10. Complete'
  BY <1>n DEF Complete, RowsComplete, Replaced
<1>11. ExactUnlessRaced'
  <2> SUFFICES ASSUME NEW f \in Namespaces, NEW t \in Namespaces,
                      f \notin owed', t \notin owed', <<f, t>> \notin raced'
               PROVE  RowExact(f, t)
    BY DEF ExactUnlessRaced, Settled, RowExact
  <2>1. CASE f = ns[w]
    <3>1. t \notin met[w]
      BY <2>1
    <3>2. QED
      BY <2>1, <3>1, <1>n DEF RowsExact, Replaced
  <2>2. CASE f # ns[w] /\ t = ns[w]
    <3>1. f \notin met[w] /\ f \notin owed
      BY <2>2
    <3>2. link[f][t] # None => link[f][t] = symbol[t]
      BY <2>2, <3>1, <1>n DEF Handled
    <3>3. link[f][t] # None <=> t \in tags[f]
      BY <3>1 DEF Complete
    <3>4. QED
      BY <3>2, <3>3 DEF RowExact
  <2>3. CASE f # ns[w] /\ t # ns[w]
    <3>1. <<f, t>> \notin raced
      BY <2>3
    <3>2. QED
      BY <2>3, <3>1 DEF ExactUnlessRaced, Settled
  <2>4. QED
    BY <2>1, <2>2, <2>3
<1>12. QED
  BY <1>1, <1>2, <1>3, <1>4, <1>5, <1>6, <1>7, <1>8, <1>9, <1>10, <1>11

\* A failed pass leaves the namespace owing.
LEMMA FailIInv ==
    ASSUME IInv, NEW w \in Workers, Fail(w)
    PROVE  IInv'
<1> USE CrossRefsAssumption DEF IInv, TypeOK, NodeIds, graphVars, historyVars, Goto, Fail, Leave
<1>1. TypeOK'
  BY DEF Rows, NoMemo, Dead
<1>2. Apart'
  BY DEF Apart
<1>3. Attending'
  BY DEF Attending
<1>4. Resting'
  BY DEF Resting
<1>5. MemoCurrent'
  BY DEF MemoCurrent
<1>6. RowsComplete'
  BY DEF RowsComplete, Replaced
<1>7. RowsExact'
  BY DEF RowsExact, Replaced, RowExact
<1>8. Listed'
  BY DEF Listed
<1>9. Handled'
  BY DEF Handled
<1>10. Complete'
  BY DEF Complete
<1>11. ExactUnlessRaced'
  BY DEF ExactUnlessRaced, RowExact, Settled
<1>12. QED
  BY <1>1, <1>2, <1>3, <1>4, <1>5, <1>6, <1>7, <1>8, <1>9, <1>10, <1>11

-----------------------------------------------------------------------------
\* The invariant holds in every reachable state.
THEOREM Invariance == Spec => []IInv
<1>1. IInv /\ [Next]_vars => IInv'
  <2> SUFFICES ASSUME IInv, [Next]_vars
               PROVE  IInv'
    OBVIOUS
  <2>1. CASE Next
    BY <2>1, CommitIInv, ResolveTagIInv, ReplaceRowsIInv, ListInboundIInv, UpdateRowIInv,
       DoneIInv, FailIInv DEF Next, Step
  <2>2. CASE UNCHANGED vars
    BY <2>2
    DEF vars, IInv, TypeOK, Rows, NodeIds, NoMemo, Apart, Attending, Resting, MemoCurrent,
        RowsComplete, RowsExact, Replaced, Listed, Handled, Complete, ExactUnlessRaced,
        RowExact, Settled
  <2>3. QED
    BY <2>1, <2>2
<1>2. QED
  BY <1>1, InitIInv, PTL DEF Spec

\* Every variable of the cross-reference pass keeps its shape.
THEOREM CrossRefsTypeCorrect == Spec => []TypeOK
  BY Invariance, PTL DEF IInv

\* ReplaceCrossRefsFrom and UpdateCrossRefResolution: however the passes of
\* different namespaces interleave, a settled namespace has a row for each of its
\* tags and no other.
THEOREM RowsMatchTags == Spec => []OutboundComplete
<1>1. IInv => OutboundComplete
  BY DEF IInv, TypeOK, Complete, OutboundComplete
<1>2. QED
  BY <1>1, Invariance, PTL

\* SyncNamespace: a row between two settled namespaces is exact unless their last
\* passes overlapped.
THEOREM ExactWithoutRace == Spec => []ExactUnlessRaced
  BY Invariance, PTL DEF IInv


\* With one worker (what ccg-server starts for SQLite) no pass meets another.
NoRace == raced = {} /\ \A w \in Workers : met[w] = {}

\* refs are re-resolved whenever either side rebuilds: with one worker that is so.
THEOREM SerialRefsFollowRebuilds ==
    ASSUME \A v, w \in Workers : v = w
    PROVE  Spec => []RefsFollowRebuilds
<1>1. Init => NoRace
  BY DEF Init, NoRace
<1>2. IInv /\ NoRace /\ [Next]_vars => NoRace'
  <2> SUFFICES ASSUME IInv, NoRace, [Next]_vars
               PROVE  NoRace'
    OBVIOUS
  <2>1. CASE UNCHANGED vars
    BY <2>1 DEF vars, NoRace
  <2>2. ASSUME NEW w \in Workers, NEW n \in Namespaces, NEW id \in NodeIds,
               NEW refs \in SUBSET Namespaces, Commit(w, n, id, refs)
        PROVE  NoRace'
    <3>1. Active = {}
      BY <2>2 DEF Commit, Goto, Active
    <3>2. QED
      BY <2>2, <3>1 DEF Commit, NoRace
  <2>3. ASSUME NEW w \in Workers, Done(w)
        PROVE  NoRace'
    BY <2>3 DEF Done, Leave, NoRace, IInv, TypeOK
  <2>4. ASSUME NEW w \in Workers, Fail(w)
        PROVE  NoRace'
    BY <2>4 DEF Fail, Leave, NoRace, IInv, TypeOK
  <2>5. ASSUME NEW w \in Workers, UNCHANGED <<met, raced>>
        PROVE  NoRace'
    BY <2>5 DEF NoRace
  <2>6. QED
    BY <2>1, <2>2, <2>3, <2>4, <2>5
    DEF Next, Step, ResolveTag, ReplaceRows, ListInbound, UpdateRow, historyVars
<1>3. IInv /\ NoRace => RefsFollowRebuilds
  BY DEF IInv, NoRace, ExactUnlessRaced, RefsFollowRebuilds
<1>4. QED
  BY <1>1, <1>2, <1>3, Invariance, PTL DEF Spec

=============================================================================
