---------------------------- MODULE AnswersProofs ----------------------------
(***************************************************************************)
(* What the answers of the server are: those that handlers compute from    *)
(* the request and what there is (the webhook's admission, the searches    *)
(* of the graph, the resolver's passes over a batch of edges, the pages of *)
(* risks and of affected flows), for every configuration, graph, diff and  *)
(* request, and those of the query cache, for any number of queries,       *)
(* readers and writers.                                                    *)
(*                                                                         *)
(* The definitions that loop are functions that recurse over 0 .. N; a     *)
(* lemma here proves what each of them computes, by the induction on       *)
(* natural numbers that the first section derives from the well-founded    *)
(* order of finite sets.                                                   *)
(***************************************************************************)
EXTENDS QueryCache, Handlers, Integers, FiniteSetTheorems, TLAPS

-----------------------------------------------------------------------------
\* Induction over numbers, and functions that are defined by it

\* A set of natural numbers that is not empty has a least one: the sets 1 .. m are
\* finite, and strict inclusion is well-founded on finite sets.
LEMMA LeastOf == ASSUME NEW T \in SUBSET Nat, T # {} PROVE \E m \in T : \A k \in T : m <= k
<1> DEFINE R == StrictSubsetOrdering(Nat)
           F == FiniteSubsetsOf(Nat)
           U == {1 .. m : m \in T}
<1>1. IsWellFoundedOn(R, F) BY FS_StrictSubsetOrderingWellFounded
<1>2. U \subseteq F
  <2> SUFFICES ASSUME NEW m \in T PROVE 1 .. m \in F OBVIOUS
  <2>1. IsFiniteSet(1 .. m) BY FS_Interval
  <2>2. 1 .. m \in SUBSET Nat OBVIOUS
  <2> QED BY <2>1, <2>2 DEF FiniteSubsetsOf
<1>3. U # {} OBVIOUS
<1>4. PICK u \in U : \A y \in U : <<y, u>> \notin R
  <2> HIDE DEF R, F, U
  <2> QED BY <1>1, <1>2, <1>3, WFMin
<1>5. PICK m \in T : u = 1 .. m OBVIOUS
<1>6. ASSUME NEW k \in T, k < m PROVE FALSE
  <2>1. <<1 .. k, u>> \notin R BY <1>4
  <2>2. 1 .. k \subseteq u BY <1>5, <1>6
  <2>3. m \in u /\ m \notin 1 .. k BY <1>5, <1>6
  <2>4. 1 .. k \in SUBSET Nat /\ u \in SUBSET Nat BY <1>5
  <2>5. <<1 .. k, u>> \in (SUBSET Nat) \X (SUBSET Nat) BY <2>4
  <2> QED BY <2>1, <2>2, <2>3, <2>5, Zenon DEF StrictSubsetOrdering
<1> QED BY <1>6

\* Induction over the natural numbers, for a set.
LEMMA SetInduction == ASSUME NEW S \in SUBSET Nat, 0 \in S, \A n \in S : n + 1 \in S PROVE S = Nat
<1> SUFFICES ASSUME Nat \ S # {} PROVE FALSE OBVIOUS
<1>1. PICK m \in Nat \ S : \A k \in Nat \ S : m <= k BY LeastOf
<1>2. m # 0 BY <1>1
<1>3. m - 1 \in Nat BY <1>2, <1>1
<1>4. m - 1 \in S BY <1>3, <1>1
<1>5. m \in S BY <1>4, <1>3
<1> QED BY <1>5, <1>1

\* The same up to a bound.
LEMMA UpToInduction ==
    ASSUME NEW N \in Nat, NEW S, 0 \in S, \A i \in 1 .. N : i - 1 \in S => i \in S
    PROVE  0 .. N \subseteq S
<1> DEFINE T == {i \in Nat : i \in 0 .. N => i \in S}
<1>1. 0 \in T OBVIOUS
<1>2. ASSUME NEW n \in T PROVE n + 1 \in T
  <2>1. n \in Nat /\ n + 1 \in Nat OBVIOUS
  <2>2. CASE n + 1 \in 0 .. N
    <3>1. n \in 0 .. N /\ n + 1 \in 1 .. N /\ (n + 1) - 1 = n BY <2>1, <2>2
    <3>2. n \in S BY <3>1
    <3> QED BY <3>1, <3>2, <2>1
  <2> QED BY <2>1, <2>2
<1>3. T = Nat
  <2>1. T \in SUBSET Nat OBVIOUS
  <2> HIDE DEF T
  <2> QED BY <1>1, <1>2, <2>1, SetInduction
<1> QED BY <1>3

\* The function on 0 .. N that starts with b and goes on with F[i] at i.
Recurs(g, D, b, N, F) ==
    g \in [0 .. N -> D] /\ g[0] = b /\ \A i \in 1 .. N : g[i] = F[i][g[i - 1]]

\* There is such a function, for every step that stays in D.
LEMMA Recursion ==
    ASSUME NEW D, NEW b \in D, NEW N \in Nat, NEW F \in [1 .. N -> [D -> D]]
    PROVE  \E g : Recurs(g, D, b, N, F)
<1> DEFINE S == {n \in 0 .. N : \E g : Recurs(g, D, b, n, F)}
<1>1. 0 \in S
  <2> DEFINE g == [i \in 0 .. 0 |-> b]
  <2>1. Recurs(g, D, b, 0, F) BY DEF Recurs
  <2> HIDE DEF g
  <2> QED BY <2>1
<1>2. ASSUME NEW n \in 1 .. N, n - 1 \in S PROVE n \in S
  <2>1. PICK g : Recurs(g, D, b, n - 1, F) BY <1>2
  <2> DEFINE h == [i \in 0 .. n |-> IF i = n THEN F[n][g[n - 1]] ELSE g[i]]
  <2>2. F[n][g[n - 1]] \in D BY <2>1 DEF Recurs
  <2>3. h \in [0 .. n -> D] BY <2>1, <2>2 DEF Recurs
  <2>4. h[0] = b BY <2>1 DEF Recurs
  <2>5. ASSUME NEW i \in 1 .. n PROVE h[i] = F[i][h[i - 1]]
    <3>1. h[i - 1] = g[i - 1] OBVIOUS
    <3>2. CASE i = n BY <3>1, <3>2
    <3>3. CASE i # n
      <4>1. i \in 1 .. n - 1 BY <3>3
      <4>2. g[i] = F[i][g[i - 1]] BY <2>1, <4>1 DEF Recurs
      <4>3. h[i] = g[i] BY <3>3
      <4> QED BY <3>1, <4>2, <4>3
    <3> QED BY <3>2, <3>3
  <2>6. Recurs(h, D, b, n, F)
    <3> HIDE DEF h
    <3> QED BY <2>3, <2>4, <2>5 DEF Recurs
  <2> HIDE DEF h
  <2> QED BY <2>6
<1>3. 0 .. N \subseteq S
  <2> HIDE DEF S
  <2> QED BY <1>1, <1>2, UpToInduction
<1> QED BY <1>3

-----------------------------------------------------------------------------
\* Sequences

\* No element comes twice.
Distinct(q) == \A i, j \in 1 .. Len(q) : q[i] = q[j] => i = j

\* Two sequences are equal when their elements are.
LEMMA SameSequence ==
    ASSUME NEW E, NEW s \in Seq(E), NEW t \in Seq(E), Len(s) = Len(t),
           \A i \in 1 .. Len(s) : s[i] = t[i]
    PROVE  s = t
<1>1. s = [i \in 1 .. Len(s) |-> s[i]] OBVIOUS
<1>2. t = [i \in 1 .. Len(t) |-> t[i]] OBVIOUS
<1> QED BY <1>1, <1>2, Zenon

\* What is in a sequence with one element more, and where.
LEMMA RangeOfAppend ==
    ASSUME NEW E, NEW q \in Seq(E), NEW x \in E
    PROVE  /\ Append(q, x) \in Seq(E) /\ Len(Append(q, x)) = Len(q) + 1
           /\ Range(Append(q, x)) = Range(q) \union {x}
           /\ Append(q, x)[Len(q) + 1] = x
           /\ \A i \in 1 .. Len(q) : Append(q, x)[i] = q[i]
<1>1. Append(q, x) \in Seq(E) /\ Len(Append(q, x)) = Len(q) + 1 OBVIOUS
<1>2. Append(q, x)[Len(q) + 1] = x OBVIOUS
<1>3. \A i \in 1 .. Len(q) : Append(q, x)[i] = q[i] OBVIOUS
<1>4. DOMAIN Append(q, x) = 1 .. Len(q) + 1 /\ DOMAIN q = 1 .. Len(q) OBVIOUS
<1>5. 1 .. Len(q) + 1 = (1 .. Len(q)) \union {Len(q) + 1} OBVIOUS
<1> DEFINE a == Append(q, x)
           I == 1 .. Len(q)
           m == Len(q) + 1
<1>6. /\ DOMAIN a = I \union {m} /\ DOMAIN q = I
      /\ a[m] = x /\ \A i \in I : a[i] = q[i]
  BY <1>2, <1>3, <1>4, <1>5, Zenon
<1>7. Range(a) = Range(q) \union {x}
  <2>1. Range(a) = {a[i] : i \in I \union {m}} /\ Range(q) = {q[i] : i \in I}
    BY <1>6, Zenon DEF Range
  <2> HIDE DEF a, I, m
  <2> QED BY <1>6, <2>1
<1> QED BY <1>1, <1>2, <1>3, <1>7

\* Kept(seq, set) has the elements of the sequence that are in the set.
LEMMA KeptIs ==
    ASSUME NEW E, NEW seq \in Seq(E), NEW set
    PROVE  Kept(seq, set) \in Seq(E) /\ Range(Kept(seq, set)) = Range(seq) \intersect set
<1> DEFINE N == Len(seq)
           Step(k, i) == IF seq[i] \in set THEN Append(k, seq[i]) ELSE k
           F == [i \in 1 .. N |-> [k \in Seq(E) |-> Step(k, i)]]
           v == CHOOSE kept : kept = [i \in 0 .. N |-> IF i = 0 THEN <<>> ELSE
                                        IF seq[i] \in set THEN Append(kept[i - 1], seq[i]) ELSE kept[i - 1]]
<1>1. N \in Nat /\ DOMAIN seq = 1 .. N /\ \A i \in 1 .. N : seq[i] \in E OBVIOUS
<1>2. F \in [1 .. N -> [Seq(E) -> Seq(E)]] BY <1>1
<1>3. v = [i \in 0 .. N |-> IF i = 0 THEN <<>> ELSE
               IF seq[i] \in set THEN Append(v[i - 1], seq[i]) ELSE v[i - 1]]
  <2>1. PICK g : Recurs(g, Seq(E), <<>>, N, F)
    <3>1. <<>> \in Seq(E) OBVIOUS
    <3> HIDE DEF N, F
    <3> QED BY <1>1, <1>2, <3>1, Recursion, Zenon
  <2>2. ASSUME NEW i \in 1 .. N
        PROVE  g[i] = IF seq[i] \in set THEN Append(g[i - 1], seq[i]) ELSE g[i - 1]
    <3>0. i - 1 \in 0 .. N BY <1>1
    <3>1. g[i - 1] \in Seq(E) BY <2>1, <3>0, Zenon DEF Recurs
    <3>2. g[i] = F[i][g[i - 1]] BY <2>1 DEF Recurs
    <3>3. F[i][g[i - 1]] = Step(g[i - 1], i) BY <3>1
    <3> HIDE DEF F
    <3> QED BY <3>2, <3>3
  <2>3. g = [i \in 0 .. N |-> IF i = 0 THEN <<>> ELSE
               IF seq[i] \in set THEN Append(g[i - 1], seq[i]) ELSE g[i - 1]]
    <3>1. g \in [0 .. N -> Seq(E)] /\ g[0] = <<>> BY <2>1, Zenon DEF Recurs
    <3>2. ASSUME NEW i \in 0 .. N
          PROVE  g[i] = IF i = 0 THEN <<>> ELSE
                     IF seq[i] \in set THEN Append(g[i - 1], seq[i]) ELSE g[i - 1]
      <4>1. CASE i = 0 BY <3>1, <4>1
      <4>2. CASE i # 0
        <5>1. i \in 1 .. N BY <1>1, <4>2
        <5> QED BY <2>2, <4>2, <5>1, Zenon
      <4> QED BY <4>1, <4>2
    <3> QED BY <3>1, <3>2, Zenon
  <2> HIDE DEF N
  <2> QED BY <2>3, Zenon
<1>4. Kept(seq, set) = v[N] BY Zenon DEF Kept
<1> DEFINE P(i) == v[i] \in Seq(E) /\ Range(v[i]) = {seq[j] : j \in 1 .. i} \intersect set
           S == {i \in 0 .. N : P(i)}
<1> HIDE DEF v
<1>5. 0 \in S
  <2>1. 0 \in 0 .. N BY <1>1
  <2>2. v[0] = <<>> BY <1>3, <2>1
  <2>3. Range(v[0]) = {} /\ {seq[j] : j \in 1 .. 0} = {} BY <2>2 DEF Range
  <2>4. P(0)
    <3>1. v[0] \in Seq(E) BY <2>2
    <3> QED BY <2>3, <3>1
  <2> HIDE DEF P
  <2> QED BY <2>1, <2>4
<1>6. ASSUME NEW i \in 1 .. N, i - 1 \in S PROVE i \in S
  <2>1. i \in 0 .. N /\ seq[i] \in E BY <1>1
  <2>2. v[i] = IF seq[i] \in set THEN Append(v[i - 1], seq[i]) ELSE v[i - 1]
    <3>1. i # 0 BY <1>1
    <3> HIDE DEF N
    <3> QED BY <1>3, <2>1, <3>1, Zenon
  <2>3. {seq[j] : j \in 1 .. i} = {seq[j] : j \in 1 .. i - 1} \union {seq[i]}
    <3>1. 1 .. i = (1 .. i - 1) \union {i} BY <2>1
    <3> QED BY <3>1
  <2>4. P(i - 1) BY <1>6
  <2>5. P(i) BY <2>1, <2>2, <2>3, <2>4, RangeOfAppend
  <2> QED BY <2>1, <2>5
<1>7. P(N)
  <2> HIDE DEF P
  <2>1. 0 .. N \subseteq S
    <3> HIDE DEF S
    <3> QED BY <1>1, <1>5, <1>6, UpToInduction
  <2> QED BY <1>1, <2>1
<1> QED BY <1>1, <1>4, <1>7 DEF Range

\* What a sequence has after its first n elements.
Added(q, n) == {q[i] : i \in n + 1 .. Len(q)}

\* What is in a longer sequence: the beginning and what was added.
LEMMA RangeOfLonger ==
    ASSUME NEW E, NEW p \in Seq(E), NEW q \in Seq(E), Len(p) <= Len(q),
           \A i \in 1 .. Len(p) : q[i] = p[i]
    PROVE  Range(q) = Range(p) \union Added(q, Len(p))
<1>1. DOMAIN p = 1 .. Len(p) /\ DOMAIN q = 1 .. Len(q) /\ Len(p) \in Nat /\ Len(q) \in Nat OBVIOUS
<1>2. 1 .. Len(q) = (1 .. Len(p)) \union (Len(p) + 1 .. Len(q)) BY <1>1
<1> QED BY <1>1, <1>2, Zenon DEF Range, Added

\* A sequence has no more elements than its length,
LEMMA RangeFinite ==
    ASSUME NEW E, NEW q \in Seq(E)
    PROVE  IsFiniteSet(Range(q)) /\ Cardinality(Range(q)) <= Len(q)
<1>1. Len(q) \in Nat /\ DOMAIN q = 1 .. Len(q) OBVIOUS
<1>2. IsFiniteSet(1 .. Len(q)) /\ Cardinality(1 .. Len(q)) = Len(q) BY <1>1, FS_Interval
<1>3. q \in Surjection(1 .. Len(q), Range(q))
  <2>1. q \in [1 .. Len(q) -> Range(q)] BY <1>1 DEF Range
  <2> QED BY <1>1, <2>1, Zenon DEF Surjection, Range
<1> QED BY <1>2, <1>3, FS_Surjection

\* and as many when none comes twice.
LEMMA DistinctRange ==
    ASSUME NEW E, NEW q \in Seq(E), Distinct(q)
    PROVE  Cardinality(Range(q)) = Len(q)
<1>1. Len(q) \in Nat /\ DOMAIN q = 1 .. Len(q) OBVIOUS
<1>2. q \in [1 .. Len(q) -> Range(q)] BY <1>1 DEF Range
<1>3. q \in Surjection(1 .. Len(q), Range(q)) BY <1>1, <1>2, Zenon DEF Surjection, Range
<1>4. q \in Injection(1 .. Len(q), Range(q)) BY <1>2, Zenon DEF Injection, IsInjective, Distinct
<1>5. ExistsBijection(1 .. Len(q), Range(q)) BY <1>3, <1>4, Zenon DEF ExistsBijection, Bijection
<1> QED BY <1>1, <1>5, FS_CountingElements

\* To append to the second of two sequences is to append to both.
LEMMA AppendToBoth ==
    ASSUME NEW p \in Seq(Nat), NEW q \in Seq(Nat), NEW n \in Nat
    PROVE  p \o Append(q, n) = Append(p \o q, n)
<1> DEFINE a == p \o Append(q, n)
           b == Append(p \o q, n)
<1>1. a \in Seq(Nat) /\ b \in Seq(Nat) /\ Len(a) = Len(b) OBVIOUS
<1>2. \A i \in 1 .. Len(a) : a[i] = b[i] OBVIOUS
<1> HIDE DEF a, b
<1>3. a = b BY <1>1, <1>2, SameSequence
<1> QED BY <1>3 DEF a, b

-----------------------------------------------------------------------------
\* What every answer is

\* What the two handlers of a diff answer.
Risks(r) == {AnalyzePage(o, r.limit, r.offset) : o \in Orders(Candidates(given.has))}
AffectedFlows(r) ==
    IF r.limit \notin 1 .. MaxLimit \/ r.offset < 0 THEN [refused |-> TRUE]
    ELSE [refused |-> FALSE,
          page |-> AffectedFlowsPage(given.has.flows, ChangedNodeIDs(given.has), r.limit, r.offset)]

\* The state: before an answer there is nothing to say; an answer is what its
\* handler computes from what the server has and from the request.
AnsweredRight ==
    /\ given.of = "delivery" =>
          /\ given.has \in Configs /\ ValidConfig(given.has)
          /\ asked # <<>> => \E d \in DeliveriesFor(given.has) :
                asked = <<d>> /\ answer = <<ServeHTTP(given.has, d)>>
    /\ given.of = "impact" =>
          /\ given.has \in GivenGraphs
          /\ asked # <<>> => \E r \in ImpactRequests :
                /\ asked = <<r>>
                /\ answer = <<ImpactRadiusBounded(ImpactEdges(r), r.start, r.depth,
                                                  r.maxDepth, r.maxNodes)>>
    /\ given.of = "flow" =>
          /\ given.has \in GivenCalls
          /\ asked # <<>> => \E r \in FlowRequests :
                /\ asked = <<r>>
                /\ answer = <<TraceFlowBounded(given.has, r.start, r.maxNodes, r.fallback)>>
    /\ given.of = "edges" =>
          /\ given.has \in GivenNodes
          /\ asked # <<>> => \E edges \in Batches :
                /\ asked = <<edges>>
                /\ answer = <<[before |-> ResolveWithOptions(BeforeAdding, edges, FALSE),
                              after |-> ResolveWithOptions(AfterAdding, edges, FALSE),
                              guessed |-> ResolveWithOptions(AfterAdding, edges, TRUE)]>>
    /\ given.of = "changes" =>
          /\ given.has \in GivenDiffs
          /\ asked # <<>> => \E r \in PageRequests :
                /\ asked = <<r>>
                /\ \/ r.of = "risks" /\ answer = <<Risks(r)>>
                   \/ r.of = "flows" /\ answer = <<AffectedFlows(r)>>

\* No step leaves it.
LEMMA AnsweredRightInvariant == ServeSpec => []AnsweredRight
<1>1. Unasked /\ Served => AnsweredRight BY DEF Unasked, Served, AnsweredRight
<1>2. AnsweredRight /\ [Serve]_<<given, asked, answer>> => AnsweredRight'
  <2> SUFFICES ASSUME AnsweredRight, [Serve]_<<given, asked, answer>> PROVE AnsweredRight'
    OBVIOUS
  <2>1. CASE given.of = "delivery" /\ Admit
    <3>1. PICK d \in DeliveriesFor(given.has) : Handle(d, ServeHTTP(given.has, d))
      BY <2>1 DEF Admit
    <3> QED BY <3>1, <2>1 DEF AnsweredRight, Handle
  <2>2. CASE given.of = "impact" /\ GetImpactRadius
    <3>1. PICK r \in ImpactRequests :
              Handle(r, ImpactRadiusBounded(ImpactEdges(r), r.start, r.depth, r.maxDepth, r.maxNodes))
      BY <2>2 DEF GetImpactRadius
    <3> QED BY <3>1, <2>2 DEF AnsweredRight, Handle, ImpactEdges
  <2>3. CASE given.of = "flow" /\ TraceFlow
    <3>1. PICK r \in FlowRequests :
              Handle(r, TraceFlowBounded(given.has, r.start, r.maxNodes, r.fallback))
      BY <2>3 DEF TraceFlow
    <3> QED BY <3>1, <2>3 DEF AnsweredRight, Handle
  <2>4. CASE given.of = "edges" /\ ResolveEdges
    <3>1. PICK edges \in Batches :
              Handle(edges, [before |-> ResolveWithOptions(BeforeAdding, edges, FALSE),
                             after |-> ResolveWithOptions(AfterAdding, edges, FALSE),
                             guessed |-> ResolveWithOptions(AfterAdding, edges, TRUE)])
      BY <2>4 DEF ResolveEdges
    <3> QED BY <3>1, <2>4 DEF AnsweredRight, Handle, BeforeAdding, AfterAdding
  <2>5. CASE given.of = "changes" /\ AskForRisks
    <3>1. PICK r \in PageRequests : r.of = "risks" /\ Handle(r, Risks(r))
      BY <2>5, Zenon DEF AskForRisks, Risks
    <3>2. given' = given /\ asked' = <<r>> /\ answer' = <<Risks(r)>> BY <3>1 DEF Handle
    <3>3. answer' = <<Risks(r)'>> /\ r.of = "risks" BY <3>1, <3>2 DEF Risks
    <3>4. given'.of = "changes" /\ given'.has \in GivenDiffs BY <2>5, <3>2 DEF AnsweredRight
    <3> HIDE DEF Risks, AffectedFlows
    <3> QED BY <3>2, <3>3, <3>4 DEF AnsweredRight
  <2>6. CASE given.of = "changes" /\ GetAffectedFlows
    <3>1. PICK r \in PageRequests : r.of = "flows" /\ Handle(r, AffectedFlows(r))
      BY <2>6, Zenon DEF GetAffectedFlows, AffectedFlows
    <3>2. given' = given /\ asked' = <<r>> /\ answer' = <<AffectedFlows(r)>> BY <3>1 DEF Handle
    <3>3. answer' = <<AffectedFlows(r)'>> /\ r.of = "flows" BY <3>1, <3>2 DEF AffectedFlows
    <3>4. given'.of = "changes" /\ given'.has \in GivenDiffs BY <2>6, <3>2 DEF AnsweredRight
    <3> HIDE DEF Risks, AffectedFlows
    <3> QED BY <3>2, <3>3, <3>4 DEF AnsweredRight
  <2>7. CASE UNCHANGED <<given, asked, answer>>
    BY <2>7 DEF AnsweredRight, ImpactEdges, BeforeAdding, AfterAdding, Risks, AffectedFlows
  <2> QED BY <2>1, <2>2, <2>3, <2>4, <2>5, <2>6, <2>7 DEF Serve
<1> QED BY <1>1, <1>2, PTL DEF ServeSpec

-----------------------------------------------------------------------------
\* Admission

\* A rule as it is parsed.
Rule == [negate : BOOLEAN, path : Segments \ {<<>>}, branches : Seq(SUBSET Branches)]

\* The decision after each rule.
Decisions(rules, name, branch) ==
    CHOOSE decision : decision = [i \in 0 .. Len(rules) |->
        i > 0 /\ Decide(decision[i - 1], rules[i], name, branch)]

\* A name is let in by a rule that is not negated and that it matches.
LEMMA AllowedByARule ==
    ASSUME NEW rules \in Seq(Rule), NEW name, NEW branch, IsAllowedBranch(rules, name, branch)
    PROVE  \E k \in DOMAIN rules : Matches(rules[k], name) /\ ~rules[k].negate
<1> DEFINE N == Len(rules)
           F == [k \in 1 .. N |-> [a \in BOOLEAN |-> Decide(a, rules[k], name, branch)]]
           v == Decisions(rules, name, branch)
<1>0. N \in Nat /\ DOMAIN rules = 1 .. N OBVIOUS
<1>1. ASSUME NEW a \in BOOLEAN, NEW k \in 1 .. N
      PROVE  Decide(a, rules[k], name, branch) \in BOOLEAN
  <2>1. rules[k] \in Rule BY <1>0
  <2>2. rules[k].negate \in BOOLEAN BY <2>1 DEF Rule
  <2> QED BY Zenon, <2>2 DEF Decide
<1>2. F \in [1 .. N -> [BOOLEAN -> BOOLEAN]] BY <1>1
<1>3. \E g : g = [i \in 0 .. N |-> i > 0 /\ Decide(g[i - 1], rules[i], name, branch)]
  <2>1. PICK g : Recurs(g, BOOLEAN, FALSE, N, F)
    <3>1. FALSE \in BOOLEAN OBVIOUS
    <3> HIDE DEF N, F
    <3> QED BY <1>0, <1>2, <3>1, Recursion, Zenon
  <2>2. ASSUME NEW i \in 0 .. N
        PROVE g[i] = (i > 0 /\ Decide(g[i - 1], rules[i], name, branch))
    <3>1. CASE i = 0
      <4>1. g[i] = FALSE BY <2>1, <3>1, Zenon DEF Recurs
      <4>2. ~(i > 0) BY <3>1
      <4> QED BY <4>1, <4>2, Zenon
    <3>2. CASE i # 0
      <4>1. i \in 1 .. N /\ i > 0 /\ i - 1 \in 0 .. N BY <3>2
      <4>2. g[i - 1] \in BOOLEAN BY <4>1, <2>1, Zenon DEF Recurs
      <4>3. g[i] = F[i][g[i - 1]] BY <4>1, <2>1, Zenon DEF Recurs
      <4>4. F[i][g[i - 1]] = Decide(g[i - 1], rules[i], name, branch) BY <4>1, <4>2
      <4>5. Decide(g[i - 1], rules[i], name, branch) \in BOOLEAN BY <1>1, <4>1, <4>2
      <4> HIDE DEF F
      <4> QED BY <4>1, <4>3, <4>4, <4>5, Zenon
    <3> QED BY <3>1, <3>2
  <2>3. g = [i \in 0 .. N |-> i > 0 /\ Decide(g[i - 1], rules[i], name, branch)]
    BY <2>1, <2>2, Zenon DEF Recurs
  <2> QED BY <2>3
<1>4. v = [i \in 0 .. N |-> i > 0 /\ Decide(v[i - 1], rules[i], name, branch)]
  BY <1>3, Zenon DEF Decisions
<1>5. v[N]
  BY <1>4, Zenon DEF IsAllowedBranch, Decisions
<1>6. ASSUME NEW i \in 0 .. N PROVE v[i] = (i > 0 /\ Decide(v[i - 1], rules[i], name, branch))
  <2> HIDE DEF v
  <2> QED BY <1>4
<1> DEFINE S == {i \in 0 .. N : v[i] => \E k \in 1 .. i : Matches(rules[k], name) /\ ~rules[k].negate}
<1>7. 0 \in S
  <2> HIDE DEF v
  <2>1. v[0] = (0 > 0 /\ Decide(v[0 - 1], rules[0], name, branch)) BY <1>0, <1>6
  <2>2. ~(0 > 0) /\ 0 \in 0 .. N BY <1>0
  <2>3. ~v[0] BY <2>1, <2>2, Zenon
  <2> QED BY <2>2, <2>3
<1>8. ASSUME NEW i \in 1 .. N, i - 1 \in S PROVE i \in S
  <2> SUFFICES ASSUME v[i] PROVE \E k \in 1 .. i : Matches(rules[k], name) /\ ~rules[k].negate
    OBVIOUS
  <2>1. Decide(v[i - 1], rules[i], name, branch)
    <3> HIDE DEF v
    <3>0. i \in 0 .. N BY <1>0
    <3>1. v[i] = (i > 0 /\ Decide(v[i - 1], rules[i], name, branch)) BY <1>6, <3>0, Zenon
    <3> QED BY <3>1, Zenon
  <2>2. CASE Matches(rules[i], name)
    <3>1. ~rules[i].negate BY <2>1, <2>2, Zenon DEF Decide
    <3> QED BY <3>1, <2>2
  <2>3. CASE ~Matches(rules[i], name)
    <3>1. v[i - 1] BY <2>1, <2>3, Zenon DEF Decide
    <3> HIDE DEF v
    <3>2. PICK k \in 1 .. i - 1 : Matches(rules[k], name) /\ ~rules[k].negate BY <1>8, <3>1
    <3> QED BY <3>2
  <2> QED BY <2>2, <2>3
<1>9. 0 .. N \subseteq S
  <2> HIDE DEF S
  <2> QED BY <1>0, <1>7, <1>8, UpToInduction
<1>10. N \in S BY <1>9, <1>0
<1> HIDE DEF v
<1> QED BY <1>5, <1>10, <1>0

\* A set with at most one element.
LEMMA AtMostOne ==
    ASSUME NEW S, IsFiniteSet(S), ~(Cardinality(S) > 1), NEW a \in S, NEW b \in S
    PROVE  a = b
<1> SUFFICES ASSUME a # b PROVE FALSE OBVIOUS
<1>1. IsFiniteSet({a}) /\ Cardinality({a}) = 1 BY FS_Singleton
<1>2. Cardinality({a} \union {b}) = 2 BY <1>1, FS_AddElement
<1>3. Cardinality({a} \union {b}) <= Cardinality(S)
  <2>1. {a} \union {b} \subseteq S OBVIOUS
  <2> QED BY <2>1, FS_Subset
<1>4. Cardinality(S) \in Nat BY FS_CardinalityType
<1> QED BY <1>2, <1>3, <1>4

\* The owners of the rules are finitely many,
LEMMA OwnersFinite ==
    ASSUME NEW rules \in Seq(Rule)
    PROVE  IsFiniteSet(AllowRuleOwners(rules))
<1> DEFINE f == [i \in 1 .. Len(rules) |-> Head(rules[i].path)]
           T == {f[i] : i \in 1 .. Len(rules)}
<1>1. IsFiniteSet(1 .. Len(rules)) BY FS_Interval
<1>2. f \in Surjection(1 .. Len(rules), T) BY DEF Surjection
<1>3. IsFiniteSet(T)
  <2> HIDE DEF f, T
  <2> QED BY <1>1, <1>2, FS_Surjection
<1>4. AllowRuleOwners(rules) \subseteq T
  <2> SUFFICES ASSUME NEW o \in AllowRuleOwners(rules) PROVE o \in T OBVIOUS
  <2>1. PICK i \in DOMAIN rules : o = Head(rules[i].path) BY DEF AllowRuleOwners
  <2>2. i \in 1 .. Len(rules) OBVIOUS
  <2>3. o = f[i] BY <2>1, <2>2
  <2> QED BY <2>2, <2>3
<1> HIDE DEF T
<1> QED BY <1>3, <1>4, FS_Subset

\* and no more than one under a valid configuration.
LEMMA OneOwner ==
    ASSUME NEW rules \in Seq(Rule), ~SpanMultipleOwners(rules),
           NEW o \in AllowRuleOwners(rules), NEW p \in AllowRuleOwners(rules)
    PROVE  o = p
<1> DEFINE Owners == AllowRuleOwners(rules)
<1>1. ~(Cardinality(Owners) > 1) BY Zenon DEF SpanMultipleOwners
<1>2. IsFiniteSet(Owners) BY OwnersFinite
<1>3. o \in Owners /\ p \in Owners OBVIOUS
<1> HIDE DEF Owners
<1> QED BY <1>1, <1>2, <1>3, AtMostOne

\* The owner of a name of two segments that a rule lets in is an owner of the
\* rules, for no rule of a valid configuration is for every owner.
LEMMA OwnerOfAllowed ==
    ASSUME NEW rules \in Seq(Rule), ~SpanMultipleOwners(rules),
           NEW name \in Segments, Plain(name), CleanName(name),
           NEW k \in DOMAIN rules, Matches(rules[k], name), ~rules[k].negate
    PROVE  Head(name) \in AllowRuleOwners(rules)
<1> DEFINE path == rules[k].path
           Owners == AllowRuleOwners(rules)
<1>1. path \in Segments /\ path # <<>>
  <2>1. rules[k] \in Rule OBVIOUS
  <2> QED BY <2>1 DEF Rule
<1>2. name \in Seq(Seq(STRING)) /\ Len(name) = 2 /\ Head(name) = name[1] BY DEF Plain, Segments
<1>3. Head(name) # <<"">>
  <2>1. 1 \in DOMAIN name BY <1>2
  <2>2. name[1] \notin Unclean BY <2>1 DEF CleanName
  <2> QED BY <1>2, <2>2 DEF Unclean
<1>4. ASSUME Len(path) >= 2, Head(path) # <<"">> PROVE Head(path) \in Owners
  BY <1>4 DEF AllowRuleOwners
<1>5. CASE Wildcard(rules[k])
  <2>0. /\ Prefix(rules[k]) \in {<<Star>>, <<Head(name)>>}
        /\ Prefix(rules[k]) = Front(path)
    BY <1>5, Zenon DEF Matches, Prefix
  <2>1. Len(path) >= 2 BY <1>5 DEF Wildcard
  <2>2. Front(path) \in {<<Star>>, <<Head(name)>>} BY <2>0
  <2>3. Head(path) = Front(path)[1] BY <1>1, <2>1 DEF Front, Segments
  <2>4. Head(path) \in {Star, Head(name)} BY <2>2, <2>3
  <2>5. ASSUME Head(path) = Star PROVE FALSE
    <3>1. Star \in Owners
      <4>1. Star # <<"">> BY DEF Star
      <4> QED BY <4>1, <1>4, <2>1, <2>5
    <3>2. \A o \in Owners : o = Star
      BY <3>1, OneOwner, Zenon
    <3>3. Owners = {Star} BY <3>1, <3>2
    <3> QED BY <3>3 DEF SpanMultipleOwners
  <2> QED BY <1>3, <1>4, <2>1, <2>4, <2>5
<1>6. CASE ~Wildcard(rules[k])
  <2>1. name = path BY <1>6 DEF Matches
  <2>2. Len(name) >= 2 BY <1>2
  <2> HIDE DEF path, Owners
  <2>3. Len(path) >= 2 /\ Head(path) = Head(name) BY <2>1, <2>2
  <2>4. Head(path) \in Owners BY <1>3, <1>4, <2>3
  <2> QED BY <2>3, <2>4 DEF Owners
<1> QED BY <1>5, <1>6

\* The namespace of a name of two segments is the second.
LEMMA NamespaceOfPlain ==
    ASSUME NEW name \in Segments, Plain(name)
    PROVE  ExtractNamespace(name) = name[2]
<1>1. name \in Seq(Seq(STRING)) /\ Len(name) = 2 BY DEF Plain, Segments
<1>2. ExtractNamespace(name) = FlattenSeq(Tail(name))
  <2>1. ~(Len(name) < 2) BY <1>1
  <2> QED BY <2>1 DEF ExtractNamespace
<1> DEFINE t == Tail(name)
           flatten == CHOOSE f : f = [i \in 1 .. Len(t) |-> IF i = 1 THEN t[i] ELSE f[i - 1] \o t[i]]
<1>3. t \in Seq(Seq(STRING)) /\ Len(t) = 1 /\ t[1] = name[2]
  <2> DEFINE E == Seq(STRING)
  <2> HIDE DEF E
  <2>1. name \in Seq(E) BY <1>1 DEF E
  <2>6. Len(name) = 2 BY <1>1
  <2>3. name # <<>> /\ Len(name) = 2 BY <2>6
  <2>4. t \in Seq(E) /\ Len(t) = Len(name) - 1 BY <2>1, <2>3
  <2>5. \A i \in 1 .. Len(t) : t[i] = name[i + 1] BY <2>1, <2>3
  <2>2. t \in Seq(E) /\ Len(t) = 1 /\ t[1] = name[2]
    <3> HIDE DEF t
    <3> QED BY <2>3, <2>4, <2>5
  <2> QED BY <2>2 DEF E
<1>4. flatten = [i \in 1 .. Len(t) |-> IF i = 1 THEN t[i] ELSE flatten[i - 1] \o t[i]]
  <2> DEFINE f == [i \in 1 .. Len(t) |-> t[i]]
  <2>1. \A i \in 1 .. Len(t) : i = 1
    <3> HIDE DEF t
    <3> QED BY <1>3
  <2>2. f = [i \in 1 .. Len(t) |-> IF i = 1 THEN t[i] ELSE f[i - 1] \o t[i]]
    <3> HIDE DEF t
    <3> QED BY <2>1, Zenon
  <2> HIDE DEF f, t
  <2> QED BY <2>2, Zenon
<1>5. FlattenSeq(t) = flatten[Len(t)]
  <2>1. Len(t) # 0 BY <1>3
  <2> HIDE DEF t
  <2> QED BY <2>1, Zenon DEF FlattenSeq
<1>6. flatten[1] = t[1]
  <2> HIDE DEF flatten, t
  <2> QED BY <1>3, <1>4
<1> HIDE DEF flatten
<1> QED BY <1>2, <1>3, <1>5, <1>6

\* Two names of two segments that a valid configuration lets in have one owner.
LEMMA KeptApart ==
    ASSUME NEW rules \in Seq(Rule), ~SpanMultipleOwners(rules),
           NEW m \in Segments, Plain(m), CleanName(m),
           NEW j \in DOMAIN rules, Matches(rules[j], m), ~rules[j].negate,
           NEW n \in Segments, Plain(n), CleanName(n),
           NEW k \in DOMAIN rules, Matches(rules[k], n), ~rules[k].negate,
           ExtractNamespace(n) = ExtractNamespace(m)
    PROVE  n = m
<1>1. Head(m) \in AllowRuleOwners(rules) BY OwnerOfAllowed
<1>2. Head(n) \in AllowRuleOwners(rules) BY OwnerOfAllowed
<1>3. Head(n) = Head(m)  BY <1>1, <1>2, OneOwner
<1>4. n[2] = m[2] BY NamespaceOfPlain
<1>5. /\ n \in Seq(Seq(STRING)) /\ Len(n) = 2 /\ Head(n) = n[1]
      /\ m \in Seq(Seq(STRING)) /\ Len(m) = 2 /\ Head(m) = m[1]
  BY DEF Plain, Segments
<1>6. \A i \in 1 .. 2 : n[i] = m[i] BY <1>3, <1>4, <1>5
<1> DEFINE E == Seq(STRING)
<1> HIDE DEF E
<1>7. n \in Seq(E) /\ m \in Seq(E) BY <1>5 DEF E
<1> QED BY <1>5, <1>6, <1>7, SameSequence

\* What is added has a clean name that the rules allow.
LEMMA AddedIsAllowed ==
    ASSUME NEW c, NEW d, ServeHTTP(c, d).added # <<>>
    PROVE  IsAllowedBranch(c.rules, d.name, d.branch) /\ CleanName(d.name)
<1> DEFINE url == ResolveCloneURL(d.name, d.url, c.bases, c.insecure)
<1>1. \A s : Respond(s).added = <<>> BY DEF Respond
<1>2. IsAllowedBranch(c.rules, d.name, d.branch) /\ url # Refused
  <2> DEFINE readable == d.readable
             signed == VerifySignature(c, d)
             push == d.event # "push"
             bad == d.body = "bad"
             ignored == \/ d.ref # "branch" \/ IsDeleted(d)
                        \/ ~IsAllowedBranch(c.rules, d.name, d.branch)
             refused == url = Refused
             full == [status |-> QueueStatus(d.queue), added |-> <<d.name, url, d.branch>>]
             reply == ServeHTTP(c, d)
  <2>1. reply = IF ~readable THEN Respond(400) ELSE IF ~signed THEN Respond(403)
                ELSE IF push THEN Respond(200) ELSE IF bad THEN Respond(400)
                ELSE IF ignored THEN Respond(200) ELSE IF refused THEN Respond(403) ELSE full
    BY Zenon DEF ServeHTTP
  <2>2. reply.added # <<>> OBVIOUS
  <2>3. ~ignored /\ ~refused
    <3> HIDE DEF readable, signed, push, bad, ignored, refused, full, reply
    <3>1. reply # Respond(400) /\ reply # Respond(403) /\ reply # Respond(200) BY <1>1, <2>2
    <3>2. CASE ignored
      <4>1. reply = IF ~readable THEN Respond(400) ELSE IF ~signed THEN Respond(403)
                    ELSE IF push THEN Respond(200) ELSE IF bad THEN Respond(400)
                    ELSE Respond(200)
        BY <2>1, <3>2
      <4> QED BY <3>1, <4>1
    <3>3. CASE ~ignored /\ refused
      <4>1. reply = IF ~readable THEN Respond(400) ELSE IF ~signed THEN Respond(403)
                    ELSE IF push THEN Respond(200) ELSE IF bad THEN Respond(400)
                    ELSE Respond(403)
        BY <2>1, <3>3
      <4> QED BY <3>1, <4>1
    <3> QED BY <3>2, <3>3
  <2> QED BY <2>3
<1>3. CleanName(d.name)
  BY <1>2, Zenon DEF ResolveCloneURL
<1> QED BY <1>2, <1>3

\* Two repositories of an owner and a name that a server which started lets in
\* never share a namespace, whatever its configuration, the repositories and
\* the deliveries are.
THEOREM NoSharedNamespace == ServeSpec => []NamespacesKeptApart
<1>1. AnsweredRight => NamespacesKeptApart
  <2> SUFFICES ASSUME AnsweredRight, Answered("delivery"), Reply.added # <<>>, Plain(Request.name),
                      NEW n \in RepoNames, NEW b \in Branches, Plain(n), CleanName(n),
                      LastMatchAllows(given.has.rules, n, b),
                      ExtractNamespace(n) = ExtractNamespace(Request.name)
               PROVE  n = Request.name
    BY DEF NamespacesKeptApart
  <2> DEFINE c == given.has
             d == Request
  <2>1. /\ c \in Configs /\ ValidConfig(c)
        /\ d \in DeliveriesFor(c) /\ Reply = ServeHTTP(c, d)
    BY DEF AnsweredRight, Answered, Request, Reply
  <2>2. c.rules \in Seq(Rule) /\ n \in Segments /\ d.name \in Segments
    BY <2>1, AdmissionAssumption DEF Rule
  <2>3. ~SpanMultipleOwners(c.rules) BY <2>1 DEF ValidConfig
  <2>4. IsAllowedBranch(c.rules, d.name, d.branch) /\ CleanName(d.name)
    BY <2>1, AddedIsAllowed
  <2>5. PICK j \in DOMAIN c.rules : Matches(c.rules[j], d.name) /\ ~c.rules[j].negate
    BY <2>2, <2>4, AllowedByARule
  <2>6. PICK k \in DOMAIN c.rules : Matches(c.rules[k], n) /\ ~c.rules[k].negate
    BY DEF LastMatchAllows
  <2> HIDE DEF c, d
  <2> QED BY <2>2, <2>3, <2>4, <2>5, <2>6, KeptApart DEF d
<1> QED BY <1>1, AnsweredRightInvariant, PTL

-----------------------------------------------------------------------------
\* How a search grows

\* The states of a search, as ImpactRadiusBounded keeps them.
SearchStates == [order : Seq(Nat), next : Seq(Nat), truncated : BOOLEAN]

\* From s to t the nodes of `new` were visited, under the limit.
Grows(s, t, new, maxNodes) ==
    /\ t \in SearchStates /\ Distinct(t.order)
    /\ Len(s.order) <= Len(t.order)
    /\ \A i \in 1 .. Len(s.order) : t.order[i] = s.order[i]
    /\ \A i \in Len(s.order) + 1 .. Len(t.order) : t.order[i] \in new
    /\ Range(t.next) = Range(s.next) \union {t.order[i] : i \in Len(s.order) + 1 .. Len(t.order)}
    /\ s.truncated => t.truncated /\ Len(t.order) = Len(s.order)
    /\ ~t.truncated => new \subseteq Range(t.order)
    /\ t.truncated /\ ~s.truncated =>
          maxNodes > 0 /\ Len(t.order) >= maxNodes /\ \E n \in new : n \notin Range(t.order)
    /\ maxNodes > 0 /\ Len(s.order) <= maxNodes => Len(t.order) <= maxNodes

\* A search that stays as it is has visited nothing.
LEMMA GrowsNone ==
    ASSUME NEW s \in SearchStates, Distinct(s.order), NEW maxNodes \in Nat
    PROVE  Grows(s, s, {}, maxNodes)
<1>1. s.order \in Seq(Nat) BY DEF SearchStates
<1>2. Len(s.order) + 1 .. Len(s.order) = {} BY <1>1
<1> QED BY <1>1, <1>2 DEF Grows

\* What two searches visit one after the other.
LEMMA GrowsOn ==
    ASSUME NEW s \in SearchStates, NEW t, NEW u, NEW A, NEW B, NEW maxNodes \in Nat,
           Grows(s, t, A, maxNodes), Grows(t, u, B, maxNodes)
    PROVE  Grows(s, u, A \union B, maxNodes)
<1>1. /\ t \in SearchStates /\ u \in SearchStates /\ Distinct(u.order)
  BY DEF Grows
<1>2. s.order \in Seq(Nat) /\ t.order \in Seq(Nat) /\ u.order \in Seq(Nat) BY <1>1 DEF SearchStates
<1>3. /\ Len(s.order) <= Len(t.order)
      /\ Len(t.order) <= Len(u.order)
      /\ Len(s.order) \in Nat
      /\ Len(t.order) \in Nat
      /\ Len(u.order) \in Nat
  BY <1>2 DEF Grows
<1>4. /\ \A i \in 1 .. Len(s.order) : t.order[i] = s.order[i]
      /\ \A i \in 1 .. Len(t.order) : u.order[i] = t.order[i]
      /\ \A i \in Len(s.order) + 1 .. Len(t.order) : t.order[i] \in A
      /\ \A i \in Len(t.order) + 1 .. Len(u.order) : u.order[i] \in B
  BY DEF Grows
<1>5. Len(s.order) + 1 .. Len(u.order) =
          (Len(s.order) + 1 .. Len(t.order)) \union (Len(t.order) + 1 .. Len(u.order))
  BY <1>3
<1>6. \A i \in 1 .. Len(s.order) : u.order[i] = s.order[i] BY <1>3, <1>4
<1>7. \A i \in Len(s.order) + 1 .. Len(t.order) : u.order[i] = t.order[i] BY <1>3, <1>4
<1>8. \A i \in Len(s.order) + 1 .. Len(u.order) : u.order[i] \in A \union B
  BY <1>4, <1>5, <1>7, Zenon
<1>9. Range(u.next) = Range(s.next) \union {u.order[i] : i \in Len(s.order) + 1 .. Len(u.order)}
  <2>1. Range(t.next) = Range(s.next) \union {t.order[i] : i \in Len(s.order) + 1 .. Len(t.order)}
    BY DEF Grows
  <2>2. Range(u.next) = Range(t.next) \union {u.order[i] : i \in Len(t.order) + 1 .. Len(u.order)}
    BY DEF Grows
  <2>3. {t.order[i] : i \in Len(s.order) + 1 .. Len(t.order)} =
            {u.order[i] : i \in Len(s.order) + 1 .. Len(t.order)}
    BY <1>7
  <2> QED BY <1>5, <2>1, <2>2, <2>3
<1>10. Range(t.order) \subseteq Range(u.order)
  <2>1. Range(u.order) = Range(t.order) \union {u.order[i] : i \in Len(t.order) + 1 .. Len(u.order)}
    <3> DEFINE p == t.order
               q == u.order
    <3>1. p \in Seq(Nat) /\ q \in Seq(Nat) /\ Len(p) <= Len(q) /\ \A i \in 1 .. Len(p) : q[i] = p[i]
      BY <1>2, <1>3, <1>4
    <3> HIDE DEF p, q
    <3>2. Range(q) = Range(p) \union Added(q, Len(p)) BY <3>1, RangeOfLonger
    <3> QED BY <3>2 DEF p, q, Added
  <2> QED BY <2>1
<1>11. s.truncated => u.truncated /\ Len(u.order) = Len(s.order) BY DEF Grows
<1>12. ~u.truncated => A \union B \subseteq Range(u.order)
  <2>1. ~u.truncated => ~t.truncated BY Zenon DEF Grows
  <2>2. ~t.truncated => A \subseteq Range(t.order) BY Zenon DEF Grows
  <2>3. ~u.truncated => B \subseteq Range(u.order) BY Zenon DEF Grows
  <2> QED BY <1>10, <2>1, <2>2, <2>3
<1>13. u.truncated /\ ~s.truncated =>
          maxNodes > 0 /\ Len(u.order) >= maxNodes /\ \E n \in A \union B : n \notin Range(u.order)
  <2> SUFFICES ASSUME u.truncated, ~s.truncated
               PROVE  maxNodes > 0 /\ Len(u.order) >= maxNodes /\ \E n \in A \union B : n \notin Range(u.order)
    OBVIOUS
  <2>1. CASE t.truncated
    <3>1. maxNodes > 0 /\ Len(t.order) >= maxNodes /\ \E n \in A : n \notin Range(t.order)
      BY <2>1 DEF Grows
    <3>2. Len(u.order) = Len(t.order) BY <2>1 DEF Grows
    <3>3. u.order = t.order
      <4>1. u.order = [i \in 1 .. Len(u.order) |-> u.order[i]] BY <1>2
      <4>2. t.order = [i \in 1 .. Len(t.order) |-> t.order[i]] BY <1>2
      <4> QED BY <1>4, <3>2, <4>1, <4>2
    <3> QED BY <3>1, <3>2, <3>3
  <2>2. CASE ~t.truncated
    <3>1. maxNodes > 0 /\ Len(u.order) >= maxNodes /\ \E n \in B : n \notin Range(u.order)
      BY <2>2 DEF Grows
    <3> QED BY <3>1
  <2> QED BY <2>1, <2>2
<1>14. maxNodes > 0 /\ Len(s.order) <= maxNodes => Len(u.order) <= maxNodes BY DEF Grows
<1> QED BY <1>1, <1>3, <1>6, <1>8, <1>9, <1>11, <1>12, <1>13, <1>14 DEF Grows

\* Visit visits its node.
LEMMA VisitGrows ==
    ASSUME NEW s \in SearchStates, Distinct(s.order), NEW n \in Nat, NEW maxNodes \in Nat
    PROVE  Grows(s, Visit(s, n, maxNodes), {n}, maxNodes)
<1> DEFINE q == s.order
           L == Len(q)
<1>1. q \in Seq(Nat) /\ s.next \in Seq(Nat) /\ s.truncated \in BOOLEAN /\ L \in Nat
  BY DEF SearchStates
<1>2. L + 1 .. L = {} BY <1>1
<1>3. CASE s.truncated \/ n \in Range(q)
  <2>1. Visit(s, n, maxNodes) = s BY <1>3 DEF Visit
  <2>2. ~s.truncated => n \in Range(q) BY <1>3
  <2> QED BY <1>1, <1>2, <2>1, <2>2 DEF Grows
<1>4. CASE ~(s.truncated \/ n \in Range(q)) /\ maxNodes > 0 /\ L >= maxNodes
  <2> DEFINE t == [s EXCEPT !.truncated = TRUE]
  <2>1. Visit(s, n, maxNodes) = t BY <1>4 DEF Visit
  <2>2. t \in SearchStates /\ t.order = q /\ t.next = s.next /\ t.truncated BY DEF SearchStates
  <2> HIDE DEF t
  <2> QED BY <1>1, <1>2, <1>4, <2>1, <2>2 DEF Grows
<1>5. CASE ~(s.truncated \/ n \in Range(q)) /\ ~(maxNodes > 0 /\ L >= maxNodes)
  <2> DEFINE t == [s EXCEPT !.order = Append(@, n), !.next = Append(@, n)]
  <2>1. Visit(s, n, maxNodes) = t BY <1>5 DEF Visit
  <2>2. t.order = Append(q, n) /\ t.next = Append(s.next, n) /\ t.truncated = s.truncated
    BY DEF SearchStates
  <2>3. t \in SearchStates
    <3>1. Append(q, n) \in Seq(Nat) /\ Append(s.next, n) \in Seq(Nat) BY <1>1
    <3> QED BY <1>1, <3>1 DEF SearchStates
  <2> HIDE DEF t
  <2>4. /\ Len(t.order) = L + 1 /\ t.order[L + 1] = n
        /\ \A i \in 1 .. L : t.order[i] = q[i]
        /\ Range(t.order) = Range(q) \union {n} /\ Range(t.next) = Range(s.next) \union {n}
    <3>1. /\ Len(Append(q, n)) = L + 1 /\ Append(q, n)[L + 1] = n
          /\ \A i \in 1 .. L : Append(q, n)[i] = q[i]
          /\ Range(Append(q, n)) = Range(q) \union {n}
      BY <1>1, RangeOfAppend
    <3>2. Range(Append(s.next, n)) = Range(s.next) \union {n} BY <1>1, RangeOfAppend
    <3> QED BY <2>2, <3>1, <3>2
  <2>5. \A i \in 1 .. L : q[i] # n
    <3>1. DOMAIN q = 1 .. L BY <1>1
    <3> QED BY <1>5, <3>1 DEF Range
  <2>6. Distinct(t.order)
    <3> SUFFICES ASSUME NEW i \in 1 .. L + 1, NEW j \in 1 .. L + 1, t.order[i] = t.order[j] PROVE i = j
      BY <2>4 DEF Distinct
    <3>1. CASE i \in 1 .. L /\ j \in 1 .. L BY <2>4, <3>1 DEF Distinct
    <3>2. CASE i = L + 1 \/ j = L + 1
      <4>1. CASE i = L + 1 /\ j # L + 1
        <5>1. j \in 1 .. L BY <1>1, <4>1
        <5> QED BY <2>4, <2>5, <4>1, <5>1
      <4>2. CASE i # L + 1 /\ j = L + 1
        <5>1. i \in 1 .. L BY <1>1, <4>2
        <5> QED BY <2>4, <2>5, <4>2, <5>1
      <4> QED BY <3>2, <4>1, <4>2
    <3> HIDE DEF L
    <3>3. (i \in 1 .. L /\ j \in 1 .. L) \/ i = L + 1 \/ j = L + 1 BY <1>1
    <3> QED BY <3>1, <3>2, <3>3
  <2>7. L + 1 .. L + 1 = {L + 1} BY <1>1
  <2>8. {t.order[i] : i \in L + 1 .. L + 1} = {n} BY <2>4, <2>7
  <2> QED BY <1>1, <1>5, <2>1, <2>2, <2>3, <2>4, <2>6, <2>7, <2>8 DEF Grows
<1> QED BY <1>3, <1>4, <1>5

\* Visit leads from a search to a search,
LEMMA VisitType ==
    ASSUME NEW s \in SearchStates, NEW n \in Nat, NEW maxNodes
    PROVE  Visit(s, n, maxNodes) \in SearchStates
<1>1. s.order \in Seq(Nat) /\ s.next \in Seq(Nat) BY DEF SearchStates
<1>2. Append(s.order, n) \in Seq(Nat) /\ Append(s.next, n) \in Seq(Nat) BY <1>1
<1> QED BY <1>2 DEF Visit, SearchStates

\* and VisitAll visits all nodes of its sequence.
LEMMA VisitAllGrows ==
    ASSUME NEW s \in SearchStates, Distinct(s.order), NEW nodes \in Seq(Nat), NEW maxNodes \in Nat
    PROVE  Grows(s, VisitAll(s, nodes, maxNodes), Range(nodes), maxNodes)
<1> DEFINE N == Len(nodes)
           F == [i \in 1 .. N |-> [t \in SearchStates |-> Visit(t, nodes[i], maxNodes)]]
           v == CHOOSE visits : visits = [i \in 0 .. N |->
                    IF i = 0 THEN s ELSE Visit(visits[i - 1], nodes[i], maxNodes)]
<1>1. N \in Nat /\ DOMAIN nodes = 1 .. N /\ \A i \in 1 .. N : nodes[i] \in Nat OBVIOUS
<1>2. F \in [1 .. N -> [SearchStates -> SearchStates]] BY <1>1, VisitType
<1>3. v = [i \in 0 .. N |-> IF i = 0 THEN s ELSE Visit(v[i - 1], nodes[i], maxNodes)]
  <2>1. PICK g : Recurs(g, SearchStates, s, N, F)
    <3> HIDE DEF N, F
    <3> QED BY <1>1, <1>2, Recursion, Zenon
  <2>2. ASSUME NEW i \in 1 .. N PROVE g[i] = Visit(g[i - 1], nodes[i], maxNodes)
    <3>0. i - 1 \in 0 .. N BY <1>1
    <3>1. g[i - 1] \in SearchStates BY <2>1, <3>0, Zenon DEF Recurs
    <3>2. g[i] = F[i][g[i - 1]] BY <2>1 DEF Recurs
    <3>3. F[i][g[i - 1]] = Visit(g[i - 1], nodes[i], maxNodes) BY <3>1
    <3> HIDE DEF F
    <3> QED BY <3>2, <3>3
  <2>3. g = [i \in 0 .. N |-> IF i = 0 THEN s ELSE Visit(g[i - 1], nodes[i], maxNodes)]
    <3>1. g \in [0 .. N -> SearchStates] /\ g[0] = s BY <2>1, Zenon DEF Recurs
    <3>2. ASSUME NEW i \in 0 .. N
          PROVE  g[i] = IF i = 0 THEN s ELSE Visit(g[i - 1], nodes[i], maxNodes)
      <4>1. CASE i = 0 BY <3>1, <4>1
      <4>2. CASE i # 0
        <5>1. i \in 1 .. N BY <1>1, <4>2
        <5> QED BY <2>2, <4>2, <5>1, Zenon
      <4> QED BY <4>1, <4>2
    <3> QED BY <3>1, <3>2, Zenon
  <2> HIDE DEF N
  <2> QED BY <2>3, Zenon
<1>4. VisitAll(s, nodes, maxNodes) = v[N] BY Zenon DEF VisitAll
<1> DEFINE P(i) == Grows(s, v[i], {nodes[j] : j \in 1 .. i}, maxNodes)
           S == {i \in 0 .. N : P(i)}
<1> HIDE DEF v
<1>5. 0 \in S
  <2>1. 0 \in 0 .. N BY <1>1
  <2>2. v[0] = s BY <1>3, <2>1
  <2>3. {nodes[j] : j \in 1 .. 0} = {} OBVIOUS
  <2>4. P(0) BY <2>2, <2>3, GrowsNone
  <2> HIDE DEF P
  <2> QED BY <2>1, <2>4
<1>6. ASSUME NEW i \in 1 .. N, i - 1 \in S PROVE i \in S
  <2>1. i \in 0 .. N /\ nodes[i] \in Nat BY <1>1
  <2>2. v[i] = Visit(v[i - 1], nodes[i], maxNodes)
    <3>1. i # 0 BY <1>1
    <3> HIDE DEF N
    <3> QED BY <1>3, <2>1, <3>1, Zenon
  <2>3. {nodes[j] : j \in 1 .. i} = {nodes[j] : j \in 1 .. i - 1} \union {nodes[i]}
    <3>1. 1 .. i = (1 .. i - 1) \union {i} BY <2>1
    <3> QED BY <3>1
  <2>4. P(i - 1) BY <1>6
  <2>5. v[i - 1] \in SearchStates /\ Distinct(v[i - 1].order) BY <2>4 DEF Grows
  <2>6. Grows(v[i - 1], v[i], {nodes[i]}, maxNodes) BY <2>1, <2>2, <2>5, VisitGrows
  <2>7. P(i) BY <2>3, <2>4, <2>6, GrowsOn
  <2> HIDE DEF P
  <2> QED BY <2>1, <2>7
<1>7. P(N)
  <2> HIDE DEF P
  <2>1. 0 .. N \subseteq S
    <3> HIDE DEF S
    <3> QED BY <1>1, <1>5, <1>6, UpToInduction
  <2> QED BY <1>1, <2>1
<1> QED BY <1>1, <1>4, <1>7 DEF Range

-----------------------------------------------------------------------------
\* Layers of a graph, and a search of them

\* Where a step of the relation leads from the set.
Reached(rel, A) == {p[2] : p \in {q \in rel : q[1] \in A}}

\* B[d] is what d steps or less reach.
Layered(B, rel, start) ==
    /\ B \in [Nat -> SUBSET Nat] /\ B[0] = {start}
    /\ \A d \in Nat : B[d + 1] = B[d] \union Reached(rel, B[d])

\* The nodes of a layer that are in none before.
Outer(B, d) == IF d = 0 THEN B[0] ELSE B[d] \ B[d - 1]

\* A layer includes those before it.
LEMMA LayersGrow ==
    ASSUME NEW B, NEW rel, NEW start, Layered(B, rel, start), NEW d \in Nat, NEW k \in Nat, d <= k
    PROVE  B[d] \subseteq B[k]
<1> DEFINE S == {n \in Nat : d <= n => B[d] \subseteq B[n]}
<1>1. 0 \in S OBVIOUS
<1>2. ASSUME NEW n \in S PROVE n + 1 \in S
  <2>1. n \in Nat /\ n + 1 \in Nat OBVIOUS
  <2>2. B[n] \subseteq B[n + 1] BY <2>1 DEF Layered
  <2>3. d <= n + 1 => d <= n \/ d = n + 1 BY <2>1
  <2> QED BY <2>1, <2>2, <2>3
<1>3. S \in SUBSET Nat OBVIOUS
<1>4. S = Nat
  <2> HIDE DEF S
  <2> QED BY <1>1, <1>2, <1>3, SetInduction
<1>5. k \in S BY <1>4
<1> QED BY <1>5

\* A layer is found from the outer nodes of the one before.
LEMMA NextLayer ==
    ASSUME NEW B, NEW rel, NEW start, Layered(B, rel, start), NEW d \in Nat
    PROVE  B[d + 1] = B[d] \union Reached(rel, Outer(B, d))
<1>1. B[d + 1] = B[d] \union Reached(rel, B[d]) BY DEF Layered
<1>2. CASE d = 0 BY <1>1, <1>2 DEF Outer
<1>3. CASE d # 0
  <2>1. d - 1 \in Nat /\ (d - 1) + 1 = d BY <1>3
  <2>2. B[d] = B[d - 1] \union Reached(rel, B[d - 1])
    <3>1. B[(d - 1) + 1] = B[d - 1] \union Reached(rel, B[d - 1]) BY <2>1 DEF Layered
    <3> QED BY <2>1, <3>1
  <2>3. Reached(rel, B[d]) = Reached(rel, B[d - 1]) \union Reached(rel, B[d] \ B[d - 1])
    BY <2>2 DEF Reached
  <2> QED BY <1>1, <1>3, <2>2, <2>3 DEF Outer
<1> QED BY <1>2, <1>3

\* A search that has covered d steps, or was cut: no node twice, nothing from
\* farther away, nearer nodes first.
Covers(s, d, B, maxNodes) ==
    /\ s \in SearchStates /\ Distinct(s.order) /\ Range(s.order) \subseteq B[d]
    /\ \A i, j \in 1 .. Len(s.order), k \in Nat : i < j /\ s.order[j] \in B[k] => s.order[i] \in B[k]
    /\ ~s.truncated => Range(s.order) = B[d] /\ Range(s.next) = Outer(B, d)
    /\ s.truncated =>
          /\ maxNodes > 0 /\ Len(s.order) >= maxNodes
          /\ \E o \in B[d] : o \notin Range(s.order)
          /\ \A k \in Nat : \A o \in B[k] \ Range(s.order) : Range(s.order) \subseteq B[k]
    /\ maxNodes > 0 => Len(s.order) <= maxNodes

\* A search starts with the start covered.
LEMMA CoversStart ==
    ASSUME NEW B, NEW rel, NEW start \in Nat, Layered(B, rel, start), NEW maxNodes \in Nat,
           NEW s, s = [order |-> <<start>>, next |-> <<start>>, truncated |-> FALSE]
    PROVE  Covers(s, 0, B, maxNodes)
<1>1. s \in SearchStates BY DEF SearchStates
<1>2. s.order = <<start>> /\ s.next = <<start>> /\ ~s.truncated OBVIOUS
<1>3. Len(s.order) = 1 /\ DOMAIN s.order = 1 .. 1 /\ s.order[1] = start BY <1>2
<1>4. Range(s.order) = {start} /\ Range(s.next) = {start} BY <1>2, <1>3 DEF Range
<1>5. B[0] = {start} BY DEF Layered
<1>6. Distinct(s.order) BY <1>3 DEF Distinct
<1> QED BY <1>1, <1>2, <1>3, <1>4, <1>5, <1>6 DEF Covers, Outer

\* When nothing is left to expand, or the search was cut, it covers the next
\* layer as it is.
LEMMA CoversIdle ==
    ASSUME NEW B, NEW rel, NEW start, Layered(B, rel, start), NEW d \in Nat, NEW maxNodes \in Nat,
           NEW s, Covers(s, d, B, maxNodes), s.truncated \/ s.next = <<>>
    PROVE  Covers(s, d + 1, B, maxNodes)
<1>1. B[d] \subseteq B[d + 1] BY LayersGrow
<1>2. CASE s.truncated BY <1>1, <1>2 DEF Covers
<1>3. CASE ~s.truncated
  <2>1. s.next = <<>> BY <1>3
  <2>2. Range(s.next) = {} BY <2>1 DEF Range
  <2>3. Outer(B, d) = {} BY <1>3, <2>2 DEF Covers
  <2>4. Reached(rel, {}) = {} BY DEF Reached
  <2>5. B[d + 1] = B[d]
    <3>1. B[d + 1] = B[d] \union Reached(rel, Outer(B, d)) BY NextLayer
    <3> QED BY <2>3, <2>4, <3>1
  <2>6. Outer(B, d + 1) = {}
    <3>1. d + 1 # 0 /\ (d + 1) - 1 = d OBVIOUS
    <3> QED BY <2>5, <3>1 DEF Outer
  <2> QED BY <1>3, <2>2, <2>5, <2>6 DEF Covers
<1> QED BY <1>2, <1>3

\* One layer more.
LEMMA CoversMore ==
    ASSUME NEW B, NEW rel, NEW start, Layered(B, rel, start), NEW d \in Nat, NEW maxNodes \in Nat,
           NEW s, Covers(s, d, B, maxNodes),
           NEW s0 \in SearchStates, s0.order = s.order, s0.truncated = s.truncated, s0.next = <<>>,
           NEW t, Grows(s0, t, Reached(rel, Range(s.next)), maxNodes)
    PROVE  Covers(t, d + 1, B, maxNodes)
<1> DEFINE L == Len(s.order)
           new == Reached(rel, Range(s.next))
<1>1. /\ s \in SearchStates /\ t \in SearchStates /\ Distinct(s.order) /\ Distinct(t.order)
  BY DEF Covers, Grows
<1>2. s.order \in Seq(Nat) /\ t.order \in Seq(Nat) /\ L \in Nat /\ Len(t.order) \in Nat
  BY <1>1 DEF SearchStates
<1>3. /\ L <= Len(t.order)
      /\ \A i \in 1 .. L : t.order[i] = s.order[i]
      /\ \A i \in L + 1 .. Len(t.order) : t.order[i] \in new
  BY DEF Grows
<1>4. Range(t.order) = Range(s.order) \union {t.order[i] : i \in L + 1 .. Len(t.order)}
  <2> DEFINE p == s.order
             q == t.order
  <2>1. p \in Seq(Nat) /\ q \in Seq(Nat) /\ Len(p) <= Len(q) /\ \A i \in 1 .. Len(p) : q[i] = p[i]
    BY <1>2, <1>3
  <2> HIDE DEF p, q
  <2>2. Range(q) = Range(p) \union Added(q, Len(p)) BY <2>1, RangeOfLonger
  <2> QED BY <2>2 DEF p, q, Added
<1>5. maxNodes > 0 => Len(t.order) <= maxNodes BY DEF Grows, Covers
<1>6. CASE s.truncated
  <2>1. t.truncated /\ Len(t.order) = L BY <1>6 DEF Grows
  <2>2. t.order = s.order
    <3>1. \A i \in 1 .. L : t.order[i] = s.order[i] BY <1>3
    <3> DEFINE p == s.order
               q == t.order
    <3>2. p \in Seq(Nat) /\ q \in Seq(Nat) /\ Len(p) = Len(q) /\ \A i \in 1 .. Len(p) : p[i] = q[i]
      BY <1>2, <2>1, <3>1
    <3> HIDE DEF p, q
    <3>3. p = q BY <3>2, SameSequence
    <3> QED BY <3>3 DEF p, q
  <2>3. B[d] \subseteq B[d + 1] BY LayersGrow
  <2> QED BY <1>1, <1>5, <1>6, <2>1, <2>2, <2>3 DEF Covers
<1>7. CASE ~s.truncated
  <2>1. Range(s.order) = B[d] /\ Range(s.next) = Outer(B, d) BY <1>7 DEF Covers
  <2>2. B[d + 1] = B[d] \union new BY <2>1, NextLayer
  <2>3. Range(t.order) \subseteq B[d + 1] BY <1>3, <1>4, <2>1, <2>2
  <2>4. \A i \in L + 1 .. Len(t.order) : t.order[i] \in B[d + 1] \ B[d]
    <3> SUFFICES ASSUME NEW i \in L + 1 .. Len(t.order), t.order[i] \in Range(s.order) PROVE FALSE
      BY <1>3, <2>1, <2>2
    <3>1. PICK j \in 1 .. L : t.order[i] = s.order[j]
      <4>1. DOMAIN s.order = 1 .. L BY <1>2
      <4> QED BY <4>1, Zenon DEF Range
    <3>2. t.order[i] = t.order[j] BY <1>3, <3>1
    <3>3. i \in 1 .. Len(t.order) /\ j \in 1 .. Len(t.order) /\ i # j BY <1>2, <1>3
    <3> QED BY <1>1, <3>2, <3>3 DEF Distinct
  <2>5. ASSUME NEW k \in Nat, NEW o \in B[k], o \notin B[d] PROVE B[d + 1] \subseteq B[k]
    <3>1. ~(k <= d) BY <2>5, LayersGrow
    <3>2. d + 1 <= k BY <3>1
    <3> QED BY <3>2, LayersGrow
  <2>6. ASSUME NEW i \in 1 .. Len(t.order), NEW j \in 1 .. Len(t.order), NEW k \in Nat, i < j, t.order[j] \in B[k]
        PROVE  t.order[i] \in B[k]
    <3>1. CASE j <= L
      <4>1. i \in 1 .. L /\ j \in 1 .. L BY <1>2, <2>6, <3>1
      <4>2. t.order[i] = s.order[i] /\ t.order[j] = s.order[j] BY <1>3, <4>1
      <4> QED BY <2>6, <4>1, <4>2 DEF Covers
    <3>2. CASE ~(j <= L)
      <4>1. j \in L + 1 .. Len(t.order) BY <1>2, <3>2
      <4>2. B[d + 1] \subseteq B[k] BY <2>4, <2>5, <2>6, <4>1
      <4>3. t.order[i] \in Range(t.order)
        <5>1. DOMAIN t.order = 1 .. Len(t.order) BY <1>2
        <5> QED BY <5>1 DEF Range
      <4> QED BY <2>3, <4>2, <4>3
    <3> QED BY <3>1, <3>2
  <2>7. ASSUME ~t.truncated PROVE Range(t.order) = B[d + 1] /\ Range(t.next) = Outer(B, d + 1)
    <3>1. new \subseteq Range(t.order) BY <2>7 DEF Grows
    <3>2. Range(t.order) = B[d + 1] BY <1>4, <2>1, <2>2, <2>3, <3>1
    <3>3. Range(t.next) = {t.order[i] : i \in L + 1 .. Len(t.order)}
      <4>1. Range(s0.next) = {} BY DEF Range
      <4>2. Range(t.next) = Range(s0.next) \union {t.order[i] : i \in L + 1 .. Len(t.order)}
        BY DEF Grows
      <4> QED BY <4>1, <4>2
    <3>4. {t.order[i] : i \in L + 1 .. Len(t.order)} = B[d + 1] \ B[d]
      BY <1>4, <2>1, <2>4, <3>2
    <3>5. Outer(B, d + 1) = B[d + 1] \ B[d]
      <4>1. d + 1 # 0 /\ (d + 1) - 1 = d OBVIOUS
      <4> QED BY <4>1 DEF Outer
    <3> QED BY <3>2, <3>3, <3>4, <3>5
  <2>8. ASSUME t.truncated
        PROVE  /\ maxNodes > 0 /\ Len(t.order) >= maxNodes
               /\ \E o \in B[d + 1] : o \notin Range(t.order)
               /\ \A k \in Nat : \A o \in B[k] \ Range(t.order) : Range(t.order) \subseteq B[k]
    <3>1. maxNodes > 0 /\ Len(t.order) >= maxNodes /\ \E o \in new : o \notin Range(t.order)
      BY <1>7, <2>8 DEF Grows
    <3>2. ASSUME NEW k \in Nat, NEW o \in B[k] \ Range(t.order) PROVE Range(t.order) \subseteq B[k]
      <4>1. o \notin B[d] BY <1>4, <2>1
      <4>2. B[d + 1] \subseteq B[k] BY <2>5, <4>1
      <4> QED BY <2>3, <4>2
    <3> QED BY <2>2, <3>1, <3>2
  <2> QED BY <1>1, <1>5, <2>3, <2>6, <2>7, <2>8 DEF Covers
<1> QED BY <1>6, <1>7

-----------------------------------------------------------------------------
\* The balls of the reference definition are layers

\* A path of no steps stays where it is,
LEMMA WithinNone ==
    ASSUME NEW rel, NEW nodes, NEW a \in nodes, NEW b
    PROVE  Within(rel, nodes, a, b, 0) <=> b = a
<1>1. ASSUME b = a PROVE Within(rel, nodes, a, b, 0)
  <2> DEFINE path == [i \in 0 .. 0 |-> a]
  <2>1. path \in [0 .. 0 -> nodes] /\ path[0] = a OBVIOUS
  <2>2. 0 .. 0 - 1 = {} OBVIOUS
  <2> HIDE DEF path
  <2> QED BY <1>1, <2>1, <2>2 DEF Within
<1>2. ASSUME Within(rel, nodes, a, b, 0) PROVE b = a BY <1>2 DEF Within
<1> QED BY <1>1, <1>2

\* and a path of one step more is a path and that step.
LEMMA WithinNext ==
    ASSUME NEW rel, NEW nodes, NEW a \in nodes, NEW b \in nodes, NEW d \in Nat
    PROVE  Within(rel, nodes, a, b, d + 1) <=>
              \/ Within(rel, nodes, a, b, d)
              \/ \E c \in nodes : Within(rel, nodes, a, c, d) /\ <<c, b>> \in rel
<1>1. ASSUME Within(rel, nodes, a, b, d + 1)
      PROVE  \/ Within(rel, nodes, a, b, d)
             \/ \E c \in nodes : Within(rel, nodes, a, c, d) /\ <<c, b>> \in rel
  <2>1. PICK path \in [0 .. d + 1 -> nodes] :
            /\ path[0] = a /\ path[d + 1] = b
            /\ \A i \in 0 .. (d + 1) - 1 : path[i] = path[i + 1] \/ <<path[i], path[i + 1]>> \in rel
    BY <1>1 DEF Within
  <2> DEFINE short == [i \in 0 .. d |-> path[i]]
  <2>2. short \in [0 .. d -> nodes] /\ short[0] = a /\ short[d] = path[d] BY <2>1
  <2>3. \A i \in 0 .. d - 1 : short[i] = short[i + 1] \/ <<short[i], short[i + 1]>> \in rel
    <3> SUFFICES ASSUME NEW i \in 0 .. d - 1
                 PROVE  short[i] = short[i + 1] \/ <<short[i], short[i + 1]>> \in rel
      OBVIOUS
    <3>1. i \in 0 .. (d + 1) - 1 /\ i \in 0 .. d /\ i + 1 \in 0 .. d OBVIOUS
    <3>2. path[i] = path[i + 1] \/ <<path[i], path[i + 1]>> \in rel BY <2>1, <3>1
    <3>3. short[i] = path[i] /\ short[i + 1] = path[i + 1] BY <3>1
    <3> HIDE DEF short
    <3> QED BY <3>2, <3>3
  <2>4. Within(rel, nodes, a, path[d], d)
    <3> HIDE DEF short
    <3> QED BY <2>2, <2>3 DEF Within
  <2>5. d \in 0 .. (d + 1) - 1 /\ path[d] \in nodes BY <2>1
  <2>6. path[d] = b \/ <<path[d], b>> \in rel BY <2>1, <2>5
  <2> QED BY <2>4, <2>5, <2>6
<1>2. ASSUME NEW c \in nodes, Within(rel, nodes, a, c, d), c = b \/ <<c, b>> \in rel
      PROVE  Within(rel, nodes, a, b, d + 1)
  <2>1. PICK path \in [0 .. d -> nodes] :
            /\ path[0] = a /\ path[d] = c
            /\ \A i \in 0 .. d - 1 : path[i] = path[i + 1] \/ <<path[i], path[i + 1]>> \in rel
    BY <1>2 DEF Within
  <2> DEFINE long == [i \in 0 .. d + 1 |-> IF i = d + 1 THEN b ELSE path[i]]
  <2>2. long \in [0 .. d + 1 -> nodes] /\ long[d + 1] = b
    <3>1. \A i \in 0 .. d + 1 : i # d + 1 => i \in 0 .. d OBVIOUS
    <3> QED BY <3>1
  <2>3. long[0] = a BY <2>1
  <2>4. ASSUME NEW i \in 0 .. (d + 1) - 1
        PROVE  long[i] = long[i + 1] \/ <<long[i], long[i + 1]>> \in rel
    <3>1. CASE i = d
      <4>1. long[i] = c /\ long[i + 1] = b BY <2>1, <3>1
      <4> HIDE DEF long
      <4> QED BY <1>2, <4>1
    <3>2. CASE i # d
      <4>1. i \in 0 .. d - 1 BY <3>2
      <4>2. long[i] = path[i] /\ long[i + 1] = path[i + 1] BY <4>1
      <4> HIDE DEF long
      <4> QED BY <2>1, <4>1, <4>2
    <3> QED BY <3>1, <3>2
  <2> HIDE DEF long
  <2> QED BY <2>2, <2>3, <2>4 DEF Within
<1> QED BY <1>1, <1>2

\* The balls around a node, by their radius.
Balls(rel, nodes, start) == [d \in Nat |-> Ball(rel, nodes, start, d)]

\* Balls are layers: what one step more reaches.
LEMMA BallLayered ==
    ASSUME NEW nodes \in SUBSET Nat, NEW rel \in SUBSET (nodes \X nodes), NEW start \in nodes
    PROVE  Layered(Balls(rel, nodes, start), rel, start)
<1> DEFINE B == Balls(rel, nodes, start)
<1>1. B \in [Nat -> SUBSET Nat] BY DEF Ball, Balls
<1>2. B[0] = {start}
  <2>1. B[0] = {n \in nodes : Within(rel, nodes, start, n, 0)} BY DEF Ball, Balls
  <2> QED BY <2>1, WithinNone
<1>3. ASSUME NEW d \in Nat PROVE B[d + 1] = B[d] \union Reached(rel, B[d])
  <2>1. /\ B[d + 1] = {n \in nodes : Within(rel, nodes, start, n, d + 1)}
        /\ B[d] = {n \in nodes : Within(rel, nodes, start, n, d)}
    BY DEF Ball, Balls
  <2> HIDE DEF B
  <2>2. ASSUME NEW n \in B[d + 1] PROVE n \in B[d] \union Reached(rel, B[d])
    <3>1. n \in nodes BY <2>1
    <3>2. \/ Within(rel, nodes, start, n, d)
          \/ \E c \in nodes : Within(rel, nodes, start, c, d) /\ <<c, n>> \in rel
      BY <2>1, <3>1, WithinNext
    <3>3. CASE Within(rel, nodes, start, n, d) BY <2>1, <3>1, <3>3
    <3>4. ASSUME NEW c \in nodes, Within(rel, nodes, start, c, d), <<c, n>> \in rel
          PROVE  n \in Reached(rel, B[d])
      <4>1. c \in B[d] BY <2>1, <3>4
      <4> QED BY <3>4, <4>1 DEF Reached
    <3> QED BY <3>2, <3>3, <3>4
  <2>3. ASSUME NEW n \in B[d] PROVE n \in B[d + 1]
    <3>1. n \in nodes /\ Within(rel, nodes, start, n, d) BY <2>1
    <3>2. Within(rel, nodes, start, n, d + 1) BY <3>1, WithinNext
    <3> QED BY <2>1, <3>1, <3>2
  <2>4. ASSUME NEW n \in Reached(rel, B[d]) PROVE n \in B[d + 1]
    <3>1. PICK p \in rel : p[1] \in B[d] /\ n = p[2] BY DEF Reached
    <3>2. p \in nodes \X nodes /\ p = <<p[1], n>> BY <3>1
    <3>3. n \in nodes /\ p[1] \in nodes BY <3>1, <3>2
    <3>4. Within(rel, nodes, start, p[1], d) BY <2>1, <3>1
    <3>5. Within(rel, nodes, start, n, d + 1) BY <3>1, <3>2, <3>3, <3>4, WithinNext
    <3> QED BY <2>1, <3>3, <3>5
  <2> QED BY <2>2, <2>3, <2>4
<1> HIDE DEF B
<1>4. Layered(B, rel, start) BY <1>1, <1>2, <1>3 DEF Layered
<1> QED BY <1>4 DEF B

\* The distance of a node is the first ball it is in.
LEMMA DistanceIsLeast ==
    ASSUME NEW nodes \in SUBSET Nat, NEW rel \in SUBSET (nodes \X nodes), NEW start \in nodes,
           NEW radius \in Nat, NEW n \in Ball(rel, nodes, start, radius),
           NEW dist, dist = Distance(rel, nodes, start, n, radius)
    PROVE  /\ dist \in Nat /\ n \in Ball(rel, nodes, start, dist)
           /\ \A k \in Nat : n \in Ball(rel, nodes, start, k) => dist <= k
<1> DEFINE B == Balls(rel, nodes, start)
           T == {k \in Nat : n \in B[k]}
           Least(d) == Within(rel, nodes, start, n, d) /\ (d > 0 => ~Within(rel, nodes, start, n, d - 1))
<1>1. n \in nodes BY DEF Ball
<1>2. \A k \in Nat : n \in B[k] <=> Within(rel, nodes, start, n, k) BY <1>1 DEF Ball, Balls
<1>3. Layered(B, rel, start) BY BallLayered
<1>4. \A k \in Nat : B[k] = Ball(rel, nodes, start, k) BY DEF Balls
<1> HIDE DEF B
<1>5. PICK m \in T : \A k \in T : m <= k
  <2>1. T \in SUBSET Nat /\ radius \in T BY <1>4
  <2> HIDE DEF T
  <2> QED BY <2>1, LeastOf
<1>6. m \in 0 .. radius /\ Least(m)
  <2>1. m \in Nat /\ m <= radius BY <1>4, <1>5
  <2>2. Within(rel, nodes, start, n, m) BY <1>2, <1>5
  <2>3. ASSUME m > 0, Within(rel, nodes, start, n, m - 1) PROVE FALSE
    <3>1. m - 1 \in Nat BY <2>1, <2>3
    <3>2. m - 1 \in T BY <1>2, <2>3, <3>1
    <3>3. m <= m - 1 BY <1>5, <3>2
    <3> QED BY <2>1, <3>3
  <2> QED BY <2>1, <2>2, <2>3
<1>7. dist \in 0 .. radius /\ Least(dist)
  <2>1. dist = CHOOSE d \in 0 .. radius : Least(d) BY Zenon DEF Distance
  <2> HIDE DEF Least
  <2> QED BY <1>6, <2>1, Zenon
<1>8. dist \in Nat BY <1>7
<1>9. n \in B[dist] BY <1>2, <1>7, <1>8
<1>10. ASSUME NEW k \in Nat, n \in B[k], ~(dist <= k) PROVE FALSE
  <2>1. dist > 0 /\ dist - 1 \in Nat /\ k <= dist - 1 BY <1>8, <1>10
  <2>2. n \in B[dist - 1] BY <1>3, <1>10, <2>1, LayersGrow
  <2> QED BY <1>2, <1>7, <2>1, <2>2
<1> QED BY <1>4, <1>8, <1>9, <1>10

-----------------------------------------------------------------------------
\* A search that covers its radius is what the properties ask for

\* A search that covers the ball of its radius is one that SearchOf asks for.
LEMMA CoveredIsSearch ==
    ASSUME NEW nodes \in SUBSET Nat, IsFiniteSet(nodes),
           NEW rel \in SUBSET (nodes \X nodes), NEW start \in nodes,
           NEW radius \in Nat, NEW maxNodes \in Nat,
           NEW s, Covers(s, radius, Balls(rel, nodes, start), maxNodes),
           NEW dist, dist = BallOf(rel, nodes, start, radius)
    PROVE  SearchOf(s.order, s.truncated, DOMAIN dist, dist, maxNodes)
<1> DEFINE B == Balls(rel, nodes, start)
           ball == B[radius]
           q == s.order
<1>1. DOMAIN dist = ball BY DEF BallOf, Balls
<1>2. \A k \in Nat : B[k] = Ball(rel, nodes, start, k) BY DEF Balls
<1>3. Covers(s, radius, B, maxNodes) OBVIOUS
<1>4. IsFiniteSet(ball)
  <2>1. ball \subseteq nodes BY DEF Ball, Balls
  <2> HIDE DEF ball
  <2> QED BY <2>1, FS_Subset
<1>5. Layered(B, rel, start) BY BallLayered
<1> HIDE DEF B
<1>6. ASSUME NEW n \in ball
      PROVE  dist[n] \in Nat /\ n \in B[dist[n]] /\ \A k \in Nat : n \in B[k] => dist[n] <= k
  <2>1. n \in Ball(rel, nodes, start, radius) BY <1>2
  <2>2. dist[n] = Distance(rel, nodes, start, n, radius) BY <2>1 DEF BallOf
  <2> HIDE DEF ball
  <2>3. /\ dist[n] \in Nat /\ n \in Ball(rel, nodes, start, dist[n])
        /\ \A k \in Nat : n \in Ball(rel, nodes, start, k) => dist[n] <= k
    BY <2>1, <2>2, DistanceIsLeast
  <2> QED BY <1>2, <2>3
<1>7. /\ s \in SearchStates /\ Distinct(q) /\ Range(q) \subseteq ball
      /\ \A i, j \in 1 .. Len(q), k \in Nat : i < j /\ q[j] \in B[k] => q[i] \in B[k]
      /\ ~s.truncated => Range(q) = ball
      /\ s.truncated =>
            /\ maxNodes > 0 /\ Len(q) >= maxNodes
            /\ \E o \in ball : o \notin Range(q)
            /\ \A k \in Nat : \A o \in B[k] \ Range(q) : Range(q) \subseteq B[k]
      /\ maxNodes > 0 => Len(q) <= maxNodes
  BY <1>3 DEF Covers
<1>8. q \in Seq(Nat) /\ Len(q) \in Nat /\ DOMAIN q = 1 .. Len(q) /\ s.truncated \in BOOLEAN
  BY <1>7 DEF SearchStates
<1> HIDE DEF ball, q
<1>9. Cardinality(Range(q)) = Len(q) BY <1>7, <1>8, DistinctRange
<1>10. Cardinality(ball) \in Nat /\ IsFiniteSet(Range(q))
  BY <1>4, <1>7, FS_CardinalityType, FS_Subset
<1>11. ASSUME NEW i \in DOMAIN q, NEW j \in DOMAIN q, i < j PROVE dist[q[i]] <= dist[q[j]]
  <2>1. q[i] \in ball /\ q[j] \in ball BY <1>7, Zenon DEF Range
  <2>2. dist[q[j]] \in Nat /\ q[j] \in B[dist[q[j]]] BY <1>6, <2>1
  <2>3. q[i] \in B[dist[q[j]]] BY <1>7, <1>8, <1>11, <2>2
  <2> QED BY <1>6, <2>1, <2>2, <2>3
<1>12. s.truncated <=> maxNodes > 0 /\ Cardinality(ball) > maxNodes
  <2>1. ASSUME s.truncated PROVE maxNodes > 0 /\ Cardinality(ball) > maxNodes
    <3>1. Cardinality(Range(q)) <= Cardinality(ball) /\ (Cardinality(ball) = Cardinality(Range(q)) => ball = Range(q))
      BY <1>4, <1>7, FS_Subset
    <3>2. ball # Range(q) BY <1>7, <2>1
    <3>3. Cardinality(Range(q)) >= maxNodes BY <1>7, <1>9, <2>1
    <3> QED BY <1>7, <1>8, <1>9, <1>10, <2>1, <3>1, <3>2, <3>3
  <2>2. ASSUME ~s.truncated, maxNodes > 0 PROVE ~(Cardinality(ball) > maxNodes)
    <3>1. Cardinality(ball) = Len(q) BY <1>7, <1>9, <2>2
    <3> QED BY <1>7, <1>8, <2>2, <3>1
  <2> QED BY <2>1, <2>2
<1>13. ASSUME s.truncated
       PROVE  /\ Len(q) = maxNodes
              /\ \A n \in Range(q), o \in ball \ Range(q) : dist[n] <= dist[o]
  <2>1. maxNodes > 0 /\ Len(q) >= maxNodes /\ Len(q) <= maxNodes BY <1>7, <1>13, Zenon
  <2>3. Len(q) = maxNodes
    <3>1. Len(q) \in Nat /\ maxNodes \in Nat BY <1>8
    <3> QED BY <2>1, <3>1
  <2>2. ASSUME NEW n \in Range(q), NEW o \in ball \ Range(q) PROVE dist[n] <= dist[o]
    <3>1. dist[o] \in Nat /\ o \in B[dist[o]] BY <1>6
    <3>2. n \in B[dist[o]] BY <1>7, <1>13, <3>1
    <3>3. n \in ball BY <1>7
    <3> QED BY <1>6, <3>1, <3>2, <3>3
  <2> QED BY <2>2, <2>3
<1>14. SearchOf(q, s.truncated, ball, dist, maxNodes)
  BY <1>7, <1>9, <1>11, <1>12, <1>13 DEF SearchOf
<1> QED BY <1>1, <1>14 DEF q

-----------------------------------------------------------------------------
\* Impact

\* Where edges lead to and come from.
LEMMA RangeOfEnds ==
    ASSUME NEW edges \in Seq(EdgeRow)
    PROVE  /\ Targets(edges) \in Seq(Nat) /\ Range(Targets(edges)) = {e.to : e \in Range(edges)}
           /\ Sources(edges) \in Seq(Nat) /\ Range(Sources(edges)) = {e.from : e \in Range(edges)}
<1>1. DOMAIN edges = 1 .. Len(edges) /\ Len(edges) \in Nat OBVIOUS
<1>2. \A i \in 1 .. Len(edges) : edges[i].to \in Nat /\ edges[i].from \in Nat
  <2>1. \A i \in 1 .. Len(edges) : edges[i] \in EdgeRow BY <1>1
  <2>2. \A e \in EdgeRow : e.to \in Nat /\ e.from \in Nat BY DEF EdgeRow
  <2> QED BY <2>1, <2>2
<1> DEFINE I == 1 .. Len(edges)
           T == Targets(edges)
           S == Sources(edges)
<1>3. /\ T = [i \in I |-> edges[i].to] /\ S = [i \in I |-> edges[i].from]
  BY <1>1, Zenon DEF Targets, Sources
<1>4. /\ T \in [I -> Nat] /\ \A i \in I : T[i] = edges[i].to
      /\ S \in [I -> Nat] /\ \A i \in I : S[i] = edges[i].from
  <2> HIDE DEF I, T, S
  <2>1. \A i \in I : edges[i].to \in Nat /\ edges[i].from \in Nat BY <1>2 DEF I
  <2> QED BY <1>3, <2>1
<1>5. T \in Seq(Nat) /\ S \in Seq(Nat)
  <2> DEFINE n == Len(edges)
  <2>1. n \in Nat /\ T \in [1 .. n -> Nat] /\ S \in [1 .. n -> Nat] BY <1>1, <1>4
  <2> HIDE DEF T, S, n
  <2> QED BY <2>1
<1>6. DOMAIN T = I /\ DOMAIN S = I /\ DOMAIN edges = I BY <1>1, <1>3, Zenon
<1>7. Range(T) = {e.to : e \in Range(edges)} /\ Range(S) = {e.from : e \in Range(edges)}
  <2>1. /\ Range(T) = {T[i] : i \in I} /\ Range(S) = {S[i] : i \in I}
        /\ Range(edges) = {edges[i] : i \in I}
    BY <1>6, Zenon DEF Range
  <2> HIDE DEF I, T, S
  <2>2. Range(T) = {e.to : e \in Range(edges)}
    <3>1. {T[i] : i \in I} = {edges[i].to : i \in I} BY <1>4
    <3>2. {e.to : e \in {edges[i] : i \in I}} = {edges[i].to : i \in I} OBVIOUS
    <3> QED BY <2>1, <3>1, <3>2, Zenon
  <2>3. Range(S) = {e.from : e \in Range(edges)}
    <3>1. {S[i] : i \in I} = {edges[i].from : i \in I} BY <1>4
    <3>2. {e.from : e \in {edges[i] : i \in I}} = {edges[i].from : i \in I} OBVIOUS
    <3> QED BY <2>1, <3>1, <3>2, Zenon
  <2> QED BY <2>2, <2>3
<1> QED BY <1>5, <1>7

\* There are finitely many nodes.
LEMMA NodesFinite ==
    ASSUME NEW edges \in Seq(EdgeRow), NEW start \in Nat
    PROVE  Nodes(edges, start) \in SUBSET Nat /\ IsFiniteSet(Nodes(edges, start)) /\ start \in Nodes(edges, start)
<1>1. Targets(edges) \in Seq(Nat) /\ Sources(edges) \in Seq(Nat) BY RangeOfEnds
<1>2. IsFiniteSet(Range(Targets(edges))) /\ IsFiniteSet(Range(Sources(edges))) BY <1>1, RangeFinite
<1>3. Range(Targets(edges)) \subseteq Nat /\ Range(Sources(edges)) \subseteq Nat
  BY <1>1 DEF Range
<1>4. IsFiniteSet({start}) BY FS_Singleton
<1>5. IsFiniteSet({start} \union Range(Targets(edges))) BY <1>2, <1>4, FS_Union
<1>6. IsFiniteSet({start} \union Range(Targets(edges)) \union Range(Sources(edges)))
  BY <1>2, <1>5, FS_Union
<1> QED BY <1>3, <1>6 DEF Nodes

\* A hop visits all the neighbours of the frontier.
LEMMA HopGrows ==
    ASSUME NEW s \in SearchStates, Distinct(s.order), NEW edges \in Seq(EdgeRow), NEW maxNodes \in Nat,
           NEW s0, s0 = [s EXCEPT !.next = <<>>]
    PROVE  Grows(s0, Hop(s, edges, maxNodes), Reached(Neighbourhood(edges), Range(s.next)), maxNodes)
<1> DEFINE From == EdgesFromNodes(edges, s.next)
           To == EdgesToNodes(edges, s.next)
           out == VisitAll(s0, Targets(From), maxNodes)
           end == VisitAll(out, Sources(To), maxNodes)
<1>1. s0 \in SearchStates /\ Distinct(s0.order)
  <2>1. <<>> \in Seq(Nat) OBVIOUS
  <2>2. s0.order = s.order /\ s0.next = <<>> /\ s0.truncated = s.truncated BY DEF SearchStates
  <2>3. s0 \in SearchStates BY <2>1 DEF SearchStates
  <2> QED BY <2>2, <2>3
<1>2. /\ From \in Seq(EdgeRow) /\ Range(From) = {e \in Range(edges) : e.from \in Range(s.next)}
      /\ To \in Seq(EdgeRow) /\ Range(To) = {e \in Range(edges) : e.to \in Range(s.next)}
  <2> DEFINE F == {e \in Range(edges) : e.from \in Range(s.next)}
             T == {e \in Range(edges) : e.to \in Range(s.next)}
  <2>1. From = Kept(edges, F) /\ To = Kept(edges, T) BY Zenon DEF EdgesFromNodes, EdgesToNodes
  <2>2. F \subseteq Range(edges) /\ T \subseteq Range(edges) OBVIOUS
  <2> HIDE DEF F, T, From, To
  <2>3. /\ From \in Seq(EdgeRow) /\ Range(From) = Range(edges) \intersect F
        /\ To \in Seq(EdgeRow) /\ Range(To) = Range(edges) \intersect T
    BY <2>1, KeptIs
  <2>4. From \in Seq(EdgeRow) /\ Range(From) = F /\ To \in Seq(EdgeRow) /\ Range(To) = T
    BY <2>2, <2>3
  <2> QED BY <2>4 DEF F, T
<1>3. Hop(s, edges, maxNodes) = end BY Zenon DEF Hop
<1> HIDE DEF From, To
<1> DEFINE A == {e.to : e \in Range(From)}
           C == {e.from : e \in Range(To)}
<1>4. /\ Targets(From) \in Seq(Nat) /\ Range(Targets(From)) = A
      /\ Sources(To) \in Seq(Nat) /\ Range(Sources(To)) = C
  BY <1>2, RangeOfEnds
<1>5. A \union C = Reached(Neighbourhood(edges), Range(s.next))
  <2> DEFINE Next0 == Range(s.next)
  <2>1. Range(edges) = {edges[i] : i \in DOMAIN edges} BY DEF Range
  <2>2. A = {e.to : e \in {f \in Range(edges) : f.from \in Next0}} BY <1>2
  <2>3. C = {e.from : e \in {f \in Range(edges) : f.to \in Next0}} BY <1>2
  <2> HIDE DEF A, C, Next0
  <2>4. ASSUME NEW n \in A PROVE n \in Reached(Neighbourhood(edges), Next0)
    <3>1. PICK i \in DOMAIN edges : edges[i].from \in Next0 /\ n = edges[i].to BY <2>1, <2>2
    <3>2. <<edges[i].from, n>> \in Neighbourhood(edges) BY <3>1 DEF Neighbourhood
    <3> QED BY <3>1, <3>2 DEF Reached
  <2>5. ASSUME NEW n \in C PROVE n \in Reached(Neighbourhood(edges), Next0)
    <3>1. PICK i \in DOMAIN edges : edges[i].to \in Next0 /\ n = edges[i].from BY <2>1, <2>3
    <3>2. <<edges[i].to, n>> \in Neighbourhood(edges)
      <4> DEFINE forward == {<<edges[k].from, edges[k].to>> : k \in DOMAIN edges}
                 p == <<n, edges[i].to>>
      <4>1. p \in forward BY <3>1
      <4>2. p[1] = n /\ p[2] = edges[i].to OBVIOUS
      <4>3. Neighbourhood(edges) = forward \union {<<q[2], q[1]>> : q \in forward}
        BY Zenon DEF Neighbourhood
      <4> HIDE DEF forward, p
      <4>4. <<p[2], p[1]>> \in Neighbourhood(edges) BY <4>1, <4>3
      <4> QED BY <4>2, <4>4
    <3> QED BY <3>1, <3>2 DEF Reached
  <2>6. ASSUME NEW n \in Reached(Neighbourhood(edges), Next0) PROVE n \in A \union C
    <3>1. PICK p \in Neighbourhood(edges) : p[1] \in Next0 /\ n = p[2] BY DEF Reached
    <3>2. PICK i \in DOMAIN edges : \/ p = <<edges[i].from, edges[i].to>>
                                    \/ p = <<edges[i].to, edges[i].from>>
      BY <3>1 DEF Neighbourhood
    <3>3. edges[i] \in Range(edges) BY <2>1
    <3> QED BY <2>2, <2>3, <3>1, <3>2, <3>3
  <2> QED BY <2>4, <2>5, <2>6 DEF Next0
<1> HIDE DEF A, C, out
<1>6. Grows(s0, out, A, maxNodes)
  <2>1. Grows(s0, VisitAll(s0, Targets(From), maxNodes), Range(Targets(From)), maxNodes)
    BY <1>1, <1>4, VisitAllGrows
  <2> QED BY <1>4, <2>1 DEF out
<1>7. out \in SearchStates /\ Distinct(out.order) BY <1>6 DEF Grows
<1>8. Grows(out, end, C, maxNodes)
  <2>1. Grows(out, VisitAll(out, Sources(To), maxNodes), Range(Sources(To)), maxNodes)
    BY <1>4, <1>7, VisitAllGrows
  <2> QED BY <1>4, <2>1
<1> HIDE DEF end
<1>9. Grows(s0, end, A \union C, maxNodes) BY <1>1, <1>6, <1>8, GrowsOn
<1> QED BY <1>3, <1>5, <1>9

\* The neighbourhood relates nodes.
LEMMA NeighbourhoodInNodes ==
    ASSUME NEW edges \in Seq(EdgeRow), NEW start \in Nat
    PROVE  Neighbourhood(edges) \in SUBSET (Nodes(edges, start) \X Nodes(edges, start))
<1> DEFINE nodes == Nodes(edges, start)
           forward == {<<edges[k].from, edges[k].to>> : k \in DOMAIN edges}
<1>1. Neighbourhood(edges) = forward \union {<<q[2], q[1]>> : q \in forward}
  BY Zenon DEF Neighbourhood
<1>2. \A k \in DOMAIN edges : edges[k].from \in nodes /\ edges[k].to \in nodes
  <2> SUFFICES ASSUME NEW k \in DOMAIN edges PROVE edges[k].from \in nodes /\ edges[k].to \in nodes
    OBVIOUS
  <2>1. edges[k] \in Range(edges) BY DEF Range
  <2>2. edges[k].to \in Range(Targets(edges)) /\ edges[k].from \in Range(Sources(edges))
    BY <2>1, RangeOfEnds
  <2> QED BY <2>2 DEF Nodes
<1> HIDE DEF nodes
<1>3. forward \in SUBSET (nodes \X nodes) BY <1>2
<1> HIDE DEF forward
<1>4. {<<q[2], q[1]>> : q \in forward} \in SUBSET (nodes \X nodes)
  <2> SUFFICES ASSUME NEW q \in forward PROVE q[1] \in nodes /\ q[2] \in nodes
    OBVIOUS
  <2>1. q \in nodes \X nodes BY <1>3
  <2> QED BY <2>1
<1>5. Neighbourhood(edges) \in SUBSET (nodes \X nodes) BY <1>1, <1>3, <1>4
<1> QED BY <1>5 DEF nodes

\* The search of getImpactRadius covers the neighbourhood up to its depth, and is
\* what SearchOf asks for.
LEMMA ImpactIsSearch ==
    ASSUME NEW edges \in Seq(EdgeRow), NEW start \in Nat, NEW depth \in Nat,
           NEW maxDepth \in Nat, NEW maxNodes \in Nat,
           NEW hops, hops = (IF maxDepth > 0 /\ depth > maxDepth THEN maxDepth ELSE depth),
           NEW r, r = ImpactRadiusBounded(edges, start, depth, maxDepth, maxNodes),
           NEW dist, dist = BallOf(Neighbourhood(edges), Nodes(edges, start), start, hops)
    PROVE  SearchOf(r.nodes, r.truncated, DOMAIN dist, dist, maxNodes)
<1> DEFINE B == Balls(Neighbourhood(edges), Nodes(edges, start), start)
           D == {s \in SearchStates : Distinct(s.order)}
           first == [order |-> <<start>>, next |-> <<start>>, truncated |-> FALSE]
           Step(s) == IF s.truncated \/ s.next = <<>> THEN s ELSE Hop(s, edges, maxNodes)
           F == [d \in 1 .. hops |-> [s \in D |-> Step(s)]]
           v == CHOOSE search : search = [d \in 0 .. hops |->
                    IF d = 0 THEN [order |-> <<start>>, next |-> <<start>>, truncated |-> FALSE]
                    ELSE IF search[d - 1].truncated \/ search[d - 1].next = <<>>
                         THEN search[d - 1]
                         ELSE Hop(search[d - 1], edges, maxNodes)]
<1>1. hops \in Nat OBVIOUS
<1>2. Layered(B, Neighbourhood(edges), start)
  BY NodesFinite, NeighbourhoodInNodes, BallLayered
<1> HIDE DEF B
<1>3. ASSUME NEW s \in D PROVE Step(s) \in D
  <2>1. ASSUME ~(s.truncated \/ s.next = <<>>) PROVE Hop(s, edges, maxNodes) \in D
    <3> DEFINE s0 == [s EXCEPT !.next = <<>>]
               t == Hop(s, edges, maxNodes)
    <3>1. Grows(s0, t, Reached(Neighbourhood(edges), Range(s.next)), maxNodes) BY HopGrows
    <3> HIDE DEF s0, t
    <3>2. t \in SearchStates /\ Distinct(t.order) BY <3>1, Zenon DEF Grows
    <3> QED BY <3>2 DEF t
  <2> QED BY <2>1
<1>4. first \in D
  <2>1. <<start>> \in Seq(Nat) /\ Len(<<start>>) = 1 OBVIOUS
  <2>2. first.order = <<start>> OBVIOUS
  <2>3. first \in SearchStates BY <2>1 DEF SearchStates
  <2>4. Distinct(first.order) BY <2>1, <2>2 DEF Distinct
  <2> QED BY <2>3, <2>4
<1>5. F \in [1 .. hops -> [D -> D]]
  <2> HIDE DEF D, Step
  <2> QED BY <1>3
<1>6. v = [d \in 0 .. hops |-> IF d = 0 THEN first ELSE Step(v[d - 1])]
  <2>1. PICK g : Recurs(g, D, first, hops, F)
    <3> HIDE DEF D, F, first
    <3> QED BY <1>1, <1>4, <1>5, Recursion, Zenon
  <2> HIDE DEF D, first
  <2>2. ASSUME NEW d \in 1 .. hops PROVE g[d] = Step(g[d - 1])
    <3>0. d - 1 \in 0 .. hops BY <1>1
    <3>1. g[d - 1] \in D BY <2>1, <3>0, Zenon DEF Recurs
    <3>2. g[d] = F[d][g[d - 1]] BY <2>1 DEF Recurs
    <3> HIDE DEF Step
    <3>3. F[d][g[d - 1]] = Step(g[d - 1]) BY <3>1
    <3> HIDE DEF F
    <3> QED BY <3>2, <3>3
  <2> HIDE DEF Step
  <2>3. g = [d \in 0 .. hops |-> IF d = 0 THEN first ELSE Step(g[d - 1])]
    <3>1. g \in [0 .. hops -> D] /\ g[0] = first BY <2>1, Zenon DEF Recurs
    <3>2. ASSUME NEW d \in 0 .. hops PROVE g[d] = IF d = 0 THEN first ELSE Step(g[d - 1])
      <4>1. CASE d = 0 BY <3>1, <4>1
      <4>2. CASE d # 0
        <5>1. d \in 1 .. hops BY <1>1, <4>2
        <5> QED BY <2>2, <4>2, <5>1, Zenon
      <4> QED BY <4>1, <4>2
    <3> QED BY <3>1, <3>2, Zenon
  <2>4. v = CHOOSE search : search = [d \in 0 .. hops |-> IF d = 0 THEN first ELSE Step(search[d - 1])]
    BY Zenon DEF Step, first
  <2> HIDE DEF v
  <2> QED BY <2>3, <2>4, Zenon
<1>7. r = [nodes |-> v[hops].order, truncated |-> v[hops].truncated]
  BY Zenon DEF ImpactRadiusBounded
<1> HIDE DEF v
<1> DEFINE S == {d \in 0 .. hops : Covers(v[d], d, B, maxNodes)}
<1>8. 0 \in S
  <2>1. 0 \in 0 .. hops BY <1>1
  <2>2. v[0] = first
    <3> HIDE DEF first, Step
    <3> QED BY <1>6, <2>1
  <2>3. Covers(first, 0, B, maxNodes) BY <1>2, CoversStart
  <2> HIDE DEF first
  <2> QED BY <2>1, <2>2, <2>3
<1>9. ASSUME NEW d \in 1 .. hops, d - 1 \in S PROVE d \in S
  <2> DEFINE s == v[d - 1]
  <2>1. d \in 0 .. hops /\ d - 1 \in Nat /\ d # 0 /\ (d - 1) + 1 = d BY <1>1
  <2>2. v[d] = Step(s)
    <3> HIDE DEF first, Step
    <3> QED BY <1>6, <2>1, Zenon
  <2>3. Covers(s, d - 1, B, maxNodes) BY <1>9
  <2>4. s \in SearchStates /\ Distinct(s.order) BY <2>3, Zenon DEF Covers
  <2> HIDE DEF s
  <2>5. CASE s.truncated \/ s.next = <<>>
    <3>1. Covers(s, (d - 1) + 1, B, maxNodes) BY <1>2, <2>1, <2>3, <2>5, CoversIdle
    <3>2. v[d] = s BY <2>2, <2>5
    <3> QED BY <2>1, <3>1, <3>2
  <2>6. CASE ~(s.truncated \/ s.next = <<>>)
    <3> DEFINE s0 == [s EXCEPT !.next = <<>>]
               t == Hop(s, edges, maxNodes)
    <3>1. v[d] = t BY <2>2, <2>6
    <3>2. Grows(s0, t, Reached(Neighbourhood(edges), Range(s.next)), maxNodes) BY <2>4, HopGrows
    <3>3. s0 \in SearchStates /\ s0.order = s.order /\ s0.truncated = s.truncated /\ s0.next = <<>>
      <4>1. <<>> \in Seq(Nat) OBVIOUS
      <4> QED BY <2>4, <4>1 DEF SearchStates
    <3> HIDE DEF s0, t
    <3>4. Covers(t, (d - 1) + 1, B, maxNodes) BY <1>2, <2>1, <2>3, <3>2, <3>3, CoversMore
    <3> QED BY <2>1, <3>1, <3>4
  <2> QED BY <2>5, <2>6
<1>10. Covers(v[hops], hops, B, maxNodes)
  <2>1. 0 .. hops \subseteq S
    <3> HIDE DEF S
    <3> QED BY <1>1, <1>8, <1>9, UpToInduction
  <2>2. hops \in S BY <1>1, <2>1
  <2> QED BY <2>2
<1>11. SearchOf(v[hops].order, v[hops].truncated, DOMAIN dist, dist, maxNodes)
  <2> DEFINE nodes == Nodes(edges, start)
             rel == Neighbourhood(edges)
  <2>1. /\ nodes \in SUBSET Nat
        /\ IsFiniteSet(nodes)
        /\ start \in nodes
        /\ rel \in SUBSET (nodes \X nodes)
    BY NodesFinite, NeighbourhoodInNodes
  <2>2. dist = BallOf(rel, nodes, start, hops) OBVIOUS
  <2>3. Covers(v[hops], hops, Balls(rel, nodes, start), maxNodes) BY <1>10 DEF B
  <2> HIDE DEF nodes, rel
  <2> QED BY <1>1, <2>1, <2>2, <2>3, CoveredIsSearch
<1>12. r.nodes = v[hops].order /\ r.truncated = v[hops].truncated BY <1>7
<1> QED BY <1>11, <1>12

\* Calls relate nodes, and lead to targets of edges.
LEMMA CallsAreNodes ==
    ASSUME NEW edges \in Seq(EdgeRow), NEW start \in Nat, NEW fallback
    PROVE  /\ CallRelation(edges, fallback) \in SUBSET (Nodes(edges, start) \X Nodes(edges, start))
           /\ \A p \in CallRelation(edges, fallback) : p[2] \in Range(Targets(edges))
<1> DEFINE nodes == Nodes(edges, start)
<1>1. ASSUME NEW k \in DOMAIN edges
      PROVE  edges[k].from \in nodes /\ edges[k].to \in nodes /\ edges[k].to \in Range(Targets(edges))
  <2>1. edges[k] \in Range(edges) BY DEF Range
  <2>2. edges[k].to \in Range(Targets(edges)) /\ edges[k].from \in Range(Sources(edges))
    BY <2>1, RangeOfEnds
  <2> QED BY <2>2 DEF Nodes
<1> HIDE DEF nodes
<1>2. ASSUME NEW p \in CallRelation(edges, fallback)
      PROVE  p \in nodes \X nodes /\ p[2] \in Range(Targets(edges))
  <2>1. PICK k \in DOMAIN edges : p = <<edges[k].from, edges[k].to>> BY DEF CallRelation
  <2> QED BY <1>1, <2>1
<1>3. CallRelation(edges, fallback) \in SUBSET (nodes \X nodes) BY <1>2
<1> QED BY <1>2, <1>3 DEF nodes

\* The nodes of all layers but the start are where steps lead.
LEMMA LayersAreTargets ==
    ASSUME NEW B, NEW rel, NEW start, Layered(B, rel, start), NEW T, \A p \in rel : p[2] \in T,
           NEW d \in Nat
    PROVE  B[d] \subseteq {start} \union T
<1> DEFINE S == {n \in Nat : B[n] \subseteq {start} \union T}
<1>1. 0 \in S BY DEF Layered
<1>2. ASSUME NEW n \in S PROVE n + 1 \in S
  <2>1. B[n + 1] = B[n] \union Reached(rel, B[n]) BY DEF Layered
  <2>2. Reached(rel, B[n]) \subseteq T BY DEF Reached
  <2>3. B[n] \subseteq {start} \union T BY <1>2
  <2>4. B[n + 1] \subseteq {start} \union T BY <2>1, <2>2, <2>3
  <2> QED BY <2>4
<1>3. S \in SUBSET Nat OBVIOUS
<1>4. S = Nat
  <2> HIDE DEF S
  <2> QED BY <1>1, <1>2, <1>3, SetInduction
<1>5. d \in S BY <1>4
<1> QED BY <1>5

-----------------------------------------------------------------------------
\* A flow as a search

\* The members and those that join next, in the order they were found in.
View(s) == [order |-> s.members \o s.next, next |-> s.next, truncated |-> s.truncated]

\* The states of a trace: its visited nodes are the members and the next, no node
\* twice, and it is cut only at the limit.
FlowStates(maxNodes) ==
    {s \in [members : Seq(Nat), next : Seq(Nat), visited : SUBSET Nat,
            truncated : BOOLEAN, stopped : BOOLEAN, fallbacks : Nat] :
        /\ Distinct(View(s).order) /\ s.visited = Range(View(s).order)
        /\ s.truncated => maxNodes > 0 /\ Cardinality(s.visited) >= maxNodes
        /\ s.stopped => s.truncated}

\* A flow seen as a search: what FlowStates says of it.
LEMMA ViewOf ==
    ASSUME NEW maxNodes \in Nat, NEW s \in FlowStates(maxNodes)
    PROVE  /\ View(s) \in SearchStates /\ Distinct(View(s).order) /\ s.visited = Range(View(s).order)
           /\ View(s).order = s.members \o s.next /\ View(s).next = s.next
           /\ View(s).truncated = s.truncated
           /\ s.members \in Seq(Nat) /\ s.next \in Seq(Nat) /\ s.visited \in SUBSET Nat
           /\ s.truncated \in BOOLEAN /\ s.stopped \in BOOLEAN /\ s.fallbacks \in Nat
           /\ s.truncated => maxNodes > 0 /\ Len(View(s).order) >= maxNodes
           /\ s.stopped => s.truncated
           /\ Cardinality(s.visited) = Len(View(s).order)
<1>1. /\ s.members \in Seq(Nat) /\ s.next \in Seq(Nat) /\ s.visited \in SUBSET Nat
      /\ s.truncated \in BOOLEAN /\ s.stopped \in BOOLEAN /\ s.fallbacks \in Nat
  BY DEF FlowStates
<1>2. /\ Distinct(View(s).order) /\ s.visited = Range(View(s).order)
      /\ s.truncated => maxNodes > 0 /\ Cardinality(s.visited) >= maxNodes
      /\ s.stopped => s.truncated
  BY DEF FlowStates
<1>3. /\ View(s).order = s.members \o s.next
      /\ View(s).next = s.next
      /\ View(s).truncated = s.truncated
  BY DEF View
<1>4. s.members \o s.next \in Seq(Nat) BY <1>1
<1>5. View(s) \in SearchStates BY <1>1, <1>4 DEF View, SearchStates
<1>6. View(s).order \in Seq(Nat) BY <1>3, <1>4
<1>7. Cardinality(s.visited) = Len(View(s).order) BY <1>2, <1>6, DistinctRange
<1> QED BY <1>1, <1>2, <1>3, <1>5, <1>7

\* To follow an edge is to visit where it leads, when it is a call.
LEMMA FollowVisits ==
    ASSUME NEW maxNodes \in Nat, NEW s \in FlowStates(maxNodes), NEW e \in EdgeRow, NEW fallback,
           NEW t, t = Follow(s, e, fallback, maxNodes)
    PROVE  /\ t \in FlowStates(maxNodes) /\ t.members = s.members
           /\ View(t) = IF Expands(e, fallback) THEN Visit(View(s), e.to, maxNodes) ELSE View(s)
<1> DEFINE n == e.to
           w == View(s)
<1>0. n \in Nat BY DEF EdgeRow
<1>1. /\ w \in SearchStates /\ Distinct(w.order) /\ s.visited = Range(w.order)
      /\ w.order = s.members \o s.next /\ w.next = s.next /\ w.truncated = s.truncated
      /\ s.members \in Seq(Nat) /\ s.next \in Seq(Nat) /\ s.visited \in SUBSET Nat
      /\ s.truncated \in BOOLEAN /\ s.stopped \in BOOLEAN /\ s.fallbacks \in Nat
      /\ s.truncated => maxNodes > 0 /\ Len(w.order) >= maxNodes
      /\ s.stopped => s.truncated
      /\ Cardinality(s.visited) = Len(w.order)
  BY ViewOf
<1> DEFINE count == s.fallbacks + (IF e.kind = "fallback_calls" THEN 1 ELSE 0)
<1>2. count \in Nat BY <1>1
<1>3. CASE n \in s.visited \/ ~Expands(e, fallback)
  <2>1. t = s BY <1>3 DEF Follow
  <2>2. n \in s.visited => Visit(w, n, maxNodes) = w BY <1>1 DEF Visit
  <2> QED BY <1>3, <2>1, <2>2
<1>4. CASE ~(n \in s.visited \/ ~Expands(e, fallback)) /\ maxNodes > 0 /\ Cardinality(s.visited) >= maxNodes
  <2>1. t = [[s EXCEPT !.fallbacks = count] EXCEPT !.truncated = TRUE, !.stopped = TRUE]
    BY <1>4, Zenon DEF Follow
  <2>2. t = [members |-> s.members, next |-> s.next, visited |-> s.visited,
             truncated |-> TRUE, stopped |-> TRUE, fallbacks |-> count]
    BY <2>1 DEF FlowStates
  <2>3. View(t) = [order |-> w.order, next |-> w.next, truncated |-> TRUE] BY <1>1, <2>2 DEF View
  <2>4. Visit(w, n, maxNodes) = [w EXCEPT !.truncated = TRUE]
    <3>1. CASE w.truncated
      <4>1. Visit(w, n, maxNodes) = w BY <3>1 DEF Visit
      <4>2. w = [w EXCEPT !.truncated = TRUE] BY <1>1, <3>1 DEF SearchStates
      <4> QED BY <4>1, <4>2
    <3>2. CASE ~w.truncated BY <1>1, <1>4, <3>2 DEF Visit
    <3> QED BY <3>1, <3>2
  <2>5. Visit(w, n, maxNodes) = View(t) BY <1>1, <2>3, <2>4 DEF SearchStates
  <2>6. t \in FlowStates(maxNodes)
    <3>1. t \in [members : Seq(Nat), next : Seq(Nat), visited : SUBSET Nat,
                 truncated : BOOLEAN, stopped : BOOLEAN, fallbacks : Nat]
      BY <1>1, <1>2, <2>2
    <3>2. View(t).order = w.order BY <2>3
    <3>3. t.visited = s.visited /\ t.truncated BY <2>2
    <3> QED BY <1>1, <1>4, <3>1, <3>2, <3>3 DEF FlowStates
  <2> QED BY <1>4, <2>2, <2>5, <2>6
<1>5. CASE ~(n \in s.visited \/ ~Expands(e, fallback)) /\ ~(maxNodes > 0 /\ Cardinality(s.visited) >= maxNodes)
  <2>1. t = [[s EXCEPT !.fallbacks = count] EXCEPT !.visited = @ \union {n}, !.next = Append(@, n)]
    BY <1>5, Zenon DEF Follow
  <2>2. t = [members |-> s.members, next |-> Append(s.next, n), visited |-> s.visited \union {n},
             truncated |-> s.truncated, stopped |-> s.stopped, fallbacks |-> count]
    BY <2>1 DEF FlowStates
  <2>3. ~s.truncated /\ ~s.stopped BY <1>1, <1>5
  <2>4. View(t) = [order |-> Append(w.order, n), next |-> Append(w.next, n), truncated |-> w.truncated]
    <3>1. s.members \o Append(s.next, n) = Append(w.order, n)
      <4>1. s.members \o Append(s.next, n) = Append(s.members \o s.next, n)
        <5> HIDE DEF n, w
        <5> QED BY <1>0, <1>1, AppendToBoth
      <4> QED BY <1>1, <4>1
    <3>2. /\ t.members = s.members /\ t.next = Append(s.next, n) /\ t.truncated = s.truncated
      BY <2>2
    <3>3. View(t) = [order |-> t.members \o t.next, next |-> t.next, truncated |-> t.truncated]
      BY DEF View
    <3> HIDE DEF n, w
    <3> QED BY <1>1, <3>1, <3>2, <3>3
  <2>5. Visit(w, n, maxNodes) = [w EXCEPT !.order = Append(@, n), !.next = Append(@, n)]
    BY <1>1, <1>5, <2>3, Zenon DEF Visit
  <2>6. Visit(w, n, maxNodes) = View(t) BY <1>1, <2>4, <2>5 DEF SearchStates
  <2>7. Grows(w, View(t), {n}, maxNodes) BY <1>0, <1>1, <2>6, VisitGrows
  <2>8. t \in FlowStates(maxNodes)
    <3>1. Append(s.next, n) \in Seq(Nat) /\ s.visited \union {n} \in SUBSET Nat BY <1>0, <1>1
    <3>2. t \in [members : Seq(Nat), next : Seq(Nat), visited : SUBSET Nat,
                 truncated : BOOLEAN, stopped : BOOLEAN, fallbacks : Nat]
      BY <1>1, <1>2, <2>2, <3>1
    <3>3. Distinct(View(t).order) BY <2>7, Zenon DEF Grows
    <3>4. w.order \in Seq(Nat) BY <1>1 DEF SearchStates
    <3>5. Range(Append(w.order, n)) = Range(w.order) \union {n} BY <1>0, <3>4, RangeOfAppend
    <3>6. t.visited = Range(View(t).order)
      <4>1. t.visited = s.visited \union {n} BY <2>2
      <4>2. View(t).order = Append(w.order, n) BY <2>4
      <4> HIDE DEF n, w
      <4> QED BY <1>1, <3>5, <4>1, <4>2
    <3>7. ~t.truncated /\ ~t.stopped BY <2>2, <2>3
    <3> QED BY <3>2, <3>3, <3>6, <3>7 DEF FlowStates
  <2> QED BY <1>5, <2>2, <2>6, <2>8
<1> QED BY <1>3, <1>4, <1>5

\* A search that was cut does not go on, whatever else there is to visit.
LEMMA GrowsNoMore ==
    ASSUME NEW s \in SearchStates, Distinct(s.order), s.truncated, NEW A, NEW maxNodes \in Nat
    PROVE  Grows(s, s, A, maxNodes)
<1>1. s.order \in Seq(Nat) BY DEF SearchStates
<1>2. Len(s.order) + 1 .. Len(s.order) = {} BY <1>1
<1> QED BY <1>1, <1>2 DEF Grows

\* To follow the edges of one member visits what it calls: after the limit has
\* broken the loop off there is nothing more to see.
LEMMA FollowFromGrows ==
    ASSUME NEW maxNodes \in Nat, NEW s \in FlowStates(maxNodes), NEW edges \in Seq(EdgeRow),
           NEW current \in Nat, NEW fallback
    PROVE  /\ FollowFrom(s, current, edges, fallback, maxNodes) \in FlowStates(maxNodes)
           /\ FollowFrom(s, current, edges, fallback, maxNodes).members = s.members
           /\ Grows(View(s), View(FollowFrom(s, current, edges, fallback, maxNodes)),
                    Reached(CallRelation(edges, fallback), {current}), maxNodes)
<1> DEFINE own == EdgesFromNodes(edges, <<current>>)
           N == Len(own)
           D == FlowStates(maxNodes)
           first == [s EXCEPT !.stopped = FALSE]
           Step(u, i) == IF u.stopped THEN u ELSE Follow(u, own[i], fallback, maxNodes)
           F == [i \in 1 .. N |-> [u \in D |-> Step(u, i)]]
           v == CHOOSE follows : follows = [i \in 0 .. N |->
                    IF i = 0 THEN [s EXCEPT !.stopped = FALSE]
                    ELSE IF follows[i - 1].stopped THEN follows[i - 1]
                    ELSE Follow(follows[i - 1], own[i], fallback, maxNodes)]
<1>1. own \in Seq(EdgeRow) /\ Range(own) = {e \in Range(edges) : e.from = current}
  <2> DEFINE A == {e \in Range(edges) : e.from \in Range(<<current>>)}
  <2>1. own = Kept(edges, A) BY Zenon DEF EdgesFromNodes
  <2>2. A \subseteq Range(edges) OBVIOUS
  <2>3. Range(<<current>>) = {current} BY DEF Range
  <2>4. A = {e \in Range(edges) : e.from = current} BY <2>3
  <2> HIDE DEF A, own
  <2>5. own \in Seq(EdgeRow) /\ Range(own) = Range(edges) \intersect A BY <2>1, KeptIs
  <2> QED BY <2>2, <2>4, <2>5
<1> HIDE DEF own
<1>2. N \in Nat /\ DOMAIN own = 1 .. N /\ \A i \in 1 .. N : own[i] \in EdgeRow BY <1>1
<1>3. FollowFrom(s, current, edges, fallback, maxNodes) = v[N] BY Zenon DEF FollowFrom, own
<1>4. ASSUME NEW u \in D, NEW i \in 1 .. N PROVE Step(u, i) \in D
  <2>1. own[i] \in EdgeRow BY <1>2
  <2>2. Follow(u, own[i], fallback, maxNodes) \in D BY <2>1, FollowVisits
  <2> QED BY <2>2
<1>5. first \in D /\ first.members = s.members /\ View(first) = View(s)
  <2>1. first = [members |-> s.members, next |-> s.next, visited |-> s.visited,
                 truncated |-> s.truncated, stopped |-> FALSE, fallbacks |-> s.fallbacks]
    <3>1. s \in [members : Seq(Nat), next : Seq(Nat), visited : SUBSET Nat,
                truncated : BOOLEAN, stopped : BOOLEAN, fallbacks : Nat]
      BY DEF FlowStates
    <3>2. first \in [members : Seq(Nat), next : Seq(Nat), visited : SUBSET Nat,
                truncated : BOOLEAN, stopped : BOOLEAN, fallbacks : Nat]
      BY <3>1
    <3>3. /\ first.members = s.members /\ first.next = s.next /\ first.visited = s.visited
          /\ first.truncated = s.truncated /\ first.stopped = FALSE /\ first.fallbacks = s.fallbacks
      BY <3>1
    <3> HIDE DEF first
    <3> QED BY <3>2, <3>3
  <2>2. View(first) = View(s) BY <2>1 DEF View
  <2>3. first.visited = s.visited /\ first.truncated = s.truncated /\ ~first.stopped BY <2>1
  <2>4. first \in [members : Seq(Nat), next : Seq(Nat), visited : SUBSET Nat,
                 truncated : BOOLEAN, stopped : BOOLEAN, fallbacks : Nat]
    BY <2>1, ViewOf
  <2>5. first \in D
    <3>1. /\ Distinct(View(s).order) /\ s.visited = Range(View(s).order)
          /\ s.truncated => maxNodes > 0 /\ Cardinality(s.visited) >= maxNodes
      BY DEF FlowStates
    <3> HIDE DEF first
    <3> QED BY <2>2, <2>3, <2>4, <3>1 DEF FlowStates
  <2> QED BY <2>1, <2>2, <2>5
<1>6. F \in [1 .. N -> [D -> D]]
  <2> HIDE DEF D, Step
  <2> QED BY <1>4
<1>7. v = [i \in 0 .. N |-> IF i = 0 THEN first ELSE Step(v[i - 1], i)]
  <2>1. PICK g : Recurs(g, D, first, N, F)
    <3> HIDE DEF D, F, first, N
    <3> QED BY <1>2, <1>5, <1>6, Recursion, Zenon
  <2> HIDE DEF D, first
  <2>2. ASSUME NEW i \in 1 .. N PROVE g[i] = Step(g[i - 1], i)
    <3>0. i - 1 \in 0 .. N BY <1>2
    <3>1. g[i - 1] \in D BY <2>1, <3>0, Zenon DEF Recurs
    <3>2. g[i] = F[i][g[i - 1]] BY <2>1 DEF Recurs
    <3> HIDE DEF Step
    <3>3. F[i][g[i - 1]] = Step(g[i - 1], i) BY <3>1
    <3> HIDE DEF F
    <3> QED BY <3>2, <3>3
  <2> HIDE DEF Step, N
  <2>3. g = [i \in 0 .. N |-> IF i = 0 THEN first ELSE Step(g[i - 1], i)]
    <3>1. g \in [0 .. N -> D] /\ g[0] = first BY <2>1, Zenon DEF Recurs
    <3>2. ASSUME NEW i \in 0 .. N PROVE g[i] = IF i = 0 THEN first ELSE Step(g[i - 1], i)
      <4>1. CASE i = 0 BY <3>1, <4>1
      <4>2. CASE i # 0
        <5>1. i \in 1 .. N BY <1>2, <4>2
        <5> QED BY <2>2, <4>2, <5>1, Zenon
      <4> QED BY <4>1, <4>2
    <3> QED BY <3>1, <3>2, Zenon
  <2>4. v = CHOOSE follows : follows = [i \in 0 .. N |-> IF i = 0 THEN first ELSE Step(follows[i - 1], i)]
    BY Zenon DEF Step, first
  <2> HIDE DEF v
  <2> QED BY <2>3, <2>4, Zenon
<1> DEFINE New(i) == {own[j].to : j \in {k \in 1 .. i : Expands(own[k], fallback)}}
           P(i) == v[i] \in D /\ v[i].members = s.members /\ Grows(View(s), View(v[i]), New(i), maxNodes)
           S == {i \in 0 .. N : P(i)}
<1> HIDE DEF v
<1>8. 0 \in S
  <2>1. 0 \in 0 .. N BY <1>2
  <2>2. v[0] = first
    <3> HIDE DEF first, Step, N
    <3> QED BY <1>7, <2>1
  <2>3. New(0) = {} OBVIOUS
  <2>4. View(s) \in SearchStates /\ Distinct(View(s).order) BY ViewOf
  <2>5. Grows(View(s), View(s), {}, maxNodes) BY <2>4, GrowsNone
  <2> HIDE DEF first, New, D
  <2>6. P(0) BY <1>5, <2>2, <2>3, <2>5
  <2> HIDE DEF P
  <2> QED BY <2>1, <2>6
<1>9. ASSUME NEW i \in 1 .. N, i - 1 \in S PROVE i \in S
  <2> DEFINE u == v[i - 1]
             e == own[i]
  <2>1. i \in 0 .. N /\ e \in EdgeRow /\ i # 0 BY <1>2
  <2>2. v[i] = Step(u, i)
    <3> HIDE DEF first, Step, N
    <3> QED BY <1>7, <2>1, Zenon
  <2>3. u \in D /\ u.members = s.members /\ Grows(View(s), View(u), New(i - 1), maxNodes) BY <1>9
  <2>4. New(i) = New(i - 1) \union (IF Expands(e, fallback) THEN {e.to} ELSE {})
    <3>1. 1 .. i = (1 .. i - 1) \union {i} BY <2>1
    <3>2. {k \in 1 .. i : Expands(own[k], fallback)} =
              {k \in 1 .. i - 1 : Expands(own[k], fallback)} \union (IF Expands(e, fallback) THEN {i} ELSE {})
      BY <3>1
    <3> QED BY <3>2
  <2>5. View(u) \in SearchStates /\ Distinct(View(u).order) /\ (u.stopped => View(u).truncated)
    BY <2>3, ViewOf
  <2>6. View(s) \in SearchStates BY ViewOf
  <2> DEFINE A == IF Expands(e, fallback) THEN {e.to} ELSE {}
  <2>7. v[i] \in D /\ v[i].members = s.members /\ Grows(View(u), View(v[i]), A, maxNodes)
    <3>1. CASE u.stopped
      <4>1. v[i] = u BY <2>2, <3>1
      <4>2. Grows(View(u), View(u), A, maxNodes) BY <2>5, <3>1, GrowsNoMore
      <4> QED BY <2>3, <4>1, <4>2
    <3>2. CASE ~u.stopped
      <4>1. v[i] = Follow(u, e, fallback, maxNodes) BY <2>2, <3>2
      <4> HIDE DEF u, e
      <4>2. /\ v[i] \in D /\ v[i].members = u.members
            /\ View(v[i]) = IF Expands(e, fallback) THEN Visit(View(u), e.to, maxNodes) ELSE View(u)
        BY <2>1, <2>3, <4>1, FollowVisits
      <4>3. e.to \in Nat BY <2>1 DEF EdgeRow
      <4>4. CASE Expands(e, fallback)
        <5>1. Grows(View(u), Visit(View(u), e.to, maxNodes), {e.to}, maxNodes)
          BY <2>5, <4>3, VisitGrows
        <5> QED BY <2>3, <4>2, <4>4, <5>1
      <4>5. CASE ~Expands(e, fallback)
        <5>1. Grows(View(u), View(u), {}, maxNodes) BY <2>5, GrowsNone
        <5> QED BY <2>3, <4>2, <4>5, <5>1
      <4> QED BY <4>4, <4>5
    <3> QED BY <3>1, <3>2
  <2> HIDE DEF New, A, u, D
  <2>8. Grows(View(s), View(v[i]), New(i - 1) \union A, maxNodes) BY <2>3, <2>6, <2>7, GrowsOn
  <2>9. P(i) BY <2>4, <2>7, <2>8 DEF A
  <2> HIDE DEF P
  <2> QED BY <2>1, <2>9
<1>10. P(N)
  <2> HIDE DEF P
  <2>1. 0 .. N \subseteq S
    <3> HIDE DEF S, N
    <3> QED BY <1>2, <1>8, <1>9, UpToInduction
  <2> QED BY <1>2, <2>1
<1>11. New(N) = Reached(CallRelation(edges, fallback), {current})
  <2>1. Range(own) = {own[j] : j \in 1 .. N} /\ Range(edges) = {edges[j] : j \in DOMAIN edges}
    BY <1>2 DEF Range
  <2>2. ASSUME NEW n \in New(N) PROVE n \in Reached(CallRelation(edges, fallback), {current})
    <3>1. PICK j \in 1 .. N : Expands(own[j], fallback) /\ n = own[j].to OBVIOUS
    <3>2. own[j] \in Range(edges) /\ own[j].from = current BY <1>1, <2>1
    <3>3. PICK k \in DOMAIN edges : own[j] = edges[k] BY <2>1, <3>2
    <3>4. <<edges[k].from, edges[k].to>> \in CallRelation(edges, fallback)
      BY <3>1, <3>3, Zenon DEF CallRelation
    <3> QED BY <3>1, <3>2, <3>3, <3>4 DEF Reached
  <2>3. ASSUME NEW n \in Reached(CallRelation(edges, fallback), {current}) PROVE n \in New(N)
    <3>1. PICK p \in CallRelation(edges, fallback) : p[1] = current /\ n = p[2] BY DEF Reached
    <3>2. PICK k \in DOMAIN edges : /\ Expands(edges[k], fallback)
                                    /\ p = <<edges[k].from, edges[k].to>>
      BY <3>1 DEF CallRelation
    <3>3. edges[k] \in Range(own) BY <1>1, <2>1, <3>1, <3>2
    <3>4. PICK j \in 1 .. N : own[j] = edges[k] BY <2>1, <3>3
    <3> QED BY <3>1, <3>2, <3>4
  <2> QED BY <2>2, <2>3
<1> HIDE DEF New, D
<1> QED BY <1>3, <1>10, <1>11 DEF D

\* A level visits what its members call, and makes them members.
LEMMA LevelGrows ==
    ASSUME NEW maxNodes \in Nat, NEW s \in FlowStates(maxNodes), NEW edges \in Seq(EdgeRow), NEW fallback,
           NEW s0, s0 = [order |-> View(s).order, next |-> <<>>, truncated |-> s.truncated]
    PROVE  /\ Level(s, edges, fallback, maxNodes) \in FlowStates(maxNodes)
           /\ Level(s, edges, fallback, maxNodes).members = s.members \o s.next
           /\ Grows(s0, View(Level(s, edges, fallback, maxNodes)),
                    Reached(CallRelation(edges, fallback), Range(s.next)), maxNodes)
<1> DEFINE N == Len(s.next)
           D == FlowStates(maxNodes)
           rel == CallRelation(edges, fallback)
           first == [s EXCEPT !.members = @ \o s.next, !.next = <<>>]
           Step(u, i) == FollowFrom(u, s.next[i], edges, fallback, maxNodes)
           F == [i \in 1 .. N |-> [u \in D |-> Step(u, i)]]
           v == CHOOSE level : level = [i \in 0 .. N |->
                    IF i = 0 THEN [s EXCEPT !.members = @ \o s.next, !.next = <<>>]
                    ELSE FollowFrom(level[i - 1], s.next[i], edges, fallback, maxNodes)]
<1>1. /\ s.members \in Seq(Nat) /\ s.next \in Seq(Nat) /\ View(s).order = s.members \o s.next
      /\ View(s) \in SearchStates /\ Distinct(View(s).order)
  BY ViewOf
<1>2. N \in Nat /\ DOMAIN s.next = 1 .. N /\ \A i \in 1 .. N : s.next[i] \in Nat BY <1>1
<1>3. Level(s, edges, fallback, maxNodes) = v[N] BY Zenon DEF Level
<1>4. ASSUME NEW u \in D, NEW i \in 1 .. N PROVE Step(u, i) \in D
  <2>1. s.next[i] \in Nat BY <1>2
  <2> QED BY <2>1, FollowFromGrows
<1>5. first \in D /\ first.members = s.members \o s.next /\ View(first) = s0
  <2>1. s \in [members : Seq(Nat), next : Seq(Nat), visited : SUBSET Nat,
               truncated : BOOLEAN, stopped : BOOLEAN, fallbacks : Nat]
    BY DEF FlowStates
  <2>2. s.members \o s.next \in Seq(Nat) /\ <<>> \in Seq(Nat) BY <1>1
  <2>3. first \in [members : Seq(Nat), next : Seq(Nat), visited : SUBSET Nat,
                   truncated : BOOLEAN, stopped : BOOLEAN, fallbacks : Nat]
    BY <2>1, <2>2
  <2>4. /\ first.members = s.members \o s.next /\ first.next = <<>> /\ first.visited = s.visited
        /\ first.truncated = s.truncated /\ first.stopped = s.stopped /\ first.fallbacks = s.fallbacks
    BY <2>1
  <2> HIDE DEF first
  <2>5. first.members \o first.next = s.members \o s.next
    <3> DEFINE q == s.members \o s.next
    <3>1. q \in Seq(Nat) BY <2>2
    <3> HIDE DEF q
    <3>2. q \o <<>> = q BY <3>1
    <3> QED BY <2>4, <3>2 DEF q
  <2>6. View(first) = s0 BY <1>1, <2>4, <2>5 DEF View
  <2>7. View(first).order = View(s).order BY <2>6
  <2>8. /\ Distinct(View(s).order) /\ s.visited = Range(View(s).order)
        /\ s.truncated => maxNodes > 0 /\ Cardinality(s.visited) >= maxNodes
        /\ s.stopped => s.truncated
    BY DEF FlowStates
  <2>9. first \in D BY <2>3, <2>4, <2>7, <2>8 DEF FlowStates
  <2> QED BY <2>4, <2>6, <2>9
<1>6. F \in [1 .. N -> [D -> D]]
  <2> HIDE DEF D, Step
  <2> QED BY <1>4
<1>7. v = [i \in 0 .. N |-> IF i = 0 THEN first ELSE Step(v[i - 1], i)]
  <2>1. PICK g : Recurs(g, D, first, N, F)
    <3> HIDE DEF D, F, first, N
    <3> QED BY <1>2, <1>5, <1>6, Recursion, Zenon
  <2> HIDE DEF D, first
  <2>2. ASSUME NEW i \in 1 .. N PROVE g[i] = Step(g[i - 1], i)
    <3>0. i - 1 \in 0 .. N BY <1>2
    <3>1. g[i - 1] \in D BY <2>1, <3>0, Zenon DEF Recurs
    <3>2. g[i] = F[i][g[i - 1]] BY <2>1 DEF Recurs
    <3> HIDE DEF Step
    <3>3. F[i][g[i - 1]] = Step(g[i - 1], i) BY <3>1
    <3> HIDE DEF F
    <3> QED BY <3>2, <3>3
  <2> HIDE DEF Step, N
  <2>3. g = [i \in 0 .. N |-> IF i = 0 THEN first ELSE Step(g[i - 1], i)]
    <3>1. g \in [0 .. N -> D] /\ g[0] = first BY <2>1, Zenon DEF Recurs
    <3>2. ASSUME NEW i \in 0 .. N PROVE g[i] = IF i = 0 THEN first ELSE Step(g[i - 1], i)
      <4>1. CASE i = 0 BY <3>1, <4>1
      <4>2. CASE i # 0
        <5>1. i \in 1 .. N BY <1>2, <4>2
        <5> QED BY <2>2, <4>2, <5>1, Zenon
      <4> QED BY <4>1, <4>2
    <3> QED BY <3>1, <3>2, Zenon
  <2>4. v = CHOOSE level : level = [i \in 0 .. N |-> IF i = 0 THEN first ELSE Step(level[i - 1], i)]
    BY Zenon DEF Step, first
  <2> HIDE DEF v
  <2> QED BY <2>3, <2>4, Zenon
<1>8. s0 \in SearchStates /\ Distinct(s0.order)
  <2>1. s0.order = View(s).order BY Zenon
  <2>2. View(s).order \in Seq(Nat) /\ <<>> \in Seq(Nat) /\ s.truncated \in BOOLEAN
    <3>1. View(s).order \in Seq(Nat) BY <1>1, Zenon DEF SearchStates
    <3>2. s.truncated \in BOOLEAN BY ViewOf
    <3> QED BY <3>1, <3>2
  <2>3. s0 \in SearchStates BY <2>2 DEF SearchStates
  <2> QED BY <1>1, <2>1, <2>3
<1> DEFINE At(i) == {s.next[j] : j \in 1 .. i}
           P(i) == /\ v[i] \in D /\ v[i].members = s.members \o s.next
                   /\ Grows(s0, View(v[i]), Reached(rel, At(i)), maxNodes)
           S == {i \in 0 .. N : P(i)}
<1> HIDE DEF v
<1>9. 0 \in S
  <2>1. 0 \in 0 .. N BY <1>2
  <2>2. v[0] = first
    <3> HIDE DEF first, Step, N
    <3> QED BY <1>7, <2>1
  <2>3. Reached(rel, At(0)) = {}
    <3>1. At(0) = {} OBVIOUS
    <3> HIDE DEF At, rel
    <3> QED BY <3>1 DEF Reached
  <2>4. Grows(s0, s0, {}, maxNodes) BY <1>8, GrowsNone
  <2> HIDE DEF first, At, D
  <2>5. P(0) BY <1>5, <2>2, <2>3, <2>4
  <2> HIDE DEF P
  <2> QED BY <2>1, <2>5
<1>10. ASSUME NEW i \in 1 .. N, i - 1 \in S PROVE i \in S
  <2> DEFINE u == v[i - 1]
             c == s.next[i]
  <2>1. i \in 0 .. N /\ c \in Nat /\ i # 0 BY <1>2
  <2>2. v[i] = FollowFrom(u, c, edges, fallback, maxNodes)
    <3> HIDE DEF first, N
    <3> QED BY <1>7, <2>1, Zenon
  <2>3. /\ u \in D
        /\ u.members = s.members \o s.next
        /\ Grows(s0, View(u), Reached(rel, At(i - 1)), maxNodes)
    BY <1>10
  <2> HIDE DEF u, c
  <2>4. /\ v[i] \in D
        /\ v[i].members = u.members
        /\ Grows(View(u), View(v[i]), Reached(rel, {c}), maxNodes)
    <3> DEFINE t == FollowFrom(u, c, edges, fallback, maxNodes)
    <3>1. t \in D /\ t.members = u.members /\ Grows(View(u), View(t), Reached(rel, {c}), maxNodes)
      <4>1. u \in FlowStates(maxNodes) /\ c \in Nat BY <2>1, <2>3
      <4>2. /\ FollowFrom(u, c, edges, fallback, maxNodes) \in FlowStates(maxNodes)
            /\ FollowFrom(u, c, edges, fallback, maxNodes).members = u.members
            /\ Grows(View(u), View(FollowFrom(u, c, edges, fallback, maxNodes)),
                     Reached(CallRelation(edges, fallback), {c}), maxNodes)
        BY ONLY <4>1, FollowFromGrows, maxNodes \in Nat, edges \in Seq(EdgeRow)
      <4> QED BY <4>2
    <3> HIDE DEF t, rel, D
    <3> QED BY <2>2, <3>1 DEF t
  <2>5. At(i) = At(i - 1) \union {c}
    <3>1. 1 .. i = (1 .. i - 1) \union {i} BY <2>1
    <3> QED BY <3>1 DEF c
  <2> HIDE DEF At, rel
  <2>6. Reached(rel, At(i)) = Reached(rel, At(i - 1)) \union Reached(rel, {c})
    BY <2>5 DEF Reached
  <2>7. Grows(s0, View(v[i]), Reached(rel, At(i - 1)) \union Reached(rel, {c}), maxNodes)
    BY <1>8, <2>3, <2>4, GrowsOn
  <2> HIDE DEF D
  <2>8. P(i) BY <2>3, <2>4, <2>6, <2>7
  <2> HIDE DEF P
  <2> QED BY <2>1, <2>8
<1>11. P(N)
  <2> HIDE DEF P
  <2>1. 0 .. N \subseteq S
    <3> HIDE DEF S, N
    <3> QED BY <1>2, <1>9, <1>10, UpToInduction
  <2> QED BY <1>2, <2>1
<1>12. At(N) = Range(s.next) BY <1>2 DEF Range
<1> HIDE DEF At, D
<1> QED BY <1>3, <1>11, <1>12 DEF D

\* A trace has covered as many layers as it has levels, and while it goes on
\* every level has at least one member of its own.
LEMMA TraceCovers ==
    ASSUME NEW edges \in Seq(EdgeRow), NEW start \in Nat, NEW maxNodes \in Nat, NEW fallback, NEW B,
           Layered(B, CallRelation(edges, fallback), start)
    PROVE  \E s \in FlowStates(maxNodes) :
              /\ TraceFlowBounded(edges, start, maxNodes, fallback) =
                    [members |-> s.members, truncated |-> s.truncated, fallbacks |-> s.fallbacks]
              /\ Covers(View(s), Len(edges) + 1, B, maxNodes)
              /\ s.next # <<>> => Len(s.members) >= Len(edges) + 1
<1> DEFINE N == Len(edges) + 1
           D == FlowStates(maxNodes)
           rel == CallRelation(edges, fallback)
           first == [members |-> <<>>, next |-> <<start>>, visited |-> {start},
                     truncated |-> FALSE, stopped |-> FALSE, fallbacks |-> 0]
           Step(u) == IF u.next = <<>> THEN u ELSE Level(u, edges, fallback, maxNodes)
           F == [k \in 1 .. N |-> [u \in D |-> Step(u)]]
           v == CHOOSE trace : trace = [k \in 0 .. Len(edges) + 1 |->
                    IF k = 0
                    THEN [members |-> <<>>, next |-> <<start>>, visited |-> {start},
                          truncated |-> FALSE, stopped |-> FALSE, fallbacks |-> 0]
                    ELSE IF trace[k - 1].next = <<>> THEN trace[k - 1]
                         ELSE Level(trace[k - 1], edges, fallback, maxNodes)]
<1>1. N \in Nat OBVIOUS
<1>2. TraceFlowBounded(edges, start, maxNodes, fallback) =
          [members |-> v[N].members, truncated |-> v[N].truncated, fallbacks |-> v[N].fallbacks]
  BY Zenon DEF TraceFlowBounded
<1>3. ASSUME NEW u \in D PROVE Step(u) \in D
  <2>1. Level(u, edges, fallback, maxNodes) \in D BY LevelGrows
  <2> QED BY <2>1
<1>4. first \in D /\ View(first) = [order |-> <<start>>, next |-> <<start>>, truncated |-> FALSE]
  <2>1. <<>> \in Seq(Nat) /\ <<start>> \in Seq(Nat) /\ <<>> \o <<start>> = <<start>> OBVIOUS
  <2>2. View(first) = [order |-> <<start>>, next |-> <<start>>, truncated |-> FALSE]
    BY <2>1 DEF View
  <2>3. View(first).order = <<start>>
    <3> DEFINE w == View(first)
    <3>1. w = [order |-> <<start>>, next |-> <<start>>, truncated |-> FALSE] BY <2>2
    <3> HIDE DEF w
    <3>2. w.order = <<start>> BY <3>1
    <3> QED BY <3>2 DEF w
  <2>4. Distinct(<<start>>) /\ Range(<<start>>) = {start} BY DEF Distinct, Range
  <2>5. first \in [members : Seq(Nat), next : Seq(Nat), visited : SUBSET Nat,
                   truncated : BOOLEAN, stopped : BOOLEAN, fallbacks : Nat]
    BY <2>1
  <2>6. first.visited = {start} /\ ~first.truncated /\ ~first.stopped OBVIOUS
  <2> HIDE DEF first
  <2>7. first \in D BY <2>3, <2>4, <2>5, <2>6 DEF FlowStates
  <2> QED BY <2>2, <2>7
<1>5. F \in [1 .. N -> [D -> D]]
  <2> HIDE DEF D, Step
  <2> QED BY <1>3
<1>6. v = [k \in 0 .. N |-> IF k = 0 THEN first ELSE Step(v[k - 1])]
  <2>1. PICK g : Recurs(g, D, first, N, F)
    <3> HIDE DEF D, F, first, N
    <3> QED BY <1>1, <1>4, <1>5, Recursion, Zenon
  <2> HIDE DEF D, first
  <2>2. ASSUME NEW k \in 1 .. N PROVE g[k] = Step(g[k - 1])
    <3>0. k - 1 \in 0 .. N BY <1>1
    <3>1. g[k - 1] \in D BY <2>1, <3>0, Zenon DEF Recurs
    <3>2. g[k] = F[k][g[k - 1]] BY <2>1 DEF Recurs
    <3> HIDE DEF Step
    <3>3. F[k][g[k - 1]] = Step(g[k - 1]) BY <3>1
    <3> HIDE DEF F
    <3> QED BY <3>2, <3>3
  <2>4. v = CHOOSE trace : trace = [k \in 0 .. N |-> IF k = 0 THEN first ELSE Step(trace[k - 1])]
    BY Zenon DEF Step, first, N
  <2> HIDE DEF Step, N
  <2>3. g = [k \in 0 .. N |-> IF k = 0 THEN first ELSE Step(g[k - 1])]
    <3>1. g \in [0 .. N -> D] /\ g[0] = first BY <2>1, Zenon DEF Recurs
    <3>2. ASSUME NEW k \in 0 .. N PROVE g[k] = IF k = 0 THEN first ELSE Step(g[k - 1])
      <4>1. CASE k = 0 BY <3>1, <4>1
      <4>2. CASE k # 0
        <5>1. k \in 1 .. N BY <1>1, <4>2
        <5> QED BY <2>2, <4>2, <5>1, Zenon
      <4> QED BY <4>1, <4>2
    <3> QED BY <3>1, <3>2, Zenon
  <2> HIDE DEF v
  <2> QED BY <2>3, <2>4, Zenon
<1> DEFINE P(k) == /\ v[k] \in D /\ Covers(View(v[k]), k, B, maxNodes)
                   /\ v[k].next # <<>> => Len(v[k].members) >= k
           S == {k \in 0 .. N : P(k)}
<1> HIDE DEF v
<1>7. 0 \in S
  <2>1. 0 \in 0 .. N BY <1>1
  <2>2. v[0] = first
    <3> HIDE DEF first, Step, N
    <3> QED BY <1>6, <2>1
  <2>3. Covers(View(first), 0, B, maxNodes) BY <1>4, CoversStart
  <2>4. Len(first.members) >= 0 OBVIOUS
  <2> HIDE DEF first, D
  <2>5. P(0) BY <1>4, <2>2, <2>3, <2>4
  <2> HIDE DEF P
  <2> QED BY <2>1, <2>5
<1>8. ASSUME NEW k \in 1 .. N, k - 1 \in S PROVE k \in S
  <2> DEFINE u == v[k - 1]
             w == View(u)
  <2>1. k \in 0 .. N /\ k - 1 \in Nat /\ k # 0 /\ (k - 1) + 1 = k BY <1>1
  <2>2. v[k] = Step(u)
    <3> HIDE DEF first, Step, N
    <3> QED BY <1>6, <2>1, Zenon
  <2>3. u \in D /\ Covers(w, k - 1, B, maxNodes) /\ (u.next # <<>> => Len(u.members) >= k - 1)
    BY <1>8
  <2>4. /\ w \in SearchStates /\ Distinct(w.order) /\ w.next = u.next /\ w.truncated = u.truncated
        /\ u.members \in Seq(Nat) /\ u.next \in Seq(Nat)
    BY <2>3, ViewOf
  <2>5. CASE u.next = <<>>
    <3>1. v[k] = u BY <2>2, <2>5
    <3> HIDE DEF u, D
    <3>2. Covers(w, (k - 1) + 1, B, maxNodes)
      <4> HIDE DEF w
      <4> QED BY <2>1, <2>3, <2>4, <2>5, CoversIdle
    <3>3. P(k) BY <2>1, <2>3, <2>5, <3>1, <3>2
    <3> HIDE DEF P
    <3> QED BY <2>1, <3>3
  <2>6. CASE u.next # <<>>
    <3> DEFINE t == Level(u, edges, fallback, maxNodes)
               s0 == [order |-> w.order, next |-> <<>>, truncated |-> u.truncated]
    <3>1. v[k] = t BY <2>2, <2>6
    <3> HIDE DEF u
    <3>2. /\ t \in D
          /\ t.members = u.members \o u.next
          /\ Grows(s0, View(t), Reached(rel, Range(u.next)), maxNodes)
      BY <2>3, LevelGrows
    <3>3. s0 \in SearchStates /\ s0.order = w.order /\ s0.truncated = w.truncated /\ s0.next = <<>>
      <4>1. <<>> \in Seq(Nat) OBVIOUS
      <4> HIDE DEF w
      <4> QED BY <2>4, <4>1 DEF SearchStates
    <3> HIDE DEF t, s0, D
    <3>4. Covers(View(t), (k - 1) + 1, B, maxNodes)
      <4> HIDE DEF w
      <4> QED BY <2>1, <2>3, <2>4, <3>2, <3>3, CoversMore
    <3>5. Len(t.members) >= k
      <4>1. Len(u.next) \in Nat /\ Len(u.next) # 0 /\ Len(u.members) \in Nat BY <2>4, <2>6
      <4>2. Len(u.members \o u.next) = Len(u.members) + Len(u.next) BY <2>4
      <4>3. Len(t.members) = Len(u.members) + Len(u.next) BY <3>2, <4>2
      <4>4. Len(u.members) >= k - 1 BY <2>3, <2>6
      <4> DEFINE a == Len(u.members)
                 b == Len(u.next)
                 c == Len(t.members)
      <4>5. /\ a \in Nat /\ b \in Nat /\ b # 0 /\ c = a + b /\ a >= k - 1 /\ k \in Nat
        BY <2>1, <4>1, <4>3, <4>4
      <4> HIDE DEF a, b, c
      <4>6. c >= k BY <4>5
      <4> QED BY <4>6 DEF c
    <3>6. P(k) BY <2>1, <3>1, <3>2, <3>4, <3>5
    <3> HIDE DEF P
    <3> QED BY <2>1, <3>6
  <2> QED BY <2>5, <2>6
<1>9. P(N)
  <2> HIDE DEF P
  <2>1. 0 .. N \subseteq S
    <3> HIDE DEF S, N
    <3> QED BY <1>1, <1>7, <1>8, UpToInduction
  <2> QED BY <1>1, <2>1
<1> QED BY <1>2, <1>9

\* It ends before its last level: there are not as many nodes.
LEMMA TraceEnds ==
    ASSUME NEW edges \in Seq(EdgeRow), NEW start \in Nat, NEW maxNodes \in Nat, NEW fallback, NEW B,
           Layered(B, CallRelation(edges, fallback), start),
           NEW s \in FlowStates(maxNodes), Covers(View(s), Len(edges) + 1, B, maxNodes),
           s.next # <<>> => Len(s.members) >= Len(edges) + 1
    PROVE  s.next = <<>> /\ View(s).order = s.members
<1> DEFINE T == Targets(edges)
           q == View(s).order
<1>1. /\ s.members \in Seq(Nat) /\ s.next \in Seq(Nat) /\ q = s.members \o s.next
      /\ Distinct(q) /\ View(s) \in SearchStates
  BY ViewOf
<1>2. T \in Seq(Nat) /\ Len(T) = Len(edges) /\ Len(edges) \in Nat
  <2>1. Len(edges) \in Nat /\ DOMAIN edges = 1 .. Len(edges) OBVIOUS
  <2>2. DOMAIN T = 1 .. Len(edges) BY <2>1 DEF Targets
  <2>3. T \in Seq(Nat) BY RangeOfEnds
  <2> HIDE DEF T
  <2>4. DOMAIN T = 1 .. Len(T) /\ Len(T) \in Nat BY <2>3
  <2>5. Len(T) = Len(edges) BY <2>1, <2>2, <2>4
  <2> QED BY <2>1, <2>3, <2>5
<1>3. Range(q) \subseteq {start} \union Range(T)
  <2>1. Range(q) \subseteq B[Len(edges) + 1] BY Zenon DEF Covers
  <2>2. \A p \in CallRelation(edges, fallback) : p[2] \in Range(T) BY CallsAreNodes
  <2> HIDE DEF T, q
  <2>3. Len(edges) + 1 \in Nat BY <1>2
  <2>4. B[Len(edges) + 1] \subseteq {start} \union Range(T)
    <3> DEFINE rel == CallRelation(edges, fallback)
               n == Len(edges) + 1
               TT == Range(T)
    <3>1. Layered(B, rel, start) /\ n \in Nat /\ \A p \in rel : p[2] \in TT BY <2>2, <2>3
    <3> HIDE DEF rel, n, TT
    <3>2. B[n] \subseteq {start} \union TT BY <3>1, LayersAreTargets
    <3> QED BY <3>2 DEF n, TT
  <2> QED BY <2>1, <2>4
<1> HIDE DEF T
<1>4. IsFiniteSet({start} \union Range(T)) /\ Cardinality({start} \union Range(T)) <= Len(edges) + 1
  <2>1. IsFiniteSet(Range(T)) /\ Cardinality(Range(T)) <= Len(edges) BY <1>2, RangeFinite
  <2>2. /\ IsFiniteSet(Range(T) \union {start})
        /\ Cardinality(Range(T) \union {start}) = Cardinality(Range(T)) \/
           Cardinality(Range(T) \union {start}) = Cardinality(Range(T)) + 1
    BY <2>1, FS_AddElement
  <2>3. Cardinality(Range(T)) \in Nat BY <2>1, FS_CardinalityType
  <2>4. Range(T) \union {start} = {start} \union Range(T) OBVIOUS
  <2> DEFINE a == Cardinality(Range(T))
             b == Cardinality(Range(T) \union {start})
             c == Len(edges)
  <2>5. a \in Nat /\ c \in Nat /\ a <= c /\ (b = a \/ b = a + 1) BY <1>2, <2>1, <2>2, <2>3
  <2> HIDE DEF a, b, c
  <2>6. b <= c + 1 BY <2>5
  <2> QED BY <2>2, <2>4, <2>6 DEF b, c
<1>5. Len(q) <= Len(edges) + 1
  <2>1. q \in Seq(Nat) BY <1>1 DEF SearchStates
  <2> HIDE DEF q
  <2>2. Cardinality(Range(q)) = Len(q) BY <1>1, <2>1, DistinctRange
  <2> DEFINE A == {start} \union Range(T)
  <2>3. IsFiniteSet(A) /\ Range(q) \subseteq A /\ Cardinality(A) <= Len(edges) + 1 BY <1>3, <1>4
  <2> HIDE DEF A
  <2>4. Cardinality(Range(q)) <= Cardinality(A) BY <2>3, FS_Subset
  <2>5. Cardinality(A) \in Nat /\ Len(q) \in Nat BY <2>1, <2>3, FS_CardinalityType
  <2> QED BY <1>2, <2>2, <2>3, <2>4, <2>5
<1>6. Len(q) = Len(s.members) + Len(s.next) /\ Len(s.members) \in Nat /\ Len(s.next) \in Nat BY <1>1
<1>7. s.next = <<>>
  <2> SUFFICES ASSUME s.next # <<>> PROVE FALSE OBVIOUS
  <2>1. Len(s.next) > 0 BY <1>1
  <2>2. Len(s.members) >= Len(edges) + 1 OBVIOUS
  <2> HIDE DEF q
  <2> DEFINE a == Len(s.members)
             b == Len(s.next)
             c == Len(edges)
             l == Len(q)
  <2>3. /\ a \in Nat /\ b \in Nat /\ b > 0 /\ c \in Nat /\ a >= c + 1
        /\ l = a + b /\ l <= c + 1
    BY <1>2, <1>5, <1>6, <2>1, <2>2
  <2> HIDE DEF a, b, c, l
  <2> QED BY <2>3
<1>8. q = s.members BY <1>1, <1>7
<1> QED BY <1>7, <1>8

\* A flow is what SearchOf asks for, within the reach of the start.
LEMMA FlowIsSearch ==
    ASSUME NEW edges \in Seq(EdgeRow), NEW start \in Nat, NEW maxNodes \in Nat, NEW fallback,
           NEW r, r = TraceFlowBounded(edges, start, maxNodes, fallback),
           NEW dist, dist = Reach(edges, start, fallback)
    PROVE  SearchOf(r.members, r.truncated, DOMAIN dist, dist, maxNodes)
<1> DEFINE nodes == Nodes(edges, start)
           rel == CallRelation(edges, fallback)
           B == Balls(rel, nodes, start)
           radius == Len(edges) + 1
<1>1. nodes \in SUBSET Nat /\ IsFiniteSet(nodes) /\ start \in nodes BY NodesFinite
<1>2. rel \in SUBSET (nodes \X nodes) BY CallsAreNodes
<1>3. dist = BallOf(rel, nodes, start, radius) BY Zenon DEF Reach
<1>4. radius \in Nat OBVIOUS
<1>5. Layered(B, rel, start)
  <2> HIDE DEF nodes, rel
  <2> QED BY <1>1, <1>2, BallLayered
<1>6. PICK s \in FlowStates(maxNodes) :
          /\ r = [members |-> s.members, truncated |-> s.truncated, fallbacks |-> s.fallbacks]
          /\ Covers(View(s), radius, B, maxNodes)
          /\ s.next # <<>> => Len(s.members) >= Len(edges) + 1
  <2> HIDE DEF B
  <2> QED BY <1>5, TraceCovers
<1>7. View(s).order = s.members
  <2> HIDE DEF B
  <2> QED BY <1>5, <1>6, TraceEnds
<1>8. SearchOf(View(s).order, View(s).truncated, DOMAIN dist, dist, maxNodes)
  <2> HIDE DEF nodes, rel, radius
  <2> QED BY <1>1, <1>2, <1>3, <1>4, <1>6, CoveredIsSearch
<1>9. View(s).truncated = s.truncated BY DEF View
<1>10. r.members = s.members /\ r.truncated = s.truncated BY <1>6
<1> QED BY <1>7, <1>8, <1>9, <1>10

\* What the readers return are edges, whichever of the two answers.
LEMMA EdgesSeenType ==
    ASSUME NEW g \in GivenGraphs, NEW cross
    PROVE  EdgesSeen(g, "a", cross) \in Seq(EdgeRow)
<1> DEFINE Ref == [namespace : STRING, from : Nat, to : Nat, status : STRING]
<1>1. g.edges \in Seq(EdgeRow) /\ g.refs \in Seq(Ref) BY TraversalAssumption
<1>2. CrossRefEdges(g.refs) \in Seq(EdgeRow)
  <2> DEFINE resolved == Kept(g.refs, {r \in Range(g.refs) : r.status = "resolved"})
             N == Len(resolved)
             edges == [i \in DOMAIN resolved |->
                          [namespace |-> resolved[i].namespace, from |-> resolved[i].from,
                           to |-> resolved[i].to, kind |-> "cross_ref"]]
  <2>1. resolved \in Seq(Ref) BY <1>1, KeptIs
  <2>2. CrossRefEdges(g.refs) = edges BY Zenon DEF CrossRefEdges
  <2> HIDE DEF resolved
  <2>3. N \in Nat /\ DOMAIN resolved = 1 .. N /\ \A i \in 1 .. N : resolved[i] \in Ref
    <3> HIDE DEF Ref
    <3> QED BY <2>1
  <2>4. \A i \in 1 .. N : [namespace |-> resolved[i].namespace, from |-> resolved[i].from,
                           to |-> resolved[i].to, kind |-> "cross_ref"] \in EdgeRow
    <3>1. \A r \in Ref : [namespace |-> r.namespace, from |-> r.from, to |-> r.to,
                          kind |-> "cross_ref"] \in EdgeRow
      <4> SUFFICES ASSUME NEW r \in Ref
                   PROVE  [namespace |-> r.namespace, from |-> r.from, to |-> r.to,
                           kind |-> "cross_ref"] \in EdgeRow
        OBVIOUS
      <4>1. r.namespace \in STRING /\ r.from \in Nat /\ r.to \in Nat OBVIOUS
      <4>2. "cross_ref" \in EdgeKinds BY DEF EdgeKinds
      <4> HIDE DEF Ref
      <4> QED BY ONLY <4>1, <4>2 DEF EdgeRow
    <3> HIDE DEF Ref
    <3> QED BY <2>3, <3>1
  <2>5. edges \in [1 .. N -> EdgeRow] BY <2>3, <2>4
  <2>6. edges \in Seq(EdgeRow)
    <3> HIDE DEF edges
    <3> QED BY <2>3, <2>5
  <2> QED BY <2>2, <2>6
<1>3. CASE cross
  <2>1. EdgesSeen(g, "a", cross) = g.edges \o CrossRefEdges(g.refs) BY <1>3 DEF EdgesSeen
  <2> DEFINE p == g.edges
             q == CrossRefEdges(g.refs)
  <2>2. p \in Seq(EdgeRow) /\ q \in Seq(EdgeRow) BY <1>1, <1>2
  <2> HIDE DEF p, q
  <2>3. p \o q \in Seq(EdgeRow) BY <2>2
  <2> QED BY <2>1, <2>3 DEF p, q
<1>4. CASE ~cross
  <2> DEFINE A == {e \in Range(g.edges) : e.namespace = "a"}
  <2>1. EdgesSeen(g, "a", cross) = Kept(g.edges, A) BY <1>4 DEF EdgesSeen
  <2> HIDE DEF A
  <2> QED BY <1>1, <2>1, KeptIs
<1> QED BY <1>3, <1>4

\* A search finds the ball of its radius, nearest first, and a limit cuts the
\* farthest nodes off and is reported exactly when it cut something; a stored
\* flow is all that its entry point reaches.  This holds of every graph, every
\* request and every limit.
THEOREM SearchesComplete == ServeSpec => []SearchesAreBalls
<1>1. ASSUME AnsweredRight, Answered("impact") PROVE ImpactIsBall
  <2>1. given.has \in GivenGraphs BY <1>1 DEF AnsweredRight, Answered
  <2>2. PICK r \in ImpactRequests :
            /\ asked = <<r>>
            /\ answer = <<ImpactRadiusBounded(ImpactEdges(r), r.start, r.depth,
                                              r.maxDepth, r.maxNodes)>>
    BY <1>1 DEF AnsweredRight, Answered
  <2> DEFINE edges == ImpactEdges(r)
             hops == IF r.maxDepth > 0 /\ r.depth > r.maxDepth THEN r.maxDepth ELSE r.depth
             dist == BallOf(Neighbourhood(edges), Nodes(edges, r.start), r.start, hops)
  <2>3. Request = r /\ Reply = ImpactRadiusBounded(edges, r.start, r.depth, r.maxDepth, r.maxNodes)
    BY <2>2 DEF Request, Reply
  <2>4. r.start \in Nat /\ r.depth \in Nat /\ r.maxDepth \in Nat /\ r.maxNodes \in Nat
    BY TraversalAssumption
  <2>5. edges \in Seq(EdgeRow) BY <2>1, EdgesSeenType DEF ImpactEdges
  <2>6. SearchOf(Reply.nodes, Reply.truncated, DOMAIN dist, dist, r.maxNodes)
    <3> HIDE DEF edges
    <3> QED BY <2>3, <2>4, <2>5, ImpactIsSearch
  <2> QED BY <2>3, <2>6, Zenon DEF ImpactIsBall
<1>2. ASSUME AnsweredRight, Answered("flow") PROVE FlowIsReach
  <2>1. PICK r \in FlowRequests :
            /\ asked = <<r>>
            /\ answer = <<TraceFlowBounded(given.has, r.start, r.maxNodes, r.fallback)>>
    BY <1>2 DEF AnsweredRight, Answered
  <2>2. given.has \in Seq(EdgeRow) /\ r.start \in Nat /\ r.maxNodes \in Nat
    BY <1>2, TraversalAssumption DEF AnsweredRight, Answered
  <2>3. Request = r /\ Reply = TraceFlowBounded(given.has, r.start, r.maxNodes, r.fallback)
    BY <2>1 DEF Request, Reply
  <2> DEFINE dist == Reach(given.has, r.start, r.fallback)
  <2>4. SearchOf(Reply.members, Reply.truncated, DOMAIN dist, dist, r.maxNodes)
    BY <2>2, <2>3, FlowIsSearch
  <2> QED BY <2>3, <2>4, Zenon DEF FlowIsReach
<1>3. ASSUME AnsweredRight, Answered("flow") PROVE StoredFlowsAreWhole
  <2> DEFINE edges == given.has
  <2>1. edges \in Seq(EdgeRow)
    BY <1>3, TraversalAssumption DEF AnsweredRight, Answered
  <2> SUFFICES ASSUME NEW f \in RebuildFlows(FlowNodes, edges)
               PROVE  Range(f.members) = DOMAIN Reach(edges, f.entry, TRUE)
    BY Zenon DEF StoredFlowsAreWhole
  <2> HIDE DEF edges
  <2>2. PICK n \in FlowNodes :
            f = [entry |-> n.id, members |-> TraceFlowBounded(edges, n.id, 0, TRUE).members]
    BY DEF RebuildFlows, FlowEntrypoints
  <2> DEFINE r == TraceFlowBounded(edges, n.id, 0, TRUE)
             dist == Reach(edges, n.id, TRUE)
  <2>3. n.id \in Nat /\ 0 \in Nat BY TraversalAssumption
  <2>4. SearchOf(r.members, r.truncated, DOMAIN dist, dist, 0) BY <2>1, <2>3, FlowIsSearch
  <2> HIDE DEF r, dist
  <2>5. Range(r.members) = DOMAIN dist BY <2>4 DEF SearchOf
  <2>6. f.entry = n.id /\ f.members = r.members BY <2>2 DEF r
  <2> QED BY <2>5, <2>6 DEF dist
<1>4. AnsweredRight => SearchesAreBalls BY <1>1, <1>2, <1>3 DEF SearchesAreBalls
<1> QED BY <1>4, AnsweredRightInvariant, PTL

-----------------------------------------------------------------------------
\* Lookups of the resolver

LEMMA FunctionIsSeq ==
    ASSUME NEW n \in Nat, NEW E, NEW f \in [1 .. n -> E]
    PROVE  f \in Seq(E) /\ Len(f) = n
OBVIOUS

LEMMA ConcatOf ==
    ASSUME NEW E, NEW p \in Seq(E), NEW q \in Seq(E)
    PROVE  p \o q \in Seq(E) /\ Len(p \o q) = Len(p) + Len(q)
OBVIOUS

LEMMA ConcatAll ==
    ASSUME NEW E, NEW p \in Seq(E), NEW q \in Seq(E), NEW m \in Nat, NEW n \in Nat,
           Len(p) = m, Len(q) = n
    PROVE  DOMAIN (p \o q) = 1 .. m + n /\ \A i \in 1 .. m + n : (p \o q)[i] \in E
<1> DEFINE r == p \o q
<1>1. r \in Seq(E) /\ Len(r) = m + n BY ConcatOf
<1>2. m + n \in Nat OBVIOUS
<1> HIDE DEF r
<1>3. DOMAIN r = 1 .. m + n /\ \A i \in 1 .. m + n : r[i] \in E BY <1>1, <1>2
<1> QED BY <1>3 DEF r

\* The first lookup that finds something.
LEMMA FirstFoundIs ==
    ASSUME NEW n \in Nat, NEW lookups, DOMAIN lookups = 1 .. n
    PROVE  \/ FirstFound(lookups) = {} /\ \A i \in 1 .. n : lookups[i] = {}
           \/ \E i \in 1 .. n : /\ FirstFound(lookups) = lookups[i] /\ lookups[i] # {}
                                /\ \A j \in 1 .. n : lookups[j] # {} => i <= j
<1> DEFINE hits == {i \in DOMAIN lookups : lookups[i] # {}}
<1>1. FirstFound(lookups) = IF hits = {} THEN {} ELSE lookups[CHOOSE i \in hits : \A j \in hits : i <= j]
  BY Zenon DEF FirstFound
<1>2. CASE hits = {} BY <1>1, <1>2
<1>3. CASE hits # {}
  <2>1. hits \in SUBSET Nat OBVIOUS
  <2>2. \E i \in hits : \A j \in hits : i <= j
    <3> HIDE DEF hits
    <3> QED BY <1>3, <2>1, LeastOf
  <2> DEFINE k == CHOOSE i \in hits : \A j \in hits : i <= j
  <2>3. k \in hits /\ \A j \in hits : k <= j BY <2>2, Zenon
  <2>4. FirstFound(lookups) = lookups[k] BY <1>1, <1>3
  <2> HIDE DEF k
  <2> QED BY <2>3, <2>4
<1> QED BY <1>2, <1>3

LEMMA FirstFoundIn ==
    ASSUME NEW n \in Nat, NEW lookups, DOMAIN lookups = 1 .. n, NEW S,
           \A i \in 1 .. n : lookups[i] \subseteq S
    PROVE  FirstFound(lookups) \subseteq S
BY FirstFoundIs

\* The nodes a lookup leaves are among those it was given.
LEMMA UniqueIn == ASSUME NEW nodes, NEW kinds PROVE Unique(nodes, kinds) \subseteq nodes
BY DEF Unique

LEMMA LeastIdIn ==
    ASSUME NEW nodes \in SUBSET GraphNode
    PROVE  LeastId(nodes) \subseteq nodes /\ (LeastId(nodes) = {} <=> nodes = {})
<1>1. LeastId(nodes) \subseteq nodes BY DEF LeastId
<1>2. ASSUME nodes # {} PROVE LeastId(nodes) # {}
  <2> DEFINE ids == {n.id : n \in nodes}
  <2>1. ids \in SUBSET Nat /\ ids # {} BY <1>2 DEF GraphNode
  <2>2. PICK i \in ids : \A k \in ids : i <= k
    <3> HIDE DEF ids
    <3> QED BY <2>1, LeastOf
  <2>3. PICK n \in nodes : n.id = i OBVIOUS
  <2>4. n \in LeastId(nodes) BY <2>2, <2>3 DEF LeastId
  <2> QED BY <2>4
<1> QED BY <1>1, <1>2

\* An id is that of a node that was found, or 0.
LEMMA IdOfFound ==
    ASSUME NEW nodes \in SUBSET GraphNode
    PROVE  /\ IdOf(nodes) \in Nat /\ (IdOf(nodes) = 0 <=> nodes = {})
           /\ nodes # {} => \E n \in nodes : n.id = IdOf(nodes)
<1>1. CASE nodes = {} BY <1>1 DEF IdOf
<1>2. CASE nodes # {}
  <2> DEFINE n == CHOOSE m \in nodes : TRUE
  <2>1. n \in nodes BY <1>2
  <2>2. IdOf(nodes) = n.id BY <1>2 DEF IdOf
  <2> HIDE DEF n
  <2>3. n.id \in Nat \ {0} BY <2>1 DEF GraphNode
  <2> QED BY <1>2, <2>1, <2>2, <2>3
<1> QED BY <1>1, <1>2

\* What a qualified name ends with.
LEMMA LastOfQualified ==
    ASSUME NEW p \in Seq(STRING), NEW name \in Path
    PROVE  /\ p \o Bare(name) \in Path /\ Last(p \o Bare(name)) = Last(name)
           /\ Last(Bare(name)) = Last(name)
<1>1. name \in Seq(STRING) /\ Len(name) \in Nat \ {0} BY DEF Path
<1>2. Last(name) \in STRING BY <1>1 DEF Last
<1> DEFINE x == Last(name)
<1> HIDE DEF x
<1>3. /\ p \o <<x>> \in Seq(STRING) /\ Len(p \o <<x>>) = Len(p) + 1
      /\ (p \o <<x>>)[Len(p) + 1] = x /\ Len(<<x>>) = 1 /\ <<x>>[1] = x
  BY <1>2 DEF x
<1>4. p \o <<x>> # <<>> BY <1>3
<1> QED BY <1>3, <1>4 DEF Bare, Last, Path, x

-----------------------------------------------------------------------------
\* What a pass keeps: nodes of the store, and implementers among them.

States(nodes) == [loaded : SUBSET nodes, implementers : SUBSET (Path \X nodes)]

\* A node with the last name of a target.
Fits(n, target) == Last(target) \in {n.name, Last(n.qn)}

\* Nodes that a lookup may give for a target.
Fitting(nodes, target) == {n \in nodes : Fits(n, target)}

LEMMA FittingIn == ASSUME NEW nodes, NEW t PROVE Fitting(nodes, t) \subseteq nodes
BY DEF Fitting

\* Nodes of a name, qualified or not, fit.
LEMMA NamedFit ==
    ASSUME NEW nodes \in SUBSET GraphNode, NEW st \in States(nodes), NEW target \in Path
    PROVE  /\ Named(st, target) \subseteq Fitting(nodes, target)
           /\ \A p \in Seq(STRING) : Named(st, p \o Bare(target)) \subseteq Fitting(nodes, target)
           /\ \A P \in SUBSET Seq(STRING) :
                 NamedAny(st, Below(P, Bare(target))) \subseteq Fitting(nodes, target)
           /\ \A n \in nodes : n.name = Last(target) => n \in Fitting(nodes, target)
<1>0. st.loaded \subseteq nodes BY DEF States
<1>1. \A t : Named(st, t) \subseteq nodes /\ \A n \in Named(st, t) : n.qn = t BY <1>0 DEF Named
<1>2. Named(st, target) \subseteq Fitting(nodes, target) BY <1>1 DEF Fitting, Fits
<1>3. ASSUME NEW p \in Seq(STRING)
  PROVE Named(st, p \o Bare(target)) \subseteq Fitting(nodes, target)
  <2>1. Last(p \o Bare(target)) = Last(target) BY LastOfQualified
  <2> QED BY <1>1, <2>1 DEF Fitting, Fits
<1>4. ASSUME NEW P \in SUBSET Seq(STRING)
      PROVE  NamedAny(st, Below(P, Bare(target))) \subseteq Fitting(nodes, target)
  <2> SUFFICES ASSUME NEW n \in NamedAny(st, Below(P, Bare(target))) PROVE n \in Fitting(nodes, target)
    OBVIOUS
  <2>1. PICK p \in P : n \in Named(st, p \o Bare(target)) BY DEF NamedAny, Below
  <2> QED BY <1>3, <2>1
<1>5. \A n \in nodes : n.name = Last(target) => n \in Fitting(nodes, target) BY DEF Fitting, Fits
<1> QED BY <1>2, <1>3, <1>4, <1>5

\* The package of a node, or of a file, is a sequence of names.
LEMMA PackagesAre ==
    ASSUME NEW nodes \in SUBSET GraphNode, NEW st \in States(nodes), NEW f,
           NEW callers \in SUBSET nodes
    PROVE  /\ PackageForFile(st, f) \in SUBSET Seq(STRING)
           /\ CallerPackages(callers) \in SUBSET Seq(STRING)
<1>0. st.loaded \subseteq nodes BY DEF States
<1>1. ASSUME NEW n \in GraphNode PROVE PackagePrefix(n) \in Seq(STRING)
  <2>1. n.qn \in Seq(STRING) /\ Len(n.qn) \in Nat /\ n.qn # <<>> BY DEF GraphNode, Path
  <2>2. Front(n.qn) \in Seq(STRING) BY <2>1 DEF Front
  <2>3. <<Head(n.qn)>> \in Seq(STRING) BY <2>1
  <2>4. <<>> \in Seq(STRING) OBVIOUS
  <2> QED BY <2>2, <2>3, <2>4, Zenon DEF PackagePrefix
<1>2. InFile(st, f) \subseteq nodes BY <1>0 DEF InFile
<1>3. PackageForFile(st, f) \in SUBSET Seq(STRING)
  <2> DEFINE telling == {n \in InFile(st, f) : n.kind # "file" /\ PackagePrefix(n) # <<>>}
  <2>1. telling \in SUBSET GraphNode BY <1>2
  <2>2. LeastId(telling) \subseteq telling BY DEF LeastId
  <2>3. PackageForFile(st, f) = {PackagePrefix(n) : n \in LeastId(telling)}
    BY Zenon DEF PackageForFile
  <2> HIDE DEF telling
  <2> QED BY <1>1, <2>1, <2>2, <2>3
<1>4. CallerPackages(callers) \in SUBSET Seq(STRING) BY <1>1 DEF CallerPackages
<1> QED BY <1>3, <1>4

LEMMA ImplementersAre ==
    ASSUME NEW nodes, NEW st \in States(nodes), NEW key
    PROVE  Implementers(st, key) \subseteq nodes
BY DEF States, Implementers

\* Every dispatch of a call leads to methods of the name it is called by.
LEMMA DispatchFits ==
    ASSUME NEW nodes \in SUBSET GraphNode, NEW st \in States(nodes), NEW e, e.target \in Path,
           NEW caller \in nodes
    PROVE  /\ SameReceiver(st, caller, e.target) \subseteq Fitting(nodes, e.target)
           /\ InterfaceDispatch(st, caller, e) \subseteq Fitting(nodes, e.target)
<1> DEFINE callee == e.target
           fit == Fitting(nodes, callee)
<1>0. st.loaded \subseteq nodes BY DEF States
<1>1. ASSUME NEW n \in nodes PROVE n.qn \in Seq(STRING) /\ Front(n.qn) \in Seq(STRING)
  <2>1. n.qn \in Seq(STRING) /\ Len(n.qn) \in Nat /\ n.qn # <<>> BY DEF GraphNode, Path
  <2> QED BY <2>1 DEF Front
<1>2. ASSUME NEW p \in Seq(STRING), NEW kinds
      PROVE  Unique(Named(st, p \o Bare(callee)), kinds) \subseteq fit
  BY NamedFit, UniqueIn
<1>3. ASSUME NEW T \in SUBSET nodes, NEW kinds
      PROVE  UNION {Unique(Named(st, t.qn \o Bare(callee)), kinds) : t \in T} \subseteq fit
  BY <1>1, <1>2
<1>4. SameReceiver(st, caller, callee) \subseteq fit
  BY <1>1, <1>2 DEF SameReceiver
<1>5. GoDispatch(st, caller, callee) \subseteq fit
  <2> DEFINE iface == Last(Owner(callee))
             samePackage == {iface, Last(callee)} \notin SUBSET Exported
             impls == {t \in GoImplementers(st, caller, iface) :
                          samePackage => PackagePrefix(t) = PackagePrefix(caller)}
             met == UNION {Unique(Named(st, t.qn \o Bare(callee)), Callable) : t \in impls}
  <2>1. GoImplementers(st, caller, iface) \subseteq nodes
    <3>1. \A k : Implementers(st, k) \subseteq nodes BY ImplementersAre
    <3> DEFINE keys == Below({PackagePrefix(caller)}, <<iface>>)
               near == UNION {Implementers(st, k) : k \in keys}
               far == IF iface \in Exported THEN Implementers(st, <<iface>>) ELSE {}
    <3>2. GoImplementers(st, caller, iface) = near \union far BY Zenon DEF GoImplementers
    <3> HIDE DEF iface, keys
    <3>3. near \subseteq nodes BY <3>1
    <3>4. far \subseteq nodes BY <3>1
    <3> QED BY <3>2, <3>3, <3>4
  <2>2. impls \in SUBSET nodes BY <2>1
  <2>3. met \subseteq fit
    <3> HIDE DEF impls, fit
    <3> QED BY <1>3, <2>2
  <2>4. Unique(met, Callable) \subseteq fit
    <3> HIDE DEF met, fit
    <3> QED BY <2>3, UniqueIn
  <2>5. GoDispatch(st, caller, callee) \in {{}, Unique(met, Callable)} BY Zenon DEF GoDispatch
  <2> HIDE DEF met, fit
  <2> QED BY <2>4, <2>5
<1>6. OwnerDispatch(st, callee) \subseteq fit
  <2> DEFINE impls == OwnerImplementers(st, Owner(callee))
             MethodsIn(types) == UNION {Unique(Named(st, t.qn \o Bare(callee)), Callable) : t \in types}
             lookups == <<IF Cardinality(impls) = 1 THEN MethodsIn(impls) ELSE {},
                          MethodsIn(OwnerTarget(st, Owner(callee)))>>
  <2>1. impls \in SUBSET nodes BY ImplementersAre DEF OwnerImplementers
  <2>2. OwnerTarget(st, Owner(callee)) \in SUBSET nodes
    <3> DEFINE o == Owner(callee)
               all == IF Len(o) > 1 THEN Named(st, o) ELSE {n \in st.loaded : n.name = o[1]}
    <3>1. all \subseteq nodes BY <1>0 DEF Named
    <3>2. OwnerTarget(st, o) = Unique(all, TypeLike) BY Zenon DEF OwnerTarget
    <3> HIDE DEF all, o
    <3>3. Unique(all, TypeLike) \subseteq all BY UniqueIn
    <3> QED BY <3>1, <3>2, <3>3 DEF o
  <2>3. MethodsIn(impls) \subseteq fit
    <3> HIDE DEF impls, fit
    <3> QED BY <1>3, <2>1
  <2>4. MethodsIn(OwnerTarget(st, Owner(callee))) \subseteq fit
    <3> HIDE DEF fit
    <3> QED BY <1>3, <2>2
  <2>5. DOMAIN lookups = 1 .. 2 /\ lookups[1] \subseteq fit /\ lookups[2] \subseteq fit
    <3> HIDE DEF MethodsIn, fit, impls
    <3> QED BY <2>3, <2>4
  <2>6. FirstFound(lookups) \subseteq fit
    <3> HIDE DEF lookups, fit
    <3>1. \A i \in 1 .. 2 : lookups[i] \subseteq fit BY <2>5
    <3>2. 2 \in Nat OBVIOUS
    <3> QED BY <2>5, <3>1, <3>2, FirstFoundIn
  <2>7. OwnerDispatch(st, callee) \in {{}, FirstFound(lookups)} BY Zenon DEF OwnerDispatch
  <2> HIDE DEF lookups, fit
  <2> QED BY <2>6, <2>7
<1>7. RustDispatch(st, e) \subseteq fit
  <2> DEFINE impls == RustImplementers(st, e)
             met == UNION {Unique(Named(st, t.qn \o Bare(e.target)), Callable) : t \in impls}
  <2>1. impls \in SUBSET nodes BY ImplementersAre DEF RustImplementers
  <2>2. met \subseteq fit
    <3> HIDE DEF impls, fit
    <3> QED BY <1>3, <2>1
  <2>3. RustDispatch(st, e) \in {{}, met} BY Zenon DEF RustDispatch
  <2> HIDE DEF met, fit
  <2> QED BY <2>2, <2>3
<1>8. InterfaceDispatch(st, caller, e) \in {{}, GoDispatch(st, caller, callee), OwnerDispatch(st, callee), RustDispatch(st, e)}
  BY Zenon DEF InterfaceDispatch
<1> HIDE DEF fit
<1> QED BY <1>4, <1>5, <1>6, <1>7, <1>8 DEF fit

\* What the resolver finds for a call, and what it guesses.
CallStrict(st, e) ==
    LET callers == EnclosingCallable(st, e.file, e.line)
        lookups == CallLookups(st, callers, e)
    IN  FirstFound(<<UNION {SameReceiver(st, c, e.target) : c \in callers},
                     UNION {InterfaceDispatch(st, c, e) : c \in callers}>>
                   \o [i \in 1 .. 3 |-> Unique(lookups[i], Callable)])
CallGuess(st, e) ==
    LET callers == EnclosingCallable(st, e.file, e.line)
        lookups == CallLookups(st, callers, e)
        guesses == IF callers = {} THEN SubSeq(lookups, 1, 1) ELSE lookups
    IN  FirstFound([i \in DOMAIN guesses |-> {n \in guesses[i] : n.kind \in Callable}])

LEMMA ResolveCallIs ==
    ASSUME NEW st, NEW e, NEW fallback
    PROVE  ResolveCall(st, e, fallback) =
              IF CallStrict(st, e) # {} \/ ~fallback
              THEN [e EXCEPT !.from = IdOf(EnclosingCallable(st, e.file, e.line)),
                             !.to = IdOf(CallStrict(st, e))]
              ELSE [e EXCEPT !.from = IdOf(EnclosingCallable(st, e.file, e.line)),
                             !.to = IdOf(LeastId(CallGuess(st, e))),
                             !.kind = IF CallGuess(st, e) = {} THEN @ ELSE "fallback_calls"]
BY Zenon DEF ResolveCall, CallStrict, CallGuess

LEMMA CallersAre ==
    ASSUME NEW nodes, NEW st \in States(nodes), NEW f, NEW line
    PROVE  EnclosingCallable(st, f, line) \subseteq nodes
BY DEF States, EnclosingCallable, LeastId, InFile

\* Whatever a call is taken to lead to has the name it is called by.
LEMMA CallsFit ==
    ASSUME NEW nodes \in SUBSET GraphNode, NEW st \in States(nodes), NEW e, e.target \in Path
    PROVE  /\ CallStrict(st, e) \subseteq Fitting(nodes, e.target)
           /\ CallGuess(st, e) \subseteq Fitting(nodes, e.target)
<1> DEFINE callers == EnclosingCallable(st, e.file, e.line)
           fit == Fitting(nodes, e.target)
           a == Named(st, e.target)
           b == NamedAny(st, Below(CallerPackages(callers), Bare(e.target)))
           d == {n \in InFile(st, e.file) : n.kind \in Callable /\ n.name = Last(e.target)}
           lookups == CallLookups(st, callers, e)
<1>1. callers \in SUBSET nodes BY CallersAre
<1>2. a \subseteq fit BY NamedFit
<1>3. b \subseteq fit
  <2>1. CallerPackages(callers) \in SUBSET Seq(STRING)
    <3> HIDE DEF callers
    <3> QED BY <1>1, PackagesAre
  <2> HIDE DEF callers
  <2> QED BY <2>1, NamedFit
<1>4. d \subseteq fit
  <2>1. d \subseteq nodes BY DEF States, InFile
  <2> QED BY <2>1, NamedFit
<1>5. lookups = IF e.scoped THEN <<{}, {}, {}>> ELSE <<a, b, d>> BY Zenon DEF CallLookups
<1> HIDE DEF a, b, d, fit, callers, lookups
<1>6. DOMAIN lookups = 1 .. 3 /\ \A i \in 1 .. 3 : lookups[i] \subseteq fit
  <2>1. CASE e.scoped
    <3>1. lookups = <<{}, {}, {}>> BY <1>5, <2>1
    <3> QED BY <3>1
  <2>2. CASE ~e.scoped
    <3>1. lookups = <<a, b, d>> BY <1>5, <2>2
    <3> QED BY <1>2, <1>3, <1>4, <3>1
  <2> QED BY <2>1, <2>2
<1>7. CallStrict(st, e) \subseteq fit
  <2> DEFINE own == UNION {SameReceiver(st, c, e.target) : c \in callers}
             met == UNION {InterfaceDispatch(st, c, e) : c \in callers}
             tail == [i \in 1 .. 3 |-> Unique(lookups[i], Callable)]
             all == <<own, met>> \o tail
  <2>1. own \subseteq fit BY <1>1, DispatchFits DEF fit
  <2>2. met \subseteq fit BY <1>1, DispatchFits DEF fit
  <2>3. \A i \in 1 .. 3 : tail[i] \subseteq fit BY <1>6, UniqueIn
  <2>4. CallStrict(st, e) = FirstFound(all) BY Zenon DEF CallStrict, callers, lookups
  <2>5. DOMAIN all = 1 .. 5 /\ \A i \in 1 .. 5 : all[i] \subseteq fit
    <3>1. tail \in Seq(SUBSET fit) /\ Len(tail) = 3
      <4>1. tail \in [1 .. 3 -> SUBSET fit] BY <2>3
      <4>2. 3 \in Nat OBVIOUS
      <4> HIDE DEF tail
      <4> QED BY <4>1, <4>2, FunctionIsSeq
    <3>2. <<own, met>> \in Seq(SUBSET fit) /\ Len(<<own, met>>) = 2
      <4> HIDE DEF own, met
      <4> QED BY <2>1, <2>2
    <3> HIDE DEF own, met, tail
    <3>3. 2 \in Nat /\ 3 \in Nat /\ 2 + 3 = 5 OBVIOUS
    <3> DEFINE two == <<own, met>>
               S == SUBSET fit
    <3>4. two \in Seq(S) /\ Len(two) = 2 /\ tail \in Seq(S) /\ Len(tail) = 3 BY <3>1, <3>2
    <3> HIDE DEF two, S
    <3>5. DOMAIN (two \o tail) = 1 .. 2 + 3 /\ \A i \in 1 .. 2 + 3 : (two \o tail)[i] \in S
      <4> HIDE DEF tail
      <4> QED BY <3>3, <3>4, ConcatAll, Zenon
    <3>6. all = two \o tail BY DEF two
    <3> HIDE DEF all
    <3> QED BY <3>3, <3>5, <3>6 DEF S
  <2> HIDE DEF all
  <2> QED BY <2>4, <2>5, FirstFoundIn
<1>8. CallGuess(st, e) \subseteq fit
  <2> DEFINE guesses == IF callers = {} THEN SubSeq(lookups, 1, 1) ELSE lookups
             all == [i \in DOMAIN guesses |-> {n \in guesses[i] : n.kind \in Callable}]
  <2>1. lookups \in Seq(SUBSET fit) /\ Len(lookups) = 3
    <3>1. CASE e.scoped
      <4>1. lookups = <<{}, {}, {}>> BY <1>5, <3>1
      <4> QED BY <4>1
    <3>2. CASE ~e.scoped
      <4>1. lookups = <<a, b, d>> BY <1>5, <3>2
      <4> QED BY <1>2, <1>3, <1>4, <4>1
    <3> QED BY <3>1, <3>2
  <2>2. guesses \in Seq(SUBSET fit) /\ Len(guesses) \in Nat BY <2>1
  <2> HIDE DEF guesses
  <2>3. DOMAIN guesses = 1 .. Len(guesses) /\ \A i \in 1 .. Len(guesses) : guesses[i] \subseteq fit
    BY <2>2
  <2>4. DOMAIN all = 1 .. Len(guesses) /\ \A i \in 1 .. Len(guesses) : all[i] \subseteq fit BY <2>3
  <2>5. CallGuess(st, e) = FirstFound(all) BY Zenon DEF CallGuess, callers, lookups, guesses
  <2> DEFINE n == Len(guesses)
  <2>6. n \in Nat BY <2>2
  <2> HIDE DEF all, n
  <2> QED BY <2>4, <2>5, <2>6, FirstFoundIn DEF n
<1> QED BY <1>7, <1>8 DEF fit

\* An endpoint of inherits or implements is loaded, and has the name it is
\* looked for by when that is not empty.
LEMMA EndpointFits ==
    ASSUME NEW nodes \in SUBSET GraphNode, NEW st \in States(nodes), NEW f, NEW name \in Seq(STRING)
    PROVE  /\ TypeEndpoint(st, f, name) \subseteq st.loaded
           /\ name # <<>> => TypeEndpoint(st, f, name) \subseteq Fitting(nodes, name)
<1> DEFINE a == Unique(Named(st, name), TypeLike)
           b == Unique(NamedAny(st, Below(PackageForFile(st, f), name)), TypeLike)
           c == Unique({n \in InFile(st, f) : n.name = name[1]}, TypeLike)
           S == {n \in st.loaded : name # <<>> => n \in Fitting(nodes, name)}
<1>0. st.loaded \subseteq nodes BY DEF States
<1>1. a \subseteq S
  <2>1. Named(st, name) \subseteq S BY NamedFit DEF Named, Path
  <2> HIDE DEF S
  <2> QED BY <2>1, UniqueIn
<1>2. CASE Len(name) > 1
  <2>1. TypeEndpoint(st, f, name) = FirstFound(<<a>> \o <<>>) BY <1>2, Zenon DEF TypeEndpoint
  <2> HIDE DEF a, S
  <2>2. <<a>> \o <<>> \in Seq(SUBSET S) /\ <<a>> \o <<>> = <<a>> BY <1>1
  <2>3. DOMAIN (<<a>> \o <<>>) = 1 .. 1 /\ \A i \in 1 .. 1 : (<<a>> \o <<>>)[i] \subseteq S
    BY <1>1, <2>2
  <2>4. 1 \in Nat OBVIOUS
  <2>5. FirstFound(<<a>> \o <<>>) \subseteq S BY <2>3, <2>4, FirstFoundIn
  <2> QED BY <2>1, <2>5 DEF S
<1>3. CASE ~(Len(name) > 1)
  <2>1. TypeEndpoint(st, f, name) = FirstFound(<<a>> \o <<b, c>>) BY <1>3, Zenon DEF TypeEndpoint
  <2>2. name # <<>> => name = Bare(name) /\ name[1] = Last(name)
    <3> SUFFICES ASSUME name # <<>> PROVE name = Bare(name) /\ name[1] = Last(name) OBVIOUS
    <3>1. Len(name) = 1 BY <1>3
    <3>2. Last(name) = name[1] BY <3>1 DEF Last
    <3>3. name = <<name[1]>> BY <3>1
    <3> QED BY <3>2, <3>3 DEF Bare
  <2>3. b \subseteq S
    <3> DEFINE all == NamedAny(st, Below(PackageForFile(st, f), name))
    <3>1. all \subseteq st.loaded BY DEF NamedAny, Named
    <3>2. PackageForFile(st, f) \in SUBSET Seq(STRING)
      <4>1. {} \in SUBSET nodes OBVIOUS
      <4> QED BY <4>1, PackagesAre
    <3>3. name # <<>> => all \subseteq Fitting(nodes, name)
      <4> SUFFICES ASSUME name # <<>> PROVE all \subseteq Fitting(nodes, name) OBVIOUS
      <4>1. name \in Path /\ name = Bare(name) BY <2>2 DEF Path
      <4>2. NamedAny(st, Below(PackageForFile(st, f), Bare(name))) \subseteq Fitting(nodes, name)
        BY <3>2, <4>1, NamedFit
      <4> QED BY <4>1, <4>2
    <3>4. all \subseteq S
      <4> HIDE DEF all
      <4> QED BY <3>1, <3>3
    <3>5. Unique(all, TypeLike) \subseteq all BY UniqueIn
    <3> HIDE DEF all, S
    <3> QED BY <3>4, <3>5 DEF all
  <2>4. c \subseteq S
    <3> DEFINE all == {n \in InFile(st, f) : n.name = name[1]}
    <3>1. all \subseteq st.loaded BY DEF InFile
    <3>2. name # <<>> => \A n \in all : n \in Fitting(nodes, name)
      <4> SUFFICES ASSUME name # <<>>, NEW n \in all PROVE n \in Fitting(nodes, name) OBVIOUS
      <4>1. n \in nodes /\ n.name = Last(name) BY <1>0, <2>2, <3>1
      <4>2. name \in Path BY DEF Path
      <4> QED BY <4>1, <4>2, NamedFit
    <3>3. all \subseteq S
      <4> HIDE DEF all
      <4> QED BY <3>1, <3>2
    <3>4. Unique(all, TypeLike) \subseteq all BY UniqueIn
    <3> HIDE DEF all, S
    <3> QED BY <3>3, <3>4 DEF all
  <2> HIDE DEF a, b, c, S
  <2>5. /\ <<a>> \in Seq(SUBSET S) /\ Len(<<a>>) = 1
        /\ <<b, c>> \in Seq(SUBSET S) /\ Len(<<b, c>>) = 2
    BY <1>1, <2>3, <2>4
  <2>6. DOMAIN (<<a>> \o <<b, c>>) = 1 .. 3 /\ \A i \in 1 .. 3 : (<<a>> \o <<b, c>>)[i] \subseteq S
    <3>1. 1 \in Nat /\ 2 \in Nat /\ 1 + 2 = 3 OBVIOUS
    <3>2. DOMAIN (<<a>> \o <<b, c>>) = 1 .. 3 /\ \A i \in 1 .. 3 : (<<a>> \o <<b, c>>)[i] \in SUBSET S
      BY <2>5, <3>1, ConcatAll
    <3> QED BY <3>2
  <2>7. 3 \in Nat OBVIOUS
  <2>8. FirstFound(<<a>> \o <<b, c>>) \subseteq S BY <2>6, <2>7, FirstFoundIn
  <2> QED BY <2>1, <2>8 DEF S
<1> QED BY <1>2, <1>3

-----------------------------------------------------------------------------
\* Files of an import

\* The last k segments of two paths are the same.
Common(p, d, k) == k <= Len(d) /\ \A i \in 0 .. k - 1 : p[Len(p) - i] = d[Len(d) - i]

\* The depth of the common suffix is the greatest such k,
LEMMA DepthIs ==
    ASSUME NEW p \in Seq(STRING), NEW d \in Seq(STRING)
    PROVE  /\ CommonSuffixDepth(p, d) \in 0 .. Len(p)
           /\ \A k \in 0 .. Len(p) : Common(p, d, k) <=> k <= CommonSuffixDepth(p, d)
<1> DEFINE L == Len(p)
           M == Len(d)
           Deep == {k \in 0 .. L : Common(p, d, k)}
           T == {L - k : k \in Deep}
           c == CommonSuffixDepth(p, d)
<1>1. L \in Nat /\ M \in Nat OBVIOUS
<1>2. c = CHOOSE k \in Deep : \A j \in Deep : j <= k
  <2>1. {k \in 0 .. L : k <= M /\ \A i \in 0 .. k - 1 : p[L - i] = d[M - i]} = Deep
    BY Zenon DEF Common
  <2>2. c = CHOOSE k \in {m \in 0 .. L : m <= M /\ \A i \in 0 .. m - 1 : p[L - i] = d[M - i]} :
                \A j \in {m \in 0 .. L : m <= M /\ \A i \in 0 .. m - 1 : p[L - i] = d[M - i]} : j <= k
    BY Zenon DEF CommonSuffixDepth
  <2> HIDE DEF Deep, c
  <2> QED BY <2>1, <2>2, Zenon
<1>3. 0 \in Deep
  <2>1. Common(p, d, 0) BY <1>1 DEF Common
  <2> QED BY <1>1, <2>1
<1>4. \E k \in Deep : \A j \in Deep : j <= k
  <2>1. Deep \subseteq 0 .. L OBVIOUS
  <2>2. T \in SUBSET Nat /\ T # {}
    <3> HIDE DEF Deep, L
    <3> QED BY <1>1, <1>3, <2>1
  <2>3. PICK t \in T : \A u \in T : t <= u
    <3> HIDE DEF T
    <3> QED BY <2>2, LeastOf
  <2>4. PICK k \in Deep : t = L - k OBVIOUS
  <2>5. \A j \in Deep : L - k <= L - j BY <2>3, <2>4
  <2>6. \A j \in Deep : j <= k
    <3> HIDE DEF Deep, L
    <3> QED BY <1>1, <2>1, <2>5
  <2> QED BY <2>6
<1>5. c \in Deep /\ \A j \in Deep : j <= c
  <2> HIDE DEF Deep
  <2> QED BY <1>2, <1>4, Zenon
<1>6. ASSUME NEW k \in 0 .. L, k <= c PROVE Common(p, d, k)
  <2>1. Common(p, d, c) /\ c \in 0 .. L BY <1>5
  <2> HIDE DEF c, L
  <2>2. k <= M
    <3>1. c <= M BY <2>1 DEF Common
    <3> QED BY <1>1, <1>6, <2>1, <3>1
  <2>3. \A i \in 0 .. k - 1 : i \in 0 .. c - 1 BY <1>1, <1>6, <2>1
  <2> QED BY <2>1, <2>2, <2>3, Zenon DEF Common
<1>7. ASSUME NEW k \in 0 .. L, Common(p, d, k) PROVE k <= c
  <2> HIDE DEF c
  <2> QED BY <1>5, <1>7
<1>8. c \in 0 .. L
  <2> HIDE DEF c
  <2> QED BY <1>5
<1> HIDE DEF c
<1> QED BY <1>6, <1>7, <1>8 DEF c

\* and a suffix of the path is one of the other when it is not longer than that.
LEMMA SuffixIs ==
    ASSUME NEW p \in Seq(STRING), NEW d \in Seq(STRING), NEW i \in 1 .. Len(p)
    PROVE  IsSuffix(SubSeq(p, i, Len(p)), d) <=> Common(p, d, Len(p) - i + 1)
<1> DEFINE L == Len(p)
           M == Len(d)
           s == SubSeq(p, i, L)
           m == L - i + 1
           r == Reverse(s)
           q == Reverse(d)
<1>1. L \in Nat /\ M \in Nat /\ m \in Nat /\ i \in 1 .. L OBVIOUS
<1>2. s \in Seq(STRING) /\ Len(s) = m /\ \A j \in 1 .. m : s[j] = p[i + j - 1] OBVIOUS
<1> HIDE DEF L, M, s
<1>3. r \in Seq(STRING) /\ Len(r) = m /\ \A j \in 1 .. m : r[j] = p[L - j + 1]
  <2>1. r = [j \in 1 .. m |-> s[(m - j) + 1]] BY <1>2, Zenon DEF Reverse
  <2>2. \A j \in 1 .. m : (m - j) + 1 \in 1 .. m /\ i + ((m - j) + 1) - 1 = L - j + 1 BY <1>1
  <2> HIDE DEF r, m
  <2>3. \A j \in 1 .. m : s[(m - j) + 1] \in STRING BY <1>1, <1>2, <2>2
  <2>4. ASSUME NEW j \in 1 .. m PROVE s[(m - j) + 1] = p[L - j + 1]
    <3> DEFINE k == (m - j) + 1
    <3>1. k \in 1 .. m /\ i + k - 1 = L - j + 1 BY <2>2
    <3> HIDE DEF k
    <3>2. s[k] = p[i + k - 1] BY <1>2, <3>1
    <3> QED BY <3>1, <3>2 DEF k
  <2>5. r \in [1 .. m -> STRING] BY <2>1, <2>3
  <2> QED BY <1>1, <2>1, <2>4, <2>5, FunctionIsSeq
<1>4. q \in Seq(STRING) /\ Len(q) = M /\ \A j \in 1 .. M : q[j] = d[M - j + 1]
  <2>1. q = [j \in 1 .. M |-> d[(M - j) + 1]] BY Zenon DEF Reverse, M
  <2>2. \A j \in 1 .. M : (M - j) + 1 \in 1 .. M BY <1>1
  <2>3. \A j \in 1 .. M : d[(M - j) + 1] \in STRING BY <2>2 DEF M
  <2> HIDE DEF q
  <2>4. q \in [1 .. M -> STRING] BY <2>1, <2>3
  <2> QED BY <1>1, <2>1, <2>4, FunctionIsSeq
<1> HIDE DEF r, q, m
<1>5. IsSuffix(s, d) <=> (m <= M /\ SubSeq(r, 1, m) = SubSeq(q, 1, m))
  BY <1>3, <1>4, Zenon DEF IsSuffix, IsPrefix, r, q
<1>6. ASSUME m <= M
  PROVE SubSeq(r, 1, m) = SubSeq(q, 1, m) <=> \A j \in 1 .. m : p[L - j + 1] = d[M - j + 1]
  <2> DEFINE a == SubSeq(r, 1, m)
             b == SubSeq(q, 1, m)
  <2>1. \A j \in 1 .. m : j \in 1 .. M BY <1>1, <1>6
  <2>2. a \in Seq(STRING) /\ Len(a) = m /\ \A j \in 1 .. m : a[j] = r[j] BY <1>1, <1>3
  <2>3. b \in Seq(STRING) /\ Len(b) = m /\ \A j \in 1 .. m : b[j] = q[j] BY <1>1, <1>4, <1>6
  <2> HIDE DEF a, b
  <2>4. a = b <=> \A j \in 1 .. m : a[j] = b[j]
    <3>1. ASSUME \A j \in 1 .. m : a[j] = b[j] PROVE a = b
      <4>1. Len(a) = Len(b) BY <2>2, <2>3
      <4>2. \A j \in 1 .. Len(a) : a[j] = b[j] BY <2>2, <3>1
      <4> QED BY <2>2, <2>3, <4>1, <4>2, SameSequence
    <3> QED BY <3>1
  <2>5. \A j \in 1 .. m : a[j] = p[L - j + 1] /\ b[j] = d[M - j + 1] BY <1>3, <1>4, <2>1, <2>2, <2>3
  <2>6. (\A j \in 1 .. m : a[j] = b[j]) <=> \A j \in 1 .. m : p[L - j + 1] = d[M - j + 1]
    <3>1. ASSUME \A j \in 1 .. m : a[j] = b[j], NEW j \in 1 .. m PROVE p[L - j + 1] = d[M - j + 1]
      <4>1. a[j] = p[L - j + 1] /\ b[j] = d[M - j + 1] BY <2>5
      <4>2. a[j] = b[j] BY <3>1
      <4> QED BY <4>1, <4>2
    <3>2. ASSUME \A j \in 1 .. m : p[L - j + 1] = d[M - j + 1], NEW j \in 1 .. m PROVE a[j] = b[j]
      BY <2>5, <3>2, Zenon
    <3> QED BY <3>1, <3>2, Zenon
  <2> QED BY <2>4, <2>6, Zenon DEF a, b
<1>7. (\A j \in 1 .. m : p[L - j + 1] = d[M - j + 1]) <=> \A j \in 0 .. m - 1 : p[L - j] = d[M - j]
  <2>1. ASSUME \A j \in 1 .. m : p[L - j + 1] = d[M - j + 1], NEW j \in 0 .. m - 1
        PROVE  p[L - j] = d[M - j]
    <3>1. j + 1 \in 1 .. m /\ L - (j + 1) + 1 = L - j /\ M - (j + 1) + 1 = M - j BY <1>1
    <3> QED BY <2>1, <3>1
  <2>2. ASSUME \A j \in 0 .. m - 1 : p[L - j] = d[M - j], NEW j \in 1 .. m
        PROVE  p[L - j + 1] = d[M - j + 1]
    <3>1. j - 1 \in 0 .. m - 1 /\ L - (j - 1) = L - j + 1 /\ M - (j - 1) = M - j + 1 BY <1>1
    <3> QED BY <2>2, <3>1
  <2> QED BY <2>1, <2>2
<1>8. Common(p, d, m) <=> (m <= M /\ \A j \in 0 .. m - 1 : p[L - j] = d[M - j])
  BY Zenon DEF Common, L, M
<1>9. IsSuffix(s, d) <=> Common(p, d, m) BY <1>5, <1>6, <1>7, <1>8
<1> QED BY <1>9 DEF s, m, L

\* The index of file nodes and the scan of the store find the same files, in
\* directories that end as the path does.
LEMMA FindIsBestMatch ==
    ASSUME NEW files, \A n \in files : n.file \in Path, NEW p \in Path
    PROVE  /\ Find(files, p) = BestMatch(files, p)
           /\ \A n \in Find(files, p) : /\ n \in files /\ Dir(n.file) \in Path
                                        /\ Last(Dir(n.file)) = Last(p)
<1> DEFINE L == Len(p)
           placed == {n \in files : Dir(n.file) # <<>>}
           depth == [n \in placed |-> CommonSuffixDepth(p, Dir(n.file))]
           exact == {n \in files : Dir(n.file) = p}
           EndingIn(s) == {n \in files : Dir(n.file) # <<>> /\ IsSuffix(s, Dir(n.file))}
           ends == [i \in 1 .. L |-> EndingIn(SubSeq(p, i, L))]
           deepest == {n \in placed : depth[n] > 0 /\ \A m \in placed : depth[m] <= depth[n]}
<1>1. p \in Seq(STRING) /\ p # <<>> /\ L \in Nat \ {0} BY DEF Path
<1>2. \A n \in files : Dir(n.file) \in Seq(STRING)
  <2> SUFFICES ASSUME NEW n \in files PROVE Dir(n.file) \in Seq(STRING) OBVIOUS
  <2>1. n.file \in Seq(STRING) /\ Len(n.file) \in Nat /\ n.file # <<>> BY DEF Path
  <2> QED BY <2>1 DEF Dir, Front
<1>3. exact = {n \in placed : Dir(n.file) = p} BY <1>1
<1>4. \A n \in placed : /\ depth[n] \in 0 .. L
                        /\ \A k \in 0 .. L : Common(p, Dir(n.file), k) <=> k <= depth[n]
  BY <1>1, <1>2, DepthIs
<1>5. \A i \in 1 .. L : ends[i] = {n \in placed : L - i + 1 <= depth[n]}
  <2> SUFFICES ASSUME NEW i \in 1 .. L PROVE ends[i] = {n \in placed : L - i + 1 <= depth[n]} OBVIOUS
  <2>1. L - i + 1 \in 0 .. L BY <1>1
  <2>2. \A n \in placed : IsSuffix(SubSeq(p, i, L), Dir(n.file)) <=> L - i + 1 <= depth[n]
    <3> SUFFICES ASSUME NEW n \in placed
                 PROVE  IsSuffix(SubSeq(p, i, L), Dir(n.file)) <=> L - i + 1 <= depth[n]
      OBVIOUS
    <3>1. IsSuffix(SubSeq(p, i, L), Dir(n.file)) <=> Common(p, Dir(n.file), L - i + 1)
      BY <1>1, <1>2, SuffixIs
    <3>2. Common(p, Dir(n.file), L - i + 1) <=> L - i + 1 <= depth[n]
      <4> HIDE DEF depth, L, placed
      <4> QED BY <1>4, <2>1
    <3> HIDE DEF depth, L, placed
    <3> QED BY <3>1, <3>2
  <2>3. ends[i] = {n \in placed : IsSuffix(SubSeq(p, i, L), Dir(n.file))}
    <3>1. ends[i] = EndingIn(SubSeq(p, i, L)) OBVIOUS
    <3> HIDE DEF ends, L
    <3> QED BY <3>1
  <2> HIDE DEF ends, depth, placed, L
  <2> QED BY <2>2, <2>3
<1>6. FirstFound(ends) = deepest
  <2>1. DOMAIN ends = 1 .. L OBVIOUS
  <2> HIDE DEF ends, depth, placed, L
  <2>2. \/ FirstFound(ends) = {} /\ \A i \in 1 .. L : ends[i] = {}
        \/ \E i \in 1 .. L : /\ FirstFound(ends) = ends[i] /\ ends[i] # {}
                             /\ \A j \in 1 .. L : ends[j] # {} => i <= j
    BY <1>1, <2>1, FirstFoundIs
  <2>3. ASSUME NEW n \in placed, depth[n] > 0
        PROVE  L - depth[n] + 1 \in 1 .. L /\ n \in ends[L - depth[n] + 1]
    <3>1. depth[n] \in 0 .. L BY <1>4
    <3> DEFINE i == L - depth[n] + 1
    <3>2. i \in 1 .. L /\ L - i + 1 = depth[n] BY <1>1, <2>3, <3>1
    <3> HIDE DEF i
    <3>3. n \in ends[i] BY <1>5, <3>1, <3>2
    <3> QED BY <3>2, <3>3 DEF i
  <2>4. CASE FirstFound(ends) = {} /\ \A i \in 1 .. L : ends[i] = {}
    BY <2>3, <2>4
  <2>5. ASSUME NEW i \in 1 .. L, FirstFound(ends) = ends[i], ends[i] # {},
               \A j \in 1 .. L : ends[j] # {} => i <= j
        PROVE  ends[i] = deepest
    <3> DEFINE k == L - i + 1
    <3>1. k \in 1 .. L BY <1>1
    <3>2. ends[i] = {n \in placed : k <= depth[n]} BY <1>5
    <3>3. \A n \in placed : depth[n] \in 0 .. L BY <1>4
    <3>4. ASSUME NEW n \in placed PROVE depth[n] <= k
      <4>1. depth[n] \in 0 .. L BY <3>3
      <4>2. CASE depth[n] > 0
        <5>1. L - depth[n] + 1 \in 1 .. L /\ ends[L - depth[n] + 1] # {} BY <2>3, <4>2
        <5>2. i <= L - depth[n] + 1 BY <2>5, <5>1
        <5> QED BY <1>1, <4>1, <5>2
      <4>3. CASE ~(depth[n] > 0) BY <3>1, <4>1, <4>3
      <4> QED BY <4>2, <4>3
    <3> HIDE DEF k
    <3>5. PICK top \in placed : k <= depth[top] BY <2>5, <3>2
    <3>6. ASSUME NEW n \in placed PROVE k <= depth[n] <=> n \in deepest
      <4>1. depth[n] \in 0 .. L /\ depth[top] \in 0 .. L /\ k \in 1 .. L BY <3>1, <3>3
      <4>2. ASSUME k <= depth[n] PROVE n \in deepest
        <5>1. depth[n] > 0 BY <1>1, <4>1, <4>2
        <5>2. \A m \in placed : depth[m] <= depth[n] BY <1>1, <3>1, <3>3, <3>4, <4>2
        <5> QED BY <5>1, <5>2
      <4>3. ASSUME n \in deepest PROVE k <= depth[n]
        <5>1. depth[top] <= depth[n] BY <4>3
        <5> QED BY <1>1, <3>5, <4>1, <5>1
      <4> QED BY <4>2, <4>3
    <3>7. deepest \subseteq placed OBVIOUS
    <3> HIDE DEF deepest
    <3> QED BY <3>2, <3>6, <3>7
  <2> QED BY <2>2, <2>4, <2>5
<1>7. Find(files, p) = IF exact # {} THEN exact ELSE FirstFound(ends) BY Zenon DEF Find
<1>8. BestMatch(files, p) = IF exact # {} THEN exact ELSE deepest
  <2>1. BestMatch(files, p) = IF {n \in placed : Dir(n.file) = p} # {}
                              THEN {n \in placed : Dir(n.file) = p} ELSE deepest
    BY Zenon DEF BestMatch
  <2> HIDE DEF exact, placed, deepest
  <2> QED BY <1>3, <2>1
<1>9. ASSUME NEW n \in deepest
  PROVE n \in files /\ Dir(n.file) \in Path /\ Last(Dir(n.file)) = Last(p)
  <2> DEFINE d == Dir(n.file)
  <2>1. n \in placed /\ depth[n] > 0 OBVIOUS
  <2>2. n \in files /\ d \in Seq(STRING) /\ d # <<>> BY <1>2, <2>1
  <2>3. Common(p, d, 1)
    <3>1. depth[n] \in 0 .. L /\ 1 \in 0 .. L BY <1>1, <1>4, <2>1
    <3>2. Common(p, d, 1) <=> 1 <= depth[n] BY <1>4, <2>1, <3>1
    <3> HIDE DEF depth, L
    <3> QED BY <1>1, <2>1, <3>1, <3>2
  <2> HIDE DEF d
  <2>4. p[Len(p) - 0] = d[Len(d) - 0] BY <2>3 DEF Common
  <2>5. Last(p) = Last(d)
    <3>1. Len(p) - 0 = Len(p) /\ Len(d) - 0 = Len(d) BY <1>1, <2>2
    <3> QED BY <2>4, <3>1 DEF Last
  <2> QED BY <2>2, <2>5 DEF Path, d
<1>10. \A n \in exact : n \in files /\ Dir(n.file) = p OBVIOUS
<1> HIDE DEF exact, ends, deepest
<1> QED BY <1>6, <1>7, <1>8, <1>9, <1>10

\* Nodes that a target leads to: one of their keys is that of the target.
Leading(nodes, target) == {n \in nodes : Last(target) \in LookupKeys({n})}

LEMMA FittingLeads == ASSUME NEW nodes, NEW target PROVE Fitting(nodes, target) \subseteq Leading(nodes, target)
<1> SUFFICES ASSUME NEW n \in Fitting(nodes, target) PROVE n \in Leading(nodes, target) OBVIOUS
<1>1. n \in nodes /\ (Last(target) = n.name \/ Last(target) = Last(n.qn)) BY DEF Fitting, Fits
<1>2. n.name \in LookupKeys({n}) /\ Last(n.qn) \in LookupKeys({n}) BY DEF LookupKeys
<1> QED BY <1>1, <1>2 DEF Leading

\* What a store can be: a file node has the path of its file.
Stored(nodes) ==
    /\ nodes \in SUBSET GraphNode
    /\ \A n \in nodes : n.kind = "file" => n.file # <<>> /\ n.qn = n.file

LEMMA FilesLead ==
    ASSUME NEW nodes, Stored(nodes), NEW some \in SUBSET nodes, NEW p \in Path
    PROVE  /\ Find(Files(some), p) = BestMatch(Files(some), p)
           /\ Find(Files(some), p) \subseteq Leading(nodes, p)
<1>1. \A n \in Files(some) : n \in nodes /\ n.file \in Path
  <2> SUFFICES ASSUME NEW n \in Files(some) PROVE n \in nodes /\ n.file \in Path OBVIOUS
  <2>1. n \in nodes /\ n.kind = "file" BY DEF Files
  <2>2. n.file \in Seq(STRING) /\ n.file # <<>> BY <2>1 DEF Stored, GraphNode
  <2> QED BY <2>1, <2>2 DEF Path
<1>2. /\ Find(Files(some), p) = BestMatch(Files(some), p)
      /\ \A n \in Find(Files(some), p) : /\ n \in Files(some) /\ Dir(n.file) \in Path
                                         /\ Last(Dir(n.file)) = Last(p)
  <2> DEFINE files == Files(some)
  <2>1. \A n \in files : n.file \in Path BY <1>1
  <2> HIDE DEF files
  <2>2. /\ Find(files, p) = BestMatch(files, p)
        /\ \A n \in Find(files, p) : n \in files /\ Dir(n.file) \in Path /\ Last(Dir(n.file)) = Last(p)
    BY <2>1, FindIsBestMatch
  <2> QED BY <2>2 DEF files
<1>3. ASSUME NEW n \in Find(Files(some), p) PROVE n \in Leading(nodes, p)
  <2>1. n \in nodes /\ n.file \in Path /\ Dir(n.file) \in Path /\ Last(Dir(n.file)) = Last(p)
    BY <1>1, <1>2
  <2>2. Len(n.file) > 1
    <3>1. n.file \in Seq(STRING) /\ Len(n.file) \in Nat BY <2>1 DEF Path
    <3>2. Len(n.file) <= 1 => SubSeq(n.file, 1, Len(n.file) - 1) = <<>> BY <3>1
    <3>3. SubSeq(n.file, 1, Len(n.file) - 1) # <<>> BY <2>1 DEF Dir, Front, Path
    <3> QED BY <3>1, <3>2, <3>3
  <2>3. Last(Dir(n.file)) \in LookupKeys({n})
    <3>1. n \in {m \in {n} : Len(m.file) > 1} BY <2>2
    <3> QED BY <3>1 DEF LookupKeys
  <2> QED BY <2>1, <2>3 DEF Leading
<1> QED BY <1>2, <1>3

\* The files that are loaded are the store's.
LEMMA LoadedFiles ==
    ASSUME NEW nodes, NEW store, store.nodes = nodes, NEW st \in States(nodes), NEW files
    PROVE  LoadFiles(store, st, files) \in States(nodes)
<1>1. ASSUME NEW f PROVE LoadFile(store, st, f).loaded \in SUBSET nodes
  <2>1. st.loaded \in SUBSET nodes BY DEF States
  <2>2. CASE Cardinality(InFile(st, f)) > 1 BY <2>1, <2>2 DEF LoadFile
  <2>3. CASE ~(Cardinality(InFile(st, f)) > 1)
    <3>1. LoadFile(store, st, f) = [st EXCEPT !.loaded = @ \union {n \in nodes : n.file = f}]
      BY <2>3, Zenon DEF LoadFile
    <3>2. LoadFile(store, st, f).loaded = st.loaded \union {n \in nodes : n.file = f}
      BY <3>1 DEF States
    <3> QED BY <2>1, <3>2
  <2> QED BY <2>2, <2>3
<1> DEFINE all == UNION ({st.loaded} \union {LoadFile(store, st, n.file).loaded : n \in files})
<1>2. all \in SUBSET nodes BY <1>1 DEF States
<1>3. LoadFiles(store, st, files) = [st EXCEPT !.loaded = all] BY Zenon DEF LoadFiles
<1> HIDE DEF all
<1> QED BY <1>2, <1>3 DEF States

\* An edge with ends.
WithEnds(e, from, found) == [e EXCEPT !.from = IdOf(from), !.to = IdOf(found)]

\* Its ends are found, and where its target leads to.
Leads(nodes, e, edge) ==
    \E found \in SUBSET Leading(nodes, e.target), from \in SUBSET nodes : edge = WithEnds(e, from, found)

\* The target of tested_by has the name it is looked for by.
LEMMA TestedLeads ==
    ASSUME NEW nodes \in SUBSET GraphNode, NEW st \in States(nodes), NEW e, e.target \in Path
    PROVE  Leads(nodes, e, ResolveTestedBy(st, e))
<1> DEFINE a == Named(st, e.target)
           b == NamedAny(st, Below(PackageForFile(st, e.file), Bare(e.target)))
           c == {n \in InFile(st, e.file) : n.name = Last(e.target)}
           lookups == <<a, b, c>>
           all == [i \in 1 .. 3 |-> Unique(lookups[i], Callable)]
           from == Unique(Named(st, e.source), Callable)
           fit == Fitting(nodes, e.target)
<1>1. a \subseteq fit BY NamedFit
<1>2. b \subseteq fit
  <2>1. PackageForFile(st, e.file) \in SUBSET Seq(STRING)
    <3>1. {} \in SUBSET nodes OBVIOUS
    <3> QED BY <3>1, PackagesAre
  <2> QED BY <2>1, NamedFit
<1>3. c \subseteq fit
  <2>1. c \subseteq nodes BY DEF States, InFile
  <2> QED BY <2>1, NamedFit
<1>4. from \subseteq nodes
  <2>1. Named(st, e.source) \subseteq nodes BY DEF States, Named
  <2> QED BY <2>1, UniqueIn
<1>5. ResolveTestedBy(st, e) = WithEnds(e, from, FirstFound(all))
  BY Zenon DEF ResolveTestedBy, WithEnds
<1>6. FirstFound(all) \subseteq fit
  <2> HIDE DEF a, b, c, fit
  <2>1. \A i \in 1 .. 3 : lookups[i] \subseteq fit BY <1>1, <1>2, <1>3
  <2> HIDE DEF lookups
  <2>2. \A i \in 1 .. 3 : all[i] \subseteq fit BY <2>1, UniqueIn
  <2>3. DOMAIN all = 1 .. 3 /\ 3 \in Nat OBVIOUS
  <2> HIDE DEF all
  <2> QED BY <2>2, <2>3, FirstFoundIn
<1>7. fit \subseteq Leading(nodes, e.target) BY FittingLeads
<1> HIDE DEF all, from, fit
<1> QED BY <1>4, <1>5, <1>6, <1>7 DEF Leads

\* And so does that of an import, whose files are loaded.
LEMMA ImportLeads ==
    ASSUME NEW nodes, Stored(nodes), NEW store, store.nodes = nodes, NEW st \in States(nodes),
           NEW e, e.target \in Path
    PROVE  /\ ResolveImport(store, st, e).st \in States(nodes)
           /\ Leads(nodes, e, ResolveImport(store, st, e).edge)
<1> DEFINE p == e.target
           lead == Leading(nodes, p)
           packages == Unique(Named(st, p), {"package"})
           named == Unique(Named(st, p), {"file"})
           own == FileNode(st, p)
           near == Representative(BestMatch(Files(st.loaded), p))
           far == Representative(Find(Files(store.nodes), p))
           imported == ImportFile(store, st, p)
           files == FirstFound(<<named, imported>>)
           from == FileNode(st, e.file)
           done(found) == WithEnds(e, from, found)
<1>0. nodes \in SUBSET GraphNode /\ st.loaded \in SUBSET nodes BY DEF Stored, States
<1>1. \A kinds : Unique(Named(st, p), kinds) \subseteq lead
  <2>1. Named(st, p) \subseteq Fitting(nodes, p) BY <1>0, NamedFit
  <2> QED BY <2>1, UniqueIn, FittingLeads
<1>2. own \subseteq lead
  <2> SUFFICES ASSUME NEW n \in own PROVE n \in Fitting(nodes, p)
    BY FittingLeads
  <2>1. n \in nodes /\ n.kind = "file" /\ n.file = p BY <1>0 DEF FileNode, InFile
  <2>2. n.qn = p BY <2>1 DEF Stored
  <2> QED BY <2>1, <2>2 DEF Fitting, Fits
<1>3. \A some : Representative(some) \subseteq some BY DEF Representative, LeastId
<1>4. near \subseteq lead /\ far \subseteq lead
  <2>1. /\ Find(Files(st.loaded), p) = BestMatch(Files(st.loaded), p)
        /\ Find(Files(st.loaded), p) \subseteq lead
    BY <1>0, FilesLead
  <2>2. Find(Files(store.nodes), p) \subseteq lead
    <3>1. store.nodes \in SUBSET nodes OBVIOUS
    <3> QED BY <3>1, FilesLead
  <2> HIDE DEF lead, p
  <2> QED BY <1>3, <2>1, <2>2
<1>5. imported \subseteq lead
  <2> DEFINE lookups == <<own, near, far>>
  <2>1. imported = FirstFound(lookups) BY Zenon DEF ImportFile
  <2> HIDE DEF own, near, far, lead, imported
  <2>2. DOMAIN lookups = 1 .. 3 /\ 3 \in Nat /\ \A i \in 1 .. 3 : lookups[i] \subseteq lead
    BY <1>2, <1>4
  <2> HIDE DEF lookups
  <2> QED BY <2>1, <2>2, FirstFoundIn
<1>6. files \subseteq lead
  <2> DEFINE lookups == <<named, imported>>
  <2>1. named \subseteq lead BY <1>1
  <2> HIDE DEF named, imported, lead
  <2>2. DOMAIN lookups = 1 .. 2 /\ 2 \in Nat /\ \A i \in 1 .. 2 : lookups[i] \subseteq lead
    BY <1>5, <2>1
  <2>3. files = FirstFound(lookups) OBVIOUS
  <2> HIDE DEF lookups, files
  <2> QED BY <2>2, <2>3, FirstFoundIn
<1>7. packages \subseteq lead BY <1>1
<1>8. from \in SUBSET nodes BY <1>0 DEF FileNode, InFile
<1>9. ResolveImport(store, st, e) =
          IF packages # {}
          THEN [edge |-> done(packages), st |-> LoadFiles(store, st, Find(Files(store.nodes), p))]
          ELSE [edge |-> done(files), st |-> LoadFiles(store, st, files)]
  BY Zenon DEF ResolveImport, WithEnds
<1> HIDE DEF packages, files, from, lead, p
<1>10. ResolveImport(store, st, e).st \in States(nodes)
  <2>1. \A some : LoadFiles(store, st, some) \in States(nodes) BY LoadedFiles
  <2> QED BY <1>9, <2>1
<1>11. \E found \in SUBSET lead : ResolveImport(store, st, e).edge = done(found)
  <2>1. ResolveImport(store, st, e).edge = IF packages # {} THEN done(packages) ELSE done(files)
    BY <1>9
  <2> HIDE DEF done
  <2> QED BY <1>6, <1>7, <2>1
<1> QED BY <1>8, <1>10, <1>11 DEF lead, p, Leads

-----------------------------------------------------------------------------
\* One pass

\* An edge that was resolved, or not yet.
DoneEdge == [kind : EdgeKinds, file : Path, line : Nat, source : Seq(STRING), target : Path,
             scoped : BOOLEAN, concrete : Seq(STRING), from : Nat, to : Nat]

\* What becomes of a parsed edge before the calls are resolved.
Settled(nodes, e, d) ==
    /\ d \in DoneEdge
    /\ d.kind = e.kind /\ d.file = e.file /\ d.source = e.source /\ d.target = e.target
    /\ e.kind = "calls" => d = e
    /\ d.to # 0 /\ e.kind # "contains" => \E n \in Leading(nodes, e.target) : n.id = d.to

LEMMA ParsedIsDone == ParsedEdge \subseteq DoneEdge
BY DEF ParsedEdge, DoneEdge

LEMMA SettledBy ==
    ASSUME NEW nodes \in SUBSET GraphNode, NEW e \in ParsedEdge, e.kind # "calls",
           NEW from \in SUBSET nodes, NEW found \in SUBSET nodes,
           e.kind # "contains" => found \subseteq Leading(nodes, e.target)
    PROVE  Settled(nodes, e, WithEnds(e, from, found))
<1> DEFINE a == IdOf(from)
           b == IdOf(found)
           d == [e EXCEPT !.from = a, !.to = b]
<1>1. a \in Nat /\ b \in Nat BY IdOfFound
<1>2. b # 0 => \E n \in found : n.id = b BY IdOfFound
<1> HIDE DEF a, b
<1>3. e \in DoneEdge BY ParsedIsDone
<1>4. d \in DoneEdge BY <1>1, <1>3 DEF DoneEdge
<1>5. d.kind = e.kind /\ d.file = e.file /\ d.source = e.source /\ d.target = e.target /\ d.to = b
  BY <1>3 DEF DoneEdge
<1>6. Settled(nodes, e, d)
  <2> HIDE DEF d
  <2> QED BY <1>2, <1>4, <1>5 DEF Settled
<1> QED BY <1>6 DEF a, b, WithEnds

\* Implementers are noted under names of nodes.
LEMMA NotedImplementer ==
    ASSUME NEW nodes \in SUBSET GraphNode, NEW st \in States(nodes), NEW iface \in nodes, NEW c \in nodes
    PROVE  AddImplementer(st, iface, c) \in States(nodes)
<1>1. iface.qn \in Path /\ iface.name \in STRING BY DEF GraphNode
<1>2. <<iface.name>> \in Path BY <1>1 DEF Path
<1>3. {<<iface.qn, c>>, <<<<iface.name>>, c>>} \subseteq Path \X nodes BY <1>1, <1>2
<1> QED BY <1>3 DEF AddImplementer, States

LEMMA TypesSettle ==
    ASSUME NEW nodes \in SUBSET GraphNode, NEW st \in States(nodes), NEW e \in ParsedEdge,
           e.kind \in {"inherits", "implements"}
    PROVE  /\ Settled(nodes, e, WithTyped(st, ResolveTypes(st, e)).edge)
           /\ WithTyped(st, ResolveTypes(st, e)).st \in States(nodes)
<1> DEFINE from == TypeEndpoint(st, e.file, e.source)
           found == TypeEndpoint(st, e.file, e.target)
           typed == WithEnds(e, from, found)
           NodeWith(id) == CHOOSE n \in st.loaded : n.id = id
<1>0. st.loaded \in SUBSET nodes BY DEF States
<1>1. e.source \in Seq(STRING) /\ e.target \in Seq(STRING) /\ e.target # <<>> /\ e.target \in Path
  BY DEF ParsedEdge, Path
<1>2. from \in SUBSET st.loaded /\ found \in SUBSET st.loaded BY <1>1, EndpointFits
<1>3. found \subseteq Leading(nodes, e.target) BY <1>1, EndpointFits, FittingLeads
<1>4. ResolveTypes(st, e) = typed BY Zenon DEF ResolveTypes, WithEnds
<1> HIDE DEF from, found
<1>5. from \in SUBSET nodes /\ found \in SUBSET nodes BY <1>0, <1>2
<1>6. Settled(nodes, e, typed)
  <2>1. e.kind # "calls" /\ e.kind # "contains" OBVIOUS
  <2> QED BY <1>3, <1>5, <2>1, SettledBy
<1>7. typed.from = IdOf(from) /\ typed.to = IdOf(found) BY DEF ParsedEdge, WithEnds
<1> HIDE DEF typed
<1>8. WithTyped(st, typed) =
         [st |-> IF typed.kind # "implements" \/ typed.from = 0 \/ typed.to = 0 THEN st
                 ELSE AddImplementer(st, NodeWith(typed.to), NodeWith(typed.from)),
          edge |-> typed]
  BY Zenon DEF WithTyped
<1>9. typed.from # 0 => NodeWith(typed.from) \in nodes
  <2> SUFFICES ASSUME typed.from # 0 PROVE NodeWith(typed.from) \in nodes OBVIOUS
  <2>1. PICK n \in from : n.id = typed.from BY <1>5, <1>7, IdOfFound
  <2>2. n \in st.loaded BY <1>2
  <2>3. NodeWith(typed.from) \in st.loaded BY <2>1, <2>2
  <2> QED BY <1>0, <2>3
<1>10. typed.to # 0 => NodeWith(typed.to) \in nodes
  <2> SUFFICES ASSUME typed.to # 0 PROVE NodeWith(typed.to) \in nodes OBVIOUS
  <2>1. PICK n \in found : n.id = typed.to BY <1>5, <1>7, IdOfFound
  <2>2. n \in st.loaded BY <1>2
  <2>3. NodeWith(typed.to) \in st.loaded BY <2>1, <2>2
  <2> QED BY <1>0, <2>3
<1> HIDE DEF NodeWith
<1>11. WithTyped(st, typed).st \in States(nodes) /\ WithTyped(st, typed).edge = typed
  <2>1. typed.from # 0 /\ typed.to # 0 =>
           AddImplementer(st, NodeWith(typed.to), NodeWith(typed.from)) \in States(nodes)
    BY <1>9, <1>10, NotedImplementer
  <2> QED BY <1>8, <2>1
<1> QED BY <1>4, <1>6, <1>11

\* One more edge is settled.
SettlesNext(nodes, run, e, next) ==
    \E st, d : /\ st \in States(nodes)
               /\ Settled(nodes, e, d)
               /\ next = [st |-> st, edges |-> Append(run.edges, d)]

\* Every edge is, those of calls as they came.
LEMMA OtherSettles ==
    ASSUME NEW nodes, Stored(nodes), NEW store, store.nodes = nodes,
           NEW run, run.st \in States(nodes), NEW e \in ParsedEdge
    PROVE  SettlesNext(nodes, run, e, ResolveOther(store, run, e))
<1> DEFINE st == run.st
           With(edge) == [st |-> st, edge |-> edge]
           found == CASE e.kind = "contains"     -> With(ResolveContains(st, e))
                      [] e.kind = "tested_by"    -> With(ResolveTestedBy(st, e))
                      [] e.kind = "imports_from" -> ResolveImport(store, st, e)
                      [] e.kind \in {"inherits", "implements"} -> WithTyped(st, ResolveTypes(st, e))
                      [] OTHER -> With(e)
<1>0. nodes \in SUBSET GraphNode /\ st.loaded \in SUBSET nodes /\ e.target \in Path
  BY DEF Stored, States, ParsedEdge
<1>1. ResolveOther(store, run, e) = [st |-> found.st, edges |-> Append(run.edges, found.edge)]
  BY Zenon DEF ResolveOther, Add
<1>2. found.st \in States(nodes) /\ Settled(nodes, e, found.edge)
  <2>1. CASE e.kind = "contains"
    <3> DEFINE named == Named(st, e.target)
               one == IF Cardinality(named) = 1 THEN named ELSE {}
               from == FileNode(st, e.file)
    <3>1. found = With(ResolveContains(st, e)) BY <2>1
    <3>2. ResolveContains(st, e) = WithEnds(e, from, one)
      BY Zenon DEF ResolveContains, WithEnds
    <3>3. one \in SUBSET nodes /\ from \in SUBSET nodes BY <1>0 DEF Named, FileNode, InFile
    <3> HIDE DEF one, from
    <3>4. e.kind # "calls" /\ (e.kind # "contains" => one \subseteq Leading(nodes, e.target))
      BY <2>1
    <3>5. Settled(nodes, e, ResolveContains(st, e)) BY <1>0, <3>2, <3>3, <3>4, SettledBy
    <3> HIDE DEF found
    <3> QED BY <3>1, <3>5
  <2>2. CASE e.kind = "tested_by"
    <3>1. found = With(ResolveTestedBy(st, e)) BY <2>2
    <3>2. PICK to \in SUBSET Leading(nodes, e.target), from \in SUBSET nodes :
              ResolveTestedBy(st, e) = WithEnds(e, from, to)
      <4>1. Leads(nodes, e, ResolveTestedBy(st, e)) BY <1>0, TestedLeads
      <4> QED BY <4>1 DEF Leads
    <3>3. to \in SUBSET nodes BY DEF Leading
    <3>4. e.kind # "calls" /\ e.kind # "contains" BY <2>2
    <3>5. Settled(nodes, e, ResolveTestedBy(st, e)) BY <1>0, <3>2, <3>3, <3>4, SettledBy
    <3> HIDE DEF found
    <3> QED BY <3>1, <3>5
  <2>3. CASE e.kind = "imports_from"
    <3>1. found = ResolveImport(store, st, e) BY <2>3
    <3>2. ResolveImport(store, st, e).st \in States(nodes) BY <1>0, ImportLeads
    <3>3. PICK to \in SUBSET Leading(nodes, e.target), from \in SUBSET nodes :
              ResolveImport(store, st, e).edge = WithEnds(e, from, to)
      <4>1. Leads(nodes, e, ResolveImport(store, st, e).edge) BY <1>0, ImportLeads
      <4> QED BY <4>1 DEF Leads
    <3>4. to \in SUBSET nodes BY DEF Leading
    <3>5. e.kind # "calls" /\ e.kind # "contains" BY <2>3
    <3>6. Settled(nodes, e, ResolveImport(store, st, e).edge) BY <1>0, <3>3, <3>4, <3>5, SettledBy
    <3> HIDE DEF found
    <3> QED BY <3>1, <3>2, <3>6
  <2>4. CASE e.kind \in {"inherits", "implements"}
    <3>1. found = WithTyped(st, ResolveTypes(st, e)) BY <2>4
    <3> HIDE DEF found
    <3> QED BY <1>0, <2>4, <3>1, TypesSettle
  <2>5. CASE e.kind \notin {"contains", "tested_by", "imports_from", "inherits", "implements"}
    <3>1. found = With(e) BY <2>5
    <3>2. e \in DoneEdge /\ e.to = 0 BY ParsedIsDone DEF ParsedEdge
    <3>3. Settled(nodes, e, e) BY <3>2 DEF Settled
    <3> HIDE DEF found
    <3> QED BY <3>1, <3>3
  <2> QED BY <2>1, <2>2, <2>3, <2>4, <2>5
<1> HIDE DEF found
<1> QED BY <1>1, <1>2 DEF SettlesNext

LEMMA OthersSettle ==
    ASSUME NEW nodes, Stored(nodes), NEW store, store.nodes = nodes,
           NEW first \in States(nodes), NEW edges \in Seq(ParsedEdge),
           NEW r, r = ResolveOthers(store, first, edges)
    PROVE  /\ r.st \in States(nodes)
           /\ r.edges \in Seq(DoneEdge) /\ Len(r.edges) = Len(edges)
           /\ \A i \in 1 .. Len(edges) : Settled(nodes, edges[i], r.edges[i])
<1> DEFINE N == Len(edges)
           names == UNION {QualifiedCandidates(first, edges[j]) : j \in DOMAIN edges}
           b == [st |-> LoadNamed(store, first, names), edges |-> <<>>]
           D == [st : States(nodes), edges : Seq(DoneEdge)]
           Step(run, i) == ResolveOther(store, run, edges[i])
           F == [i \in 1 .. N |-> [run \in D |-> Step(run, i)]]
           v == CHOOSE run : run = [i \in 0 .. N |-> IF i = 0 THEN b ELSE ResolveOther(store, run[i - 1], edges[i])]
<1>1. N \in Nat /\ DOMAIN edges = 1 .. N /\ \A i \in 1 .. N : edges[i] \in ParsedEdge OBVIOUS
<1>2. b \in D
  <2> HIDE DEF names
  <2>1. first.loaded \union {n \in nodes : n.qn \in names} \in SUBSET nodes BY DEF States
  <2>2. LoadNamed(store, first, names) = [first EXCEPT !.loaded = @ \union {n \in nodes : n.qn \in names}]
    BY Zenon DEF LoadNamed
  <2>3. LoadNamed(store, first, names) \in States(nodes) BY <2>1, <2>2 DEF States
  <2>4. <<>> \in Seq(DoneEdge) OBVIOUS
  <2> QED BY <2>3, <2>4
<1> HIDE DEF b, names
<1>3. ASSUME NEW run \in D, NEW i \in 1 .. N
      PROVE  SettlesNext(nodes, run, edges[i], Step(run, i)) /\ Step(run, i) \in D
  <2>1. SettlesNext(nodes, run, edges[i], Step(run, i))
    <3>1. run.st \in States(nodes) /\ edges[i] \in ParsedEdge BY <1>1
    <3> QED BY <3>1, OtherSettles
  <2> HIDE DEF Step
  <2>2. PICK t, d : /\ t \in States(nodes)
                   /\ Settled(nodes, edges[i], d)
                   /\ Step(run, i) = [st |-> t, edges |-> Append(run.edges, d)]
    BY <2>1 DEF SettlesNext
  <2>3. d \in DoneEdge BY <2>2 DEF Settled
  <2>4. Append(run.edges, d) \in Seq(DoneEdge) BY <2>3
  <2> QED BY <2>1, <2>2, <2>4
<1>4. F \in [1 .. N -> [D -> D]]
  <2> HIDE DEF Step, D, N
  <2> QED BY <1>3
<1>5. v = [i \in 0 .. N |-> IF i = 0 THEN b ELSE ResolveOther(store, v[i - 1], edges[i])]
  <2>1. PICK g : Recurs(g, D, b, N, F)
    <3> HIDE DEF N, F, D
    <3> QED BY <1>1, <1>2, <1>4, Recursion, Zenon
  <2>2. ASSUME NEW i \in 1 .. N PROVE g[i] = ResolveOther(store, g[i - 1], edges[i])
    <3>0. i - 1 \in 0 .. N BY <1>1
    <3>1. g[i - 1] \in D BY <2>1, <3>0, Zenon DEF Recurs
    <3>2. g[i] = F[i][g[i - 1]] BY <2>1 DEF Recurs
    <3> HIDE DEF D
    <3>3. F[i][g[i - 1]] = ResolveOther(store, g[i - 1], edges[i]) BY <3>1
    <3> HIDE DEF F
    <3> QED BY <3>2, <3>3
  <2>3. g = [i \in 0 .. N |-> IF i = 0 THEN b ELSE ResolveOther(store, g[i - 1], edges[i])]
    <3>1. g \in [0 .. N -> D] /\ g[0] = b BY <2>1, Zenon DEF Recurs
    <3>2. ASSUME NEW i \in 0 .. N
          PROVE  g[i] = IF i = 0 THEN b ELSE ResolveOther(store, g[i - 1], edges[i])
      <4>1. CASE i = 0 BY <3>1, <4>1
      <4>2. CASE i # 0
        <5>1. i \in 1 .. N BY <1>1, <4>2
        <5> QED BY <2>2, <4>2, <5>1, Zenon
      <4> QED BY <4>1, <4>2
    <3> HIDE DEF D
    <3> QED BY <3>1, <3>2, Zenon
  <2> HIDE DEF N
  <2> QED BY <2>3, Zenon
<1>6. r = v[N] BY Zenon DEF ResolveOthers, b, names
<1> HIDE DEF v
<1> DEFINE P(i) == /\ v[i] \in D /\ Len(v[i].edges) = i
                   /\ \A j \in 1 .. i : Settled(nodes, edges[j], v[i].edges[j])
           S == {i \in 0 .. N : P(i)}
<1>7. 0 \in S
  <2>1. 0 \in 0 .. N BY <1>1
  <2>2. v[0] = b BY <1>5, <2>1
  <2>3. P(0)
    <3>1. Len(v[0].edges) = 0 BY <2>2 DEF b
    <3>2. v[0] \in D BY <1>2, <2>2
    <3> QED BY <3>1, <3>2
  <2> HIDE DEF P
  <2> QED BY <2>1, <2>3
<1>8. ASSUME NEW i \in 1 .. N, i - 1 \in S PROVE i \in S
  <2>1. i \in 0 .. N /\ i \in Nat /\ i # 0 BY <1>1
  <2>2. v[i] = Step(v[i - 1], i)
    <3> HIDE DEF N
    <3> QED BY <1>5, <2>1, Zenon
  <2>3. P(i - 1) BY <1>8
  <2>4. v[i] \in D /\ SettlesNext(nodes, v[i - 1], edges[i], v[i])
    <3> HIDE DEF D, Step
    <3> QED BY <1>3, <2>2, <2>3
  <2>5. PICK t, d : /\ t \in States(nodes)
                   /\ Settled(nodes, edges[i], d)
                   /\ v[i] = [st |-> t, edges |-> Append(v[i - 1].edges, d)]
    BY <2>4 DEF SettlesNext
  <2> DEFINE q == v[i - 1].edges
             m == i - 1
  <2>6. /\ q \in Seq(DoneEdge)
        /\ Len(q) = m
        /\ d \in DoneEdge
        /\ v[i].edges = Append(q, d)
        /\ m \in Nat
    BY <2>1, <2>3, <2>5 DEF Settled
  <2>7. \A j \in 1 .. m : Settled(nodes, edges[j], q[j]) BY <2>3
  <2>8. i = m + 1 BY <2>1
  <2> HIDE DEF q, m
  <2>9. Len(Append(q, d)) = m + 1 /\ Append(q, d)[m + 1] = d /\ \A j \in 1 .. m : Append(q, d)[j] = q[j]
    BY <2>6
  <2>10. ASSUME NEW j \in 1 .. i PROVE Settled(nodes, edges[j], v[i].edges[j])
    <3>1. CASE j = i BY <2>5, <2>6, <2>8, <2>9, <3>1
    <3>2. CASE j # i
      <4>1. j \in 1 .. m BY <2>6, <2>8, <3>2
      <4> QED BY <2>6, <2>7, <2>9, <4>1
    <3> QED BY <3>1, <3>2
  <2>11. P(i)
    <3> HIDE DEF D
    <3> QED BY <2>4, <2>6, <2>8, <2>9, <2>10
  <2> HIDE DEF P
  <2> QED BY <2>1, <2>11
<1>9. P(N)
  <2> HIDE DEF P
  <2>1. 0 .. N \subseteq S
    <3> HIDE DEF S
    <3> QED BY <1>1, <1>7, <1>8, UpToInduction
  <2> QED BY <1>1, <2>1
<1> QED BY <1>6, <1>9

\* Calls are resolved last, with all that was loaded before; the option does not
\* touch what they are resolved with, nor the other edges.
PassedWith(nodes, store, edges, st, others) ==
    /\ \A i \in 1 .. Len(edges) : Settled(nodes, edges[i], others[i])
    /\ \A fallback \in BOOLEAN :
          LET done == ResolveWithOptions(store, edges, fallback)
          IN  /\ DOMAIN done = 1 .. Len(edges)
              /\ \A i \in 1 .. Len(edges) :
                    done[i] = IF edges[i].kind = "calls" THEN ResolveCall(st, edges[i], fallback)
                              ELSE others[i]

LEMMA KnownImplementers ==
    ASSUME NEW nodes, Stored(nodes), NEW store, store.nodes = nodes, NEW st \in States(nodes)
    PROVE  LoadExistingImplements(store, st) \in States(nodes)
<1> DEFINE ifaces == {n.id : n \in {m \in st.loaded : m.kind = "type"}}
           pairs == {p \in nodes \X nodes : p[1].id \in ifaces /\ <<p[2].id, p[1].id>> \in store.implements}
           loaded == st.loaded \union {n \in nodes : \E p \in pairs : n \in {p[1], p[2]}}
           impls == st.implementers \union (UNION {AddImplementer(st, p[1], p[2]).implementers : p \in pairs})
<1>1. LoadExistingImplements(store, st) = [loaded |-> loaded, implementers |-> impls]
  BY Zenon DEF LoadExistingImplements
<1>2. st.loaded \in SUBSET nodes /\ st.implementers \in SUBSET (Path \X nodes) BY DEF States
<1>3. \A p \in pairs : p[1] \in nodes /\ p[2] \in nodes OBVIOUS
<1> HIDE DEF pairs
<1>4. loaded \in SUBSET nodes BY <1>2
<1>5. \A p \in pairs : AddImplementer(st, p[1], p[2]).implementers \in SUBSET (Path \X nodes)
  <2>1. \A p \in pairs : AddImplementer(st, p[1], p[2]) \in States(nodes)
    BY <1>3, NotedImplementer DEF Stored
  <2> QED BY <2>1 DEF States
<1>6. impls \in SUBSET (Path \X nodes) BY <1>2, <1>5
<1> HIDE DEF loaded, impls
<1> QED BY <1>1, <1>4, <1>6 DEF States

LEMMA PassIs ==
    ASSUME NEW nodes, Stored(nodes), NEW store, store.nodes = nodes, NEW edges \in Seq(ParsedEdge)
    PROVE  \E st, others : st \in States(nodes) /\ PassedWith(nodes, store, edges, st, others)
<1> DEFINE N == Len(edges)
           files == {edges[i].file : i \in DOMAIN edges}
           first == [loaded |-> {n \in nodes : n.file \in files}, implementers |-> {}]
           r == ResolveOthers(store, first, edges)
           known == LoadExistingImplements(store, r.st)
           st == LoadDispatchTargets(store, known, r.edges)
<1>1. first \in States(nodes) BY DEF States
<1> HIDE DEF first
<1>2. /\ r.st \in States(nodes)
      /\ r.edges \in Seq(DoneEdge) /\ Len(r.edges) = N
      /\ \A i \in 1 .. N : Settled(nodes, edges[i], r.edges[i])
  BY <1>1, OthersSettle
<1> HIDE DEF r
<1>3. known \in States(nodes) BY <1>2, KnownImplementers
<1> HIDE DEF known
<1>4. st \in States(nodes)
  <2> DEFINE names == UNION {DispatchTargets(known, r.edges[i]) : i \in Calls(r.edges)}
  <2>1. st = [known EXCEPT !.loaded = @ \union {n \in nodes : n.qn \in names}]
    BY Zenon DEF LoadDispatchTargets, LoadNamed
  <2> HIDE DEF names, st
  <2> QED BY <1>3, <2>1 DEF States
<1> HIDE DEF st
<1>5. N \in Nat /\ DOMAIN edges = 1 .. N /\ DOMAIN r.edges = 1 .. N BY <1>2
<1> HIDE DEF N
<1>6. ASSUME NEW fallback \in BOOLEAN
      PROVE  ResolveWithOptions(store, edges, fallback) = ResolveCalls(st, r.edges, fallback)
  BY Zenon DEF ResolveWithOptions, ResolveAfter, first, files, r, known, st
<1>7. ASSUME NEW fallback \in BOOLEAN
      PROVE  /\ DOMAIN ResolveCalls(st, r.edges, fallback) = 1 .. N
             /\ \A i \in 1 .. N : ResolveCalls(st, r.edges, fallback)[i] =
                   IF edges[i].kind = "calls" THEN ResolveCall(st, edges[i], fallback) ELSE r.edges[i]
  <2>1. ResolveCalls(st, r.edges, fallback) =
           [i \in 1 .. N |-> IF i \in Calls(r.edges) THEN ResolveCall(st, r.edges[i], fallback) ELSE r.edges[i]]
    BY <1>5, Zenon DEF ResolveCalls
  <2>2. ASSUME NEW i \in 1 .. N
        PROVE  /\ i \in Calls(r.edges) <=> edges[i].kind = "calls"
               /\ edges[i].kind = "calls" => r.edges[i] = edges[i]
    BY <1>2, <1>5 DEF Calls, Settled
  <2> QED BY <2>1, <2>2
<1>8. PassedWith(nodes, store, edges, st, r.edges)
  <2>1. \A i \in 1 .. Len(edges) : Settled(nodes, edges[i], r.edges[i]) BY <1>2 DEF N
  <2>2. \A fallback \in BOOLEAN :
          LET done == ResolveWithOptions(store, edges, fallback)
          IN  /\ DOMAIN done = 1 .. Len(edges)
              /\ \A i \in 1 .. Len(edges) :
                    done[i] = IF edges[i].kind = "calls" THEN ResolveCall(st, edges[i], fallback)
                              ELSE r.edges[i]
    BY <1>6, <1>7, Zenon DEF N
  <2> QED BY <2>1, <2>2, Zenon DEF PassedWith
<1> QED BY <1>4, <1>8

\* What a call is resolved to, without the option and with it.
CallOutcome(nodes, e, strict, guessed) ==
    /\ strict.file = e.file /\ strict.target = e.target /\ strict.kind = "calls"
    /\ strict.to # 0 => \E n \in Fitting(nodes, e.target) : n.id = strict.to
    /\ guessed.file = e.file /\ guessed.target = e.target
    /\ strict.to # 0 \/ guessed.to = 0 => guessed = strict
    /\ guessed # strict => guessed.kind = "fallback_calls"
    /\ guessed.to # 0 => \E n \in Fitting(nodes, e.target) : n.id = guessed.to

LEMMA CallIs ==
    ASSUME NEW nodes \in SUBSET GraphNode, NEW st \in States(nodes), NEW e \in ParsedEdge, e.kind = "calls"
    PROVE  CallOutcome(nodes, e, ResolveCall(st, e, FALSE), ResolveCall(st, e, TRUE))
<1> DEFINE strict == ResolveCall(st, e, FALSE)
           guessed == ResolveCall(st, e, TRUE)
           found == CallStrict(st, e)
           guess == CallGuess(st, e)
           least == LeastId(guess)
           a == IdOf(EnclosingCallable(st, e.file, e.line))
           b == IdOf(found)
           g == IdOf(least)
           kind == IF guess = {} THEN "calls" ELSE "fallback_calls"
<1>0. e.target \in Path BY DEF ParsedEdge
<1>1. found \subseteq Fitting(nodes, e.target) /\ guess \subseteq Fitting(nodes, e.target)
  BY <1>0, CallsFit
<1>2. found \in SUBSET GraphNode /\ guess \in SUBSET GraphNode BY <1>1, FittingIn
<1>3. least \subseteq guess /\ (least = {} <=> guess = {}) BY <1>2, LeastIdIn
<1>4. strict = [e EXCEPT !.from = a, !.to = b] BY ResolveCallIs
<1>5. guessed = IF found # {} THEN [e EXCEPT !.from = a, !.to = b]
                ELSE [e EXCEPT !.from = a, !.to = g, !.kind = kind]
  BY ResolveCallIs
<1> HIDE DEF found, guess, least, a, strict, guessed
<1>6. /\ b \in Nat /\ (b = 0 <=> found = {}) /\ (found # {} => \E n \in found : n.id = b)
  BY <1>2, IdOfFound
<1>7. /\ g \in Nat /\ (g = 0 <=> least = {}) /\ (least # {} => \E n \in least : n.id = g)
  <2>1. least \in SUBSET GraphNode BY <1>2, <1>3
  <2> QED BY <2>1, IdOfFound
<1> HIDE DEF b, g, kind
<1>8. /\ strict.file = e.file /\ strict.target = e.target /\ strict.kind = "calls" /\ strict.to = b
      /\ strict.from = a
  BY <1>4 DEF ParsedEdge
<1>9. ASSUME found # {} PROVE CallOutcome(nodes, e, strict, guessed)
  <2>1. guessed = strict BY <1>4, <1>5, <1>9
  <2>2. \E n \in Fitting(nodes, e.target) : n.id = b BY <1>1, <1>6, <1>9
  <2> QED BY <1>8, <2>1, <2>2 DEF CallOutcome
<1>10. ASSUME found = {} PROVE CallOutcome(nodes, e, strict, guessed)
  <2>1. guessed = [e EXCEPT !.from = a, !.to = g, !.kind = kind] BY <1>5, <1>10
  <2>2. guessed.file = e.file /\ guessed.target = e.target /\ guessed.to = g /\ guessed.kind = kind
    BY <2>1 DEF ParsedEdge
  <2>3. b = 0 BY <1>6, <1>10
  <2>4. CASE guess = {}
    <3>1. g = 0 /\ kind = "calls" BY <1>3, <1>7, <2>4 DEF kind
    <3>2. guessed = strict
      <4>1. e = [kind |-> "calls", file |-> e.file, line |-> e.line, source |-> e.source, target |-> e.target,
                 scoped |-> e.scoped, concrete |-> e.concrete, from |-> e.from, to |-> e.to]
        BY DEF ParsedEdge
      <4>2. strict = [kind |-> "calls", file |-> e.file, line |-> e.line, source |-> e.source,
                      target |-> e.target, scoped |-> e.scoped, concrete |-> e.concrete, from |-> a, to |-> 0]
        BY <1>4, <2>3, <4>1
      <4>3. guessed = [kind |-> "calls", file |-> e.file, line |-> e.line, source |-> e.source,
                       target |-> e.target, scoped |-> e.scoped, concrete |-> e.concrete, from |-> a, to |-> 0]
        BY <2>1, <3>1, <4>1
      <4> QED BY <4>2, <4>3
    <3> QED BY <1>8, <2>2, <2>3, <3>1, <3>2 DEF CallOutcome
  <2>5. CASE guess # {}
    <3>1. g # 0 /\ kind = "fallback_calls" BY <1>3, <1>7, <2>5 DEF kind
    <3>2. \E n \in Fitting(nodes, e.target) : n.id = g BY <1>1, <1>3, <1>7, <3>1
    <3> QED BY <1>8, <2>2, <2>3, <3>1, <3>2 DEF CallOutcome
  <2> QED BY <2>4, <2>5
<1>11. CallOutcome(nodes, e, strict, guessed) BY <1>9, <1>10
<1> QED BY <1>11 DEF strict, guessed

\* The nodes a graph has in the end, and what is asked about it.
AllNodes(g) == g.old \union g.added

LEMMA StoresAre ==
    ASSUME NEW g \in GivenNodes, given.has = g
    PROVE  /\ Stored(g.old) /\ BeforeAdding.nodes = g.old
           /\ Stored(AllNodes(g)) /\ AfterAdding.nodes = AllNodes(g)
           /\ \A m, n \in AllNodes(g) : m.id = n.id => m = n
<1>1. /\ AllNodes(g) \subseteq GraphNode
      /\ \A m, n \in AllNodes(g) : m.id = n.id => m = n
      /\ \A n \in AllNodes(g) : n.kind = "file" => n.file # <<>> /\ n.qn = n.file
  BY ResolutionAssumption DEF AllNodes, IsStore
<1>2. g.old \subseteq AllNodes(g) BY DEF AllNodes
<1>3. BeforeAdding.nodes = g.old /\ AfterAdding.nodes = AllNodes(g) BY DEF BeforeAdding, AfterAdding, StoreOf, AllNodes
<1> QED BY <1>1, <1>2, <1>3 DEF Stored

LEMMA RepliedRight ==
    ASSUME AnsweredRight, Answered("edges")
    PROVE  /\ given.has \in GivenNodes /\ Request \in Batches
           /\ Reply.before = ResolveWithOptions(BeforeAdding, Request, FALSE)
           /\ Reply.after = ResolveWithOptions(AfterAdding, Request, FALSE)
           /\ Reply.guessed = ResolveWithOptions(AfterAdding, Request, TRUE)
<1>1. given.has \in GivenNodes /\ asked # <<>> BY DEF AnsweredRight, Answered
<1>2. PICK edges \in Batches :
         /\ asked = <<edges>>
         /\ answer = <<[before |-> ResolveWithOptions(BeforeAdding, edges, FALSE),
                       after |-> ResolveWithOptions(AfterAdding, edges, FALSE),
                       guessed |-> ResolveWithOptions(AfterAdding, edges, TRUE)]>>
  BY <1>1, Zenon DEF AnsweredRight, Answered
<1>3. Request = edges BY <1>2 DEF Request
<1>4. Reply = [before |-> ResolveWithOptions(BeforeAdding, edges, FALSE),
               after |-> ResolveWithOptions(AfterAdding, edges, FALSE),
               guessed |-> ResolveWithOptions(AfterAdding, edges, TRUE)]
  BY <1>2 DEF Reply
<1> QED BY <1>1, <1>3, <1>4

\* The lossy option changes no edge that resolves without it and marks its
\* guesses, and a call leads to a node of its name, in every graph.
THEOREM ResolutionConserves == ServeSpec => []ResolutionIsConservative
<1>1. AnsweredRight => ResolutionIsConservative
  <2> SUFFICES ASSUME AnsweredRight, Answered("edges") PROVE ResolutionIsConservative
    BY DEF ResolutionIsConservative
  <2> DEFINE g == given.has
             nodes == AllNodes(g)
             edges == Request
  <2>1. /\ g \in GivenNodes /\ edges \in Batches
        /\ Reply.after = ResolveWithOptions(AfterAdding, edges, FALSE)
        /\ Reply.guessed = ResolveWithOptions(AfterAdding, edges, TRUE)
    BY RepliedRight
  <2>2. edges \in Seq(ParsedEdge) BY <2>1, ResolutionAssumption
  <2>3. Stored(nodes) /\ AfterAdding.nodes = nodes BY <2>1, StoresAre
  <2> HIDE DEF nodes
  <2>4. PICK st, others : st \in States(nodes) /\ PassedWith(nodes, AfterAdding, edges, st, others)
    BY <2>2, <2>3, PassIs
  <2> HIDE DEF edges
  <2>5. ASSUME NEW i \in DOMAIN edges
        PROVE  LET strict == Reply.after[i]  guessed == Reply.guessed[i]
               IN  /\ strict.to # 0 \/ guessed.to = 0 => guessed = strict
                   /\ guessed # strict => guessed.kind = "fallback_calls"
                   /\ guessed.kind \in {"calls", "fallback_calls"} /\ guessed.to # 0 =>
                         \E n \in nodes : /\ n.id = guessed.to
                                          /\ Last(guessed.target) \in {n.name, Last(n.qn)}
    <3> DEFINE e == edges[i]
               strict == Reply.after[i]
               guessed == Reply.guessed[i]
    <3>1. i \in 1 .. Len(edges) /\ e \in ParsedEdge BY <2>2
    <3>2. /\ strict = IF e.kind = "calls" THEN ResolveCall(st, e, FALSE) ELSE others[i]
          /\ guessed = IF e.kind = "calls" THEN ResolveCall(st, e, TRUE) ELSE others[i]
          /\ Settled(nodes, e, others[i])
      BY <2>1, <2>4, <3>1 DEF PassedWith
    <3> HIDE DEF e, strict, guessed
    <3>3. CASE e.kind = "calls"
      <4>1. strict = ResolveCall(st, e, FALSE) /\ guessed = ResolveCall(st, e, TRUE) BY <3>2, <3>3
      <4>2. nodes \in SUBSET GraphNode BY <2>3 DEF Stored
      <4>3. /\ strict.to # 0 \/ guessed.to = 0 => guessed = strict
            /\ guessed # strict => guessed.kind = "fallback_calls"
            /\ guessed.to # 0 => \E n \in Fitting(nodes, guessed.target) : n.id = guessed.to
        <5>1. CallOutcome(nodes, e, strict, guessed) BY <2>4, <3>1, <3>3, <4>1, <4>2, CallIs
        <5> QED BY <5>1 DEF CallOutcome
      <4>4. guessed.to # 0 => \E n \in nodes : n.id = guessed.to /\ Last(guessed.target) \in {n.name, Last(n.qn)}
        BY <4>3 DEF Fitting, Fits
      <4> QED BY <4>3, <4>4 DEF strict, guessed
    <3>4. CASE e.kind # "calls"
      <4>1. strict = others[i] /\ guessed = others[i] BY <3>2, <3>4
      <4>2. guessed.kind = e.kind BY <3>2, <4>1 DEF Settled
      <4>3. e.kind # "fallback_calls" BY <3>1 DEF ParsedEdge
      <4> QED BY <3>4, <4>1, <4>2, <4>3 DEF strict, guessed
    <3> QED BY <3>3, <3>4
  <2>6. ASSUME NEW p \in ImportPaths PROVE Find(Files(nodes), p) = BestMatch(Files(nodes), p)
    <3>1. p \in Path BY ResolutionAssumption
    <3>2. nodes \in SUBSET nodes OBVIOUS
    <3> QED BY <2>3, <3>1, <3>2, FilesLead
  <2>7. nodes = given.has.old \union given.has.added BY DEF nodes, AllNodes
  <2> QED BY <2>5, <2>6, <2>7, Zenon DEF ResolutionIsConservative, edges
<1> QED BY <1>1, AnsweredRightInvariant, PTL

\* No edge is left waiting for a node that was added and that it resolves to,
\* whatever the graph, what is added to it and the batch.
THEOREM ReplayComplete == ServeSpec => []ReplayMissesNothing
<1>1. AnsweredRight => ReplayMissesNothing
  <2> DEFINE g == given.has
             nodes == AllNodes(g)
             edges == Request
             waiting == {e \in Range(Reply.before) : Waits(e)}
             ResolvedBy(i) == Reply.after[i].to \in {n.id : n \in given.has.added}
             CallWaits(i) == \E c \in waiting : /\ c.kind = "calls"
                                                /\ c.file = Request[i].file /\ c.target = Request[i].target
  <2> SUFFICES ASSUME AnsweredRight, Answered("edges"), NEW i \in DOMAIN edges,
                      Reply.before[i] \in waiting, ResolvedBy(i),
                      edges[i].kind = "tested_by" => CallWaits(i)
               PROVE  Reply.before[i] \in Replayed(waiting, given.has.added)
    BY Zenon DEF ReplayMissesNothing
  <2>1. /\ g \in GivenNodes /\ edges \in Batches
        /\ Reply.before = ResolveWithOptions(BeforeAdding, edges, FALSE)
        /\ Reply.after = ResolveWithOptions(AfterAdding, edges, FALSE)
    BY RepliedRight
  <2>2. edges \in Seq(ParsedEdge) BY <2>1, ResolutionAssumption
  <2>3. /\ Stored(g.old) /\ BeforeAdding.nodes = g.old /\ Stored(nodes) /\ AfterAdding.nodes = nodes
        /\ \A m, n \in nodes : m.id = n.id => m = n
    BY <2>1, StoresAre
  <2>4. given.has.added \subseteq nodes BY DEF AllNodes
  <2> HIDE DEF nodes
  <2>5. PICK st, others : st \in States(nodes) /\ PassedWith(nodes, AfterAdding, edges, st, others)
    BY <2>2, <2>3, PassIs
  <2>6. PICK st1, others1 : st1 \in States(g.old) /\ PassedWith(g.old, BeforeAdding, edges, st1, others1)
    BY <2>2, <2>3, PassIs
  <2> DEFINE e == edges[i]
             was == Reply.before[i]
             is == Reply.after[i]
  <2>7. i \in 1 .. Len(edges) /\ e \in ParsedEdge BY <2>2
  <2>8. was.kind = e.kind /\ was.file = e.file /\ was.target = e.target
    <3>1. /\ was = IF e.kind = "calls" THEN ResolveCall(st1, e, FALSE) ELSE others1[i]
          /\ Settled(g.old, e, others1[i])
      BY <2>1, <2>6, <2>7 DEF PassedWith
    <3> HIDE DEF e, was
    <3>2. CASE e.kind = "calls"
      <4>1. g.old \in SUBSET GraphNode BY <2>3 DEF Stored
      <4>2. was = ResolveCall(st1, e, FALSE) BY <3>1, <3>2
      <4>3. CallOutcome(g.old, e, was, ResolveCall(st1, e, TRUE)) BY <2>6, <2>7, <3>2, <4>1, <4>2, CallIs
      <4> QED BY <3>2, <4>3 DEF CallOutcome
    <3>3. CASE e.kind # "calls" BY <3>1, <3>3 DEF Settled
    <3> QED BY <3>2, <3>3
  <2>9. Waits(was) /\ e.kind # "contains"
    <3>1. Waits(was) OBVIOUS
    <3> HIDE DEF was, e
    <3> QED BY <2>8, <3>1 DEF Waits
  <2>10. PICK n \in Leading(nodes, e.target) : n.id = is.to
    <3>1. /\ is = IF e.kind = "calls" THEN ResolveCall(st, e, FALSE) ELSE others[i]
          /\ Settled(nodes, e, others[i])
      BY <2>1, <2>5, <2>7 DEF PassedWith
    <3>2. is.to # 0
      <4>1. PICK m \in given.has.added : is.to = m.id OBVIOUS
      <4> HIDE DEF is
      <4> QED BY <2>3, <2>4, <4>1 DEF Stored, GraphNode
    <3> HIDE DEF e, is
    <3>3. CASE e.kind = "calls"
      <4>1. nodes \in SUBSET GraphNode BY <2>3 DEF Stored
      <4>2. is = ResolveCall(st, e, FALSE) BY <3>1, <3>3
      <4>3. \E n \in Fitting(nodes, e.target) : n.id = is.to
        <5>1. CallOutcome(nodes, e, is, ResolveCall(st, e, TRUE)) BY <2>5, <2>7, <3>3, <4>1, <4>2, CallIs
        <5> QED BY <3>2, <5>1 DEF CallOutcome
      <4> QED BY <4>3, FittingLeads
    <3>4. CASE e.kind # "calls" BY <2>9, <3>1, <3>2, <3>4 DEF Settled
    <3> QED BY <3>3, <3>4
  <2>11. n \in given.has.added
    <3>1. PICK m \in given.has.added : is.to = m.id OBVIOUS
    <3>2. m \in nodes /\ n \in nodes BY <2>4, <3>1 DEF Leading
    <3> HIDE DEF is
    <3> QED BY <2>3, <2>10, <3>1, <3>2
  <2>12. Last(e.target) \in LookupKeys(given.has.added)
    <3>1. Last(e.target) \in LookupKeys({n}) BY DEF Leading
    <3> HIDE DEF e
    <3> QED BY <2>11, <3>1 DEF LookupKeys
  <2> HIDE DEF e, was, is
  <2>13. ASSUME NEW w \in waiting, w.file = was.file,
                UnresolvedKey(w) \in LookupKeys(given.has.added)
         PROVE  was \in Replayed(waiting, given.has.added)
    <3>1. was \in waiting BY DEF was
    <3> HIDE DEF waiting
    <3> QED BY <2>13, <3>1 DEF Replayed
  <2>14. CASE e.kind # "tested_by"
    <3>1. UnresolvedKey(was) = Last(e.target) BY <2>8, <2>14 DEF UnresolvedKey
    <3>2. was \in waiting BY DEF was
    <3> HIDE DEF waiting
    <3>3. was \in Replayed(waiting, given.has.added) BY <2>12, <2>13, <3>1, <3>2
    <3> QED BY <3>3 DEF was
  <2>15. CASE e.kind = "tested_by"
    <3>1. PICK c \in waiting : c.kind = "calls" /\ c.file = e.file /\ c.target = e.target
      BY <2>15 DEF e
    <3>2. UnresolvedKey(c) = Last(e.target) BY <3>1 DEF UnresolvedKey
    <3> HIDE DEF waiting
    <3>3. was \in Replayed(waiting, given.has.added) BY <2>8, <2>12, <2>13, <3>1, <3>2
    <3> QED BY <3>3 DEF was
  <2> QED BY <2>14, <2>15
<1> QED BY <1>1, AnsweredRightInvariant, PTL

-----------------------------------------------------------------------------
\* Finite sets in a strict total order, a set of pairs

Strict(S, less) ==
    /\ \A a \in S : <<a, a>> \notin less
    /\ \A a, b \in S : a # b => <<a, b>> \in less \/ <<b, a>> \in less
    /\ \A a, b, c \in S : <<a, b>> \in less /\ <<b, c>> \in less => <<a, c>> \in less

LEMMA StrictSubset ==
    ASSUME NEW S, NEW less, Strict(S, less), NEW T \in SUBSET S PROVE Strict(T, less)
<1> \A x \in T : x \in S OBVIOUS
<1> QED BY Zenon DEF Strict

\* One is last: what comes after it would have less after itself.
LEMMA LastOf ==
    ASSUME NEW S, IsFiniteSet(S), NEW less, Strict(S, less), S # {}
    PROVE  \E w \in S : \A c \in S : c = w \/ <<c, w>> \in less
<1> DEFINE R == StrictSubsetOrdering(S)
           F == FiniteSubsetsOf(S)
           Above(x) == {y \in S : <<x, y>> \in less}
           U == {Above(x) : x \in S}
<1>1. IsWellFoundedOn(R, F) BY FS_StrictSubsetOrderingWellFounded
<1>2. U \subseteq F
  <2> SUFFICES ASSUME NEW x \in S PROVE Above(x) \in F OBVIOUS
  <2>1. Above(x) \in SUBSET S OBVIOUS
  <2>2. IsFiniteSet(Above(x))
    <3> HIDE DEF Above
    <3> QED BY <2>1, FS_Subset
  <2> QED BY <2>1, <2>2 DEF FiniteSubsetsOf
<1>3. U # {} OBVIOUS
<1>4. PICK u \in U : \A y \in U : <<y, u>> \notin R
  <2> HIDE DEF R, F, U
  <2> QED BY <1>1, <1>2, <1>3, WFMin
<1>5. PICK w \in S : u = Above(w) OBVIOUS
<1>6. ASSUME NEW c \in S, <<w, c>> \in less PROVE FALSE
  <2>1. Above(c) \subseteq Above(w) BY <1>6 DEF Strict
  <2>2. c \in Above(w) /\ c \notin Above(c) BY <1>6 DEF Strict
  <2>3. <<Above(c), u>> \notin R BY <1>4
  <2>4. <<Above(c), Above(w)>> \in (SUBSET S) \X (SUBSET S) OBVIOUS
  <2> HIDE DEF Above
  <2> QED BY <1>5, <2>1, <2>2, <2>3, <2>4, Zenon DEF StrictSubsetOrdering
<1> QED BY <1>6, Zenon DEF Strict

\* A sequence of n elements in order.
Increasing(s, S, n, less) ==
    /\ s \in [1 .. n -> S]
    /\ \A i, j \in 1 .. n : i < j => <<s[i], s[j]>> \in less

LEMMA Sortable ==
    ASSUME NEW S, IsFiniteSet(S), NEW less, Strict(S, less)
    PROVE  \E s : Increasing(s, S, Cardinality(S), less)
<1> DEFINE Can(n) == \A T \in SUBSET S : Cardinality(T) = n => \E s : Increasing(s, T, n, less)
           N == {n \in Nat : Can(n)}
<1>0. \A T \in SUBSET S : IsFiniteSet(T) /\ Strict(T, less) BY FS_Subset, StrictSubset
<1>1. 0 \in N
  <2> SUFFICES ASSUME NEW T \in SUBSET S PROVE \E s : Increasing(s, T, 0, less) OBVIOUS
  <2>1. Increasing([i \in 1 .. 0 |-> i], T, 0, less) BY DEF Increasing
  <2> QED BY <2>1
<1>2. ASSUME NEW n \in N PROVE n + 1 \in N
  <2>1. n \in Nat /\ n + 1 \in Nat OBVIOUS
  <2> SUFFICES ASSUME NEW T \in SUBSET S, Cardinality(T) = n + 1
               PROVE  \E s : Increasing(s, T, n + 1, less)
    BY <2>1
  <2>2. T # {} BY <2>1, FS_EmptySet
  <2>3. PICK w \in T : \A c \in T : c = w \/ <<c, w>> \in less BY <1>0, <2>2, LastOf
  <2>4. T \ {w} \in SUBSET S /\ Cardinality(T \ {w}) = n
    <3>1. Cardinality(T \ {w}) = Cardinality(T) - 1 BY <1>0, FS_RemoveElement
    <3> QED BY <2>1, <3>1
  <2>5. PICK q : Increasing(q, T \ {w}, n, less) BY <2>4
  <2> DEFINE s == [i \in 1 .. n + 1 |-> IF i = n + 1 THEN w ELSE q[i]]
  <2>6. \A i \in 1 .. n : q[i] \in T \ {w} /\ i \in 1 .. n + 1 /\ s[i] = q[i] BY <2>1, <2>5 DEF Increasing
  <2>7. n + 1 \in 1 .. n + 1 /\ s[n + 1] = w BY <2>1
  <2>8. \A i \in 1 .. n + 1 : i = n + 1 \/ i \in 1 .. n BY <2>1
  <2>9. s \in [1 .. n + 1 -> T] BY <2>6, <2>8
  <2>10. ASSUME NEW i \in 1 .. n + 1, NEW j \in 1 .. n + 1, i < j PROVE <<s[i], s[j]>> \in less
    <3>1. i \in 1 .. n BY <2>1, <2>10
    <3>2. CASE j = n + 1
      <4>1. q[i] \in T /\ q[i] # w /\ s[i] = q[i] /\ s[j] = w BY <2>6, <2>7, <3>1, <3>2
      <4> HIDE DEF s
      <4> QED BY <2>3, <4>1
    <3>3. CASE j # n + 1
      <4>1. j \in 1 .. n BY <2>8, <3>3
      <4>2. s[i] = q[i] /\ s[j] = q[j] BY <2>6, <3>1, <4>1
      <4> HIDE DEF s
      <4> QED BY <2>5, <2>10, <3>1, <4>1, <4>2 DEF Increasing
    <3> QED BY <3>2, <3>3
  <2>11. Increasing(s, T, n + 1, less)
    <3> HIDE DEF s
    <3> QED BY <2>9, <2>10 DEF Increasing
  <2> HIDE DEF s
  <2> QED BY <2>11
<1>3. N = Nat
  <2>1. N \in SUBSET Nat OBVIOUS
  <2> HIDE DEF N
  <2> QED BY <1>1, <1>2, <2>1, SetInduction
<1>4. Can(Cardinality(S))
  <2>1. Cardinality(S) \in Nat BY FS_CardinalityType
  <2> QED BY <1>3, <2>1
<1> QED BY <1>4

LEMMA InOrderIncreases ==
    ASSUME NEW S, IsFiniteSet(S), NEW less, Strict(S, less)
    PROVE  Increasing(InOrder(S, less), S, Cardinality(S), less)
<1>1. PICK s : Increasing(s, S, Cardinality(S), less) BY Sortable
<1>2. \E q \in [1 .. Cardinality(S) -> S] :
         \A i, j \in 1 .. Cardinality(S) : i < j => <<q[i], q[j]>> \in less
  BY <1>1, Zenon DEF Increasing
<1> QED BY <1>2, Zenon DEF Increasing, InOrder

\* How many come before, with itself.
Place(S, less, x) == Cardinality({y \in S : <<y, x>> \in less}) + 1

\* In order, every element is at its place.
LEMMA InOrderPlaces ==
    ASSUME NEW S, IsFiniteSet(S), NEW less, Strict(S, less)
    PROVE  LET s == InOrder(S, less)  n == Cardinality(S)
           IN  /\ n \in Nat /\ s \in [1 .. n -> S]
               /\ \A x \in S : \E i \in 1 .. n : s[i] = x
               /\ \A i \in 1 .. n : Place(S, less, s[i]) = i
<1> DEFINE s == InOrder(S, less)
           n == Cardinality(S)
<1>1. n \in Nat BY FS_CardinalityType
<1>2. s \in [1 .. n -> S] /\ \A i, j \in 1 .. n : i < j => <<s[i], s[j]>> \in less
  BY InOrderIncreases, Zenon DEF Increasing
<1> HIDE DEF s
<1>3. s \in Injection(1 .. n, S)
  <2>1. ASSUME NEW i \in 1 .. n, NEW j \in 1 .. n, s[i] = s[j] PROVE i = j
    <3>1. s[i] \in S /\ s[j] \in S /\ <<s[i], s[i]>> \notin less BY <1>2 DEF Strict
    <3>2. ~(i < j) BY <1>2, <2>1, <3>1
    <3>3. ~(j < i) BY <1>2, <2>1, <3>1
    <3> QED BY <1>1, <3>2, <3>3
  <2> HIDE DEF n
  <2> QED BY <1>2, <2>1, Zenon DEF Injection, IsInjective
<1>4. IsFiniteSet(1 .. n) /\ Cardinality(1 .. n) = n BY <1>1, FS_Interval
<1>5. s \in Surjection(1 .. n, S) BY <1>3, <1>4, FS_Injection
<1>6. \A x \in S : \E i \in 1 .. n : s[i] = x BY <1>5, Zenon DEF Surjection
<1>7. ASSUME NEW i \in 1 .. n PROVE Place(S, less, s[i]) = i
  <2> DEFINE before == {y \in S : <<y, s[i]>> \in less}
             m == i - 1
             q == [j \in 1 .. m |-> s[j]]
  <2>1. m \in Nat /\ i = m + 1 /\ \A j \in 1 .. m : j \in 1 .. n /\ j < i BY <1>1
  <2>2. \A j \in 1 .. m : s[j] \in before BY <1>2, <2>1
  <2>3. ASSUME NEW y \in before PROVE \E j \in 1 .. m : s[j] = y
    <3>1. PICK j \in 1 .. n : s[j] = y BY <1>6
    <3>2. j # i BY <1>2, <3>1 DEF Strict
    <3>3. ~(i < j)
      <4>1. s[i] \in S /\ s[j] \in S /\ <<s[j], s[i]>> \in less BY <1>2, <3>1
      <4> QED BY <1>2, <4>1, Zenon DEF Strict
    <3>4. j \in 1 .. m BY <1>1, <2>1, <3>2, <3>3
    <3> QED BY <3>1, <3>4
  <2>4. q \in Surjection(1 .. m, before)
    <3>1. q \in [1 .. m -> before] BY <2>2
    <3>2. \A y \in before : \E j \in 1 .. m : q[j] = y BY <2>3
    <3> HIDE DEF q, before, m
    <3> QED BY <3>1, <3>2, Zenon DEF Surjection
  <2>5. q \in Injection(1 .. m, before)
    <3>1. \A j, k \in 1 .. m : q[j] = q[k] => j = k
      <4>1. \A j \in 1 .. m : q[j] = s[j] OBVIOUS
      <4> HIDE DEF q
      <4> QED BY <1>3, <2>1, <4>1, Zenon DEF Injection, IsInjective
    <3>2. q \in [1 .. m -> before] BY <2>2
    <3> HIDE DEF q, before, m
    <3> QED BY <3>1, <3>2, Zenon DEF Injection, IsInjective
  <2>6. ExistsBijection(1 .. m, before) BY <2>4, <2>5, Zenon DEF ExistsBijection, Bijection
  <2>7. Cardinality(before) = m
    <3>1. IsFiniteSet(1 .. m) /\ Cardinality(1 .. m) = m BY <2>1, FS_Interval
    <3> HIDE DEF q, before, m
    <3> QED BY <2>6, <3>1, FS_Bijection
  <2> HIDE DEF m
  <2> QED BY <2>1, <2>7 DEF Place
<1> QED BY <1>1, <1>2, <1>6, <1>7 DEF s

\* A part with all that comes before its elements.
IsHead(H, S, less) == H \subseteq S /\ \A y \in H : \A x \in S : <<x, y>> \in less => x \in H

\* In order, by the pairs that are in it, it is the beginning.
LEMMA HeadInOrder ==
    ASSUME NEW S, IsFiniteSet(S), NEW less, Strict(S, less), NEW H, IsHead(H, S, less),
           NEW part, \A x, y \in H : <<x, y>> \in part <=> <<x, y>> \in less
    PROVE  /\ IsFiniteSet(H) /\ Cardinality(H) \in 0 .. Cardinality(S)
           /\ InOrder(H, part) \in [1 .. Cardinality(H) -> S]
           /\ \A i \in 1 .. Cardinality(H) : InOrder(H, part)[i] = InOrder(S, less)[i]
<1> DEFINE s == InOrder(S, less)
           n == Cardinality(S)
           h == InOrder(H, part)
           k == Cardinality(H)
<1>1. H \in SUBSET S BY DEF IsHead
<1>2. IsFiniteSet(H) /\ Strict(H, part) /\ k <= n
  <2>1. Strict(H, less) BY <1>1, StrictSubset
  <2>2. Strict(H, part) BY <2>1, Zenon DEF Strict
  <2> QED BY <1>1, <2>2, FS_Subset
<1>3. /\ n \in Nat /\ s \in [1 .. n -> S]
      /\ \A x \in S : \E i \in 1 .. n : s[i] = x
      /\ \A i \in 1 .. n : Place(S, less, s[i]) = i
  BY InOrderPlaces, Zenon
<1>4. /\ k \in Nat /\ h \in [1 .. k -> H]
      /\ \A i \in 1 .. k : Place(H, part, h[i]) = i
  BY <1>2, InOrderPlaces, Zenon
<1> HIDE DEF s, n, h, k
<1>5. ASSUME NEW i \in 1 .. k PROVE h[i] = s[i]
  <2>1. h[i] \in H /\ h[i] \in S BY <1>1, <1>4
  <2>2. {y \in H : <<y, h[i]>> \in part} = {y \in S : <<y, h[i]>> \in less}
    BY <1>1, <2>1 DEF IsHead
  <2>3. Place(S, less, h[i]) = i BY <1>4, <2>2 DEF Place
  <2>4. PICK j \in 1 .. n : s[j] = h[i] BY <1>3, <2>1
  <2> QED BY <1>3, <2>3, <2>4
<1>6. h \in [1 .. k -> S] BY <1>1, <1>4
<1>7. k \in 0 .. n BY <1>2, <1>3, <1>4
<1> QED BY <1>2, <1>5, <1>6, <1>7 DEF s, n, h, k

-----------------------------------------------------------------------------
\* The risks of a diff

Candidate == [node : ChangedNode, score : Nat]
OneEach(all) == \A a, b \in all : a.node.id = b.node.id => a = b

LEMMA NodesStrict ==
    ASSUME NEW S \in SUBSET ChangedNode, \A m, n \in S : m.id = n.id => m = n
    PROVE  Strict(S, {p \in S \X S : NodeBefore(p[1], p[2])})
<1> DEFINE less == {p \in S \X S : NodeBefore(p[1], p[2])}
<1>1. \A m, n \in S : <<m, n>> \in less <=> NodeBefore(m, n) OBVIOUS
<1>2. \A n \in S : n.id \in Nat /\ n.file \in Nat /\ n.first \in Nat /\ n.name \in Nat BY DEF ChangedNode
<1> HIDE DEF less
<1>3. \A n \in S : <<n, n>> \notin less BY <1>1, <1>2 DEF NodeBefore
<1>4. \A m, n \in S : m # n => <<m, n>> \in less \/ <<n, m>> \in less BY <1>1, <1>2 DEF NodeBefore
<1>5. ASSUME NEW a \in S, NEW b \in S, NEW c \in S, NodeBefore(a, b), NodeBefore(b, c)
      PROVE  NodeBefore(a, c)
  BY <1>2, <1>5 DEF NodeBefore
<1> QED BY <1>1, <1>3, <1>4, <1>5, Zenon DEF Strict, less

LEMMA FlowsStrict ==
    ASSUME NEW S \in SUBSET StoredFlow, \A f, g \in S : f.id = g.id => f = g
    PROVE  Strict(S, {p \in S \X S : FlowBefore(p[1], p[2])})
<1> DEFINE less == {p \in S \X S : FlowBefore(p[1], p[2])}
<1>1. \A m, n \in S : <<m, n>> \in less <=> FlowBefore(m, n) OBVIOUS
<1>2. \A n \in S : n.id \in Nat /\ n.name \in Nat BY DEF StoredFlow
<1> HIDE DEF less
<1>3. \A n \in S : <<n, n>> \notin less BY <1>1, <1>2 DEF FlowBefore
<1>4. \A m, n \in S : m # n => <<m, n>> \in less \/ <<n, m>> \in less BY <1>1, <1>2 DEF FlowBefore
<1>5. ASSUME NEW a \in S, NEW b \in S, NEW c \in S, FlowBefore(a, b), FlowBefore(b, c)
      PROVE  FlowBefore(a, c)
  BY <1>2, <1>5 DEF FlowBefore
<1> QED BY <1>1, <1>3, <1>4, <1>5, Zenon DEF Strict, less

LEMMA RisksStrict ==
    ASSUME NEW all \in SUBSET Candidate, OneEach(all)
    PROVE  /\ Strict(all, ByRisk(all))
           /\ \A a, b \in all : <<a, b>> \in ByRisk(all) <=> RiskBefore(a, b)
           /\ \A c \in all : Place(all, ByRisk(all), c) = Rank(c, all)
<1> DEFINE nodes == {c.node : c \in all}
           less == {p \in nodes \X nodes : NodeBefore(p[1], p[2])}
<1>1. \A a, b \in all : <<a, b>> \in ByRisk(all) <=> RiskBefore(a, b) BY DEF ByRisk
<1>2. \A c \in all : c.node \in nodes /\ c.score \in Nat BY DEF Candidate
<1>3. \A a, b \in all : a.node = b.node => a = b BY DEF OneEach
<1>4. Strict(nodes, less)
  <2>1. nodes \in SUBSET ChangedNode BY DEF Candidate
  <2>2. \A m, n \in nodes : m.id = n.id => m = n BY DEF OneEach
  <2> HIDE DEF nodes
  <2> QED BY <2>1, <2>2, NodesStrict
<1>5. \A m, n \in nodes : <<m, n>> \in less <=> NodeBefore(m, n) OBVIOUS
<1> HIDE DEF nodes, less
<1>6. \A n \in nodes : ~NodeBefore(n, n) BY <1>4, <1>5, Zenon DEF Strict
<1>7. \A m, n \in nodes : m # n => NodeBefore(m, n) \/ NodeBefore(n, m) BY <1>4, <1>5, Zenon DEF Strict
<1>8. \A m, n, o \in nodes : NodeBefore(m, n) /\ NodeBefore(n, o) => NodeBefore(m, o)
  BY <1>4, <1>5, Zenon DEF Strict
<1>9. \A a \in all : ~RiskBefore(a, a) BY <1>2, <1>6 DEF RiskBefore
<1>10. \A a, b \in all : a # b => RiskBefore(a, b) \/ RiskBefore(b, a) BY <1>2, <1>3, <1>7 DEF RiskBefore
<1>11. \A a, b, c \in all : RiskBefore(a, b) /\ RiskBefore(b, c) => RiskBefore(a, c)
  BY <1>2, <1>8 DEF RiskBefore
<1>12. Strict(all, ByRisk(all)) BY <1>1, <1>9, <1>10, <1>11, Zenon DEF Strict
<1>13. ASSUME NEW c \in all PROVE Place(all, ByRisk(all), c) = Rank(c, all)
  <2>1. {y \in all : <<y, c>> \in ByRisk(all)} = {d \in all : RiskBefore(d, c)} BY <1>1
  <2> QED BY <2>1, Zenon DEF Place, Rank
<1> QED BY <1>1, <1>12, <1>13

LEMMA CandidatesAre ==
    ASSUME NEW diff \in GivenDiffs
    PROVE  /\ Candidates(diff) \in SUBSET Candidate /\ IsFiniteSet(Candidates(diff))
           /\ OneEach(Candidates(diff))
           /\ {c.node : c \in Candidates(diff)} = Hits(diff.nodes, diff.files, diff.hunks)
<1> DEFINE hit == Hits(diff.nodes, diff.files, diff.hunks)
           Weigh(n) == HunkCount(diff.hunks, n) * (diff.outgoing[n.id] + 1)
           Of(n) == [node |-> n, score |-> Weigh(n)]
           all == {Of(n) : n \in hit}
<1>1. /\ diff.nodes \subseteq ChangedNode /\ IsFiniteSet(diff.nodes)
      /\ \A m, n \in diff.nodes : m.id = n.id => m = n
      /\ \A n \in diff.nodes : diff.outgoing[n.id] \in Nat
      /\ diff.hunks \in Seq(Hunk)
  BY RiskAssumption
<1>2. Candidates(diff) = all BY DEF Candidates
<1>3. hit \in SUBSET diff.nodes BY DEF Hits
<1>4. IsFiniteSet(hit) BY <1>1, <1>3, FS_Subset
<1>5. IsFiniteSet(all)
  <2> DEFINE f == [n \in hit |-> Of(n)]
  <2>1. f \in Surjection(hit, all)
    <3>1. f \in [hit -> all] OBVIOUS
    <3>2. \A a \in all : \E n \in hit : f[n] = a OBVIOUS
    <3> HIDE DEF f, hit, Of, all
    <3> QED BY <3>1, <3>2, Zenon DEF Surjection
  <2> HIDE DEF f, hit, all
  <2> QED BY <1>4, <2>1, FS_Surjection
<1>6. ASSUME NEW n \in hit PROVE Weigh(n) \in Nat
  <2>1. HunkCount(diff.hunks, n) \in Nat
    <3> DEFINE T == {i \in HunksByFile(diff.hunks, n.file) : Overlaps(diff.hunks[i], n)}
    <3>1. T \subseteq DOMAIN diff.hunks BY DEF HunksByFile
    <3>2. Len(diff.hunks) \in Nat /\ DOMAIN diff.hunks = 1 .. Len(diff.hunks) BY <1>1
    <3>3. IsFiniteSet(1 .. Len(diff.hunks)) BY <3>2, FS_Interval
    <3> HIDE DEF T
    <3>4. IsFiniteSet(T) BY <3>1, <3>2, <3>3, FS_Subset
    <3>5. Cardinality(T) \in Nat BY <3>4, FS_CardinalityType
    <3> QED BY <3>5, Zenon DEF HunkCount, T
  <2>2. diff.outgoing[n.id] \in Nat BY <1>1, <1>3
  <2> HIDE DEF hit
  <2>3. \A a, b \in Nat : a * (b + 1) \in Nat OBVIOUS
  <2> QED BY <2>1, <2>2, <2>3
<1> HIDE DEF hit, Weigh
<1>7. all \in SUBSET Candidate BY <1>1, <1>3, <1>6 DEF Candidate
<1>8. OneEach(all) BY <1>1, <1>3 DEF OneEach
<1>9. {c.node : c \in all} = hit
  <2>1. \A n \in hit : Of(n).node = n OBVIOUS
  <2>2. \A x : x \in all <=> \E n \in hit : x = Of(n) OBVIOUS
  <2> HIDE DEF Of, all
  <2> QED BY <2>1, <2>2
<1> HIDE DEF all
<1> QED BY <1>2, <1>5, <1>7, <1>8, <1>9 DEF hit

LEMMA HitNodes ==
    ASSUME NEW diff \in GivenDiffs
    PROVE  HitsAreChanged(diff)
<1> DEFINE hit == Hits(diff.nodes, diff.files, diff.hunks)
           changed == {n \in diff.nodes : n.file \in diff.files /\ ChangedLine(diff, n)}
<1>1. /\ diff.nodes \subseteq ChangedNode /\ IsFiniteSet(diff.nodes)
      /\ \A m, n \in diff.nodes : m.id = n.id => m = n
      /\ \A n \in diff.nodes : n.first <= n.last
      /\ diff.hunks \in Seq(Hunk)
      /\ \A i \in DOMAIN diff.hunks : diff.hunks[i].first <= diff.hunks[i].last
  BY RiskAssumption
<1>2. Len(diff.hunks) \in Nat /\ DOMAIN diff.hunks = 1 .. Len(diff.hunks) BY <1>1
<1>3. ASSUME NEW i \in DOMAIN diff.hunks PROVE diff.hunks[i].first \in Nat /\ diff.hunks[i].last \in Nat
  <2>1. diff.hunks[i] \in Hunk BY <1>1, <1>2
  <2> QED BY <2>1 DEF Hunk
<1>4. ASSUME NEW n \in diff.nodes PROVE HunkCount(diff.hunks, n) > 0 <=> ChangedLine(diff, n)
  <2> DEFINE T == {i \in HunksByFile(diff.hunks, n.file) : Overlaps(diff.hunks[i], n)}
  <2>1. T \subseteq DOMAIN diff.hunks BY DEF HunksByFile
  <2>2. IsFiniteSet(1 .. Len(diff.hunks)) BY <1>2, FS_Interval
  <2>3. n.first \in Nat /\ n.last \in Nat /\ n.first <= n.last BY <1>1 DEF ChangedNode
  <2>4. T # {} <=> ChangedLine(diff, n)
    <3>1. ASSUME NEW i \in T PROVE ChangedLine(diff, n)
      <4>1. /\ i \in DOMAIN diff.hunks /\ diff.hunks[i].file = n.file
            /\ diff.hunks[i].first <= n.last /\ diff.hunks[i].last >= n.first
        BY DEF HunksByFile, Overlaps
      <4> HIDE DEF T
      <4> DEFINE line == IF diff.hunks[i].first <= n.first THEN n.first ELSE diff.hunks[i].first
      <4>2. line \in n.first .. n.last /\ diff.hunks[i].first <= line /\ line <= diff.hunks[i].last
        BY <1>1, <1>3, <2>3, <4>1
      <4> HIDE DEF line
      <4> QED BY <4>1, <4>2, Zenon DEF ChangedLine
    <3>2. ASSUME ChangedLine(diff, n) PROVE T # {}
      <4>1. PICK i \in DOMAIN diff.hunks, line \in n.first .. n.last :
                /\ diff.hunks[i].file = n.file
                /\ diff.hunks[i].first <= line /\ line <= diff.hunks[i].last
        BY <3>2, Zenon DEF ChangedLine
      <4>2. diff.hunks[i].first <= n.last /\ diff.hunks[i].last >= n.first BY <1>3, <2>3, <4>1
      <4> QED BY <4>1, <4>2 DEF HunksByFile, Overlaps
    <3> HIDE DEF T
    <3> QED BY <3>1, <3>2
  <2> HIDE DEF T
  <2>5. IsFiniteSet(T) BY <1>2, <2>1, <2>2, FS_Subset
  <2>6. Cardinality(T) \in Nat /\ (Cardinality(T) = 0 <=> T = {}) BY <2>5, FS_CardinalityType, FS_EmptySet
  <2>7. HunkCount(diff.hunks, n) = Cardinality(T) BY Zenon DEF HunkCount, T
  <2> QED BY <2>4, <2>6, <2>7
<1>5. hit = changed
  <2>1. \A n \in diff.nodes : HunkCount(diff.hunks, n) > 0 <=> ChangedLine(diff, n) BY <1>4
  <2> QED BY <2>1, Zenon DEF Hits
<1>6. {c.node : c \in Candidates(diff)} = changed BY <1>5, CandidatesAre
<1> DEFINE less == {p \in hit \X hit : NodeBefore(p[1], p[2])}
           nodes == InOrder(hit, less)
           ids == [i \in DOMAIN nodes |-> nodes[i].id]
<1>7. ChangedNodeIDs(diff) = ids BY DEF ChangedNodeIDs
<1>8. hit \in SUBSET diff.nodes BY DEF Hits
<1>9. IsFiniteSet(hit) /\ hit \in SUBSET ChangedNode /\ \A m, n \in hit : m.id = n.id => m = n
  <2> HIDE DEF hit
  <2> QED BY <1>1, <1>8, FS_Subset
<1> HIDE DEF hit, changed
<1>10. Strict(hit, less) BY <1>9, NodesStrict
<1> HIDE DEF less
<1>11. /\ nodes \in [1 .. Cardinality(hit) -> hit]
       /\ \A x \in hit : \E i \in 1 .. Cardinality(hit) : nodes[i] = x
  <2> HIDE DEF hit
  <2> QED BY <1>9, <1>10, InOrderPlaces
<1> HIDE DEF nodes
<1>12. DOMAIN nodes = 1 .. Cardinality(hit) BY <1>11
<1>13. Range(ids) = {n.id : n \in hit}
  <2>1. Range(ids) = {nodes[i].id : i \in 1 .. Cardinality(hit)} BY <1>12 DEF Range
  <2> HIDE DEF ids
  <2>2. {nodes[i] : i \in 1 .. Cardinality(hit)} = hit BY <1>11
  <2>3. ASSUME NEW x PROVE x \in {nodes[i].id : i \in 1 .. Cardinality(hit)} <=> x \in {n.id : n \in hit}
    BY <1>11
  <2> QED BY <2>1, <2>3
<1> HIDE DEF ids
<1> QED BY <1>5, <1>6, <1>7, <1>13, Zenon DEF HitsAreChanged, changed

-----------------------------------------------------------------------------
\* The heap

\* What a heap of the best k has of the candidates seen.
Best(h, seen, k) ==
    IsHead(h, seen, ByRisk(seen)) /\ Cardinality(h) = Smaller(Cardinality(seen), k)

LEMMA RetainKeepsBest ==
    ASSUME NEW all \in SUBSET Candidate, IsFiniteSet(all), OneEach(all),
           NEW seen \in SUBSET all, NEW c \in all, c \notin seen,
           NEW k \in Nat \ {0}, NEW h, Best(h, seen, k)
    PROVE  Best(Retain(h, c, k), seen \union {c}, k)
<1> DEFINE new == Retain(h, c, k)
           with == seen \union {c}
           Lt(a, b) == <<a, b>> \in ByRisk(all)
<1>1. Strict(all, ByRisk(all)) /\ \A a, b \in all : Lt(a, b) <=> RiskBefore(a, b) BY RisksStrict
<1>2. /\ \A a \in all : ~RiskBefore(a, a)
      /\ \A a, b \in all : a # b => RiskBefore(a, b) \/ RiskBefore(b, a)
      /\ \A a, b, d \in all : RiskBefore(a, b) /\ RiskBefore(b, d) => RiskBefore(a, d)
  BY <1>1, Zenon DEF Strict
<1>3. /\ h \subseteq seen /\ \A y \in h : \A x \in seen : RiskBefore(x, y) => x \in h
      /\ Cardinality(h) = Smaller(Cardinality(seen), k)
  BY DEF Best, IsHead, ByRisk
<1>4. IsFiniteSet(seen) /\ IsFiniteSet(h) BY <1>3, FS_Subset
<1>5. Cardinality(seen) \in Nat /\ Cardinality(h) \in Nat BY <1>4, FS_CardinalityType
<1>6. Cardinality(with) = Cardinality(seen) + 1 BY <1>4, FS_AddElement
<1>7. c \notin h BY <1>3
<1>8. ASSUME new \subseteq with, \A y \in new : \A x \in with : RiskBefore(x, y) => x \in new,
             Cardinality(new) = Smaller(Cardinality(with), k)
      PROVE  Best(new, with, k)
  <2>1. \A x, y : <<x, y>> \in ByRisk(with) => RiskBefore(x, y) BY DEF ByRisk
  <2> HIDE DEF new, with
  <2> QED BY <1>8, <2>1, Zenon DEF Best, IsHead
<1>9. CASE Cardinality(h) < k
  <2>1. new = h \union {c} BY <1>9 DEF Retain
  <2>2. Cardinality(h) = Cardinality(seen) BY <1>3, <1>5, <1>9 DEF Smaller
  <2>3. h = seen BY <1>3, <1>4, <2>2, FS_Subset
  <2>4. Cardinality(with) = Smaller(Cardinality(with), k) BY <1>3, <1>5, <1>6, <1>9, <2>2 DEF Smaller
  <2>5. new = with BY <2>1, <2>3
  <2>6. Best(new, with, k)
    <3> HIDE DEF new, with
    <3> QED BY <1>8, <2>4, <2>5
  <2> QED BY <2>6
<1>10. CASE ~(Cardinality(h) < k)
  <2> DEFINE w == Worst(h)
  <2>1. Cardinality(h) = k /\ Cardinality(seen) >= k BY <1>3, <1>5, <1>10 DEF Smaller
  <2>2. w \in h /\ \A d \in h : d = w \/ RiskBefore(d, w)
    <3>1. h # {} BY <2>1, FS_EmptySet
    <3>2. h \in SUBSET all BY <1>3
    <3>3. Strict(h, ByRisk(all)) BY <1>1, <3>2, StrictSubset
    <3>4. \E v \in h : \A d \in h : d = v \/ <<d, v>> \in ByRisk(all) BY <1>4, <3>1, <3>3, LastOf
    <3>5. \E v \in h : \A d \in h : d = v \/ RiskBefore(d, v) BY <1>1, <3>2, <3>4
    <3> QED BY <3>5, Zenon DEF Worst
  <2> HIDE DEF w
  <2>3. Smaller(Cardinality(with), k) = k BY <1>5, <1>6, <2>1 DEF Smaller
  <2>4. w \in all /\ h \subseteq all BY <1>3, <2>2
  <2>5. CASE RiskBefore(c, w)
    <3>1. new = (h \ {w}) \union {c} BY <1>10, <2>5 DEF Retain, w
    <3>2. Cardinality(new) = k
      <4>1. IsFiniteSet(h \ {w}) /\ Cardinality(h \ {w}) = k - 1 BY <1>4, <2>1, <2>2, FS_RemoveElement
      <4>2. c \notin h \ {w} BY <1>7
      <4>3. Cardinality(new) = (k - 1) + 1
        <5> HIDE DEF new
        <5> QED BY <3>1, <4>1, <4>2, FS_AddElement
      <4> HIDE DEF new
      <4> QED BY <4>3
    <3> HIDE DEF new
    <3>3. new \subseteq with BY <1>3, <3>1
    <3>4. ASSUME NEW y \in new, NEW x \in with, RiskBefore(x, y) PROVE x \in new
      <4>1. x \in all /\ y \in all BY <1>3, <2>4, <3>1
      <4>2. CASE y = c
        <5>1. x # c BY <1>2, <3>4, <4>2
        <5>2. x \in seen /\ RiskBefore(x, w) BY <1>2, <2>4, <2>5, <3>4, <4>1, <4>2, <5>1
        <5>3. x \in h /\ x # w BY <1>2, <1>3, <2>2, <2>4, <5>2
        <5> QED BY <3>1, <5>3
      <4>3. CASE y # c
        <5>1. y \in h /\ y # w /\ RiskBefore(y, w) BY <2>2, <3>1, <4>3
        <5>2. CASE x = c BY <3>1, <5>2
        <5>3. CASE x # c
          <6>1. x \in h BY <1>3, <3>4, <5>1, <5>3
          <6>2. x # w BY <1>2, <2>4, <3>4, <4>1, <5>1
          <6> QED BY <3>1, <6>1, <6>2
        <5> QED BY <5>2, <5>3
      <4> QED BY <4>2, <4>3
    <3>5. Best(new, with, k)
      <4> HIDE DEF with
      <4> QED BY <1>8, <2>3, <3>2, <3>3, <3>4
    <3> QED BY <3>5 DEF new
  <2>6. CASE ~RiskBefore(c, w)
    <3>1. new = h BY <1>10, <2>6 DEF Retain, w
    <3> HIDE DEF new
    <3>2. ASSUME NEW y \in new, NEW x \in with, RiskBefore(x, y) PROVE x \in new
      <4>1. x \in all /\ y \in h /\ y \in all BY <1>3, <2>4, <3>1
      <4>2. x # c
        <5> SUFFICES ASSUME x = c PROVE FALSE OBVIOUS
        <5>1. y # w BY <2>6, <3>2
        <5>2. RiskBefore(y, w) BY <2>2, <4>1, <5>1
        <5> QED BY <1>2, <2>4, <2>6, <3>2, <4>1, <5>2
      <4> QED BY <1>3, <3>1, <3>2, <4>1, <4>2
    <3>3. new \subseteq with BY <1>3, <3>1
    <3>4. Best(new, with, k)
      <4> HIDE DEF with
      <4> QED BY <1>8, <2>1, <2>3, <3>1, <3>2, <3>3
    <3> QED BY <3>4 DEF new
  <2> QED BY <2>5, <2>6
<1> QED BY <1>9, <1>10

\* What Heaps are.
HeapSteps(heap, iteration, n, k) ==
    heap[0] = {} /\ \A i \in 1 .. n : heap[i] = Retain(heap[i - 1], iteration[i], k)

LEMMA HeapsAre ==
    ASSUME NEW all, NEW n \in Nat, NEW iteration \in [1 .. n -> all], NEW k
    PROVE  HeapSteps(Heaps(iteration, k), iteration, n, k)
<1>0. Len(iteration) = n /\ DOMAIN iteration = 1 .. n OBVIOUS
<1> DEFINE D == SUBSET all
           Step(h, i) == Retain(h, iteration[i], k)
           F == [i \in 1 .. n |-> [h \in D |-> Step(h, i)]]
           v == CHOOSE heap : heap = [i \in 0 .. n |-> IF i = 0 THEN {} ELSE Retain(heap[i - 1], iteration[i], k)]
<1>1. F \in [1 .. n -> [D -> D]]
  <2> SUFFICES ASSUME NEW i \in 1 .. n, NEW h \in D PROVE Step(h, i) \in D OBVIOUS
  <2>1. iteration[i] \in all OBVIOUS
  <2> QED BY <2>1 DEF Retain
<1>2. v = [i \in 0 .. n |-> IF i = 0 THEN {} ELSE Retain(v[i - 1], iteration[i], k)]
  <2>1. PICK g : Recurs(g, D, {}, n, F)
    <3>1. {} \in D OBVIOUS
    <3> HIDE DEF D, F
    <3> QED BY <1>1, <3>1, Recursion, Zenon
  <2>2. ASSUME NEW i \in 1 .. n PROVE g[i] = Retain(g[i - 1], iteration[i], k)
    <3>0. i - 1 \in 0 .. n OBVIOUS
    <3>1. g[i - 1] \in D BY <2>1, <3>0, Zenon DEF Recurs
    <3>2. g[i] = F[i][g[i - 1]] BY <2>1 DEF Recurs
    <3>3. F[i][g[i - 1]] = Step(g[i - 1], i) BY <3>1
    <3> HIDE DEF F
    <3> QED BY <3>2, <3>3
  <2>3. g = [i \in 0 .. n |-> IF i = 0 THEN {} ELSE Retain(g[i - 1], iteration[i], k)]
    <3>1. g \in [0 .. n -> D] /\ g[0] = {} BY <2>1, Zenon DEF Recurs
    <3>2. ASSUME NEW i \in 0 .. n
          PROVE  g[i] = IF i = 0 THEN {} ELSE Retain(g[i - 1], iteration[i], k)
      <4>1. CASE i = 0 BY <3>1, <4>1
      <4>2. CASE i # 0
        <5>1. i \in 1 .. n BY <4>2
        <5> QED BY <2>2, <4>2, <5>1, Zenon
      <4> QED BY <4>1, <4>2
    <3> QED BY <3>1, <3>2, Zenon
  <2> QED BY <2>3, Zenon
<1>3. Heaps(iteration, k) = v BY <1>0, Zenon DEF Heaps
<1> HIDE DEF v
<1>4. 0 \in 0 .. n /\ \A i \in 1 .. n : i \in 0 .. n /\ i # 0 OBVIOUS
<1>5. v[0] = {} BY <1>2, <1>4, Zenon
<1>6. \A i \in 1 .. n : v[i] = Retain(v[i - 1], iteration[i], k) BY <1>2, <1>4, Zenon
<1> QED BY <1>3, <1>5, <1>6, Zenon DEF HeapSteps

\* In every order of Go's map, the heap has the k best.
LEMMA TopIsBest ==
    ASSUME NEW all \in SUBSET Candidate, IsFiniteSet(all), OneEach(all),
           NEW iteration \in Orders(all), NEW k \in 1 .. Cardinality(all)
    PROVE  /\ IsHead(TopRiskCandidates(iteration, k), all, ByRisk(all))
           /\ Cardinality(TopRiskCandidates(iteration, k)) = k
<1> DEFINE n == Cardinality(all)
           Seen(i) == {iteration[j] : j \in 1 .. i}
           heap == Heaps(iteration, k)
           S == {i \in 0 .. n : Best(heap[i], Seen(i), k) /\ Cardinality(Seen(i)) = i}
<1>1. n \in Nat BY FS_CardinalityType
<1>2. iteration \in [1 .. n -> all] /\ Range(iteration) = all BY DEF Orders
<1>3. DOMAIN iteration = 1 .. n /\ Len(iteration) = n BY <1>1, <1>2
<1>4. k \in Nat \ {0} /\ k <= n BY <1>1
<1>5. iteration \in Injection(1 .. n, all)
  <2>1. iteration \in Surjection(1 .. n, all)
    <3>1. \A a \in all : \E i \in 1 .. n : iteration[i] = a BY <1>2, <1>3 DEF Range
    <3> HIDE DEF n
    <3> QED BY <1>2, <3>1, Zenon DEF Surjection
  <2>2. IsFiniteSet(1 .. n) /\ Cardinality(1 .. n) = n BY <1>1, FS_Interval
  <2> QED BY <2>1, <2>2, FS_SurjSameCardinalityImpliesInj
<1>6. /\ heap[0] = {}
      /\ \A i \in 1 .. n : heap[i] = Retain(heap[i - 1], iteration[i], k)
  <2> HIDE DEF n
  <2>1. HeapSteps(heap, iteration, n, k) BY <1>1, <1>2, HeapsAre
  <2> QED BY <2>1, Zenon DEF HeapSteps
<1> HIDE DEF heap
<1>7. 0 \in S
  <2>1. Seen(0) = {} OBVIOUS
  <2>2. Cardinality({}) = 0 /\ Smaller(0, k) = 0 BY <1>4, FS_EmptySet DEF Smaller
  <2>3. Best({}, {}, k) BY <2>2 DEF Best, IsHead
  <2>4. 0 \in 0 .. n BY <1>1
  <2> HIDE DEF Seen, n
  <2> QED BY <1>6, <2>1, <2>2, <2>3, <2>4
<1>8. ASSUME NEW i \in 1 .. n, i - 1 \in S PROVE i \in S
  <2>1. i \in 0 .. n /\ i - 1 \in 0 .. n BY <1>1
  <2>2. Best(heap[i - 1], Seen(i - 1), k) /\ Cardinality(Seen(i - 1)) = i - 1 BY <1>8
  <2>3. Seen(i) = Seen(i - 1) \union {iteration[i]}
    <3>1. 1 .. i = (1 .. i - 1) \union {i} BY <2>1
    <3> QED BY <3>1
  <2>4. iteration[i] \in all /\ Seen(i - 1) \in SUBSET all BY <1>1, <1>2
  <2>5. iteration[i] \notin Seen(i - 1)
    <3>1. \A j \in 1 .. i - 1 : j \in 1 .. n /\ j # i BY <1>1
    <3>2. \A j \in 1 .. n : iteration[j] = iteration[i] => j = i BY <1>5, Zenon DEF Injection, IsInjective
    <3> HIDE DEF n
    <3> QED BY <3>1, <3>2
  <2>6. Best(heap[i], Seen(i), k)
    <3>1. heap[i] = Retain(heap[i - 1], iteration[i], k) BY <1>6
    <3> HIDE DEF Seen, n
    <3>2. Best(Retain(heap[i - 1], iteration[i], k), Seen(i - 1) \union {iteration[i]}, k)
      BY <1>4, <2>2, <2>4, <2>5, RetainKeepsBest
    <3> QED BY <2>3, <3>1, <3>2
  <2>7. Cardinality(Seen(i)) = i
    <3> HIDE DEF Seen
    <3>1. IsFiniteSet(Seen(i - 1)) BY <2>4, FS_Subset
    <3>2. Cardinality(Seen(i)) = Cardinality(Seen(i - 1)) + 1 BY <2>3, <2>5, <3>1, FS_AddElement
    <3> QED BY <2>1, <2>2, <3>2
  <2> QED BY <2>1, <2>6, <2>7
<1>9. Best(heap[n], Seen(n), k)
  <2>1. 0 .. n \subseteq S
    <3> HIDE DEF S, n
    <3> QED BY <1>1, <1>7, <1>8, UpToInduction
  <2>2. n \in 0 .. n BY <1>1
  <2> HIDE DEF n
  <2> QED BY <2>1, <2>2
<1>10. Seen(n) = all BY <1>2, <1>3 DEF Range
<1>11. CASE k >= n
  <2>1. TopRiskCandidates(iteration, k) = all BY <1>2, <1>3, <1>11 DEF TopRiskCandidates
  <2>2. IsHead(all, all, ByRisk(all)) BY DEF IsHead
  <2> QED BY <1>1, <1>4, <1>11, <2>1, <2>2
<1>12. CASE ~(k >= n)
  <2>1. TopRiskCandidates(iteration, k) = heap[n] BY <1>3, <1>12 DEF TopRiskCandidates, heap
  <2>2. Smaller(n, k) = k BY <1>1, <1>4 DEF Smaller
  <2> HIDE DEF Seen
  <2> QED BY <1>9, <1>10, <2>1, <2>2 DEF Best
<1> QED BY <1>11, <1>12

-----------------------------------------------------------------------------
\* Pages

\* What a part of a sequence is.
LEMMA Cut ==
    ASSUME NEW E, NEW s \in Seq(E), NEW a \in Nat, NEW b \in Nat, a <= b, b <= Len(s)
    PROVE  /\ SubSeq(s, a + 1, b) \in Seq(E) /\ Len(SubSeq(s, a + 1, b)) = b - a
           /\ \A i \in 1 .. b - a : SubSeq(s, a + 1, b)[i] = s[a + i]
<1>1. \A i \in a + 1 .. b : s[i] \in E OBVIOUS
<1>2. SubSeq(s, a + 1, b) = [i \in 1 .. b - a |-> s[a + i]] OBVIOUS
<1>3. \A i \in 1 .. b - a : s[a + i] \in E OBVIOUS
<1> QED BY <1>2, <1>3

LEMMA CutNone ==
    ASSUME NEW E, NEW s \in Seq(E), NEW a \in Nat, NEW b \in Nat, b <= a
    PROVE  SubSeq(s, a + 1, b) = <<>>
OBVIOUS

\* The ranking.
LEMMA SortedRanks ==
    ASSUME NEW all \in SUBSET Candidate, IsFiniteSet(all), OneEach(all)
    PROVE  /\ Cardinality(all) \in Nat /\ Sorted(all) \in [1 .. Cardinality(all) -> all]
           /\ \A i \in 1 .. Cardinality(all) : Rank(Sorted(all)[i], all) = i
<1> DEFINE n == Cardinality(all)
           s == Sorted(all)
<1>1. Strict(all, ByRisk(all)) /\ \A c \in all : Place(all, ByRisk(all), c) = Rank(c, all)
  BY RisksStrict
<1>2. /\ n \in Nat /\ s \in [1 .. n -> all]
      /\ \A i \in 1 .. n : Place(all, ByRisk(all), s[i]) = i
  BY <1>1, InOrderPlaces, Zenon DEF Sorted
<1> HIDE DEF n, s
<1>3. \A i \in 1 .. n : Rank(s[i], all) = i BY <1>1, <1>2
<1> QED BY <1>2, <1>3 DEF n, s

\* A page holds what is in the ranking after the offset.
IsPage(page, all, limit, offset) ==
    LET n == Cardinality(all)
    IN  /\ page = [refused |-> FALSE, items |-> page.items, hasMore |-> page.hasMore]
        /\ page.items \in Seq(all) /\ Len(page.items) = OnPage(n, limit, offset)
        /\ \A i \in 1 .. OnPage(n, limit, offset) : page.items[i] = Sorted(all)[offset + i]
        /\ page.hasMore = (n > offset + limit)

LEMMA OnPageIs ==
    ASSUME NEW n \in Nat, NEW limit \in Nat, NEW offset \in Nat, offset < n
    PROVE  LET k == Smaller(n, offset + limit + 1)  m == Smaller(offset + limit, k)
           IN  /\ k \in 1 .. n /\ m \in Nat /\ offset <= m /\ m <= k
               /\ m - offset = OnPage(n, limit, offset) /\ OnPage(n, limit, offset) \in Nat
BY DEF Smaller, OnPage

LEMMA PageIs ==
    ASSUME NEW all \in SUBSET Candidate, IsFiniteSet(all), OneEach(all), NEW iteration \in Orders(all),
           NEW asked1 \in Int, NEW limit \in 1 .. MaxLimit, NEW offset \in Nat,
           limit = IF asked1 <= 0 THEN DefaultLimit ELSE asked1
    PROVE  IsPage(AnalyzePage(iteration, asked1, offset), all, limit, offset)
<1> DEFINE n == Cardinality(all)
           k == Smaller(n, offset + limit + 1)
           m == Smaller(offset + limit, k)
           top == TopRiskCandidates(iteration, k)
           ranked == Sorted(top)
           s == Sorted(all)
           page == AnalyzePage(iteration, asked1, offset)
<1>1. MaxLimit \in Nat /\ limit \in Nat /\ limit >= 1 /\ ~(limit > MaxLimit) /\ ~(offset < 0)
  BY RiskAssumption
<1>2. n \in Nat /\ s \in [1 .. n -> all] BY SortedRanks
<1>3. Len(iteration) = n BY <1>2 DEF Orders
<1>4. page = IF offset >= n THEN [refused |-> FALSE, items |-> <<>>, hasMore |-> FALSE]
             ELSE [refused |-> FALSE,
                   items |-> SubSeq(ranked, offset + 1, Smaller(offset + limit, Len(ranked))),
                   hasMore |-> n > offset + limit]
  BY <1>1, <1>3 DEF AnalyzePage
<1>5. CASE offset >= n
  <2>1. page = [refused |-> FALSE, items |-> <<>>, hasMore |-> FALSE] BY <1>4, <1>5
  <2>2. OnPage(n, limit, offset) = 0 BY <1>5 DEF OnPage
  <2>3. ~(n > offset + limit) BY <1>1, <1>2, <1>5
  <2> HIDE DEF n, page
  <2>4. /\ page.items = <<>> /\ page.hasMore = FALSE BY <2>1
  <2>5. page.items \in Seq(all) /\ Len(page.items) = 0 BY <2>4
  <2>6. \A i \in 1 .. 0 : page.items[i] = Sorted(all)[offset + i] OBVIOUS
  <2>7. page = [refused |-> FALSE, items |-> page.items, hasMore |-> page.hasMore] BY <2>1, <2>4
  <2>8. page.hasMore = (n > offset + limit)
    <3>1. (n > offset + limit) = FALSE BY <2>3
    <3> QED BY <2>4, <3>1
  <2>9. IsPage(page, all, limit, offset) BY <2>2, <2>5, <2>6, <2>7, <2>8, Zenon DEF IsPage, n
  <2> QED BY <2>9 DEF page
<1>6. CASE offset < n
  <2>1. /\ k \in 1 .. n /\ m \in Nat /\ offset <= m /\ m <= k
        /\ m - offset = OnPage(n, limit, offset) /\ OnPage(n, limit, offset) \in Nat
    <3> HIDE DEF n
    <3> QED BY <1>1, <1>2, <1>6, OnPageIs
  <2> HIDE DEF k
  <2>2. IsHead(top, all, ByRisk(all)) /\ Cardinality(top) = k BY <2>1, TopIsBest
  <2>3. Strict(all, ByRisk(all)) BY RisksStrict
  <2>4. \A x, y \in top : <<x, y>> \in ByRisk(top) <=> <<x, y>> \in ByRisk(all)
    <3>1. top \subseteq all BY <2>2 DEF IsHead
    <3> HIDE DEF top
    <3> QED BY <3>1 DEF ByRisk
  <2>5. ranked \in [1 .. k -> all] /\ \A i \in 1 .. k : ranked[i] = s[i]
    <3> HIDE DEF top
    <3> QED BY <2>2, <2>3, <2>4, HeadInOrder DEF Sorted
  <2> HIDE DEF top, ranked, s
  <2>6. ranked \in Seq(all) /\ Len(ranked) = k BY <1>2, <2>1, <2>5
  <2> DEFINE items == SubSeq(ranked, offset + 1, m)
             d == m - offset
  <2>7. items \in Seq(all) /\ Len(items) = d /\ \A i \in 1 .. d : items[i] = ranked[offset + i]
    <3> HIDE DEF m
    <3> QED BY <2>1, <2>6, Cut
  <2>8. \A i \in 1 .. d : offset + i \in 1 .. k
    <3> HIDE DEF m, n
    <3> QED BY <1>2, <2>1
  <2>9. page = [refused |-> FALSE, items |-> items, hasMore |-> n > offset + limit]
    BY <1>2, <1>4, <1>6, <2>6
  <2> HIDE DEF items, page, d, n
  <2>10. page.items = items /\ page.hasMore = (n > offset + limit) BY <2>9
  <2>11. \A i \in 1 .. d : items[i] = s[offset + i] BY <2>5, <2>7, <2>8
  <2>12. d = OnPage(n, limit, offset) BY <2>1 DEF d
  <2>13. page = [refused |-> FALSE, items |-> page.items, hasMore |-> page.hasMore] BY <2>9, <2>10
  <2>14. IsPage(page, all, limit, offset)
    BY <2>7, <2>10, <2>11, <2>12, <2>13, Zenon DEF IsPage, n, s
  <2> QED BY <2>14 DEF page
<1> QED BY <1>1, <1>2, <1>5, <1>6

\* It says which page it is.
LEMMA OnePage ==
    ASSUME NEW all, NEW limit, NEW offset, NEW p, NEW q, OnPage(Cardinality(all), limit, offset) \in Nat,
           IsPage(p, all, limit, offset), IsPage(q, all, limit, offset)
    PROVE  p = q
<1> DEFINE l == OnPage(Cardinality(all), limit, offset)
<1>1. /\ p.items \in Seq(all) /\ Len(p.items) = l
      /\ q.items \in Seq(all) /\ Len(q.items) = l
      /\ \A i \in 1 .. l : p.items[i] = q.items[i]
  BY DEF IsPage
<1>2. p.items = q.items
  <2> HIDE DEF l
  <2> QED BY <1>1, SameSequence
<1>3. p.hasMore = q.hasMore BY DEF IsPage
<1>4. /\ p = [refused |-> FALSE, items |-> p.items, hasMore |-> p.hasMore]
      /\ q = [refused |-> FALSE, items |-> q.items, hasMore |-> q.hasMore]
  BY Zenon DEF IsPage
<1> QED BY <1>2, <1>3, <1>4, Zenon

\* The beginning of the ranking, of m candidates.
Ranked(items, all, m) ==
    items \in Seq(all) /\ Len(items) = m /\ \A i \in 1 .. m : items[i] = Sorted(all)[i]

LEMMA RankedOn ==
    ASSUME NEW all, NEW items, NEW m \in Nat, Ranked(items, all, m), NEW d \in Nat,
           NEW more \in Seq(all), Len(more) = d, \A i \in 1 .. d : more[i] = Sorted(all)[m + i]
    PROVE  Ranked(items \o more, all, m + d)
<1> DEFINE s == Sorted(all)
           q == items \o more
<1> HIDE DEF s
<1>1. items \in Seq(all) /\ Len(items) = m /\ \A i \in 1 .. m : items[i] = s[i] BY DEF Ranked, s
<1>2. q \in Seq(all) /\ Len(q) = m + d BY <1>1
<1>3. ASSUME NEW i \in 1 .. m + d PROVE q[i] = s[i]
  <2>1. CASE i <= m
    <3>1. q[i] = items[i] BY <1>1, <2>1
    <3>2. i \in 1 .. m BY <2>1
    <3> QED BY <1>1, <3>1, <3>2
  <2>2. CASE ~(i <= m)
    <3>1. q[i] = more[i - m] BY <1>1, <2>2
    <3>2. i - m \in 1 .. d /\ m + (i - m) = i BY <2>2
    <3>3. more[i - m] = s[m + (i - m)] BY <3>2 DEF s
    <3> QED BY <3>1, <3>2, <3>3
  <2> QED BY <2>1, <2>2, Zenon
<1> HIDE DEF q
<1> QED BY <1>2, <1>3, Zenon DEF Ranked, q, s

\* How far a reader is after k pages.
ReadState(all) == [items : Seq(all), offset : Nat, more : BOOLEAN]
IsRead(r, all, k) ==
    LET n == Cardinality(all)
    IN  /\ r \in ReadState(all)
        /\ IF r.more THEN r.offset < n /\ k <= r.offset /\ Ranked(r.items, all, r.offset)
           ELSE Ranked(r.items, all, n)

ReadOn(r, iteration, limit) ==
    IF ~r.more THEN r
    ELSE LET page == AnalyzePage(iteration, limit, r.offset)
         IN  [items |-> r.items \o page.items, offset |-> r.offset + limit, more |-> page.hasMore]

ReadSteps(read, iteration, n, limit) ==
    /\ read[0] = [items |-> <<>>, offset |-> 0, more |-> TRUE]
    /\ \A k \in 1 .. n : read[k] = ReadOn(read[k - 1], iteration, limit)

LEMMA ReadOnIs ==
    ASSUME NEW all \in SUBSET Candidate, IsFiniteSet(all), OneEach(all), NEW iteration \in Orders(all),
           NEW limit \in 1 .. MaxLimit, NEW r \in ReadState(all)
    PROVE  /\ ReadOn(r, iteration, limit) \in ReadState(all)
           /\ \A k \in Nat : IsRead(r, all, k) => IsRead(ReadOn(r, iteration, limit), all, k + 1)
<1> DEFINE n == Cardinality(all)
           page == AnalyzePage(iteration, limit, r.offset)
           d == OnPage(n, limit, r.offset)
           new == ReadOn(r, iteration, limit)
<1>1. n \in Nat BY FS_CardinalityType
<1>2. limit \in Nat /\ limit >= 1 /\ limit \in Int /\ limit = IF limit <= 0 THEN DefaultLimit ELSE limit
  BY RiskAssumption
<1>3. r.items \in Seq(all) /\ r.offset \in Nat /\ r.more \in BOOLEAN BY DEF ReadState
<1>4. IsPage(page, all, limit, r.offset)
  <2> HIDE DEF n, page
  <2> QED BY <1>2, <1>3, PageIs DEF page
<1> HIDE DEF page
<1>5. /\ page.items \in Seq(all) /\ Len(page.items) = d
      /\ \A i \in 1 .. d : page.items[i] = Sorted(all)[r.offset + i]
      /\ page.hasMore = (n > r.offset + limit)
  BY <1>4, Zenon DEF IsPage
<1>6. new = IF ~r.more THEN r
            ELSE [items |-> r.items \o page.items, offset |-> r.offset + limit, more |-> page.hasMore]
  BY Zenon DEF ReadOn, page
<1> HIDE DEF new
<1>7. page.hasMore \in BOOLEAN
  <2>1. (n > r.offset + limit) \in BOOLEAN OBVIOUS
  <2> HIDE DEF n
  <2> QED BY <1>5, <2>1, Zenon
<1>8. new \in ReadState(all)
  <2>1. CASE ~r.more BY <1>6, <2>1
  <2>2. CASE r.more
    <3>1. r.items \o page.items \in Seq(all) /\ r.offset + limit \in Nat BY <1>2, <1>3, <1>5
    <3>2. new = [items |-> r.items \o page.items, offset |-> r.offset + limit, more |-> page.hasMore]
      BY <1>6, <2>2, Zenon
    <3> QED BY <1>7, <3>1, <3>2 DEF ReadState
  <2> QED BY <2>1, <2>2
<1>9. ASSUME NEW k \in Nat, IsRead(r, all, k) PROVE IsRead(new, all, k + 1)
  <2>1. CASE ~r.more
    <3>1. Ranked(r.items, all, n) BY <1>9, <2>1, Zenon DEF IsRead
    <3>2. new = r BY <1>6, <2>1
    <3> QED BY <1>8, <2>1, <3>1, <3>2, Zenon DEF IsRead
  <2>2. CASE r.more
    <3>1. r.offset < n /\ k <= r.offset /\ Ranked(r.items, all, r.offset)
      BY <1>9, <2>2, Zenon DEF IsRead
    <3>2. new = [items |-> r.items \o page.items, offset |-> r.offset + limit, more |-> page.hasMore]
      BY <1>6, <2>2, Zenon
    <3>3. new.items = r.items \o page.items /\ new.offset = r.offset + limit /\ new.more = page.hasMore
      BY <3>2
    <3>4. d \in Nat /\ d = IF limit <= n - r.offset THEN limit ELSE n - r.offset
      <4>1. d = Smaller(limit, n - r.offset) BY <1>1, <1>3, <3>1 DEF OnPage
      <4> HIDE DEF d, n
      <4> QED BY <1>1, <1>2, <1>3, <3>1, <4>1 DEF Smaller
    <3> HIDE DEF d, n
    <3>5. Ranked(new.items, all, r.offset + d)
      <4>1. Ranked(r.items \o page.items, all, r.offset + d) BY <1>3, <1>5, <3>1, <3>4, RankedOn
      <4> QED BY <3>3, <4>1
    <3>6. CASE n > r.offset + limit
      <4>1. new.more = TRUE BY <1>5, <3>3, <3>6, Zenon
      <4>2. d = limit BY <1>1, <1>2, <1>3, <3>4, <3>6
      <4>3. new.offset < n /\ k + 1 <= new.offset BY <1>1, <1>2, <1>3, <3>1, <3>3, <3>6
      <4>4. Ranked(new.items, all, new.offset) BY <3>3, <3>5, <4>2
      <4> QED BY <1>8, <4>1, <4>3, <4>4, Zenon DEF IsRead, n
    <3>7. CASE ~(n > r.offset + limit)
      <4>1. new.more = FALSE
        <5>1. (n > r.offset + limit) = FALSE BY <3>7
        <5> QED BY <1>5, <3>3, <5>1, Zenon
      <4>2. r.offset + d = n BY <1>1, <1>2, <1>3, <3>1, <3>4, <3>7
      <4>3. Ranked(new.items, all, n) BY <3>5, <4>2
      <4> QED BY <1>8, <4>1, <4>3, Zenon DEF IsRead, n
    <3> QED BY <3>6, <3>7
  <2> QED BY <1>3, <2>1, <2>2
<1> QED BY <1>8, <1>9, Zenon DEF new

LEMMA ReadsAre ==
    ASSUME NEW all \in SUBSET Candidate, IsFiniteSet(all), OneEach(all), NEW iteration \in Orders(all),
           NEW limit \in 1 .. MaxLimit
    PROVE  ReadSteps(Reads(iteration, limit), iteration, Cardinality(all), limit)
<1> DEFINE n == Cardinality(all)
           D == ReadState(all)
           b == [items |-> <<>>, offset |-> 0, more |-> TRUE]
           F == [i \in 1 .. n |-> [r \in D |-> ReadOn(r, iteration, limit)]]
           v == CHOOSE read : read = [k \in 0 .. n |->
                   IF k = 0 THEN b
                   ELSE IF ~read[k - 1].more THEN read[k - 1]
                   ELSE LET page == AnalyzePage(iteration, limit, read[k - 1].offset)
                        IN  [items |-> read[k - 1].items \o page.items,
                             offset |-> read[k - 1].offset + limit,
                             more |-> page.hasMore]]
<1>0. n \in Nat /\ iteration \in [1 .. n -> all] /\ Len(iteration) = n BY FS_CardinalityType DEF Orders
<1>1. \A r \in D : ReadOn(r, iteration, limit) \in D BY ReadOnIs
<1>2. F \in [1 .. n -> [D -> D]] BY <1>1
<1>3. b \in D
  <2>1. <<>> \in Seq(all) OBVIOUS
  <2> QED BY <2>1 DEF ReadState
<1>4. v = [k \in 0 .. n |-> IF k = 0 THEN b ELSE ReadOn(v[k - 1], iteration, limit)]
  <2> HIDE DEF b
  <2>1. PICK g : Recurs(g, D, b, n, F)
    <3> HIDE DEF D, F, n
    <3> QED BY <1>0, <1>2, <1>3, Recursion, Zenon
  <2>2. ASSUME NEW i \in 1 .. n PROVE g[i] = ReadOn(g[i - 1], iteration, limit)
    <3> HIDE DEF n, D
    <3>0. i - 1 \in 0 .. n BY <1>0
    <3>1. g[i - 1] \in D BY <2>1, <3>0, Zenon DEF Recurs
    <3>2. g[i] = F[i][g[i - 1]] BY <2>1, Zenon DEF Recurs
    <3>3. F[i][g[i - 1]] = ReadOn(g[i - 1], iteration, limit) BY <3>1
    <3> HIDE DEF F
    <3> QED BY <3>2, <3>3
  <2>3. g = [k \in 0 .. n |-> IF k = 0 THEN b ELSE ReadOn(g[k - 1], iteration, limit)]
    <3> HIDE DEF n, D, F
    <3>1. g \in [0 .. n -> D] /\ g[0] = b BY <2>1, Zenon DEF Recurs
    <3>2. ASSUME NEW i \in 0 .. n
          PROVE  g[i] = IF i = 0 THEN b ELSE ReadOn(g[i - 1], iteration, limit)
      <4>1. CASE i = 0 BY <3>1, <4>1
      <4>2. CASE i # 0
        <5>1. i \in 1 .. n BY <1>0, <4>2
        <5> QED BY <2>2, <4>2, <5>1, Zenon
      <4> QED BY <4>1, <4>2
    <3> QED BY <3>1, <3>2, Zenon
  <2> HIDE DEF n
  <2> QED BY <2>3, Zenon DEF ReadOn
<1>5. Reads(iteration, limit) = v BY <1>0, Zenon DEF Reads
<1> HIDE DEF v, b
<1>6. 0 \in 0 .. n /\ \A i \in 1 .. n : i \in 0 .. n /\ i # 0
  <2> HIDE DEF n
  <2> QED BY <1>0
<1>7. v[0] = b BY <1>4, <1>6, Zenon
<1>8. \A i \in 1 .. n : v[i] = ReadOn(v[i - 1], iteration, limit) BY <1>4, <1>6, Zenon
<1>9. ReadSteps(v, iteration, n, limit) BY <1>7, <1>8, Zenon DEF ReadSteps, b
<1> QED BY <1>5, <1>9

\* Who follows the pages reads the whole ranking.
LEMMA WalkIsRanking ==
    ASSUME NEW all \in SUBSET Candidate, IsFiniteSet(all), OneEach(all), NEW iteration \in Orders(all),
           NEW limit \in 1 .. MaxLimit
    PROVE  RankedAsWhole(iteration, Walk(iteration, limit))
<1> DEFINE n == Cardinality(all)
           read == Reads(iteration, limit)
           S == {k \in 0 .. n : IF n = 0 THEN TRUE ELSE IsRead(read[k], all, k)}
           b == [items |-> <<>>, offset |-> 0, more |-> TRUE]
<1>1. n \in Nat /\ iteration \in [1 .. n -> all] /\ Len(iteration) = n /\ Range(iteration) = all
  BY FS_CardinalityType DEF Orders
<1>2. ReadSteps(read, iteration, n, limit) BY ReadsAre
<1>3. read[0] = b /\ \A k \in 1 .. n : read[k] = ReadOn(read[k - 1], iteration, limit)
  BY <1>2, Zenon DEF ReadSteps
<1> HIDE DEF read
<1>4. b.items = <<>> /\ b.offset = 0 /\ b.more = TRUE /\ b \in ReadState(all)
  <2>1. <<>> \in Seq(all) OBVIOUS
  <2> QED BY <2>1 DEF ReadState
<1>5. Ranked(<<>>, all, 0)
  <2>1. <<>> \in Seq(all) /\ Len(<<>>) = 0 OBVIOUS
  <2> QED BY <2>1 DEF Ranked
<1> HIDE DEF b
<1>6. CASE n = 0
  <2>1. Walk(iteration, limit) = <<>> BY <1>1, <1>3, <1>4, <1>6 DEF Walk, read
  <2> HIDE DEF n
  <2> QED BY <1>1, <1>6, <2>1 DEF RankedAsWhole
<1>7. CASE n # 0
  <2>1. 0 \in S
    <3>1. IsRead(read[0], all, 0)
      <4>1. 0 < n /\ 0 <= 0
        <5> HIDE DEF n
        <5> QED BY <1>1, <1>7
      <4> QED BY <1>3, <1>4, <1>5, <4>1, Zenon DEF IsRead
    <3> HIDE DEF n
    <3> QED BY <1>1, <3>1
  <2>2. ASSUME NEW k \in 1 .. n, k - 1 \in S PROVE k \in S
    <3>1. IsRead(read[k - 1], all, k - 1) BY <1>7, <2>2
    <3>2. read[k - 1] \in ReadState(all) BY <3>1, Zenon DEF IsRead
    <3>3. k - 1 \in Nat /\ (k - 1) + 1 = k /\ k \in 0 .. n
      <4> HIDE DEF n
      <4> QED BY <1>1
    <3>4. IsRead(ReadOn(read[k - 1], iteration, limit), all, (k - 1) + 1) BY <3>1, <3>2, <3>3, ReadOnIs
    <3>5. IsRead(read[k], all, k) BY <1>3, <3>3, <3>4
    <3> HIDE DEF n
    <3> QED BY <3>3, <3>5
  <2>3. IsRead(read[n], all, n)
    <3>1. 0 .. n \subseteq S
      <4> HIDE DEF S, n
      <4> QED BY <1>1, <2>1, <2>2, UpToInduction
    <3>2. n \in 0 .. n
      <4> HIDE DEF n
      <4> QED BY <1>1
    <3> QED BY <1>7, <3>1, <3>2
  <2> DEFINE items == read[n].items
  <2>4. Ranked(items, all, n)
    <3>1. ~read[n].more
      <4> SUFFICES ASSUME read[n].more PROVE FALSE OBVIOUS
      <4>1. read[n].offset < n /\ n <= read[n].offset BY <2>3, Zenon DEF IsRead
      <4>2. read[n].offset \in Nat BY <2>3 DEF IsRead, ReadState
      <4> HIDE DEF n
      <4> QED BY <1>1, <4>1, <4>2
    <3> QED BY <2>3, <3>1, Zenon DEF IsRead
  <2>5. Walk(iteration, limit) = items BY <1>1 DEF Walk, read
  <2> HIDE DEF items
  <2>6. items \in Seq(all) /\ Len(items) = n /\ \A i \in 1 .. n : items[i] = Sorted(all)[i]
    BY <2>4, Zenon DEF Ranked
  <2>7. \A i \in 1 .. n : Sorted(all)[i] \in all /\ Rank(Sorted(all)[i], all) = i BY SortedRanks
  <2>8. DOMAIN items = 1 .. n /\ \A i \in 1 .. n : items[i] \in all /\ Rank(items[i], all) = i
    <3> HIDE DEF n
    <3> QED BY <2>6, <2>7
  <2> HIDE DEF n
  <2> QED BY <1>1, <2>5, <2>6, <2>8, Zenon DEF RankedAsWhole
<1> QED BY <1>6, <1>7

\* The page of the flows of a set of nodes.
IsFlowsPage(page, touched, ids, limit, offset) ==
    /\ Len(page.items) = OnPage(Cardinality(touched), limit, offset)
    /\ \A i \in DOMAIN page.items :
          \E f \in touched :
              /\ FlowRank(f, touched) = offset + i
              /\ page.items[i] = [id |-> f.id, nodes |-> f.members \intersect Range(ids)]
    /\ page.hasMore = (Cardinality(touched) > offset + limit)

LEMMA FlowsPageIs ==
    ASSUME NEW diff \in GivenDiffs, NEW changed, NEW limit \in Nat, NEW offset \in Nat
    PROVE  IsFlowsPage(AffectedFlowsPage(diff.flows, changed, limit, offset),
                       Touched(diff.flows, changed), changed, limit, offset)
<1> DEFINE touched == Touched(diff.flows, changed)
           less == {p \in touched \X touched : FlowBefore(p[1], p[2])}
           ranked == InOrder(touched, less)
           n == Cardinality(touched)
           rows == SubSeq(ranked, offset + 1, Smaller(offset + limit + 1, Len(ranked)))
           onPage == SubSeq(rows, 1, Smaller(limit, Len(rows)))
           Item(f) == [id |-> f.id, nodes |-> f.members \intersect Range(changed)]
           items == [i \in DOMAIN onPage |-> Item(onPage[i])]
           page == AffectedFlowsPage(diff.flows, changed, limit, offset)
           d == OnPage(n, limit, offset)
<1>1. page = [items |-> items, hasMore |-> Len(rows) > limit] BY DEF AffectedFlowsPage
<1>2. touched \in SUBSET StoredFlow /\ IsFiniteSet(touched) /\ \A f, g \in touched : f.id = g.id => f = g
  <2>1. /\ diff.flows \subseteq StoredFlow /\ IsFiniteSet(diff.flows)
        /\ \A f, g \in diff.flows : f.id = g.id => f = g
    BY RiskAssumption
  <2>2. touched \in SUBSET diff.flows BY DEF Touched
  <2> HIDE DEF touched
  <2> QED BY <2>1, <2>2, FS_Subset
<1> HIDE DEF touched
<1>3. Strict(touched, less) BY <1>2, FlowsStrict
<1>4. \A f, g \in touched : <<f, g>> \in less <=> FlowBefore(f, g) OBVIOUS
<1> HIDE DEF less
<1>5. /\ n \in Nat /\ ranked \in [1 .. n -> touched]
      /\ \A i \in 1 .. n : Place(touched, less, ranked[i]) = i
  BY <1>2, <1>3, InOrderPlaces, Zenon
<1>6. \A f \in touched : FlowRank(f, touched) = Place(touched, less, f)
  <2> SUFFICES ASSUME NEW f \in touched PROVE FlowRank(f, touched) = Place(touched, less, f) OBVIOUS
  <2>1. {y \in touched : <<y, f>> \in less} = {g \in touched : FlowBefore(g, f)} BY <1>4
  <2> QED BY <2>1, Zenon DEF Place, FlowRank
<1> HIDE DEF ranked, n
<1>7. ranked \in Seq(touched) /\ Len(ranked) = n BY <1>5
<1>8. \A i \in 1 .. n : ranked[i] \in touched /\ FlowRank(ranked[i], touched) = i BY <1>5, <1>6
<1>9. CASE n <= offset
  <2>1. Smaller(offset + limit + 1, Len(ranked)) = n BY <1>5, <1>7, <1>9 DEF Smaller
  <2>2. rows = <<>>
    <3>1. SubSeq(ranked, offset + 1, n) = <<>> BY <1>5, <1>7, <1>9, CutNone
    <3> QED BY <2>1, <3>1
  <2>3. onPage = <<>>
    <3>1. Smaller(limit, 0) = 0 BY DEF Smaller
    <3>2. rows \in Seq(touched) /\ Len(rows) = 0
      <4> HIDE DEF rows
      <4> QED BY <2>2
    <3> HIDE DEF rows
    <3>3. SubSeq(rows, 1, 0) = <<>> BY <3>2
    <3> QED BY <3>1, <3>2, <3>3
  <2>4. d = 0 BY <1>5, <1>9 DEF OnPage
  <2> HIDE DEF rows, onPage
  <2>5. items = <<>> BY <2>3
  <2> HIDE DEF items, d, page
  <2>6. page.items = <<>> /\ page.hasMore = (Len(rows) > limit) BY <1>1, <2>5
  <2>7. (Len(rows) > limit) = FALSE BY <2>2
  <2>8. (n > offset + limit) = FALSE BY <1>5, <1>9
  <2>9. Len(page.items) = d /\ DOMAIN page.items = {} BY <2>4, <2>6
  <2>10. page.hasMore = (n > offset + limit) BY <2>6, <2>7, <2>8, Zenon
  <2>11. \A i \in DOMAIN page.items :
            \E f \in touched : FlowRank(f, touched) = offset + i /\ page.items[i] = Item(f)
    BY <2>9
  <2> QED BY <2>9, <2>10, <2>11, Zenon DEF page, d, n, touched, IsFlowsPage
<1>10. CASE ~(n <= offset)
  <2> DEFINE b == Smaller(offset + limit + 1, n)
             r == b - offset
  <2>1. /\ b \in Nat /\ offset <= b /\ b <= n /\ r \in Nat
        /\ d = Smaller(limit, r) /\ d \in Nat /\ d <= r
        /\ (r > limit <=> n > offset + limit)
    BY <1>5, <1>10 DEF Smaller, OnPage
  <2> HIDE DEF b
  <2>2. rows \in Seq(touched) /\ Len(rows) = r /\ \A i \in 1 .. r : rows[i] = ranked[offset + i]
    <3>1. rows = SubSeq(ranked, offset + 1, b) BY <1>7 DEF b
    <3>2. offset <= b /\ b <= Len(ranked) BY <1>7, <2>1
    <3> HIDE DEF rows, r
    <3>3. /\ SubSeq(ranked, offset + 1, b) \in Seq(touched)
          /\ Len(SubSeq(ranked, offset + 1, b)) = b - offset
          /\ \A i \in 1 .. b - offset : SubSeq(ranked, offset + 1, b)[i] = ranked[offset + i]
      BY <1>7, <2>1, <3>2, Cut
    <3> QED BY <3>1, <3>3 DEF r
  <2> HIDE DEF r, d
  <2>3. onPage \in Seq(touched) /\ Len(onPage) = d /\ \A i \in 1 .. d : onPage[i] = rows[i]
    <3> HIDE DEF rows
    <3>1. onPage = SubSeq(rows, 0 + 1, d) BY <2>1, <2>2
    <3>2. d - 0 = d /\ \A i \in 1 .. d : 0 + i = i BY <2>1
    <3>3. /\ SubSeq(rows, 0 + 1, d) \in Seq(touched) /\ Len(SubSeq(rows, 0 + 1, d)) = d - 0
          /\ \A i \in 1 .. d - 0 : SubSeq(rows, 0 + 1, d)[i] = rows[0 + i]
      BY <2>1, <2>2, Cut
    <3> HIDE DEF onPage
    <3> QED BY <3>1, <3>2, <3>3
  <2> HIDE DEF rows, onPage
  <2>4. DOMAIN items = 1 .. d /\ Len(items) = d
    <3>1. DOMAIN onPage = 1 .. d BY <2>1, <2>3
    <3> QED BY <2>1, <3>1
  <2>5. ASSUME NEW i \in 1 .. d
        PROVE  \E f \in touched : FlowRank(f, touched) = offset + i /\ items[i] = Item(f)
    <3>1. onPage[i] = ranked[offset + i] /\ offset + i \in 1 .. n
      <4>1. i \in 1 .. r BY <2>1
      <4>2. offset + i \in 1 .. n BY <1>5, <2>1, <4>1 DEF r
      <4> QED BY <2>2, <2>3, <4>1, <4>2
    <3>2. items[i] = Item(onPage[i]) BY <2>4
    <3> HIDE DEF items, Item
    <3> QED BY <1>8, <3>1, <3>2
  <2> HIDE DEF items, page
  <2>6. page.items = items /\ page.hasMore = (Len(rows) > limit) BY <1>1
  <2>7. page.hasMore = (n > offset + limit)
    <3>1. (Len(rows) > limit) = (n > offset + limit) BY <2>1, <2>2
    <3> QED BY <2>6, <3>1, Zenon
  <2>8. Len(page.items) = d /\ DOMAIN page.items = 1 .. d BY <2>4, <2>6
  <2>9. \A i \in DOMAIN page.items :
           \E f \in touched : FlowRank(f, touched) = offset + i /\ page.items[i] = Item(f)
    <3> HIDE DEF Item
    <3> QED BY <2>5, <2>6, <2>8
  <2> QED BY <2>7, <2>8, <2>9, Zenon DEF page, d, n, touched, IsFlowsPage
<1> QED BY <1>9, <1>10

LEMMA AllOrders ==
    ASSUME NEW all, IsFiniteSet(all) PROVE Orders(all) # {}
<1> DEFINE n == Cardinality(all)
<1>1. ExistsBijection(1 .. n, all) BY FS_CardinalityType
<1>2. PICK f \in [1 .. n -> all] : \A a \in all : \E i \in 1 .. n : f[i] = a
  BY <1>1, Zenon DEF ExistsBijection, Bijection, Surjection
<1>3. Range(f) = all BY <1>2 DEF Range
<1>4. f \in Orders(all) BY <1>3 DEF Orders
<1> QED BY <1>4

LEMMA RisksAreCovered ==
    ASSUME NEW diff \in GivenDiffs, given.has = diff, NEW r \in PageRequests, Request = r,
           Reply = {AnalyzePage(o, r.limit, r.offset) : o \in Orders(Candidates(diff))}
    PROVE  RisksCovered
<1> DEFINE all == Candidates(diff)
           n == Cardinality(all)
           limit == IF r.limit <= 0 THEN DefaultLimit ELSE r.limit
           Page(o) == AnalyzePage(o, r.limit, r.offset)
           Good(page) ==
               /\ page.refused = (limit > MaxLimit \/ r.offset < 0)
               /\ ~page.refused =>
                    /\ Len(page.items) = OnPage(n, limit, r.offset)
                    /\ \A i \in DOMAIN page.items : /\ page.items[i] \in all
                                                    /\ Rank(page.items[i], all) = r.offset + i
                    /\ page.hasMore = (n > r.offset + limit)
<1>1. all \in SUBSET Candidate /\ IsFiniteSet(all) /\ OneEach(all) BY CandidatesAre
<1>2. /\ r.limit \in Int /\ r.offset \in Int
      /\ MaxLimit \in Nat /\ DefaultLimit \in 1 .. MaxLimit
      /\ limit \in Nat /\ limit >= 1
  BY RiskAssumption
<1> HIDE DEF all
<1>3. PICK o \in Orders(all) : TRUE BY <1>1, AllOrders
<1>4. n \in Nat /\ \A i \in 1 .. n : Sorted(all)[i] \in all /\ Rank(Sorted(all)[i], all) = i
  <2>1. /\ n \in Nat /\ Sorted(all) \in [1 .. n -> all]
        /\ \A i \in 1 .. n : Rank(Sorted(all)[i], all) = i
    BY <1>1, SortedRanks
  <2> HIDE DEF n
  <2> QED BY <2>1
<1>5. Reply = {Page(p) : p \in Orders(all)} BY DEF all
<1>6. (\A p \in Orders(all) : Page(p) = Page(o)) /\ Good(Page(o))
  <2>1. CASE limit > MaxLimit \/ r.offset < 0
    <3>1. \A p \in Orders(all) : Page(p) = [refused |-> TRUE] BY <2>1 DEF AnalyzePage
    <3> DEFINE page == Page(o)
    <3>2. page = [refused |-> TRUE] BY <3>1
    <3> HIDE DEF page
    <3>3. page.refused = TRUE BY <3>2
    <3>4. (limit > MaxLimit \/ r.offset < 0) = TRUE BY <2>1
    <3>5. Good(page) BY <3>3, <3>4, Zenon
    <3> HIDE DEF Page, Good
    <3> QED BY <3>1, <3>5, Zenon DEF page
  <2>2. CASE ~(limit > MaxLimit \/ r.offset < 0)
    <3>1. limit \in 1 .. MaxLimit /\ r.offset \in Nat BY <1>2, <2>2
    <3>2. limit = IF r.limit <= 0 THEN DefaultLimit ELSE r.limit OBVIOUS
    <3>3. (limit > MaxLimit \/ r.offset < 0) = FALSE BY <2>2
    <3> HIDE DEF limit, n
    <3>4. \A p \in Orders(all) : IsPage(Page(p), all, limit, r.offset)
      BY <1>1, <1>2, <3>1, <3>2, PageIs
    <3>5. OnPage(n, limit, r.offset) \in Nat /\ \A i \in 1 .. OnPage(n, limit, r.offset) : r.offset + i \in 1 .. n
      BY <1>2, <1>4, <3>1 DEF OnPage, Smaller
    <3> DEFINE page == Page(o)
               d == OnPage(n, limit, r.offset)
    <3>6. ASSUME NEW p \in Orders(all) PROVE Page(p) = Page(o)
      <4> HIDE DEF Page
      <4>1. OnPage(Cardinality(all), limit, r.offset) \in Nat BY <3>5 DEF n
      <4> QED BY <1>3, <3>4, <4>1, OnePage
    <3>7. IsPage(page, all, limit, r.offset) BY <1>3, <3>4
    <3> HIDE DEF page, Page, d
    <3>8. /\ page = [refused |-> FALSE, items |-> page.items, hasMore |-> page.hasMore]
          /\ page.items \in Seq(all) /\ Len(page.items) = d
          /\ \A i \in 1 .. d : page.items[i] = Sorted(all)[r.offset + i]
          /\ page.hasMore = (n > r.offset + limit)
      BY <3>7, Zenon DEF IsPage, n, d
    <3>9. page.refused = FALSE BY <3>8
    <3>10. DOMAIN page.items = 1 .. d BY <3>8
    <3>11. \A i \in 1 .. d : page.items[i] \in all /\ Rank(page.items[i], all) = r.offset + i
      BY <1>4, <3>5, <3>8 DEF d
    <3>12. Good(page) BY <3>3, <3>8, <3>9, <3>10, <3>11, Zenon DEF d
    <3> HIDE DEF Good
    <3> QED BY <3>6, <3>12, Zenon DEF page
  <2> QED BY <2>1, <2>2
<1>7. limit <= MaxLimit => \A iteration \in Orders(all) : RankedAsWhole(iteration, Walk(iteration, limit))
  <2> SUFFICES ASSUME limit <= MaxLimit, NEW iteration \in Orders(all)
               PROVE  RankedAsWhole(iteration, Walk(iteration, limit))
    OBVIOUS
  <2>1. limit \in 1 .. MaxLimit BY <1>2
  <2> HIDE DEF limit
  <2> QED BY <1>1, <2>1, WalkIsRanking
<1>8. \E page \in Reply : Reply = {page} /\ Good(page)
  <2> HIDE DEF Page, Good
  <2>1. Page(o) \in Reply BY <1>3, <1>5
  <2>2. Reply = {Page(o)} BY <1>3, <1>5, <1>6
  <2> QED BY <1>6, <2>1, <2>2
<1> HIDE DEF limit
<1> QED BY <1>7, <1>8, Zenon DEF RisksCovered, all, n, limit

LEMMA FlowsAreCovered ==
    ASSUME NEW diff \in GivenDiffs, given.has = diff, NEW r \in PageRequests, Request = r,
           Reply = IF r.limit \notin 1 .. MaxLimit \/ r.offset < 0 THEN [refused |-> TRUE]
                   ELSE [refused |-> FALSE,
                         page |-> AffectedFlowsPage(diff.flows, ChangedNodeIDs(diff), r.limit, r.offset)]
    PROVE  FlowsCovered
<1> DEFINE ids == ChangedNodeIDs(given.has)
           touched == {f \in given.has.flows : \E n \in f.members : n \in Range(ids)}
           page == AffectedFlowsPage(given.has.flows, ids, r.limit, r.offset)
           NodesOf(f) == {n \in f.members : n \in Range(ids)}
<1>1. CASE r.limit \notin 1 .. MaxLimit \/ r.offset < 0
  <2>1. Reply.refused = TRUE BY <1>1
  <2> QED BY <2>1, Zenon DEF FlowsCovered
<1>2. CASE ~(r.limit \notin 1 .. MaxLimit \/ r.offset < 0)
  <2>1. Reply.page = page BY <1>2
  <2>2. r.limit \in Nat /\ r.offset \in Nat
    <3>1. r.offset \in Int /\ MaxLimit \in Nat BY RiskAssumption
    <3> QED BY <1>2, <3>1
  <2> HIDE DEF ids
  <2>3. Touched(given.has.flows, ids) = touched BY DEF Touched
  <2>4. \A f : f.members \intersect Range(ids) = NodesOf(f) OBVIOUS
  <2> HIDE DEF touched, NodesOf
  <2>5. IsFlowsPage(page, touched, ids, r.limit, r.offset)
    <3>1. IsFlowsPage(page, Touched(given.has.flows, ids), ids, r.limit, r.offset)
      BY <2>2, FlowsPageIs
    <3> QED BY <2>3, <3>1
  <2> HIDE DEF page
  <2>6. \A i \in DOMAIN page.items :
           \E f \in touched :
               /\ FlowRank(f, touched) = r.offset + i
               /\ page.items[i] = [id |-> f.id, nodes |-> NodesOf(f)]
    BY <2>4, <2>5, Zenon DEF IsFlowsPage
  <2>7. /\ Len(page.items) = OnPage(Cardinality(touched), r.limit, r.offset)
        /\ page.hasMore = (Cardinality(touched) > r.offset + r.limit)
    BY <2>5, Zenon DEF IsFlowsPage
  <2>8. /\ Len(Reply.page.items) = OnPage(Cardinality(touched), Request.limit, Request.offset)
        /\ \A i \in DOMAIN Reply.page.items :
              \E f \in touched :
                  /\ FlowRank(f, touched) = Request.offset + i
                  /\ Reply.page.items[i] = [id |-> f.id, nodes |-> NodesOf(f)]
        /\ Reply.page.hasMore = (Cardinality(touched) > Request.offset + Request.limit)
    <3> HIDE DEF Request, Reply
    <3> QED BY <2>1, <2>6, <2>7, Zenon
  <2> QED BY <2>8, Zenon DEF FlowsCovered, touched, NodesOf, ids
<1> QED BY <1>1, <1>2

\* PagesCoverRanking is an invariant: whatever order Go's map gives the hits, a
\* page of risks is its window of the ranking, the pages together are the whole
\* ranking, the hits are the nodes with a changed line, and a page of affected
\* flows is its window of the flows with such a node.
THEOREM PagesCover == ServeSpec => []PagesCoverRanking
<1>1. ASSUME AnsweredRight, Answered("changes")
      PROVE  HitsAreChanged(given.has) /\ IF Request.of = "risks" THEN RisksCovered ELSE FlowsCovered
  <2> DEFINE diff == given.has
  <2>1. /\ diff \in GivenDiffs
        /\ \E r \in PageRequests :
              /\ asked = <<r>>
              /\ \/ r.of = "risks" /\ answer = <<Risks(r)>>
                 \/ r.of = "flows" /\ answer = <<AffectedFlows(r)>>
    BY <1>1, Zenon DEF AnsweredRight, Answered
  <2>2. PICK r \in PageRequests :
              /\ asked = <<r>>
              /\ \/ r.of = "risks" /\ answer = <<Risks(r)>>
                 \/ r.of = "flows" /\ answer = <<AffectedFlows(r)>>
    BY <2>1
  <2>3. Request = r BY <2>2 DEF Request
  <2>4. given.has = diff OBVIOUS
  <2> HIDE DEF diff
  <2>5. HitsAreChanged(diff) BY <2>1, HitNodes
  <2>6. CASE r.of = "risks" /\ answer = <<Risks(r)>>
    <3>1. Reply = {AnalyzePage(o, r.limit, r.offset) : o \in Orders(Candidates(diff))}
      BY <2>6, <2>4, Zenon DEF Reply, Risks
    <3>2. RisksCovered BY <2>1, <2>3, <2>4, <3>1, RisksAreCovered
    <3> QED BY <2>3, <2>4, <2>5, <2>6, <3>2
  <2>7. CASE r.of = "flows" /\ answer = <<AffectedFlows(r)>>
    <3>1. Reply = AffectedFlows(r) BY <2>7 DEF Reply
    <3>2. Reply = IF r.limit \notin 1 .. MaxLimit \/ r.offset < 0 THEN [refused |-> TRUE]
                  ELSE [refused |-> FALSE,
                        page |-> AffectedFlowsPage(diff.flows, ChangedNodeIDs(diff), r.limit, r.offset)]
      BY <3>1, <2>4, Zenon DEF AffectedFlows
    <3>3. FlowsCovered BY <2>1, <2>3, <2>4, <3>2, FlowsAreCovered
    <3> QED BY <2>3, <2>4, <2>5, <2>7, <3>3
  <2> QED BY <2>2, <2>6, <2>7
<1>2. AnsweredRight => PagesCoverRanking BY <1>1, Zenon DEF PagesCoverRanking
<1> QED BY <1>2, AnsweredRightInvariant, PTL

-----------------------------------------------------------------------------
\* The query cache: why an entry may be stale.  The expiry times play no part in
\* it; the section after this one is about them.

ReaderStates ==
    {Idle} \union {Computing(k) : k \in Keys}
           \union {Storing(k, v) : k \in Keys, v \in Versions}

DataTypeOK ==
    /\ db \in [Keys -> Versions]
    /\ cache \in [Keys -> Versions \union {NoEntry}]
    /\ readers \in [Readers -> ReaderStates]
    /\ owed \in SUBSET Keys
    /\ late \in SUBSET Keys

IInv == DataTypeOK /\ StaleIsExplained

\* A reader that is about to compute, or to store, holds a key (and a version).
LEMMA ReaderShape ==
    ASSUME DataTypeOK, NEW r \in Readers
    PROVE  /\ readers[r].at # "idle" => readers[r].key \in Keys
           /\ readers[r].at = "store" => readers[r].answer \in Versions
BY DEF DataTypeOK, ReaderStates, Idle, Computing, Storing

\* The states a reader's steps lead to.
LEMMA ReaderTargets ==
    /\ Idle \in ReaderStates
    /\ \A k \in Keys : Computing(k) \in ReaderStates
    /\ \A k \in Keys, v \in Versions : Storing(k, v) \in ReaderStates
BY DEF ReaderStates

\* Initially there is no entry.
LEMMA InitIInv == Init => IInv
<1> SUFFICES ASSUME Init PROVE IInv
  OBVIOUS
<1>1. 0 \in Versions
  BY CacheAssumption DEF CacheAssumption, Versions
<1>2. DataTypeOK
  BY <1>1, ReaderTargets DEF Init, DataTypeOK
<1> QED BY <1>2 DEF Init, IInv, StaleIsExplained, Stale

\* A reader's steps change entries only by storing, and a stored entry is marked
\* late unless it is up to date.
LEMMA ReaderIInv ==
    ASSUME IInv, NEW r \in Readers,
           \/ \E k \in Keys : Hit(r, k) \/ Miss(r, k)
           \/ Compute(r) \/ ComputeFails(r) \/ StoreAnswer(r)
    PROVE  IInv'
<1> USE DEF IInv
<1>1. CASE \E k \in Keys : Hit(r, k)
  BY <1>1 DEF Hit, vars, DataTypeOK, StaleIsExplained, Stale
<1>2. ASSUME NEW k \in Keys, Miss(r, k) PROVE IInv'
  BY <1>2, ReaderTargets DEF Miss, entryVars, DataTypeOK, StaleIsExplained, Stale
<1>3. CASE Compute(r) \/ ComputeFails(r)
  <2>1. readers' \in [Readers -> ReaderStates]
    <3>1. readers[r].key \in Keys /\ db[readers[r].key] \in Versions
      BY <1>3, ReaderShape DEF Compute, ComputeFails, DataTypeOK
    <3> QED BY <1>3, <3>1, ReaderTargets DEF Compute, ComputeFails, DataTypeOK
  <2> QED BY <1>3, <2>1 DEF Compute, ComputeFails, entryVars, DataTypeOK, StaleIsExplained,
             Stale
<1>4. CASE StoreAnswer(r)
  <2> DEFINE k == readers[r].key
             v == readers[r].answer
  <2>1. k \in Keys /\ v \in Versions
    BY <1>4, ReaderShape DEF StoreAnswer
  <2>2. Store(k, v) /\ UNCHANGED <<db, owed>> /\ readers' = [readers EXCEPT ![r] = Idle]
    BY <1>4 DEF StoreAnswer
  <2> HIDE DEF k, v
  <2>3. PICK E :
          /\ cache' = [x \in Keys |-> IF x \in E THEN NoEntry
                                      ELSE IF x = k THEN v ELSE cache[x]]
          /\ late' = (IF v = db[k] THEN late \ {k} ELSE late \union {k}) \ E
    BY <2>2 DEF Store
  <2>4. DataTypeOK'
    BY <2>1, <2>2, <2>3, ReaderTargets DEF DataTypeOK
  <2>5. StaleIsExplained'
    BY <2>1, <2>2, <2>3 DEF DataTypeOK, StaleIsExplained, Stale
  <2> QED BY <2>4, <2>5
<1> QED BY <1>1, <1>2, <1>3, <1>4

\* A commit owes a flush for what it changes; a flush leaves no entry.
LEMMA WriterIInv ==
    ASSUME IInv, NEW w \in Writers,
           (\E changed \in SUBSET Keys : Commit(w, changed)) \/ Flush(w) \/ FailAfterCommit(w)
    PROVE  IInv'
<1> USE DEF IInv
<1>1. ASSUME NEW changed \in SUBSET Keys, Commit(w, changed) PROVE IInv'
  <2>1. \A k \in changed : db[k] + 1 \in Versions
    BY <1>1, CacheAssumption DEF Commit, DataTypeOK, CacheAssumption, Versions
  <2>2. DataTypeOK'
    BY <1>1, <2>1 DEF Commit, entryVars, DataTypeOK
  <2>3. StaleIsExplained'
    BY <1>1 DEF Commit, entryVars, DataTypeOK, StaleIsExplained, Stale
  <2> QED BY <2>2, <2>3
<1>2. CASE Flush(w)
  BY <1>2 DEF Flush, Clear, DataTypeOK, StaleIsExplained, Stale
<1>3. CASE FailAfterCommit(w)
  BY <1>3 DEF FailAfterCommit, entryVars, DataTypeOK, StaleIsExplained, Stale
<1> QED BY <1>1, <1>2, <1>3

\* Expiry and cleanup only take entries away.
LEMMA TimeIInv == IInv /\ (Expire \/ Cleanup) => IInv'
<1> SUFFICES ASSUME IInv, Expire \/ Cleanup PROVE IInv'
  OBVIOUS
<1>1. CASE Expire
  BY <1>1 DEF IInv, Expire, DataTypeOK, StaleIsExplained, Stale
<1>2. CASE Cleanup
  BY <1>2 DEF IInv, Cleanup, DataTypeOK, StaleIsExplained, Stale
<1> QED BY <1>1, <1>2

\* An out-of-date entry is owed a flush, or was out of date when it was stored.
THEOREM StalenessExplained == Spec => []StaleIsExplained
<1>1. IInv /\ [Next]_vars => IInv'
  <2> SUFFICES ASSUME IInv, [Next]_vars PROVE IInv'
    OBVIOUS
  <2>1. CASE Next
    BY <2>1, ReaderIInv, WriterIInv, TimeIInv DEF Next
  <2>2. CASE UNCHANGED vars
    BY <2>2 DEF IInv, DataTypeOK, StaleIsExplained, Stale, vars
  <2> QED BY <2>1, <2>2
<1>2. IInv => StaleIsExplained
  BY DEF IInv
<1> QED BY <1>1, <1>2, InitIInv, PTL DEF Spec

-----------------------------------------------------------------------------
\* The entries of the query cache and their expiry times

\* r has the first n elements of s that are not gone, in their order, at the
\* positions p.
Picks(r, s, n, gone, p) ==
    /\ p \in [1 .. Len(r) -> 1 .. n]
    /\ \A i \in 1 .. Len(r) : r[i] = s[p[i]] /\ r[i] \notin gone
    /\ \A i, j \in 1 .. Len(r) : i < j => p[i] < p[j]
    /\ \A k \in 1 .. n : s[k] \notin gone => \E i \in 1 .. Len(r) : r[i] = s[k]
Left(r, E, s, n, gone) == r \in Seq(E) /\ Len(r) <= n /\ \E p : Picks(r, s, n, gone, p)

\* One element more is either gone or the last that is left.
LEMMA LeftOneMore ==
    ASSUME NEW E, NEW s \in Seq(E), NEW n \in 1 .. Len(s), NEW gone, NEW r, Left(r, E, s, n - 1, gone)
    PROVE  Left(IF s[n] \in gone THEN r ELSE Append(r, s[n]), E, s, n, gone)
<1>1. n \in Nat /\ n - 1 \in Nat /\ n - 1 < n /\ s[n] \in E OBVIOUS
<1>2. r \in Seq(E) /\ Len(r) \in Nat /\ Len(r) <= n - 1 BY DEF Left
<1>3. PICK p : Picks(r, s, n - 1, gone, p) BY Zenon DEF Left
<1>4. 1 .. n = (1 .. n - 1) \union {n} BY <1>1
<1>5. CASE s[n] \in gone
  <2>1. p \in [1 .. Len(r) -> 1 .. n] BY <1>3, <1>4 DEF Picks
  <2>2. ASSUME NEW k \in 1 .. n, s[k] \notin gone PROVE \E i \in 1 .. Len(r) : r[i] = s[k]
    <3>1. k \in 1 .. n - 1 BY <1>4, <1>5, <2>2
    <3> QED BY <1>3, <2>2, <3>1, Zenon DEF Picks
  <2>3. Picks(r, s, n, gone, p) BY <1>3, <2>1, <2>2, Zenon DEF Picks
  <2>4. Len(r) <= n BY <1>1, <1>2
  <2> QED BY <1>2, <1>5, <2>3, <2>4, Zenon DEF Left
<1>6. CASE s[n] \notin gone
  <2> DEFINE t == Append(r, s[n])
             m == Len(r) + 1
             q == [i \in 1 .. m |-> IF i = m THEN n ELSE p[i]]
  <2>1. t \in Seq(E) /\ Len(t) = m /\ t[m] = s[n] /\ \A i \in 1 .. Len(r) : t[i] = r[i] BY <1>1, <1>2
  <2>2. m \in Nat /\ 1 .. m = (1 .. Len(r)) \union {m} /\ m \notin 1 .. Len(r) BY <1>2
  <2>3. q[m] = n /\ \A i \in 1 .. Len(r) : q[i] = p[i] BY <2>2
  <2>4. q \in [1 .. m -> 1 .. n]
    <3>1. \A i \in 1 .. Len(r) : p[i] \in 1 .. n BY <1>3, <1>4 DEF Picks
    <3> QED BY <1>1, <2>2, <3>1
  <2> HIDE DEF t, m, q
  <2>5. \A i \in 1 .. m : t[i] = s[q[i]] /\ t[i] \notin gone
    BY <1>3, <1>6, <2>1, <2>2, <2>3, Zenon DEF Picks
  <2>6. \A i, j \in 1 .. m : i < j => q[i] < q[j]
    <3> SUFFICES ASSUME NEW i \in 1 .. m, NEW j \in 1 .. m, i < j PROVE q[i] < q[j] OBVIOUS
    <3>1. i \in 1 .. Len(r) BY <1>2, <2>2 DEF m
    <3>2. CASE j = m
      <4>1. p[i] \in 1 .. n - 1 BY <1>3, <3>1 DEF Picks
      <4> QED BY <1>1, <2>3, <3>1, <3>2, <4>1
    <3>3. CASE j # m
      <4>1. j \in 1 .. Len(r) BY <2>2, <3>3
      <4> QED BY <1>3, <2>3, <3>1, <4>1 DEF Picks
    <3> QED BY <3>2, <3>3
  <2>7. ASSUME NEW k \in 1 .. n, s[k] \notin gone PROVE \E i \in 1 .. m : t[i] = s[k]
    <3>1. CASE k = n BY <2>1, <2>2, <3>1
    <3>2. CASE k # n
      <4>1. k \in 1 .. n - 1 BY <1>4, <3>2
      <4>2. PICK i \in 1 .. Len(r) : r[i] = s[k] BY <1>3, <2>7, <4>1, Zenon DEF Picks
      <4> QED BY <2>1, <2>2, <4>2
    <3> QED BY <3>1, <3>2
  <2>8. Picks(t, s, n, gone, q) BY <2>1, <2>4, <2>5, <2>6, <2>7, Zenon DEF Picks
  <2>9. Len(t) <= n BY <1>1, <1>2, <2>1 DEF m
  <2>10. Left(t, E, s, n, gone) BY <2>1, <2>8, <2>9, Zenon DEF Left
  <2> QED BY <1>6, <2>10, Zenon DEF t
<1> QED BY <1>5, <1>6

LEMMA RemainingIs ==
    ASSUME NEW E, NEW s \in Seq(E), NEW gone
    PROVE  Left(Remaining(s, gone), E, s, Len(s), gone)
<1> DEFINE N == Len(s)
           Step(k, i) == IF s[i] \in gone THEN k ELSE Append(k, s[i])
           F == [i \in 1 .. N |-> [k \in Seq(E) |-> Step(k, i)]]
           v == CHOOSE left : left = [i \in 0 .. N |-> IF i = 0 THEN <<>> ELSE
                                        IF s[i] \in gone THEN left[i - 1] ELSE Append(left[i - 1], s[i])]
<1>1. N \in Nat /\ DOMAIN s = 1 .. N /\ \A i \in 1 .. N : s[i] \in E OBVIOUS
<1>2. F \in [1 .. N -> [Seq(E) -> Seq(E)]] BY <1>1
<1>3. v = [i \in 0 .. N |-> IF i = 0 THEN <<>> ELSE
               IF s[i] \in gone THEN v[i - 1] ELSE Append(v[i - 1], s[i])]
  <2>1. PICK g : Recurs(g, Seq(E), <<>>, N, F)
    <3>1. <<>> \in Seq(E) OBVIOUS
    <3> HIDE DEF N, F
    <3> QED BY <1>1, <1>2, <3>1, Recursion, Zenon
  <2>2. ASSUME NEW i \in 1 .. N
        PROVE  g[i] = IF s[i] \in gone THEN g[i - 1] ELSE Append(g[i - 1], s[i])
    <3>0. i - 1 \in 0 .. N BY <1>1
    <3>1. g[i - 1] \in Seq(E) BY <2>1, <3>0, Zenon DEF Recurs
    <3>2. g[i] = F[i][g[i - 1]] BY <2>1 DEF Recurs
    <3>3. F[i][g[i - 1]] = Step(g[i - 1], i) BY <3>1
    <3> HIDE DEF F
    <3> QED BY <3>2, <3>3
  <2>3. g = [i \in 0 .. N |-> IF i = 0 THEN <<>> ELSE
               IF s[i] \in gone THEN g[i - 1] ELSE Append(g[i - 1], s[i])]
    <3>1. g \in [0 .. N -> Seq(E)] /\ g[0] = <<>> BY <2>1, Zenon DEF Recurs
    <3>2. ASSUME NEW i \in 0 .. N
          PROVE  g[i] = IF i = 0 THEN <<>> ELSE
                     IF s[i] \in gone THEN g[i - 1] ELSE Append(g[i - 1], s[i])
      <4>1. CASE i = 0 BY <3>1, <4>1
      <4>2. CASE i # 0
        <5>1. i \in 1 .. N BY <1>1, <4>2
        <5> QED BY <2>2, <4>2, <5>1, Zenon
      <4> QED BY <4>1, <4>2
    <3> QED BY <3>1, <3>2, Zenon
  <2> HIDE DEF N
  <2> QED BY <2>3, Zenon
<1>4. Remaining(s, gone) = v[N] BY Zenon DEF Remaining
<1> DEFINE S == {i \in 0 .. N : Left(v[i], E, s, i, gone)}
<1> HIDE DEF v
<1>5. 0 \in S
  <2>1. 0 \in 0 .. N BY <1>1
  <2>2. v[0] = <<>> BY <1>3, <2>1
  <2>3. Picks(<<>>, s, 0, gone, <<>>) BY DEF Picks
  <2>4. Left(<<>>, E, s, 0, gone) BY <2>3 DEF Left
  <2> QED BY <2>1, <2>2, <2>4
<1>6. ASSUME NEW i \in 1 .. N, i - 1 \in S PROVE i \in S
  <2>1. i \in 0 .. N /\ i # 0 BY <1>1
  <2>2. v[i] = IF s[i] \in gone THEN v[i - 1] ELSE Append(v[i - 1], s[i])
    <3> HIDE DEF N
    <3> QED BY <1>3, <2>1, Zenon
  <2>3. Left(v[i - 1], E, s, i - 1, gone) BY <1>6
  <2>4. Left(IF s[i] \in gone THEN v[i - 1] ELSE Append(v[i - 1], s[i]), E, s, i, gone)
    <3>1. i \in 1 .. Len(s) OBVIOUS
    <3> HIDE DEF N, S
    <3> QED BY <2>3, <3>1, LeftOneMore, Zenon
  <2>5. Left(v[i], E, s, i, gone)
    <3> HIDE DEF N, S
    <3> QED BY <2>2, <2>4, Zenon
  <2> QED BY <2>1, <2>5
<1>7. 0 .. N \subseteq S
  <2> HIDE DEF S
  <2> QED BY <1>1, <1>5, <1>6, UpToInduction
<1>8. N \in 0 .. N BY <1>1
<1> QED BY <1>4, <1>7, <1>8

\* Keys by age: none twice, and those of x first.
Aged(o, x) ==
    /\ o \in Seq(Keys)
    /\ \A i, j \in 1 .. Len(o) : i < j => o[i] # o[j] /\ (o[j] \in x => o[i] \in x)
Elements(o) == {o[i] : i \in 1 .. Len(o)}

LEMMA AgedRemaining ==
    ASSUME NEW o, NEW x, Aged(o, x), NEW gone
    PROVE  LET r == Remaining(o, gone)
           IN  Aged(r, x \ gone) /\ Len(r) <= Len(o) /\ Elements(r) = Elements(o) \ gone
<1> DEFINE r == Remaining(o, gone)
<1>1. o \in Seq(Keys) BY DEF Aged
<1>2. Left(r, Keys, o, Len(o), gone) BY <1>1, RemainingIs
<1> HIDE DEF r
<1>3. r \in Seq(Keys) /\ Len(r) <= Len(o) BY <1>2 DEF Left
<1>4. PICK p : Picks(r, o, Len(o), gone, p) BY <1>2, Zenon DEF Left
<1>5. Elements(r) = Elements(o) \ gone
  <2>1. ASSUME NEW i \in 1 .. Len(r) PROVE r[i] \in Elements(o) \ gone
    <3>1. p[i] \in 1 .. Len(o) BY <1>4, Zenon DEF Picks
    <3> QED BY <1>4, <3>1, Zenon DEF Picks, Elements
  <2>2. ASSUME NEW i \in 1 .. Len(o), o[i] \notin gone PROVE o[i] \in Elements(r)
    <3>1. PICK j \in 1 .. Len(r) : r[j] = o[i] BY <1>4, <2>2, Zenon DEF Picks
    <3> QED BY <3>1, Zenon DEF Elements
  <2> QED BY <2>1, <2>2 DEF Elements
<1>6. ASSUME NEW i \in 1 .. Len(r), NEW j \in 1 .. Len(r), i < j
      PROVE  r[i] # r[j] /\ (r[j] \in x \ gone => r[i] \in x \ gone)
  <2>1. p[i] \in 1 .. Len(o) /\ p[j] \in 1 .. Len(o) /\ p[i] < p[j] BY <1>4, <1>6 DEF Picks
  <2>2. r[i] = o[p[i]] /\ r[j] = o[p[j]] /\ r[i] \notin gone BY <1>4 DEF Picks
  <2>3. o[p[i]] # o[p[j]] /\ (o[p[j]] \in x => o[p[i]] \in x) BY <2>1 DEF Aged
  <2> QED BY <2>2, <2>3
<1>7. Aged(r, x \ gone) BY <1>3, <1>6 DEF Aged
<1> QED BY <1>3, <1>5, <1>7 DEF r

LEMMA AgedAppend ==
    ASSUME NEW o, NEW x, Aged(o, x), NEW k \in Keys, k \notin x, k \notin Elements(o)
    PROVE  LET r == Append(o, k)
           IN  Aged(r, x) /\ Len(r) = Len(o) + 1 /\ Elements(r) = Elements(o) \union {k}
<1> DEFINE r == Append(o, k)
           m == Len(o) + 1
<1>1. o \in Seq(Keys) /\ Len(o) \in Nat BY DEF Aged
<1>2. r \in Seq(Keys) /\ Len(r) = m /\ r[m] = k /\ \A i \in 1 .. Len(o) : r[i] = o[i] BY <1>1
<1>3. m \in Nat /\ 1 .. m = (1 .. Len(o)) \union {m} BY <1>1
<1> HIDE DEF r
<1>4. Elements(r) = Elements(o) \union {k}
  <2>1. \A i \in 1 .. m : r[i] \in Elements(o) \union {k} BY <1>2, <1>3 DEF Elements
  <2>2. \A i \in 1 .. Len(o) : o[i] \in Elements(r) BY <1>2, <1>3 DEF Elements
  <2>3. k \in Elements(r) BY <1>2, <1>3 DEF Elements
  <2>4. Elements(r) \subseteq Elements(o) \union {k} BY <1>2, <2>1 DEF Elements
  <2>5. Elements(o) \subseteq Elements(r) BY <2>2 DEF Elements
  <2> QED BY <2>3, <2>4, <2>5
<1>5. ASSUME NEW i \in 1 .. m, NEW j \in 1 .. m, i < j PROVE r[i] # r[j] /\ (r[j] \in x => r[i] \in x)
  <2>1. i \in 1 .. Len(o) /\ r[i] = o[i] /\ o[i] \in Elements(o) BY <1>1, <1>2, <1>5 DEF Elements
  <2>2. CASE j = m BY <1>2, <2>1, <2>2
  <2>3. CASE j # m
    <3>1. j \in 1 .. Len(o) /\ r[j] = o[j] BY <1>2, <1>3, <2>3
    <3> QED BY <1>5, <2>1, <3>1 DEF Aged
  <2> QED BY <2>2, <2>3
<1>6. Aged(r, x) BY <1>2, <1>5 DEF Aged
<1> QED BY <1>2, <1>4, <1>6 DEF r

LEMMA AgedTail ==
    ASSUME NEW o, NEW x, Aged(o, x), o # <<>>
    PROVE  LET r == Tail(o)
           IN  Aged(r, x \ {Head(o)}) /\ Len(r) = Len(o) - 1 /\ Elements(r) = Elements(o) \ {Head(o)}
<1> DEFINE r == Tail(o)
           m == Len(o) - 1
<1>1. o \in Seq(Keys) /\ Len(o) \in Nat /\ Len(o) > 0 BY DEF Aged
<1>2. r \in Seq(Keys) /\ Len(r) = m /\ m \in Nat /\ Head(o) = o[1] /\ \A i \in 1 .. m : r[i] = o[i + 1] BY <1>1
<1>3. \A i \in 1 .. m : i + 1 \in 1 .. Len(o) /\ 1 < i + 1 BY <1>1
<1>4. 1 \in 1 .. Len(o) /\ \A i \in 1 .. Len(o) : i = 1 \/ (i - 1 \in 1 .. m /\ (i - 1) + 1 = i) BY <1>1
<1> HIDE DEF r
<1>5. \A i \in 1 .. m : r[i] # Head(o) /\ r[i] \in Elements(o) BY <1>2, <1>3, <1>4 DEF Aged, Elements
<1>6. Elements(r) = Elements(o) \ {Head(o)}
  <2>1. Elements(r) \subseteq Elements(o) \ {Head(o)} BY <1>2, <1>5 DEF Elements
  <2>2. ASSUME NEW i \in 1 .. Len(o), o[i] # Head(o) PROVE o[i] \in Elements(r)
    <3>1. i - 1 \in 1 .. m /\ (i - 1) + 1 = i BY <1>2, <1>4, <2>2
    <3> QED BY <1>2, <3>1 DEF Elements
  <2> QED BY <2>1, <2>2 DEF Elements
<1>7. ASSUME NEW i \in 1 .. m, NEW j \in 1 .. m, i < j
      PROVE  r[i] # r[j] /\ (r[j] \in x \ {Head(o)} => r[i] \in x \ {Head(o)})
  <2>1. i + 1 < j + 1 /\ r[i] = o[i + 1] /\ r[j] = o[j + 1] BY <1>2, <1>7
  <2> QED BY <1>3, <1>5, <2>1 DEF Aged
<1>8. Aged(r, x \ {Head(o)}) BY <1>2, <1>7 DEF Aged
<1> QED BY <1>2, <1>6, <1>8 DEF r

Cached == {k \in Keys : cache[k] # NoEntry}

OrderOK ==
    /\ Aged(order, expired)
    /\ Len(order) <= MaxCacheEntries
    /\ Elements(order) = Cached
    /\ expired \union late \subseteq Cached

OInv == IInv /\ writers \in [Writers -> {"idle", "committed"}] /\ OrderOK

\* A stored entry takes the last place, and the first one's if there is no room.
LEMMA StoreOrder ==
    ASSUME DataTypeOK, OrderOK, NEW k \in Keys, NEW v \in Versions, Store(k, v)
    PROVE  OrderOK'
<1> DEFINE rest == Remaining(order, {k})
           stored == Append(rest, k)
           evicted == IF Len(stored) > MaxCacheEntries THEN {Head(stored)} ELSE {}
           x == expired \ {k}
<1>1. /\ cache' = [y \in Keys |-> IF y \in evicted THEN NoEntry ELSE IF y = k THEN v ELSE cache[y]]
      /\ order' = IF evicted = {} THEN stored ELSE Tail(stored)
      /\ expired' = expired \ (evicted \union {k})
      /\ late' = (IF v = db[k] THEN late \ {k} ELSE late \union {k}) \ evicted
  BY Zenon DEF Store
<1>2. Aged(rest, x) /\ Len(rest) <= Len(order) /\ Elements(rest) = Elements(order) \ {k}
  BY AgedRemaining, Zenon DEF OrderOK
<1> HIDE DEF rest
<1>3. k \notin x /\ k \notin Elements(rest) BY <1>2
<1> HIDE DEF x
<1>4. Aged(stored, x) /\ Len(stored) = Len(rest) + 1 /\ Elements(stored) = Elements(rest) \union {k}
  BY <1>2, <1>3, AgedAppend, Zenon
<1>5. v # NoEntry /\ MaxCacheEntries \in Nat /\ MaxCacheEntries >= 1
  BY CacheAssumption DEF CacheAssumption, Versions
<1>6. order \in Seq(Keys) /\ rest \in Seq(Keys) /\ stored \in Seq(Keys)
  BY <1>2, <1>4, Zenon DEF OrderOK, Aged
<1>7. Len(order) \in Nat /\ Len(rest) \in Nat /\ Len(stored) \in Nat /\ Len(order) <= MaxCacheEntries
  BY <1>6 DEF OrderOK
<1>8. evicted \subseteq Keys /\ k \notin evicted
  <2>1. CASE Len(stored) > MaxCacheEntries
    <3>1. Len(rest) > 0 BY <1>4, <1>5, <1>7, <2>1
    <3>2. Head(stored) = rest[1] /\ 1 \in 1 .. Len(rest) /\ rest[1] \in Keys BY <1>6, <1>7, <3>1
    <3> HIDE DEF stored
    <3>3. Head(stored) \in Elements(rest) /\ Head(stored) \in Keys BY <3>2 DEF Elements
    <3> QED BY <1>3, <2>1, <3>3
  <2>2. CASE ~(Len(stored) > MaxCacheEntries) BY <2>2
  <2> QED BY <2>1, <2>2
<1>9. /\ Aged(order', expired') /\ Len(order') <= MaxCacheEntries
      /\ Elements(order') = (Cached \union {k}) \ evicted
  <2>1. Elements(stored) = Cached \union {k} BY <1>2, <1>4 DEF OrderOK
  <2>2. CASE Len(stored) > MaxCacheEntries
    <3>1. evicted = {Head(stored)} /\ evicted # {} BY <2>2
    <3> HIDE DEF stored, evicted
    <3>2. stored # <<>>
      <4>1. Len(stored) # 0 BY <1>4, <1>7
      <4>2. Len(<<>>) = 0 OBVIOUS
      <4> QED BY <4>1, <4>2, Zenon
    <3>3. /\ Aged(Tail(stored), x \ {Head(stored)}) /\ Len(Tail(stored)) = Len(stored) - 1
          /\ Elements(Tail(stored)) = Elements(stored) \ {Head(stored)}
      BY <1>4, <3>2, AgedTail, Zenon
    <3>4. order' = Tail(stored) BY <1>1, <3>1
    <3>5. expired' = x \ {Head(stored)} BY <1>1, <3>1 DEF x
    <3>6. Len(Tail(stored)) <= MaxCacheEntries BY <1>2, <1>4, <1>5, <1>7, <3>3
    <3> QED BY <2>1, <3>1, <3>3, <3>4, <3>5, <3>6
  <2>3. CASE ~(Len(stored) > MaxCacheEntries)
    <3>1. evicted = {} BY <2>3
    <3> HIDE DEF stored, evicted
    <3>2. order' = stored /\ expired' = x BY <1>1, <3>1 DEF x
    <3>3. Len(stored) <= MaxCacheEntries BY <1>5, <1>7, <2>3
    <3> QED BY <1>4, <2>1, <3>1, <3>2, <3>3
  <2> QED BY <2>2, <2>3
<1> HIDE DEF stored, evicted
<1>10. Cached' = (Cached \union {k}) \ evicted
  BY <1>1, <1>5, <1>8 DEF Cached
<1>11. expired' \union late' \subseteq Cached'
  BY <1>1, <1>8, <1>10 DEF OrderOK, Cached
<1> QED BY <1>9, <1>10, <1>11, Zenon DEF OrderOK

LEMMA NothingOrdered == ASSUME order = <<>>, expired = {} PROVE Aged(order, expired) /\ Elements(order) = {}
BY DEF Aged, Elements

\* Initially there is no entry.
LEMMA InitOInv == Init => OInv
<1> SUFFICES ASSUME Init PROVE OInv
  OBVIOUS
<1>1. IInv BY InitIInv
<1>2. writers \in [Writers -> {"idle", "committed"}] BY DEF Init
<1>3. Aged(order, expired) /\ Elements(order) = {} BY NothingOrdered DEF Init
<1>4. Len(order) <= MaxCacheEntries BY CacheAssumption DEF Init, CacheAssumption
<1>5. Cached = {} /\ late = {} /\ expired = {} BY DEF Init, Cached
<1> QED BY <1>1, <1>2, <1>3, <1>4, <1>5 DEF OInv, OrderOK

\* Of a reader's steps only the last touches an entry.
LEMMA ReaderOInv ==
    ASSUME OInv, NEW r \in Readers,
           \/ \E k \in Keys : Hit(r, k) \/ Miss(r, k)
           \/ Compute(r) \/ ComputeFails(r) \/ StoreAnswer(r)
    PROVE  OInv'
<1>1. IInv' BY ReaderIInv DEF OInv
<1>2. writers' = writers BY DEF Hit, Miss, Compute, ComputeFails, StoreAnswer, vars
<1>3. OrderOK'
  <2>1. CASE (\E k \in Keys : Hit(r, k) \/ Miss(r, k)) \/ Compute(r) \/ ComputeFails(r)
    <3>1. UNCHANGED entryVars BY <2>1 DEF Hit, Miss, Compute, ComputeFails, vars, entryVars
    <3> QED BY <3>1 DEF OInv, OrderOK, Cached, Elements, Aged, entryVars
  <2>2. CASE StoreAnswer(r)
    <3> DEFINE k == readers[r].key
               v == readers[r].answer
    <3>1. k \in Keys /\ v \in Versions BY <2>2, ReaderShape DEF StoreAnswer, OInv, IInv
    <3>2. Store(k, v) BY <2>2, Zenon DEF StoreAnswer
    <3> HIDE DEF k, v
    <3> QED BY <3>1, <3>2, StoreOrder, Zenon DEF OInv, IInv
  <2> QED BY <2>1, <2>2
<1> QED BY <1>1, <1>2, <1>3, Zenon DEF OInv

\* A writer leaves the entries alone, or none of them.
LEMMA WriterOInv ==
    ASSUME OInv, NEW w \in Writers,
           (\E changed \in SUBSET Keys : Commit(w, changed)) \/ Flush(w) \/ FailAfterCommit(w)
    PROVE  OInv'
<1>1. IInv' BY WriterIInv DEF OInv
<1>2. writers' \in [Writers -> {"idle", "committed"}] BY DEF OInv, Commit, Flush, FailAfterCommit
<1>3. OrderOK'
  <2>1. CASE (\E changed \in SUBSET Keys : Commit(w, changed)) \/ FailAfterCommit(w)
    BY <2>1 DEF Commit, FailAfterCommit, OInv, OrderOK, Cached, Elements, Aged, entryVars
  <2>2. CASE Flush(w)
    <3>1. order' = <<>> /\ expired' = {} /\ late' = {} /\ Cached' = {}
      BY <2>2 DEF Flush, Clear, Cached
    <3>2. Aged(order', expired') /\ Elements(order') = {} BY <3>1 DEF Aged, Elements
    <3>3. Len(order') <= MaxCacheEntries BY <3>1, CacheAssumption DEF CacheAssumption
    <3> QED BY <3>1, <3>2, <3>3 DEF OrderOK
  <2> QED BY <2>1, <2>2
<1> QED BY <1>1, <1>2, <1>3, Zenon DEF OInv

\* What expires next follows what has expired; what has expired is dropped.
LEMMA TimeOInv == ASSUME OInv, Expire \/ Cleanup PROVE OInv'
<1>1. IInv' BY TimeIInv DEF OInv
<1>2. writers' = writers BY DEF Expire, Cleanup
<1>3. CASE Expire
  <2>1. PICK i \in 1 .. Len(order) :
            /\ \A j \in 1 .. i - 1 : order[j] \in expired
            /\ expired' = expired \union {order[i]}
            /\ cache' = cache /\ order' = order /\ late' = late
    BY <1>3, Zenon DEF Expire
  <2>2. order \in Seq(Keys) /\ Len(order) \in Nat BY DEF OInv, OrderOK, Aged
  <2>3. ASSUME NEW a \in 1 .. Len(order), NEW b \in 1 .. Len(order), a < b
        PROVE  order[a] # order[b] /\ (order[b] \in expired' => order[a] \in expired')
    <3>1. order[a] # order[b] /\ (order[b] \in expired => order[a] \in expired)
      BY <2>3 DEF OInv, OrderOK, Aged
    <3>2. CASE order[b] = order[i]
      <4>1. b = i
        <5>1. ~(b < i) /\ ~(i < b) BY <3>2 DEF OInv, OrderOK, Aged
        <5> QED BY <2>2, <5>1
      <4>2. a \in 1 .. i - 1 BY <2>2, <2>3, <4>1
      <4> QED BY <2>1, <3>1, <4>2
    <3>3. CASE order[b] # order[i] BY <2>1, <3>1, <3>3
    <3> QED BY <3>2, <3>3
  <2>4. Aged(order', expired') BY <2>1, <2>2, <2>3 DEF Aged
  <2>5. Cached' = Cached /\ Elements(order') = Elements(order) BY <2>1 DEF Cached, Elements
  <2>6. order[i] \in Cached BY DEF OInv, OrderOK, Elements
  <2>7. OrderOK' BY <2>1, <2>4, <2>5, <2>6 DEF OInv, OrderOK
  <2> QED BY <1>1, <1>2, <2>7, Zenon DEF OInv
<1>4. CASE Cleanup
  <2>1. /\ cache' = [k \in Keys |-> IF k \in expired THEN NoEntry ELSE cache[k]]
        /\ order' = Remaining(order, expired) /\ expired' = {} /\ late' = late \ expired
    BY <1>4, Zenon DEF Cleanup
  <2>2. Aged(order, expired) /\ order \in Seq(Keys) /\ Len(order) <= MaxCacheEntries
    BY DEF OInv, OrderOK, Aged
  <2>3. /\ Aged(Remaining(order, expired), expired \ expired)
        /\ Len(Remaining(order, expired)) <= Len(order)
        /\ Elements(Remaining(order, expired)) = Elements(order) \ expired
    BY <2>2, AgedRemaining, Zenon
  <2>4. Aged(order', expired') /\ Len(order') <= Len(order) /\ Elements(order') = Elements(order) \ expired
    <3>1. expired \ expired = {} OBVIOUS
    <3> QED BY <2>1, <2>3, <3>1, Zenon
  <2>5. Len(order') \in Nat /\ Len(order) \in Nat BY <2>2, <2>4 DEF Aged
  <2>6. Len(order') <= MaxCacheEntries BY <2>2, <2>4, <2>5, CacheAssumption DEF CacheAssumption
  <2>7. Cached' = Cached \ expired BY <2>1 DEF Cached
  <2>8. expired' \union late' \subseteq Cached' BY <2>1, <2>7 DEF OInv, OrderOK
  <2>9. Elements(order') = Cached' BY <2>4, <2>7 DEF OInv, OrderOK
  <2>10. OrderOK' BY <2>4, <2>6, <2>8, <2>9, Zenon DEF OrderOK
  <2> QED BY <1>1, <1>2, <2>10, Zenon DEF OInv
<1> QED BY <1>3, <1>4

LEMMA OrderInvariant == Spec => []OInv
<1>1. OInv /\ [Next]_vars => OInv'
  <2> SUFFICES ASSUME OInv, [Next]_vars PROVE OInv'
    OBVIOUS
  <2>1. CASE Next
    BY <2>1, ReaderOInv, WriterOInv, TimeOInv DEF Next
  <2>2. CASE UNCHANGED vars
    BY <2>2 DEF OInv, IInv, DataTypeOK, StaleIsExplained, Stale, OrderOK, Cached, Elements, Aged, vars
  <2> QED BY <2>1, <2>2
<1> QED BY <1>1, InitOInv, PTL DEF Spec

\* Every variable of the query cache keeps its shape, however many queries, readers
\* and writers there are.
THEOREM CacheTypeCorrect == Spec => []TypeOK
<1>1. OInv => TypeOK
  <2> SUFFICES ASSUME OInv PROVE TypeOK
    OBVIOUS
  <2>1. order \in Seq(Keys) BY DEF OInv, OrderOK, Aged
  <2>2. expired \in SUBSET Keys BY DEF OInv, OrderOK, Cached
  <2> QED BY <2>1, <2>2 DEF OInv, IInv, DataTypeOK, ReaderStates, TypeOK
<1> QED BY <1>1, OrderInvariant, PTL

\* The cache never holds more than maxCacheEntries entries, every entry is in the
\* order of expiry exactly once and nothing else is, and what has expired comes
\* first in it: Set evicts no good entry while there is one that has expired.
THEOREM CacheIsBounded == Spec => []EntriesOrdered
<1>1. OInv => EntriesOrdered
  BY DEF OInv, OrderOK, Aged, Elements, Cached, EntriesOrdered
<1> QED BY <1>1, OrderInvariant, PTL
=============================================================================
