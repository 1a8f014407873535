----------------------------- MODULE BuildProofs -----------------------------
(***************************************************************************)
(* What the parts of a build guarantee: the parse pool for every number of *)
(* inputs and workers, every set of bad inputs and every interleaving; the *)
(* packages of a tree for all files and every order of the walk; and the   *)
(* nodes of a file for every sequence of captures in the order of its      *)
(* syntax tree.                                                            *)
(***************************************************************************)
EXTENDS ParsePool, Builds, FiniteSetTheorems, TLAPS

-----------------------------------------------------------------------------
\* The parse pool

Stopped == at \in {"stopping", "returned"}

\* The inputs beyond nextSubmit have not been looked at, those before nextEmit are
\* done, and the distance of the two is bounded by the window.
Counters ==
    /\ emitted <= submitted
    /\ submitted - emitted <= Window
    /\ \A i \in Inputs : stage[i] = "waiting" <=> i > submitted
    /\ \A i \in Inputs : i <= emitted => stage[i] = "emitted" /\ result[i] = "ok"
    /\ \A i \in Inputs : i > emitted /\ stage[i] = "emitted" =>
           Stopped /\ i = emitted + 1 /\ outcome.input = i

\* A result is that of its input, or tells of a context that was done.
ResultsTrue ==
    \A i \in Inputs :
        /\ stage[i] \notin {"waiting", "parsing"} => result[i] # "none"
        /\ result[i] = "ok" => i \notin bad
        /\ result[i] = "bad" => i \in bad
        /\ result[i] = "cancelled" => parentDone \/ Stopped
        /\ stage[i] = "emitted" /\ ~Stopped => result[i] = "ok"

\* What is cancelled was stopped or cancelled by the caller.
CancelledByParent == ~Stopped => (cancelled => parentDone)

\* The pending map never holds the next result when the coordinator waits.
Drained == at \in {"submit", "collect"} => \A i \in At("pending") : i # emitted + 1

Outcomes ==
    /\ ~Stopped <=> outcome = NoOutcome
    /\ outcome.input # 0 => outcome.input = emitted + 1 /\ stage[outcome.input] = "emitted"
    /\ outcome.kind = "ok" => emitted = N
    /\ outcome.kind = "parse" => outcome.input = emitted + 1 /\ outcome.input \in bad
    /\ outcome.kind = "context" => parentDone
    /\ outcome.kind \notin {"stopped", "incomplete"}

IInv == TypeOK /\ Counters /\ ResultsTrue /\ CancelledByParent /\ Drained /\ Outcomes

\* The window is as wide as there are workers.
LEMMA WindowNat == Window \in Nat \ {0}
  BY PoolAssumption, FS_CardinalityType, FS_EmptySet DEF PoolAssumption, Window

-----------------------------------------------------------------------------
\* The invariant holds initially.
LEMMA InitIInv == Init => IInv
<1> SUFFICES ASSUME Init
             PROVE  IInv
  OBVIOUS
<1> USE PoolAssumption, WindowNat DEF Init, Inputs
<1>1. TypeOK
  <2>1. 0 \in 0 .. N
    BY DEF PoolAssumption
  <2>2. outcome \in [kind : {"none", "ok", "parse", "emit", "context", "stopped", "incomplete"},
                     input : 0 .. N]
    BY <2>1 DEF NoOutcome
  <2>3. stage \in [Inputs -> Stages] /\ result \in [Inputs -> Results]
    BY DEF Stages, Results
  <2>4. job \in [Workers -> Inputs \union {Free, Gone}]
    OBVIOUS
  <2>5. QED
    BY <2>1, <2>2, <2>3, <2>4 DEF TypeOK
<1>2. Counters /\ ResultsTrue
  BY DEF Counters, ResultsTrue, Stopped
<1>3. CancelledByParent /\ Drained
  BY DEF CancelledByParent, Drained, At
<1>4. Outcomes
  BY DEF Outcomes, Stopped, NoOutcome
<1>5. QED
  BY <1>1, <1>2, <1>3, <1>4 DEF IInv

\* A submission moves nextSubmit within the window.
LEMMA SubmitIInv ==
    ASSUME IInv, NEW w \in Workers, Submit(w)
    PROVE  IInv'
<1> USE PoolAssumption, WindowNat DEF IInv, TypeOK, Inputs, Stages, Results, Submit, WindowOpen
<1>1. TypeOK'
  BY DEF NoOutcome
<1>2. Counters'
  BY DEF Counters, Stopped, Outcomes
<1>3. ResultsTrue'
  BY DEF ResultsTrue, Stopped, Counters
<1>4. CancelledByParent'
  BY DEF CancelledByParent, Stopped
<1>5. Drained'
  BY DEF Drained, At, Counters, Stopped
<1>6. Outcomes'
  BY DEF Outcomes, Stopped, NoOutcome, Counters, ResultsTrue, CancelledByParent
<1>7. QED
  BY <1>1, <1>2, <1>3, <1>4, <1>5, <1>6

\* Before stopWorkers only the caller can have cancelled the context.
LEMMA SubmitCancelledIInv ==
    ASSUME IInv, SubmitCancelled
    PROVE  IInv'
<1> USE PoolAssumption, WindowNat DEF IInv, TypeOK, Inputs, Stages, Results, SubmitCancelled, Stop, StopReason
<1>1. TypeOK'
  BY DEF NoOutcome
<1>2. Counters'
  BY DEF Counters, Stopped, Outcomes
<1>3. ResultsTrue'
  BY DEF ResultsTrue, Stopped, Counters
<1>4. CancelledByParent'
  BY DEF CancelledByParent, Stopped
<1>5. Drained'
  BY DEF Drained, At, Counters, Stopped
<1>6. Outcomes'
  BY DEF Outcomes, Stopped, NoOutcome, Counters, ResultsTrue, CancelledByParent
<1>7. QED
  BY <1>1, <1>2, <1>3, <1>4, <1>5, <1>6

\* The coordinator goes on to wait for a result.
LEMMA SubmitDoneIInv ==
    ASSUME IInv, SubmitDone
    PROVE  IInv'
<1> USE PoolAssumption, WindowNat DEF IInv, TypeOK, Inputs, Stages, Results, SubmitDone
<1>1. TypeOK'
  BY DEF NoOutcome
<1>2. Counters'
  BY DEF Counters, Stopped, Outcomes
<1>3. ResultsTrue'
  BY DEF ResultsTrue, Stopped, Counters
<1>4. CancelledByParent'
  BY DEF CancelledByParent, Stopped
<1>5. Drained'
  BY DEF Drained, At, Counters, Stopped
<1>6. Outcomes'
  BY DEF Outcomes, Stopped, NoOutcome, Counters, ResultsTrue, CancelledByParent
<1>7. QED
  BY <1>1, <1>2, <1>3, <1>4, <1>5, <1>6

\* When nothing is in flight everything has been emitted.
LEMMA FinishIInv ==
    ASSUME IInv, Finish
    PROVE  IInv'
<1> USE PoolAssumption, WindowNat DEF IInv, TypeOK, Inputs, Stages, Results, Finish, Stop, WindowOpen, InFlight, At
<1>1. TypeOK'
  BY DEF NoOutcome
<1>2. Counters'
  BY DEF Counters, Stopped, Outcomes
<1>3. ResultsTrue'
  BY DEF ResultsTrue, Stopped, Counters
<1>4. CancelledByParent'
  BY DEF CancelledByParent, Stopped
<1>5. Drained'
  BY DEF Drained, At, Counters, Stopped
<1>6. Outcomes'
  <2>1. emitted = N
    <3> SUFFICES ASSUME emitted # N
                 PROVE  FALSE
      OBVIOUS
    <3> DEFINE i == emitted + 1
    <3>1. i \in Inputs /\ i <= submitted
      BY DEF Counters
    <3>2. stage[i] \in {"emitted", "pending"}
      BY <3>1 DEF Counters
    <3>3. stage[i] # "emitted" /\ stage[i] # "pending"
      BY <3>1 DEF Counters, Stopped, Drained
    <3>4. QED
      BY <3>2, <3>3
  <2>2. outcome.input = 0
    BY DEF Outcomes, Stopped, NoOutcome
  <2>3. QED
    BY <2>1, <2>2 DEF Outcomes, Stopped, NoOutcome
<1>7. QED
  BY <1>1, <1>2, <1>3, <1>4, <1>5, <1>6

\* Before stopWorkers only the caller can have cancelled the context.
LEMMA CollectCancelledIInv ==
    ASSUME IInv, CollectCancelled
    PROVE  IInv'
<1> USE PoolAssumption, WindowNat DEF IInv, TypeOK, Inputs, Stages, Results, CollectCancelled, Stop, StopReason
<1>1. TypeOK'
  BY DEF NoOutcome
<1>2. Counters'
  BY DEF Counters, Stopped, Outcomes
<1>3. ResultsTrue'
  BY DEF ResultsTrue, Stopped, Counters
<1>4. CancelledByParent'
  BY DEF CancelledByParent, Stopped
<1>5. Drained'
  BY DEF Drained, At, Counters, Stopped
<1>6. Outcomes'
  BY DEF Outcomes, Stopped, NoOutcome, Counters, ResultsTrue, CancelledByParent
<1>7. QED
  BY <1>1, <1>2, <1>3, <1>4, <1>5, <1>6

\* A received result is pending.
LEMMA ReceiveIInv ==
    ASSUME IInv, NEW i \in Inputs, Receive(i)
    PROVE  IInv'
<1> USE PoolAssumption, WindowNat DEF IInv, TypeOK, Inputs, Stages, Results, Receive
<1>1. TypeOK'
  BY DEF NoOutcome
<1>2. Counters'
  BY DEF Counters, Stopped, Outcomes
<1>3. ResultsTrue'
  BY DEF ResultsTrue, Stopped, Counters
<1>4. CancelledByParent'
  BY DEF CancelledByParent, Stopped
<1>5. Drained'
  BY DEF Drained, At, Counters, Stopped
<1>6. Outcomes'
  BY DEF Outcomes, Stopped, NoOutcome, Counters, ResultsTrue, CancelledByParent
<1>7. QED
  BY <1>1, <1>2, <1>3, <1>4, <1>5, <1>6

\* The next record is emitted.
LEMMA EmitOkIInv ==
    ASSUME IInv, NEW i \in Inputs, EmitOk(i)
    PROVE  IInv'
<1> USE PoolAssumption, WindowNat DEF IInv, TypeOK, Inputs, Stages, Results, EmitOk, NextPending
<1>1. TypeOK'
  BY DEF NoOutcome
<1>2. Counters'
  BY DEF Counters, Stopped, Outcomes
<1>3. ResultsTrue'
  BY DEF ResultsTrue, Stopped, Counters
<1>4. CancelledByParent'
  BY DEF CancelledByParent, Stopped
<1>5. Drained'
  BY DEF Drained, At, Counters, Stopped
<1>6. Outcomes'
  BY DEF Outcomes, Stopped, NoOutcome, Counters, ResultsTrue, CancelledByParent
<1>7. QED
  BY <1>1, <1>2, <1>3, <1>4, <1>5, <1>6

\* emit fails on the next record.
LEMMA EmitFailsIInv ==
    ASSUME IInv, NEW i \in Inputs, EmitFails(i)
    PROVE  IInv'
<1> USE PoolAssumption, WindowNat DEF IInv, TypeOK, Inputs, Stages, Results, EmitFails, NextPending, Stop
<1>1. TypeOK'
  BY DEF NoOutcome
<1>2. Counters'
  BY DEF Counters, Stopped, Outcomes
<1>3. ResultsTrue'
  BY DEF ResultsTrue, Stopped, Counters
<1>4. CancelledByParent'
  BY DEF CancelledByParent, Stopped
<1>5. Drained'
  BY DEF Drained, At, Counters, Stopped
<1>6. Outcomes'
  BY DEF Outcomes, Stopped, NoOutcome, Counters, ResultsTrue, CancelledByParent
<1>7. QED
  BY <1>1, <1>2, <1>3, <1>4, <1>5, <1>6

\* The next result is an error.
LEMMA ParseFailedIInv ==
    ASSUME IInv, NEW i \in Inputs, ParseFailed(i)
    PROVE  IInv'
<1> USE PoolAssumption, WindowNat DEF IInv, TypeOK, Inputs, Stages, Results, ParseFailed, NextPending, Stop
<1>1. TypeOK'
  BY DEF NoOutcome
<1>2. Counters'
  BY DEF Counters, Stopped, Outcomes
<1>3. ResultsTrue'
  BY DEF ResultsTrue, Stopped, Counters
<1>4. CancelledByParent'
  BY DEF CancelledByParent, Stopped
<1>5. Drained'
  BY DEF Drained, At, Counters, Stopped
<1>6. Outcomes'
  BY DEF Outcomes, Stopped, NoOutcome, Counters, ResultsTrue, CancelledByParent
<1>7. QED
  BY <1>1, <1>2, <1>3, <1>4, <1>5, <1>6

\* The next result has not arrived.
LEMMA DrainDoneIInv ==
    ASSUME IInv, DrainDone
    PROVE  IInv'
<1> USE PoolAssumption, WindowNat DEF IInv, TypeOK, Inputs, Stages, Results, DrainDone, NextPending
<1>1. TypeOK'
  BY DEF NoOutcome
<1>2. Counters'
  BY DEF Counters, Stopped, Outcomes
<1>3. ResultsTrue'
  BY DEF ResultsTrue, Stopped, Counters
<1>4. CancelledByParent'
  BY DEF CancelledByParent, Stopped
<1>5. Drained'
  BY DEF Drained, At, Counters, Stopped
<1>6. Outcomes'
  BY DEF Outcomes, Stopped, NoOutcome, Counters, ResultsTrue, CancelledByParent
<1>7. QED
  BY <1>1, <1>2, <1>3, <1>4, <1>5, <1>6

\* The call returns.
LEMMA ReturnIInv ==
    ASSUME IInv, Return
    PROVE  IInv'
<1> USE PoolAssumption, WindowNat DEF IInv, TypeOK, Inputs, Stages, Results, Return
<1>1. TypeOK'
  BY DEF NoOutcome
<1>2. Counters'
  BY DEF Counters, Stopped, Outcomes
<1>3. ResultsTrue'
  BY DEF ResultsTrue, Stopped, Counters
<1>4. CancelledByParent'
  BY DEF CancelledByParent, Stopped
<1>5. Drained'
  BY DEF Drained, At, Counters, Stopped
<1>6. Outcomes'
  BY DEF Outcomes, Stopped, NoOutcome, Counters, ResultsTrue, CancelledByParent
<1>7. QED
  BY <1>1, <1>2, <1>3, <1>4, <1>5, <1>6

\* A worker parses what was submitted and touches nothing else.
LEMMA WorkerIInv ==
    ASSUME IInv, NEW w \in Workers, WorkerStep(w)
    PROVE  IInv'
<1> USE PoolAssumption, WindowNat DEF IInv, TypeOK, Inputs, Stages, Results, WorkerStep, Parse, ParseResults, Send, SendCancelled, Leave
<1>1. TypeOK'
  <2>1. CASE Parse(w)
    BY <2>1 DEF NoOutcome
  <2>2. CASE Send(w)
    BY <2>2 DEF NoOutcome
  <2>3. CASE SendCancelled(w)
    BY <2>3 DEF NoOutcome
  <2>4. CASE Leave(w)
    BY <2>4 DEF NoOutcome
  <2>5. QED
    BY <2>1, <2>2, <2>3, <2>4
<1>2. Counters'
  BY DEF Counters, Stopped, Outcomes
<1>3. ResultsTrue'
  <2>1. CASE Parse(w)
    <3>1. \A i \in Inputs \ {job[w]} : result'[i] = result[i] /\ stage'[i] = stage[i]
      BY <2>1
    <3>2. stage'[job[w]] = "parsed" /\ result'[job[w]] \in ParseResults(job[w])
      BY <2>1
    <3>3. cancelled => parentDone \/ Stopped
      BY DEF CancelledByParent
    <3>4. QED
      BY <2>1, <3>1, <3>2, <3>3 DEF ResultsTrue, Stopped
  <2>2. CASE Send(w)
    BY <2>2 DEF ResultsTrue, Stopped
  <2>3. CASE SendCancelled(w)
    BY <2>3 DEF ResultsTrue, Stopped
  <2>4. CASE Leave(w)
    BY <2>4 DEF ResultsTrue, Stopped
  <2>5. QED
    BY <2>1, <2>2, <2>3, <2>4
<1>4. CancelledByParent'
  BY DEF CancelledByParent, Stopped
<1>5. Drained'
  BY DEF Drained, At, Counters, Stopped
<1>6. Outcomes'
  BY DEF Outcomes, Stopped, NoOutcome, Counters, ResultsTrue, CancelledByParent
<1>7. QED
  BY <1>1, <1>2, <1>3, <1>4, <1>5, <1>6

\* The caller cancels.
LEMMA CancelParentIInv ==
    ASSUME IInv, CancelParent
    PROVE  IInv'
<1> USE PoolAssumption, WindowNat DEF IInv, TypeOK, Inputs, Stages, Results, CancelParent
<1>1. TypeOK'
  BY DEF NoOutcome
<1>2. Counters'
  BY DEF Counters, Stopped, Outcomes
<1>3. ResultsTrue'
  BY DEF ResultsTrue, Stopped, Counters
<1>4. CancelledByParent'
  BY DEF CancelledByParent, Stopped
<1>5. Drained'
  BY DEF Drained, At, Counters, Stopped
<1>6. Outcomes'
  BY DEF Outcomes, Stopped, NoOutcome, Counters, ResultsTrue, CancelledByParent
<1>7. QED
  BY <1>1, <1>2, <1>3, <1>4, <1>5, <1>6

-----------------------------------------------------------------------------
\* The invariant holds in every reachable state.
THEOREM Invariance == Spec => []IInv
<1>1. IInv /\ [Next]_vars => IInv'
  <2> SUFFICES ASSUME IInv, [Next]_vars
               PROVE  IInv'
    OBVIOUS
  <2>1. CASE UNCHANGED vars
    BY <2>1
    DEF vars, IInv, TypeOK, Counters, ResultsTrue, CancelledByParent, Drained, Outcomes, Stopped, At
  <2>2. CASE CoordinatorStep
    BY <2>2, SubmitIInv, SubmitCancelledIInv, SubmitDoneIInv, FinishIInv, CollectCancelledIInv,
       ReceiveIInv, EmitOkIInv, EmitFailsIInv, ParseFailedIInv, DrainDoneIInv, ReturnIInv
    DEF CoordinatorStep
  <2>3. QED
    BY <2>1, <2>2, WorkerIInv, CancelParentIInv DEF Next, Terminated
<1>2. QED
  BY <1>1, InitIInv, PTL DEF Spec

\* Every variable of the pool keeps its shape.
THEOREM PoolTypeCorrect == Spec => []TypeOK
  BY Invariance, PTL DEF IInv

\* The inputs whose records may be held are those of the window.
LEMMA HeldInWindow ==
    ASSUME IInv
    PROVE  /\ At("parsed") \union At("sent") \union At("pending") \subseteq emitted + 1 .. submitted
           /\ IsFiniteSet(emitted + 1 .. submitted)
           /\ Cardinality(emitted + 1 .. submitted) <= Window
<1> USE DEF IInv, TypeOK, Counters
<1>1. At("parsed") \union At("sent") \union At("pending") \subseteq emitted + 1 .. submitted
  BY DEF At, Inputs
<1>2. emitted + 1 \in Int /\ submitted \in Int
  BY PoolAssumption DEF PoolAssumption
<1>3. /\ IsFiniteSet(emitted + 1 .. submitted)
      /\ Cardinality(emitted + 1 .. submitted) =
             IF emitted + 1 > submitted THEN 0 ELSE submitted - (emitted + 1) + 1
  BY <1>2, FS_Interval
<1>4. QED
  BY <1>1, <1>2, <1>3, WindowNat

\* The results channel has room for every worker, so that a worker is never stuck
\* in its send and the coordinator may wait in its own.
THEOREM SendsNeverBlock == Spec => []SendNeverBlocks
<1>1. IInv => SendNeverBlocks
  <2> SUFFICES ASSUME IInv, NEW j \in At("parsed")
               PROVE  Cardinality(At("sent")) < Window
    BY DEF SendNeverBlocks
  <2> DEFINE W == emitted + 1 .. submitted
  <2>1. At("sent") \subseteq W \ {j} /\ j \in W
    BY HeldInWindow DEF At
  <2>2. IsFiniteSet(W \ {j}) /\ Cardinality(W \ {j}) = Cardinality(W) - 1
    BY <2>1, HeldInWindow, FS_RemoveElement
  <2>3. Cardinality(At("sent")) <= Cardinality(W \ {j}) /\ IsFiniteSet(At("sent"))
    BY <2>1, <2>2, FS_Subset
  <2>4. Cardinality(W) \in Nat /\ Cardinality(At("sent")) \in Nat
    BY <2>3, HeldInWindow, FS_CardinalityType
  <2>5. QED
    BY <2>2, <2>3, <2>4, HeldInWindow, WindowNat
<1>2. QED
  BY <1>1, Invariance, PTL

\* parseBuildInputs emits the records in input order and holds at most one for
\* each worker.
THEOREM EmitsInOrder == Spec => []OrderedAndBounded
<1>1. IInv => OrderedAndBounded
  <2> SUFFICES ASSUME IInv
               PROVE  OrderedAndBounded
    OBVIOUS
  <2>1. Cardinality(At("parsed") \union At("sent") \union At("pending")) <= Window
    <3> DEFINE H == At("parsed") \union At("sent") \union At("pending")
    <3> DEFINE W == emitted + 1 .. submitted
    <3>1. IsFiniteSet(H) /\ Cardinality(H) <= Cardinality(W)
      BY HeldInWindow, FS_Subset
    <3>2. Cardinality(H) \in Nat /\ Cardinality(W) \in Nat
      BY <3>1, HeldInWindow, FS_CardinalityType
    <3>3. QED
      BY <3>1, <3>2, HeldInWindow, WindowNat
  <2>2. \A i \in Inputs : i <= emitted <=> stage[i] = "emitted" /\ outcome.input # i
    BY DEF IInv, TypeOK, Counters, Outcomes, Inputs
  <2>3. \A i \in 1 .. emitted : result[i] = "ok"
    BY PoolAssumption DEF PoolAssumption, IInv, TypeOK, Counters, Inputs
  <2>4. QED
    BY <2>1, <2>2, <2>3 DEF OrderedAndBounded
<1>2. QED
  BY <1>1, Invariance, PTL

\* Order, bounded memory and free channels hold together.
THEOREM WindowIsRespected == Spec => []WindowRespected
BY EmitsInOrder, SendsNeverBlock, PTL DEF WindowRespected

\* What parseBuildInputs returns does not depend on the interleaving of its workers.
THEOREM DeterministicOutcome == Spec => []OutcomeDeterministic
<1>1. IInv => OutcomeDeterministic
  <2> SUFFICES ASSUME IInv
               PROVE  OutcomeDeterministic
    OBVIOUS
  <2> USE PoolAssumption DEF PoolAssumption, IInv, TypeOK, Inputs, Counters, ResultsTrue, Outcomes
  <2>1. outcome.kind = "ok" => bad = {} /\ At("emitted") = Inputs
    BY DEF At
  <2>2. outcome.kind = "parse" => outcome.input \in bad /\ \A i \in bad : outcome.input <= i
    OBVIOUS
  <2>3. outcome.kind = "context" => parentDone
    OBVIOUS
  <2>4. outcome.kind \notin {"stopped", "incomplete"}
    OBVIOUS
  <2>5. QED
    BY <2>1, <2>2, <2>3, <2>4 DEF OutcomeDeterministic
<1>2. QED
  BY <1>1, Invariance, PTL

-----------------------------------------------------------------------------
\* Induction over numbers

\* A set of natural numbers that is not empty has a least one: the sets 1 .. m are
\* finite, and strict inclusion is well-founded on finite sets.
LEMMA LeastOf == ASSUME NEW T \in SUBSET Nat, T # {} PROVE \E m \in T : \A k \in T : m <= k
<1> DEFINE R == StrictSubsetOrdering(Nat)
           F == FiniteSubsetsOf(Nat)
           U == {1 .. m : m \in T}
<1>1. IsWellFoundedOn(R, F) BY FS_StrictSubsetOrderingWellFounded
<1>2. U \subseteq F
  <2> SUFFICES ASSUME NEW m \in T PROVE 1 .. m \in F OBVIOUS
  <2>1. IsFiniteSet(1 .. m) BY FS_Interval
  <2>2. 1 .. m \in SUBSET Nat OBVIOUS
  <2> QED BY <2>1, <2>2 DEF FiniteSubsetsOf
<1>3. U # {} OBVIOUS
<1>4. PICK u \in U : \A y \in U : <<y, u>> \notin R
  <2> HIDE DEF R, F, U
  <2> QED BY <1>1, <1>2, <1>3, WFMin
<1>5. PICK m \in T : u = 1 .. m OBVIOUS
<1>6. ASSUME NEW k \in T, k < m PROVE FALSE
  <2>1. <<1 .. k, u>> \notin R BY <1>4
  <2>2. 1 .. k \subseteq u BY <1>5, <1>6
  <2>3. m \in u /\ m \notin 1 .. k BY <1>5, <1>6
  <2>4. 1 .. k \in SUBSET Nat /\ u \in SUBSET Nat BY <1>5
  <2>5. <<1 .. k, u>> \in (SUBSET Nat) \X (SUBSET Nat) BY <2>4
  <2> QED BY <2>1, <2>2, <2>3, <2>5, Zenon DEF StrictSubsetOrdering
<1> QED BY <1>6

\* Induction over the natural numbers, for a set.
LEMMA SetInduction == ASSUME NEW S \in SUBSET Nat, 0 \in S, \A n \in S : n + 1 \in S PROVE S = Nat
<1> SUFFICES ASSUME Nat \ S # {} PROVE FALSE OBVIOUS
<1>1. PICK m \in Nat \ S : \A k \in Nat \ S : m <= k BY LeastOf
<1>2. m # 0 BY <1>1
<1>3. m - 1 \in Nat BY <1>2, <1>1
<1>4. m - 1 \in S BY <1>3, <1>1
<1>5. m \in S BY <1>4, <1>3
<1> QED BY <1>5, <1>1

\* The same up to a bound.
LEMMA UpToInduction ==
    ASSUME NEW K \in Nat, NEW S, 0 \in S, \A i \in 1 .. K : i - 1 \in S => i \in S
    PROVE  0 .. K \subseteq S
<1> DEFINE T == {i \in Nat : i \in 0 .. K => i \in S}
<1>1. 0 \in T OBVIOUS
<1>2. ASSUME NEW n \in T PROVE n + 1 \in T
  <2>1. n \in Nat /\ n + 1 \in Nat OBVIOUS
  <2>2. CASE n + 1 \in 0 .. K
    <3>1. n \in 0 .. K /\ n + 1 \in 1 .. K /\ (n + 1) - 1 = n BY <2>1, <2>2
    <3>2. n \in S BY <3>1
    <3> QED BY <3>1, <3>2, <2>1
  <2> QED BY <2>1, <2>2
<1>3. T = Nat
  <2>1. T \in SUBSET Nat OBVIOUS
  <2> HIDE DEF T
  <2> QED BY <1>1, <1>2, <2>1, SetInduction
<1> QED BY <1>3

\* The function on 0 .. K that starts with b and goes on with F[i] at i.
Recurs(g, D, b, K, F) ==
    g \in [0 .. K -> D] /\ g[0] = b /\ \A i \in 1 .. K : g[i] = F[i][g[i - 1]]

\* There is such a function, for every step that stays in D.
LEMMA Recursion ==
    ASSUME NEW D, NEW b \in D, NEW n \in Nat, NEW F \in [1 .. n -> [D -> D]]
    PROVE  \E g : Recurs(g, D, b, n, F)
<1> DEFINE S == {k \in 0 .. n : \E g : Recurs(g, D, b, k, F)}
<1>1. 0 \in S
  <2> DEFINE g == [i \in 0 .. 0 |-> b]
  <2>1. Recurs(g, D, b, 0, F) BY DEF Recurs
  <2> HIDE DEF g
  <2> QED BY <2>1
<1>2. ASSUME NEW k \in 1 .. n, k - 1 \in S PROVE k \in S
  <2>1. PICK g : Recurs(g, D, b, k - 1, F) BY <1>2
  <2> DEFINE h == [i \in 0 .. k |-> IF i = k THEN F[k][g[k - 1]] ELSE g[i]]
  <2>2. F[k][g[k - 1]] \in D BY <2>1 DEF Recurs
  <2>3. h \in [0 .. k -> D] BY <2>1, <2>2 DEF Recurs
  <2>4. h[0] = b BY <2>1 DEF Recurs
  <2>5. ASSUME NEW i \in 1 .. k PROVE h[i] = F[i][h[i - 1]]
    <3>1. h[i - 1] = g[i - 1] OBVIOUS
    <3>2. CASE i = k BY <3>1, <3>2
    <3>3. CASE i # k
      <4>1. i \in 1 .. k - 1 BY <3>3
      <4>2. g[i] = F[i][g[i - 1]] BY <2>1, <4>1 DEF Recurs
      <4>3. h[i] = g[i] BY <3>3
      <4> QED BY <3>1, <4>2, <4>3
    <3> QED BY <3>2, <3>3
  <2>6. Recurs(h, D, b, k, F)
    <3> HIDE DEF h
    <3> QED BY <2>3, <2>4, <2>5 DEF Recurs
  <2> HIDE DEF h
  <2> QED BY <2>6
<1>3. 0 .. n \subseteq S
  <2> HIDE DEF S
  <2> QED BY <1>1, <1>2, UpToInduction
<1> QED BY <1>3

-----------------------------------------------------------------------------
\* What every answer of a build is

\* The state: before an answer there is nothing to say; an answer is computed
\* from what there is and from the request.
WorkedRight ==
    /\ given.of = "packages" =>
          /\ given.has \in GivenPackages
          /\ asked # <<>> => Reply.found = {CollectLanguagePackages(given.has.repo, Languages, w) :
                                               w \in Walks(given.has.files)}
    /\ given.of = "source" =>
          /\ given.has \in GivenFiles
          /\ asked # <<>> => \E source \in Readings(given.has) : answer = <<StoreFile(StoredFile, source, "")>>

\* No step leaves it.
LEMMA WorkedRightInvariant == BuildSpec => []WorkedRight
<1>1. Unasked /\ Built => WorkedRight BY DEF Unasked, Built, WorkedRight
<1>2. WorkedRight /\ [Work]_<<given, asked, answer>> => WorkedRight'
  <2> SUFFICES ASSUME WorkedRight, [Work]_<<given, asked, answer>> PROVE WorkedRight'
    OBVIOUS
  <2>1. CASE given.of = "packages" /\ UpdatePackageFiles
    <3> DEFINE g == given.has
               found == {CollectLanguagePackages(g.repo, Languages, w) : w \in Walks(g.files)}
    <3>1. PICK before \in g.before :
              Handle(before,
                     [found |-> found,
                      built |-> BuildPackages(g.repo, Languages, g.files),
                      stored |-> StoredSince(before),
                      updated |-> StoredSince(Append(before, [repo |-> g.repo, files |-> g.files]))])
      BY <2>1, Zenon DEF UpdatePackageFiles
    <3> HIDE DEF found
    <3>2. given' = given /\ answer'[1].found = found BY <3>1 DEF Handle
    <3>3. Reply'.found = {CollectLanguagePackages(given'.has.repo, Languages, w) : w \in Walks(given'.has.files)}
      BY <3>2 DEF found, Reply
    <3> QED BY <2>1, <3>2, <3>3 DEF WorkedRight
  <2>2. CASE given.of = "source" /\ ParseFile
    <3>1. PICK source \in Readings(given.has) : Handle(source, StoreFile(StoredFile, source, ""))
      BY <2>2, Zenon DEF ParseFile
    <3> QED BY <3>1, <2>2 DEF WorkedRight, Handle
  <2>3. CASE UNCHANGED <<given, asked, answer>>
    BY <2>3 DEF WorkedRight, Reply
  <2> QED BY <2>1, <2>2, <2>3 DEF Work
<1> QED BY <1>1, <1>2, PTL DEF BuildSpec

-----------------------------------------------------------------------------
\* Packages that files declare one by one

IsPackage(p) ==
    p = [path |-> p.path, name |-> p.name, dir |-> p.dir, lang |-> p.lang, files |-> p.files]

\* No two packages of the set have the same path.
OnePerPath(P) == \A p, q \in P : p.path = q.path => p = q

\* The files of all packages with a path, and a package with other files.
FilesOf(P, path) == UNION {q.files : q \in {o \in P : o.path = path}}
WithFiles(p, files) ==
    [path |-> p.path, name |-> p.name, dir |-> p.dir, lang |-> p.lang, files |-> files]

\* What is found when the declarations are P, whatever their order.
Merged(P) ==
    [packages |-> {WithFiles(p, FilesOf(P, p.path)) : p \in AgreedIn(P)},
     ambiguous |-> {p.path : p \in P \ AgreedIn(P)}]

LEMMA WithFilesIs ==
    ASSUME NEW p, NEW files
    PROVE  /\ IsPackage(WithFiles(p, files))
           /\ WithFiles(p, files).path = p.path /\ WithFiles(p, files).name = p.name
           /\ WithFiles(p, files).dir = p.dir /\ WithFiles(p, files).lang = p.lang
           /\ WithFiles(p, files).files = files
           /\ \A q : Agree(q, WithFiles(p, files)) <=> Agree(q, p)
<1> DEFINE w == WithFiles(p, files)
<1>1. /\ w.path = p.path /\ w.name = p.name /\ w.dir = p.dir /\ w.lang = p.lang /\ w.files = files
      /\ w = [path |-> w.path, name |-> w.name, dir |-> w.dir, lang |-> w.lang, files |-> w.files]
  BY DEF WithFiles
<1> HIDE DEF w
<1>2. IsPackage(w) BY <1>1, Zenon DEF IsPackage
<1>3. \A q : Agree(q, w) <=> Agree(q, p) BY <1>1 DEF Agree
<1> QED BY <1>1, <1>2, <1>3 DEF w

LEMMA JoinedIs ==
    ASSUME NEW p, IsPackage(p), NEW known
    PROVE  Joined(p, known) = WithFiles(p, p.files \union UNION {q.files : q \in known})
<1> DEFINE files == p.files \union UNION {q.files : q \in known}
<1>1. Joined(p, known) = [p EXCEPT !.files = files] BY DEF Joined
<1> HIDE DEF files
<1>2. [p EXCEPT !.files = files] = WithFiles(p, files)
  <2> DEFINE P == p.path  K == p.name  D == p.dir  L == p.lang  F == p.files
  <2>1. p = [path |-> P, name |-> K, dir |-> D, lang |-> L, files |-> F] BY DEF IsPackage
  <2> HIDE DEF P, K, D, L, F
  <2>2. [p EXCEPT !.files = files] = [path |-> P, name |-> K, dir |-> D, lang |-> L, files |-> files]
    BY <2>1
  <2> QED BY <2>2 DEF P, K, D, L, F, WithFiles
<1> QED BY <1>1, <1>2 DEF files

\* What is found are packages, one for each path on which all agree.
LEMMA MergedIs ==
    ASSUME NEW P
    PROVE  /\ \A p \in Merged(P).packages : IsPackage(p)
           /\ OnePerPath(Merged(P).packages)
           /\ \A t : t \in Merged(P).ambiguous <=> \E p \in P \ AgreedIn(P) : p.path = t
           /\ \A q : q \in Merged(P).packages <=>
                        \E p \in AgreedIn(P) : q = WithFiles(p, FilesOf(P, p.path))
<1> DEFINE m == Merged(P)
<1>1. /\ m.packages = {WithFiles(p, FilesOf(P, p.path)) : p \in AgreedIn(P)}
      /\ m.ambiguous = {p.path : p \in P \ AgreedIn(P)}
  BY DEF Merged
<1> HIDE DEF m
<1>2. ASSUME NEW p \in m.packages PROVE IsPackage(p) BY <1>1, WithFilesIs
<1>3. ASSUME NEW p \in m.packages, NEW q \in m.packages, p.path = q.path PROVE p = q
  <2>1. PICK a \in AgreedIn(P) : p = WithFiles(a, FilesOf(P, a.path)) BY <1>1
  <2>2. PICK b \in AgreedIn(P) : q = WithFiles(b, FilesOf(P, b.path)) BY <1>1
  <2>3. a.path = b.path BY <1>3, <2>1, <2>2, WithFilesIs
  <2>4. Agree(a, b) BY <2>3 DEF AgreedIn
  <2> QED BY <2>1, <2>2, <2>3, <2>4 DEF Agree, WithFiles
<1>4. OnePerPath(m.packages) BY <1>3, Zenon DEF OnePerPath
<1> QED BY <1>1, <1>2, <1>4 DEF m

\* One more declaration of each path is remembered as if all came together.
LEMMA RememberMerges ==
    ASSUME NEW P, NEW K, \A p \in K : IsPackage(p), OnePerPath(K)
    PROVE  Remember(Merged(P), K) = Merged(P \union K)
<1> DEFINE old == Merged(P)
           all == P \union K
           open == {p \in K : p.path \notin old.ambiguous}
           Known(p) == {q \in old.packages : q.path = p.path}
           agreed == {p \in open : \A q \in Known(p) : Agree(p, q)}
           packages == {q \in old.packages : \A p \in open : q.path # p.path}
                       \union {Joined(p, Known(p)) : p \in agreed}
           ambiguous == old.ambiguous \union {p.path : p \in open \ agreed}
<1>1. Remember(old, K) = [packages |-> packages, ambiguous |-> ambiguous] BY DEF Remember
<1>2. \A t : t \in old.ambiguous <=> \E p \in P \ AgreedIn(P) : p.path = t BY MergedIs
<1>3. \A q : q \in old.packages <=> \E p \in AgreedIn(P) : q = WithFiles(p, FilesOf(P, p.path))
  BY MergedIs
<1> HIDE DEF old
\* A path that is not ambiguous has one package, with which all agree.
<1>4. ASSUME NEW p \in P, p.path \notin old.ambiguous
      PROVE  p \in AgreedIn(P) /\ WithFiles(p, FilesOf(P, p.path)) \in old.packages
  <2>1. p \in AgreedIn(P) BY <1>2, <1>4
  <2> QED BY <1>3, <2>1
<1>5. ASSUME NEW n \in open
      PROVE  /\ UNION {q.files : q \in Known(n)} = FilesOf(P, n.path)
             /\ (\A q \in Known(n) : Agree(n, q)) <=> (\A p \in P : p.path = n.path => Agree(n, p))
  <2>1. ASSUME NEW q \in Known(n)
        PROVE  \E p \in P : p.path = n.path /\ q = WithFiles(p, FilesOf(P, n.path))
    <3>1. q.path = n.path OBVIOUS
    <3>2. PICK p \in AgreedIn(P) : q = WithFiles(p, FilesOf(P, p.path)) BY <1>3
    <3>3. p.path = n.path BY <3>1, <3>2, WithFilesIs
    <3>4. p \in P BY DEF AgreedIn
    <3> QED BY <3>2, <3>3, <3>4
  <2>2. ASSUME NEW p \in P, p.path = n.path PROVE WithFiles(p, FilesOf(P, n.path)) \in Known(n)
    <3>1. WithFiles(p, FilesOf(P, p.path)) \in old.packages BY <1>4, <2>2
    <3> QED BY <2>2, <3>1, WithFilesIs
  <2> HIDE DEF Known
  <2>3. \A q \in Known(n) : q.files = FilesOf(P, n.path) BY <2>1, WithFilesIs
  <2>4. FilesOf(P, n.path) # {} => Known(n) # {} BY <2>2 DEF FilesOf
  <2>5. UNION {q.files : q \in Known(n)} = FilesOf(P, n.path) BY <2>3, <2>4
  <2>6. (\A q \in Known(n) : Agree(n, q)) <=> (\A p \in P : p.path = n.path => Agree(n, p))
    BY <2>1, <2>2, WithFilesIs
  <2> QED BY <2>5, <2>6
<1>6. ASSUME NEW n \in open
      PROVE  /\ n \in agreed <=> n \in AgreedIn(all)
             /\ Joined(n, Known(n)) = WithFiles(n, FilesOf(all, n.path))
  <2>1. n \in K /\ \A q \in K : q.path = n.path => q = n BY DEF OnePerPath
  <2>2. n \in agreed <=> \A p \in P : p.path = n.path => Agree(n, p) BY <1>5
  <2>3. n \in AgreedIn(all) <=> \A q \in all : q.path = n.path => Agree(n, q) BY <2>1 DEF AgreedIn
  <2>4. Agree(n, n) BY DEF Agree
  <2>5. n \in agreed <=> n \in AgreedIn(all) BY <2>1, <2>2, <2>3, <2>4
  <2>6. Joined(n, Known(n)) = WithFiles(n, n.files \union FilesOf(P, n.path))
    <3> HIDE DEF Known
    <3>1. Joined(n, Known(n)) = WithFiles(n, n.files \union UNION {q.files : q \in Known(n)})
      BY <2>1, JoinedIs
    <3> QED BY <1>5, <3>1
  <2>7. n.files \union FilesOf(P, n.path) = FilesOf(all, n.path)
    <3> HIDE DEF open
    <3> QED BY <2>1 DEF FilesOf
  <2> QED BY <2>5, <2>6, <2>7
\* The packages
<1>7. ASSUME NEW q \in packages PROVE q \in Merged(all).packages
  <2>1. CASE q \in old.packages /\ \A p \in open : q.path # p.path
    <3>1. PICK p \in AgreedIn(P) : q = WithFiles(p, FilesOf(P, p.path)) BY <1>3, <2>1
    <3>2. p \in P /\ \A o \in P : o.path = p.path => Agree(p, o) /\ o \in AgreedIn(P)
      BY DEF AgreedIn, Agree
    <3>3. p.path \notin old.ambiguous BY <1>2, <3>2
    <3>4. \A n \in K : n.path # p.path BY <2>1, <3>1, <3>3, WithFilesIs
    <3>5. p \in AgreedIn(all) BY <3>2, <3>4 DEF AgreedIn
    <3>6. FilesOf(P, p.path) = FilesOf(all, p.path) BY <3>4 DEF FilesOf
    <3> QED BY <3>1, <3>5, <3>6, MergedIs
  <2>2. CASE ~(q \in old.packages /\ \A p \in open : q.path # p.path)
    <3>1. PICK n \in agreed : q = Joined(n, Known(n)) BY <2>2
    <3>2. n \in open OBVIOUS
    <3> HIDE DEF Known, open
    <3>3. n \in AgreedIn(all) /\ q = WithFiles(n, FilesOf(all, n.path)) BY <1>6, <3>1, <3>2
    <3> QED BY <3>3, MergedIs
  <2> QED BY <2>1, <2>2
<1>8. ASSUME NEW q \in Merged(all).packages PROVE q \in packages
  <2>1. PICK p \in AgreedIn(all) : q = WithFiles(p, FilesOf(all, p.path)) BY MergedIs
  <2>2. p \in all /\ \A o \in all : o.path = p.path => Agree(p, o) BY DEF AgreedIn
  <2>3. p.path \notin old.ambiguous
    <3> SUFFICES ASSUME p.path \in old.ambiguous PROVE FALSE OBVIOUS
    <3>1. PICK o \in P \ AgreedIn(P) : o.path = p.path BY <1>2
    <3>2. PICK u \in P : u.path = o.path /\ ~Agree(o, u) BY DEF AgreedIn
    <3>3. Agree(p, o) /\ Agree(p, u) BY <2>2, <3>1, <3>2
    <3> QED BY <3>2, <3>3 DEF Agree
  <2>4. CASE \E n \in K : n.path = p.path
    <3>1. PICK n \in K : n.path = p.path BY <2>4
    <3>2. n \in open /\ Agree(p, n) BY <2>2, <2>3, <3>1
    <3>3. n \in AgreedIn(all) BY <2>2, <3>1, <3>2 DEF AgreedIn, Agree
    <3>4. q = WithFiles(n, FilesOf(all, n.path)) BY <2>1, <3>1, <3>2 DEF Agree, WithFiles
    <3>5. n \in agreed /\ q = Joined(n, Known(n))
      <4> HIDE DEF open, agreed, Known
      <4> QED BY <1>6, <3>2, <3>3, <3>4
    <3> HIDE DEF agreed, Known
    <3> QED BY <3>5
  <2>5. CASE ~(\E n \in K : n.path = p.path)
    <3>1. p \in P /\ p \in AgreedIn(P) BY <2>2, <2>5 DEF AgreedIn
    <3>2. FilesOf(P, p.path) = FilesOf(all, p.path) BY <2>5 DEF FilesOf
    <3>3. q \in old.packages BY <1>3, <2>1, <3>1, <3>2
    <3>4. \A n \in open : q.path # n.path BY <2>1, <2>5, WithFilesIs
    <3> HIDE DEF open, agreed, Known
    <3> QED BY <3>3, <3>4
  <2> QED BY <2>4, <2>5
<1>9. packages = Merged(all).packages
  <2> HIDE DEF packages, all
  <2> QED BY <1>7, <1>8
\* The ambiguous paths
<1>10. ASSUME NEW t \in ambiguous PROVE t \in Merged(all).ambiguous
  <2>1. CASE t \in old.ambiguous
    <3>1. PICK p \in P \ AgreedIn(P) : p.path = t BY <1>2, <2>1
    <3>2. p \in all \ AgreedIn(all) BY DEF AgreedIn
    <3> QED BY <3>1, <3>2, MergedIs
  <2>2. CASE t \notin old.ambiguous
    <3>1. PICK n \in open \ agreed : n.path = t BY <2>2
    <3>2. n \in all OBVIOUS
    <3>3. n \notin AgreedIn(all)
      <4> HIDE DEF agreed, Known, open, all
      <4> QED BY <1>6, <3>1
    <3> HIDE DEF all
    <3> QED BY <3>1, <3>2, <3>3, MergedIs
  <2> QED BY <2>1, <2>2
<1>11. ASSUME NEW t \in Merged(all).ambiguous PROVE t \in ambiguous
  <2>1. PICK p \in all \ AgreedIn(all) : p.path = t BY MergedIs
  <2>2. PICK q \in all : q.path = t /\ ~Agree(p, q) BY <2>1 DEF AgreedIn
  <2>3. CASE t \in old.ambiguous BY <2>3
  <2>4. CASE t \notin old.ambiguous
    <3>1. \A o, u \in P : o.path = t /\ u.path = t => Agree(o, u) BY <1>2, <2>4 DEF AgreedIn
    <3>2. PICK n \in K : n.path = t BY <2>1, <2>2, <3>1
    <3>3. \A o \in K : o.path = t => o = n BY <3>2 DEF OnePerPath
    <3>4. n \in open BY <2>4, <3>2
    <3>5. n \notin AgreedIn(all)
      <4> SUFFICES ASSUME n \in AgreedIn(all) PROVE FALSE OBVIOUS
      <4>1. Agree(n, p) /\ Agree(n, q) BY <2>1, <2>2, <3>2 DEF AgreedIn
      <4> QED BY <2>2, <4>1 DEF Agree
    <3>6. n \notin agreed
      <4> HIDE DEF agreed, Known, open, all
      <4> QED BY <1>6, <3>4, <3>5
    <3> HIDE DEF agreed, open
    <3> QED BY <3>2, <3>4, <3>6
  <2> QED BY <2>3, <2>4
<1>12. ambiguous = Merged(all).ambiguous
  <2> HIDE DEF ambiguous, all
  <2> QED BY <1>10, <1>11
<1>13. Merged(all) = [packages |-> Merged(all).packages, ambiguous |-> Merged(all).ambiguous]
  BY DEF Merged
<1> HIDE DEF packages, ambiguous
<1> QED BY <1>1, <1>9, <1>12, <1>13, Zenon DEF old, all

\* What one file declares.
LEMMA PackagesOfFileAre ==
    ASSUME NEW repo, NEW f
    PROVE  /\ \A p \in PackagesOfFile(repo, f) :
                 /\ IsPackage(p) /\ p.lang = f.lang /\ p.files = {f.path}
                 /\ f.lang \in NodeLanguages => p.path \in NodePaths(repo, f) /\ p.dir = Dir(f.path)
           /\ OnePerPath(PackagesOfFile(repo, f))
<1> DEFINE files == PackagesOfFile(repo, f)
           Is(P) == /\ \A p \in P : IsPackage(p) /\ p.lang = f.lang /\ p.files = {f.path}
                    /\ OnePerPath(P)
<1>1. ASSUME NEW path, NEW name, NEW dir
      PROVE  LET p == Declared(path, name, dir, f)
             IN  IsPackage(p) /\ p.lang = f.lang /\ p.files = {f.path} /\ p.path = path /\ p.dir = dir
  BY DEF Declared, IsPackage
<1>2. Is({}) BY DEF OnePerPath
<1>3. ASSUME NEW path, NEW name, NEW dir PROVE Is({Declared(path, name, dir, f)})
  BY <1>1 DEF OnePerPath
<1>4. ASSUME NEW paths, NEW name, NEW dir PROVE Is({Declared(p, name, dir, f) : p \in paths})
  <2> DEFINE D(p) == Declared(p, name, dir, f)
  <2>1. \A p : IsPackage(D(p)) /\ D(p).lang = f.lang /\ D(p).files = {f.path} /\ D(p).path = p
    BY <1>1
  <2> HIDE DEF D
  <2>2. OnePerPath({D(p) : p \in paths}) BY <2>1 DEF OnePerPath
  <2>3. Is({D(p) : p \in paths}) BY <2>1, <2>2
  <2> QED BY <2>3 DEF D
<1>5. Is(PythonPackages(f))
  <2> HIDE DEF Is
  <2> QED BY <1>2, <1>3 DEF PythonPackages
<1>6. Is(GoPackages(repo.module, f))
  <2> HIDE DEF Is
  <2> QED BY <1>2, <1>3 DEF GoPackages
<1>7. Is(JvmPackages(f))
  <2> HIDE DEF Is
  <2> QED BY <1>2, <1>3 DEF JvmPackages
<1>8. Is(NodePackages(repo, f))
  <2> HIDE DEF Is
  <2> QED BY <1>2, <1>4 DEF NodePackages
<1>9. \A p \in NodePackages(repo, f) : p.path \in NodePaths(repo, f) /\ p.dir = Dir(f.path)
  BY <1>1 DEF NodePackages
<1>10. Is(files)
  <2> HIDE DEF Is
  <2> QED BY <1>2, <1>5, <1>6, <1>7, <1>8 DEF PackagesOfFile
<1>11. f.lang \in NodeLanguages => files = NodePackages(repo, f)
  BY DEF PackagesOfFile, NodeLanguages, JvmLanguages
<1> HIDE DEF files
<1> QED BY <1>9, <1>10, <1>11 DEF files

\* What the first i files of a language declare.
DeclaredUpTo(repo, files, lang, i) ==
    UNION {PackagesOfFile(repo, files[j]) : j \in {k \in 1 .. i : files[k].lang = lang}}

LEMMA DiscoveriesAre ==
    ASSUME NEW repo, NEW lang, NEW E, NEW files \in Seq(E)
    PROVE  DiscoverPackages(repo, lang, files) = Merged(DeclaredBy(repo, files, lang)).packages
<1> DEFINE n == Len(files)
           U(i) == DeclaredUpTo(repo, files, lang, i)
           Step(known, i) == IF files[i].lang # lang THEN known
                             ELSE Remember(known, PackagesOfFile(repo, files[i]))
           v == CHOOSE found : found = [i \in 0 .. n |->
                    IF i = 0 THEN Nothing
                    ELSE IF files[i].lang # lang THEN found[i - 1]
                    ELSE Remember(found[i - 1], PackagesOfFile(repo, files[i]))]
           g == [i \in 0 .. n |-> Merged(U(i))]
<1>1. n \in Nat /\ DOMAIN files = 1 .. n OBVIOUS
<1> HIDE DEF n
<1>2. Merged(U(0)) = Nothing
  <2>1. U(0) = {} BY DEF DeclaredUpTo
  <2> HIDE DEF U
  <2>2. AgreedIn({}) = {} BY DEF AgreedIn
  <2> QED BY <2>1, <2>2 DEF Merged, Nothing
<1>3. ASSUME NEW i \in 1 .. n PROVE Merged(U(i)) = Step(Merged(U(i - 1)), i)
  <2>1. 1 .. i = (1 .. i - 1) \union {i} BY <1>1
  <2>2. CASE files[i].lang # lang
    <3>1. U(i) = U(i - 1) BY <2>1, <2>2 DEF DeclaredUpTo
    <3> QED BY <2>2, <3>1
  <2>3. CASE ~(files[i].lang # lang)
    <3>1. U(i) = U(i - 1) \union PackagesOfFile(repo, files[i]) BY <2>1, <2>3 DEF DeclaredUpTo
    <3> HIDE DEF U
    <3>2. /\ \A p \in PackagesOfFile(repo, files[i]) : IsPackage(p)
          /\ OnePerPath(PackagesOfFile(repo, files[i]))
      BY PackagesOfFileAre
    <3>3. Remember(Merged(U(i - 1)), PackagesOfFile(repo, files[i]))
            = Merged(U(i - 1) \union PackagesOfFile(repo, files[i]))
      BY <3>2, RememberMerges
    <3> QED BY <2>3, <3>1, <3>3
  <2> QED BY <2>2, <2>3
<1>4. 0 \in 0 .. n /\ \A i \in 1 .. n : i \in 0 .. n /\ i - 1 \in 0 .. n /\ i # 0 BY <1>1
<1>5. v = [i \in 0 .. n |-> IF i = 0 THEN Nothing ELSE Step(v[i - 1], i)]
  <2>1. g = [i \in 0 .. n |-> IF i = 0 THEN Nothing ELSE Step(g[i - 1], i)]
    <3> HIDE DEF U, Step
    <3>1. ASSUME NEW i \in 0 .. n PROVE g[i] = IF i = 0 THEN Nothing ELSE Step(g[i - 1], i)
      <4>1. CASE i = 0 BY <1>2, <4>1
      <4>2. CASE i # 0
        <5>1. i \in 1 .. n /\ i - 1 \in 0 .. n BY <1>1, <4>2
        <5>2. g[i] = Merged(U(i)) /\ g[i - 1] = Merged(U(i - 1)) BY <5>1
        <5> HIDE DEF g
        <5> QED BY <1>3, <4>2, <5>1, <5>2, Zenon
      <4> QED BY <4>1, <4>2
    <3>2. g = [i \in 0 .. n |-> g[i]] OBVIOUS
    <3> HIDE DEF g
    <3> QED BY <3>1, <3>2, Zenon
  <2> HIDE DEF g
  <2> QED BY <2>1, Zenon
<1> DEFINE S == {i \in 0 .. n : v[i] = Merged(U(i))}
<1>6. 0 .. n \subseteq S
  <2> HIDE DEF v, U, Step
  <2>1. 0 \in S BY <1>2, <1>4, <1>5
  <2>2. ASSUME NEW i \in 1 .. n, i - 1 \in S PROVE i \in S
    <3>1. v[i - 1] = Merged(U(i - 1)) BY <2>2
    <3>2. v[i] = Step(v[i - 1], i) BY <1>4, <1>5, Zenon
    <3>3. v[i] = Merged(U(i)) BY <1>3, <3>1, <3>2
    <3> QED BY <1>4, <3>3
  <2> HIDE DEF S
  <2> QED BY <1>1, <2>1, <2>2, UpToInduction
<1>7. Discoveries(repo, lang, files) = v BY Zenon DEF Discoveries, n
<1>8. v[n] = Merged(U(n))
  <2> HIDE DEF v, U
  <2> QED BY <1>1, <1>6
<1>9. U(n) = DeclaredBy(repo, files, lang) BY <1>1 DEF DeclaredUpTo, DeclaredBy
<1> HIDE DEF v, U
<1> QED BY <1>7, <1>8, <1>9, Zenon DEF DiscoverPackages, n

\* What the first i of the languages bring.
FoundUpTo(repo, languages, files, i) ==
    UNION {DiscoverPackages(repo, languages[j], files) : j \in {k \in 1 .. i : languages[k] \notin repo.failing}}

LEMMA CollectedAre ==
    ASSUME NEW repo, NEW E, NEW files \in Seq(E), NEW L, NEW languages \in Seq(L)
    PROVE  CollectLanguagePackages(repo, languages, files)
             = Merged(FoundUpTo(repo, languages, files, Len(languages))).packages
<1> DEFINE n == Len(languages)
           U(i) == FoundUpTo(repo, languages, files, i)
           Of(i) == DiscoverPackages(repo, languages[i], files)
           Step(known, i) == IF languages[i] \in repo.failing THEN known ELSE Remember(known, Of(i))
           v == CHOOSE merged : merged = [i \in 0 .. n |->
                    IF i = 0 THEN Nothing
                    ELSE IF languages[i] \in repo.failing THEN merged[i - 1]
                    ELSE Remember(merged[i - 1], DiscoverPackages(repo, languages[i], files))]
           g == [i \in 0 .. n |-> Merged(U(i))]
<1>1. n \in Nat OBVIOUS
<1> HIDE DEF n
<1>2. Merged(U(0)) = Nothing
  <2>1. U(0) = {} BY DEF FoundUpTo
  <2> HIDE DEF U
  <2>2. AgreedIn({}) = {} BY DEF AgreedIn
  <2> QED BY <2>1, <2>2 DEF Merged, Nothing
<1>3. ASSUME NEW i \in 1 .. n PROVE Merged(U(i)) = Step(Merged(U(i - 1)), i)
  <2>1. 1 .. i = (1 .. i - 1) \union {i} BY <1>1
  <2>2. CASE languages[i] \in repo.failing
    <3>1. U(i) = U(i - 1) BY <2>1, <2>2 DEF FoundUpTo
    <3> QED BY <2>2, <3>1
  <2>3. CASE ~(languages[i] \in repo.failing)
    <3>1. U(i) = U(i - 1) \union Of(i) BY <2>1, <2>3 DEF FoundUpTo
    <3>2. Of(i) = Merged(DeclaredBy(repo, files, languages[i])).packages BY DiscoveriesAre
    <3> HIDE DEF U, Of
    <3>3. (\A p \in Of(i) : IsPackage(p)) /\ OnePerPath(Of(i)) BY <3>2, MergedIs
    <3>4. Remember(Merged(U(i - 1)), Of(i)) = Merged(U(i - 1) \union Of(i)) BY <3>3, RememberMerges
    <3> QED BY <2>3, <3>1, <3>4
  <2> QED BY <2>2, <2>3
<1>4. 0 \in 0 .. n /\ \A i \in 1 .. n : i \in 0 .. n /\ i - 1 \in 0 .. n /\ i # 0 BY <1>1
<1>5. v = [i \in 0 .. n |-> IF i = 0 THEN Nothing ELSE Step(v[i - 1], i)]
  <2>1. g = [i \in 0 .. n |-> IF i = 0 THEN Nothing ELSE Step(g[i - 1], i)]
    <3> HIDE DEF U, Step
    <3>1. ASSUME NEW i \in 0 .. n PROVE g[i] = IF i = 0 THEN Nothing ELSE Step(g[i - 1], i)
      <4>1. CASE i = 0 BY <1>2, <4>1
      <4>2. CASE i # 0
        <5>1. i \in 1 .. n /\ i - 1 \in 0 .. n BY <1>1, <4>2
        <5>2. g[i] = Merged(U(i)) /\ g[i - 1] = Merged(U(i - 1)) BY <5>1
        <5> HIDE DEF g
        <5> QED BY <1>3, <4>2, <5>1, <5>2, Zenon
      <4> QED BY <4>1, <4>2
    <3>2. g = [i \in 0 .. n |-> g[i]] OBVIOUS
    <3> HIDE DEF g
    <3> QED BY <3>1, <3>2, Zenon
  <2> HIDE DEF g
  <2> QED BY <2>1, Zenon
<1> DEFINE S == {i \in 0 .. n : v[i] = Merged(U(i))}
<1>6. 0 .. n \subseteq S
  <2> HIDE DEF v, U, Step
  <2>1. 0 \in S BY <1>2, <1>4, <1>5
  <2>2. ASSUME NEW i \in 1 .. n, i - 1 \in S PROVE i \in S
    <3>1. v[i - 1] = Merged(U(i - 1)) BY <2>2
    <3>2. v[i] = Step(v[i - 1], i) BY <1>4, <1>5, Zenon
    <3>3. v[i] = Merged(U(i)) BY <1>3, <3>1, <3>2
    <3> QED BY <1>4, <3>3
  <2> HIDE DEF S
  <2> QED BY <1>1, <2>1, <2>2, UpToInduction
<1>7. MergeLanguagePackages(repo, languages, files) = v BY Zenon DEF MergeLanguagePackages, n
<1>8. v[n] = Merged(U(n))
  <2> HIDE DEF v, U
  <2> QED BY <1>1, <1>6
<1> HIDE DEF v
<1> QED BY <1>7, <1>8, Zenon DEF CollectLanguagePackages, n

\* What the files of a language declare, and what of it all agree on.
LEMMA DeclaredAre ==
    ASSUME NEW repo, NEW files, NEW lang, NEW p \in DeclaredBy(repo, files, lang)
    PROVE  /\ p.lang = lang
           /\ \E i \in DOMAIN files : files[i].lang = lang /\ p \in PackagesOfFile(repo, files[i])
<1>1. PICK i \in DOMAIN files : files[i].lang = lang /\ p \in PackagesOfFile(repo, files[i])
  BY DEF DeclaredBy
<1> QED BY <1>1, PackagesOfFileAre

LEMMA AgreedAre ==
    ASSUME NEW P, NEW p \in AgreedIn(P)
    PROVE  /\ p \in P
           /\ \A q \in P : q.path = p.path => Agree(p, q) /\ q \in AgreedIn(P)
           /\ FilesOf(AgreedIn(P), p.path) = FilesOf(P, p.path)
<1>1. p \in P BY DEF AgreedIn
<1>2. \A q \in P : q.path = p.path => Agree(p, q) /\ q \in AgreedIn(P) BY DEF AgreedIn, Agree
<1>3. \A q : q \in AgreedIn(P) => q \in P BY DEF AgreedIn
<1>4. {o \in AgreedIn(P) : o.path = p.path} = {o \in P : o.path = p.path} BY <1>2, <1>3
<1> QED BY <1>1, <1>2, <1>4, Zenon DEF FilesOf

\* The packages of AgreedPackages, one by one.
LEMMA AgreedPackagesAre ==
    ASSUME NEW repo, NEW files, NEW x
    PROVE  x \in AgreedPackages(repo, files) <=>
             \E l \in Range(Languages) \ repo.failing : \E p \in AgreedIn(DeclaredBy(repo, files, l)) :
                /\ x = WithFiles(p, FilesOf(DeclaredBy(repo, files, l), p.path))
                /\ \A k \in (Range(Languages) \ repo.failing) \ {l} :
                      \A o \in AgreedIn(DeclaredBy(repo, files, k)) : o.path # p.path
<1> DEFINE langs == Range(Languages) \ repo.failing
           Of(l) == DeclaredBy(repo, files, l)
           Agreed(l) == AgreedIn(Of(l))
           Alone(p) == \A k \in langs \ {p.lang} : \A o \in Agreed(k) : o.path # p.path
           With(p) == [p EXCEPT !.files = UNION {q.files : q \in {o \in Agreed(p.lang) : o.path = p.path}}]
<1>1. AgreedPackages(repo, files) = {With(p) : p \in {q \in UNION {Agreed(l) : l \in langs} : Alone(q)}}
  BY Zenon DEF AgreedPackages
<1>2. ASSUME NEW l \in langs, NEW p \in Agreed(l)
      PROVE  p.lang = l /\ With(p) = WithFiles(p, FilesOf(Of(l), p.path))
  <2>1. p \in Of(l) /\ FilesOf(Agreed(l), p.path) = FilesOf(Of(l), p.path) BY AgreedAre
  <2>2. p.lang = l BY <2>1, DeclaredAre
  <2>3. IsPackage(p)
    <3>1. PICK i \in DOMAIN files : p \in PackagesOfFile(repo, files[i]) BY <2>1, DeclaredAre
    <3> QED BY <3>1, PackagesOfFileAre
  <2> DEFINE F == UNION {q.files : q \in {o \in Agreed(p.lang) : o.path = p.path}}
  <2>4. F = FilesOf(Of(l), p.path) BY <2>1, <2>2, Zenon DEF FilesOf
  <2>5. With(p) = [p EXCEPT !.files = F] OBVIOUS
  <2> HIDE DEF F, With, Of
  <2>6. [p EXCEPT !.files = F] = WithFiles(p, F)
    <3> DEFINE P == p.path  K == p.name  D == p.dir  L == p.lang  G == p.files
    <3>1. p = [path |-> P, name |-> K, dir |-> D, lang |-> L, files |-> G] BY <2>3 DEF IsPackage
    <3> HIDE DEF P, K, D, L, G
    <3>2. [p EXCEPT !.files = F] = [path |-> P, name |-> K, dir |-> D, lang |-> L, files |-> F]
      BY <3>1
    <3> QED BY <3>2 DEF P, K, D, L, G, WithFiles
  <2> QED BY <2>2, <2>4, <2>5, <2>6
<1> HIDE DEF With, Agreed, langs
<1>3. ASSUME x \in AgreedPackages(repo, files)
      PROVE  \E l \in langs : \E p \in Agreed(l) :
                /\ x = WithFiles(p, FilesOf(Of(l), p.path))
                /\ \A k \in langs \ {l} : \A o \in Agreed(k) : o.path # p.path
  <2>1. PICK p \in UNION {Agreed(l) : l \in langs} : Alone(p) /\ x = With(p) BY <1>1, <1>3
  <2>2. PICK l \in langs : p \in Agreed(l) OBVIOUS
  <2>3. p.lang = l /\ With(p) = WithFiles(p, FilesOf(Of(l), p.path)) BY <1>2, <2>2
  <2> HIDE DEF Of
  <2> QED BY <2>1, <2>2, <2>3
<1>4. ASSUME NEW l \in langs, NEW p \in Agreed(l), x = WithFiles(p, FilesOf(Of(l), p.path)),
             \A k \in langs \ {l} : \A o \in Agreed(k) : o.path # p.path
      PROVE  x \in AgreedPackages(repo, files)
  <2>1. p.lang = l /\ With(p) = WithFiles(p, FilesOf(Of(l), p.path)) BY <1>2
  <2>2. Alone(p) BY <1>4, <2>1
  <2> HIDE DEF Of, Alone
  <2> QED BY <1>1, <1>4, <2>1, <2>2
<1> HIDE DEF Of
<1> QED BY <1>3, <1>4, Zenon DEF langs, Agreed, Of

\* A tree has the same packages in every order of its walk.
LEMMA CollectedAgree ==
    ASSUME NEW g \in GivenPackages, NEW w \in Walks(g.files)
    PROVE  CollectLanguagePackages(g.repo, Languages, w) = AgreedPackages(g.repo, g.files)
<1> DEFINE langs == Range(Languages) \ g.repo.failing
           Of(l) == DeclaredBy(g.repo, g.files, l)
           Found(l) == Merged(Of(l)).packages
           all == UNION {Found(l) : l \in langs}
           Alone(p, l) == \A k \in langs \ {l} : \A o \in AgreedIn(Of(k)) : o.path # p.path
<1>1. w \in Seq(Range(g.files)) /\ Range(w) = Range(g.files) /\ Languages \in Seq(STRING)
  BY PackagesAssumption
<1>2. \A l : DeclaredBy(g.repo, w, l) = Of(l)
  <2> SUFFICES ASSUME NEW l PROVE DeclaredBy(g.repo, w, l) = Of(l) OBVIOUS
  <2>1. \A i \in DOMAIN w : \E j \in DOMAIN g.files : w[i] = g.files[j] BY <1>1 DEF Range
  <2>2. \A j \in DOMAIN g.files : \E i \in DOMAIN w : w[i] = g.files[j] BY <1>1 DEF Range
  <2>3. ASSUME NEW p \in DeclaredBy(g.repo, w, l) PROVE p \in Of(l)
    <3>1. PICK i \in DOMAIN w : w[i].lang = l /\ p \in PackagesOfFile(g.repo, w[i]) BY DEF DeclaredBy
    <3>2. PICK j \in DOMAIN g.files : w[i] = g.files[j] BY <2>1
    <3> QED BY <3>1, <3>2 DEF DeclaredBy
  <2>4. ASSUME NEW p \in Of(l) PROVE p \in DeclaredBy(g.repo, w, l)
    <3>1. PICK j \in DOMAIN g.files : g.files[j].lang = l /\ p \in PackagesOfFile(g.repo, g.files[j])
      BY DEF DeclaredBy
    <3>2. PICK i \in DOMAIN w : w[i] = g.files[j] BY <2>2
    <3> QED BY <3>1, <3>2 DEF DeclaredBy
  <2> HIDE DEF Of
  <2> QED BY <2>3, <2>4
<1>3. \A l : DiscoverPackages(g.repo, l, w) = Found(l) BY <1>1, <1>2, DiscoveriesAre
<1>4. FoundUpTo(g.repo, Languages, w, Len(Languages)) = all
  <2> DEFINE some == {k \in 1 .. Len(Languages) : Languages[k] \notin g.repo.failing}
  <2> HIDE DEF Found
  <2>1. FoundUpTo(g.repo, Languages, w, Len(Languages)) = UNION {Found(Languages[j]) : j \in some}
    BY <1>3 DEF FoundUpTo
  <2>2. {Found(Languages[j]) : j \in some} = {Found(l) : l \in langs} BY <1>1 DEF Range
  <2> QED BY <2>1, <2>2
<1>5. CollectLanguagePackages(g.repo, Languages, w) = Merged(all).packages
  BY <1>1, <1>4, CollectedAre
<1> HIDE DEF langs, Of
\* What a language brings.
<1>6. ASSUME NEW l \in langs, NEW v \in Found(l)
      PROVE  \E p \in AgreedIn(Of(l)) : /\ v = WithFiles(p, FilesOf(Of(l), p.path))
                                        /\ p.lang = l /\ v.path = p.path /\ v.lang = l
  <2>1. PICK p \in AgreedIn(Of(l)) : v = WithFiles(p, FilesOf(Of(l), p.path)) BY MergedIs
  <2>2. p.lang = l BY AgreedAre, DeclaredAre DEF Of
  <2> QED BY <2>1, <2>2, WithFilesIs
<1>7. ASSUME NEW l \in langs, NEW p \in AgreedIn(Of(l))
      PROVE  /\ WithFiles(p, FilesOf(Of(l), p.path)) \in Found(l)
             /\ p.lang = l
  BY MergedIs, AgreedAre, DeclaredAre DEF Of
<1>8. \A l : OnePerPath(Found(l)) BY MergedIs
<1> HIDE DEF Found
<1>9. ASSUME NEW l \in langs, NEW v \in Found(l), \A q \in all : q.path = v.path => q = v
      PROVE  v \in AgreedIn(all) /\ WithFiles(v, FilesOf(all, v.path)) = v
  <2>1. v \in all OBVIOUS
  <2> HIDE DEF all
  <2>2. v \in AgreedIn(all) BY <1>9, <2>1 DEF AgreedIn, Agree
  <2>3. FilesOf(all, v.path) = v.files BY <1>9, <2>1 DEF FilesOf
  <2>4. IsPackage(v) BY <1>6, WithFilesIs
  <2> QED BY <2>2, <2>3, <2>4, Zenon DEF IsPackage, WithFiles
<1>10. ASSUME NEW x \in Merged(all).packages PROVE x \in AgreedPackages(g.repo, g.files)
  <2>1. PICK v \in AgreedIn(all) : x = WithFiles(v, FilesOf(all, v.path)) BY MergedIs
  <2>2. v \in all /\ \A q \in all : q.path = v.path => Agree(v, q) BY AgreedAre
  <2>3. PICK l \in langs : v \in Found(l) BY <2>2
  <2>4. PICK p \in AgreedIn(Of(l)) : /\ v = WithFiles(p, FilesOf(Of(l), p.path))
                                     /\ p.lang = l /\ v.path = p.path /\ v.lang = l
    BY <1>6, <2>3
  <2>5. ASSUME NEW q \in all, q.path = v.path PROVE q = v
    <3>1. PICK k \in langs : q \in Found(k) OBVIOUS
    <3>2. q.lang = k BY <1>6, <3>1
    <3>3. k = l BY <2>2, <2>4, <2>5, <3>2 DEF Agree
    <3> QED BY <1>8, <2>3, <2>5, <3>1, <3>3 DEF OnePerPath
  <2>6. x = v BY <1>9, <2>1, <2>3, <2>5
  <2>7. Alone(p, l)
    <3> SUFFICES ASSUME NEW k \in langs \ {l}, NEW o \in AgreedIn(Of(k)), o.path = p.path PROVE FALSE
      OBVIOUS
    <3> DEFINE q == WithFiles(o, FilesOf(Of(k), o.path))
    <3>1. q \in Found(k) /\ o.lang = k BY <1>7
    <3>2. q.path = v.path /\ q.lang = k BY <2>4, <3>1, WithFilesIs
    <3>3. q \in all BY <3>1
    <3> HIDE DEF q, all
    <3> QED BY <2>4, <2>5, <3>2, <3>3
  <2> HIDE DEF all
  <2>8. x = WithFiles(p, FilesOf(Of(l), p.path)) BY <2>4, <2>6
  <2> QED BY <2>7, <2>8, AgreedPackagesAre DEF langs, Of
<1>11. ASSUME NEW x \in AgreedPackages(g.repo, g.files) PROVE x \in Merged(all).packages
  <2>1. PICK l \in langs : \E p \in AgreedIn(Of(l)) :
                x = WithFiles(p, FilesOf(Of(l), p.path)) /\ Alone(p, l)
    BY AgreedPackagesAre DEF langs, Of
  <2>2. PICK p \in AgreedIn(Of(l)) : x = WithFiles(p, FilesOf(Of(l), p.path)) /\ Alone(p, l) BY <2>1
  <2>3. x \in Found(l) /\ x.path = p.path BY <1>7, <2>2, WithFilesIs
  <2>4. ASSUME NEW q \in all, q.path = x.path PROVE q = x
    <3>1. PICK k \in langs : q \in Found(k) OBVIOUS
    <3>2. PICK o \in AgreedIn(Of(k)) : q.path = o.path BY <1>6, <3>1
    <3>3. k = l BY <2>2, <2>3, <2>4, <3>2
    <3> QED BY <1>8, <2>3, <2>4, <3>1, <3>3 DEF OnePerPath
  <2>5. x \in AgreedIn(all) /\ WithFiles(x, FilesOf(all, x.path)) = x BY <1>9, <2>3, <2>4
  <2> HIDE DEF all
  <2> QED BY <2>5, MergedIs
<1> HIDE DEF all
<1> QED BY <1>5, <1>10, <1>11

\* A package of a language of Node has files right in its directory, that give
\* it one of the paths they have.
LEMMA NodePackageFiles ==
    ASSUME NEW repo, NEW files, NEW x \in AgreedPackages(repo, files), x.lang \in NodeLanguages
    PROVE  /\ \A f \in x.files : x.dir = Dir(f)
           /\ \E i \in DOMAIN files : files[i].lang \in NodeLanguages
                                      /\ x.path \in NodePaths(repo, files[i])
<1>1. PICK l \in Range(Languages) \ repo.failing :
          \E p \in AgreedIn(DeclaredBy(repo, files, l)) :
              x = WithFiles(p, FilesOf(DeclaredBy(repo, files, l), p.path))
  BY AgreedPackagesAre
<1> DEFINE all == DeclaredBy(repo, files, l)
<1>2. PICK p \in AgreedIn(all) : x = WithFiles(p, FilesOf(all, p.path)) BY <1>1
<1>3. p \in all /\ \A q \in all : q.path = p.path => Agree(p, q) BY AgreedAre
<1>4. p.lang = l BY <1>3, DeclaredAre
<1>5. /\ x.lang = l /\ x.path = p.path /\ x.dir = p.dir /\ x.files = FilesOf(all, p.path)
      /\ l \in NodeLanguages
  BY <1>2, <1>4, WithFilesIs
<1>6. ASSUME NEW q \in all
      PROVE  \E i \in DOMAIN files : /\ files[i].lang \in NodeLanguages /\ q.files = {files[i].path}
                                     /\ q.path \in NodePaths(repo, files[i])
                                     /\ q.dir = Dir(files[i].path)
  <2>1. PICK i \in DOMAIN files : files[i].lang = l /\ q \in PackagesOfFile(repo, files[i])
    BY DeclaredAre
  <2> QED BY <1>5, <2>1, PackagesOfFileAre
<1> HIDE DEF all
<1>7. ASSUME NEW f \in x.files PROVE x.dir = Dir(f)
  <2>1. PICK q \in all : q.path = p.path /\ f \in q.files BY <1>5 DEF FilesOf
  <2>2. q.dir = p.dir BY <1>3, <2>1 DEF Agree
  <2>3. PICK i \in DOMAIN files : q.files = {files[i].path} /\ q.dir = Dir(files[i].path) BY <1>6
  <2>4. f = files[i].path BY <2>1, <2>3
  <2> QED BY <1>5, <2>2, <2>3, <2>4
<1>8. \E i \in DOMAIN files : files[i].lang \in NodeLanguages /\ x.path \in NodePaths(repo, files[i])
  BY <1>3, <1>5, <1>6
<1> QED BY <1>7, <1>8

\* Where a directory has one path only, files and imports get the same name.
LEMMA NamesMeet ==
    ASSUME NEW g \in GivenPackages, NEW p \in AgreedPackages(g.repo, g.files), NEW f \in p.files,
           p.lang \in NodeLanguages,
           \A q \in AgreedPackages(g.repo, g.files) : q.dir = p.dir => q = p
    PROVE  FilePackageImportPath(AgreedPackages(g.repo, g.files), f)
             = ImportPackageContext(AgreedPackages(g.repo, g.files))[p.path]
<1> DEFINE found == AgreedPackages(g.repo, g.files)
           ofFile == {q \in found : q.lang \in NodeLanguages /\ f \in q.files}
           ofDir == {q \in found : q.lang \in NodeLanguages /\ q.dir = p.dir}
<1>1. \A q \in found : q.lang \in NodeLanguages => \A e \in q.files : q.dir = Dir(e)
  BY NodePackageFiles
<1>2. Width(p.path) \in Nat /\ ~Before(p.path, p.path)
  <2>1. PICK i \in DOMAIN g.files : g.files[i].lang \in NodeLanguages
                                    /\ p.path \in NodePaths(g.repo, g.files[i])
    BY NodePackageFiles
  <2> QED BY <2>1, PackagesAssumption
<1>3. OnePerPath(found)
  <2>1. PICK w \in Walks(g.files) : TRUE BY PackagesAssumption
  <2>2. w \in Seq(Range(g.files)) /\ Languages \in Seq(STRING) BY PackagesAssumption
  <2>3. found = Merged(FoundUpTo(g.repo, Languages, w, Len(Languages))).packages
    BY <2>2, CollectedAgree, CollectedAre
  <2> HIDE DEF found
  <2> QED BY <2>3, MergedIs
<1>4. p \in found /\ \A q \in found : q.dir = p.dir => q = p OBVIOUS
<1> HIDE DEF found
<1>5. ofFile = {p} BY <1>1, <1>4
<1>6. ofDir = {p} BY <1>4
<1>7. FilePackageImportPath(found, f) = {p.path}
  <2>1. {q \in ofFile : \A o \in ofFile : ~Before(o.path, q.path)} = {p}
    <3> HIDE DEF ofFile
    <3> QED BY <1>2, <1>5
  <2>2. {q.path : q \in {r \in ofFile : \A o \in ofFile : ~Before(o.path, r.path)}} = {p.path}
    <3> HIDE DEF ofFile
    <3> QED BY <2>1
  <2> QED BY <2>2, Zenon DEF FilePackageImportPath
<1>8. CanonicalPaths(found, p.dir) = {p.path}
  <2>0. Width(p.path) <= Width(p.path) BY <1>2
  <2> HIDE DEF ofDir
  <2>1. {q \in ofDir : \A o \in ofDir : Width(o.path) <= Width(q.path)} = {p} BY <1>6, <2>0
  <2>2. {q.path : q \in {r \in ofDir : \A o \in ofDir : Width(o.path) <= Width(r.path)}} = {p.path}
    BY <2>1
  <2> QED BY <2>2, Zenon DEF CanonicalPaths, ofDir
<1>9. ImportPackageContext(found)[p.path] = CanonicalPaths(found, p.dir)
  <2>1. p.path \in {q.path : q \in found} BY <1>4
  <2>2. (CHOOSE q \in found : q.path = p.path) = p BY <1>3, <1>4 DEF OnePerPath
  <2> DEFINE Names(path) ==
                 LET q == CHOOSE q \in found : q.path = path
                 IN  IF q.lang \in NodeLanguages THEN CanonicalPaths(found, q.dir) ELSE {<<q.name>>}
  <2>3. Names(p.path) = CanonicalPaths(found, p.dir) BY <2>2
  <2> HIDE DEF Names
  <2>4. [path \in {q.path : q \in found} |-> Names(path)][p.path] = Names(p.path) BY <2>1
  <2> QED BY <2>3, <2>4, Zenon DEF ImportPackageContext, Names
<1> QED BY <1>7, <1>8, <1>9 DEF found

\* The answer to a request for the packages of a tree.
LEMMA DiscoveryIsUnordered ==
    ASSUME NEW g \in GivenPackages, given.has = g,
           Reply.found = {CollectLanguagePackages(g.repo, Languages, w) : w \in Walks(g.files)}
    PROVE  DiscoveryIgnoresOrder
<1> DEFINE found == AgreedPackages(g.repo, g.files)
<1>1. Reply.found = {found}
  <2>1. \A w \in Walks(g.files) : CollectLanguagePackages(g.repo, Languages, w) = found
    BY CollectedAgree
  <2>2. Walks(g.files) # {} BY PackagesAssumption
  <2> HIDE DEF found
  <2>3. {CollectLanguagePackages(g.repo, Languages, w) : w \in Walks(g.files)} = {found} BY <2>1, <2>2
  <2> QED BY <2>3
<1>2. \A p \in found : \A f \in p.files :
          p.lang \in NodeLanguages /\ (\A q \in found : q.dir = p.dir => q = p) =>
              FilePackageImportPath(found, f) = ImportPackageContext(found)[p.path]
  BY NamesMeet
<1> HIDE DEF found
<1>3. found = AgreedPackages(given.has.repo, given.has.files) BY DEF found
<1> QED BY <1>1, <1>2, <1>3, Zenon DEF DiscoveryIgnoresOrder

\* DiscoveryIgnoresOrder is an invariant: in every order of the walk a tree has
\* the packages on which all files agree and that no other language has, and
\* where a directory has one path, imports and files get the same name.
THEOREM DiscoveryUnordered == BuildSpec => []DiscoveryIgnoresOrder
<1>1. ASSUME WorkedRight, Answered("packages") PROVE DiscoveryIgnoresOrder
  <2> DEFINE g == given.has
  <2>1. /\ g \in GivenPackages
        /\ Reply.found = {CollectLanguagePackages(g.repo, Languages, w) : w \in Walks(g.files)}
    BY <1>1, Zenon DEF WorkedRight, Answered
  <2>2. given.has = g OBVIOUS
  <2> HIDE DEF g
  <2> QED BY <2>1, <2>2, DiscoveryIsUnordered
<1>2. WorkedRight => DiscoveryIgnoresOrder BY <1>1, Zenon DEF DiscoveryIgnoresOrder
<1> QED BY <1>2, WorkedRightInvariant, PTL

-----------------------------------------------------------------------------
\* The nodes of a file

WalkedNode == [name : STRING, qn : Seq(STRING), kind : {"file", "class", "type", "test", "function"},
               first : Nat, last : Nat]
WalkedEdge == [kind : {"implements", "calls", "imports_from"}, line : Nat, source : Seq(STRING), target : Seq(STRING)]
Words == STRING \union {""}
Walked == [package : Words, nodes : Seq(WalkedNode), edges : SUBSET WalkedEdge]

IsDefinition(def) ==
    /\ def.name \in STRING \ {""} /\ def.receiver \in STRING /\ def.implements \subseteq STRING
    /\ def.first \in Nat /\ def.last \in Nat /\ def.first <= def.last
IsMatch(m) ==
    /\ m.what \in {"package", "definition", "call", "import"}
    /\ m.what = "package" => m.name \in STRING
    /\ m.what \in {"call", "import"} => m.target \in STRING /\ m.line \in Nat
    /\ m.what = "definition" => IsDefinition(m)

LEMMA OneLong ==
    ASSUME NEW E, NEW x \in E
    PROVE  <<>> \in Seq(E) /\ <<x>> \in Seq(E) /\ Len(<<x>>) = 1 /\ <<x>>[1] = x
<1>1. <<>> \in Seq(E) OBVIOUS
<1>2. Append(<<>>, x) \in Seq(E) BY <1>1
<1>3. <<x>> = Append(<<>>, x) OBVIOUS
<1>4. <<x>> \in Seq(E) BY <1>2, <1>3, Zenon
<1>5. Len(<<x>>) = 1 /\ <<x>>[1] = x OBVIOUS
<1> QED BY <1>1, <1>4, <1>5, Zenon

LEMMA LengthOf ==
    ASSUME NEW E, NEW s \in Seq(E), NEW t \in Seq(E)
    PROVE  Len(s \o t) = Len(s) + Len(t)
OBVIOUS

LEMMA OneMore ==
    ASSUME NEW E, NEW s \in Seq(E), NEW t \in Seq(E), Len(t) = 1
    PROVE  /\ s \o t \in Seq(E) /\ Len(s) \in Nat /\ Len(s \o t) = Len(s) + 1 /\ (s \o t)[Len(s) + 1] = t[1]
           /\ \A i \in 1 .. Len(s) : (s \o t)[i] = s[i]
<1>1. s \o t \in Seq(E) OBVIOUS
<1>2. Len(s) \in Nat OBVIOUS
<1>5. Len(s \o t) = Len(s) + Len(t) BY LengthOf, Zenon
<1>6. Len(s \o t) = Len(s) + 1 BY <1>5
<1>3. (s \o t)[Len(s) + 1] = t[1]
  <2>1. Len(s) + 1 \in 1 .. Len(s) + Len(t) BY <1>2
  <2>2. (s \o t)[Len(s) + 1] = t[Len(s) + 1 - Len(s)] BY <1>2, <2>1
  <2>3. Len(s) + 1 - Len(s) = 1 BY <1>2
  <2> QED BY <2>2, <2>3
<1>4. \A i \in 1 .. Len(s) : (s \o t)[i] = s[i] OBVIOUS
<1> QED BY <1>1, <1>2, <1>6, <1>3, <1>4, Zenon

\* A definition's qualified name ends in its name.
LEMMA QualifiedName ==
    ASSUME NEW pkg \in Words, NEW receiver \in STRING, NEW name \in STRING
    PROVE  LET qn == BuildQualifiedName(pkg, receiver, name)
           IN  qn \in Seq(STRING) /\ Len(qn) \in Nat \ {0} /\ qn[Len(qn)] = name
<1> DEFINE before == Part(pkg) \o Part(receiver)
           qn == before \o <<name>>
<1>1. \A s \in Words : Part(s) \in Seq(STRING)
  <2> SUFFICES ASSUME NEW s \in Words PROVE Part(s) \in Seq(STRING) OBVIOUS
  <2>1. <<>> \in Seq(STRING) /\ (s \in STRING => <<s>> \in Seq(STRING)) BY OneLong, Zenon
  <2>2. s = "" \/ s \in STRING BY DEF Words
  <2> QED BY <2>1, <2>2, Zenon DEF Part
<1>2. before \in Seq(STRING) /\ Len(before) \in Nat
  <2> DEFINE p == Part(pkg)
             r == Part(receiver)
  <2>1. p \in Seq(STRING) /\ r \in Seq(STRING) BY <1>1 DEF Words
  <2> HIDE DEF p, r
  <2>2. p \o r \in Seq(STRING) BY <2>1
  <2>3. before = p \o r BY DEF p, r
  <2> HIDE DEF before
  <2> QED BY <2>2, <2>3
<1>3. BuildQualifiedName(pkg, receiver, name) = qn BY Zenon DEF BuildQualifiedName
<1> HIDE DEF before
<1>4. qn \in Seq(STRING) /\ Len(qn) = Len(before) + 1 /\ qn[Len(before) + 1] = name
  <2>1. <<name>> \in Seq(STRING) /\ Len(<<name>>) = 1 /\ <<name>>[1] = name BY OneLong, Zenon
  <2> QED BY <1>2, <2>1, OneMore, Zenon
<1> HIDE DEF qn
<1>5. qn \in Seq(STRING) /\ Len(qn) \in Nat \ {0} /\ qn[Len(qn)] = name BY <1>2, <1>4
<1> QED BY <1>3, <1>5, Zenon

LEMMA NodeOfIs ==
    ASSUME NEW pkg \in Words, NEW def, IsDefinition(def)
    PROVE  LET new == NodeOf(pkg, def)
           IN  /\ new \in WalkedNode /\ new.kind # "file"
               /\ new.name = def.name /\ new.first = def.first /\ new.last = def.last
               /\ Len(new.qn) \in Nat \ {0} /\ new.qn[Len(new.qn)] = def.name
<1> DEFINE qn == BuildQualifiedName(pkg, def.receiver, def.name)
           kind == NodeKind(def)
           new == [name |-> def.name, qn |-> qn, kind |-> kind, first |-> def.first, last |-> def.last]
<1>1. qn \in Seq(STRING) /\ Len(qn) \in Nat \ {0} /\ qn[Len(qn)] = def.name
  BY QualifiedName DEF IsDefinition
<1>2. kind \in {"class", "type", "test", "function"} BY DEF NodeKind
<1>3. NodeOf(pkg, def) = new BY Zenon DEF NodeOf
<1> HIDE DEF qn, kind
<1>4. /\ new.kind = kind /\ new.name = def.name /\ new.first = def.first /\ new.last = def.last /\ new.qn = qn
      /\ new \in WalkedNode
  BY <1>1, <1>2 DEF IsDefinition, WalkedNode
<1> HIDE DEF new
<1> QED BY <1>1, <1>2, <1>3, <1>4

\* Positions have a greatest.
LEMMA Greatest ==
    ASSUME NEW n \in Nat, NEW T \in SUBSET (1 .. n), T # {}
    PROVE  \E i \in T : \A j \in T : j <= i
<1> DEFINE U == {n - i : i \in T}
<1>1. U \in SUBSET Nat /\ U # {}
  <2>1. \A i \in T : i \in Nat /\ i <= n /\ n - i \in Nat OBVIOUS
  <2> QED BY <2>1, Zenon
<1>2. PICK m \in U : \A k \in U : m <= k
  <2> HIDE DEF U
  <2> QED BY <1>1, LeastOf
<1>3. PICK i \in T : m = n - i OBVIOUS
<1>4. ASSUME NEW j \in T PROVE j <= i
  <2>1. n - j \in U OBVIOUS
  <2> QED BY <1>2, <1>3, <2>1
<1> QED BY <1>4

\* What becomes of a definition.
Merges(nodes, def, pkg, acc) ==
    \E i \in SameSpan(nodes, NodeOf(pkg, def)) :
        acc = [nodes |-> [nodes EXCEPT ![i] = Merge(nodes[i], NodeOf(pkg, def), def.receiver)], at |-> {i}]
IsNewest(nodes, name, i) ==
    /\ i \in DOMAIN nodes /\ nodes[i].kind # "file" /\ nodes[i].name = name
    /\ \A j \in DOMAIN nodes : nodes[j].kind # "file" /\ nodes[j].name = name => j <= i
Widens(nodes, def, pkg, acc) ==
    \E i \in DOMAIN nodes :
        /\ IsNewest(nodes, def.name, i) /\ RangesOverlap(nodes[i], NodeOf(pkg, def)) /\ def.first < nodes[i].first
        /\ acc = [nodes |-> [nodes EXCEPT ![i] = Widen(nodes[i], NodeOf(pkg, def))], at |-> {i}]
Adds(nodes, def, pkg, acc) ==
    /\ \A i \in DOMAIN nodes : IsNewest(nodes, def.name, i) => ~RangesOverlap(nodes[i], NodeOf(pkg, def))
    /\ acc = [nodes |-> Append(nodes, NodeOf(pkg, def)), at |-> {Len(nodes) + 1}]

LEMMA AcceptIs ==
    ASSUME NEW nodes \in Seq(WalkedNode), NEW pkg \in Words, NEW def, IsDefinition(def)
    PROVE  LET acc == Accept(nodes, def, pkg)
           IN  \/ Merges(nodes, def, pkg, acc)
               \/ Widens(nodes, def, pkg, acc)
               \/ acc = [nodes |-> nodes, at |-> {}]
               \/ Adds(nodes, def, pkg, acc)
<1> DEFINE new == NodeOf(pkg, def)
           same == SameSpan(nodes, new)
           around == Overlapping(nodes, new)
           named == {i \in DOMAIN nodes : nodes[i].kind # "file" /\ nodes[i].name = new.name}
           newest == CHOOSE i \in named : \A j \in named : j <= i
           first == CHOOSE i \in same : \A j \in same : j <= i
           only == CHOOSE i \in around : TRUE
           acc == Accept(nodes, def, pkg)
<1>0. new.name = def.name BY NodeOfIs
<1>1. Len(nodes) \in Nat /\ DOMAIN nodes = 1 .. Len(nodes) OBVIOUS
<1>2. same \subseteq DOMAIN nodes BY Zenon DEF SameSpan
<1>3. acc = IF same # {} THEN [nodes |-> [nodes EXCEPT ![first] = Merge(nodes[first], new, def.receiver)], at |-> {first}]
            ELSE IF around # {}
            THEN IF def.first < nodes[only].first
                 THEN [nodes |-> [nodes EXCEPT ![only] = Widen(nodes[only], new)], at |-> {only}]
                 ELSE [nodes |-> nodes, at |-> {}]
            ELSE [nodes |-> Append(nodes, new), at |-> {Len(nodes) + 1}]
  BY DEF Accept
<1>4. named # {} => newest \in named /\ \A j \in named : j <= newest
  <2> SUFFICES ASSUME named # {} PROVE newest \in named /\ \A j \in named : j <= newest OBVIOUS
  <2>1. named \in SUBSET (1 .. Len(nodes)) BY <1>1
  <2>2. \E i \in named : \A j \in named : j <= i
    <3> HIDE DEF named
    <3> QED BY <1>1, <2>1, Greatest
  <2> HIDE DEF named
  <2> QED BY <2>2, Zenon
<1>5. around = {i \in (IF named = {} THEN {} ELSE {newest}) : RangesOverlap(nodes[i], new)}
  BY DEF Overlapping, NewestOf
<1>6. \A i : IsNewest(nodes, def.name, i) <=> i \in named /\ \A j \in named : j <= i
  BY <1>0, Zenon DEF IsNewest
<1> HIDE DEF new, same, around, named, newest, first, only, acc
<1>7. CASE same # {}
  <2>1. first \in same
    <3>1. same \in SUBSET (1 .. Len(nodes)) BY <1>1, <1>2
    <3>2. \E i \in same : \A j \in same : j <= i BY <1>1, <3>1, <1>7, Greatest
    <3> QED BY <3>2, Zenon DEF first
  <2>2. acc = [nodes |-> [nodes EXCEPT ![first] = Merge(nodes[first], new, def.receiver)], at |-> {first}]
    BY <1>3, <1>7, Zenon
  <2> QED BY <2>1, <2>2, Zenon DEF Merges, same, new, acc
<1>8. CASE same = {} /\ around # {}
  <2>1. only \in around BY <1>8, Zenon DEF only
  <2>2. named # {} /\ only = newest /\ RangesOverlap(nodes[only], new) BY <2>1, <1>5
  <2>3. IsNewest(nodes, def.name, only) BY <2>2, <1>4, <1>6, Zenon
  <2>4. only \in DOMAIN nodes BY <2>3, Zenon DEF IsNewest
  <2>5. CASE def.first < nodes[only].first
    <3>1. acc = [nodes |-> [nodes EXCEPT ![only] = Widen(nodes[only], new)], at |-> {only}]
      BY <1>3, <1>8, <2>5, Zenon
    <3> QED BY <2>2, <2>3, <2>4, <2>5, <3>1, Zenon DEF Widens, new, acc
  <2>6. CASE ~(def.first < nodes[only].first)
    <3>1. acc = [nodes |-> nodes, at |-> {}] BY <1>3, <1>8, <2>6, Zenon
    <3> QED BY <3>1, Zenon DEF acc
  <2> QED BY <2>5, <2>6, Zenon
<1>9. CASE same = {} /\ around = {}
  <2>1. acc = [nodes |-> Append(nodes, new), at |-> {Len(nodes) + 1}] BY <1>3, <1>9, Zenon
  <2>2. ASSUME NEW i \in DOMAIN nodes, IsNewest(nodes, def.name, i), RangesOverlap(nodes[i], new) PROVE FALSE
    <3>1. i \in named /\ \A j \in named : j <= i BY <2>2, <1>6, Zenon
    <3>2. newest \in named /\ \A j \in named : j <= newest BY <3>1, <1>4, Zenon
    <3>3. named \subseteq 1 .. Len(nodes) BY <1>1, Zenon DEF named
    <3>4. i = newest BY <3>1, <3>2, <3>3
    <3> QED BY <1>9, <1>5, <3>1, <3>4, <2>2
  <2> QED BY <2>1, <2>2, Zenon DEF Adds, new, acc
<1> QED BY <1>7, <1>8, <1>9, Zenon DEF acc

\* The nodes after k matches: the file first; each symbol has the lines of a
\* definition of its name so far, and symbols of one name start and end one
\* after the other.
IsSymbol(n, path, matches, k) ==
    /\ n \in WalkedNode /\ n.kind # "file" /\ n.name # path
    /\ Len(n.qn) \in Nat \ {0} /\ n.qn[Len(n.qn)] = n.name
    /\ \E j \in Definitions(matches) :
          j <= k /\ matches[j].name = n.name /\ matches[j].first = n.first /\ matches[j].last = n.last
After(m, n) == m.name = n.name => m.first < n.first /\ m.last < n.last
Tidy(nodes, path, matches, k) ==
    /\ nodes \in Seq(WalkedNode) /\ Len(nodes) >= 1
    /\ nodes[1].kind = "file" /\ nodes[1].name = path /\ nodes[1].qn = <<path>>
    /\ \A i \in 2 .. Len(nodes) : IsSymbol(nodes[i], path, matches, k)
    /\ \A i, j \in 2 .. Len(nodes) : i < j => After(nodes[i], nodes[j])

Sound(path, matches) ==
    /\ matches \in Seq(Range(matches)) /\ InTreeOrder(matches)
    /\ \A i \in DOMAIN matches : IsMatch(matches[i])
    /\ \A i \in Definitions(matches) : IsDefinition(matches[i]) /\ matches[i].name # path

LEMMA SymbolSooner ==
    ASSUME NEW n, NEW path, NEW matches, DOMAIN matches \subseteq Nat, NEW k \in Nat, NEW l \in Nat, k <= l,
           IsSymbol(n, path, matches, k)
    PROVE  IsSymbol(n, path, matches, l)
<1>1. PICK j \in Definitions(matches) :
          j <= k /\ matches[j].name = n.name /\ matches[j].first = n.first /\ matches[j].last = n.last
  BY Zenon DEF IsSymbol
<1>2. j \in Nat BY DEF Definitions
<1>3. j <= l BY <1>1, <1>2
<1> QED BY <1>1, <1>3, Zenon DEF IsSymbol

\* Another node in the place of a symbol.
LEMMA Replaced ==
    ASSUME NEW path, NEW matches, DOMAIN matches \subseteq Nat, NEW k \in Nat \ {0},
           NEW nodes, Tidy(nodes, path, matches, k - 1),
           NEW i \in 2 .. Len(nodes), NEW x, IsSymbol(x, path, matches, k),
           \A p \in 2 .. Len(nodes) : p < i => After(nodes[p], x),
           \A p \in 2 .. Len(nodes) : i < p => After(x, nodes[p])
    PROVE  Tidy([nodes EXCEPT ![i] = x], path, matches, k)
<1> DEFINE L == Len(nodes)
           new == [nodes EXCEPT ![i] = x]
<1>1. nodes \in Seq(WalkedNode) /\ L \in Nat /\ L >= 1 /\ DOMAIN nodes = 1 .. L BY DEF Tidy
<1>2. x \in WalkedNode BY DEF IsSymbol
<1>3. new \in Seq(WalkedNode) /\ Len(new) = L BY <1>1, <1>2
<1>4. \A p \in 1 .. L : new[p] = IF p = i THEN x ELSE nodes[p] BY <1>1
<1>5. new[1] = nodes[1] BY <1>1, <1>4
<1> HIDE DEF new
<1>6. ASSUME NEW p \in 2 .. L PROVE IsSymbol(new[p], path, matches, k)
  <2>1. p \in 1 .. L /\ new[p] = IF p = i THEN x ELSE nodes[p] BY <1>4
  <2>2. CASE p = i BY <2>1, <2>2
  <2>3. CASE p # i
    <3>1. IsSymbol(nodes[p], path, matches, k - 1) BY DEF Tidy
    <3>2. k - 1 \in Nat /\ k - 1 <= k BY <1>1
    <3>3. IsSymbol(nodes[p], path, matches, k) BY <3>1, <3>2, SymbolSooner
    <3> QED BY <2>1, <2>3, <3>3
  <2> QED BY <2>2, <2>3
<1>7. ASSUME NEW p \in 2 .. L, NEW q \in 2 .. L, p < q PROVE After(new[p], new[q])
  <2>1. /\ new[p] = IF p = i THEN x ELSE nodes[p]
        /\ new[q] = IF q = i THEN x ELSE nodes[q]
    BY <1>4
  <2>2. After(nodes[p], nodes[q]) BY <1>7 DEF Tidy
  <2>3. p # q BY <1>7
  <2>4. CASE p = i BY <1>7, <2>1, <2>3, <2>4
  <2>5. CASE q = i BY <1>7, <2>1, <2>3, <2>5
  <2>6. CASE p # i /\ q # i BY <2>1, <2>2, <2>6
  <2> QED BY <2>4, <2>5, <2>6
<1>8. Tidy(new, path, matches, k)
  <2>1. nodes[1].kind = "file" /\ nodes[1].name = path /\ nodes[1].qn = <<path>> BY DEF Tidy
  <2> HIDE DEF L
  <2>2. \A p \in 2 .. Len(new) : IsSymbol(new[p], path, matches, k) BY <1>3, <1>6
  <2>3. \A p, q \in 2 .. Len(new) : p < q => After(new[p], new[q]) BY <1>3, <1>7
  <2> QED BY <1>1, <1>3, <1>5, <2>1, <2>2, <2>3, Zenon DEF Tidy
<1> QED BY <1>8 DEF new

\* The definition's node, once it is one.
LEMMA NewSymbol ==
    ASSUME NEW path, NEW matches, Sound(path, matches), NEW k \in Definitions(matches), NEW pkg \in Words
    PROVE  IsSymbol(NodeOf(pkg, matches[k]), path, matches, k)
<1>1. IsDefinition(matches[k]) /\ matches[k].name # path BY Zenon DEF Sound
<1>2. k \in Nat
  <2>1. DOMAIN matches \subseteq Nat BY DEF Sound
  <2> QED BY <2>1 DEF Definitions
<1> DEFINE new == NodeOf(pkg, matches[k])
<1>3. /\ new \in WalkedNode /\ new.kind # "file"
      /\ new.name = matches[k].name /\ new.first = matches[k].first /\ new.last = matches[k].last
      /\ Len(new.qn) \in Nat \ {0} /\ new.qn[Len(new.qn)] = matches[k].name
  BY <1>1, NodeOfIs
<1> HIDE DEF new
<1>4. k <= k BY <1>2
<1>5. IsSymbol(new, path, matches, k) BY <1>1, <1>3, <1>4, Zenon DEF IsSymbol
<1> QED BY <1>5 DEF new

LEMMA MergeKeeps ==
    ASSUME NEW path, NEW matches, Sound(path, matches), NEW k \in Definitions(matches), NEW pkg \in Words,
           NEW nodes, Tidy(nodes, path, matches, k - 1),
           NEW acc, Merges(nodes, matches[k], pkg, acc)
    PROVE  Tidy(acc.nodes, path, matches, k)
<1> DEFINE def == matches[k]
           new == NodeOf(pkg, def)
<1>1. IsDefinition(def) /\ def.name # path BY Zenon DEF Sound
<1>2. /\ new \in WalkedNode /\ new.kind # "file"
      /\ new.name = def.name /\ new.first = def.first /\ new.last = def.last
      /\ Len(new.qn) \in Nat \ {0} /\ new.qn[Len(new.qn)] = def.name
  BY <1>1, NodeOfIs
<1>3. PICK i \in SameSpan(nodes, new) :
          acc = [nodes |-> [nodes EXCEPT ![i] = Merge(nodes[i], new, def.receiver)], at |-> {i}]
  BY Zenon DEF Merges
<1> HIDE DEF def, new
<1>4. i \in DOMAIN nodes /\ nodes[i].name = new.name BY DEF SameSpan
<1>5. DOMAIN matches \subseteq Nat /\ k \in DOMAIN matches /\ k \in Nat \ {0}
  <2>1. DOMAIN matches = 1 .. Len(matches) /\ Len(matches) \in Nat BY DEF Sound
  <2>2. k \in DOMAIN matches BY DEF Definitions
  <2> QED BY <2>1, <2>2
<1>6. nodes \in Seq(WalkedNode) /\ Len(nodes) \in Nat /\ DOMAIN nodes = 1 .. Len(nodes) BY DEF Tidy
<1>7. nodes[1].name = path BY DEF Tidy
<1>8. i \in 2 .. Len(nodes)
  <2>1. i # 1 BY <1>1, <1>2, <1>4, <1>7
  <2> QED BY <1>4, <1>6, <2>1
<1> DEFINE old == nodes[i]
           x == Merge(old, new, def.receiver)
<1>9. IsSymbol(old, path, matches, k)
  <2>1. IsSymbol(old, path, matches, k - 1) BY <1>8 DEF Tidy
  <2>2. k - 1 \in Nat /\ k - 1 <= k BY <1>5
  <2> QED BY <1>5, <2>1, <2>2, SymbolSooner
<1>10. /\ x \in WalkedNode /\ x.kind # "file" /\ x.name = old.name /\ x.first = old.first /\ x.last = old.last
       /\ x.qn \in {old.qn, new.qn}
  <2>1. old \in WalkedNode /\ old.kind # "file" BY <1>9 DEF IsSymbol
  <2>2. old.name = new.name BY <1>4
  <2> HIDE DEF old
  <2>3. old = [name |-> old.name, qn |-> old.qn, kind |-> old.kind, first |-> old.first, last |-> old.last]
    BY <2>1 DEF WalkedNode
  <2> DEFINE qn == IF def.receiver # "" /\ def.receiver \notin Range(old.qn) THEN new.qn ELSE old.qn
             kind == IF old.kind = "type" /\ new.kind = "class" THEN "class" ELSE old.kind
  <2>4. x = [old EXCEPT !.qn = qn, !.kind = kind] BY Zenon DEF Merge
  <2>5. qn \in {old.qn, new.qn} /\ kind \in {old.kind, "class"} OBVIOUS
  <2> HIDE DEF qn, kind, x
  <2> QED BY <1>2, <2>1, <2>3, <2>4, <2>5 DEF WalkedNode
<1>11. IsSymbol(x, path, matches, k)
  <2>1. Len(x.qn) \in Nat \ {0} /\ x.qn[Len(x.qn)] = x.name
    <3>1. CASE x.qn = old.qn BY <1>9, <1>10, <3>1, Zenon DEF IsSymbol
    <3>2. CASE x.qn = new.qn BY <1>2, <1>4, <1>10, <3>2
    <3> QED BY <1>10, <3>1, <3>2
  <2>2. x.name # path BY <1>9, <1>10, Zenon DEF IsSymbol
  <2>3. PICK j \in Definitions(matches) :
            j <= k /\ matches[j].name = old.name /\ matches[j].first = old.first /\ matches[j].last = old.last
    BY <1>9, Zenon DEF IsSymbol
  <2> HIDE DEF x, old
  <2> QED BY <1>10, <2>1, <2>2, <2>3, Zenon DEF IsSymbol
<1>12. /\ \A p \in 2 .. Len(nodes) : p < i => After(nodes[p], x)
       /\ \A p \in 2 .. Len(nodes) : i < p => After(x, nodes[p])
  <2>1. /\ \A p \in 2 .. Len(nodes) : p < i => After(nodes[p], old)
        /\ \A p \in 2 .. Len(nodes) : i < p => After(old, nodes[p])
    BY <1>8 DEF Tidy
  <2> HIDE DEF x, old
  <2> QED BY <1>10, <2>1, Zenon DEF After
<1> HIDE DEF x
<1>13. Tidy([nodes EXCEPT ![i] = x], path, matches, k) BY <1>5, <1>8, <1>11, <1>12, Replaced
<1>14. acc.nodes = [nodes EXCEPT ![i] = x] BY <1>3 DEF x
<1> QED BY <1>13, <1>14

\* A definition that starts above the newest symbol of its name and overlaps it
\* wraps the definition right before it.
LEMMA WidenKeeps ==
    ASSUME NEW path, NEW matches, Sound(path, matches), NEW k \in Definitions(matches), NEW pkg \in Words,
           NEW nodes, Tidy(nodes, path, matches, k - 1),
           NEW acc, Widens(nodes, matches[k], pkg, acc)
    PROVE  Tidy(acc.nodes, path, matches, k)
<1> DEFINE def == matches[k]
           new == NodeOf(pkg, def)
<1>1. IsDefinition(def) /\ def.name # path BY Zenon DEF Sound
<1>2. /\ new \in WalkedNode /\ new.kind # "file"
      /\ new.name = def.name /\ new.first = def.first /\ new.last = def.last
      /\ Len(new.qn) \in Nat \ {0} /\ new.qn[Len(new.qn)] = def.name
  BY <1>1, NodeOfIs
<1>3. PICK i \in DOMAIN nodes :
          /\ IsNewest(nodes, def.name, i) /\ def.first < nodes[i].first
          /\ acc = [nodes |-> [nodes EXCEPT ![i] = Widen(nodes[i], new)], at |-> {i}]
  BY Zenon DEF Widens
<1>4. IsSymbol(new, path, matches, k) BY NewSymbol
<1>5. DOMAIN matches \subseteq Nat /\ k \in DOMAIN matches /\ k \in Nat \ {0} /\ Definitions(matches) \subseteq Nat
  <2>1. DOMAIN matches = 1 .. Len(matches) /\ Len(matches) \in Nat BY DEF Sound
  <2>2. Definitions(matches) \subseteq DOMAIN matches BY DEF Definitions
  <2> QED BY <2>1, <2>2
<1> HIDE DEF def, new
<1>6. nodes \in Seq(WalkedNode) /\ Len(nodes) \in Nat /\ DOMAIN nodes = 1 .. Len(nodes) BY DEF Tidy
<1>7. i \in 2 .. Len(nodes)
  <2>1. nodes[1].kind = "file" BY DEF Tidy
  <2>2. nodes[i].kind # "file" BY <1>3, Zenon DEF IsNewest
  <2> QED BY <1>6, <2>1, <2>2
<1> DEFINE old == nodes[i]
           x == Widen(old, new)
<1>8. old.name = def.name /\ old \in WalkedNode BY <1>3, <1>6, <1>7 DEF IsNewest
<1>9. x = new
  <2> HIDE DEF old
  <2>1. /\ old = [name |-> old.name, qn |-> old.qn, kind |-> old.kind, first |-> old.first, last |-> old.last]
        /\ new = [name |-> new.name, qn |-> new.qn, kind |-> new.kind, first |-> new.first, last |-> new.last]
    BY <1>2, <1>8 DEF WalkedNode
  <2>2. x = [old EXCEPT !.first = new.first, !.last = new.last, !.qn = new.qn, !.kind = new.kind]
    BY Zenon DEF Widen
  <2> HIDE DEF x
  <2> QED BY <1>2, <1>8, <2>1, <2>2
<1> HIDE DEF x
<1>10. InTreeOrder(matches) BY DEF Sound
<1>11. PICK j \in Definitions(matches) :
          j <= k - 1 /\ matches[j].name = old.name /\ matches[j].first = old.first /\ matches[j].last = old.last
  <2>1. IsSymbol(old, path, matches, k - 1) BY <1>7 DEF Tidy
  <2> QED BY <2>1, Zenon DEF IsSymbol
<1>12. def.first \in Nat /\ def.last \in Nat /\ old.first \in Nat /\ old.last \in Nat
  BY <1>1, <1>8 DEF IsDefinition, WalkedNode
<1>13. old.last = def.last /\ \A d \in Definitions(matches) : d <= j \/ k <= d
  <2>1. j < k BY <1>5, <1>11
  <2>2. LET a == matches[j]  b == matches[k]
        IN  \/ a.first < b.first \/ (a.first = b.first /\ b.last <= a.last)
            \/ /\ a.name = b.name /\ a.last = b.last
               /\ \A d \in Definitions(matches) : d <= j \/ k <= d
    BY <1>10, <2>1, Zenon DEF InTreeOrder
  <2>3. ~(matches[j].first < def.first) /\ matches[j].first # def.first
    BY <1>3, <1>11, <1>12
  <2> QED BY <2>2, <2>3, <1>11, Zenon DEF def
<1>14. ASSUME NEW p \in 2 .. Len(nodes), p < i PROVE After(nodes[p], new)
  <2> SUFFICES ASSUME nodes[p].name = new.name PROVE nodes[p].first < new.first /\ nodes[p].last < new.last
    BY DEF After
  <2> DEFINE m == nodes[p]
  <2>1. m.last < old.last
    <3>1. After(m, old) BY <1>7, <1>14 DEF Tidy
    <3> QED BY <3>1, <1>2, <1>8 DEF After
  <2>2. PICK d \in Definitions(matches) :
            d <= k - 1 /\ matches[d].name = m.name /\ matches[d].first = m.first /\ matches[d].last = m.last
    <3>1. IsSymbol(m, path, matches, k - 1) BY DEF Tidy
    <3> QED BY <3>1, Zenon DEF IsSymbol
  <2>3. m \in WalkedNode BY <1>6
  <2>4. m.first \in Nat /\ m.last \in Nat BY <2>3 DEF WalkedNode
  <2> HIDE DEF m, old
  <2>5. m.last < def.last BY <2>1, <1>13
  <2>6. d < k /\ d < j
    <3>1. d < k /\ d \in Nat /\ j \in Nat BY <1>5, <2>2
    <3>2. d <= j BY <3>1, <1>13, <1>5
    <3>3. d # j BY <2>2, <2>1, <1>11, <2>4, <1>12
    <3> QED BY <3>1, <3>2, <3>3
  <2>7. LET a == matches[d]  b == matches[k]
        IN  \/ a.first < b.first \/ (a.first = b.first /\ b.last <= a.last)
            \/ /\ a.name = b.name /\ a.last = b.last
               /\ \A e \in Definitions(matches) : e <= d \/ k <= e
    BY <1>10, <2>6, Zenon DEF InTreeOrder
  <2>8. ~(j <= d \/ k <= j) BY <2>6, <1>5, <1>11
  <2>9. matches[d].first < def.first \/ (matches[d].first = def.first /\ def.last <= matches[d].last)
    BY <2>7, <2>8, Zenon DEF def
  <2>10. m.first < def.first BY <2>9, <2>2, <2>4, <2>5, <1>12
  <2> QED BY <2>10, <2>5, <1>2 DEF m
<1>15. ASSUME NEW p \in 2 .. Len(nodes), i < p PROVE After(new, nodes[p])
  <2>1. nodes[p].kind # "file" BY DEF Tidy, IsSymbol
  <2>2. p \in DOMAIN nodes /\ ~(p <= i) BY <1>6, <1>15
  <2>3. nodes[p].name # def.name BY <1>3, <2>1, <2>2, Zenon DEF IsNewest
  <2> QED BY <2>3, <1>2 DEF After
<1>16. Tidy([nodes EXCEPT ![i] = new], path, matches, k) BY <1>4, <1>5, <1>7, <1>14, <1>15, Replaced DEF new, def
<1>17. acc.nodes = [nodes EXCEPT ![i] = new] BY <1>3, <1>9 DEF x, old
<1> QED BY <1>16, <1>17

\* A definition that no symbol of its name overlaps is below them all.
LEMMA AddKeeps ==
    ASSUME NEW path, NEW matches, Sound(path, matches), NEW k \in Definitions(matches), NEW pkg \in Words,
           NEW nodes, Tidy(nodes, path, matches, k - 1),
           NEW acc, Adds(nodes, matches[k], pkg, acc)
    PROVE  Tidy(acc.nodes, path, matches, k)
<1> DEFINE def == matches[k]
           new == NodeOf(pkg, def)
           L == Len(nodes)
           more == Append(nodes, new)
<1>1. IsDefinition(def) /\ def.name # path BY Zenon DEF Sound
<1>2. /\ new \in WalkedNode /\ new.kind # "file"
      /\ new.name = def.name /\ new.first = def.first /\ new.last = def.last
  BY <1>1, NodeOfIs
<1>3. /\ \A i \in DOMAIN nodes : IsNewest(nodes, def.name, i) => ~RangesOverlap(nodes[i], new)
      /\ acc = [nodes |-> more, at |-> {Len(nodes) + 1}]
  BY Zenon DEF Adds
<1>4. IsSymbol(new, path, matches, k) BY NewSymbol
<1>5. DOMAIN matches \subseteq Nat /\ k \in DOMAIN matches /\ k \in Nat \ {0} /\ Definitions(matches) \subseteq Nat
  <2>1. DOMAIN matches = 1 .. Len(matches) /\ Len(matches) \in Nat BY DEF Sound
  <2>2. Definitions(matches) \subseteq DOMAIN matches BY DEF Definitions
  <2> QED BY <2>1, <2>2
<1>6. nodes \in Seq(WalkedNode) /\ L \in Nat /\ L >= 1 /\ DOMAIN nodes = 1 .. L BY DEF Tidy
<1>7. InTreeOrder(matches) BY DEF Sound
<1>8. def.first \in Nat /\ def.last \in Nat /\ def.first <= def.last BY <1>1 DEF IsDefinition
<1> HIDE DEF def, new
<1>9. /\ more \in Seq(WalkedNode) /\ Len(more) = L + 1 /\ more[L + 1] = new
      /\ \A i \in 1 .. L : more[i] = nodes[i]
  <2>1. more \in Seq(WalkedNode) /\ Len(more) = L + 1 BY <1>2, <1>6
  <2>2. more[L + 1] = new BY <1>2, <1>6
  <2>3. \A i \in 1 .. L : more[i] = nodes[i] BY <1>2, <1>6
  <2> QED BY <2>1, <2>2, <2>3
<1>10. ASSUME NEW p \in 2 .. L PROVE After(nodes[p], new)
  <2> SUFFICES ASSUME nodes[p].name = new.name PROVE nodes[p].first < new.first /\ nodes[p].last < new.last
    BY DEF After
  <2> DEFINE named == {i \in DOMAIN nodes : nodes[i].kind # "file" /\ nodes[i].name = def.name}
  <2>1. nodes[p].kind # "file" /\ p \in DOMAIN nodes BY <1>6 DEF Tidy, IsSymbol
  <2>2. p \in named BY <1>2, <2>1
  <2>3. named \in SUBSET (1 .. L) BY <1>6
  <2>4. PICK i \in named : \A j \in named : j <= i
    <3> HIDE DEF named, L
    <3> QED BY <1>6, <2>2, <2>3, Greatest
  <2>5. IsNewest(nodes, def.name, i) BY <2>4, Zenon DEF IsNewest
  <2>6. i \in 2 .. L /\ i \in DOMAIN nodes /\ nodes[i].name = def.name
    <3>1. nodes[1].kind = "file" BY DEF Tidy
    <3>2. i \in 1 .. L /\ nodes[i].kind # "file" /\ nodes[i].name = def.name BY <2>3, <2>4
    <3> QED BY <1>6, <3>1, <3>2
  <2> DEFINE n == nodes[i]
             m == nodes[p]
  <2>7. ~RangesOverlap(n, new) BY <1>3, <2>5, <2>6
  <2>8. n \in WalkedNode /\ m \in WalkedNode BY <1>6, <2>6
  <2>9. n.first \in Nat /\ n.last \in Nat /\ m.first \in Nat /\ m.last \in Nat BY <2>8 DEF WalkedNode
  <2>10. PICK j \in Definitions(matches) :
            j <= k - 1 /\ matches[j].name = n.name /\ matches[j].first = n.first /\ matches[j].last = n.last
    <3>1. IsSymbol(n, path, matches, k - 1) BY <2>6 DEF Tidy
    <3> QED BY <3>1, Zenon DEF IsSymbol
  <2>11. p <= i BY <2>2, <2>4
  <2>12. p = i \/ (m.first < n.first /\ m.last < n.last)
    <3> SUFFICES ASSUME p # i PROVE m.first < n.first /\ m.last < n.last OBVIOUS
    <3>1. p < i BY <2>11, <2>6
    <3>2. After(m, n) BY <2>6, <3>1 DEF Tidy
    <3> QED BY <3>2, <2>6, <1>2 DEF After
  <2>13. n.first <= n.last
    <3>1. IsDefinition(matches[j]) BY DEF Sound
    <3> QED BY <3>1, <2>10 DEF IsDefinition
  <2>14. p = i => m = n OBVIOUS
  <2> HIDE DEF n, m
  <2>15. n.last < def.first \/ def.last < n.first BY <2>7, <2>9, <1>2, <1>8 DEF RangesOverlap
  <2>16. LET a == matches[j]  b == matches[k]
         IN  \/ a.first < b.first \/ (a.first = b.first /\ b.last <= a.last)
             \/ /\ a.name = b.name /\ a.last = b.last
                /\ \A d \in Definitions(matches) : d <= j \/ k <= d
    <3>1. j < k BY <1>5, <2>10
    <3> QED BY <1>7, <3>1, Zenon DEF InTreeOrder
  <2>17. n.first <= def.first \/ n.last = def.last
    BY <2>16, <2>10, <2>9, <1>8 DEF def
  <2>18. n.last < def.first BY <2>15, <2>17, <2>13, <2>9, <1>8
  <2>19. m.first < def.first /\ m.last < def.last BY <2>18, <2>12, <2>13, <2>14, <2>9, <1>8
  <2> QED BY <2>19, <1>2 DEF m
<1> HIDE DEF more
<1>11. \A i \in 2 .. L : IsSymbol(nodes[i], path, matches, k)
  <2> SUFFICES ASSUME NEW i \in 2 .. L PROVE IsSymbol(nodes[i], path, matches, k) OBVIOUS
  <2>1. IsSymbol(nodes[i], path, matches, k - 1) BY DEF Tidy
  <2>2. k - 1 \in Nat /\ k - 1 <= k BY <1>5
  <2> QED BY <1>5, <2>1, <2>2, SymbolSooner
<1>12. ASSUME NEW i \in 2 .. Len(more) PROVE IsSymbol(more[i], path, matches, k)
  <2>1. CASE i = L + 1 BY <2>1, <1>9, <1>4 DEF new, def
  <2>2. CASE i # L + 1
    <3>1. i \in 2 .. L /\ i \in 1 .. L BY <2>2, <1>6, <1>9
    <3> QED BY <3>1, <1>9, <1>11
  <2> QED BY <2>1, <2>2
<1>13. ASSUME NEW i \in 2 .. Len(more), NEW j \in 2 .. Len(more), i < j PROVE After(more[i], more[j])
  <2>1. i \in 2 .. L /\ more[i] = nodes[i] BY <1>13, <1>6, <1>9
  <2>2. CASE j = L + 1
    <3>1. After(nodes[i], new) BY <1>10, <2>1
    <3> QED BY <3>1, <2>1, <2>2, <1>9
  <2>3. CASE j # L + 1
    <3>1. j \in 2 .. L /\ more[j] = nodes[j] BY <2>3, <1>6, <1>9
    <3> QED BY <2>1, <3>1, <1>13 DEF Tidy
  <2> QED BY <2>2, <2>3
<1>14. Tidy(more, path, matches, k)
  <2>1. nodes[1].kind = "file" /\ nodes[1].name = path /\ nodes[1].qn = <<path>> BY DEF Tidy
  <2>2. more[1] = nodes[1] /\ Len(more) >= 1 BY <1>6, <1>9
  <2> QED BY <1>9, <1>12, <1>13, <2>1, <2>2, Zenon DEF Tidy
<1> QED BY <1>14, <1>3

LEMMA LaterTidy ==
    ASSUME NEW path, NEW matches, Sound(path, matches), NEW k \in DOMAIN matches,
           NEW nodes, Tidy(nodes, path, matches, k - 1)
    PROVE  Tidy(nodes, path, matches, k)
<1>1. DOMAIN matches \subseteq Nat \ {0}
  <2>1. DOMAIN matches = 1 .. Len(matches) /\ Len(matches) \in Nat BY DEF Sound
  <2> QED BY <2>1
<1>2. k \in Nat /\ k - 1 \in Nat /\ k - 1 <= k /\ DOMAIN matches \subseteq Nat BY <1>1
<1>3. \A i \in 2 .. Len(nodes) : IsSymbol(nodes[i], path, matches, k)
  <2> SUFFICES ASSUME NEW i \in 2 .. Len(nodes) PROVE IsSymbol(nodes[i], path, matches, k) OBVIOUS
  <2>1. IsSymbol(nodes[i], path, matches, k - 1) BY DEF Tidy
  <2> QED BY <1>2, <2>1, SymbolSooner
<1> QED BY <1>3, Zenon DEF Tidy

\* Matches that are not definitions leave the nodes alone.
LEMMA MatchKeeps ==
    ASSUME NEW path, NEW matches, Sound(path, matches), NEW k \in DOMAIN matches,
           NEW parsed \in Walked, Tidy(parsed.nodes, path, matches, k - 1)
    PROVE  Tidy(Match(parsed, matches[k]).nodes, path, matches, k)
<1> DEFINE m == matches[k]
           next == Match(parsed, m)
<1>1. m.what \in {"package", "definition", "call", "import"} BY DEF Sound, IsMatch
<1>2. /\ parsed = [package |-> parsed.package, nodes |-> parsed.nodes, edges |-> parsed.edges]
      /\ parsed.package \in Words
  BY DEF Walked
<1>3. CASE m.what = "definition"
  <2>1. next = DefinitionMatch(parsed, m) BY <1>3 DEF Match
  <2> DEFINE acc == Accept(parsed.nodes, m, parsed.package)
  <2>2. next.nodes = acc.nodes BY <2>1, <1>2 DEF DefinitionMatch
  <2>3. k \in Definitions(matches) BY <1>3 DEF Definitions
  <2>4. IsDefinition(m) BY <2>3, Zenon DEF Sound
  <2>5. \/ Merges(parsed.nodes, m, parsed.package, acc)
        \/ Widens(parsed.nodes, m, parsed.package, acc)
        \/ acc = [nodes |-> parsed.nodes, at |-> {}]
        \/ Adds(parsed.nodes, m, parsed.package, acc)
    <3>1. parsed.nodes \in Seq(WalkedNode) BY DEF Tidy
    <3> HIDE DEF m
    <3> QED BY <3>1, <1>2, <2>4, AcceptIs
  <2> DEFINE pkg == parsed.package
             nodes == parsed.nodes
  <2>6. pkg \in Words /\ Tidy(nodes, path, matches, k - 1) BY <1>2
  <2> HIDE DEF acc, next, pkg, nodes
  <2>7. CASE Merges(nodes, matches[k], pkg, acc)
    <3>1. Tidy(acc.nodes, path, matches, k) BY <2>3, <2>6, <2>7, MergeKeeps
    <3> QED BY <3>1, <2>2 DEF next
  <2>8. CASE Widens(nodes, matches[k], pkg, acc)
    <3>1. Tidy(acc.nodes, path, matches, k) BY <2>3, <2>6, <2>8, WidenKeeps
    <3> QED BY <3>1, <2>2 DEF next
  <2>9. CASE Adds(nodes, matches[k], pkg, acc)
    <3>1. Tidy(acc.nodes, path, matches, k) BY <2>3, <2>6, <2>9, AddKeeps
    <3> QED BY <3>1, <2>2 DEF next
  <2>10. CASE acc = [nodes |-> nodes, at |-> {}]
    <3>1. next.nodes = nodes BY <2>2, <2>10
    <3>2. Tidy(nodes, path, matches, k) BY <2>6, LaterTidy
    <3> QED BY <3>1, <3>2 DEF next
  <2> QED BY <2>5, <2>7, <2>8, <2>9, <2>10 DEF nodes, pkg, m
<1>4. CASE m.what # "definition"
  <2>1. next.nodes = parsed.nodes
    <3>1. CASE m.what = "package" BY <3>1, <1>2 DEF Match
    <3>2. CASE m.what = "call" BY <3>2, <1>2 DEF Match, ReferenceMatch
    <3>3. CASE m.what = "import" BY <3>3, <1>2 DEF Match, ReferenceMatch
    <3> QED BY <1>1, <1>4, <3>1, <3>2, <3>3
  <2>2. Tidy(parsed.nodes, path, matches, k) BY LaterTidy
  <2> QED BY <2>1, <2>2
<1> QED BY <1>3, <1>4

-----------------------------------------------------------------------------
\* All the matches of a file

LEMMA MergeType ==
    ASSUME NEW old \in WalkedNode, NEW new \in WalkedNode, NEW receiver
    PROVE  Merge(old, new, receiver) \in WalkedNode /\ Widen(old, new) \in WalkedNode
<1>1. old = [name |-> old.name, qn |-> old.qn, kind |-> old.kind, first |-> old.first, last |-> old.last]
  BY DEF WalkedNode
<1> DEFINE qn == IF receiver # "" /\ receiver \notin Range(old.qn) THEN new.qn ELSE old.qn
           kind == IF old.kind = "type" /\ new.kind = "class" THEN "class" ELSE old.kind
           x == Merge(old, new, receiver)
           y == Widen(old, new)
<1>2. x = [old EXCEPT !.qn = qn, !.kind = kind] BY Zenon DEF Merge
<1>3. y = [old EXCEPT !.first = new.first, !.last = new.last, !.qn = new.qn, !.kind = new.kind]
  BY Zenon DEF Widen
<1>4. qn \in {old.qn, new.qn} /\ kind \in {old.kind, "class"} OBVIOUS
<1> HIDE DEF qn, kind, x, y
<1>5. x \in WalkedNode BY <1>1, <1>2, <1>4 DEF WalkedNode
<1>6. y \in WalkedNode BY <1>1, <1>3 DEF WalkedNode
<1> QED BY <1>5, <1>6 DEF x, y

LEMMA AcceptType ==
    ASSUME NEW nodes \in Seq(WalkedNode), NEW pkg \in Words, NEW def, IsDefinition(def)
    PROVE  LET acc == Accept(nodes, def, pkg)
           IN  acc.nodes \in Seq(WalkedNode) /\ acc.at \subseteq DOMAIN acc.nodes
<1> DEFINE new == NodeOf(pkg, def)
           acc == Accept(nodes, def, pkg)
           after == acc.nodes
<1>1. new \in WalkedNode BY NodeOfIs
<1>2. \/ Merges(nodes, def, pkg, acc)
      \/ Widens(nodes, def, pkg, acc)
      \/ acc = [nodes |-> nodes, at |-> {}]
      \/ Adds(nodes, def, pkg, acc)
  BY AcceptIs
<1> SUFFICES after \in Seq(WalkedNode) /\ acc.at \subseteq DOMAIN after OBVIOUS
<1> HIDE DEF acc
<1>3. ASSUME NEW i \in DOMAIN nodes, NEW x \in WalkedNode, acc = [nodes |-> [nodes EXCEPT ![i] = x], at |-> {i}]
      PROVE  after \in Seq(WalkedNode) /\ acc.at \subseteq DOMAIN after
  <2>1. after = [nodes EXCEPT ![i] = x] /\ acc.at = {i} BY <1>3
  <2>2. [nodes EXCEPT ![i] = x] \in Seq(WalkedNode) /\ i \in DOMAIN [nodes EXCEPT ![i] = x] OBVIOUS
  <2> QED BY <2>1, <2>2
<1>4. CASE Merges(nodes, def, pkg, acc)
  <2>1. PICK i \in SameSpan(nodes, new) :
            acc = [nodes |-> [nodes EXCEPT ![i] = Merge(nodes[i], new, def.receiver)], at |-> {i}]
    BY <1>4, Zenon DEF Merges
  <2>2. i \in DOMAIN nodes BY DEF SameSpan
  <2>3. nodes[i] \in WalkedNode BY <2>2
  <2> DEFINE x == Merge(nodes[i], new, def.receiver)
  <2>4. x \in WalkedNode BY <1>1, <2>3, MergeType, Zenon
  <2>5. acc = [nodes |-> [nodes EXCEPT ![i] = x], at |-> {i}] BY <2>1
  <2> HIDE DEF x
  <2> QED BY <1>3, <2>2, <2>4, <2>5, Zenon
<1>5. CASE Widens(nodes, def, pkg, acc)
  <2>1. PICK i \in DOMAIN nodes : acc = [nodes |-> [nodes EXCEPT ![i] = Widen(nodes[i], new)], at |-> {i}]
    BY <1>5, Zenon DEF Widens
  <2>2. nodes[i] \in WalkedNode OBVIOUS
  <2> DEFINE x == Widen(nodes[i], new)
  <2>3. x \in WalkedNode BY <1>1, <2>2, MergeType, Zenon
  <2>4. acc = [nodes |-> [nodes EXCEPT ![i] = x], at |-> {i}] BY <2>1
  <2> HIDE DEF x
  <2> QED BY <1>3, <2>3, <2>4, Zenon
<1>6. CASE acc = [nodes |-> nodes, at |-> {}]
  <2>1. after = nodes /\ acc.at = {} BY <1>6
  <2> QED BY <2>1
<1>7. CASE Adds(nodes, def, pkg, acc)
  <2>1. acc = [nodes |-> Append(nodes, new), at |-> {Len(nodes) + 1}] BY <1>7, Zenon DEF Adds
  <2>2. after = Append(nodes, new) /\ acc.at = {Len(nodes) + 1} BY <2>1
  <2> HIDE DEF new
  <2>3. Append(nodes, new) \in Seq(WalkedNode) /\ Len(nodes) + 1 \in DOMAIN Append(nodes, new) BY <1>1
  <2> QED BY <2>2, <2>3
<1> QED BY <1>2, <1>4, <1>5, <1>6, <1>7

\* A match makes what a file has into what a file has.
LEMMA MatchType ==
    ASSUME NEW parsed \in Walked, NEW m, IsMatch(m)
    PROVE  Match(parsed, m) \in Walked
<1> DEFINE pkg == parsed.package
           nodes == parsed.nodes
           edges == parsed.edges
<1>1. /\ parsed = [package |-> pkg, nodes |-> nodes, edges |-> edges]
      /\ pkg \in Words /\ nodes \in Seq(WalkedNode) /\ edges \subseteq WalkedEdge
  BY DEF Walked
<1>2. m.what \in {"package", "definition", "call", "import"} BY DEF IsMatch
<1> HIDE DEF pkg, nodes, edges
<1>3. CASE m.what = "package"
  <2>1. m.name \in STRING BY <1>3 DEF IsMatch
  <2>2. Match(parsed, m) = [parsed EXCEPT !.package = m.name] BY <1>3 DEF Match
  <2>3. m.name \in Words BY <2>1 DEF Words
  <2> QED BY <1>1, <2>2, <2>3 DEF Walked
<1>4. ASSUME m.what \in {"call", "import"}, NEW kind \in {"calls", "imports_from"}, Match(parsed, m) = ReferenceMatch(parsed, kind, m)
      PROVE  Match(parsed, m) \in Walked
  <2> DEFINE e == [kind |-> kind, line |-> m.line, source |-> <<>>, target |-> <<m.target>>]
             more == edges \union {e}
  <2>1. m.target \in STRING /\ m.line \in Nat BY <1>4 DEF IsMatch
  <2>2. <<>> \in Seq(STRING) /\ <<m.target>> \in Seq(STRING) BY <2>1, OneLong, Zenon
  <2>3. e \in WalkedEdge
    <3> DEFINE source == <<>>
               target == <<m.target>>
    <3>1. source \in Seq(STRING) /\ target \in Seq(STRING) BY <2>2
    <3> HIDE DEF source, target
    <3>2. [kind |-> kind, line |-> m.line, source |-> source, target |-> target] \in WalkedEdge
      BY <2>1, <3>1 DEF WalkedEdge
    <3> QED BY <3>2 DEF source, target
  <2>4. ReferenceMatch(parsed, kind, m) = [parsed EXCEPT !.edges = more] BY <1>1 DEF ReferenceMatch
  <2> HIDE DEF e
  <2>5. more \subseteq WalkedEdge BY <1>1, <2>3
  <2> HIDE DEF more
  <2> QED BY <1>1, <1>4, <2>4, <2>5 DEF Walked
<1>5. CASE m.what = "definition"
  <2> DEFINE acc == Accept(nodes, m, pkg)
             after == acc.nodes
             new == {[kind |-> "implements", line |-> m.first, source |-> after[i].qn, target |-> <<t>>] :
                        i \in acc.at, t \in m.implements}
             more == AppendUnique(edges, new)
  <2>1. IsDefinition(m) BY <1>5 DEF IsMatch
  <2>2. after \in Seq(WalkedNode) /\ acc.at \subseteq DOMAIN after BY <1>1, <2>1, AcceptType
  <2>3. Match(parsed, m) = [parsed EXCEPT !.nodes = after, !.edges = more]
    <3>1. Match(parsed, m) = DefinitionMatch(parsed, m) BY <1>5 DEF Match
    <3>2. DefinitionMatch(parsed, m) = [parsed EXCEPT !.nodes = after, !.edges = AppendUnique(@, new)]
      BY DEF DefinitionMatch, pkg, nodes
    <3> HIDE DEF acc, new, after
    <3> QED BY <3>1, <3>2, <1>1
  <2> HIDE DEF acc
  <2>4. new \subseteq WalkedEdge
    <3> SUFFICES ASSUME NEW i \in acc.at, NEW t \in m.implements
                 PROVE  [kind |-> "implements", line |-> m.first, source |-> after[i].qn, target |-> <<t>>] \in WalkedEdge
      OBVIOUS
    <3> HIDE DEF after
    <3>1. m.first \in Nat /\ t \in STRING BY <2>1 DEF IsDefinition
    <3>2. after[i] \in WalkedNode BY <2>2
    <3>3. after[i].qn \in Seq(STRING) BY <3>2 DEF WalkedNode
    <3>4. <<t>> \in Seq(STRING) BY <3>1, OneLong, Zenon
    <3> DEFINE source == after[i].qn
               target == <<t>>
    <3> HIDE DEF source, target
    <3>5. [kind |-> "implements", line |-> m.first, source |-> source, target |-> target] \in WalkedEdge
      <4>1. source \in Seq(STRING) /\ target \in Seq(STRING) BY <3>3, <3>4 DEF source, target
      <4> QED BY <3>1, <4>1 DEF WalkedEdge
    <3> QED BY <3>5 DEF source, target
  <2> HIDE DEF new, after
  <2>5. more \subseteq WalkedEdge BY <1>1, <2>4 DEF AppendUnique
  <2> HIDE DEF more
  <2> QED BY <1>1, <2>2, <2>3, <2>5 DEF Walked
<1>6. CASE m.what = "call"
  <2>1. Match(parsed, m) = ReferenceMatch(parsed, "calls", m) BY <1>6 DEF Match
  <2> DEFINE kind == "calls"
  <2>2. kind \in {"calls", "imports_from"} OBVIOUS
  <2> HIDE DEF kind
  <2> QED BY <1>4, <1>6, <2>1, <2>2 DEF kind
<1>7. CASE m.what = "import"
  <2>1. Match(parsed, m) = ReferenceMatch(parsed, "imports_from", m) BY <1>7 DEF Match
  <2> DEFINE kind == "imports_from"
  <2>2. kind \in {"calls", "imports_from"} OBVIOUS
  <2> HIDE DEF kind
  <2> QED BY <1>4, <1>7, <2>1, <2>2 DEF kind
<1> QED BY <1>2, <1>3, <1>5, <1>6, <1>7

\* The nodes of a file, however many patterns capture a symbol.
LEMMA FilesAreTidy ==
    ASSUME NEW path \in STRING, NEW lines \in Nat, NEW matches, Sound(path, matches)
    PROVE  Tidy(ExecuteQueries(path, lines, "", matches).nodes, path, matches, Len(matches))
<1> DEFINE n == Len(matches)
           D == Walked
           b == [package |-> "", nodes |-> <<FileNodeOf(path, lines)>>, edges |-> {}]
           F == [i \in 1 .. n |-> [p \in D |-> Match(p, matches[i])]]
           v == CHOOSE parsed : parsed = [i \in 0 .. n |-> IF i = 0 THEN b ELSE Match(parsed[i - 1], matches[i])]
<1>1. n \in Nat /\ DOMAIN matches = 1 .. n BY DEF Sound
<1>2. Tidy(b.nodes, path, matches, 0) /\ b \in D
  <2> DEFINE file == FileNodeOf(path, lines)
  <2>1. file \in WalkedNode /\ file.kind = "file" /\ file.name = path /\ file.qn = <<path>>
    <3>1. <<path>> \in Seq(STRING) BY OneLong, Zenon
    <3>2. file = [name |-> path, qn |-> <<path>>, kind |-> "file", first |-> 1, last |-> lines]
      BY Zenon DEF FileNodeOf
    <3> DEFINE qn == <<path>>
    <3> HIDE DEF file, qn
    <3>3. file.qn = qn /\ qn \in Seq(STRING) BY <3>1, <3>2 DEF qn
    <3>4. file.kind = "file" /\ file.name = path BY <3>2
    <3>5. file \in WalkedNode
      <4>1. file = [name |-> path, qn |-> qn, kind |-> "file", first |-> 1, last |-> lines] BY <3>2 DEF qn
      <4> QED BY <4>1, <3>3 DEF WalkedNode
    <3> QED BY <3>3, <3>4, <3>5 DEF qn
  <2> HIDE DEF file
  <2> DEFINE nodes == <<file>>
  <2>2. nodes \in Seq(WalkedNode) /\ Len(nodes) = 1 /\ nodes[1] = file BY <2>1, OneLong, Zenon
  <2>3. b = [package |-> "", nodes |-> nodes, edges |-> {}] /\ b.nodes = nodes BY DEF file
  <2> HIDE DEF nodes, b
  <2>4. Tidy(nodes, path, matches, 0)
    <3>1. Len(nodes) >= 1 /\ 2 .. Len(nodes) = {} BY <2>2
    <3> QED BY <2>1, <2>2, <3>1, Zenon DEF Tidy
  <2>5. b \in D
    <3>1. "" \in Words BY DEF Words
    <3>2. {} \in SUBSET WalkedEdge OBVIOUS
    <3> QED BY <2>2, <2>3, <3>1, <3>2 DEF Walked
  <2> QED BY <2>3, <2>4, <2>5
<1> HIDE DEF b
<1>3. \A i \in 1 .. n : IsMatch(matches[i]) BY <1>1 DEF Sound
<1>4. F \in [1 .. n -> [D -> D]]
  <2> SUFFICES ASSUME NEW i \in 1 .. n, NEW p \in D PROVE Match(p, matches[i]) \in D OBVIOUS
  <2> QED BY <1>3, MatchType
<1>5. v \in [0 .. n -> D] /\ v = [i \in 0 .. n |-> IF i = 0 THEN b ELSE Match(v[i - 1], matches[i])]
  <2>1. PICK g : Recurs(g, D, b, n, F)
    <3> HIDE DEF D, F, n
    <3> QED BY <1>1, <1>2, <1>4, Recursion, Zenon
  <2>2. ASSUME NEW i \in 1 .. n PROVE g[i] = Match(g[i - 1], matches[i])
    <3>0. i - 1 \in 0 .. n BY <1>1
    <3>1. g[i - 1] \in D BY <2>1, <3>0, Zenon DEF Recurs
    <3>2. g[i] = F[i][g[i - 1]] BY <2>1 DEF Recurs
    <3>3. F[i][g[i - 1]] = Match(g[i - 1], matches[i]) BY <3>1
    <3> HIDE DEF F
    <3> QED BY <3>2, <3>3
  <2>3. g = [i \in 0 .. n |-> IF i = 0 THEN b ELSE Match(g[i - 1], matches[i])]
    <3>1. g \in [0 .. n -> D] /\ g[0] = b BY <2>1, Zenon DEF Recurs
    <3>2. ASSUME NEW i \in 0 .. n
          PROVE  g[i] = IF i = 0 THEN b ELSE Match(g[i - 1], matches[i])
      <4>1. CASE i = 0 BY <3>1, <4>1
      <4>2. CASE i # 0
        <5>1. i \in 1 .. n BY <4>2, <1>1
        <5> QED BY <2>2, <4>2, <5>1, Zenon
      <4> QED BY <4>1, <4>2
    <3> QED BY <3>1, <3>2, Zenon
  <2>4. v = [i \in 0 .. n |-> IF i = 0 THEN b ELSE Match(v[i - 1], matches[i])] BY <2>3, Zenon
  <2>5. \A i \in 0 .. n : v[i] = IF i = 0 THEN b ELSE Match(v[i - 1], matches[i]) BY <2>4, Zenon
  <2> HIDE DEF v, F
  <2> DEFINE S == {i \in 0 .. n : v[i] \in D}
  <2>6. 0 \in 0 .. n BY <1>1
  <2>7. 0 \in S BY <2>5, <2>6, <1>2
  <2>8. ASSUME NEW i \in 1 .. n, i - 1 \in S PROVE i \in S
    <3>1. i \in 0 .. n /\ i # 0 BY <1>1
    <3>2. v[i] = Match(v[i - 1], matches[i]) BY <2>5, <3>1, Zenon
    <3>3. v[i - 1] \in Walked BY <2>8
    <3> HIDE DEF n
    <3> QED BY <1>3, <3>1, <3>2, <3>3, MatchType
  <2>9. 0 .. n \subseteq S
    <3> HIDE DEF S, n
    <3> QED BY <1>1, <2>7, <2>8, UpToInduction
  <2>10. \A i \in 0 .. n : v[i] \in D BY <2>9
  <2> QED BY <2>4, <2>10, Zenon
<1>6. ExecuteQueries(path, lines, "", matches) = v[n] BY Zenon DEF ExecuteQueries, Parses, b
<1> HIDE DEF v
<1>7. \A i \in 0 .. n : v[i] = IF i = 0 THEN b ELSE Match(v[i - 1], matches[i]) BY <1>5, Zenon
<1> DEFINE S == {i \in 0 .. n : Tidy(v[i].nodes, path, matches, i)}
<1>8. 0 \in 0 .. n /\ n \in 0 .. n BY <1>1
<1>9. 0 \in S
  <2>1. v[0] = b BY <1>7, <1>8, Zenon
  <2> QED BY <2>1, <1>2, <1>8
<1>10. ASSUME NEW i \in 1 .. n, i - 1 \in S PROVE i \in S
  <2>1. i \in 0 .. n /\ i # 0 /\ i - 1 \in 0 .. n /\ i \in DOMAIN matches BY <1>1
  <2>2. v[i] = Match(v[i - 1], matches[i]) BY <1>7, <2>1, Zenon
  <2>3. v[i - 1] \in Walked BY <1>5, <2>1
  <2>4. Tidy(v[i - 1].nodes, path, matches, i - 1) BY <1>10
  <2>5. Tidy(Match(v[i - 1], matches[i]).nodes, path, matches, i) BY <2>1, <2>3, <2>4, MatchKeeps
  <2> QED BY <2>1, <2>2, <2>5
<1>11. 0 .. n \subseteq S
  <2> HIDE DEF S, n
  <2> QED BY <1>1, <1>9, <1>10, UpToInduction
<1>12. Tidy(v[n].nodes, path, matches, n) BY <1>8, <1>11
<1> QED BY <1>6, <1>12

\* No two nodes of a file have the same key, and no symbol is inside another of
\* its name.
KeysDiffer(nodes) == \A i, j \in DOMAIN nodes : i # j => Key(nodes[i]) # Key(nodes[j])
Within(m, n) == n.first <= m.first /\ m.last <= n.last
NoneWithin(nodes) ==
    \A i, j \in DOMAIN nodes : i # j /\ nodes[i].name = nodes[j].name => ~Within(nodes[i], nodes[j])

LEMMA TidyIsStorable ==
    ASSUME NEW nodes, NEW path, NEW matches, NEW k, Tidy(nodes, path, matches, k)
    PROVE  KeysDiffer(nodes) /\ NoneWithin(nodes)
<1>1. nodes \in Seq(WalkedNode) /\ Len(nodes) \in Nat /\ Len(nodes) >= 1 /\ DOMAIN nodes = 1 .. Len(nodes)
  BY DEF Tidy
<1>2. ASSUME NEW i \in DOMAIN nodes, NEW j \in DOMAIN nodes, i < j
      PROVE  /\ nodes[i].qn # nodes[j].qn \/ nodes[i].first # nodes[j].first
             /\ nodes[i].name = nodes[j].name => /\ ~Within(nodes[i], nodes[j])
                                                 /\ ~Within(nodes[j], nodes[i])
  <2>1. j \in 2 .. Len(nodes) BY <1>1, <1>2
  <2>2. IsSymbol(nodes[j], path, matches, k) BY <2>1 DEF Tidy
  <2>3. CASE i = 1
    <3> DEFINE a == nodes[1]
               b == nodes[j]
               qn == b.qn
    <3>1. a.name = path /\ a.qn = <<path>> BY DEF Tidy
    <3>2. b.name # path /\ Len(qn) \in Nat \ {0} /\ qn[Len(qn)] = b.name BY <2>2 DEF IsSymbol
    <3>3. qn # <<path>>
      <4> SUFFICES ASSUME qn = <<path>> PROVE FALSE OBVIOUS
      <4>1. Len(<<path>>) = 1 /\ <<path>>[1] = path OBVIOUS
      <4> HIDE DEF qn
      <4>2. Len(qn) = 1 /\ qn[1] = path BY <4>1
      <4> QED BY <3>2, <4>2
    <3> HIDE DEF a, b, qn
    <3> QED BY <2>3, <3>1, <3>2, <3>3, Zenon DEF a, b, qn
  <2>4. CASE i # 1
    <3>1. i \in 2 .. Len(nodes) BY <1>1, <2>4
    <3> DEFINE a == nodes[i]
               b == nodes[j]
    <3>2. IsSymbol(a, path, matches, k) BY <3>1 DEF Tidy
    <3>3. After(a, b) BY <1>2, <2>1, <3>1 DEF Tidy
    <3>4. /\ a.first \in Nat /\ a.last \in Nat /\ b.first \in Nat /\ b.last \in Nat
          /\ a.name = a.qn[Len(a.qn)] /\ b.name = b.qn[Len(b.qn)]
      <4>1. a \in WalkedNode /\ b \in WalkedNode BY <2>2, <3>2, Zenon DEF IsSymbol
      <4>2. a.name = a.qn[Len(a.qn)] /\ b.name = b.qn[Len(b.qn)] BY <2>2, <3>2, Zenon DEF IsSymbol
      <4> QED BY <4>1, <4>2 DEF WalkedNode
    <3> HIDE DEF a, b
    <3>5. a.qn = b.qn => a.name = b.name BY <3>4
    <3>6. a.name = b.name => a.first < b.first /\ a.last < b.last BY <3>3, Zenon DEF After
    <3>7. /\ a.qn # b.qn \/ a.first # b.first
          /\ a.name = b.name => ~Within(a, b) /\ ~Within(b, a)
      BY <3>4, <3>5, <3>6 DEF Within
    <3> QED BY <3>7 DEF a, b
  <2> QED BY <2>3, <2>4
<1>3. KeysDiffer(nodes)
  <2> SUFFICES ASSUME NEW i \in DOMAIN nodes, NEW j \in DOMAIN nodes, i # j
               PROVE  Key(nodes[i]) # Key(nodes[j])
    BY Zenon DEF KeysDiffer
  <2>1. i < j \/ j < i BY <1>1
  <2>2. nodes[i].qn # nodes[j].qn \/ nodes[i].first # nodes[j].first BY <1>2, <2>1
  <2> QED BY <2>2 DEF Key
<1>4. NoneWithin(nodes)
  <2> SUFFICES ASSUME NEW i \in DOMAIN nodes, NEW j \in DOMAIN nodes, i # j, nodes[i].name = nodes[j].name
               PROVE  ~Within(nodes[i], nodes[j])
    BY Zenon DEF NoneWithin
  <2>1. i < j \/ j < i BY <1>1
  <2> QED BY <1>2, <2>1
<1> QED BY <1>3, <1>4

-----------------------------------------------------------------------------
\* Annotations of a file

\* r takes the one element of some of the first k sequences of s, of each once.
Picks(r, E, s, k) ==
    /\ r \in Seq(E)
    /\ \E p \in [1 .. Len(r) -> 1 .. k] :
          /\ \A i \in 1 .. Len(r) : Len(s[p[i]]) = 1 /\ r[i] = s[p[i]][1]
          /\ \A i, j \in 1 .. Len(r) : p[i] = p[j] => i = j

LEMMA OneMorePicked ==
    ASSUME NEW E, NEW n \in Nat, NEW s \in [1 .. n -> Seq(E)], NEW k \in 1 .. n, Len(s[k]) <= 1,
           NEW r, Picks(r, E, s, k - 1)
    PROVE  Picks(r \o s[k], E, s, k)
<1> DEFINE t == s[k]
           L == Len(r)
<1>1. t \in Seq(E) /\ r \in Seq(E) /\ L \in Nat /\ Len(t) \in {0, 1}
  <2>1. t \in Seq(E) /\ Len(t) <= 1 /\ Len(t) \in Nat
    <3>1. t \in Seq(E) OBVIOUS
    <3>2. Len(t) <= 1 OBVIOUS
    <3> HIDE DEF t
    <3> QED BY <3>1, <3>2
  <2>2. r \in Seq(E) BY Zenon DEF Picks
  <2> HIDE DEF t
  <2>3. \A l \in Nat : l <= 1 => l \in {0, 1} OBVIOUS
  <2>4. Len(t) \in {0, 1} BY <2>1, <2>3, Zenon
  <2> QED BY <2>1, <2>2, <2>4
<1>2. PICK p \in [1 .. L -> 1 .. k - 1] :
          /\ \A i \in 1 .. L : Len(s[p[i]]) = 1 /\ r[i] = s[p[i]][1]
          /\ \A i, j \in 1 .. L : p[i] = p[j] => i = j
  BY Zenon DEF Picks
<1>3. CASE Len(t) = 0
  <2>1. r \o t = r
    <3> HIDE DEF t
    <3> QED BY <1>1, <1>3
  <2>2. p \in [1 .. L -> 1 .. k] OBVIOUS
  <2>3. Picks(r, E, s, k) BY <1>1, <1>2, <2>2, Zenon DEF Picks
  <2> QED BY <2>1, <2>3
<1>4. CASE Len(t) = 1
  <2> DEFINE q == [i \in 1 .. L + 1 |-> IF i = L + 1 THEN k ELSE p[i]]
             more == r \o t
  <2>1. /\ more \in Seq(E) /\ Len(more) = L + 1 /\ more[L + 1] = t[1]
        /\ \A i \in 1 .. L : more[i] = r[i]
    <3> HIDE DEF t
    <3> QED BY <1>1, <1>4, OneMore, Zenon
  <2> HIDE DEF more
  <2>2. q \in [1 .. L + 1 -> 1 .. k] /\ q[L + 1] = k /\ \A i \in 1 .. L : q[i] = p[i] /\ p[i] \in 1 .. k - 1
    <3> HIDE DEF L
    <3>0. k \in Nat /\ k \in 1 .. k OBVIOUS
    <3>1. \A i \in 1 .. L : p[i] \in 1 .. k - 1 /\ p[i] \in 1 .. k
      <4> SUFFICES ASSUME NEW i \in 1 .. L PROVE p[i] \in 1 .. k - 1 /\ p[i] \in 1 .. k OBVIOUS
      <4>1. p[i] \in 1 .. k - 1 OBVIOUS
      <4> QED BY <3>0, <4>1
    <3>2. \A i \in 1 .. L + 1 : i = L + 1 \/ i \in 1 .. L BY <1>1
    <3>3. q \in [1 .. L + 1 -> 1 .. k] BY <3>0, <3>1, <3>2
    <3>4. L + 1 \in 1 .. L + 1 /\ \A i \in 1 .. L : i \in 1 .. L + 1 /\ i # L + 1 BY <1>1
    <3> QED BY <3>1, <3>3, <3>4
  <2> HIDE DEF q
  <2>3. \A i \in 1 .. L + 1 : i = L + 1 \/ i \in 1 .. L BY <1>1
  <2>4. \A i \in 1 .. L + 1 : Len(s[q[i]]) = 1 /\ more[i] = s[q[i]][1]
    BY <1>2, <1>4, <2>1, <2>2, <2>3, Zenon
  <2>5. \A i \in 1 .. L : q[i] # k BY <2>2
  <2>6. \A i, j \in 1 .. L + 1 : q[i] = q[j] => i = j BY <1>2, <2>2, <2>3, <2>5, Zenon
  <2>7. Picks(more, E, s, k)
    <3>1. q \in [1 .. Len(more) -> 1 .. k] BY <2>1, <2>2
    <3>2. \A i \in 1 .. Len(more) : Len(s[q[i]]) = 1 /\ more[i] = s[q[i]][1] BY <2>1, <2>4
    <3>3. \A i, j \in 1 .. Len(more) : q[i] = q[j] => i = j BY <2>1, <2>6
    <3> QED BY <2>1, <3>1, <3>2, <3>3, Zenon DEF Picks
  <2> QED BY <2>7 DEF more
<1> QED BY <1>1, <1>3, <1>4

LEMMA Flattened ==
    ASSUME NEW E, NEW n \in Nat, NEW s \in [1 .. n -> Seq(E)], \A i \in 1 .. n : Len(s[i]) <= 1
    PROVE  Picks(FlattenSeq(s), E, s, n)
<1>0. Len(s) = n /\ DOMAIN s = 1 .. n OBVIOUS
<1>1. Picks(<<>>, E, s, 0)
  <2> DEFINE p == [i \in 1 .. 0 |-> 0]
             none == <<>>
  <2>1. p \in [1 .. 0 -> 1 .. 0] /\ none \in Seq(E) /\ Len(none) = 0 /\ 1 .. 0 = {} OBVIOUS
  <2> HIDE DEF p, none
  <2>2. Picks(none, E, s, 0) BY <2>1, Zenon DEF Picks
  <2> QED BY <2>2 DEF none
<1>2. CASE n = 0
  <2>1. s = <<>> BY <1>2
  <2>2. FlattenSeq(s) = s BY <1>0, <1>2 DEF FlattenSeq
  <2> QED BY <1>1, <1>2, <2>1, <2>2
<1>3. CASE n # 0
  <2> DEFINE D == Seq(E)
             F == [i \in 1 .. n |-> [r \in D |-> r \o s[i]]]
             v == CHOOSE flatten : flatten = [i \in 1 .. n |-> IF i = 1 THEN s[i] ELSE flatten[i - 1] \o s[i]]
  <2>1. F \in [1 .. n -> [D -> D]]
    <3> SUFFICES ASSUME NEW i \in 1 .. n, NEW r \in D PROVE r \o s[i] \in D OBVIOUS
    <3>1. s[i] \in Seq(E) OBVIOUS
    <3> QED BY <3>1
  <2>2. v = [i \in 1 .. n |-> IF i = 1 THEN s[i] ELSE v[i - 1] \o s[i]]
    <3>1. PICK g : Recurs(g, D, <<>>, n, F)
      <4>1. <<>> \in D OBVIOUS
      <4> HIDE DEF D, F
      <4> QED BY <2>1, <4>1, Recursion, Zenon
    <3> DEFINE h == [i \in 1 .. n |-> g[i]]
    <3>2. ASSUME NEW i \in 1 .. n PROVE g[i] = g[i - 1] \o s[i]
      <4>0. i - 1 \in 0 .. n OBVIOUS
      <4>1. g[i - 1] \in D BY <3>1, <4>0, Zenon DEF Recurs
      <4>2. g[i] = F[i][g[i - 1]] BY <3>1 DEF Recurs
      <4>3. F[i][g[i - 1]] = g[i - 1] \o s[i] BY <4>1
      <4> HIDE DEF F
      <4> QED BY <4>2, <4>3
    <3>3. h = [i \in 1 .. n |-> IF i = 1 THEN s[i] ELSE h[i - 1] \o s[i]]
      <4>1. ASSUME NEW i \in 1 .. n PROVE g[i] = IF i = 1 THEN s[i] ELSE h[i - 1] \o s[i]
        <5>1. CASE i = 1
          <6>1. g[0] = <<>> BY <3>1, Zenon DEF Recurs
          <6>2. g[1] = <<>> \o s[1] BY <3>2, <5>1, <6>1
          <6>3. s[1] \in Seq(E) BY <5>1
          <6> DEFINE t == s[1]
          <6> HIDE DEF t
          <6>4. <<>> \o t = t BY <6>3 DEF t
          <6> QED BY <5>1, <6>2, <6>4 DEF t
        <5>2. CASE i # 1
          <6>1. i - 1 \in 1 .. n BY <5>2
          <6>2. h[i - 1] = g[i - 1] BY <6>1
          <6> QED BY <3>2, <5>2, <6>2
        <5> QED BY <5>1, <5>2
      <4>2. h = [i \in 1 .. n |-> g[i]] OBVIOUS
      <4> HIDE DEF h
      <4> QED BY <4>1, <4>2, Zenon
    <3> HIDE DEF h
    <3> QED BY <3>3, Zenon
  <2>3. FlattenSeq(s) = v[n] BY <1>0, <1>3, Zenon DEF FlattenSeq
  <2> HIDE DEF v, F
  <2>4. \A i \in 1 .. n : v[i] = IF i = 1 THEN s[i] ELSE v[i - 1] \o s[i] BY <2>2, Zenon
  <2> DEFINE S == {i \in 0 .. n : i = 0 \/ Picks(v[i], E, s, i)}
  <2>5. 0 \in S OBVIOUS
  <2>6. ASSUME NEW i \in 1 .. n, i - 1 \in S PROVE i \in S
    <3>1. i \in 0 .. n OBVIOUS
    <3>2. Picks(v[i], E, s, i)
      <4>1. CASE i = 1
        <5> DEFINE t == s[1]
        <5>1. v[1] = t BY <2>4, <4>1
        <5>2. t \in Seq(E) BY <4>1
        <5> HIDE DEF t
        <5>3. <<>> \o t = t BY <5>2
        <5>4. Picks(<<>> \o s[1], E, s, 1)
          <6>1. 1 \in 1 .. n /\ 1 - 1 = 0 BY <4>1
          <6>2. Len(s[1]) <= 1 BY <6>1
          <6> QED BY <1>1, <6>1, <6>2, OneMorePicked
        <5> QED BY <4>1, <5>1, <5>3, <5>4 DEF t
      <4>2. CASE i # 1
        <5>1. Picks(v[i - 1], E, s, i - 1) BY <2>6, <4>2
        <5>2. v[i] = v[i - 1] \o s[i] BY <2>4, <4>2
        <5>3. Picks(v[i - 1] \o s[i], E, s, i) BY <5>1, OneMorePicked
        <5> QED BY <5>2, <5>3
      <4> QED BY <4>1, <4>2
    <3> QED BY <3>1, <3>2
  <2>7. 0 .. n \subseteq S
    <3> HIDE DEF S
    <3> QED BY <2>5, <2>6, UpToInduction
  <2>8. Picks(v[n], E, s, n) BY <1>3, <2>7
  <2> QED BY <2>3, <2>8
<1> QED BY <1>2, <1>3

LEMMA DistinctRange ==
    ASSUME NEW E, NEW q \in Seq(E), \A i, j \in 1 .. Len(q) : q[i] = q[j] => i = j
    PROVE  Cardinality(Range(q)) = Len(q)
<1>1. Len(q) \in Nat /\ DOMAIN q = 1 .. Len(q) OBVIOUS
<1>2. q \in [1 .. Len(q) -> Range(q)] BY <1>1 DEF Range
<1>3. q \in Surjection(1 .. Len(q), Range(q)) BY <1>1, <1>2, Zenon DEF Surjection, Range
<1>4. q \in Injection(1 .. Len(q), Range(q)) BY <1>2, Zenon DEF Injection, IsInjective
<1>5. ExistsBijection(1 .. Len(q), Range(q)) BY <1>3, <1>4, Zenon DEF ExistsBijection, Bijection
<1> QED BY <1>1, <1>5, FS_CountingElements

\* What is bound is bound to nodes, to each at most once.
BoundTo(bindings, nodes) ==
    /\ DOMAIN bindings = 1 .. Len(bindings) /\ Len(bindings) \in Nat
    /\ \E p \in [1 .. Len(bindings) -> DOMAIN nodes] :
          /\ \A i \in 1 .. Len(bindings) : bindings[i].node = nodes[p[i]]
          /\ \A i, j \in 1 .. Len(bindings) : p[i] = p[j] => i = j

LEMMA BindIs ==
    ASSUME NEW T, NEW nodes \in Seq(T), NEW comments, NEW lang, NEW lines
    PROVE  BoundTo(Bind(comments, nodes, lang, lines), nodes)
<1> DEFINE n == Len(nodes)
           Of(i) == BindNode(comments, nodes[i], lang, lines)
           s == [i \in 1 .. n |-> Of(i)]
           E == {Of(i)[1] : i \in 1 .. n}
           r == Bind(comments, nodes, lang, lines)
<1>1. n \in Nat /\ DOMAIN nodes = 1 .. n OBVIOUS
<1>2. r = FlattenSeq(s) BY <1>1, Zenon DEF Bind
<1>3. ASSUME NEW i \in 1 .. n
      PROVE  /\ Of(i) \in Seq(E) /\ Len(Of(i)) <= 1
             /\ Len(Of(i)) = 1 => Of(i)[1].node = nodes[i]
  <2> DEFINE c == SelectSeq(comments, LAMBDA k : Binds(k, nodes[i], lines))
             first == Binding(c[1], nodes[i], lang)
             x == Of(i)
  <2>1. x = <<>> \/ x = <<first>> BY Zenon DEF BindNode
  <2>2. first.node = nodes[i] BY DEF Binding
  <2> HIDE DEF first, n
  <2>3. x[1] \in E OBVIOUS
  <2> HIDE DEF E, Of
  <2>4. CASE x = <<>> BY <2>4
  <2>5. CASE x = <<first>>
    <3>1. <<first>>[1] = first OBVIOUS
    <3>2. first \in E BY <2>3, <2>5, <3>1
    <3>3. <<first>> \in Seq(E) /\ Len(<<first>>) = 1 /\ <<first>>[1] = first BY <3>2, OneLong, Zenon
    <3> QED BY <2>2, <2>5, <3>3
  <2> QED BY <2>1, <2>4, <2>5
<1> HIDE DEF E, Of, n
<1>4. s \in [1 .. n -> Seq(E)] /\ \A i \in 1 .. n : s[i] = Of(i) BY <1>3
<1>5. \A i \in 1 .. n : Len(s[i]) <= 1 BY <1>3, <1>4
<1> HIDE DEF s
<1>6. Picks(r, E, s, n) BY <1>1, <1>2, <1>4, <1>5, Flattened
<1> HIDE DEF r
<1>7. PICK p \in [1 .. Len(r) -> 1 .. n] :
          /\ \A i \in 1 .. Len(r) : Len(s[p[i]]) = 1 /\ r[i] = s[p[i]][1]
          /\ \A i, j \in 1 .. Len(r) : p[i] = p[j] => i = j
  BY <1>6, Zenon DEF Picks
<1>8. r \in Seq(E) BY <1>6, Zenon DEF Picks
<1>9. DOMAIN r = 1 .. Len(r) /\ Len(r) \in Nat BY <1>8
<1>10. \A i \in 1 .. Len(r) : r[i].node = nodes[p[i]] BY <1>3, <1>4, <1>7
<1>11. BoundTo(r, nodes) BY <1>1, <1>7, <1>9, <1>10, Zenon DEF BoundTo
<1> QED BY <1>11 DEF r

\* Annotations are for nodes that are stored, no two for the same.
Fits(batch, db) ==
    LET ids == {batch[i].id : i \in DOMAIN batch}
    IN  Cardinality(ids) = Len(batch) /\ ids \subseteq DOMAIN db.nodes

LEMMA CollectedFits ==
    ASSUME NEW T, NEW nodes \in Seq(T), KeysDiffer(nodes), NEW db, NEW comments, NEW lang, NEW lines
    PROVE  Fits(CollectAnnotations(db, nodes, comments, lang, lines), db)
<1> DEFINE b == IF comments = <<>> \/ lang = "" THEN <<>> ELSE Bind(comments, nodes, lang, lines)
           n == Len(b)
           Of(i) == AnnotationRow(db, b[i])
           s == [i \in 1 .. n |-> Of(i)]
           E == {Of(i)[1] : i \in 1 .. n}
           r == CollectAnnotations(db, nodes, comments, lang, lines)
           ids == {r[i].id : i \in DOMAIN r}
<1>1. BoundTo(b, nodes)
  <2>1. CASE b = <<>>
    <3> DEFINE p == [i \in 1 .. 0 |-> 0]
               none == <<>>
    <3>1. /\ DOMAIN none = 1 .. 0 /\ Len(none) = 0 /\ 0 \in Nat /\ 1 .. 0 = {}
          /\ p \in [1 .. 0 -> DOMAIN nodes]
      OBVIOUS
    <3> HIDE DEF p, none
    <3>2. BoundTo(none, nodes) BY <3>1, Zenon DEF BoundTo
    <3> QED BY <2>1, <3>2 DEF none
  <2>2. CASE b = Bind(comments, nodes, lang, lines) BY <2>2, BindIs
  <2> QED BY <2>1, <2>2
<1>2. n \in Nat /\ DOMAIN b = 1 .. n BY <1>1, Zenon DEF BoundTo
<1>3. PICK to \in [1 .. n -> DOMAIN nodes] :
          /\ \A i \in 1 .. n : b[i].node = nodes[to[i]]
          /\ \A i, j \in 1 .. n : to[i] = to[j] => i = j
  BY <1>1, Zenon DEF BoundTo
<1>4. r = FlattenSeq(s) BY <1>2, Zenon DEF CollectAnnotations
<1> HIDE DEF b, n
<1>5. ASSUME NEW i \in 1 .. n
      PROVE  /\ Of(i) \in Seq(E) /\ Len(Of(i)) <= 1
             /\ Len(Of(i)) = 1 => Of(i)[1].id = Key(b[i].node) /\ Key(b[i].node) \in DOMAIN db.nodes
  <2> DEFINE row == [id |-> Key(b[i].node), annotation |-> b[i].annotation]
             x == Of(i)
  <2>1. \/ x = <<>>
        \/ x = <<row>> /\ Key(b[i].node) \in DOMAIN db.nodes
    BY Zenon DEF AnnotationRow
  <2>2. row.id = Key(b[i].node) OBVIOUS
  <2> HIDE DEF row
  <2>3. x[1] \in E OBVIOUS
  <2> HIDE DEF E, Of
  <2>4. CASE x = <<>> BY <2>4
  <2>5. CASE x = <<row>> /\ Key(b[i].node) \in DOMAIN db.nodes
    <3>1. <<row>>[1] = row OBVIOUS
    <3>2. row \in E BY <2>3, <2>5, <3>1
    <3>3. <<row>> \in Seq(E) /\ Len(<<row>>) = 1 /\ <<row>>[1] = row BY <3>2, OneLong, Zenon
    <3> QED BY <2>2, <2>5, <3>3
  <2> QED BY <2>1, <2>4, <2>5
<1> HIDE DEF E, Of
<1>6. s \in [1 .. n -> Seq(E)] /\ \A i \in 1 .. n : s[i] = Of(i) BY <1>5
<1>7. \A i \in 1 .. n : Len(s[i]) <= 1 BY <1>5, <1>6
<1> HIDE DEF s
<1>8. Picks(r, E, s, n) BY <1>2, <1>4, <1>6, <1>7, Flattened
<1> HIDE DEF r
<1>9. PICK p \in [1 .. Len(r) -> 1 .. n] :
          /\ \A i \in 1 .. Len(r) : Len(s[p[i]]) = 1 /\ r[i] = s[p[i]][1]
          /\ \A i, j \in 1 .. Len(r) : p[i] = p[j] => i = j
  BY <1>8, Zenon DEF Picks
<1>10. r \in Seq(E) BY <1>8, Zenon DEF Picks
<1>11. DOMAIN r = 1 .. Len(r) /\ Len(r) \in Nat BY <1>10
<1>12. \A i \in 1 .. Len(r) : r[i].id = Key(nodes[to[p[i]]]) /\ r[i].id \in DOMAIN db.nodes
  <2> SUFFICES ASSUME NEW i \in 1 .. Len(r)
               PROVE  r[i].id = Key(nodes[to[p[i]]]) /\ r[i].id \in DOMAIN db.nodes
    OBVIOUS
  <2>1. p[i] \in 1 .. n OBVIOUS
  <2>2. r[i] = Of(p[i])[1] /\ Len(Of(p[i])) = 1 BY <1>6, <1>9, <2>1
  <2>3. r[i].id = Key(b[p[i]].node) /\ Key(b[p[i]].node) \in DOMAIN db.nodes BY <1>5, <2>1, <2>2
  <2>4. b[p[i]].node = nodes[to[p[i]]] BY <1>3, <2>1
  <2> QED BY <2>3, <2>4
<1>13. \A i, j \in 1 .. Len(r) : r[i].id = r[j].id => i = j
  <2> SUFFICES ASSUME NEW i \in 1 .. Len(r), NEW j \in 1 .. Len(r), r[i].id = r[j].id PROVE i = j
    OBVIOUS
  <2>1. p[i] \in 1 .. n /\ p[j] \in 1 .. n OBVIOUS
  <2>2. to[p[i]] \in DOMAIN nodes /\ to[p[j]] \in DOMAIN nodes BY <2>1
  <2>3. Key(nodes[to[p[i]]]) = Key(nodes[to[p[j]]]) BY <1>12
  <2>4. to[p[i]] = to[p[j]] BY <2>2, <2>3, Zenon DEF KeysDiffer
  <2> QED BY <1>3, <1>9, <2>1, <2>4, Zenon
<1> DEFINE q == [i \in 1 .. Len(r) |-> r[i].id]
<1>14. Range(q) = ids BY <1>11 DEF Range
<1>15. q \in Seq(ids) /\ Len(q) = Len(r)
  <2>1. \A i \in 1 .. Len(r) : r[i].id \in ids BY <1>11
  <2> HIDE DEF ids
  <2>2. q \in [1 .. Len(r) -> ids] BY <2>1
  <2> QED BY <1>11, <2>2
<1>16. \A i, j \in 1 .. Len(q) : q[i] = q[j] => i = j
  <2>1. \A i \in 1 .. Len(r) : q[i] = r[i].id OBVIOUS
  <2> HIDE DEF q
  <2> QED BY <1>13, <1>15, <2>1
<1> HIDE DEF q
<1>17. Cardinality(ids) = Len(r) BY <1>14, <1>15, <1>16, DistinctRange
<1>18. ids \subseteq DOMAIN db.nodes BY <1>11, <1>12
<1> QED BY <1>17, <1>18, Zenon DEF r, ids, Fits

\* A file whose nodes have keys of their own is stored.
LEMMA StoreTakes ==
    ASSUME NEW T, NEW nodes \in Seq(T), KeysDiffer(nodes), NEW comments, NEW lang, NEW lines
    PROVE  PersistParsed(DeleteNodesOfFile(StoredFile), nodes, comments, lang, lines).refused = FALSE
<1> DEFINE a == StoredFile.nodes
           b == StoredFile.annotations
           no == FALSE
           db == DeleteNodesOfFile(StoredFile)
           rows == UpsertNodes(db.nodes, nodes)
           stored == [db EXCEPT !.nodes = rows]
           batch == CollectAnnotations(stored, nodes, comments, lang, lines)
           ids == {batch[i].id : i \in DOMAIN batch}
           annotations == [k \in DOMAIN stored.annotations \union ids |->
                              IF k \in ids THEN (CHOOSE r \in Range(batch) : r.id = k).annotation
                              ELSE stored.annotations[k]]
<1>1. StoredFile = [nodes |-> a, annotations |-> b, refused |-> no] BY SourcesAssumption
<1>2. db = [StoredFile EXCEPT !.nodes = <<>>, !.annotations = <<>>] BY Zenon DEF DeleteNodesOfFile
<1>3. PersistParsed(db, nodes, comments, lang, lines) = UpsertAnnotations(stored, batch)
  BY Zenon DEF PersistParsed
<1>4. Cardinality(ids) = Len(batch) /\ ids \subseteq DOMAIN stored.nodes
  <2> HIDE DEF stored
  <2>1. Fits(batch, stored) BY CollectedFits
  <2> QED BY <2>1, Zenon DEF Fits
<1>5. UpsertAnnotations(stored, batch) = [stored EXCEPT !.annotations = annotations]
  <2> HIDE DEF stored, batch
  <2> QED BY <1>4, Zenon DEF UpsertAnnotations
<1> HIDE DEF a, b, no, db, rows, batch, annotations
<1>6. db.refused = no /\ db = [nodes |-> <<>>, annotations |-> <<>>, refused |-> no] BY <1>1, <1>2
<1>7. stored.refused = no /\ stored = [nodes |-> rows, annotations |-> <<>>, refused |-> no] BY <1>6
<1> HIDE DEF stored
<1>8. [stored EXCEPT !.annotations = annotations].refused = no BY <1>7
<1> QED BY <1>3, <1>5, <1>8 DEF no, db

\* What is stored of a file, whatever its grammar made of it.
LEMMA FileIsStorable ==
    ASSUME NEW source, IsSource(source)
    PROVE  LET stored == StoreFile(StoredFile, source, "")
           IN  stored.db.refused = FALSE /\ KeysDiffer(stored.parsed.nodes) /\ NoneWithin(stored.parsed.nodes)
<1> DEFINE path == source.path
           matches == source.matches
           lines == Len(source.lines)
           walked == ExecuteQueries(path, lines, "", matches)
           parsed == ParseWithComments(source, "")
           nodes == walked.nodes
           db == PersistParsed(DeleteNodesOfFile(StoredFile), parsed.nodes, parsed.comments, source.lang, source.lines)
<1>1. path \in STRING /\ lines \in Nat /\ Sound(path, matches)
  <2>1. path \in STRING /\ source.lines \in Seq(STRING) /\ matches \in Seq(Range(matches)) /\ InTreeOrder(matches)
    BY Zenon DEF IsSource
  <2>2. lines \in Nat BY <2>1
  <2>3. ASSUME NEW i \in DOMAIN matches
        PROVE  IsMatch(matches[i]) /\ (matches[i].what = "definition" => matches[i].name # path)
    <3> DEFINE m == matches[i]
    <3>1. /\ m.what \in {"package", "definition", "call", "import"}
          /\ m.what = "package" => m.name \in STRING
          /\ m.what \in {"call", "import"} => m.target \in STRING /\ m.line \in Nat
          /\ m.what = "definition" =>
                /\ m.name \in STRING \ {"", path} /\ m.receiver \in STRING
                /\ m.implements \subseteq STRING
                /\ m.first \in Nat /\ m.last \in Nat /\ m.first <= m.last
      BY Zenon DEF IsSource
    <3> HIDE DEF m, path
    <3>2. m.what = "definition" => IsDefinition(m) BY <3>1 DEF IsDefinition
    <3>3. IsMatch(m) BY <3>1, <3>2, Zenon DEF IsMatch
    <3>4. m.what = "definition" => m.name # path BY <3>1
    <3> QED BY <3>3, <3>4 DEF m
  <2>4. ASSUME NEW i \in Definitions(matches) PROVE IsDefinition(matches[i]) /\ matches[i].name # path
    <3>1. i \in DOMAIN matches /\ matches[i].what = "definition" BY DEF Definitions
    <3> QED BY <2>3, <3>1, Zenon DEF IsMatch
  <2> HIDE DEF path, matches, lines
  <2>5. Sound(path, matches) BY <2>1, <2>3, <2>4, Zenon DEF Sound
  <2> QED BY <2>1, <2>2, <2>5
<1>2. Tidy(nodes, path, matches, Len(matches))
  <2> HIDE DEF path, matches, lines
  <2> QED BY <1>1, FilesAreTidy
<1>3. parsed.nodes = nodes
  <2> DEFINE edges == walked.edges \union ContainsEdges(path, walked.nodes)
                                   \union TestedBy(walked.nodes, walked.edges)
             comments == MergeCommentBlocks(CollectComments(source.comments), CollectDocstrings(source.bodies))
  <2>1. parsed = [nodes |-> nodes, package |-> walked.package, edges |-> edges, comments |-> comments]
    BY Zenon DEF ParseWithComments, Complete
  <2> HIDE DEF walked, edges, comments, parsed, nodes
  <2> QED BY <2>1
<1>4. StoreFile(StoredFile, source, "") = [parsed |-> parsed, db |-> db] BY Zenon DEF StoreFile, StoreWalked
<1> HIDE DEF path, matches, walked, parsed
<1>5. KeysDiffer(nodes) /\ NoneWithin(nodes) /\ nodes \in Seq(WalkedNode)
  <2>1. KeysDiffer(nodes) /\ NoneWithin(nodes) BY <1>2, TidyIsStorable
  <2>2. nodes \in Seq(WalkedNode) BY <1>2, Zenon DEF Tidy
  <2> QED BY <2>1, <2>2
<1>6. db.refused = FALSE
  <2>1. db = PersistParsed(DeleteNodesOfFile(StoredFile), nodes, parsed.comments, source.lang, source.lines)
    BY <1>3
  <2> HIDE DEF db, nodes
  <2> QED BY <1>5, <2>1, StoreTakes
<1> HIDE DEF db
<1>7. [parsed |-> parsed, db |-> db].parsed = parsed /\ [parsed |-> parsed, db |-> db].db = db OBVIOUS
<1> QED BY <1>3, <1>4, <1>5, <1>6, <1>7

\* ParseIsStorable is an invariant: whatever order the captures of the grammar
\* come in, the nodes of a file have keys of their own, the store takes its
\* annotations, and no symbol is inside another of its name.
THEOREM FilesAreStorable == BuildSpec => []ParseIsStorable
<1>1. ASSUME WorkedRight, Answered("source") PROVE ParseIsStorable
  <2>1. given.has \in GivenFiles /\ asked # <<>> BY <1>1, Zenon DEF WorkedRight, Answered
  <2>2. PICK source \in Readings(given.has) : answer = <<StoreFile(StoredFile, source, "")>>
    BY <1>1, <2>1, Zenon DEF WorkedRight, Answered
  <2>3. IsSource(source) BY <2>1, SourcesAssumption
  <2> DEFINE stored == StoreFile(StoredFile, source, "")
             nodes == stored.parsed.nodes
  <2>4. stored.db.refused = FALSE /\ KeysDiffer(nodes) /\ NoneWithin(nodes) BY <2>3, FileIsStorable
  <2> HIDE DEF stored
  <2>5. Reply = stored BY <2>2 DEF Reply, stored
  <2>6. ~Reply.db.refused BY <2>4, <2>5
  <2>7. Reply.parsed.nodes = nodes BY <2>5
  <2> HIDE DEF nodes
  <2> QED BY <2>4, <2>6, <2>7, Zenon DEF ParseIsStorable, KeysDiffer, NoneWithin, Within
<1>2. WorkedRight => ParseIsStorable BY <1>1, Zenon DEF ParseIsStorable
<1> QED BY <1>2, WorkedRightInvariant, PTL
=============================================================================
