----------------------------- MODULE ParsePool -----------------------------
(***************************************************************************)
(* parseBuildInputs of internal/app/ingest/workflow/build.go: a bounded    *)
(* pool of parse workers between an unbuffered channel of jobs and a       *)
(* buffered channel of results, and a coordinator that hands out inputs    *)
(* within a window and emits the parsed records in input order.            *)
(*                                                                         *)
(* An input goes through the stages                                        *)
(*   waiting   not submitted yet                                           *)
(*   parsing   a worker runs parseBuildInput on it                         *)
(*   parsed    its worker is in the select that sends the result           *)
(*   sent      its result is in the results channel                        *)
(*   pending   the coordinator holds its result in the pending map         *)
(*   emitted   its record was given to emit, or its error was returned     *)
(*   dropped   its worker left without sending the result                  *)
(*                                                                         *)
(* The coordinator is in submitUntilWindowFull (submit), in the select of  *)
(* its loop (collect), in the inner loop over pending (drain), in          *)
(* stopWorkers (stopping), or has returned.                                *)
(***************************************************************************)
EXTENDS Naturals, FiniteSets

CONSTANTS
    N,        \* the number of inputs
    Workers,  \* the worker goroutines: buildParseWorkerCount of them, at most N
    Free, Gone

Inputs == 1 .. N

ASSUME PoolAssumption ==
    /\ N \in Nat \ {0}
    /\ IsFiniteSet(Workers) /\ Workers # {}
    /\ Cardinality(Workers) <= N
    /\ Free \notin Inputs /\ Gone \notin Inputs /\ Free # Gone

VARIABLES
    bad,        \* the inputs whose parse fails
    stage,
    result,     \* the outcome of parseBuildInput: none, ok, bad or cancelled
    job,        \* the input a worker holds; Free, or Gone once it has returned
    submitted,  \* nextSubmit
    emitted,    \* nextEmit
    at,         \* position of the coordinator
    parentDone, \* the caller's context is done
    cancelled,  \* workerCtx is done
    outcome     \* what parseBuildInputs returns

vars == <<bad, stage, result, job, submitted, emitted, at, parentDone, cancelled, outcome>>

Stages == {"waiting", "parsing", "parsed", "sent", "pending", "emitted", "dropped"}
Results == {"none", "ok", "bad", "cancelled"}
NoOutcome == [kind |-> "none", input |-> 0]

At(s) == {i \in Inputs : stage[i] = s}
Window == Cardinality(Workers)

\* The counter inFlight: submitted inputs whose result has not been received.
InFlight == At("parsing") \union At("parsed") \union At("sent") \union At("dropped")

Init ==
    /\ bad \in SUBSET Inputs
    /\ stage = [i \in Inputs |-> "waiting"]
    /\ result = [i \in Inputs |-> "none"]
    /\ job = [w \in Workers |-> Free]
    /\ submitted = 0
    /\ emitted = 0
    /\ at = "submit"
    /\ parentDone = FALSE
    /\ cancelled = FALSE
    /\ outcome = NoOutcome

-----------------------------------------------------------------------------
\* Coordinator

\* Mutant of Stop: the workers are waited for but not told to stop.
StopWithoutCancel(kind, i) ==
    /\ at' = "stopping"
    /\ outcome' = [kind |-> kind, input |-> i]
    /\ UNCHANGED cancelled

\* stopWorkers: workerCtx is cancelled; what follows is the wait for the workers.
Stop(kind, i) ==
    /\ at' = "stopping"
    /\ cancelled' = TRUE
    /\ outcome' = [kind |-> kind, input |-> i]

WindowOpen == submitted < N /\ submitted - emitted < Window

\* The unbuffered send of jobs meets the receive of a free worker.
Submit(w) ==
    LET i == submitted + 1
    IN /\ at = "submit" /\ WindowOpen
       /\ job[w] = Free
       /\ job' = [job EXCEPT ![w] = i]
       /\ stage' = [stage EXCEPT ![i] = "parsing"]
       /\ submitted' = i
       /\ UNCHANGED <<bad, result, emitted, at, parentDone, cancelled, outcome>>

\* workerCtx is done before the coordinator has called stopWorkers: its error is
\* that of the caller's context, if that has one.
StopReason == IF parentDone THEN "context" ELSE "stopped"

SubmitCancelled ==
    /\ at = "submit" /\ WindowOpen
    /\ cancelled
    /\ Stop(StopReason, 0)
    /\ UNCHANGED <<bad, stage, result, job, submitted, emitted, parentDone>>

SubmitDone ==
    /\ at = "submit" /\ ~WindowOpen
    /\ InFlight # {}
    /\ at' = "collect"
    /\ UNCHANGED <<bad, stage, result, job, submitted, emitted, parentDone, cancelled, outcome>>

\* The loop ends; the deferred stopWorkers runs on this path too.
Finish ==
    /\ at = "submit" /\ ~WindowOpen
    /\ InFlight = {}
    /\ Stop(IF emitted = N THEN "ok" ELSE "incomplete", 0)
    /\ UNCHANGED <<bad, stage, result, job, submitted, emitted, parentDone>>

CollectCancelled ==
    /\ at = "collect"
    /\ cancelled
    /\ Stop(StopReason, 0)
    /\ UNCHANGED <<bad, stage, result, job, submitted, emitted, parentDone>>

Receive(i) ==
    /\ at = "collect"
    /\ stage[i] = "sent"
    /\ stage' = [stage EXCEPT ![i] = "pending"]
    /\ at' = "drain"
    /\ UNCHANGED <<bad, result, job, submitted, emitted, parentDone, cancelled, outcome>>

\* Mutant of NextPending: any result that has arrived is emitted.
AnyPending(i) == stage[i] = "pending"

NextPending(i) == i = emitted + 1

EmitOk(i) ==
    /\ at = "drain" /\ NextPending(i)
    /\ stage[i] = "pending" /\ result[i] = "ok"
    /\ stage' = [stage EXCEPT ![i] = "emitted"]
    /\ emitted' = emitted + 1
    /\ UNCHANGED <<bad, result, job, submitted, at, parentDone, cancelled, outcome>>

\* A budget or spool error of emit.
EmitFails(i) ==
    /\ at = "drain" /\ NextPending(i)
    /\ stage[i] = "pending" /\ result[i] = "ok"
    /\ stage' = [stage EXCEPT ![i] = "emitted"]
    /\ Stop("emit", i)
    /\ UNCHANGED <<bad, result, job, submitted, emitted, parentDone>>

ParseFailed(i) ==
    /\ at = "drain" /\ NextPending(i)
    /\ stage[i] = "pending" /\ result[i] # "ok"
    /\ stage' = [stage EXCEPT ![i] = "emitted"]
    /\ Stop(IF result[i] = "bad" THEN "parse" ELSE "context", i)
    /\ UNCHANGED <<bad, result, job, submitted, emitted, parentDone>>

DrainDone ==
    /\ at = "drain"
    /\ ~\E i \in At("pending") : NextPending(i)
    /\ at' = "submit"
    /\ UNCHANGED <<bad, stage, result, job, submitted, emitted, parentDone, cancelled, outcome>>

\* workers.Wait returns.
Return ==
    /\ at = "stopping"
    /\ \A w \in Workers : job[w] = Gone
    /\ at' = "returned"
    /\ UNCHANGED <<bad, stage, result, job, submitted, emitted, parentDone, cancelled, outcome>>

-----------------------------------------------------------------------------
\* Workers

\* A worker that finds the context done may report that instead of parsing.
ParseResults(i) ==
    {IF i \in bad THEN "bad" ELSE "ok"} \union (IF cancelled THEN {"cancelled"} ELSE {})

Parse(w) ==
    /\ job[w] \in Inputs /\ stage[job[w]] = "parsing"
    /\ \E r \in ParseResults(job[w]) : result' = [result EXCEPT ![job[w]] = r]
    /\ stage' = [stage EXCEPT ![job[w]] = "parsed"]
    /\ UNCHANGED <<bad, job, submitted, emitted, at, parentDone, cancelled, outcome>>

\* The results channel has room for one result of each worker.
Send(w) ==
    /\ job[w] \in Inputs /\ stage[job[w]] = "parsed"
    /\ Cardinality(At("sent")) < Window
    /\ stage' = [stage EXCEPT ![job[w]] = "sent"]
    /\ job' = [job EXCEPT ![w] = Free]
    /\ UNCHANGED <<bad, result, submitted, emitted, at, parentDone, cancelled, outcome>>

SendCancelled(w) ==
    /\ cancelled
    /\ job[w] \in Inputs /\ stage[job[w]] = "parsed"
    /\ stage' = [stage EXCEPT ![job[w]] = "dropped"]
    /\ job' = [job EXCEPT ![w] = Gone]
    /\ UNCHANGED <<bad, result, submitted, emitted, at, parentDone, cancelled, outcome>>

Leave(w) ==
    /\ cancelled
    /\ job[w] = Free
    /\ job' = [job EXCEPT ![w] = Gone]
    /\ UNCHANGED <<bad, stage, result, submitted, emitted, at, parentDone, cancelled, outcome>>

-----------------------------------------------------------------------------
\* The caller cancels its context, and with it workerCtx.
CancelParent ==
    /\ at # "returned" /\ ~parentDone
    /\ parentDone' = TRUE
    /\ cancelled' = TRUE
    /\ UNCHANGED <<bad, stage, result, job, submitted, emitted, at, outcome>>

CoordinatorStep ==
    \/ \E w \in Workers : Submit(w)
    \/ SubmitCancelled \/ SubmitDone \/ Finish
    \/ CollectCancelled \/ \E i \in Inputs : Receive(i)
    \/ \E i \in Inputs : EmitOk(i) \/ EmitFails(i) \/ ParseFailed(i)
    \/ DrainDone \/ Return

WorkerStep(w) == Parse(w) \/ Send(w) \/ SendCancelled(w) \/ Leave(w)

Terminated == at = "returned" /\ UNCHANGED vars

Next ==
    \/ CoordinatorStep
    \/ \E w \in Workers : WorkerStep(w)
    \/ CancelParent
    \/ Terminated

Spec == Init /\ [][Next]_vars

\* Every goroutine that can step does; a parser returns.
Fairness == WF_vars(CoordinatorStep) /\ \A w \in Workers : WF_vars(WorkerStep(w))

FairSpec == Spec /\ Fairness

-----------------------------------------------------------------------------
\* Every variable keeps its shape.
TypeOK ==
    /\ bad \in SUBSET Inputs
    /\ stage \in [Inputs -> Stages]
    /\ result \in [Inputs -> Results]
    /\ job \in [Workers -> Inputs \union {Free, Gone}]
    /\ submitted \in 0 .. N
    /\ emitted \in 0 .. N
    /\ at \in {"submit", "collect", "drain", "stopping", "returned"}
    /\ parentDone \in BOOLEAN
    /\ cancelled \in BOOLEAN
    /\ outcome \in [kind : {"none", "ok", "parse", "emit", "context", "stopped", "incomplete"},
                    input : 0 .. N]

\* "without changing spool order or retaining every parsed file in memory": the
\* records given to emit are those of the first inputs, each of them parsed without
\* an error, and no more than one record for each worker is held at any time.
OrderedAndBounded ==
    /\ \A i \in Inputs : i <= emitted <=> stage[i] = "emitted" /\ outcome.input # i
    /\ \A i \in 1 .. emitted : result[i] = "ok"
    /\ Cardinality(At("parsed") \union At("sent") \union At("pending")) <= Window

\* A worker never waits for room in the results channel.
SendNeverBlocks == At("parsed") # {} => Cardinality(At("sent")) < Window

\* The submission window keeps both promises at once: order within bounded memory,
\* and workers that never have to wait for the coordinator.
WindowRespected == OrderedAndBounded /\ SendNeverBlocks

\* The result does not depend on the interleaving: success means every input was
\* parsed and emitted, a parse error is that of the first bad input even if a later
\* one failed earlier, and a context error needs a context that is done.  The two
\* errors that report a broken pool are never returned.
OutcomeDeterministic ==
    /\ outcome.kind = "ok" => bad = {} /\ At("emitted") = Inputs
    /\ outcome.kind = "parse" => outcome.input \in bad /\ \A i \in bad : outcome.input <= i
    /\ outcome.kind = "context" => parentDone
    /\ outcome.kind \notin {"stopped", "incomplete"}

\* The call returns, and leaves no worker behind, whatever fails or is cancelled.
PoolReturns == <>(at = "returned")
=============================================================================
