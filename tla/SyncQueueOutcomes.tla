------------------------- MODULE SyncQueueOutcomes -------------------------
(***************************************************************************)
(* The sync queue with a history variable: how the last finished sync of   *)
(* each repository ended.  It relates what really happened to what repoStats *)
(* (and so /status) says about it.  done and recordSuccess are two critical *)
(* sections, in that order; recordFailure precedes done.                   *)
(***************************************************************************)
EXTENDS SyncQueue

VARIABLE lastResult

\* Worker w leaves safeHandle for good: with success when it enters done, with
\* a failure when it records the failure just before done.
Succeeds(w) == pc[w] = "succeeded" /\ pc'[w] = "recording"
Fails(w) == pc[w] = "giveup" /\ pc'[w] = "failed"

NoteResult ==
    lastResult' = [r \in Repos |->
        IF \E w \in Workers : repoOf[w] = r /\ Succeeds(w) THEN "success"
        ELSE IF \E w \in Workers : repoOf[w] = r /\ Fails(w) THEN "error"
        ELSE lastResult[r]]

OutcomeInit == Init /\ lastResult = [r \in Repos |-> "none"]

OutcomeNext == Next /\ NoteResult

OutcomeSpec == OutcomeInit /\ [][OutcomeNext]_<<vars, lastResult>>

\* A later successful sync of a repository clears its error state: once the
\* worker of that sync has recorded it, the entry no longer shows an error.
SuccessClearsError ==
    \A r \in Repos :
        /\ lastResult[r] = "success"
        /\ ~\E w \in Workers : pc[w] = "recording" /\ repoOf[w] = r
        => stats.repos[r] # "error"
=============================================================================
