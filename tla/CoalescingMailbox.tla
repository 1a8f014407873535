------------------------- MODULE CoalescingMailbox -------------------------
(***************************************************************************)
(* What the sync queue promises its callers, without its FIFO, workers,    *)
(* retries or statistics: each repository has a one-place mailbox in which *)
(* the newest accepted payload replaces the older one, at most one sync of a *)
(* repository runs at a time, and it runs with the payload the mailbox held *)
(* when it started.                                                        *)
(***************************************************************************)

CONSTANTS Repos, Payloads, NoPayload,
          Admissible  \* the sets of repositories that may have work at once

VARIABLES
    pending,  \* the mailbox of each repository
    running,  \* the pairs <<repository, payload>> being synced
    open      \* whether new payloads are accepted

mailVars == <<pending, running, open>>

IsRunning(r) == \E p \in Payloads : <<r, p>> \in running
WithWork == {r \in Repos : pending[r] # NoPayload \/ IsRunning(r)}

Init ==
    /\ pending = [r \in Repos |-> NoPayload]
    /\ running = {}
    /\ open = TRUE

Submit(r, p) ==
    /\ open
    /\ WithWork \union {r} \in Admissible
    /\ pending' = [pending EXCEPT ![r] = p]
    /\ UNCHANGED <<running, open>>

Start(r) ==
    /\ pending[r] # NoPayload
    /\ ~IsRunning(r)
    /\ running' = running \union {<<r, pending[r]>>}
    /\ pending' = [pending EXCEPT ![r] = NoPayload]
    /\ UNCHANGED open

Finish(r) ==
    /\ IsRunning(r)
    /\ running' = {job \in running : job[1] # r}
    /\ UNCHANGED <<pending, open>>

Close ==
    /\ open
    /\ open' = FALSE
    /\ UNCHANGED <<pending, running>>

Next ==
    \/ \E r \in Repos : (\E p \in Payloads : Submit(r, p)) \/ Start(r) \/ Finish(r)
    \/ Close

Spec == Init /\ [][Next]_mailVars
=============================================================================
