---------------------------- MODULE RecentRepos ----------------------------
(***************************************************************************)
(* The bounded outcome bookkeeping of the sync queue                       *)
(* (internal/app/reposync/queue.go: recordFailure, recordSuccess and       *)
(* upsertRepoStatLocked) and what /status reads from it                    *)
(* (internal/adapters/inbound/http/serve.go).                              *)
(*                                                                         *)
(* Timestamps only ever decide which of a success and an error came last,  *)
(* so the pair (lastSuccessTime, lastErrorTime) is kept as the outcome that *)
(* was recorded last.                                                      *)
(***************************************************************************)
EXTENDS Naturals, Sequences

CONSTANTS
    StatKeys,        \* repository names, and the key a timed-out Shutdown records
    MaxRecentRepos,  \* maxRecentRepos, 50 in the code
    StatCap          \* bound of the model: the total counters saturate here

ASSUME StatsAssumption ==
    /\ MaxRecentRepos \in Nat \ {0}
    /\ StatCap \in Nat

Outcomes == {"none", "success", "error"}

Stats == [order : Seq(StatKeys), repos : [StatKeys -> Outcomes],
          aggregate : Outcomes, failureTotal : 0 .. StatCap,
          queueFullTotal : 0 .. StatCap]

\* The order names each repository once, within the cap, and agrees with the map
\* of entries.
Consistent(st) ==
    /\ Len(st.order) <= MaxRecentRepos
    /\ \A i, j \in 1 .. Len(st.order) : i # j => st.order[i] # st.order[j]
    /\ \A k \in StatKeys :
           (\E i \in 1 .. Len(st.order) : st.order[i] = k) <=> st.repos[k] # "none"

NoStats == [order |-> <<>>, repos |-> [k \in StatKeys |-> "none"],
            aggregate |-> "none", failureTotal |-> 0, queueFullTotal |-> 0]

Increment(n) == IF n < StatCap THEN n + 1 ELSE n

\* A known key moves to the recent end of the order; a new key is appended and
\* evicts the oldest one if the order is at its cap.
Position(order, k) == CHOOSE i \in 1 .. Len(order) : order[i] = k
Without(order, i) == SubSeq(order, 1, i - 1) \o SubSeq(order, i + 1, Len(order))

Touch(order, k) ==
    IF \E i \in 1 .. Len(order) : order[i] = k
    THEN Append(Without(order, Position(order, k)), k)
    ELSE IF Len(order) < MaxRecentRepos THEN Append(order, k)
    ELSE Tail(Append(order, k))

\* upsertRepoStatLocked: an evicted repository loses its entry.
UpsertRepoStat(st, k, outcome) ==
    LET order == Touch(st.order, k)
        kept == {order[i] : i \in 1 .. Len(order)}
    IN [st EXCEPT !.order = order,
                  !.repos = [r \in StatKeys |->
                                IF r = k THEN outcome
                                ELSE IF r \in kept THEN st.repos[r] ELSE "none"],
                  !.aggregate = outcome]

RecordFailureIn(st, k) ==
    [UpsertRepoStat(st, k, "error") EXCEPT !.failureTotal = Increment(@)]

\* Mutant of RecordSuccessIn: lastError is not cleared.
RecordSuccessKeepsError(st, k) ==
    [UpsertRepoStat(st, k, IF st.repos[k] = "error" THEN "error" ELSE "success")
        EXCEPT !.aggregate = "success"]

RecordSuccessIn(st, k) == UpsertRepoStat(st, k, "success")

RecordQueueFullIn(st) == [st EXCEPT !.queueFullTotal = Increment(@)]

\* WebhookRepoStatsDegraded and WebhookStatsDegraded: the latest record, of the
\* queue or of one recent repository, is an error.
RepoDegraded(st, k) == st.repos[k] = "error"
StatsDegraded(st) == st.aggregate = "error" \/ \E k \in StatKeys : RepoDegraded(st, k)
=============================================================================
