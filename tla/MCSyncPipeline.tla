--------------------------- MODULE MCSyncPipeline ---------------------------
(* Two pushes to one branch and one to another, two servers. *)
EXTENDS SyncPipeline, TLC

CONSTANTS main, dev, s1, s2

MCPushes == main :> 2 @@ dev :> 1

MCSymmetry == Permutations({s1, s2})

\* Bound: once the second branch exists, one server works at a time.
MCOneServerPerBranches ==
    head[dev] > 0 =>
        \E s \in Servers : pc[s] = "idle" /\ pending[s] = NoBranch
=============================================================================
