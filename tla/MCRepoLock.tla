----------------------------- MODULE MCRepoLock -----------------------------
(* Two processes, one of them with two goroutines that sync the repository. *)
EXTENDS RepoLock

CONSTANTS c1, c2, c3, server1, server2

MCCallers == {c1, c2, c3}
MCProcesses == {server1, server2}
MCProcessOf == [c \in MCCallers |-> IF c = c3 THEN server2 ELSE server1]
=============================================================================
