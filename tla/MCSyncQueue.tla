---------------------------- MODULE MCSyncQueue ----------------------------
(* Small instances of SyncQueue, and of its history variable, for TLC. *)
EXTENDS SyncQueueOutcomes, TLC

\* Workers and payloads are interchangeable: only equality of them is used.
Symmetry == Permutations(Workers) \union Permutations(Payloads)
=============================================================================
