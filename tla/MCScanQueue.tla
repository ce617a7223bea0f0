---------------------------- MODULE MCScanQueue ----------------------------
(* Instances of ScanQueue for TLC. *)
EXTENDS ScanQueueLifecycle, TLC

CONSTANTS t1, h1

\* t1's spec reaches every host, so it can be partly or wholly out of scope.
MCSpecHosts == [t \in Targets |-> IF t = t1 THEN Hosts ELSE {h1}]

Symmetry == Permutations(Workers) \cup Permutations(Threads)
=============================================================================
