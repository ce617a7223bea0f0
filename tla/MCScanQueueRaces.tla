-------------------------- MODULE MCScanQueueRaces --------------------------
(* An instance of ScanQueueRaces for TLC. *)
EXTENDS ScanQueueRaces, TLC

CONSTANTS h1

\* Every target's spec reaches the one host of the instance.
MCSpecHosts == [t \in Targets |-> {h1}]

Symmetry == Permutations(Workers) \cup Permutations(Threads)
=============================================================================
