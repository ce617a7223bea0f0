---------------------------- MODULE MCInventory ----------------------------
(* Instances of Inventory for TLC: one product and version with two cpes. *)
EXTENDS Inventory, TLC

CONSTANTS b1, b2

MCVersion == (b1 :> "v1") @@ (b2 :> "v1") @@ (Unnamed :> "none")

Symmetry == Permutations(Hosts) \cup Permutations(Targets) \cup Permutations(Threads)
=============================================================================
