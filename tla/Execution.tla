----------------------------- MODULE Execution -----------------------------
(***************************************************************************)
(* What the job queue expects of a hand-out, and a worker makes of it: it  *)
(* is given to a worker or lost on the way, is scanned at most once, is    *)
(* reported on at most once, and never comes back.                         *)
(***************************************************************************)

CONSTANT Runs

VARIABLE progress

Init == progress = [r \in Runs |-> "free"]

After(p) == CASE p = "free" -> {"assigned", "gone"}
              [] p = "assigned" -> {"scanning", "gone"}
              [] p = "scanning" -> {"gone"}
              [] p = "gone" -> {}

Next == /\ DOMAIN progress' = Runs
        /\ \A r \in Runs : progress'[r] \in {progress[r]} \cup After(progress[r])

Spec == Init /\ [][Next]_progress
=============================================================================
