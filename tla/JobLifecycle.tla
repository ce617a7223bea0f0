---------------------------- MODULE JobLifecycle ----------------------------
(***************************************************************************)
(* What the job queue promises (docs/ARCHITECTURE.md, "Job lifecycle"),    *)
(* with no table, transaction or worker: a job waits, is handed out to one *)
(* worker, comes back a bounded number of times and is closed once for     *)
(* all; a target has at most one job that is not closed; one step hands    *)
(* out at most one job.                                                    *)
(***************************************************************************)
EXTENDS Integers

CONSTANTS JobIds, Targets, NoTarget, MaxAttempts

VARIABLES phase, owner, tries

vars == <<phase, owner, tries>>

Open == {"waiting", "out"}

Init == /\ phase = [j \in JobIds |-> "none"]
        /\ owner = [j \in JobIds |-> NoTarget]
        /\ tries = [j \in JobIds |-> 0]

Moves(j, from, to) == phase[j] = from /\ phase'[j] = to

Keeps(j) == owner'[j] = owner[j] /\ tries'[j] = tries[j]

Tried(j) == /\ owner'[j] = owner[j]
            /\ tries[j] < MaxAttempts
            /\ tries'[j] = tries[j] + 1

Stays(j) == phase'[j] = phase[j] /\ Keeps(j)

Created(j) == /\ Moves(j, "none", "waiting")
              /\ owner'[j] \in Targets
              /\ tries'[j] = 0

HandedOut(j) == Moves(j, "waiting", "out") /\ Tried(j)

Returned(j) == Moves(j, "out", "waiting") /\ Keeps(j) /\ tries[j] < MaxAttempts

\* A waiting job is closed by a late report of an earlier try, or by a try that
\* is refused instead of being handed out.
Finished(j) == \/ Moves(j, "out", "closed") /\ Keeps(j)
               \/ Moves(j, "waiting", "closed") /\ (Keeps(j) \/ Tried(j))

OneOpenPerTarget ==
  \A j, k \in JobIds : /\ phase[j] \in Open
                       /\ phase[k] \in Open
                       /\ owner[j] = owner[k]
                       => j = k

Next ==
  /\ \A j \in JobIds : \/ Stays(j)
                       \/ Created(j)
                       \/ HandedOut(j)
                       \/ Returned(j)
                       \/ Finished(j)
  /\ \A j, k \in JobIds : HandedOut(j) /\ HandedOut(k) => j = k
  /\ OneOpenPerTarget'

Spec == Init /\ [][Next]_vars
=============================================================================
