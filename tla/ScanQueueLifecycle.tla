------------------------- MODULE ScanQueueLifecycle -------------------------
(* The job table, seen as the life cycle it is meant to implement. *)
EXTENDS ScanQueue

Phase(row) == CASE row.state = "absent" -> "none"
                [] row.state = "queued" -> "waiting"
                [] row.state \in OutStates -> "out"
                [] row.state \in ClosedStates -> "closed"

Lifecycle == INSTANCE JobLifecycle WITH
  phase <- [j \in JobIds |-> Phase(job[j])],
  owner <- [j \in JobIds |-> job[j].target],
  tries <- [j \in JobIds |-> job[j].attempts]

\* While handlers are serialised, every commit is one step of the life cycle
\* the documentation describes, or none: late results, restarts, lost answers
\* and requeues included.
ImplementsLifecycle == Lifecycle!Spec
=============================================================================
