--------------------------- MODULE ScanQueueRaces ---------------------------
(***************************************************************************)
(* The job queue with a history of its races.  A handler that wrote        *)
(* between the reads and the write of another one is harmless or not; the  *)
(* four kinds of races named here are those that break a promise of the    *)
(* queue, and the invariants say which promise needs which to break.       *)
(***************************************************************************)
EXTENDS ScanQueueLifecycle

VARIABLE raced  \* the kinds of races that have happened

racesVars == <<vars, raced>>

ClaimOps == {"claimRecheck", "claimWrite"}
EnqueueOps == {"scanNow", "requeue", "tickInsert"}

\* Two workers are about to be given the same job (claim_next).
TwoClaims ==
  \E th, u \in Threads : /\ th # u
                         /\ thread[th].op \in ClaimOps
                         /\ thread[u].op \in ClaimOps
                         /\ thread[th].job = thread[u].job

\* Two handlers are about to insert jobs (enqueue_target, requeue_stale).
TwoEnqueues ==
  \E th, u \in Threads : /\ th # u
                         /\ thread[th].op \in EnqueueOps
                         /\ thread[u].op \in EnqueueOps

\* A worker's ping is about to be stored for a job that is about to be requeued
\* (mark_running, requeue_stale).
LatePing ==
  \E th, u \in Threads : /\ thread[th].op = "mark"
                         /\ thread[u].op = "requeue"
                         /\ thread[th].job \in thread[u].retry

\* A handler is about to make job j pending, or to close it.
Opens(h, j) == \/ h.op \in ClaimOps \cup {"mark"} /\ h.job = j
               \/ h.op = "requeue" /\ j \in h.retry

Closes(h, j) == \/ h.op = "result" /\ h.job = j
                \/ h.op = "requeue" /\ j \in h.exhausted
                \/ h.op \in ClaimOps /\ h.job = j /\ ~ Dispatchable(job[j])

\* One handler is about to close a job that another is about to make pending.
LateClose ==
  \E j \in JobIds : \E th, u \in Threads :
    /\ th # u
    /\ Opens(thread[th], j)
    /\ Closes(thread[u], j)

Races == {"claims", "enqueues", "ping", "close"}

RacesInit == Init /\ raced = {}

RacesNext ==
  /\ Next
  /\ raced' = raced \cup {k \in Races : \/ k = "claims" /\ TwoClaims'
                                        \/ k = "enqueues" /\ TwoEnqueues'
                                        \/ k = "ping" /\ LatePing'
                                        \/ k = "close" /\ LateClose'}

RacesSpec == RacesInit /\ [][RacesNext]_racesVars
-----------------------------------------------------------------------------
\* Unless two claims of one job overlap, no job is handed out twice as the same
\* attempt or more often than MaxAttempts times: late pings, late results,
\* requeues and enqueues may interleave as they like.
HandoutsNeedClaimRace ==
  "claims" \notin raced => HandoutsDistinct /\ AttemptsBounded

\* Unless a ping overlaps with the requeue of its job, every claimed or running
\* job keeps the date by which requeue_stale finds it.
ReclaimNeedsPingRace ==
  "ping" \notin raced => PendingReclaimable

\* Unless two enqueues overlap, or a job is closed while another handler is about
\* to make it pending, a target never has two pending jobs.
PendingNeedsEnqueueRace ==
  raced \cap {"enqueues", "close"} = {} => OnePendingPerTarget

\* No closed job becomes pending again unless a handler that had loaded it before
\* was overtaken by the one that closed it: a ping, a claim or a requeue that
\* starts later leaves it closed.
ReopenNeedsCloseRace ==
  [][\A j \in JobIds :
       /\ job[j].state \in ClosedStates
       /\ job'[j].state \in PendingStates
       => "close" \in raced]_racesVars

\* Up to the first race, handlers that interleave implement the documented life
\* cycle as if they ran one after the other: there is no other way to break it.
LifecycleUntilRace ==
  Lifecycle!Init /\ [][raced' = {} => [Lifecycle!Next]_(Lifecycle!vars)]_racesVars
=============================================================================
