------------------------------ MODULE ScanQueue ------------------------------
(***************************************************************************)
(* The scan job queue of the orchestrator: the scanjob table, the handlers *)
(* that change it and the workers' executions they hand out                *)
(* (orchestrator/queue.py, routes_worker.py, housekeeping.py and the part  *)
(* of ingest.py that moves the job).                                       *)
(*                                                                         *)
(* A request handler or scheduler tick runs in a thread of the             *)
(* orchestrator.  Its SELECTs run in autocommit and each sees the last     *)
(* commit; its first INSERT or UPDATE takes SQLite's write lock, which it  *)
(* keeps until it commits (db.py).  So a handler is a sequence of read     *)
(* steps, in which `thread` remembers what it loaded, and one last step,   *)
(* which writes by row id and commits; steps of several threads interleave.*)
(* With one thread the handlers are serialised.                            *)
(***************************************************************************)
EXTENDS Integers, FiniteSets

CONSTANTS
  Targets,      \* rows of table target
  Hosts,        \* addresses
  SpecHosts,    \* SpecHosts[t]: the addresses target t's spec expands to
  Workers,      \* worker ids
  Threads,      \* threads of the orchestrator that run handlers and ticks
  MaxAttempts,  \* SCANGRID_JOB_MAX_ATTEMPTS
  MaxJobs,      \* bound: rows the job table can hold
  MaxRuns,      \* bound: hand-outs of jobs to workers
  NoWorker,     \* worker_id = ""
  NoTarget      \* the target of a row that does not exist

ASSUME SpecHostsAssumption == SpecHosts \in [Targets -> SUBSET Hosts]
ASSUME BoundsAssumption == /\ MaxAttempts \in Nat \ {0}
                           /\ MaxJobs \in Nat
                           /\ MaxRuns \in Nat
ASSUME NullAssumption == NoWorker \notin Workers /\ NoTarget \notin Targets

VARIABLES
  job,       \* the scanjob table; a row not yet inserted is NoJob
  due,       \* enabled targets whose interval since last_queued_at has passed
  allow,     \* the addresses the cached allowlist of the orchestrator permits
  thread,    \* what each thread has loaded and will do next
  run,       \* the executions handed out to workers
  ingested   \* the runs whose result became a Scan row

vars == <<job, due, allow, thread, run, ingested>>

JobIds == 1 .. MaxJobs
RunIds == 1 .. MaxRuns

PendingStates == {"queued", "claimed", "running"}
OutStates == {"claimed", "running"}
ClosedStates == {"done", "error"}
JobStates == {"absent"} \cup PendingStates \cup ClosedStates

\* claimed_at against the cutoff of requeue_stale, and finished_at set or not.
JobRow == [state : JobStates, target : Targets \cup {NoTarget},
           hosts : SUBSET Hosts, worker : Workers \cup {NoWorker},
           attempts : Nat, claimedAt : {"null", "fresh", "stale"},
           finished : BOOLEAN]

NoJob == [state |-> "absent", target |-> NoTarget, hosts |-> {},
          worker |-> NoWorker, attempts |-> 0, claimedAt |-> "null",
          finished |-> FALSE]

NoRun == [pc |-> "free", job |-> 0, worker |-> NoWorker, attempt |-> 0]

Run == {NoRun} \cup [pc : {"assigned", "scanning", "gone"}, job : JobIds,
                     worker : Workers, attempt : Nat]

Idle == [op |-> "idle"]

Handler ==
       [op : {"idle"}]
  \cup [op : {"scanNow"}, target : Targets]
  \cup [op : {"requeue"}, retry : SUBSET JobIds, exhausted : SUBSET JobIds]
  \cup [op : {"tick"}, todo : SUBSET Targets]
  \cup [op : {"tickInsert"}, first : Targets, todo : SUBSET Targets]
  \cup [op : {"claimRecheck", "claimWrite"}, job : JobIds, worker : Workers,
        attempts : Nat]
  \cup [op : {"mark"}, job : JobIds]
  \cup [op : {"result"}, run : RunIds, job : JobIds, ok : BOOLEAN,
        was : JobStates]

TickOps == {"requeue", "tick", "tickInsert"}
-----------------------------------------------------------------------------
\* A pending check that forgets the jobs workers hold.
Pending_OnlyQueued(t) == \E j \in JobIds : /\ job[j].target = t
                                           /\ job[j].state = "queued"

Pending(t) == \E j \in JobIds : /\ job[j].target = t
                                /\ job[j].state \in PendingStates

\* resolve_spec: the authorised part of a target's spec.
InScope(t) == SpecHosts[t] \cap allow

NewJob(t) == [NoJob EXCEPT !.state = "queued", !.target = t,
                           !.hosts = InScope(t)]

\* One commit that leaves the job table as tbl plus one queued job for each
\* target of C, until the table is full; the new rows take the next ids.
\* Their targets get last_queued_at = now.
InsertJobs(tbl, C) ==
  LET Free == {j \in JobIds : tbl[j].state = "absent"} IN
  \E I \in SUBSET Free : \E new \in [I -> C] :
    /\ \A i, k \in I : new[i] = new[k] => i = k
    /\ C = {new[i] : i \in I} \/ I = Free
    /\ \A i \in I, k \in Free : k < i => k \in I
    /\ job' = [j \in JobIds |-> IF j \in I THEN NewJob(new[j]) ELSE tbl[j]]
    /\ due' = due \ {new[i] : i \in I}

Become(th, h) == thread' = [thread EXCEPT ![th] = h]

Init == /\ job = [j \in JobIds |-> NoJob]
        /\ due = {}
        /\ allow \in SUBSET Hosts \ {{}}
        /\ thread = [th \in Threads |-> Idle]
        /\ run = [r \in RunIds |-> NoRun]
        /\ ingested = {}
-----------------------------------------------------------------------------
(* The clock and the operator's edits of a target. *)

\* The interval of t passes, or a PATCH enables or shortens it.
BecomesDue(t) == /\ t \notin due
                 /\ due' = due \cup {t}
                 /\ UNCHANGED <<job, allow, thread, run, ingested>>

\* A PATCH disables t or gives it a longer or no interval.
Postpone(t) == /\ t \in due
               /\ due' = due \ {t}
               /\ UNCHANGED <<job, allow, thread, run, ingested>>

Expired(row) == [row EXCEPT !.claimedAt = "stale"]

\* job_timeout_seconds + 120 pass since j was claimed.
Expire(j) == /\ job[j].state \in OutStates
             /\ job[j].claimedAt = "fresh"
             /\ job' = [job EXCEPT ![j] = Expired(@)]
             /\ UNCHANGED <<due, allow, thread, run, ingested>>
-----------------------------------------------------------------------------
(* POST /api/targets/{id}/scan: enqueue_target with force.  A target with a *)
(* pending job or nothing in scope is answered without a write.             *)

ScanNowRead(th, t) ==
  /\ thread[th] = Idle
  /\ ~ Pending(t)
  /\ InScope(t) # {}
  /\ Become(th, [op |-> "scanNow", target |-> t])
  /\ UNCHANGED <<job, due, allow, run, ingested>>

ScanNowWrite(th) ==
  /\ thread[th].op = "scanNow"
  /\ InsertJobs(job, {thread[th].target})
  /\ Become(th, Idle)
  /\ UNCHANGED <<allow, run, ingested>>
-----------------------------------------------------------------------------
(* The enqueue tick: requeue_stale, then every due target, in one           *)
(* transaction; the scheduler runs one instance at a time.                  *)

\* One attempt too many, or no limit at all.
OutOfAttempts_OffByOne(row) == row.attempts > MaxAttempts
OutOfAttempts_Never(row) == FALSE

OutOfAttempts(row) == row.attempts >= MaxAttempts

\* The SELECT of requeue_stale.  With no stale row nothing is written yet and
\* the SELECT of the due targets follows, still without the lock.
TickRead(th) ==
  /\ thread[th] = Idle
  /\ \A u \in Threads : thread[u].op \notin TickOps
  /\ LET stale == {j \in JobIds : /\ job[j].state \in OutStates
                                  /\ job[j].claimedAt = "stale"}
         exhausted == {j \in stale : OutOfAttempts(job[j])}
     IN IF stale # {}
        THEN Become(th, [op |-> "requeue", retry |-> stale \ exhausted,
                         exhausted |-> exhausted])
        ELSE Become(th, [op |-> "tick", todo |-> due])
  /\ UNCHANGED <<job, due, allow, run, ingested>>

\* A requeue that leaves the last worker's name behind.
Requeued_KeepsWorker(row) == [row EXCEPT !.state = "queued",
                                         !.claimedAt = "null"]

Requeued(row) == [row EXCEPT !.state = "queued", !.worker = NoWorker,
                             !.claimedAt = "null"]

\* A state no reader of the table knows.
Exhausted_OtherState(row) == [row EXCEPT !.state = "failed", !.finished = TRUE]

Exhausted(row) == [row EXCEPT !.state = "error", !.finished = TRUE]

AfterRequeue(h) ==
  [j \in JobIds |-> IF j \in h.retry THEN Requeued(job[j])
                    ELSE IF j \in h.exhausted THEN Exhausted(job[j])
                    ELSE job[j]]

\* The tick enqueues every due target, pending job or not.
Wanted_Unchecked(tbl, T) == {t \in T : InScope(t) # {}}

\* The targets of T the tick still finds without a pending job in table tbl.
Wanted(tbl, T) ==
  {t \in T : /\ InScope(t) # {}
             /\ \A j \in JobIds : ~ (/\ tbl[j].target = t
                                     /\ tbl[j].state \in PendingStates)}

\* The first flush takes the lock: the stale rows are written, then the due
\* targets are read and enqueued, and all of it commits at once.
RequeueWrite(th) ==
  /\ thread[th].op = "requeue"
  /\ LET tbl == AfterRequeue(thread[th]) IN InsertJobs(tbl, Wanted(tbl, due))
  /\ Become(th, Idle)
  /\ UNCHANGED <<allow, run, ingested>>

\* A due target that has a pending job, or nothing in scope, is passed over.
TickSkip(th) ==
  /\ thread[th].op = "tick"
  /\ \E t \in thread[th].todo :
       /\ Pending(t) \/ InScope(t) = {}
       /\ Become(th, [op |-> "tick", todo |-> thread[th].todo \ {t}])
  /\ UNCHANGED <<job, due, allow, run, ingested>>

TickPick(th) ==
  /\ thread[th].op = "tick"
  /\ \E t \in thread[th].todo :
       /\ ~ Pending(t)
       /\ InScope(t) # {}
       /\ Become(th, [op |-> "tickInsert", first |-> t,
                      todo |-> thread[th].todo \ {t}])
  /\ UNCHANGED <<job, due, allow, run, ingested>>

\* The INSERT for the first target takes the lock; the others follow under it.
TickWrite(th) ==
  /\ thread[th].op = "tickInsert"
  /\ InsertJobs(job, {thread[th].first} \cup Wanted(job, thread[th].todo))
  /\ Become(th, Idle)
  /\ UNCHANGED <<allow, run, ingested>>

TickEnd(th) ==
  /\ thread[th].op = "tick"
  /\ thread[th].todo = {}
  /\ Become(th, Idle)
  /\ UNCHANGED <<job, due, allow, run, ingested>>
-----------------------------------------------------------------------------
(* POST /api/worker/claim: two SELECTs, then the UPDATE by row id with the  *)
(* values loaded by the first of them.                                      *)

Oldest(j) == /\ job[j].state = "queued"
             /\ \A k \in JobIds : job[k].state = "queued" => j <= k

ClaimSelect(th, w) ==
  /\ thread[th] = Idle
  /\ \E j \in JobIds :
       /\ Oldest(j)
       /\ Become(th, [op |-> "claimRecheck", job |-> j, worker |-> w,
                      attempts |-> job[j].attempts])
  /\ UNCHANGED <<job, due, allow, run, ingested>>

ClaimRecheck(th) ==
  /\ thread[th].op = "claimRecheck"
  /\ IF job[thread[th].job].state = "queued"
     THEN Become(th, [thread[th] EXCEPT !.op = "claimWrite"])
     ELSE Become(th, Idle)
  /\ UNCHANGED <<job, due, allow, run, ingested>>

\* A claim that does not count the attempt.
Claimed_Uncounted(row, h) == [row EXCEPT !.state = "claimed",
                                         !.worker = h.worker,
                                         !.claimedAt = "fresh"]

\* A claim without a date.
Claimed_Undated(row, h) == [row EXCEPT !.state = "claimed",
                                       !.worker = h.worker,
                                       !.attempts = h.attempts + 1]

\* An increment in SQL, while the answer is built from the loaded value.
Claimed_InSql(row, h) == [row EXCEPT !.state = "claimed",
                                     !.worker = h.worker,
                                     !.attempts = row.attempts + 1,
                                     !.claimedAt = "fresh"]

Claimed(row, h) == [row EXCEPT !.state = "claimed", !.worker = h.worker,
                               !.attempts = h.attempts + 1,
                               !.claimedAt = "fresh"]

NextRun(r) == /\ run[r].pc = "free"
              /\ \A q \in RunIds : q < r => run[q].pc # "free"

\* The answer reaches the worker (assigned) or is lost with the connection.
Delivered(h, r) ==
  \E pc \in {"assigned", "gone"} :
    run' = [run EXCEPT ![r] = [pc |-> pc, job |-> h.job, worker |-> h.worker,
                               attempt |-> h.attempts + 1]]

\* A claim the allowlist turned into an error, without finished_at.
Refused(row, h) == [Claimed(row, h) EXCEPT !.state = "error"]

\* No second look at the allowlist.
Dispatchable_Always(row) == TRUE

\* assert_hosts_allowed on the hosts frozen in the row.
Dispatchable(row) == row.hosts \subseteq allow

ClaimGrant(th) ==
  /\ thread[th].op = "claimWrite"
  /\ LET h == thread[th] IN
       /\ Dispatchable(job[h.job])
       /\ job' = [job EXCEPT ![h.job] = Claimed(job[h.job], h)]
       /\ \E r \in RunIds : NextRun(r) /\ Delivered(h, r)
  /\ Become(th, Idle)
  /\ UNCHANGED <<due, allow, ingested>>

\* The row is outside the allowlist: the same transaction refuses the claim it
\* has just made, and the worker gets nothing.
ClaimRefuse(th) ==
  /\ thread[th].op = "claimWrite"
  /\ LET h == thread[th] IN
       /\ ~ Dispatchable(job[h.job])
       /\ job' = [job EXCEPT ![h.job] = Refused(job[h.job], h)]
  /\ Become(th, Idle)
  /\ UNCHANGED <<due, allow, run, ingested>>
-----------------------------------------------------------------------------
(* The worker's calls about a job it was handed. *)

SetRun(r, pc) == run' = [run EXCEPT ![r].pc = pc]

\* A ping that is applied in any state.
MarkApplies_Always(row) == TRUE

MarkApplies(row) == row.state = "claimed"

\* POST .../running is received; the worker goes on to nmap whatever the answer.
MarkRead(th, r) ==
  /\ thread[th] = Idle
  /\ run[r].pc = "assigned"
  /\ SetRun(r, "scanning")
  /\ IF MarkApplies(job[run[r].job])
     THEN Become(th, [op |-> "mark", job |-> run[r].job])
     ELSE UNCHANGED thread
  /\ UNCHANGED <<job, due, allow, ingested>>

Started(row) == [row EXCEPT !.state = "running"]

MarkWrite(th) ==
  /\ thread[th].op = "mark"
  /\ job' = [job EXCEPT ![thread[th].job] = Started(@)]
  /\ Become(th, Idle)
  /\ UNCHANGED <<due, allow, run, ingested>>

\* The ping fails; the client ignores it and the scan starts.
MarkLost(r) ==
  /\ run[r].pc = "assigned"
  /\ SetRun(r, "scanning")
  /\ UNCHANGED <<job, due, allow, thread, ingested>>

\* POST .../result is received: of a scan, or of a worker that refused the
\* hosts before it started.  The worker sends it once.
ResultRead(th, r, ok) ==
  /\ thread[th] = Idle
  /\ run[r].pc = "scanning" \/ (run[r].pc = "assigned" /\ ~ ok)
  /\ SetRun(r, "gone")
  /\ Become(th, [op |-> "result", run |-> r, job |-> run[r].job, ok |-> ok,
                 was |-> job[run[r].job].state])
  /\ UNCHANGED <<job, due, allow, ingested>>

\* Every result counts as a success.
Closed_AlwaysDone(row, h) == [row EXCEPT !.state = "done", !.finished = TRUE]

\* The ORM writes the state column only where it differs from the loaded value.
Outcome(h) == IF h.ok THEN "done" ELSE "error"

Closed(row, h) ==
  [row EXCEPT !.state = IF h.was = Outcome(h) THEN row.state ELSE Outcome(h),
              !.finished = TRUE]

\* A result is accepted whatever has become of the job meanwhile.
ResultWrite(th) ==
  /\ thread[th].op = "result"
  /\ LET h == thread[th] IN
       /\ job' = [job EXCEPT ![h.job] = Closed(job[h.job], h)]
       /\ ingested' = IF h.ok THEN ingested \cup {h.run} ELSE ingested
  /\ Become(th, Idle)
  /\ UNCHANGED <<due, allow, run>>

\* The submission fails and is dropped, or the worker dies.
Lose(r) ==
  /\ run[r].pc \in {"assigned", "scanning"}
  /\ SetRun(r, "gone")
  /\ UNCHANGED <<job, due, allow, thread, ingested>>
-----------------------------------------------------------------------------
(* Failures of the orchestrator. *)

\* "database is locked", or any other error: the transaction rolls back.
Abort(th) ==
  /\ thread[th] # Idle
  /\ Become(th, Idle)
  /\ UNCHANGED <<job, due, allow, run, ingested>>

\* The process stops, with every open transaction, and starts again with
\* whatever allowlist is configured by then.
Restart ==
  /\ thread' = [th \in Threads |-> Idle]
  /\ allow' \in SUBSET Hosts \ {{}}
  /\ UNCHANGED <<job, due, run, ingested>>

HandlerStep(th) ==
  \/ ScanNowWrite(th)
  \/ RequeueWrite(th)
  \/ TickSkip(th)
  \/ TickPick(th)
  \/ TickWrite(th)
  \/ TickEnd(th)
  \/ ClaimRecheck(th)
  \/ ClaimGrant(th)
  \/ ClaimRefuse(th)
  \/ MarkWrite(th)
  \/ ResultWrite(th)

Next ==
  \/ \E t \in Targets : BecomesDue(t) \/ Postpone(t)
  \/ \E j \in JobIds : Expire(j)
  \/ \E th \in Threads :
       \/ \E t \in Targets : ScanNowRead(th, t)
       \/ TickRead(th)
       \/ \E w \in Workers : ClaimSelect(th, w)
       \/ \E r \in RunIds : MarkRead(th, r)
       \/ \E r \in RunIds, ok \in BOOLEAN : ResultRead(th, r, ok)
       \/ HandlerStep(th)
       \/ Abort(th)
  \/ \E r \in RunIds : MarkLost(r) \/ Lose(r)
  \/ Restart

Spec == Init /\ [][Next]_vars

(***************************************************************************)
(* Workers poll for ever and the scheduler fires for ever, so a claim or a *)
(* tick that is possible again and again is started and, although a single *)
(* attempt may be rolled back or cut off by a restart, not every attempt   *)
(* is.  Every handler ends.  No worker is assumed to report.               *)
(***************************************************************************)
Fairness ==
  /\ \A j \in JobIds : WF_vars(Expire(j))
  /\ WF_vars(\E th \in Threads : HandlerStep(th) \/ Abort(th))
  /\ SF_vars(\E th \in Threads : TickRead(th))
  /\ SF_vars(\E th \in Threads : RequeueWrite(th))
  /\ SF_vars(\E th \in Threads, w \in Workers : ClaimSelect(th, w))
  /\ SF_vars(\E th \in Threads : ClaimRecheck(th))
  /\ SF_vars(\E th \in Threads : ClaimGrant(th) \/ ClaimRefuse(th))

FairSpec == Spec /\ Fairness
-----------------------------------------------------------------------------
\* Rows, handlers and runs have their types: no handler writes a state that no
\* reader of the table knows, and none works for a job that is not a row.
TypeOK ==
  /\ job \in [JobIds -> JobRow]
  /\ due \subseteq Targets
  /\ allow \in SUBSET Hosts
  /\ thread \in [Threads -> Handler]
  /\ run \in [RunIds -> Run]
  /\ ingested \subseteq RunIds

(* What holds however the handlers interleave. *)

\* The columns of a job row never contradict each other: worker_id and
\* claimed_at are set and cleared together, a queued job has neither and a
\* claimed one has both (claim_next, requeue_stale), although four handlers
\* write parts of a row by id from values they loaded earlier.
Coherent(row) ==
  /\ row.worker = NoWorker <=> row.claimedAt = "null"
  /\ row.state = "queued" => row.worker = NoWorker
  /\ row.state = "claimed" => row.worker # NoWorker

RowCoherent == \A j \in JobIds : Coherent(job[j])

\* A job is only ever "done" with a Scan of its own behind it (process_result).
DoneHasScan ==
  \A j \in JobIds :
    job[j].state = "done" => \E r \in ingested : run[r].job = j

\* A claimed row names a hand-out that took place: this worker was given this
\* job as this attempt (claim_next), even when handlers overwrite each other.
ClaimedWasHandedOut ==
  \A j \in JobIds :
    job[j].state = "claimed" =>
      \E r \in RunIds : /\ run[r].job = j
                        /\ run[r].worker = job[j].worker
                        /\ run[r].attempt = job[j].attempts

\* A worker is never handed a host outside the orchestrator's allowlist of that
\* moment, although hosts were resolved at enqueue time, under an allowlist a
\* restart may have replaced (routes_worker.claim).
HandoutInScope ==
  [][\A r \in RunIds :
       run[r].pc = "free" /\ run'[r].pc = "assigned" =>
         job'[run'[r].job].hosts \subseteq allow]_vars

(* What holds when handlers are serialised (one thread). *)

\* A target never has two pending jobs (enqueue_target).
OnePendingPerTarget ==
  \A j, k \in JobIds :
    /\ job[j].state \in PendingStates
    /\ job[k].state \in PendingStates
    /\ job[j].target = job[k].target
    => j = k

\* No job is handed out twice as the same attempt (claim_next).
HandoutsDistinct ==
  \A q, r \in RunIds :
    /\ run[q].pc # "free"
    /\ run[r].pc # "free"
    /\ run[q].job = run[r].job
    /\ run[q].attempt = run[r].attempt
    => q = r

\* No job is handed out more than MaxAttempts times (requeue_stale), which
\* with HandoutsDistinct bounds the scans one job can cause.
AttemptsBounded ==
  \A j \in JobIds : /\ job[j].attempts <= MaxAttempts
                    /\ job[j].state = "queued" => job[j].attempts < MaxAttempts

\* Every claimed or running job has a claimed_at, without which requeue_stale
\* would never see it again and its target would never be enqueued again.
PendingReclaimable ==
  \A j \in JobIds : job[j].state \in OutStates => job[j].claimedAt # "null"

\* A closed job never becomes pending again: late pings, late results and
\* requeues leave it closed.
ClosedStaysClosed ==
  [][\A j \in JobIds : job[j].state \in ClosedStates =>
                         job'[j].state \in ClosedStates]_vars

\* Whatever happens to workers, answers and the orchestrator, every job is
\* closed in the end (requeue_stale and its attempt limit).
EveryJobCloses ==
  \A j \in JobIds : (job[j].state \in PendingStates) ~>
                      (job[j].state \in ClosedStates)
=============================================================================
