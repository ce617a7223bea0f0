----------------------- MODULE ScanQueueSerialProofs -----------------------
(***************************************************************************)
(* What holds when the orchestrator runs one handler at a time, for every  *)
(* value of the other constants.                                           *)
(***************************************************************************)
EXTENDS ScanQueueProofs

\* What a handler loaded is still what the table says.
ViewsAccurate ==
  \A th \in Threads :
    LET h == thread[th] IN
      /\ h.op = "scanNow" => ~ Pending(h.target)
      /\ h.op = "requeue" =>
           /\ \A j \in h.retry : job[j].state \in OutStates
           /\ \A j \in h.retry : job[j].attempts < MaxAttempts
           /\ \A j \in h.exhausted : job[j].state \in OutStates
      /\ h.op = "tickInsert" => ~ Pending(h.first)
      /\ h.op \in {"claimRecheck", "claimWrite"} =>
           /\ job[h.job].state = "queued"
           /\ job[h.job].attempts = h.attempts
      /\ h.op = "mark" => job[h.job].state = "claimed"
      /\ h.op = "result" => /\ job[h.job].state = h.was
                            /\ h.was # "absent"

\* The ways a row changes when every view is accurate.
SerialRowStep(j) ==
  \/ job'[j] = job[j]
  \/ job[j].state = "absent" /\ \E t \in Targets : job'[j] = NewJob(t)
  \/ job[j].claimedAt = "fresh" /\ job'[j] = Expired(job[j])
  \/ /\ job[j].state \in OutStates
     /\ job[j].attempts < MaxAttempts
     /\ job'[j] = Requeued(job[j])
  \/ job[j].state \in OutStates /\ job'[j] = Exhausted(job[j])
  \/ \E th \in Threads : /\ job[j].state = "queued"
                         /\ thread[th].attempts = job[j].attempts
                         /\ thread[th].job = j
                         /\ \/ ClaimGrant(th)
                               /\ job'[j] = Claimed(job[j], thread[th])
                            \/ ClaimRefuse(th)
                               /\ job'[j] = Refused(job[j], thread[th])
  \/ job[j].state = "claimed" /\ job'[j] = Started(job[j])
  \/ \E h \in Handler : /\ h.was = job[j].state
                        /\ job[j].state # "absent"
                        /\ job'[j] = Closed(job[j], h)

\* With one thread, a row changes only in ways its state allows.
LEMMA SerialRowSteps ==
  ASSUME TypeOK, ViewsAccurate, [Next]_vars, NEW j \in JobIds
  PROVE  SerialRowStep(j)
<1>1. RowStep(j)
  BY RowSteps
<1>2. ASSUME NEW th \in Threads, thread[th].op = "requeue"
      PROVE  /\ j \in thread[th].retry =>
                  job[j].state \in OutStates /\ job[j].attempts < MaxAttempts
             /\ j \in thread[th].exhausted => job[j].state \in OutStates
  BY <1>2 DEF ViewsAccurate
<1>3. ASSUME NEW th \in Threads, thread[th].op = "claimWrite", thread[th].job = j
      PROVE  job[j].state = "queued" /\ thread[th].attempts = job[j].attempts
  BY <1>3 DEF ViewsAccurate
<1>4. ASSUME NEW th \in Threads, thread[th].op = "mark", thread[th].job = j
      PROVE  job[j].state = "claimed"
  BY <1>4 DEF ViewsAccurate
<1>5. ASSUME NEW th \in Threads, thread[th].op = "result", thread[th].job = j
      PROVE  /\ thread[th] \in Handler
             /\ thread[th].was = job[j].state
             /\ job[j].state # "absent"
  BY <1>5 DEF ViewsAccurate, TypeOK
<1> QED
  BY <1>1, <1>2, <1>3, <1>4, <1>5 DEF RowStep, SerialRowStep

\* What those changes do to the columns the invariants are about.
LEMMA SerialColumns ==
  ASSUME TypeOK, ViewsAccurate, [Next]_vars, NEW j \in JobIds
  PROVE  /\ job[j].state # "absent" => /\ job'[j].state # "absent"
                                       /\ job'[j].target = job[j].target
                                       /\ job'[j].attempts >= job[j].attempts
         /\ job[j].state = "absent" => \/ job'[j].state = "absent"
                                       \/ \E t \in Targets : job'[j] = NewJob(t)
         /\ job[j].state \in ClosedStates => job'[j].state \in ClosedStates
<1>1. job[j] \in JobRow
  BY DEF TypeOK
<1>2. SerialRowStep(j)
  BY SerialRowSteps
<1>3. \A h : /\ Requeued(job[j]).target = job[j].target
             /\ Requeued(job[j]).attempts = job[j].attempts
             /\ Exhausted(job[j]).target = job[j].target
             /\ Exhausted(job[j]).attempts = job[j].attempts
             /\ Started(job[j]).target = job[j].target
             /\ Started(job[j]).attempts = job[j].attempts
             /\ Expired(job[j]).target = job[j].target
             /\ Closed(job[j], h).target = job[j].target
  BY <1>1 DEF Requeued, Exhausted, Started, Expired, Closed, JobRow
<1>4. \A h : h.was = job[j].state => Closed(job[j], h).state = Outcome(h)
  BY <1>1 DEF Closed, JobRow
<1>5. \A h : Outcome(h) \in ClosedStates
  BY DEF Outcome, ClosedStates
<1>6. job[j].attempts \in Nat
  BY <1>1 DEF JobRow
<1>7. job[j].state # "absent" => /\ job'[j].state # "absent"
                                 /\ job'[j].target = job[j].target
                                 /\ job'[j].attempts >= job[j].attempts
  BY <1>1, <1>2, <1>3, <1>4, <1>5, <1>6, RowFields DEF SerialRowStep, ClosedStates
<1>8. job[j].state = "absent" => \/ job'[j].state = "absent"
                                 \/ \E t \in Targets : job'[j] = NewJob(t)
  BY <1>1, <1>2, RowFields DEF SerialRowStep, OutStates
<1>9. job[j].state \in ClosedStates => job'[j].state \in ClosedStates
  BY <1>1, <1>2, <1>4, <1>5, RowFields DEF SerialRowStep, ClosedStates, OutStates
<1> QED
  BY <1>7, <1>8, <1>9
-----------------------------------------------------------------------------
\* Handlers with accurate views work for rows that exist.
LEMMA ViewsOfRows ==
  ASSUME TypeOK, ViewsAccurate
  PROVE  HandlersHaveRows /\ EnqueuersSeeNone
BY DEF ViewsAccurate, HandlersHaveRows, EnqueuersSeeNone, OutStates

\* No step gives a target a second pending job.
LEMMA OnePendingStep ==
  ASSUME TypeOK, ViewsAccurate, OnePendingPerTarget, [Next]_vars
  PROVE  OnePendingPerTarget'
<1> SUFFICES ASSUME NEW j \in JobIds, NEW k \in JobIds,
                    job'[j].state \in PendingStates,
                    job'[k].state \in PendingStates,
                    job'[j].target = job'[k].target, j # k
             PROVE  FALSE
  BY DEF OnePendingPerTarget
<1>1. job[j].state # "absent" /\ job[k].state # "absent"
  BY ViewsOfRows, FreshTargets DEF PendingStates
<1>2. ASSUME NEW i \in JobIds, job[i].state # "absent",
             job'[i].state \in PendingStates
      PROVE  job[i].state \in PendingStates /\ job'[i].target = job[i].target
  BY <1>2, SerialColumns
     DEF TypeOK, JobRow, JobStates, PendingStates, ClosedStates
<1> QED
  BY <1>1, <1>2 DEF OnePendingPerTarget
-----------------------------------------------------------------------------
(* With one thread a view stays accurate until it is used: the step that      *)
(* takes it changes no row, and every step that changes one ends the handler. *)

ThreadsIdle == \A th \in Threads : thread[th] = Idle

\* A free thread has no view to be out of date.
LEMMA IdleViews ==
  ASSUME ThreadsIdle'
  PROVE  ViewsAccurate'
BY DEF ThreadsIdle, ViewsAccurate, Idle

\* A view is accurate when it is taken.
LEMMA ViewTaken ==
  ASSUME OneThread, TypeOK, NEW th \in Threads, NEW h \in Handler, Become(th, h),
         UNCHANGED job,
         /\ h.op = "scanNow" => ~ Pending(h.target)
         /\ h.op = "requeue" =>
              /\ \A j \in h.retry : job[j].state \in OutStates
              /\ \A j \in h.retry : job[j].attempts < MaxAttempts
              /\ \A j \in h.exhausted : job[j].state \in OutStates
         /\ h.op = "tickInsert" => ~ Pending(h.first)
         /\ h.op \in {"claimRecheck", "claimWrite"} =>
              /\ job[h.job].state = "queued"
              /\ job[h.job].attempts = h.attempts
         /\ h.op = "mark" => job[h.job].state = "claimed"
         /\ h.op = "result" => job[h.job].state = h.was /\ h.was # "absent"
  PROVE  ViewsAccurate'
<1>1. \A u \in Threads : thread'[u] = h
  BY DEF OneThread, Become, TypeOK
<1> QED
  BY <1>1 DEF ViewsAccurate, Pending

\* A handler that ends leaves every thread free when there is only one.
LEMMA HandlerEnds ==
  ASSUME OneThread, TypeOK, NEW th \in Threads, Become(th, Idle)
  PROVE  ViewsAccurate'
<1>1. ThreadsIdle'
  BY DEF OneThread, Become, TypeOK, ThreadsIdle
<1> QED
  BY <1>1, IdleViews

\* A step that leaves the table alone leaves the views accurate.
LEMMA ViewsKept ==
  ASSUME TypeOK, ViewsAccurate, UNCHANGED thread,
         \A j \in JobIds : /\ job'[j].state = job[j].state
                           /\ job'[j].attempts = job[j].attempts
                           /\ job'[j].target = job[j].target
  PROVE  ViewsAccurate'
<1> SUFFICES ASSUME NEW th \in Threads
             PROVE  LET h == thread[th] IN
      /\ h.op = "scanNow" => ~ Pending(h.target)'
      /\ h.op = "requeue" =>
           /\ \A j \in h.retry : job'[j].state \in OutStates
           /\ \A j \in h.retry : job'[j].attempts < MaxAttempts
           /\ \A j \in h.exhausted : job'[j].state \in OutStates
      /\ h.op = "tickInsert" => ~ Pending(h.first)'
      /\ h.op \in {"claimRecheck", "claimWrite"} =>
           /\ job'[h.job].state = "queued"
           /\ job'[h.job].attempts = h.attempts
      /\ h.op = "mark" => job'[h.job].state = "claimed"
      /\ h.op = "result" => job'[h.job].state = h.was /\ h.was # "absent"
  BY DEF ViewsAccurate, Pending
<1>1. thread[th] \in Handler
  BY DEF TypeOK
<1> QED
  BY <1>1, HandlerFields DEF ViewsAccurate, Pending

\* With one thread, what a handler loaded still holds when it writes.
LEMMA ViewsStep ==
  ASSUME OneThread, TypeOK, ViewsAccurate, RunsCounted, [Next]_vars
  PROVE  ViewsAccurate'
<1> USE DEF TypeOK
<1>1. CASE UNCHANGED <<job, thread>>
  BY <1>1, ViewsKept
<1>2. ASSUME NEW j \in JobIds, Expire(j)
      PROVE  ViewsAccurate'
  BY <1>2, ViewsKept DEF Expire, Expired, JobRow
<1>3. ASSUME NEW th \in Threads, NEW t \in Targets, ScanNowRead(th, t)
      PROVE  ViewsAccurate'
  <2>1. [op |-> "scanNow", target |-> t] \in Handler
    BY DEF Handler
  <2> QED
    BY <1>3, <2>1, ViewTaken DEF ScanNowRead
<1>4. ASSUME NEW th \in Threads, TickRead(th)
      PROVE  ViewsAccurate'
  <2> DEFINE stale == {j \in JobIds : /\ job[j].state \in OutStates
                                      /\ job[j].claimedAt = "stale"}
             exhausted == {j \in stale : OutOfAttempts(job[j])}
             h1 == [op |-> "requeue", retry |-> stale \ exhausted,
                    exhausted |-> exhausted]
             h2 == [op |-> "tick", todo |-> due]
  <2>1. h1 \in Handler /\ h2 \in Handler
    BY DEF Handler
  <2>2. UNCHANGED job /\ (Become(th, h1) \/ Become(th, h2))
    BY <1>4 DEF TickRead
  <2>3. \A j \in stale \ exhausted : job[j].attempts < MaxAttempts
    BY BoundsAssumption DEF OutOfAttempts, JobRow
  <2>4. CASE Become(th, h1)
    BY <2>1, <2>2, <2>3, <2>4, ViewTaken
  <2>5. CASE Become(th, h2)
    BY <2>1, <2>2, <2>5, ViewTaken
  <2> QED
    BY <2>2, <2>4, <2>5
<1>5. ASSUME NEW th \in Threads, TickSkip(th) \/ TickPick(th)
      PROVE  ViewsAccurate'
  <2>1. thread[th].todo \subseteq Targets
    BY <1>5, HandlerFields DEF TickSkip, TickPick
  <2>2. PICK t \in thread[th].todo :
          \/ Become(th, [op |-> "tick", todo |-> thread[th].todo \ {t}])
          \/ /\ ~ Pending(t)
             /\ Become(th, [op |-> "tickInsert", first |-> t,
                            todo |-> thread[th].todo \ {t}])
    BY <1>5 DEF TickSkip, TickPick
  <2>3. /\ [op |-> "tick", todo |-> thread[th].todo \ {t}] \in Handler
        /\ [op |-> "tickInsert", first |-> t,
            todo |-> thread[th].todo \ {t}] \in Handler
    BY <2>1 DEF Handler
  <2>4. UNCHANGED job
    BY <1>5 DEF TickSkip, TickPick
  <2> QED
    BY <2>2, <2>3, <2>4, ViewTaken
<1>6. ASSUME NEW th \in Threads, NEW w \in Workers, ClaimSelect(th, w)
      PROVE  ViewsAccurate'
  <2>1. PICK j \in JobIds :
          /\ job[j].state = "queued"
          /\ Become(th, [op |-> "claimRecheck", job |-> j, worker |-> w,
                         attempts |-> job[j].attempts])
    BY <1>6 DEF ClaimSelect, Oldest
  <2>2. [op |-> "claimRecheck", job |-> j, worker |-> w,
         attempts |-> job[j].attempts] \in Handler
    BY DEF Handler, JobRow
  <2> QED
    BY <1>6, <2>1, <2>2, ViewTaken DEF ClaimSelect
<1>7. ASSUME NEW th \in Threads, ClaimRecheck(th)
      PROVE  ViewsAccurate'
  <2> DEFINE h == thread[th]
             g == [h EXCEPT !.op = "claimWrite"]
  <2>1. h.op = "claimRecheck" /\ h \in Handler
    BY <1>7 DEF ClaimRecheck
  <2>2. h \in [op : {"claimRecheck", "claimWrite"}, job : JobIds,
               worker : Workers, attempts : Nat]
    BY <2>1 DEF Handler
  <2>3. /\ g \in Handler
        /\ g.op = "claimWrite" /\ g.job = h.job /\ g.attempts = h.attempts
    BY <2>2 DEF Handler
  <2>4. job[h.job].state = "queued" /\ job[h.job].attempts = h.attempts
    BY <2>1 DEF ViewsAccurate
  <2>5. UNCHANGED job /\ (Become(th, g) \/ Become(th, Idle))
    BY <1>7 DEF ClaimRecheck
  <2> HIDE DEF g
  <2> QED
    BY <2>3, <2>4, <2>5, ViewTaken, HandlerEnds
<1>8. ASSUME NEW th \in Threads, NEW r \in RunIds, MarkRead(th, r)
      PROVE  ViewsAccurate'
  <2> DEFINE h == [op |-> "mark", job |-> run[r].job]
  <2>1. run[r].job \in JobIds
    BY <1>8 DEF MarkRead, Run, NoRun
  <2>2. h \in Handler
    BY <2>1 DEF Handler
  <2>3. CASE job[run[r].job].state = "claimed"
    BY <1>8, <2>2, <2>3, ViewTaken DEF MarkRead, MarkApplies
  <2>4. CASE job[run[r].job].state # "claimed"
    BY <1>1, <1>8, <2>4 DEF MarkRead, MarkApplies
  <2> QED
    BY <2>3, <2>4
<1>9. ASSUME NEW th \in Threads, NEW r \in RunIds, NEW ok \in BOOLEAN,
             ResultRead(th, r, ok)
      PROVE  ViewsAccurate'
  <2> DEFINE h == [op |-> "result", run |-> r, job |-> run[r].job, ok |-> ok,
                   was |-> job[run[r].job].state]
  <2>1. run[r].job \in JobIds /\ run[r].pc # "free"
    BY <1>9 DEF ResultRead, Run, NoRun
  <2>2. h.was # "absent" /\ h.was \in JobStates
    BY <2>1 DEF RunsCounted, JobRow
  <2>3. h \in Handler
    BY <2>1, <2>2 DEF Handler
  <2> QED
    BY <1>9, <2>2, <2>3, ViewTaken DEF ResultRead
<1>10. CASE Restart
  BY <1>10, IdleViews DEF Restart, ThreadsIdle
<1> QED
  BY <1>1, <1>2, <1>3, <1>4, <1>5, <1>6, <1>7, <1>8, <1>9, <1>10, HandlerEnds
     DEF Next, HandlerStep, vars, BecomesDue, Postpone, ScanNowWrite,
         RequeueWrite, TickWrite, TickEnd, ClaimGrant, ClaimRefuse, MarkWrite,
         ResultWrite, MarkLost, Lose, Abort
-----------------------------------------------------------------------------
\* Handlers with accurate views count attempts right.
LEMMA ViewsOfAttempts ==
  ASSUME ViewsAccurate, AttemptsBounded, TypeOK
  PROVE  ClaimsAccurate
<1> SUFFICES ASSUME NEW th \in Threads
             PROVE  LET h == thread[th] IN
      /\ h.op \in {"claimRecheck", "claimWrite"} =>
           /\ job[h.job].state # "absent"
           /\ job[h.job].attempts = h.attempts
           /\ h.attempts < MaxAttempts
      /\ h.op = "requeue" => \A j \in h.retry : job[j].attempts < MaxAttempts
  BY DEF ClaimsAccurate
<1>1. thread[th] \in Handler
  BY DEF TypeOK
<1> QED
  BY <1>1, HandlerFields DEF ViewsAccurate, AttemptsBounded

\* No step leaves a job out with no claim date.
LEMMA ReclaimableStep ==
  ASSUME TypeOK, ViewsAccurate, RowCoherent, PendingReclaimable, [Next]_vars
  PROVE  PendingReclaimable'
<1> SUFFICES ASSUME NEW j \in JobIds, job'[j].state \in OutStates
             PROVE  job'[j].claimedAt # "null"
  BY DEF PendingReclaimable
<1>1. /\ job[j] \in JobRow
      /\ job[j].state \in OutStates => job[j].claimedAt # "null"
  BY DEF TypeOK, PendingReclaimable
<1>2. \A t \in Targets : NewJob(t).state = "queued"
  BY DEF NewJob, NoJob
<1>3. /\ Expired(job[j]).claimedAt = "stale"
      /\ Started(job[j]).claimedAt = job[j].claimedAt
      /\ \A h : Closed(job[j], h).claimedAt = job[j].claimedAt
  BY <1>1 DEF Expired, Started, Closed, JobRow
<1>4. \A h : Outcome(h) \notin OutStates
  BY DEF Outcome, OutStates
<1>5. \A h : h.was = job[j].state => Closed(job[j], h).state = Outcome(h)
  BY <1>1 DEF Closed, JobRow
<1> QED
  BY <1>1, <1>2, <1>3, <1>4, <1>5, SerialRowSteps, RowFields
     DEF SerialRowStep, OutStates
-----------------------------------------------------------------------------
SerialInv ==
  /\ ViewsAccurate
  /\ RunsCounted
  /\ OnePendingPerTarget
  /\ HandoutsDistinct
  /\ AttemptsBounded
  /\ PendingReclaimable

\* The inductive invariant of serialised handlers.
LEMMA SerialInvariant ==
  ASSUME OneThread
  PROVE  Spec => []SerialInv
<1>1. Init => SerialInv
  BY BoundsAssumption
     DEF Init, SerialInv, ViewsAccurate, RunsCounted, OnePendingPerTarget,
         HandoutsDistinct, AttemptsBounded, PendingReclaimable, NoJob, NoRun,
         Idle, PendingStates, OutStates
<1>2. TypeOK /\ TypeOK' /\ RowCoherent /\ SerialInv /\ [Next]_vars => SerialInv'
  BY ViewsOfAttempts, ViewsStep, RunsCountedStep, OnePendingStep, HandoutsStep, AttemptsStep,
     ReclaimableStep DEF SerialInv
<1> QED
  BY <1>1, <1>2, TypeCorrect, RowsCoherent, PTL DEF Spec

\* Run one at a time, a target has at most one job that is queued, claimed or running:
\* what a handler saw pending when it decided is still so when it inserts.
THEOREM SerialOnePending ==
  ASSUME OneThread
  PROVE  Spec => []OnePendingPerTarget
<1>1. SerialInv => OnePendingPerTarget
  BY DEF SerialInv
<1> QED
  BY <1>1, SerialInvariant, PTL

\* Run one at a time, no attempt of a job is handed to two workers, also when late
\* results and requeues come between.
THEOREM SerialHandouts ==
  ASSUME OneThread
  PROVE  Spec => []HandoutsDistinct
<1>1. SerialInv => HandoutsDistinct
  BY DEF SerialInv
<1> QED
  BY <1>1, SerialInvariant, PTL

\* Run one at a time, no job is handed out more often than job_max_attempts allows,
\* however many of its workers fail or answer late.
THEOREM SerialAttempts ==
  ASSUME OneThread
  PROVE  Spec => []AttemptsBounded
<1>1. SerialInv => AttemptsBounded
  BY DEF SerialInv
<1> QED
  BY <1>1, SerialInvariant, PTL

\* Run one at a time, no claimed or running job lacks the date requeue_stale
\* compares, so none is out of its sight.
THEOREM SerialReclaimable ==
  ASSUME OneThread
  PROVE  Spec => []PendingReclaimable
<1>1. SerialInv => PendingReclaimable
  BY DEF SerialInv
<1> QED
  BY <1>1, SerialInvariant, PTL

\* Run one at a time, no handler reopens a closed job.
THEOREM SerialClosed ==
  ASSUME OneThread
  PROVE  Spec => ClosedStaysClosed
<1>1. TypeOK /\ SerialInv /\ [Next]_vars =>
        [\A j \in JobIds : job[j].state \in ClosedStates =>
                            job'[j].state \in ClosedStates]_vars
  BY SerialColumns DEF SerialInv
<1> QED
  BY <1>1, TypeCorrect, SerialInvariant, PTL DEF Spec, ClosedStaysClosed
-----------------------------------------------------------------------------
(* The job table implements the documented life cycle. *)

\* With one thread, a step does to a row only what the life cycle knows.
LEMMA SerialLifeSteps ==
  ASSUME TypeOK, SerialInv, [Next]_vars, NEW j \in JobIds
  PROVE  LifeStep(j)
BY SerialRowSteps DEF SerialInv, SerialRowStep, LifeStep, OutStates

\* One handler at a time, every behaviour of the table is one of the life cycle.
THEOREM SerialLifecycle ==
  ASSUME OneThread
  PROVE  Spec => ImplementsLifecycle
<1>1. TypeOK /\ TypeOK' /\ SerialInv /\ SerialInv' /\ [Next]_vars
        => [Lifecycle!Next]_(Lifecycle!vars)
  BY SerialLifeSteps, LifecycleStep DEF SerialInv
<1> QED
  BY <1>1, LifecycleInit, TypeCorrect, SerialInvariant, PTL
     DEF Spec, ImplementsLifecycle, Lifecycle!Spec

\* Run one at a time, every move brings a job nearer to its end: late answers, lost
\* workers and requeues cannot send it round more often than its attempts allow.
THEOREM SerialJobsRunOut ==
  ASSUME OneThread
  PROVE  Spec => [][MovesDown]_vars
<1>1. TypeOK /\ TypeOK' /\ SerialInv /\ SerialInv' /\ [Next]_vars
        => [MovesDown]_vars
  BY SerialLifeSteps, MovesRunOut DEF SerialInv, MovesDown
<1> QED
  BY <1>1, TypeCorrect, SerialInvariant, PTL DEF Spec
=============================================================================
