-------------------------- MODULE ScanQueueProofs --------------------------
(* Theorems about the job queue, for every value of its constants. *)
EXTENDS ScanQueueLifecycle, FiniteSetTheorems, TLAPS

\* The orchestrator runs one handler at a time.
OneThread == \A a, b \in Threads : a = b

(* What a thread that is not idle holds. *)

\* What a busy thread remembers, by the operation it is in.
LEMMA HandlerFields ==
  ASSUME NEW h \in Handler
  PROVE  /\ h.op = "scanNow" => h.target \in Targets
         /\ h.op = "requeue" => /\ h.retry \subseteq JobIds
                                /\ h.exhausted \subseteq JobIds
         /\ h.op = "tick" => h.todo \subseteq Targets
         /\ h.op = "tickInsert" => h.first \in Targets /\ h.todo \subseteq Targets
         /\ h.op \in {"claimRecheck", "claimWrite"} =>
              h.job \in JobIds /\ h.worker \in Workers /\ h.attempts \in Nat
         /\ h.op = "mark" => h.job \in JobIds
         /\ h.op = "result" => /\ h.run \in RunIds
                               /\ h.job \in JobIds
                               /\ h.ok \in BOOLEAN
                               /\ h.was \in JobStates
BY DEF Handler

\* A free thread is a handler with nothing loaded.
LEMMA IdleIsHandler == Idle \in Handler
BY DEF Idle, Handler

\* Writing a handler to a thread keeps the threads typed.
LEMMA ThreadTyped ==
  ASSUME TypeOK, NEW th \in Threads, NEW h \in Handler, Become(th, h)
  PROVE  thread' \in [Threads -> Handler]
BY DEF TypeOK, Become

\* enqueue_target builds a well-typed row.
LEMMA NewJobTyped ==
  ASSUME TypeOK, NEW t \in Targets
  PROVE  NewJob(t) \in JobRow
BY SpecHostsAssumption DEF TypeOK, NewJob, NoJob, JobRow, JobStates,
   PendingStates, InScope

\* A commit that inserts jobs keeps the table and the due targets typed.
LEMMA InsertJobsTyped ==
  ASSUME TypeOK, NEW tbl \in [JobIds -> JobRow], NEW C \in SUBSET Targets,
         InsertJobs(tbl, C)
  PROVE  job' \in [JobIds -> JobRow] /\ due' \subseteq Targets
BY NewJobTyped DEF InsertJobs, TypeOK

\* Every update of a row by a handler keeps it typed.
LEMMA RowsTyped ==
  ASSUME NEW row \in JobRow
  PROVE  /\ Requeued(row) \in JobRow
         /\ Exhausted(row) \in JobRow
         /\ \A h \in Handler :
              /\ h.op \in {"claimRecheck", "claimWrite"} =>
                   /\ Claimed(row, h) \in JobRow
                   /\ Refused(row, h) \in JobRow
              /\ h.op = "result" => Closed(row, h) \in JobRow
<1>1. Requeued(row) \in JobRow /\ Exhausted(row) \in JobRow
  BY DEF Requeued, Exhausted, JobRow, JobStates, PendingStates, ClosedStates
<1>2. ASSUME NEW h \in Handler, h.op \in {"claimRecheck", "claimWrite"}
      PROVE  /\ Claimed(row, h) \in JobRow
             /\ Refused(row, h) \in JobRow
  <2>1. h.worker \in Workers /\ h.attempts + 1 \in Nat
    BY <1>2, HandlerFields
  <2> QED
    BY <2>1 DEF Claimed, Refused, JobRow, JobStates, PendingStates, ClosedStates
<1>3. ASSUME NEW h \in Handler, h.op = "result"
      PROVE  Closed(row, h) \in JobRow
  BY DEF Closed, Outcome, JobRow, JobStates, PendingStates, ClosedStates
<1> QED
  BY <1>1, <1>2, <1>3

\* requeue_stale keeps the table typed.
LEMMA RequeueTyped ==
  ASSUME TypeOK, NEW h
  PROVE  AfterRequeue(h) \in [JobIds -> JobRow]
BY RowsTyped DEF AfterRequeue, TypeOK

\* Every variable keeps its type.
THEOREM TypeCorrect == Spec => []TypeOK
<1>1. Init => TypeOK
  BY IdleIsHandler, NullAssumption DEF Init, TypeOK, NoJob, JobRow, JobStates, NoRun, Run
<1>2. TypeOK /\ [Next]_vars => TypeOK'
  <2> SUFFICES ASSUME TypeOK, [Next]_vars
               PROVE  TypeOK'
    OBVIOUS
  <2> USE DEF TypeOK
  <2>1. CASE UNCHANGED vars
    BY <2>1 DEF vars
  <2>2. ASSUME NEW t \in Targets, BecomesDue(t) \/ Postpone(t)
        PROVE  TypeOK'
    BY <2>2 DEF BecomesDue, Postpone
  <2>3. ASSUME NEW j \in JobIds, Expire(j)
        PROVE  TypeOK'
    BY <2>3 DEF Expire, Expired, JobRow
  <2>4. ASSUME NEW th \in Threads, NEW t \in Targets, ScanNowRead(th, t)
        PROVE  TypeOK'
    <3>1. [op |-> "scanNow", target |-> t] \in Handler
      BY DEF Handler
    <3> QED
      BY <2>4, <3>1, ThreadTyped DEF ScanNowRead
  <2>5. ASSUME NEW th \in Threads, ScanNowWrite(th)
        PROVE  TypeOK'
    <3>1. {thread[th].target} \in SUBSET Targets
      BY <2>5, HandlerFields DEF ScanNowWrite
    <3> QED
      BY <2>5, <3>1, InsertJobsTyped, IdleIsHandler, ThreadTyped DEF ScanNowWrite
  <2>6. ASSUME NEW th \in Threads, TickRead(th)
        PROVE  TypeOK'
    <3>1. PICK h \in Handler : Become(th, h)
      BY <2>6 DEF TickRead, Handler
    <3> QED
      BY <2>6, <3>1, ThreadTyped DEF TickRead
  <2>7. ASSUME NEW th \in Threads, RequeueWrite(th)
        PROVE  TypeOK'
    <3> DEFINE tbl == AfterRequeue(thread[th])
    <3>1. tbl \in [JobIds -> JobRow]
      BY RequeueTyped
    <3>2. Wanted(tbl, due) \in SUBSET Targets
      BY DEF Wanted
    <3>3. InsertJobs(tbl, Wanted(tbl, due))
      BY <2>7 DEF RequeueWrite
    <3>4. job' \in [JobIds -> JobRow] /\ due' \subseteq Targets
      BY <3>1, <3>2, <3>3, InsertJobsTyped
    <3> QED
      BY <2>7, <3>4, IdleIsHandler, ThreadTyped DEF RequeueWrite
  <2>8. ASSUME NEW th \in Threads, TickSkip(th) \/ TickPick(th)
        PROVE  TypeOK'
    <3>1. thread[th].todo \subseteq Targets
      BY <2>8, HandlerFields DEF TickSkip, TickPick
    <3>2. PICK h \in Handler : Become(th, h)
      BY <2>8, <3>1 DEF TickSkip, TickPick, Handler
    <3> QED
      BY <2>8, <3>2, ThreadTyped DEF TickSkip, TickPick
  <2>9. ASSUME NEW th \in Threads, TickWrite(th)
        PROVE  TypeOK'
    <3> DEFINE C == {thread[th].first} \cup Wanted(job, thread[th].todo)
    <3>1. C \in SUBSET Targets
      BY <2>9, HandlerFields DEF TickWrite, Wanted
    <3>2. InsertJobs(job, C)
      BY <2>9 DEF TickWrite
    <3>3. job' \in [JobIds -> JobRow] /\ due' \subseteq Targets
      BY <3>1, <3>2, InsertJobsTyped
    <3> QED
      BY <2>9, <3>3, IdleIsHandler, ThreadTyped DEF TickWrite
  <2>10. ASSUME NEW th \in Threads, TickEnd(th) \/ Abort(th)
         PROVE  TypeOK'
    BY <2>10, IdleIsHandler, ThreadTyped DEF TickEnd, Abort
  <2>11. ASSUME NEW th \in Threads, NEW w \in Workers, ClaimSelect(th, w)
         PROVE  TypeOK'
    <3>1. PICK h \in Handler : Become(th, h)
      BY <2>11 DEF ClaimSelect, Handler, JobRow
    <3> QED
      BY <2>11, <3>1, ThreadTyped DEF ClaimSelect
  <2>12. ASSUME NEW th \in Threads, ClaimRecheck(th)
         PROVE  TypeOK'
    <3>1. [thread[th] EXCEPT !.op = "claimWrite"] \in Handler
      BY <2>12 DEF ClaimRecheck, Handler
    <3> QED
      BY <2>12, <3>1, IdleIsHandler, ThreadTyped DEF ClaimRecheck
  <2>13. ASSUME NEW th \in Threads, ClaimGrant(th)
         PROVE  TypeOK'
    <3> DEFINE h == thread[th]
    <3>1. h \in Handler /\ h.op \in {"claimRecheck", "claimWrite"}
      BY <2>13 DEF ClaimGrant
    <3>2. h.job \in JobIds /\ h.worker \in Workers /\ h.attempts + 1 \in Nat
      BY <3>1, HandlerFields
    <3>3. job' \in [JobIds -> JobRow]
      BY <2>13, <3>1, <3>2, RowsTyped DEF ClaimGrant
    <3>4. run' \in [RunIds -> Run]
      BY <2>13, <3>2 DEF ClaimGrant, Delivered, Run
    <3> QED
      BY <2>13, <3>3, <3>4, IdleIsHandler, ThreadTyped DEF ClaimGrant
  <2>14. ASSUME NEW th \in Threads, ClaimRefuse(th)
         PROVE  TypeOK'
    <3> DEFINE h == thread[th]
    <3>1. h \in Handler /\ h.op \in {"claimRecheck", "claimWrite"}
      BY <2>14 DEF ClaimRefuse
    <3>2. h.job \in JobIds
      BY <3>1, HandlerFields
    <3>3. job' \in [JobIds -> JobRow]
      BY <2>14, <3>1, <3>2, RowsTyped DEF ClaimRefuse
    <3> QED
      BY <2>14, <3>3, IdleIsHandler, ThreadTyped DEF ClaimRefuse
  <2>15. ASSUME NEW th \in Threads, NEW r \in RunIds, MarkRead(th, r)
         PROVE  TypeOK'
    <3>1. run[r].job \in JobIds /\ run' \in [RunIds -> Run]
      BY <2>15 DEF MarkRead, SetRun, Run, NoRun
    <3>2. PICK h \in Handler : Become(th, h) \/ UNCHANGED thread
      BY <2>15, <3>1, IdleIsHandler DEF MarkRead, Handler
    <3> QED
      BY <2>15, <3>1, <3>2, ThreadTyped DEF MarkRead
  <2>16. ASSUME NEW th \in Threads, MarkWrite(th)
         PROVE  TypeOK'
    <3>1. \A row \in JobRow : Started(row) \in JobRow
      BY DEF Started, JobRow, JobStates, PendingStates
    <3>2. job' \in [JobIds -> JobRow]
      BY <2>16, <3>1 DEF MarkWrite
    <3> QED
      BY <2>16, <3>2, IdleIsHandler, ThreadTyped DEF MarkWrite
  <2>17. ASSUME NEW th \in Threads, NEW r \in RunIds, NEW ok \in BOOLEAN,
                ResultRead(th, r, ok)
         PROVE  TypeOK'
    <3> DEFINE h == [op |-> "result", run |-> r, job |-> run[r].job, ok |-> ok,
                     was |-> job[run[r].job].state]
    <3>1. run[r].job \in JobIds /\ run' \in [RunIds -> Run]
      BY <2>17 DEF ResultRead, SetRun, Run, NoRun
    <3>2. h.was \in JobStates
      BY <3>1 DEF JobRow
    <3>3. h \in Handler
      BY <3>1, <3>2 DEF Handler
    <3> QED
      BY <2>17, <3>1, <3>3, ThreadTyped DEF ResultRead
  <2>18. ASSUME NEW th \in Threads, ResultWrite(th)
         PROVE  TypeOK'
    <3> DEFINE h == thread[th]
    <3>1. h \in Handler /\ h.op = "result"
      BY <2>18 DEF ResultWrite
    <3>2. h.job \in JobIds /\ h.run \in RunIds
      BY <3>1, HandlerFields
    <3>3. job' \in [JobIds -> JobRow]
      BY <2>18, <3>1, <3>2, RowsTyped DEF ResultWrite
    <3>4. ingested' \subseteq RunIds
      BY <2>18, <3>2 DEF ResultWrite
    <3> QED
      BY <2>18, <3>3, <3>4, IdleIsHandler, ThreadTyped DEF ResultWrite
  <2>19. ASSUME NEW r \in RunIds, MarkLost(r) \/ Lose(r)
         PROVE  TypeOK'
    BY <2>19 DEF MarkLost, Lose, SetRun, Run, NoRun
  <2>20. CASE Restart
    BY <2>20, IdleIsHandler DEF Restart
  <2> QED
    BY <2>1, <2>2, <2>3, <2>4, <2>5, <2>6, <2>7, <2>8, <2>9, <2>10, <2>11,
       <2>12, <2>13, <2>14, <2>15, <2>16, <2>17, <2>18, <2>19, <2>20
       DEF Next, HandlerStep
<1> QED
  BY <1>1, <1>2, PTL DEF Spec
-----------------------------------------------------------------------------
(* The ways a step changes a row. *)

RowStep(j) ==
  \/ job'[j] = job[j]
  \/ job[j].state = "absent" /\ \E t \in Targets : job'[j] = NewJob(t)
  \/ job[j].claimedAt = "fresh" /\ job'[j] = Expired(job[j])
  \/ \E th \in Threads : /\ thread[th].op = "requeue"
                         /\ RequeueWrite(th)
                         /\ \/ /\ j \in thread[th].retry
                               /\ job'[j] = Requeued(job[j])
                            \/ /\ j \in thread[th].exhausted
                               /\ job'[j] = Exhausted(job[j])
  \/ \E th \in Threads : /\ thread[th].op = "claimWrite"
                         /\ thread[th].job = j
                         /\ \/ ClaimGrant(th)
                               /\ job'[j] = Claimed(job[j], thread[th])
                            \/ ClaimRefuse(th)
                               /\ job'[j] = Refused(job[j], thread[th])
  \/ \E th \in Threads : /\ thread[th].op = "mark"
                         /\ thread[th].job = j
                         /\ MarkWrite(th)
                         /\ job'[j] = Started(job[j])
  \/ \E th \in Threads : /\ thread[th].op = "result"
                         /\ thread[th].job = j
                         /\ ResultWrite(th)
                         /\ job'[j] = Closed(job[j], thread[th])

\* Which columns each handler changes, and to what.
LEMMA RowFields ==
  ASSUME NEW row \in JobRow, NEW h
  PROVE  /\ Claimed(row, h).state = "claimed"
         /\ Claimed(row, h).worker = h.worker
         /\ Claimed(row, h).attempts = h.attempts + 1
         /\ Claimed(row, h).claimedAt = "fresh"
         /\ Claimed(row, h).target = row.target
         /\ Claimed(row, h).hosts = row.hosts
         /\ Refused(row, h).state = "error"
         /\ Refused(row, h).attempts = h.attempts + 1
         /\ Refused(row, h).target = row.target
         /\ Requeued(row).state = "queued"
         /\ Exhausted(row).state = "error"
         /\ Started(row).state = "running"
         /\ Expired(row).state = row.state
         /\ Expired(row).worker = row.worker
         /\ Expired(row).attempts = row.attempts
         /\ Closed(row, h).state \in {row.state, Outcome(h)}
         /\ Closed(row, h).worker = row.worker
         /\ Closed(row, h).attempts = row.attempts
<1>1. /\ Claimed(row, h).state = "claimed"
      /\ Claimed(row, h).worker = h.worker
      /\ Claimed(row, h).attempts = h.attempts + 1
      /\ Claimed(row, h).claimedAt = "fresh"
      /\ Claimed(row, h).target = row.target
      /\ Claimed(row, h).hosts = row.hosts
  BY DEF Claimed, JobRow
<1>2. Refused(row, h).state = "error"
  BY DEF Claimed, Refused, JobRow
<1>3. Refused(row, h).attempts = h.attempts + 1
  BY DEF Claimed, Refused, JobRow
<1>4. Refused(row, h).target = row.target
  BY DEF Claimed, Refused, JobRow
<1>5. Requeued(row).state = "queued" /\ Exhausted(row).state = "error"
  BY DEF Requeued, Exhausted, JobRow
<1>6. /\ Started(row).state = "running"
      /\ Expired(row).state = row.state
      /\ Expired(row).worker = row.worker
      /\ Expired(row).attempts = row.attempts
  BY DEF Started, Expired, JobRow
<1>7. /\ Closed(row, h).state \in {row.state, Outcome(h)}
      /\ Closed(row, h).worker = row.worker
      /\ Closed(row, h).attempts = row.attempts
  BY DEF Closed, JobRow
<1> QED
  BY <1>1, <1>2, <1>3, <1>4, <1>5, <1>6, <1>7

\* Rows an inserting commit leaves as given, and those it creates.
LEMMA InsertJobsStep ==
  ASSUME NEW tbl, NEW C \in SUBSET Targets, InsertJobs(tbl, C), NEW j \in JobIds
  PROVE  \/ job'[j] = tbl[j]
         \/ tbl[j].state = "absent" /\ \E t \in Targets : job'[j] = NewJob(t)
BY DEF InsertJobs

\* The targets of the rows a commit inserts are distinct and come from its list.
LEMMA InsertedTargets ==
  ASSUME NEW tbl \in [JobIds -> JobRow], NEW C, InsertJobs(tbl, C),
         \A t \in C, i \in JobIds : ~ (/\ tbl[i].target = t
                                       /\ tbl[i].state \in PendingStates),
         NEW j \in JobIds, NEW k \in JobIds, j # k,
         tbl[j].state = "absent", job'[j].state # "absent",
         job'[k].state \in PendingStates
  PROVE  job'[k].target # job'[j].target
<1> DEFINE Free == {i \in JobIds : tbl[i].state = "absent"}
<1>1. PICK I \in SUBSET Free : \E new \in [I -> C] :
        /\ \A a, b \in I : new[a] = new[b] => a = b
        /\ job' = [i \in JobIds |-> IF i \in I THEN NewJob(new[i]) ELSE tbl[i]]
  BY DEF InsertJobs
<1>2. PICK new \in [I -> C] :
        /\ \A a, b \in I : new[a] = new[b] => a = b
        /\ job' = [i \in JobIds |-> IF i \in I THEN NewJob(new[i]) ELSE tbl[i]]
  BY <1>1
<1>3. \A t : NewJob(t).target = t
  BY DEF NewJob, NoJob
<1>4. j \in I /\ job'[j].target = new[j] /\ new[j] \in C
  BY <1>2, <1>3
<1>5. CASE k \in I
  BY <1>2, <1>3, <1>4, <1>5
<1>6. CASE k \notin I
  BY <1>2, <1>4, <1>6
<1> QED
  BY <1>5, <1>6

\* Every step of the orchestrator changes each row in one of eight ways or not at all.
LEMMA RowSteps ==
  ASSUME TypeOK, [Next]_vars, NEW j \in JobIds
  PROVE  RowStep(j)
<1> USE DEF TypeOK
<1>1. CASE UNCHANGED job
  BY <1>1 DEF RowStep
<1>2. ASSUME NEW i \in JobIds, Expire(i)
      PROVE  RowStep(j)
  BY <1>2 DEF Expire, RowStep
<1>3. ASSUME NEW th \in Threads, ScanNowWrite(th)
      PROVE  RowStep(j)
  <2>1. {thread[th].target} \in SUBSET Targets
    BY <1>3, HandlerFields DEF ScanNowWrite
  <2> QED
    BY <1>3, <2>1, InsertJobsStep DEF ScanNowWrite, RowStep
<1>4. ASSUME NEW th \in Threads, RequeueWrite(th)
      PROVE  RowStep(j)
  <2> DEFINE tbl == AfterRequeue(thread[th])
  <2>1. InsertJobs(tbl, Wanted(tbl, due)) /\ Wanted(tbl, due) \in SUBSET Targets
    BY <1>4 DEF RequeueWrite, Wanted
  <2>2. \/ job'[j] = tbl[j]
        \/ tbl[j].state = "absent" /\ \E t \in Targets : job'[j] = NewJob(t)
    BY <2>1, InsertJobsStep
  <2>3. \/ j \in thread[th].retry /\ tbl[j] = Requeued(job[j])
        \/ j \in thread[th].exhausted /\ tbl[j] = Exhausted(job[j])
        \/ tbl[j] = job[j]
    BY DEF AfterRequeue
  <2>4. Requeued(job[j]).state = "queued" /\ Exhausted(job[j]).state = "error"
    BY RowFields
  <2>5. thread[th].op = "requeue"
    BY <1>4 DEF RequeueWrite
  <2> QED
    BY <1>4, <2>2, <2>3, <2>4, <2>5 DEF RowStep
<1>5. ASSUME NEW th \in Threads, TickWrite(th)
      PROVE  RowStep(j)
  <2> DEFINE C == {thread[th].first} \cup Wanted(job, thread[th].todo)
  <2>1. C \in SUBSET Targets
    BY <1>5, HandlerFields DEF TickWrite, Wanted
  <2>2. InsertJobs(job, C)
    BY <1>5 DEF TickWrite
  <2> QED
    BY <2>1, <2>2, InsertJobsStep DEF RowStep
<1>6. ASSUME NEW th \in Threads, ClaimGrant(th) \/ ClaimRefuse(th)
      PROVE  RowStep(j)
  BY <1>6 DEF ClaimGrant, ClaimRefuse, RowStep
<1>7. ASSUME NEW th \in Threads, MarkWrite(th)
      PROVE  RowStep(j)
  BY <1>7 DEF MarkWrite, RowStep
<1>8. ASSUME NEW th \in Threads, ResultWrite(th)
      PROVE  RowStep(j)
  BY <1>8 DEF ResultWrite, RowStep
<1> QED
  BY <1>1, <1>2, <1>3, <1>4, <1>5, <1>6, <1>7, <1>8
     DEF Next, HandlerStep, vars, BecomesDue, Postpone, ScanNowRead, TickRead,
         TickSkip, TickPick, TickEnd, ClaimSelect, ClaimRecheck, MarkRead,
         ResultRead, MarkLost, Lose, Abort, Restart

(* New jobs go to targets that have none pending. *)

\* No handler works for a row that was never inserted.
HandlersHaveRows ==
  \A th \in Threads :
    LET h == thread[th] IN
      /\ h.op \in {"claimRecheck", "claimWrite", "mark", "result"} =>
           job[h.job].state # "absent"
      /\ h.op = "requeue" =>
           \A j \in h.retry \cup h.exhausted : job[j].state # "absent"

\* A handler that is about to insert a job for a target it has checked is right.
EnqueuersSeeNone ==
  \A th \in Threads :
    LET h == thread[th] IN
      /\ h.op = "scanNow" => ~ Pending(h.target)
      /\ h.op = "tickInsert" => ~ Pending(h.first)

\* Then every inserted row is for a target without another pending job.
LEMMA FreshTargets ==
  ASSUME TypeOK, HandlersHaveRows, EnqueuersSeeNone, [Next]_vars,
         NEW j \in JobIds, NEW k \in JobIds, j # k,
         job[j].state = "absent", job'[j].state # "absent",
         job'[k].state \in PendingStates
  PROVE  job'[k].target # job'[j].target
<1> USE DEF TypeOK
<1>1. ASSUME NEW th \in Threads, ScanNowWrite(th)
      PROVE  job'[k].target # job'[j].target
  <2>1. InsertJobs(job, {thread[th].target}) /\ ~ Pending(thread[th].target)
    BY <1>1 DEF ScanNowWrite, EnqueuersSeeNone
  <2> QED
    BY <2>1, InsertedTargets DEF Pending
<1>2. ASSUME NEW th \in Threads, RequeueWrite(th)
      PROVE  job'[k].target # job'[j].target
  <2> DEFINE h == thread[th]
             tbl == AfterRequeue(h)
  <2>1. h.op = "requeue" /\ InsertJobs(tbl, Wanted(tbl, due))
    BY <1>2 DEF RequeueWrite
  <2>2. tbl[j].state = "absent"
    BY <2>1 DEF HandlersHaveRows, AfterRequeue
  <2>3. tbl \in [JobIds -> JobRow]
    BY RequeueTyped
  <2>4. \A t \in Wanted(tbl, due), i \in JobIds :
          ~ (tbl[i].target = t /\ tbl[i].state \in PendingStates)
    BY DEF Wanted
  <2> HIDE DEF tbl
  <2> QED
    BY <2>1, <2>2, <2>3, <2>4, InsertedTargets
<1>3. ASSUME NEW th \in Threads, TickWrite(th)
      PROVE  job'[k].target # job'[j].target
  <2> DEFINE C == {thread[th].first} \cup Wanted(job, thread[th].todo)
  <2>1. InsertJobs(job, C) /\ ~ Pending(thread[th].first)
    BY <1>3 DEF TickWrite, EnqueuersSeeNone
  <2>2. \A t \in C, i \in JobIds :
          ~ (job[i].target = t /\ job[i].state \in PendingStates)
    BY <2>1 DEF Wanted, Pending
  <2> HIDE DEF C
  <2> QED
    BY <2>1, <2>2, InsertedTargets
<1>4. CASE UNCHANGED job
  BY <1>4
<1>5. ASSUME NEW i \in JobIds, job[i].state # "absent",
             NEW row, job' = [job EXCEPT ![i] = row]
      PROVE  FALSE
  BY <1>5
<1>6. ASSUME NEW i \in JobIds, Expire(i)
      PROVE  FALSE
  BY <1>5, <1>6 DEF Expire, OutStates
<1>7. ASSUME NEW th \in Threads, ClaimGrant(th) \/ ClaimRefuse(th)
      PROVE  FALSE
  <2>1. thread[th].job \in JobIds /\ job[thread[th].job].state # "absent"
    BY <1>7, HandlerFields DEF ClaimGrant, ClaimRefuse, HandlersHaveRows
  <2> QED
    BY <1>5, <1>7, <2>1 DEF ClaimGrant, ClaimRefuse
<1>8. ASSUME NEW th \in Threads, MarkWrite(th)
      PROVE  FALSE
  <2>1. thread[th].job \in JobIds /\ job[thread[th].job].state # "absent"
    BY <1>8, HandlerFields DEF MarkWrite, HandlersHaveRows
  <2> QED
    BY <1>5, <1>8, <2>1 DEF MarkWrite
<1>9. ASSUME NEW th \in Threads, ResultWrite(th)
      PROVE  FALSE
  <2>1. thread[th].job \in JobIds /\ job[thread[th].job].state # "absent"
    BY <1>9, HandlerFields DEF ResultWrite, HandlersHaveRows
  <2> QED
    BY <1>5, <1>9, <2>1 DEF ResultWrite
<1> QED
  BY <1>1, <1>2, <1>3, <1>4, <1>6, <1>7, <1>8, <1>9
     DEF Next, HandlerStep, vars, BecomesDue, Postpone, ScanNowRead, TickRead,
         TickSkip, TickPick, TickEnd, ClaimSelect, ClaimRecheck, MarkRead,
         ResultRead, MarkLost, Lose, Abort, Restart

-----------------------------------------------------------------------------
\* The columns of every row stay coherent, however many threads interleave.
THEOREM RowsCoherent == Spec => []RowCoherent
<1>1. Init => RowCoherent
  BY DEF Init, RowCoherent, Coherent, NoJob
<1>2. TypeOK /\ RowCoherent /\ [Next]_vars => RowCoherent'
  <2> SUFFICES ASSUME TypeOK, RowCoherent, [Next]_vars, NEW j \in JobIds
               PROVE  Coherent(job'[j])
    BY DEF RowCoherent, Coherent
  <2>1. job[j] \in JobRow /\ Coherent(job[j])
    BY DEF TypeOK, RowCoherent
  <2>2. Coherent(Expired(job[j])) \/ job[j].claimedAt # "fresh"
    BY <2>1 DEF Expired, Coherent, JobRow
  <2>3. Coherent(Requeued(job[j])) /\ Coherent(Exhausted(job[j]))
    BY <2>1 DEF Requeued, Exhausted, Coherent, JobRow
  <2>4. ASSUME NEW th \in Threads, thread[th].op = "claimWrite"
        PROVE  /\ Coherent(Claimed(job[j], thread[th]))
               /\ Coherent(Refused(job[j], thread[th]))
    <3>1. thread[th].worker # NoWorker
      BY <2>4, HandlerFields, NullAssumption DEF TypeOK
    <3> QED
      BY <2>1, <3>1 DEF Claimed, Refused, Coherent, JobRow
  <2>5. Coherent(Started(job[j]))
    BY <2>1 DEF Started, Coherent, JobRow
  <2>6. ASSUME NEW th \in Threads
        PROVE  Coherent(Closed(job[j], thread[th]))
    BY <2>1 DEF Closed, Outcome, Coherent, JobRow
  <2>7. \A t \in Targets : Coherent(NewJob(t))
    BY DEF NewJob, NoJob, Coherent
  <2> QED
    BY <2>1, <2>2, <2>3, <2>4, <2>5, <2>6, <2>7, RowSteps DEF RowStep
<1> QED
  BY <1>1, <1>2, TypeCorrect, PTL DEF Spec
-----------------------------------------------------------------------------
(* Hand-outs are only ever added, and results only ever come from them. *)

RunKept(r) ==
  run[r].pc # "free" => /\ run'[r].pc # "free"
                        /\ run'[r].job = run[r].job
                        /\ run'[r].worker = run[r].worker
                        /\ run'[r].attempt = run[r].attempt

\* A worker that moves on keeps its job, its name and its attempt.
LEMMA SetRunKeeps ==
  ASSUME TypeOK, NEW r \in RunIds, NEW q \in RunIds,
         NEW pc \in {"assigned", "scanning", "gone"}, SetRun(q, pc)
  PROVE  RunKept(r)
BY DEF TypeOK, SetRun, RunKept, Run, NoRun

\* What a run records.
LEMMA RunFields ==
  ASSUME TypeOK, NEW r \in RunIds
  PROVE  /\ run[r].attempt \in Nat
         /\ run[r].pc # "free" => run[r].job \in JobIds
BY DEF TypeOK, Run, NoRun

\* A hand-out was counted in its job's row.
RunsCounted ==
  \A r \in RunIds :
    run[r].pc # "free" => /\ job[run[r].job].state # "absent"
                          /\ run[r].attempt \in 1 .. job[run[r].job].attempts

\* A hand-out is never changed into another one.
LEMMA RunsKept ==
  ASSUME TypeOK, [Next]_vars, NEW r \in RunIds
  PROVE  RunKept(r)
<1>1. CASE UNCHANGED run
  BY <1>1 DEF RunKept
<1>2. ASSUME NEW th \in Threads, ClaimGrant(th)
      PROVE  RunKept(r)
  BY <1>2 DEF ClaimGrant, NextRun, Delivered, RunKept, TypeOK
<1>3. ASSUME NEW th \in Threads, NEW q \in RunIds, MarkRead(th, q)
      PROVE  RunKept(r)
  BY <1>3, SetRunKeeps DEF MarkRead
<1>4. ASSUME NEW th \in Threads, NEW q \in RunIds, NEW ok \in BOOLEAN,
             ResultRead(th, q, ok)
      PROVE  RunKept(r)
  BY <1>4, SetRunKeeps DEF ResultRead
<1>5. ASSUME NEW q \in RunIds, MarkLost(q) \/ Lose(q)
      PROVE  RunKept(r)
  BY <1>5, SetRunKeeps DEF MarkLost, Lose
<1> QED
  BY <1>1, <1>2, <1>3, <1>4, <1>5
     DEF Next, HandlerStep, vars, BecomesDue, Postpone, Expire, ScanNowRead,
         ScanNowWrite, TickRead, RequeueWrite, TickSkip, TickPick, TickWrite,
         TickEnd, ClaimSelect, ClaimRecheck, ClaimRefuse, MarkWrite,
         ResultWrite, Abort, Restart

\* A result handler works for the job its run was given.
LEMMA ResultHandlers ==
  ASSUME TypeOK, [Next]_vars, NEW th \in Threads, thread'[th].op = "result"
  PROVE  \/ thread'[th] = thread[th]
         \/ \E r \in RunIds, ok \in BOOLEAN : ResultRead(th, r, ok)
<1>1. CASE UNCHANGED thread
  BY <1>1
<1>2. ASSUME NEW u \in Threads, NEW h, Become(u, h), h.op # "result"
      PROVE  thread'[th] = thread[th]
  BY <1>2 DEF Become, TypeOK
<1>3. ASSUME NEW u \in Threads, NEW r \in RunIds, NEW ok \in BOOLEAN,
             ResultRead(u, r, ok)
      PROVE  thread'[th] = thread[th] \/ ResultRead(th, r, ok)
  BY <1>3 DEF ResultRead, Become, TypeOK
<1>4. ~ Restart
  BY DEF Restart, Idle
<1>5. Idle.op # "result"
  BY DEF Idle
<1>6. ASSUME NEW u \in Threads, ClaimRecheck(u)
      PROVE  thread'[th] = thread[th]
  BY <1>6 DEF ClaimRecheck, Become, TypeOK, Idle, Handler
<1>7. ASSUME NEW u \in Threads, TickRead(u)
      PROVE  thread'[th] = thread[th]
  BY <1>7, <1>2 DEF TickRead
<1> QED
  BY <1>1, <1>2, <1>3, <1>4, <1>5, <1>6, <1>7
     DEF Next, HandlerStep, vars, BecomesDue, Postpone, Expire, ScanNowRead,
         ScanNowWrite, RequeueWrite, TickSkip, TickPick, TickWrite,
         TickEnd, ClaimSelect, ClaimGrant, ClaimRefuse, MarkRead, MarkWrite,
         MarkLost, Lose, ResultWrite, Abort

\* A result in flight, and a stored Scan, belong to a hand-out of their job.
ResultsFromRuns ==
  /\ \A th \in Threads :
       thread[th].op = "result" =>
         /\ run[thread[th].run].pc # "free"
         /\ run[thread[th].run].job = thread[th].job
  /\ \A r \in ingested : run[r].pc # "free"

\* Every result being processed comes from a run of that job.
LEMMA ResultsFromRunsInvariant == Spec => []ResultsFromRuns
<1>1. Init => ResultsFromRuns
  BY DEF Init, ResultsFromRuns, Idle
<1>2. TypeOK /\ ResultsFromRuns /\ [Next]_vars => ResultsFromRuns'
  <2> SUFFICES ASSUME TypeOK, ResultsFromRuns, [Next]_vars
               PROVE  ResultsFromRuns'
    OBVIOUS
  <2>1. ASSUME NEW th \in Threads, thread'[th].op = "result"
        PROVE  /\ run'[thread'[th].run].pc # "free"
               /\ run'[thread'[th].run].job = thread'[th].job
    <3>1. CASE thread'[th] = thread[th]
      <4>1. thread[th].run \in RunIds
        BY <2>1, <3>1, HandlerFields DEF TypeOK
      <4> QED
        BY <2>1, <3>1, <4>1, RunsKept DEF ResultsFromRuns, RunKept
    <3>2. ASSUME NEW r \in RunIds, NEW ok \in BOOLEAN, ResultRead(th, r, ok)
          PROVE  /\ run'[thread'[th].run].pc # "free"
                 /\ run'[thread'[th].run].job = thread'[th].job
      BY <3>2 DEF ResultRead, SetRun, Become, TypeOK, Run, NoRun
    <3> QED
      BY <2>1, <3>1, <3>2, ResultHandlers
  <2>2. ASSUME NEW r \in ingested'
        PROVE  run'[r].pc # "free"
    <3>1. CASE r \in ingested
      BY <3>1, RunsKept DEF ResultsFromRuns, RunKept, TypeOK
    <3>2. CASE r \notin ingested
      <4>1. PICK th \in Threads : ResultWrite(th)
        BY <2>2, <3>2
           DEF Next, HandlerStep, vars, BecomesDue, Postpone, Expire,
               ScanNowRead, ScanNowWrite, TickRead, RequeueWrite, TickSkip,
               TickPick, TickWrite, TickEnd, ClaimSelect, ClaimRecheck,
               ClaimGrant, ClaimRefuse, MarkRead, MarkWrite, MarkLost,
               ResultRead, Lose, Abort, Restart
      <4>2. r = thread[th].run /\ run' = run /\ thread[th].op = "result"
        BY <2>2, <3>2, <4>1 DEF ResultWrite
      <4> QED
        BY <4>2 DEF ResultsFromRuns
    <3> QED
      BY <3>1, <3>2
  <2> QED
    BY <2>1, <2>2 DEF ResultsFromRuns
<1> QED
  BY <1>1, <1>2, TypeCorrect, PTL DEF Spec

\* Ingestion is never undone.
LEMMA IngestedGrows ==
  ASSUME [Next]_vars
  PROVE  ingested \subseteq ingested'
BY DEF Next, HandlerStep, vars, BecomesDue, Postpone, Expire, ScanNowRead,
       ScanNowWrite, TickRead, RequeueWrite, TickSkip, TickPick, TickWrite,
       TickEnd, ClaimSelect, ClaimRecheck, ClaimGrant, ClaimRefuse, MarkRead,
       MarkWrite, MarkLost, ResultRead, ResultWrite, Lose, Abort, Restart

\* A done job has a Scan, however many threads interleave.
THEOREM DoneJobsHaveScans == Spec => []DoneHasScan
<1>1. Init => DoneHasScan
  BY DEF Init, DoneHasScan, NoJob
<1>2. TypeOK /\ ResultsFromRuns /\ DoneHasScan /\ [Next]_vars => DoneHasScan'
  <2> SUFFICES ASSUME TypeOK, ResultsFromRuns, DoneHasScan, [Next]_vars,
                      NEW j \in JobIds, job'[j].state = "done"
               PROVE  \E r \in ingested' : run'[r].job = j
    BY DEF DoneHasScan
  <2>1. CASE job[j].state = "done"
    <3>1. PICK r \in ingested : run[r].job = j
      BY <2>1 DEF DoneHasScan
    <3>2. r \in RunIds /\ run[r].pc # "free"
      BY DEF ResultsFromRuns, TypeOK
    <3> QED
      BY <3>1, <3>2, RunsKept, IngestedGrows DEF RunKept
  <2>2. CASE job[j].state # "done"
    <3>1. job[j] \in JobRow
      BY DEF TypeOK
    <3>2. PICK th \in Threads : /\ thread[th].op = "result"
                                /\ thread[th].job = j
                                /\ ResultWrite(th)
                                /\ job'[j] = Closed(job[j], thread[th])
      <4>1. \A t \in Targets : NewJob(t).state = "queued"
        BY DEF NewJob, NoJob
      <4> QED
        BY <2>2, <3>1, <4>1, RowSteps, RowFields DEF RowStep
    <3>3. thread[th].ok
      BY <2>2, <3>1, <3>2 DEF Closed, Outcome, JobRow
    <3>4. thread[th].run \in ingested' /\ run' = run
      BY <3>2, <3>3 DEF ResultWrite
    <3> QED
      BY <3>2, <3>4 DEF ResultsFromRuns
  <2> QED
    BY <2>1, <2>2
<1> QED
  BY <1>1, <1>2, TypeCorrect, ResultsFromRunsInvariant, PTL DEF Spec

\* A claimed row names a hand-out, however many threads interleave.
THEOREM ClaimsWereHandedOut == Spec => []ClaimedWasHandedOut
<1>1. Init => ClaimedWasHandedOut
  BY DEF Init, ClaimedWasHandedOut, NoJob
<1>2. /\ TypeOK /\ TypeOK' /\ RowCoherent /\ ClaimedWasHandedOut /\ [Next]_vars
      => ClaimedWasHandedOut'
  <2> SUFFICES ASSUME TypeOK, RowCoherent, ClaimedWasHandedOut, [Next]_vars,
                      NEW j \in JobIds, job'[j].state = "claimed"
               PROVE  \E r \in RunIds : /\ run'[r].job = j
                                        /\ run'[r].worker = job'[j].worker
                                        /\ run'[r].attempt = job'[j].attempts
    BY DEF ClaimedWasHandedOut
  <2>1. job[j] \in JobRow
    BY DEF TypeOK
  <2>2. CASE /\ job[j].state = "claimed"
             /\ job'[j].worker = job[j].worker
             /\ job'[j].attempts = job[j].attempts
    <3>1. PICK r \in RunIds : /\ run[r].job = j
                              /\ run[r].worker = job[j].worker
                              /\ run[r].attempt = job[j].attempts
      BY <2>2 DEF ClaimedWasHandedOut
    <3>2. run[r].pc # "free"
      BY <2>2, <3>1 DEF RowCoherent, Coherent, TypeOK, Run, NoRun
    <3> QED
      BY <2>2, <3>1, <3>2, RunsKept DEF RunKept
  <2>3. ASSUME NEW th \in Threads, ClaimGrant(th), thread[th].job = j,
               job'[j] = Claimed(job[j], thread[th])
        PROVE  \E r \in RunIds : /\ run'[r].job = j
                                 /\ run'[r].worker = job'[j].worker
                                 /\ run'[r].attempt = job'[j].attempts
    <3>1. /\ job'[j].worker = thread[th].worker
          /\ job'[j].attempts = thread[th].attempts + 1
      BY <2>1, <2>3, RowFields
    <3> QED
      BY <2>3, <3>1 DEF ClaimGrant, Delivered, TypeOK
  <2> QED
    <3>1. \A t \in Targets : NewJob(t).state = "queued"
      BY DEF NewJob, NoJob
    <3>2. \A h : Outcome(h) # "claimed"
      BY DEF Outcome
    <3> QED
      BY <2>1, <2>2, <2>3, <3>1, <3>2, RowSteps, RowFields DEF RowStep
<1> QED
  BY <1>1, <1>2, TypeCorrect, RowsCoherent, PTL DEF Spec

\* No worker is handed a host outside the allowlist of the moment.
THEOREM HandoutsInScope == Spec => HandoutInScope
<1>1. TypeOK /\ [Next]_vars =>
        [\A r \in RunIds :
           run[r].pc = "free" /\ run'[r].pc = "assigned" =>
             job'[run'[r].job].hosts \subseteq allow]_vars
  <2> SUFFICES ASSUME TypeOK, Next, NEW r \in RunIds,
                      run[r].pc = "free", run'[r].pc = "assigned"
               PROVE  job'[run'[r].job].hosts \subseteq allow
    BY DEF vars
  <2>1. PICK th \in Threads : ClaimGrant(th)
    BY DEF Next, HandlerStep, BecomesDue, Postpone, Expire, ScanNowRead,
           ScanNowWrite, TickRead, RequeueWrite, TickSkip, TickPick, TickWrite,
           TickEnd, ClaimSelect, ClaimRecheck, ClaimRefuse, MarkRead,
           MarkWrite, MarkLost, ResultRead, ResultWrite, Lose, Abort, Restart,
           SetRun, TypeOK
  <2> DEFINE h == thread[th]
  <2>2. h.job \in JobIds
    BY <2>1, HandlerFields DEF ClaimGrant, TypeOK
  <2>3. run'[r].job = h.job
    BY <2>1, <2>2 DEF ClaimGrant, Delivered, TypeOK
  <2>4. job'[h.job] = Claimed(job[h.job], h) /\ Dispatchable(job[h.job])
    BY <2>1, <2>2 DEF ClaimGrant, TypeOK
  <2>5. job'[h.job].hosts = job[h.job].hosts
    BY <2>2, <2>4, RowFields DEF TypeOK
  <2> QED
    BY <2>3, <2>4, <2>5 DEF Dispatchable
<1> QED
  BY <1>1, TypeCorrect, PTL DEF Spec, HandoutInScope
-----------------------------------------------------------------------------
(* Hand-outs, when what their handlers loaded about attempts is still true. *)

\* A claim was loaded with the attempts its row still has, and neither a claim
\* nor a requeue is about a job that has used them up.
ClaimsAccurate ==
  \A th \in Threads :
    LET h == thread[th] IN
      /\ h.op \in {"claimRecheck", "claimWrite"} =>
           /\ job[h.job].state # "absent"
           /\ job[h.job].attempts = h.attempts
           /\ h.attempts < MaxAttempts
      /\ h.op = "requeue" => \A j \in h.retry : job[j].attempts < MaxAttempts

\* What each handler does to the attempts counter.
LEMMA RowAttempts ==
  ASSUME NEW row \in JobRow
  PROVE  /\ Requeued(row).attempts = row.attempts
         /\ Exhausted(row).attempts = row.attempts
         /\ Started(row).attempts = row.attempts
BY DEF Requeued, Exhausted, Started, JobRow

\* The counter of a job never falls.
LEMMA AttemptsGrow ==
  ASSUME TypeOK, ClaimsAccurate, [Next]_vars, NEW j \in JobIds,
         job[j].state # "absent"
  PROVE  /\ job'[j].state # "absent"
         /\ job'[j].attempts >= job[j].attempts
<1>1. job[j] \in JobRow /\ job[j].attempts \in Nat
  BY DEF TypeOK, JobRow
<1>2. ASSUME NEW th \in Threads, thread[th].op = "claimWrite", thread[th].job = j
      PROVE  thread[th].attempts = job[j].attempts
  BY <1>2 DEF ClaimsAccurate
<1>3. \A h : Outcome(h) # "absent"
  BY DEF Outcome
<1> QED
  BY <1>1, <1>2, <1>3, RowSteps, RowFields, RowAttempts DEF RowStep

\* A step either keeps a run's job and attempt or, if it was free, hands it out
\* as the next attempt of its job and leaves the other runs alone.
LEMMA NewRuns ==
  ASSUME TypeOK, ClaimsAccurate, [Next]_vars, NEW r \in RunIds,
         run[r].pc = "free", run'[r].pc # "free"
  PROVE  \E j \in JobIds : /\ run'[r].job = j
                           /\ run'[r].attempt = job[j].attempts + 1
                           /\ job'[j].attempts = job[j].attempts + 1
                           /\ job'[j].state = "claimed"
                           /\ \A q \in RunIds \ {r} : run'[q] = run[q]
<1>1. PICK th \in Threads : ClaimGrant(th)
  BY DEF Next, HandlerStep, vars, BecomesDue, Postpone, Expire, ScanNowRead,
         ScanNowWrite, TickRead, RequeueWrite, TickSkip, TickPick, TickWrite,
         TickEnd, ClaimSelect, ClaimRecheck, ClaimRefuse, MarkRead, MarkWrite,
         MarkLost, ResultRead, ResultWrite, Lose, Abort, Restart, SetRun, TypeOK
<1> DEFINE h == thread[th]
<1>2. h.job \in JobIds /\ h.attempts \in Nat
  BY <1>1, HandlerFields DEF ClaimGrant, TypeOK
<1>3. job[h.job].attempts = h.attempts
  BY <1>1 DEF ClaimGrant, ClaimsAccurate
<1>4. job'[h.job] = Claimed(job[h.job], h)
  BY <1>1, <1>2 DEF ClaimGrant, TypeOK
<1>5. /\ job'[h.job].attempts = h.attempts + 1
      /\ job'[h.job].state = "claimed"
  BY <1>2, <1>4, RowFields DEF TypeOK
<1>6. PICK q \in RunIds : Delivered(h, q)
  BY <1>1 DEF ClaimGrant
<1>7. q = r
  BY <1>6 DEF Delivered, TypeOK
<1>8. /\ run'[r].job = h.job
      /\ run'[r].attempt = h.attempts + 1
      /\ \A p \in RunIds \ {r} : run'[p] = run[p]
  BY <1>6, <1>7 DEF Delivered, TypeOK
<1> QED
  BY <1>2, <1>3, <1>5, <1>8

\* The attempts counter of a job stays at least the attempt of each of its runs.
LEMMA RunsCountedStep ==
  ASSUME TypeOK, TypeOK', ClaimsAccurate, RunsCounted, [Next]_vars
  PROVE  RunsCounted'
<1> SUFFICES ASSUME NEW r \in RunIds, run'[r].pc # "free"
             PROVE  /\ job'[run'[r].job].state # "absent"
                    /\ run'[r].attempt \in 1 .. job'[run'[r].job].attempts
  BY DEF RunsCounted
<1>1. CASE run[r].pc = "free"
  <2>1. PICK j \in JobIds : /\ run'[r].job = j
                            /\ run'[r].attempt = job[j].attempts + 1
                            /\ job'[j].attempts = job[j].attempts + 1
                            /\ job'[j].state = "claimed"
    BY <1>1, NewRuns
  <2>2. job[j].attempts \in Nat
    BY DEF TypeOK, JobRow
  <2> QED
    BY <2>1, <2>2
<1>2. CASE run[r].pc # "free"
  <2> DEFINE j == run[r].job
  <2>1. /\ run'[r].job = j /\ run'[r].attempt = run[r].attempt
        /\ j \in JobIds /\ run[r].attempt \in Nat
    BY <1>2, RunsKept, RunFields DEF RunKept
  <2>2. job[j].state # "absent" /\ run[r].attempt \in 1 .. job[j].attempts
    BY <1>2 DEF RunsCounted
  <2>3. job'[j].state # "absent" /\ job'[j].attempts >= job[j].attempts
    BY <2>1, <2>2, AttemptsGrow
  <2>4. job[j].attempts \in Nat /\ job'[j].attempts \in Nat
    BY <2>1 DEF TypeOK, JobRow
  <2> QED
    BY <2>1, <2>2, <2>3, <2>4
<1> QED
  BY <1>1, <1>2

\* No step repeats an attempt of a job.
LEMMA HandoutsStep ==
  ASSUME TypeOK, ClaimsAccurate, RunsCounted, HandoutsDistinct, [Next]_vars
  PROVE  HandoutsDistinct'
<1>1. ASSUME NEW q \in RunIds, NEW r \in RunIds, q # r,
             run'[q].pc # "free", run'[r].pc # "free",
             run[q].pc # "free",
             run'[q].job = run'[r].job, run'[q].attempt = run'[r].attempt
      PROVE  FALSE
  <2>1. run'[q].job = run[q].job /\ run'[q].attempt = run[q].attempt
    BY <1>1, RunsKept DEF RunKept
  <2>2. CASE run[r].pc # "free"
    <3>1. run'[r].job = run[r].job /\ run'[r].attempt = run[r].attempt
      BY <2>2, RunsKept DEF RunKept
    <3> QED
      BY <1>1, <2>1, <2>2, <3>1 DEF HandoutsDistinct
  <2>3. CASE run[r].pc = "free"
    <3>1. PICK j \in JobIds : /\ run'[r].job = j
                              /\ run'[r].attempt = job[j].attempts + 1
      BY <1>1, <2>3, NewRuns
    <3>2. run[q].attempt \in 1 .. job[j].attempts
      BY <1>1, <2>1, <3>1 DEF RunsCounted
    <3>3. job[j].attempts \in Nat /\ run[q].attempt \in Nat
      BY RunFields DEF TypeOK, JobRow
    <3>4. run[q].attempt = job[j].attempts + 1
      BY <1>1, <2>1, <3>1
    <3> QED
      BY <3>2, <3>3, <3>4
  <2> QED
    BY <2>2, <2>3
<1>2. ASSUME NEW q \in RunIds, NEW r \in RunIds, q # r,
             run[q].pc = "free", run[r].pc = "free",
             run'[q].pc # "free", run'[r].pc # "free"
      PROVE  FALSE
  <2>1. run'[q] = run[q]
    BY <1>2, NewRuns
  <2> QED
    BY <1>2, <2>1
<1> QED
  BY <1>1, <1>2 DEF HandoutsDistinct

\* No step takes a job past its attempt limit.
LEMMA AttemptsStep ==
  ASSUME TypeOK, ClaimsAccurate, AttemptsBounded, [Next]_vars
  PROVE  AttemptsBounded'
<1> SUFFICES ASSUME NEW j \in JobIds
             PROVE  /\ job'[j].attempts <= MaxAttempts
                    /\ job'[j].state = "queued" => job'[j].attempts < MaxAttempts
  BY DEF AttemptsBounded
<1>1. /\ job[j] \in JobRow
      /\ job[j].attempts <= MaxAttempts
      /\ job[j].state = "queued" => job[j].attempts < MaxAttempts
  BY DEF TypeOK, AttemptsBounded
<1>2. job[j].attempts \in Nat /\ MaxAttempts \in Nat /\ 0 < MaxAttempts
  BY <1>1, BoundsAssumption DEF JobRow
<1>3. \A t \in Targets : NewJob(t).attempts = 0
  BY DEF NewJob, NoJob
<1>4. /\ \A th \in Threads : thread[th].op = "requeue" /\ j \in thread[th].retry =>
           job[j].attempts < MaxAttempts
      /\ \A th \in Threads : thread[th].op = "claimWrite" /\ thread[th].job = j =>
           /\ thread[th].attempts = job[j].attempts
           /\ thread[th].attempts < MaxAttempts
  BY DEF ClaimsAccurate
<1>5. \A h : Outcome(h) # "queued"
  BY DEF Outcome
<1> QED
  BY <1>1, <1>2, <1>3, <1>4, <1>5, RowSteps, RowFields, RowAttempts DEF RowStep

\* The hand-outs of a job, and how many a job may have.
HandoutsOf(j) == {r \in RunIds : run[r].pc # "free" /\ run[r].job = j}

HandoutsBounded == \A j \in JobIds : Cardinality(HandoutsOf(j)) <= MaxAttempts

\* Hand-outs numbered apart and within the limit are no more than the limit.
LEMMA DistinctAreBounded ==
  ASSUME TypeOK, RunsCounted, HandoutsDistinct, AttemptsBounded
  PROVE  HandoutsBounded
<1> SUFFICES ASSUME NEW j \in JobIds
             PROVE  Cardinality(HandoutsOf(j)) <= MaxAttempts
  BY DEF HandoutsBounded
<1> DEFINE number == [r \in HandoutsOf(j) |-> run[r].attempt]
<1>1. MaxAttempts \in Nat
  BY BoundsAssumption
<1>2. ASSUME NEW r \in HandoutsOf(j)
      PROVE  run[r].attempt \in 1 .. MaxAttempts
  <2>1. run[r].attempt \in 1 .. job[j].attempts
    BY <1>2 DEF HandoutsOf, RunsCounted
  <2>2. job[j].attempts \in Nat /\ job[j].attempts <= MaxAttempts
    BY DEF TypeOK, JobRow, AttemptsBounded
  <2> QED
    BY <1>1, <2>1, <2>2
<1>3. \A q, r \in HandoutsOf(j) : number[q] = number[r] => q = r
  BY DEF HandoutsOf, HandoutsDistinct
<1>4. number \in Injection(HandoutsOf(j), 1 .. MaxAttempts)
  BY <1>2, <1>3, Zenon DEF Injection, IsInjective
<1>5. /\ IsFiniteSet(1 .. MaxAttempts)
      /\ Cardinality(1 .. MaxAttempts) = MaxAttempts
  BY <1>1, FS_Interval
<1>6. Cardinality(HandoutsOf(j)) <= Cardinality(1 .. MaxAttempts)
  BY <1>4, <1>5, FS_Injection
<1> QED
  BY <1>5, <1>6
-----------------------------------------------------------------------------
(* The moves of the documented life cycle. *)

\* What a step may do to a row if the table is to follow the life cycle.
LifeStep(j) ==
  \/ job'[j] = job[j]
  \/ job[j].state = "absent" /\ \E t \in Targets : job'[j] = NewJob(t)
  \/ job'[j] = Expired(job[j])
  \/ /\ job[j].state \in OutStates
     /\ job[j].attempts < MaxAttempts
     /\ job'[j] = Requeued(job[j])
  \/ /\ job[j].state \in OutStates \cup ClosedStates
     /\ job'[j] = Exhausted(job[j])
  \/ \E th \in Threads : /\ job[j].state = "queued"
                         /\ thread[th].attempts = job[j].attempts
                         /\ thread[th].job = j
                         /\ \/ ClaimGrant(th)
                               /\ job'[j] = Claimed(job[j], thread[th])
                            \/ ClaimRefuse(th)
                               /\ job'[j] = Refused(job[j], thread[th])
  \/ job[j].state \in OutStates /\ job'[j] = Started(job[j])
  \/ \E h : job[j].state # "absent" /\ job'[j] = Closed(job[j], h)

\* Which phase each state of a row stands for.
LEMMA Phases ==
  ASSUME NEW row
  PROVE  /\ row.state = "absent" => Phase(row) = "none"
         /\ row.state = "queued" => Phase(row) = "waiting"
         /\ row.state \in OutStates => Phase(row) = "out"
         /\ row.state \in ClosedStates => Phase(row) = "closed"
BY DEF Phase, OutStates, ClosedStates

\* An open job of the life cycle is a pending row of the table.
LEMMA OpenIsPending ==
  ASSUME NEW row \in JobRow
  PROVE  Phase(row) \in {"waiting", "out"} <=> row.state \in PendingStates
BY Phases DEF JobRow, JobStates, PendingStates, OutStates, ClosedStates

\* A row's change is one move of its job, or none.
LEMMA RowMoves ==
  ASSUME TypeOK, AttemptsBounded, NEW j \in JobIds, LifeStep(j)
  PROVE  \/ Lifecycle!Stays(j)
         \/ Lifecycle!Created(j)
         \/ Lifecycle!HandedOut(j)
         \/ Lifecycle!Returned(j)
         \/ Lifecycle!Finished(j)
<1> USE DEF Lifecycle!Stays, Lifecycle!Created, Lifecycle!HandedOut,
            Lifecycle!Returned, Lifecycle!Finished, Lifecycle!Moves,
            Lifecycle!Keeps, Lifecycle!Tried
<1>1. LifeStep(j)
  OBVIOUS
<1>2. job[j] \in JobRow
  BY DEF TypeOK
<1>3. CASE job'[j] = job[j]
  BY <1>3
<1>4. ASSUME NEW t \in Targets, job[j].state = "absent", job'[j] = NewJob(t)
      PROVE  Lifecycle!Created(j)
  <2>1. /\ job'[j].state = "queued" /\ job'[j].target = t
        /\ job'[j].attempts = 0
    BY <1>4 DEF NewJob, NoJob
  <2> QED
    BY <1>4, <2>1, Phases
<1>5. CASE job'[j] = Expired(job[j])
  <2>1. /\ job'[j].state = job[j].state /\ job'[j].target = job[j].target
        /\ job'[j].attempts = job[j].attempts
    BY <1>2, <1>5 DEF Expired, JobRow
  <2>2. Phase(job'[j]) = Phase(job[j])
    BY <2>1 DEF Phase
  <2> QED
    BY <2>1, <2>2
<1>6. CASE /\ job[j].state \in OutStates
           /\ job[j].attempts < MaxAttempts
           /\ job'[j] = Requeued(job[j])
  <2>1. /\ job'[j].state = "queued" /\ job'[j].target = job[j].target
        /\ job'[j].attempts = job[j].attempts
    BY <1>2, <1>6 DEF Requeued, JobRow
  <2> QED
    BY <1>6, <2>1, Phases
<1>7. CASE /\ job[j].state \in OutStates \cup ClosedStates
           /\ job'[j] = Exhausted(job[j])
  <2>1. /\ job'[j].state = "error" /\ job'[j].target = job[j].target
        /\ job'[j].attempts = job[j].attempts
    BY <1>2, <1>7 DEF Exhausted, JobRow
  <2> QED
    BY <1>7, <2>1, Phases DEF ClosedStates
<1>8. ASSUME NEW th \in Threads, job[j].state = "queued",
             thread[th].attempts = job[j].attempts,
             job'[j] = Claimed(job[j], thread[th])
      PROVE  Lifecycle!HandedOut(j)
  <2>1. /\ job'[j].state = "claimed" /\ job'[j].target = job[j].target
        /\ job'[j].attempts = job[j].attempts + 1
    BY <1>2, <1>8, RowFields
  <2>2. job[j].attempts < MaxAttempts
    BY <1>8 DEF AttemptsBounded
  <2> QED
    BY <1>8, <2>1, <2>2, Phases DEF OutStates
<1>9. ASSUME NEW th \in Threads, job[j].state = "queued",
             thread[th].attempts = job[j].attempts,
             job'[j] = Refused(job[j], thread[th])
      PROVE  Lifecycle!Finished(j)
  <2>1. /\ job'[j].state = "error" /\ job'[j].target = job[j].target
        /\ job'[j].attempts = job[j].attempts + 1
    BY <1>2, <1>9, RowFields
  <2>2. job[j].attempts < MaxAttempts
    BY <1>9 DEF AttemptsBounded
  <2> QED
    BY <1>9, <2>1, <2>2, Phases DEF ClosedStates
<1>10. CASE job[j].state \in OutStates /\ job'[j] = Started(job[j])
  <2>1. /\ job'[j].state = "running" /\ job'[j].target = job[j].target
        /\ job'[j].attempts = job[j].attempts
    BY <1>2, <1>10 DEF Started, JobRow
  <2> QED
    BY <1>10, <2>1, Phases DEF OutStates
<1>11. ASSUME NEW h, job[j].state # "absent", job'[j] = Closed(job[j], h)
       PROVE  Lifecycle!Finished(j) \/ Lifecycle!Stays(j)
  <2>1. /\ job'[j].state \in {job[j].state, Outcome(h)}
        /\ job'[j].target = job[j].target
        /\ job'[j].attempts = job[j].attempts
    BY <1>2, <1>11 DEF Closed, JobRow
  <2>2. Phase(job'[j]) = "closed" \/ Phase(job'[j]) = Phase(job[j])
    BY <2>1, Phases DEF Outcome, ClosedStates, Phase
  <2>3. Phase(job[j]) \in {"waiting", "out", "closed"}
    BY <1>2, <1>11, Phases
       DEF JobRow, JobStates, PendingStates, OutStates, ClosedStates
  <2> QED
    BY <2>1, <2>2, <2>3
<1> QED
  BY <1>1, <1>3, <1>4, <1>5, <1>6, <1>7, <1>8, <1>9, <1>10, <1>11
     DEF LifeStep

\* Only the grant of a claim hands a job out.
LEMMA GrantHandsOut ==
  ASSUME TypeOK, NEW j \in JobIds, LifeStep(j), Lifecycle!HandedOut(j)
  PROVE  \E th \in Threads : thread[th].job = j /\ ClaimGrant(th)
<1>1. job[j] \in JobRow
  BY DEF TypeOK
<1>2. Phase(job[j]) = "waiting" /\ Phase(job'[j]) = "out"
  BY DEF Lifecycle!HandedOut, Lifecycle!Moves
<1>3. job[j].state = "queued"
  BY <1>1, <1>2, Phases
     DEF JobRow, JobStates, PendingStates, OutStates, ClosedStates
<1>4. job'[j].state \notin {"queued", "error", "done"}
  BY <1>2, Phases DEF ClosedStates
<1>5. ASSUME NEW h
      PROVE  Closed(job[j], h).state \in {"queued", "error", "done"}
  <2>1. Outcome(h) \in {"done", "error"}
    BY DEF Outcome
  <2>2. Closed(job[j], h).state \in {job[j].state, Outcome(h)}
    BY <1>1, RowFields
  <2> QED
    BY <1>3, <2>1, <2>2
<1> QED
  BY <1>1, <1>3, <1>4, <1>5, RowFields DEF LifeStep, OutStates, ClosedStates

\* A step that does to every row what the life cycle knows, and leaves no target
\* two pending jobs, is a step of the life cycle.
LEMMA LifecycleStep ==
  ASSUME TypeOK, TypeOK', AttemptsBounded, OnePendingPerTarget',
         \A j \in JobIds : LifeStep(j)
  PROVE  Lifecycle!Next
<1>1. \A j \in JobIds : \/ Lifecycle!Stays(j)
                        \/ Lifecycle!Created(j)
                        \/ Lifecycle!HandedOut(j)
                        \/ Lifecycle!Returned(j)
                        \/ Lifecycle!Finished(j)
  BY RowMoves
<1>2. ASSUME NEW j \in JobIds, NEW k \in JobIds,
             Lifecycle!HandedOut(j), Lifecycle!HandedOut(k)
      PROVE  j = k
  <2>1. PICK th \in Threads : thread[th].job = j /\ ClaimGrant(th)
    BY <1>2, GrantHandsOut
  <2>2. PICK u \in Threads : thread[u].job = k /\ ClaimGrant(u)
    BY <1>2, GrantHandsOut
  <2>3. thread'[u] = Idle /\ thread[u] # Idle
    BY <2>2 DEF ClaimGrant, Become, TypeOK, Idle
  <2>4. u # th => thread'[u] = thread[u]
    BY <2>1 DEF ClaimGrant, Become, TypeOK
  <2> QED
    BY <2>1, <2>2, <2>3, <2>4
<1>3. Lifecycle!OneOpenPerTarget'
  <2>1. \A j \in JobIds : job'[j] \in JobRow
    BY DEF TypeOK
  <2> QED
    BY <2>1, OpenIsPending
       DEF Lifecycle!OneOpenPerTarget, Lifecycle!Open, OnePendingPerTarget
<1> QED
  BY <1>1, <1>2, <1>3 DEF Lifecycle!Next

\* No job exists at the start, as the life cycle has it.
LEMMA LifecycleInit ==
  ASSUME Init
  PROVE  Lifecycle!Init
<1>1. \A j \in JobIds : Phase(job[j]) = "none"
  BY Phases DEF Init, NoJob
<1> QED
  BY <1>1 DEF Init, NoJob, Lifecycle!Init
-----------------------------------------------------------------------------
(* Every job comes to its end after a bounded number of moves. *)

\* How often a row may still change its phase.
MovesLeft(row) ==
  CASE Phase(row) = "none" -> 2 * MaxAttempts + 2
    [] Phase(row) = "out" -> 2 * (MaxAttempts - row.attempts) + 2
    [] Phase(row) = "waiting" -> 2 * (MaxAttempts - row.attempts) + 1
    [] OTHER -> 0

\* The moves left to a job go down with each.
MovesDown == \A j \in JobIds : Phase(job'[j]) # Phase(job[j]) =>
                               /\ MovesLeft(job'[j]) \in Nat
                               /\ MovesLeft(job'[j]) < MovesLeft(job[j])

\* A job that moves has fewer moves left.
LEMMA MovesRunOut ==
  ASSUME TypeOK, TypeOK', AttemptsBounded, AttemptsBounded',
         NEW j \in JobIds, LifeStep(j), Phase(job'[j]) # Phase(job[j])
  PROVE  /\ MovesLeft(job'[j]) \in Nat
         /\ MovesLeft(job'[j]) < MovesLeft(job[j])
<1> DEFINE now == job[j].attempts
           next == job'[j].attempts
<1>1. /\ MaxAttempts \in Nat /\ now \in Nat /\ next \in Nat
      /\ now <= MaxAttempts /\ next <= MaxAttempts
  BY BoundsAssumption DEF TypeOK, JobRow, AttemptsBounded
<1>2. \/ Lifecycle!Created(j)
      \/ Lifecycle!HandedOut(j)
      \/ Lifecycle!Returned(j)
      \/ Lifecycle!Finished(j)
  BY RowMoves DEF Lifecycle!Stays
<1> HIDE DEF now, next
<1>3. CASE Lifecycle!Created(j)
  <2>1. /\ Phase(job[j]) = "none" /\ Phase(job'[j]) = "waiting"
        /\ next = 0
    BY <1>3 DEF Lifecycle!Created, Lifecycle!Moves, next
  <2>2. /\ MovesLeft(job[j]) = 2 * MaxAttempts + 2
        /\ MovesLeft(job'[j]) = 2 * (MaxAttempts - next) + 1
    BY <2>1 DEF MovesLeft, next
  <2> QED
    BY <1>1, <2>1, <2>2
<1>4. CASE Lifecycle!HandedOut(j)
  <2>1. /\ Phase(job[j]) = "waiting" /\ Phase(job'[j]) = "out"
        /\ next = now + 1
    BY <1>4 DEF Lifecycle!HandedOut, Lifecycle!Moves, Lifecycle!Tried, now, next
  <2>2. /\ MovesLeft(job[j]) = 2 * (MaxAttempts - now) + 1
        /\ MovesLeft(job'[j]) = 2 * (MaxAttempts - next) + 2
    BY <2>1 DEF MovesLeft, now, next
  <2> QED
    BY <1>1, <2>1, <2>2
<1>5. CASE Lifecycle!Returned(j)
  <2>1. /\ Phase(job[j]) = "out" /\ Phase(job'[j]) = "waiting"
        /\ next = now
    BY <1>5 DEF Lifecycle!Returned, Lifecycle!Moves, Lifecycle!Keeps, now, next
  <2>2. /\ MovesLeft(job[j]) = 2 * (MaxAttempts - now) + 2
        /\ MovesLeft(job'[j]) = 2 * (MaxAttempts - next) + 1
    BY <2>1 DEF MovesLeft, now, next
  <2> QED
    BY <1>1, <2>1, <2>2
<1>6. CASE Lifecycle!Finished(j)
  <2>1. Phase(job[j]) \in {"waiting", "out"} /\ Phase(job'[j]) = "closed"
    BY <1>6 DEF Lifecycle!Finished, Lifecycle!Moves
  <2>2. /\ MovesLeft(job[j]) \in {2 * (MaxAttempts - now) + 1,
                                 2 * (MaxAttempts - now) + 2}
        /\ MovesLeft(job'[j]) = 0
    BY <2>1 DEF MovesLeft, now
  <2> QED
    BY <1>1, <2>2
<1> QED
  BY <1>2, <1>3, <1>4, <1>5, <1>6
=============================================================================
