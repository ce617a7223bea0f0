------------------------ MODULE ScanQueueRacesProofs ------------------------
(***************************************************************************)
(* Which races the promises of the queue need to break, for any number of  *)
(* threads and every value of the other constants.                         *)
(***************************************************************************)
EXTENDS ScanQueueRaces, ScanQueueProofs

\* A race is remembered.
RacesNoted == /\ TwoClaims => "claims" \in raced
              /\ TwoEnqueues => "enqueues" \in raced
              /\ LatePing => "ping" \in raced
              /\ LateClose => "close" \in raced

\* The history only watches: a step with it is a step of the queue.
LEMMA RacesSteps ==
  ASSUME [RacesNext]_racesVars
  PROVE  /\ [Next]_vars
         /\ raced \subseteq raced'
         /\ RacesNoted => RacesNoted'
<1>1. CASE RacesNext
  BY <1>1 DEF RacesNext, Races, RacesNoted
<1>2. CASE UNCHANGED racesVars
  <2>1. UNCHANGED vars /\ UNCHANGED raced /\ UNCHANGED <<job, thread, allow>>
    BY <1>2 DEF racesVars, vars
  <2>2. RacesNoted => RacesNoted'
    BY <2>1 DEF RacesNoted, TwoClaims, TwoEnqueues, LatePing, LateClose, Closes,
               Dispatchable
  <2> QED
    BY <2>1, <2>2
<1> QED
  BY <1>1, <1>2
-----------------------------------------------------------------------------
(* The ways a step changes what a thread has loaded. *)

ThreadStep(th) ==
  \/ thread'[th] = thread[th]
  \/ thread'[th] = Idle
  \/ \E t \in Targets : ScanNowRead(th, t)
  \/ TickRead(th)
  \/ TickSkip(th)
  \/ TickPick(th)
  \/ \E w \in Workers : ClaimSelect(th, w)
  \/ ClaimRecheck(th)
  \/ \E r \in RunIds : MarkRead(th, r)
  \/ \E r \in RunIds, ok \in BOOLEAN : ResultRead(th, r, ok)

\* A handler's step changes the thread it runs in and no other.
LEMMA OthersKept ==
  ASSUME TypeOK, NEW u \in Threads, NEW th \in Threads \ {u}, NEW h, Become(u, h)
  PROVE  thread'[th] = thread[th]
BY DEF TypeOK, Become

\* Each step leaves a thread as it is, frees it or is a read of its handler.
LEMMA ThreadSteps ==
  ASSUME TypeOK, [Next]_vars, NEW th \in Threads
  PROVE  ThreadStep(th)
<1>1. CASE UNCHANGED thread
  BY <1>1 DEF ThreadStep
<1>2. ASSUME NEW u \in Threads, u # th, NEW h, Become(u, h)
      PROVE  ThreadStep(th)
  BY <1>2, OthersKept DEF ThreadStep
<1>3. ASSUME NEW u \in Threads, Become(u, Idle)
      PROVE  ThreadStep(th)
  BY <1>3, OthersKept DEF ThreadStep, Become, TypeOK
<1>4. ASSUME NEW u \in Threads, NEW t \in Targets, ScanNowRead(u, t)
      PROVE  ThreadStep(th)
  BY <1>2, <1>4 DEF ScanNowRead, ThreadStep
<1>5. ASSUME NEW u \in Threads, TickRead(u)
      PROVE  ThreadStep(th)
  BY <1>2, <1>5 DEF TickRead, ThreadStep
<1>6. ASSUME NEW u \in Threads, TickSkip(u) \/ TickPick(u)
      PROVE  ThreadStep(th)
  BY <1>2, <1>6 DEF TickSkip, TickPick, ThreadStep
<1>7. ASSUME NEW u \in Threads, NEW w \in Workers, ClaimSelect(u, w)
      PROVE  ThreadStep(th)
  BY <1>2, <1>7 DEF ClaimSelect, ThreadStep
<1>8. ASSUME NEW u \in Threads, ClaimRecheck(u)
      PROVE  ThreadStep(th)
  BY <1>2, <1>8 DEF ClaimRecheck, ThreadStep
<1>9. ASSUME NEW u \in Threads, NEW r \in RunIds, MarkRead(u, r)
      PROVE  ThreadStep(th)
  BY <1>1, <1>2, <1>9 DEF MarkRead, ThreadStep
<1>10. ASSUME NEW u \in Threads, NEW r \in RunIds, NEW ok \in BOOLEAN,
              ResultRead(u, r, ok)
       PROVE  ThreadStep(th)
  BY <1>2, <1>10 DEF ResultRead, ThreadStep
<1>11. CASE Restart
  BY <1>11 DEF Restart, ThreadStep
<1> QED
  BY <1>1, <1>3, <1>4, <1>5, <1>6, <1>7, <1>8, <1>9, <1>10, <1>11
     DEF Next, HandlerStep, vars, BecomesDue, Postpone, Expire, ScanNowWrite,
         RequeueWrite, TickWrite, TickEnd, ClaimGrant, ClaimRefuse, MarkWrite,
         ResultWrite, MarkLost, Lose, Abort

(* What a handler holds after a step it held before, or has just loaded from *)
(* the job table, which the step leaves alone.                               *)

ClaimLoads(h, g) == g.op \in ClaimOps =>
  \/ h.op \in ClaimOps /\ g.job = h.job /\ g.attempts = h.attempts
  \/ /\ UNCHANGED job
     /\ g.job \in JobIds
     /\ job[g.job].state = "queued"
     /\ g.attempts = job[g.job].attempts

MarkLoads(h, g) == g.op = "mark" =>
  \/ h = g
  \/ /\ UNCHANGED job
     /\ \E r \in RunIds : run[r].pc # "free" /\ g.job = run[r].job
     /\ job[g.job].state = "claimed"

ResultLoads(h, g) == g.op = "result" =>
  \/ h = g
  \/ /\ UNCHANGED job
     /\ \E r \in RunIds : run[r].pc # "free" /\ g.job = run[r].job

RequeueLoads(h, g) == g.op = "requeue" =>
  \/ h = g
  \/ /\ UNCHANGED job
     /\ \A j \in g.retry \cup g.exhausted :
          job[j].state \in OutStates /\ job[j].claimedAt = "stale"
     /\ \A j \in g.retry : job[j].attempts < MaxAttempts

EnqueueLoads(h, g) ==
  /\ g.op = "scanNow" => h = g \/ (UNCHANGED job /\ ~ Pending(g.target))
  /\ g.op = "tickInsert" => h = g \/ (UNCHANGED job /\ ~ Pending(g.first))

TickLoads(th) ==
  thread'[th].op \in TickOps => thread[th].op \in TickOps \/ TickRead(th)

\* What a handler holds after a step it either held before, or has just loaded
\* from a table that the step leaves alone: for each pair of read and write.
LEMMA LoadSteps ==
  ASSUME TypeOK, [Next]_vars, NEW th \in Threads
  PROVE  /\ ClaimLoads(thread[th], thread'[th])
         /\ MarkLoads(thread[th], thread'[th])
         /\ ResultLoads(thread[th], thread'[th])
         /\ RequeueLoads(thread[th], thread'[th])
         /\ EnqueueLoads(thread[th], thread'[th])
         /\ TickLoads(th)
<1> USE DEF TypeOK, ClaimOps, TickOps
<1> DEFINE h == thread[th]
           g == thread'[th]
           Goal == /\ ClaimLoads(h, g)
                   /\ MarkLoads(h, g)
                   /\ ResultLoads(h, g)
                   /\ RequeueLoads(h, g)
                   /\ EnqueueLoads(h, g)
                   /\ TickLoads(th)
<1> SUFFICES Goal
  OBVIOUS
<1>0. h \in Handler /\ Idle.op = "idle"
  BY DEF Idle
<1>1. CASE g = h \/ g = Idle
  <2>1. CASE g = h
    BY <2>1 DEF ClaimLoads, MarkLoads, ResultLoads, RequeueLoads,
       EnqueueLoads, TickLoads
  <2>2. CASE g = Idle
    BY <1>0, <2>2 DEF ClaimLoads, MarkLoads, ResultLoads, RequeueLoads,
       EnqueueLoads, TickLoads
  <2> QED
    BY <1>1, <2>1, <2>2
<1>2. CASE \E t \in Targets : ScanNowRead(th, t)
  <2>1. PICK t \in Targets : ScanNowRead(th, t)
    BY <1>2
  <2>2. /\ g.op = "scanNow" /\ g.target = t
        /\ UNCHANGED job /\ ~ Pending(t)
    BY <2>1 DEF ScanNowRead, Become
  <2> QED
    BY <2>2 DEF ClaimLoads, MarkLoads, ResultLoads, RequeueLoads,
       EnqueueLoads, TickLoads
<1>3. CASE TickRead(th)
  <2> DEFINE stale == {j \in JobIds : /\ job[j].state \in OutStates
                                      /\ job[j].claimedAt = "stale"}
             exhausted == {j \in stale : OutOfAttempts(job[j])}
  <2>1. \A j \in stale \ exhausted : job[j].attempts < MaxAttempts
    BY BoundsAssumption DEF OutOfAttempts, JobRow
  <2>2. UNCHANGED job
    BY <1>3 DEF TickRead
  <2>3. CASE g.op = "tick"
    BY <1>3, <2>2, <2>3 DEF ClaimLoads, MarkLoads, ResultLoads, RequeueLoads,
       EnqueueLoads, TickLoads
  <2>4. CASE g.op # "tick"
    <3>1. \/ Become(th, [op |-> "requeue", retry |-> stale \ exhausted,
                         exhausted |-> exhausted])
          \/ Become(th, [op |-> "tick", todo |-> due])
      BY <1>3 DEF TickRead
    <3> HIDE DEF stale, exhausted
    <3>2. g = [op |-> "requeue", retry |-> stale \ exhausted,
               exhausted |-> exhausted]
      <4>1. \/ g = [op |-> "requeue", retry |-> stale \ exhausted,
                    exhausted |-> exhausted]
            \/ g = [op |-> "tick", todo |-> due]
        BY <3>1 DEF Become
      <4> QED
        BY <2>4, <4>1
    <3> USE DEF stale, exhausted
    <3>3. /\ g.op = "requeue"
          /\ \A j \in g.retry \cup g.exhausted :
               job[j].state \in OutStates /\ job[j].claimedAt = "stale"
          /\ \A j \in g.retry : job[j].attempts < MaxAttempts
      BY <3>2, <2>1
    <3> QED
      BY <1>3, <2>2, <3>3 DEF ClaimLoads, MarkLoads, ResultLoads, RequeueLoads,
         EnqueueLoads, TickLoads
  <2> QED
    BY <2>3, <2>4
<1>4. CASE TickSkip(th)
  <2>1. h.op = "tick" /\ g.op = "tick"
    BY <1>4 DEF TickSkip, Become
  <2> QED
    BY <2>1 DEF ClaimLoads, MarkLoads, ResultLoads, RequeueLoads,
       EnqueueLoads, TickLoads
<1>5. CASE TickPick(th)
  <2>1. /\ h.op = "tick" /\ g.op = "tickInsert"
        /\ UNCHANGED job /\ ~ Pending(g.first)
    BY <1>5 DEF TickPick, Become
  <2> QED
    BY <2>1 DEF ClaimLoads, MarkLoads, ResultLoads, RequeueLoads,
       EnqueueLoads, TickLoads
<1>6. CASE \E w \in Workers : ClaimSelect(th, w)
  <2>1. /\ g.op = "claimRecheck"
        /\ UNCHANGED job /\ g.job \in JobIds
        /\ job[g.job].state = "queued"
        /\ g.attempts = job[g.job].attempts
    BY <1>6 DEF ClaimSelect, Become, Oldest
  <2> QED
    BY <2>1 DEF ClaimLoads, MarkLoads, ResultLoads, RequeueLoads,
       EnqueueLoads, TickLoads
<1>7. CASE ClaimRecheck(th) /\ g # Idle
  <2>1. h \in [op : {"claimRecheck", "claimWrite"}, job : JobIds,
               worker : Workers, attempts : Nat]
    BY <1>0, <1>7 DEF ClaimRecheck, Handler
  <2>2. g = [h EXCEPT !.op = "claimWrite"]
    BY <1>7 DEF ClaimRecheck, Become
  <2>3. /\ h.op \in ClaimOps /\ g.op = "claimWrite"
        /\ g.job = h.job /\ g.attempts = h.attempts
    BY <2>1, <2>2
  <2> QED
    BY <2>3 DEF ClaimLoads, MarkLoads, ResultLoads, RequeueLoads,
       EnqueueLoads, TickLoads
<1>8. CASE (\E r \in RunIds : MarkRead(th, r)) /\ g # h
  <2>1. PICK r \in RunIds : MarkRead(th, r)
    BY <1>8
  <2>2. /\ g.op = "mark" /\ g.job = run[r].job
        /\ UNCHANGED job /\ run[r].pc # "free"
        /\ job[run[r].job].state = "claimed"
    BY <1>8, <2>1 DEF MarkRead, MarkApplies, Become
  <2> QED
    BY <2>2 DEF ClaimLoads, MarkLoads, ResultLoads, RequeueLoads,
       EnqueueLoads, TickLoads
<1>9. CASE \E r \in RunIds, ok \in BOOLEAN : ResultRead(th, r, ok)
  <2>1. PICK r \in RunIds, ok \in BOOLEAN : ResultRead(th, r, ok)
    BY <1>9
  <2>2. /\ g.op = "result" /\ g.job = run[r].job
        /\ UNCHANGED job /\ run[r].pc # "free"
    BY <2>1 DEF ResultRead, Become
  <2> QED
    BY <2>2 DEF ClaimLoads, MarkLoads, ResultLoads, RequeueLoads,
       EnqueueLoads, TickLoads
<1>10. ThreadStep(th)
  BY ThreadSteps
<1> HIDE DEF TypeOK, ClaimOps, TickOps, Goal
<1> QED
  BY <1>1, <1>2, <1>3, <1>4, <1>5, <1>6, <1>7, <1>8, <1>9, <1>10 DEF ThreadStep
-----------------------------------------------------------------------------
(* What no race can break. *)

\* Every run belongs to a row that was inserted.
RunsHaveRows ==
  \A r \in RunIds : run[r].pc # "free" => job[run[r].job].state # "absent"

\* The scheduler runs one instance of the tick at a time.
OneTick ==
  \A th, u \in Threads : /\ thread[th].op \in TickOps
                         /\ thread[u].op \in TickOps
                         => th = u

Always == HandlersHaveRows /\ RunsHaveRows /\ OneTick /\ RacesNoted

\* A row is never deleted here, and keeps its target.
LEMMA RowStays ==
  ASSUME TypeOK, [Next]_vars, NEW j \in JobIds, job[j].state # "absent"
  PROVE  job'[j].state # "absent" /\ job'[j].target = job[j].target
<1>1. job[j] \in JobRow
  BY DEF TypeOK
<1>2. \A h : /\ Requeued(job[j]).target = job[j].target
             /\ Exhausted(job[j]).target = job[j].target
             /\ Started(job[j]).target = job[j].target
             /\ Expired(job[j]).target = job[j].target
             /\ Closed(job[j], h).target = job[j].target
             /\ Outcome(h) # "absent"
  BY <1>1 DEF Requeued, Exhausted, Started, Expired, Closed, Outcome, JobRow
<1> QED
  BY <1>1, <1>2, RowSteps, RowFields DEF RowStep

\* A tick is only started when there is none.
LEMMA OneTickStep ==
  ASSUME TypeOK, OneTick, [Next]_vars
  PROVE  OneTick'
<1> SUFFICES ASSUME NEW th \in Threads, NEW u \in Threads, th # u,
                    thread'[th].op \in TickOps, thread'[u].op \in TickOps
             PROVE  FALSE
  BY DEF OneTick
<1>1. /\ TickLoads(th)
      /\ TickLoads(u)
  BY LoadSteps
<1>2. CASE thread[th].op \in TickOps /\ thread[u].op \in TickOps
  BY <1>2 DEF OneTick
<1>3. CASE \A v \in Threads : thread[v].op \notin TickOps
  <2>1. TickRead(th)
    BY <1>1, <1>3 DEF TickLoads
  <2>2. PICK h : Become(th, h)
    BY <2>1 DEF TickRead
  <2>3. thread'[u] = thread[u]
    BY <2>2, OthersKept
  <2> QED
    BY <1>3, <2>3
<1>4. CASE \E v \in Threads : thread[v].op \in TickOps
  BY <1>1, <1>2, <1>4 DEF TickLoads, TickRead
<1> QED
  BY <1>3, <1>4

\* Whatever races there were, handlers and runs are about rows that exist.
LEMMA AlwaysStep ==
  ASSUME TypeOK, Always, [RacesNext]_racesVars
  PROVE  Always'
<1>1. [Next]_vars /\ RacesNoted'
  BY RacesSteps DEF Always
<1>2. OneTick'
  BY <1>1, OneTickStep DEF Always
<1>3. RunsHaveRows'
  <2> SUFFICES ASSUME NEW r \in RunIds, run'[r].pc # "free"
               PROVE  job'[run'[r].job].state # "absent"
    BY DEF RunsHaveRows
  <2>1. CASE run[r].pc # "free"
    <3>1. run[r].job \in JobIds /\ run'[r].job = run[r].job
      BY <1>1, <2>1, RunFields, RunsKept DEF RunKept
    <3> QED
      BY <1>1, <2>1, <3>1, RowStays DEF Always, RunsHaveRows
  <2>2. CASE run[r].pc = "free"
    <3>1. PICK th \in Threads : ClaimGrant(th)
      BY <1>1, <2>2
         DEF Next, HandlerStep, vars, BecomesDue, Postpone, Expire,
             ScanNowRead, ScanNowWrite, TickRead, RequeueWrite, TickSkip,
             TickPick, TickWrite, TickEnd, ClaimSelect, ClaimRecheck,
             ClaimRefuse, MarkRead, MarkWrite, MarkLost, ResultRead,
             ResultWrite, Lose, Abort, Restart, SetRun, TypeOK
    <3>2. thread[th].job \in JobIds /\ run'[r].job = thread[th].job
      BY <2>2, <3>1, HandlerFields DEF ClaimGrant, Delivered, TypeOK
    <3>3. job[thread[th].job].state # "absent"
      BY <3>1 DEF ClaimGrant, Always, HandlersHaveRows
    <3> QED
      BY <1>1, <3>2, <3>3, RowStays
  <2> QED
    BY <2>1, <2>2
<1>4. HandlersHaveRows'
  <2> SUFFICES ASSUME NEW th \in Threads
               PROVE  LET g == thread'[th] IN
                 /\ g.op \in {"claimRecheck", "claimWrite", "mark", "result"} =>
                      job'[g.job].state # "absent"
                 /\ g.op = "requeue" =>
                      \A j \in g.retry \cup g.exhausted : job'[j].state # "absent"
    BY DEF HandlersHaveRows
  <2> DEFINE h == thread[th]
             g == thread'[th]
  <2>1. h \in Handler
    BY DEF TypeOK
  <2>2. /\ ClaimLoads(h, g) /\ MarkLoads(h, g) /\ ResultLoads(h, g)
        /\ RequeueLoads(h, g)
    BY <1>1, LoadSteps
  <2>3. /\ h.op \in {"claimRecheck", "claimWrite", "mark", "result"} =>
             h.job \in JobIds /\ job[h.job].state # "absent"
        /\ h.op = "requeue" =>
             \A j \in h.retry \cup h.exhausted :
               j \in JobIds /\ job[j].state # "absent"
    BY <2>1, HandlerFields DEF Always, HandlersHaveRows
  <2>4. g.op \in ClaimOps => job'[g.job].state # "absent"
    BY <1>1, <2>2, <2>3, RowStays DEF ClaimLoads, ClaimOps
  <2>5. g.op = "mark" \/ g.op = "result" => job'[g.job].state # "absent"
    BY <1>1, <2>2, <2>3, RowStays
       DEF MarkLoads, ResultLoads, Always, RunsHaveRows
  <2>6. g.op = "requeue" =>
          \A j \in g.retry \cup g.exhausted : job'[j].state # "absent"
    BY <1>1, <2>2, <2>3, RowStays DEF RequeueLoads, OutStates
  <2> QED
    BY <2>4, <2>5, <2>6 DEF ClaimOps
<1> QED
  BY <1>1, <1>2, <1>3, <1>4 DEF Always

\* The queue with its history is the queue.
LEMMA RacesRefine == RacesSpec => Spec
<1>1. RacesInit => Init
  BY DEF RacesInit
<1>2. [RacesNext]_racesVars => [Next]_vars
  BY DEF RacesNext, racesVars
<1> QED
  BY <1>1, <1>2, PTL DEF RacesSpec, Spec

\* What holds of every behaviour of the threads, raced or not.
LEMMA AlwaysInvariant == RacesSpec => [](TypeOK /\ RowCoherent /\ Always)
<1>1. RacesInit => Always
  BY DEF RacesInit, Init, Always, HandlersHaveRows, RunsHaveRows, OneTick,
         RacesNoted, TwoClaims, TwoEnqueues, LatePing, LateClose, Opens,
         Closes, ClaimOps, EnqueueOps, TickOps, Idle, NoRun
<1>2. TypeOK /\ Always /\ [RacesNext]_racesVars => Always'
  BY AlwaysStep
<1> QED
  BY <1>1, <1>2, RacesRefine, TypeCorrect, RowsCoherent, PTL DEF RacesSpec
-----------------------------------------------------------------------------
(* Reclaiming needs a race of a ping. *)

\* A ping being stored is about a job with a date.
MarksDated ==
  \A th \in Threads :
    thread[th].op = "mark" => job[thread[th].job].claimedAt # "null"

PingInv == "ping" \notin raced => PendingReclaimable /\ MarksDated

\* What each handler does to claimed_at.
LEMMA RowDates ==
  ASSUME NEW row \in JobRow, NEW h
  PROVE  /\ Requeued(row).claimedAt = "null"
         /\ Exhausted(row).claimedAt = row.claimedAt
         /\ Started(row).claimedAt = row.claimedAt
         /\ Expired(row).claimedAt = "stale"
         /\ Closed(row, h).claimedAt = row.claimedAt
         /\ Claimed(row, h).claimedAt = "fresh"
         /\ Refused(row, h).claimedAt = "fresh"
BY DEF Requeued, Exhausted, Started, Expired, Closed, Claimed, Refused, JobRow

\* Only a requeue takes the date off a row.
LEMMA DateStays ==
  ASSUME TypeOK, [Next]_vars, NEW j \in JobIds,
         job[j].state # "absent", job[j].claimedAt # "null"
  PROVE  \/ job'[j].claimedAt # "null"
         \/ \E th \in Threads : /\ thread[th].op = "requeue"
                                /\ j \in thread[th].retry
                                /\ RequeueWrite(th)
<1>1. job[j] \in JobRow
  BY DEF TypeOK
<1> QED
  BY <1>1, RowDates, RowSteps DEF RowStep

\* Without a race of a ping, what is out or about to be marked has a date.
LEMMA PingInvariant == RacesSpec => []PingInv
<1>1. RacesInit => PingInv
  BY DEF RacesInit, Init, PingInv, PendingReclaimable, MarksDated, Idle, NoJob,
         OutStates
<1>2. TypeOK /\ Always /\ PingInv /\ [RacesNext]_racesVars => PingInv'
  <2> SUFFICES ASSUME TypeOK, Always, PingInv, [RacesNext]_racesVars,
                      "ping" \notin raced'
               PROVE  PendingReclaimable' /\ MarksDated'
    BY DEF PingInv
  <2>1. [Next]_vars /\ ~ LatePing /\ PendingReclaimable /\ MarksDated
    BY RacesSteps DEF PingInv, Always, RacesNoted
  <2>2. ASSUME NEW j \in JobIds, job'[j].state \in OutStates
        PROVE  job'[j].claimedAt # "null"
    <3>1. job[j] \in JobRow
      BY DEF TypeOK
    <3>2. \A t \in Targets : NewJob(t).state = "queued"
      BY DEF NewJob, NoJob
    <3>3. \A h : Outcome(h) \notin OutStates
      BY DEF Outcome, OutStates
    <3>4. job[j].state \in OutStates => job[j].claimedAt # "null"
      BY <2>1 DEF PendingReclaimable
    <3>5. ASSUME NEW th \in Threads, thread[th].op = "mark",
                 thread[th].job = j
          PROVE  job[j].claimedAt # "null"
      BY <2>1, <3>5 DEF MarksDated
    <3> QED
      BY <2>1, <2>2, <3>1, <3>2, <3>3, <3>4, <3>5, RowSteps, RowFields, RowDates
         DEF RowStep, OutStates
  <2>3. ASSUME NEW th \in Threads, thread'[th].op = "mark"
        PROVE  job'[thread'[th].job].claimedAt # "null"
    <3> DEFINE h == thread[th]
               g == thread'[th]
    <3>1. MarkLoads(h, g)
      BY <2>1, LoadSteps
    <3>2. CASE h = g
      <4>1. h.op = "mark" /\ h.job \in JobIds
        BY <2>3, <3>2, HandlerFields DEF TypeOK
      <4>2. job[h.job].state # "absent" /\ job[h.job].claimedAt # "null"
        BY <2>1, <4>1 DEF MarksDated, Always, HandlersHaveRows
      <4>3. \A u \in Threads : thread[u].op = "requeue" =>
                                 h.job \notin thread[u].retry
        BY <2>1, <4>1 DEF LatePing
      <4> QED
        BY <2>1, <3>2, <4>1, <4>2, <4>3, DateStays
    <3>3. CASE h # g
      <4>1. PICK r \in RunIds : run[r].pc # "free" /\ g.job = run[r].job
        BY <2>3, <3>1, <3>3 DEF MarkLoads
      <4>2. g.job \in JobIds
        BY <4>1, RunFields
      <4>3. UNCHANGED job /\ job[g.job].state = "claimed"
        BY <2>3, <3>1, <3>3 DEF MarkLoads
      <4> QED
        BY <2>1, <4>2, <4>3 DEF PendingReclaimable, OutStates
    <3> QED
      BY <3>2, <3>3
  <2> QED
    BY <2>2, <2>3 DEF PendingReclaimable, MarksDated
<1> QED
  BY <1>1, <1>2, AlwaysInvariant, PTL DEF RacesSpec

\* However many handlers interleave, it takes the requeue of a job while a ping
\* about it is being stored to leave a claimed or running job without a date.
THEOREM ReclaimableUnlessPingRace == RacesSpec => []ReclaimNeedsPingRace
<1>1. PingInv => ReclaimNeedsPingRace
  BY DEF PingInv, ReclaimNeedsPingRace
<1> QED
  BY <1>1, PingInvariant, PTL
-----------------------------------------------------------------------------
(* Handing a job out too often needs a race of claims. *)

\* A job being claimed has no date, and one being requeued has.
ClaimDates ==
  \A th \in Threads :
    LET h == thread[th] IN
      /\ h.op \in ClaimOps => job[h.job].claimedAt = "null"
      /\ h.op = "requeue" => \A j \in h.retry : job[j].claimedAt # "null"

ClaimsKept == /\ ClaimsAccurate
              /\ ClaimDates
              /\ RunsCounted
              /\ HandoutsDistinct
              /\ AttemptsBounded

ClaimsInv == "claims" \notin raced => ClaimsKept

\* While a claim is under way, nobody but another claim dates or counts its job.
LEMMA ClaimedRowKept ==
  ASSUME TypeOK, [Next]_vars, HandlersHaveRows, ClaimDates, ~ TwoClaims,
         NEW th \in Threads,
         thread[th].op \in ClaimOps, thread'[th].op \in ClaimOps
  PROVE  LET j == thread[th].job IN /\ j \in JobIds
                                    /\ job[j].state # "absent"
                                    /\ job'[j].claimedAt = "null"
                                    /\ job'[j].attempts = job[j].attempts
<1> DEFINE j == thread[th].job
<1>1. /\ j \in JobIds /\ job[j] \in JobRow
      /\ job[j].state # "absent" /\ job[j].claimedAt = "null"
  BY HandlerFields DEF TypeOK, ClaimOps, HandlersHaveRows, ClaimDates
<1>2. \A u \in Threads :
        thread[u].op = "requeue" => j \notin thread[u].retry
  BY <1>1 DEF ClaimDates
<1>3. ASSUME NEW u \in Threads, thread[u].op = "claimWrite", thread[u].job = j,
             ClaimGrant(u) \/ ClaimRefuse(u)
      PROVE  FALSE
  <2>1. u = th
    BY <1>3 DEF TwoClaims, ClaimOps
  <2>2. thread'[th] = Idle
    BY <1>3, <2>1 DEF ClaimGrant, ClaimRefuse, Become, TypeOK
  <2> QED
    BY <2>2 DEF Idle, ClaimOps
<1> HIDE DEF j
<1>4. job'[j].claimedAt = "null" /\ job'[j].attempts = job[j].attempts
  BY <1>1, <1>2, <1>3, RowSteps, RowFields, RowAttempts, RowDates DEF RowStep
<1> QED
  BY <1>1, <1>4 DEF j

\* While a requeue is under way, no job it will retry loses its date or is tried.
LEMMA RetriedRowKept ==
  ASSUME TypeOK, [Next]_vars, HandlersHaveRows, ClaimDates, OneTick,
         NEW th \in Threads, thread[th].op = "requeue", thread'[th] = thread[th],
         NEW j \in thread[th].retry
  PROVE  /\ j \in JobIds
         /\ job'[j].claimedAt # "null"
         /\ job'[j].attempts = job[j].attempts
<1>1. /\ j \in JobIds /\ job[j] \in JobRow
      /\ job[j].state # "absent" /\ job[j].claimedAt # "null"
  BY HandlerFields DEF TypeOK, HandlersHaveRows, ClaimDates
<1>2. \A u \in Threads : thread[u].op = "claimWrite" => thread[u].job # j
  BY <1>1 DEF ClaimDates, ClaimOps
<1>3. ASSUME NEW u \in Threads, thread[u].op = "requeue", RequeueWrite(u)
      PROVE  FALSE
  <2>1. u = th
    BY <1>3 DEF OneTick, TickOps
  <2>2. thread'[th] = Idle
    BY <1>3, <2>1 DEF RequeueWrite, Become, TypeOK
  <2> QED
    BY <2>2 DEF Idle
<1> QED
  BY <1>1, <1>2, <1>3, RowSteps, RowFields, RowAttempts, RowDates DEF RowStep

\* What claims and requeues have loaded stays true.
LEMMA ClaimViewsStep ==
  ASSUME TypeOK, RowCoherent, Always, ClaimsKept, ~ TwoClaims, [Next]_vars
  PROVE  ClaimsAccurate' /\ ClaimDates'
<1>1. ASSUME NEW th \in Threads, thread'[th].op \in ClaimOps
      PROVE  LET g == thread'[th] IN /\ job'[g.job].state # "absent"
                                     /\ job'[g.job].attempts = g.attempts
                                     /\ g.attempts < MaxAttempts
                                     /\ job'[g.job].claimedAt = "null"
  <2> DEFINE h == thread[th]
             g == thread'[th]
  <2>1. CASE h.op \in ClaimOps /\ g.job = h.job /\ g.attempts = h.attempts
    <3>1. /\ job[h.job].attempts = h.attempts
          /\ h.attempts < MaxAttempts
      BY <2>1 DEF ClaimsKept, ClaimsAccurate, ClaimOps
    <3>2. /\ h.job \in JobIds
          /\ job[h.job].state # "absent"
          /\ job'[h.job].claimedAt = "null"
          /\ job'[h.job].attempts = job[h.job].attempts
      BY <1>1, <2>1, ClaimedRowKept DEF Always, ClaimsKept
    <3> QED
      BY <2>1, <3>1, <3>2, RowStays
  <2>2. CASE /\ UNCHANGED job
             /\ g.job \in JobIds
             /\ job[g.job].state = "queued"
             /\ g.attempts = job[g.job].attempts
    <3>1. job[g.job].attempts < MaxAttempts /\ job[g.job].claimedAt = "null"
      BY <2>2 DEF ClaimsKept, AttemptsBounded, RowCoherent, Coherent
    <3> QED
      BY <2>2, <3>1
  <2> QED
    BY <1>1, <2>1, <2>2, LoadSteps DEF ClaimLoads
<1>2. ASSUME NEW th \in Threads, thread'[th].op = "requeue",
             NEW j \in thread'[th].retry
      PROVE  job'[j].attempts < MaxAttempts /\ job'[j].claimedAt # "null"
  <2>1. CASE thread[th] = thread'[th]
    BY <1>2, <2>1, RetriedRowKept
       DEF Always, ClaimsKept, ClaimsAccurate
  <2>2. CASE thread[th] # thread'[th]
    BY <1>2, <2>2, LoadSteps DEF RequeueLoads
  <2> QED
    BY <2>1, <2>2
<1> QED
  BY <1>1, <1>2 DEF ClaimsAccurate, ClaimDates, ClaimOps

\* Without a race of claims, hand-outs are counted as they should be.
LEMMA ClaimsInvariant == RacesSpec => []ClaimsInv
<1>1. RacesInit => ClaimsInv
  BY BoundsAssumption
     DEF RacesInit, Init, ClaimsInv, ClaimsKept, ClaimsAccurate, ClaimDates,
         RunsCounted, HandoutsDistinct, AttemptsBounded, Idle, ClaimOps, NoJob,
         NoRun
<1>2. /\ TypeOK /\ TypeOK' /\ RowCoherent /\ Always /\ ClaimsInv
      /\ [RacesNext]_racesVars
      => ClaimsInv'
  <2> SUFFICES ASSUME TypeOK, TypeOK', RowCoherent, Always, ClaimsInv,
                      [RacesNext]_racesVars, "claims" \notin raced'
               PROVE  ClaimsKept'
    BY DEF ClaimsInv
  <2>1. [Next]_vars /\ ~ TwoClaims /\ ClaimsKept
    BY RacesSteps DEF ClaimsInv, Always, RacesNoted
  <2>2. ClaimsAccurate' /\ ClaimDates'
    BY <2>1, ClaimViewsStep
  <2>3. RunsCounted' /\ HandoutsDistinct' /\ AttemptsBounded'
    BY <2>1, RunsCountedStep, HandoutsStep, AttemptsStep DEF ClaimsKept
  <2> QED
    BY <2>2, <2>3 DEF ClaimsKept
<1> QED
  BY <1>1, <1>2, AlwaysInvariant, TypeCorrect, RacesRefine, PTL
     DEF RacesSpec

\* However many handlers interleave, it takes two overlapping claims of a job to
\* hand it out twice as the same attempt or past job_max_attempts.
THEOREM HandoutsUnlessClaimRace == RacesSpec => []HandoutsNeedClaimRace
<1>1. ClaimsInv => HandoutsNeedClaimRace
  BY DEF ClaimsInv, ClaimsKept, HandoutsNeedClaimRace
<1> QED
  BY <1>1, ClaimsInvariant, PTL

\* However many handlers interleave, no job is given to workers more often than
\* job_max_attempts, whatever they report and when, unless two claims of it overlap.
THEOREM HandoutsBoundedUnlessClaimRace ==
  RacesSpec => []("claims" \notin raced => HandoutsBounded)
<1>1. TypeOK /\ ClaimsInv => ("claims" \notin raced => HandoutsBounded)
  BY DistinctAreBounded DEF ClaimsInv, ClaimsKept
<1> QED
  BY <1>1, ClaimsInvariant, AlwaysInvariant, PTL
-----------------------------------------------------------------------------
(* Reopening a job needs a handler that was overtaken by its end. *)

OpenersSeeOpen ==
  \A th \in Threads, j \in JobIds :
    Opens(thread[th], j) => job[j].state \notin ClosedStates

CloseInv == "close" \notin raced => OpenersSeeOpen

\* A step makes a closed job pending only for a handler that was about to do so.
Reopens == \E j \in JobIds : /\ job[j].state \in ClosedStates
                             /\ job'[j].state \in PendingStates

\* A step that reopens a closed job is the write of a handler that had loaded it.
LEMMA ReopenersHadLoaded ==
  ASSUME TypeOK, [Next]_vars, Reopens
  PROVE  ~ OpenersSeeOpen
<1>1. PICK j \in JobIds : /\ job[j].state \in ClosedStates
                          /\ job'[j].state \in PendingStates
  BY DEF Reopens
<1>2. job[j] \in JobRow
  BY DEF TypeOK
<1>3. \A h : Outcome(h) \in ClosedStates
  BY DEF Outcome, ClosedStates
<1>4. \E th \in Threads : Opens(thread[th], j)
  BY <1>1, <1>2, <1>3, RowSteps, RowFields
     DEF RowStep, Opens, ClaimOps, ClosedStates, PendingStates
<1> QED
  BY <1>1, <1>4 DEF OpenersSeeOpen

\* A job some handler is about to make pending is closed only in a race.
LEMMA OpenersStep ==
  ASSUME TypeOK, [Next]_vars, OpenersSeeOpen, ~ LateClose
  PROVE  OpenersSeeOpen'
<1> SUFFICES ASSUME NEW th \in Threads, NEW j \in JobIds,
                    Opens(thread'[th], j), job'[j].state \in ClosedStates
             PROVE  FALSE
  BY DEF OpenersSeeOpen
<1> DEFINE h == thread[th]
           g == thread'[th]
<1>1. h \in Handler /\ job[j] \in JobRow
  BY DEF TypeOK
<1>2. /\ ClaimLoads(h, g) /\ MarkLoads(h, g) /\ RequeueLoads(h, g)
  BY LoadSteps
<1>3. CASE Opens(h, j)
  <2>1. job[j].state \notin ClosedStates
    BY <1>3 DEF OpenersSeeOpen
  <2>2. ASSUME NEW u \in Threads, Closes(thread[u], j), thread'[u] = Idle
        PROVE  FALSE
    <3>1. u # th
      BY <2>2 DEF Opens, Idle, ClaimOps
    <3> QED
      BY <1>3, <2>2, <3>1 DEF LateClose
  <2>3. ASSUME NEW u \in Threads, RequeueWrite(u), thread[u].op = "requeue",
               j \in thread[u].exhausted
        PROVE  FALSE
    BY <2>2, <2>3 DEF RequeueWrite, Become, TypeOK, Closes
  <2>4. ASSUME NEW u \in Threads, ClaimRefuse(u), thread[u].job = j
        PROVE  FALSE
    BY <2>2, <2>4 DEF ClaimRefuse, Become, TypeOK, Closes, ClaimOps
  <2>5. ASSUME NEW u \in Threads, ResultWrite(u), thread[u].job = j
        PROVE  FALSE
    BY <2>2, <2>5 DEF ResultWrite, Become, TypeOK, Closes
  <2>6. \A t \in Targets : NewJob(t).state = "queued"
    BY DEF NewJob, NoJob
  <2> QED
    BY <1>1, <2>1, <2>3, <2>4, <2>5, <2>6, RowSteps, RowFields
       DEF RowStep, ClosedStates
<1>4. CASE ~ Opens(h, j)
  <2>1. h # g
    BY <1>4
  <2>2. UNCHANGED job /\ job[j].state \in PendingStates
    BY <1>2, <1>4, <2>1
       DEF Opens, ClaimOps, ClaimLoads, MarkLoads, RequeueLoads,
           PendingStates, OutStates
  <2> QED
    BY <2>2 DEF PendingStates, ClosedStates
<1> QED
  BY <1>3, <1>4

\* Without a race of a close, who is about to make a job pending sees it open.
LEMMA CloseInvariant == RacesSpec => []CloseInv
<1>1. RacesInit => CloseInv
  BY DEF RacesInit, Init, CloseInv, OpenersSeeOpen, Opens, Idle, ClaimOps
<1>2. TypeOK /\ Always /\ CloseInv /\ [RacesNext]_racesVars => CloseInv'
  BY RacesSteps, OpenersStep DEF CloseInv, Always, RacesNoted
<1> QED
  BY <1>1, <1>2, AlwaysInvariant, PTL DEF RacesSpec

\* However many handlers interleave, a closed job becomes pending again only by
\* the write of a handler that had loaded it before and was overtaken by its end.
THEOREM ClosedUnlessRace == RacesSpec => ReopenNeedsCloseRace
<1>1. TypeOK /\ CloseInv /\ [RacesNext]_racesVars =>
        [\A j \in JobIds :
           /\ job[j].state \in ClosedStates
           /\ job'[j].state \in PendingStates
           => "close" \in raced]_racesVars
  BY RacesSteps, ReopenersHadLoaded DEF CloseInv, Reopens
<1> QED
  BY <1>1, CloseInvariant, AlwaysInvariant, PTL DEF RacesSpec, ReopenNeedsCloseRace
-----------------------------------------------------------------------------
(* A second pending job needs a race of enqueues or of an end. *)

EnqueueInv ==
  raced \cap {"enqueues", "close"} = {} =>
    OnePendingPerTarget /\ EnqueuersSeeNone

\* A row becomes pending only by being inserted or reopened.
LEMMA PendingSteps ==
  ASSUME TypeOK, HandlersHaveRows, [Next]_vars, ~ Reopens, NEW j \in JobIds,
         job'[j].state \in PendingStates
  PROVE  \/ /\ job[j].state \in PendingStates
            /\ job'[j].target = job[j].target
         \/ job[j].state = "absent"
<1>1. job[j].state \in JobStates
  BY DEF TypeOK, JobRow
<1>2. job[j].state \notin ClosedStates
  BY DEF Reopens
<1> QED
  BY <1>1, <1>2, RowStays DEF JobStates, PendingStates, ClosedStates

\* Only the handlers that insert jobs make an absent row appear.
LEMMA Inserters ==
  ASSUME TypeOK, HandlersHaveRows, [Next]_vars, NEW j \in JobIds,
         job[j].state = "absent", job'[j].state # "absent"
  PROVE  \E th \in Threads : thread[th].op \in EnqueueOps /\ thread'[th] = Idle
<1>1. ASSUME NEW th \in Threads,
             ScanNowWrite(th) \/ RequeueWrite(th) \/ TickWrite(th)
      PROVE  thread[th].op \in EnqueueOps /\ thread'[th] = Idle
  BY <1>1 DEF ScanNowWrite, RequeueWrite, TickWrite, EnqueueOps, Become, TypeOK
<1>2. ASSUME NEW i \in JobIds, job[i].state # "absent",
             NEW row, job' = [job EXCEPT ![i] = row]
      PROVE  FALSE
  BY <1>2
<1>3. ASSUME NEW i \in JobIds, Expire(i)
      PROVE  FALSE
  BY <1>2, <1>3 DEF Expire, OutStates
<1>4. ASSUME NEW th \in Threads,
             \/ ClaimGrant(th) \/ ClaimRefuse(th)
             \/ MarkWrite(th) \/ ResultWrite(th)
      PROVE  FALSE
  <2>1. /\ thread[th].job \in JobIds
        /\ job[thread[th].job].state # "absent"
    BY <1>4, HandlerFields
       DEF ClaimGrant, ClaimRefuse, MarkWrite, ResultWrite, HandlersHaveRows,
           TypeOK
  <2> QED
    BY <1>2, <1>4, <2>1 DEF ClaimGrant, ClaimRefuse, MarkWrite, ResultWrite
<1>5. ~ UNCHANGED job
  OBVIOUS
<1> QED
  BY <1>1, <1>3, <1>4, <1>5
     DEF Next, HandlerStep, vars, BecomesDue, Postpone, ScanNowRead, TickRead,
         TickSkip, TickPick, TickEnd, ClaimSelect, ClaimRecheck, MarkRead,
         ResultRead, MarkLost, Lose, Abort, Restart

PendingNext(t) == \E j \in JobIds : /\ job'[j].target = t
                                     /\ job'[j].state \in PendingStates

\* A target an enqueuer found free stays free until the enqueuer inserts.
LEMMA TargetStaysFree ==
  ASSUME TypeOK, HandlersHaveRows, [Next]_vars, ~ Reopens, ~ TwoEnqueues,
         NEW th \in Threads, thread[th].op \in EnqueueOps,
         thread'[th] = thread[th], NEW t, ~ Pending(t)
  PROVE  ~ PendingNext(t)
<1> SUFFICES ASSUME NEW j \in JobIds, job'[j].target = t,
                    job'[j].state \in PendingStates
             PROVE  FALSE
  BY DEF PendingNext
<1>1. job[j].state = "absent"
  BY PendingSteps DEF Pending
<1>2. PICK u \in Threads : thread[u].op \in EnqueueOps /\ thread'[u] = Idle
  BY <1>1, Inserters DEF PendingStates
<1>3. u # th
  BY <1>2 DEF Idle, EnqueueOps
<1> QED
  BY <1>2, <1>3 DEF TwoEnqueues

\* Without those races, an enqueuer's target has no pending job, and others one.
LEMMA EnqueueInvariant == RacesSpec => []EnqueueInv
<1>1. RacesInit => EnqueueInv
  BY DEF RacesInit, Init, EnqueueInv, OnePendingPerTarget, EnqueuersSeeNone,
         Idle, NoJob, PendingStates
<1>2. /\ TypeOK /\ Always /\ CloseInv /\ EnqueueInv /\ [RacesNext]_racesVars
      => EnqueueInv'
  <2> SUFFICES ASSUME TypeOK, Always, CloseInv, EnqueueInv, [RacesNext]_racesVars,
                      raced' \cap {"enqueues", "close"} = {}
               PROVE  OnePendingPerTarget' /\ EnqueuersSeeNone'
    BY DEF EnqueueInv
  <2>1. /\ [Next]_vars /\ ~ Reopens /\ ~ TwoEnqueues
        /\ OnePendingPerTarget /\ EnqueuersSeeNone
        /\ HandlersHaveRows
    BY RacesSteps, ReopenersHadLoaded
       DEF CloseInv, EnqueueInv, Always, RacesNoted
  <2>2. OnePendingPerTarget'
    <3> SUFFICES ASSUME NEW j \in JobIds, NEW k \in JobIds,
                        job'[j].state \in PendingStates,
                        job'[k].state \in PendingStates,
                        job'[j].target = job'[k].target, j # k
                 PROVE  FALSE
      BY DEF OnePendingPerTarget
    <3>1. job[j].state # "absent" /\ job[k].state # "absent"
      BY <2>1, FreshTargets DEF PendingStates
    <3> QED
      BY <2>1, <3>1, PendingSteps DEF OnePendingPerTarget
  <2>3. ASSUME NEW th \in Threads
        PROVE  LET g == thread'[th] IN
                 /\ g.op = "scanNow" => ~ PendingNext(g.target)
                 /\ g.op = "tickInsert" => ~ PendingNext(g.first)
    <3> DEFINE h == thread[th]
               g == thread'[th]
    <3>1. CASE h = g
      <4>1. g.op = "scanNow" => ~ PendingNext(g.target)
        BY <2>1, <3>1, TargetStaysFree DEF EnqueuersSeeNone, EnqueueOps
      <4>2. g.op = "tickInsert" => ~ PendingNext(g.first)
        BY <2>1, <3>1, TargetStaysFree DEF EnqueuersSeeNone, EnqueueOps
      <4> QED
        BY <4>1, <4>2
    <3>2. CASE h # g
      BY <2>1, <3>2, LoadSteps DEF EnqueueLoads, Pending, PendingNext
    <3> QED
      BY <3>1, <3>2
  <2> QED
    BY <2>2, <2>3 DEF EnqueuersSeeNone, Pending, PendingNext
<1> QED
  BY <1>1, <1>2, AlwaysInvariant, CloseInvariant, PTL DEF RacesSpec

\* However many handlers interleave, it takes two overlapping enqueues, or a job
\* closed under a handler about to make it pending, to give a target two of them.
THEOREM OnePendingUnlessRace == RacesSpec => []PendingNeedsEnqueueRace
<1>1. EnqueueInv => PendingNeedsEnqueueRace
  BY DEF EnqueueInv, PendingNeedsEnqueueRace
<1> QED
  BY <1>1, EnqueueInvariant, PTL
-----------------------------------------------------------------------------
(* Until there is a race, the table implements the documented life cycle. *)

\* A job about to be given up has a date: it is out, or has been closed meanwhile.
GivenUpDated ==
  \A th \in Threads :
    thread[th].op = "requeue" =>
      \A j \in thread[th].exhausted : job[j].claimedAt # "null"

\* No step takes the date off a job about to be given up.
LEMMA GivenUpStep ==
  ASSUME TypeOK, Always, GivenUpDated, [Next]_vars
  PROVE  GivenUpDated'
<1> SUFFICES ASSUME NEW th \in Threads, thread'[th].op = "requeue",
                    NEW j \in thread'[th].exhausted
             PROVE  job'[j].claimedAt # "null"
  BY DEF GivenUpDated
<1>1. CASE thread[th] = thread'[th]
  <2>1. /\ j \in JobIds
        /\ job[j].state # "absent" /\ job[j].claimedAt # "null"
    BY <1>1, HandlerFields DEF TypeOK, Always, HandlersHaveRows, GivenUpDated
  <2>2. ASSUME NEW u \in Threads, thread[u].op = "requeue", RequeueWrite(u)
        PROVE  FALSE
    <3>1. u = th
      BY <1>1, <2>2 DEF Always, OneTick, TickOps
    <3>2. thread'[th] = Idle
      BY <2>2, <3>1 DEF RequeueWrite, Become, TypeOK
    <3> QED
      BY <3>2 DEF Idle
  <2> QED
    BY <2>1, <2>2, DateStays
<1>2. CASE thread[th] # thread'[th]
  BY <1>2, LoadSteps DEF RequeueLoads
<1> QED
  BY <1>1, <1>2

\* Jobs about to be given up have dates, raced or not.
LEMMA GivenUpInvariant == RacesSpec => []GivenUpDated
<1>1. RacesInit => GivenUpDated
  BY DEF RacesInit, Init, GivenUpDated, Idle
<1>2. TypeOK /\ Always /\ GivenUpDated /\ [RacesNext]_racesVars => GivenUpDated'
  BY RacesSteps, GivenUpStep
<1> QED
  BY <1>1, <1>2, AlwaysInvariant, PTL DEF RacesSpec

\* What holds as long as nothing has raced.
Unraced == /\ PendingReclaimable
           /\ MarksDated
           /\ ClaimsKept
           /\ OpenersSeeOpen
           /\ OnePendingPerTarget

\* The four invariants, of a queue in which nothing has raced.
LEMMA UnracedInvariant == RacesSpec => [](raced = {} => Unraced)
<1>1. PingInv /\ ClaimsInv /\ CloseInv /\ EnqueueInv => (raced = {} => Unraced)
  BY DEF PingInv, ClaimsInv, CloseInv, EnqueueInv, Unraced
<1> QED
  BY <1>1, PingInvariant, ClaimsInvariant, CloseInvariant, EnqueueInvariant, PTL

\* A row's state, read off its date.
LEMMA DateTells ==
  ASSUME TypeOK, RowCoherent, NEW j \in JobIds, job[j].state # "absent"
  PROVE  /\ job[j].claimedAt # "null" => job[j].state \in OutStates \cup ClosedStates
         /\ PendingReclaimable /\ job[j].claimedAt = "null"
              => job[j].state \in {"queued"} \cup ClosedStates
BY DEF TypeOK, JobRow, JobStates, PendingStates, OutStates, ClosedStates,
       RowCoherent, Coherent, PendingReclaimable

\* As long as nothing has raced, a step does to a row what the life cycle knows.
LEMMA UnracedLifeSteps ==
  ASSUME TypeOK, RowCoherent, Always, GivenUpDated, Unraced, [Next]_vars,
         NEW j \in JobIds
  PROVE  LifeStep(j)
<1>1. ASSUME NEW th \in Threads, Opens(thread[th], j)
      PROVE  job[j].state \notin ClosedStates
  BY <1>1 DEF Unraced, OpenersSeeOpen
<1>2. ASSUME NEW th \in Threads, thread[th].op = "claimWrite", thread[th].job = j
      PROVE  job[j].state = "queued" /\ thread[th].attempts = job[j].attempts
  <2>1. /\ job[j].state # "absent" /\ job[j].claimedAt = "null"
        /\ thread[th].attempts = job[j].attempts
    BY <1>2 DEF Always, HandlersHaveRows, Unraced, ClaimsKept, ClaimsAccurate,
                ClaimDates, ClaimOps
  <2>2. job[j].state \notin ClosedStates
    BY <1>1, <1>2 DEF Opens, ClaimOps
  <2> QED
    BY <2>1, <2>2, DateTells DEF Unraced
<1>3. ASSUME NEW th \in Threads, thread[th].op = "mark", thread[th].job = j
      PROVE  job[j].state \in OutStates
  <2>1. job[j].state # "absent" /\ job[j].claimedAt # "null"
    BY <1>3 DEF Always, HandlersHaveRows, Unraced, MarksDated
  <2>2. job[j].state \notin ClosedStates
    BY <1>1, <1>3 DEF Opens
  <2> QED
    BY <2>1, <2>2, DateTells
<1>4. ASSUME NEW th \in Threads, thread[th].op = "requeue", j \in thread[th].retry
      PROVE  job[j].state \in OutStates /\ job[j].attempts < MaxAttempts
  <2>1. /\ job[j].state # "absent" /\ job[j].claimedAt # "null"
        /\ job[j].attempts < MaxAttempts
    BY <1>4 DEF Always, HandlersHaveRows, Unraced, ClaimsKept, ClaimsAccurate,
                ClaimDates
  <2>2. job[j].state \notin ClosedStates
    BY <1>1, <1>4 DEF Opens
  <2> QED
    BY <2>1, <2>2, DateTells
<1>5. ASSUME NEW th \in Threads, thread[th].op = "requeue",
             j \in thread[th].exhausted
      PROVE  job[j].state \in OutStates \cup ClosedStates
  <2>1. job[j].state # "absent" /\ job[j].claimedAt # "null"
    BY <1>5 DEF Always, HandlersHaveRows, GivenUpDated
  <2> QED
    BY <2>1, DateTells
<1>6. ASSUME NEW th \in Threads, thread[th].op = "result", thread[th].job = j
      PROVE  job[j].state # "absent"
  BY <1>6 DEF Always, HandlersHaveRows
<1> QED
  BY <1>2, <1>3, <1>4, <1>5, <1>6, RowSteps DEF RowStep, LifeStep

\* However many handlers interleave, until two of them race in one of the four ways
\* every commit is a step of the documented life cycle, or none.
THEOREM LifecycleImplementedUntilRace == RacesSpec => LifecycleUntilRace
<1>1. RacesInit => Lifecycle!Init
  BY LifecycleInit DEF RacesInit
<1>2. /\ TypeOK /\ TypeOK' /\ RowCoherent /\ Always /\ GivenUpDated
      /\ (raced = {} => Unraced) /\ (raced = {} => Unraced)'
      /\ [RacesNext]_racesVars
      => [raced' = {} => [Lifecycle!Next]_(Lifecycle!vars)]_racesVars
  <2> SUFFICES ASSUME TypeOK, TypeOK', RowCoherent, Always, GivenUpDated,
                      raced = {} => Unraced, (raced = {} => Unraced)',
                      [RacesNext]_racesVars, raced' = {}
               PROVE  Lifecycle!Next
    OBVIOUS
  <2>1. [Next]_vars /\ Unraced /\ OnePendingPerTarget'
    BY RacesSteps DEF Unraced
  <2>2. \A j \in JobIds : LifeStep(j)
    BY <2>1, UnracedLifeSteps
  <2> QED
    BY <2>1, <2>2, LifecycleStep DEF Unraced, ClaimsKept
<1> QED
  BY <1>1, <1>2, AlwaysInvariant, GivenUpInvariant, UnracedInvariant,
     TypeCorrect, RacesRefine, PTL DEF RacesSpec, LifecycleUntilRace

\* However many handlers interleave, until two of them race every move brings a job
\* nearer to its end.
THEOREM JobsRunOutUntilRace ==
  RacesSpec => [][raced' = {} => MovesDown]_racesVars
<1>1. /\ TypeOK /\ TypeOK' /\ RowCoherent /\ Always /\ GivenUpDated
      /\ (raced = {} => Unraced) /\ (raced = {} => Unraced)'
      /\ [RacesNext]_racesVars
      => [raced' = {} => MovesDown]_racesVars
  <2> SUFFICES ASSUME TypeOK, TypeOK', RowCoherent, Always, GivenUpDated,
                      raced = {} => Unraced, (raced = {} => Unraced)',
                      [RacesNext]_racesVars, raced' = {}
               PROVE  MovesDown
    OBVIOUS
  <2>1. /\ [Next]_vars /\ Unraced
        /\ AttemptsBounded /\ AttemptsBounded'
    BY RacesSteps DEF Unraced, ClaimsKept
  <2> QED
    BY <2>1, UnracedLifeSteps, MovesRunOut DEF MovesDown
<1> QED
  BY <1>1, AlwaysInvariant, GivenUpInvariant, UnracedInvariant, TypeCorrect,
     RacesRefine, PTL DEF RacesSpec

\* Handlers that run one at a time, as the docstring of queue.py assumes, never
\* race: with one thread every promise above holds without its condition.
THEOREM OneThreadNeverRaces ==
  ASSUME OneThread
  PROVE  RacesSpec => [](raced = {})
<1>1. ~ TwoClaims' /\ ~ TwoEnqueues' /\ ~ LatePing' /\ ~ LateClose'
  BY DEF OneThread, TwoClaims, TwoEnqueues, LatePing, LateClose
<1>2. RacesInit => raced = {}
  BY DEF RacesInit
<1>3. raced = {} /\ [RacesNext]_racesVars => (raced = {})'
  BY <1>1 DEF RacesNext, Races, racesVars
<1> QED
  BY <1>2, <1>3, PTL DEF RacesSpec
=============================================================================
