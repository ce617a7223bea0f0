---------------------------- MODULE WorkerProofs ----------------------------
(* Proofs about the worker, for every Concurrency, set of hosts and number of *)
(* jobs.                                                                      *)
EXTENDS Worker, FiniteSetTheorems, SequenceTheorems, TLAPS

\* Every variable keeps its type, but for the counter being a natural number,
\* which the invariant below gives.
LooseType ==
  /\ main \in {"poll", "claim", "drain", "exited"}
  /\ stopping \in BOOLEAN
  /\ inflight \in Int
  /\ queue \in Seq(Tasks)
  /\ task \in [Tasks -> Task]
  /\ allow \in Allowlists
  /\ configured \in Allowlists

\* Moving a task keeps the tasks typed.
LEMMA GotoTyped ==
  ASSUME task \in [Tasks -> Task], NEW n \in Tasks,
         NEW pc \in {"none"} \cup Pending \cup Ended, Goto(n, pc)
  PROVE  /\ task' \in [Tasks -> Task]
         /\ task'[n].pc = pc
         /\ task'[n].hosts = task[n].hosts
         /\ \A m \in Tasks : m # n => task'[m] = task[m]
BY DEF Goto, Task

\* The loose types are kept.
LEMMA LooseTypes == WorkerSpec => []LooseType
<1>1. ASSUME WorkerInit PROVE LooseType
  <2>1. task \in [Tasks -> Task]
    BY <1>1 DEF WorkerInit, Task, NoTask
  <2>2. queue \in Seq(Tasks)
    BY <1>1 DEF WorkerInit
  <2>3. main \in {"poll", "claim", "drain", "exited"} /\ inflight \in Int
    BY <1>1 DEF WorkerInit
  <2>4. stopping \in BOOLEAN /\ allow \in Allowlists /\ configured \in Allowlists
    BY <1>1, Zenon DEF WorkerInit
  <2> QED
    BY <2>1, <2>2, <2>3, <2>4 DEF LooseType
<1>2. LooseType /\ [WorkerNext]_workerVars => LooseType'
  <2> SUFFICES ASSUME LooseType, [WorkerNext]_workerVars PROVE LooseType'
    OBVIOUS
  <2> USE DEF LooseType
  <2>1. CASE UNCHANGED workerVars
    BY <2>1 DEF workerVars
  <2>2. CASE Poll \/ ClaimNothing \/ Drain \/ Exit \/ Signal \/ Reconfigure
    BY <2>2 DEF Poll, ClaimNothing, Drain, Exit, Signal, Reconfigure
  <2>3. ASSUME NEW n \in Tasks, ClaimJob(n) PROVE LooseType'
    <3>1. task' \in [Tasks -> Task]
      BY <2>3 DEF ClaimJob, Task, Pending, Allowlists
    <3>2. queue' \in Seq(Tasks)
      BY <2>3 DEF ClaimJob
    <3> QED
      BY <2>3, <3>1, <3>2 DEF ClaimJob
  <2>4. CASE Begin
    <3>1. Head(queue) \in Tasks /\ Tail(queue) \in Seq(Tasks)
      BY <2>4 DEF Begin
    <3>2. task' \in [Tasks -> Task]
      BY <2>4, <3>1, GotoTyped DEF Begin, Pending, Executing
    <3> QED
      BY <2>4, <3>1, <3>2 DEF Begin
  <2>5. ASSUME NEW n \in Tasks,
               Refuse(n) \/ Scan(n) \/ ScanEnds(n) \/ Submit(n) \/ Raise(n)
        PROVE  LooseType'
    <3>1. task' \in [Tasks -> Task]
      BY <2>5, GotoTyped
         DEF Refuse, Scan, ScanEnds, Submit, AfterSubmit, Raise, Pending,
             Executing, Ended
    <3> QED
      BY <2>5, <3>1
         DEF Refuse, Scan, ScanEnds, Submit, Lowered, Raise
  <2>6. CASE Restart
    <3>1. task' \in [Tasks -> Task]
      BY <2>6 DEF Restart, Task, Ended
    <3>2. queue' \in Seq(Tasks)
      BY <2>6 DEF Restart
    <3>3. main' \in {"poll", "claim", "drain", "exited"} /\ inflight' \in Int
      BY <2>6 DEF Restart
    <3>4. /\ stopping' \in BOOLEAN
          /\ allow' \in Allowlists
          /\ configured' \in Allowlists
      BY <2>6, Zenon DEF Restart
    <3> QED
      BY <3>1, <3>2, <3>3, <3>4
  <2> QED
    BY <2>1, <2>2, <2>3, <2>4, <2>5, <2>6 DEF WorkerNext, LoopStep, PoolStep
<1> QED
  BY <1>1, <1>2, PTL DEF WorkerSpec
-----------------------------------------------------------------------------
\* No host outside the process's allowlist is scanned.
THEOREM GateAlwaysHolds == WorkerSpec => []GateHolds
<1>1. WorkerInit => GateHolds
  BY DEF WorkerInit, GateHolds, In, NoTask
<1>2. LooseType /\ GateHolds /\ [WorkerNext]_workerVars => GateHolds'
  <2> SUFFICES ASSUME LooseType, GateHolds, [WorkerNext]_workerVars
               PROVE  GateHolds'
    OBVIOUS
  <2> USE DEF LooseType, GateHolds, In
  <2>1. CASE UNCHANGED <<task, allow>>
    BY <2>1
  <2>2. ASSUME NEW n \in Tasks, ClaimJob(n) PROVE GateHolds'
    BY <2>2 DEF ClaimJob, Task
  <2>3. CASE Begin
    <3>1. Head(queue) \in Tasks
      BY <2>3 DEF Begin
    <3> QED
      BY <2>3, <3>1, GotoTyped DEF Begin, Pending, Executing
  <2>4. ASSUME NEW n \in Tasks, Scan(n) PROVE GateHolds'
    BY <2>4, GotoTyped DEF Scan, Passes, Pending, Executing
  <2>5. ASSUME NEW n \in Tasks, ScanEnds(n) PROVE GateHolds'
    BY <2>5, GotoTyped DEF ScanEnds, Pending, Executing
  <2>6. ASSUME NEW n \in Tasks, Refuse(n) \/ Submit(n) \/ Raise(n)
        PROVE  GateHolds'
    BY <2>6, GotoTyped
       DEF Refuse, Submit, AfterSubmit, Raise, Pending, Executing, Ended
  <2>7. CASE Restart
    BY <2>7 DEF Restart, Pending, Executing, Task
  <2> QED
    BY <2>1, <2>2, <2>3, <2>4, <2>5, <2>6, <2>7
       DEF WorkerNext, LoopStep, PoolStep, Poll, ClaimNothing, Drain, Exit,
           Signal, Reconfigure, workerVars
<1> QED
  BY <1>1, <1>2, LooseTypes, PTL DEF WorkerSpec
-----------------------------------------------------------------------------
\* The pool's queue holds the jobs that wait for a thread, each of them once.
QueueExact ==
  /\ \A i \in 1 .. Len(queue) : task[queue[i]].pc = "queued"
  /\ \A i, k \in 1 .. Len(queue) : i # k => queue[i] # queue[k]
  /\ \A n \in In({"queued"}) : \E i \in 1 .. Len(queue) : queue[i] = n

\* An execution's own steps: it leaves the jobs that wait alone.
Executes(n) == Refuse(n) \/ Scan(n) \/ ScanEnds(n) \/ Submit(n) \/ Raise(n)

\* An execution in the pool stays in it, ends, or is cut off.
LEMMA ExecutionMoves ==
  ASSUME LooseType, NEW n \in Tasks, Executes(n)
  PROVE  /\ task[n].pc \in Executing
         /\ task'[n].pc # "queued" /\ task'[n].pc # "none"
         /\ \A m \in Tasks : m # n => task'[m] = task[m]
         /\ UNCHANGED queue
BY GotoTyped
   DEF LooseType, Executes, Refuse, Scan, ScanEnds, Submit, AfterSubmit, Raise,
       Pending, Executing, Ended

\* A thread takes the job at the head of the queue.
LEMMA BeginMoves ==
  ASSUME LooseType, QueueExact, Begin
  PROVE  /\ Head(queue) \in Tasks
         /\ task[Head(queue)].pc = "queued"
         /\ task'[Head(queue)].pc = "gate"
         /\ \A m \in Tasks : m # Head(queue) => task'[m] = task[m]
<1>1. Head(queue) \in Tasks /\ Len(queue) \in Nat \ {0} /\ Head(queue) = queue[1]
  BY EmptySeq DEF LooseType, Begin
<1>2. task[Head(queue)].pc = "queued"
  BY <1>1 DEF QueueExact
<1> QED
  BY <1>1, <1>2, GotoTyped DEF LooseType, Begin, Pending, Executing

\* The queue stays exact.
LEMMA QueueStaysExact ==
  ASSUME LooseType, QueueExact, [WorkerNext]_workerVars
  PROVE  QueueExact'
<1> USE DEF LooseType
<1>1. CASE UNCHANGED <<queue, task>>
  BY <1>1 DEF QueueExact, In
<1>2. ASSUME NEW n \in Tasks, ClaimJob(n) PROVE QueueExact'
  <2>1. /\ task'[n].pc = "queued" /\ task[n].pc = "none"
        /\ \A m \in Tasks : m # n => task'[m] = task[m]
    BY <1>2 DEF ClaimJob
  <2>2. /\ Len(queue') = Len(queue) + 1 /\ Len(queue) \in Nat
        /\ \A i \in 1 .. Len(queue) : queue'[i] = queue[i]
        /\ queue'[Len(queue) + 1] = n
    BY <1>2, AppendProperties DEF ClaimJob
  <2>3. \A i \in 1 .. Len(queue) : queue[i] \in Tasks /\ queue[i] # n
    BY <2>1, ElementOfSeq DEF QueueExact
  <2>4. \A i \in 1 .. Len(queue') : task'[queue'[i]].pc = "queued"
    BY <2>1, <2>2, <2>3 DEF QueueExact
  <2>5. \A i, k \in 1 .. Len(queue') : i # k => queue'[i] # queue'[k]
    BY <2>2, <2>3 DEF QueueExact
  <2>6. ASSUME NEW m \in Tasks, task'[m].pc = "queued"
        PROVE  \E i \in 1 .. Len(queue') : queue'[i] = m
    <3>1. CASE m = n
      BY <2>2, <3>1
    <3>2. CASE m # n
      <4>1. PICK i \in 1 .. Len(queue) : queue[i] = m
        BY <2>1, <2>6, <3>2 DEF QueueExact, In
      <4> QED
        BY <2>2, <4>1
    <3> QED
      BY <3>1, <3>2
  <2> QED
    BY <2>4, <2>5, <2>6 DEF QueueExact, In
<1>3. CASE Begin
  <2>1. /\ Head(queue) = queue[1] /\ Len(queue) \in Nat \ {0}
        /\ Len(queue') = Len(queue) - 1
        /\ \A i \in 1 .. Len(queue') : queue'[i] = queue[i + 1]
    BY <1>3, EmptySeq DEF Begin
  <2>2. /\ task'[queue[1]].pc = "gate"
        /\ \A m \in Tasks : m # queue[1] => task'[m] = task[m]
    BY <1>3, <2>1, BeginMoves
  <2>3. \A i \in 1 .. Len(queue) : queue[i] \in Tasks
    BY ElementOfSeq
  <2>4. \A i \in 1 .. Len(queue') :
          i + 1 \in 1 .. Len(queue) /\ queue'[i] = queue[i + 1] /\ i + 1 # 1
    BY <2>1
  <2>5. 1 \in 1 .. Len(queue)
    BY <2>1
  <2>6. \A i \in 1 .. Len(queue') : task'[queue'[i]].pc = "queued"
    BY <2>2, <2>3, <2>4, <2>5 DEF QueueExact
  <2>7. \A i, k \in 1 .. Len(queue') : i # k => queue'[i] # queue'[k]
    BY <2>1, <2>4 DEF QueueExact
  <2>8. ASSUME NEW m \in Tasks, task'[m].pc = "queued"
        PROVE  \E i \in 1 .. Len(queue') : queue'[i] = m
    <3>1. m # queue[1] /\ task[m].pc = "queued"
      BY <2>2, <2>8
    <3>2. PICK i \in 1 .. Len(queue) : queue[i] = m
      BY <3>1 DEF QueueExact, In
    <3>3. i - 1 \in 1 .. Len(queue') /\ queue'[i - 1] = queue[i]
      BY <2>1, <3>1, <3>2
    <3> QED
      BY <3>2, <3>3
  <2> QED
    BY <2>6, <2>7, <2>8 DEF QueueExact, In
<1>4. ASSUME NEW n \in Tasks, Executes(n) PROVE QueueExact'
  <2>1. /\ task[n].pc # "queued" /\ task'[n].pc # "queued" /\ queue' = queue
        /\ \A m \in Tasks : m # n => task'[m] = task[m]
    BY <1>4, ExecutionMoves DEF Executing
  <2>2. \A i \in 1 .. Len(queue) : queue[i] \in Tasks
    BY ElementOfSeq
  <2>3. \A m \in Tasks : task'[m].pc = "queued" <=> task[m].pc = "queued"
    BY <2>1
  <2> QED
    BY <2>1, <2>2, <2>3 DEF QueueExact, In
<1>5. CASE Restart
  <2>1. Len(queue') = 0
    BY <1>5, EmptySeq DEF Restart
  <2>2. \A m \in Tasks : task'[m].pc # "queued"
    BY <1>5 DEF Restart, Pending
  <2> QED
    BY <2>1, <2>2 DEF QueueExact, In
<1> QED
  BY <1>1, <1>2, <1>3, <1>4, <1>5
     DEF WorkerNext, LoopStep, PoolStep, Executes, Poll, ClaimNothing, Drain,
         Exit, Signal, Reconfigure, workerVars

\* The queue is always exact.
LEMMA QueueAlwaysExact == WorkerSpec => []QueueExact
<1>1. WorkerInit => QueueExact
  BY EmptySeq DEF WorkerInit, QueueExact, In, NoTask
<1> QED
  BY <1>1, QueueStaysExact, LooseTypes, PTL DEF WorkerSpec
-----------------------------------------------------------------------------
\* A set of tasks is finite.
LEMMA InIsFinite ==
  ASSUME NEW S
  PROVE  IsFiniteSet(In(S)) /\ Cardinality(In(S)) \in Nat
<1>1. IsFiniteSet(Tasks)
  BY FS_Interval, MaxClaimsAssumption DEF Tasks
<1>2. In(S) \in SUBSET Tasks
  BY DEF In
<1> QED
  BY <1>1, <1>2, FS_Subset, FS_CardinalityType

\* The counter stays exact, and the pool within its size.
LEMMA CounterStaysExact ==
  ASSUME LooseType, QueueExact, InflightExact, [WorkerNext]_workerVars
  PROVE  InflightExact'
<1> DEFINE E == In(Executing)
           R == In({"raised"})
<1>a. /\ IsFiniteSet(E) /\ Cardinality(E) \in Nat
      /\ IsFiniteSet(R) /\ Cardinality(R) \in Nat
  BY InIsFinite
<1>b. Concurrency \in Nat
  BY ConcurrencyAssumption
<1>1. CASE E' = E /\ R' = R /\ UNCHANGED inflight
  BY <1>1 DEF InflightExact
<1>2. ASSUME NEW n \in Tasks, ClaimJob(n)
      PROVE  E' = E /\ R' = R /\ UNCHANGED inflight
  BY <1>2 DEF ClaimJob, In, Executing, LooseType
<1>3. ASSUME NEW n \in Tasks, Refuse(n) \/ Scan(n) \/ ScanEnds(n)
      PROVE  E' = E /\ R' = R /\ UNCHANGED inflight
  BY <1>3, GotoTyped
     DEF Refuse, Scan, ScanEnds, In, Executing, Pending, LooseType
<1>4. CASE Begin
  <2> DEFINE n == Head(queue)
  <2>1. /\ E' = E \cup {n} /\ n \notin E /\ R' = R
        /\ inflight' = inflight + 1
    BY <1>4, BeginMoves DEF In, Executing, Begin
  <2>2. Cardinality(E') = Cardinality(E) + 1
    BY <1>a, <2>1, FS_AddElement
  <2>3. Cardinality(E) < Concurrency
    BY <1>4 DEF Begin, FreeThread
  <2> QED
    BY <1>a, <1>b, <2>1, <2>2, <2>3 DEF InflightExact
<1>5. ASSUME NEW n \in Tasks, Submit(n) PROVE InflightExact'
  <2>1. /\ E' = E \ {n} /\ n \in E /\ R' = R
        /\ inflight' = inflight - 1
    BY <1>5, GotoTyped
       DEF Submit, AfterSubmit, Lowered, In, Executing, Pending, Ended, LooseType
  <2>2. Cardinality(E') = Cardinality(E) - 1
    BY <1>a, <2>1, FS_RemoveElement
  <2> QED
    BY <1>a, <1>b, <2>1, <2>2 DEF InflightExact
<1>6. ASSUME NEW n \in Tasks, Raise(n) PROVE InflightExact'
  <2>1. /\ E' = E \ {n} /\ n \in E
        /\ R' = R \cup {n} /\ n \notin R
        /\ inflight' = inflight
    BY <1>6, GotoTyped DEF Raise, In, Executing, Pending, Ended, LooseType
  <2>2. Cardinality(E') = Cardinality(E) - 1
    BY <1>a, <2>1, FS_RemoveElement
  <2>3. Cardinality(R') = Cardinality(R) + 1
    BY <1>a, <2>1, FS_AddElement
  <2> QED
    BY <1>a, <1>b, <2>1, <2>2, <2>3 DEF InflightExact
<1>7. CASE Restart
  <2>1. E' = {} /\ R' = {} /\ inflight' = 0
    BY <1>7 DEF Restart, In, Executing, Pending
  <2> QED
    BY <1>b, <2>1, FS_EmptySet DEF InflightExact
<1>8. CASE UNCHANGED <<inflight, task>>
  BY <1>8 DEF InflightExact, In
<1> QED
  BY <1>1, <1>2, <1>3, <1>4, <1>5, <1>6, <1>7, <1>8
     DEF WorkerNext, LoopStep, PoolStep, Poll, ClaimNothing, Drain, Exit,
         Signal, Reconfigure, workerVars

\* The counter is the number of executions, and no more than Concurrency run
\* at once.
THEOREM CounterAlwaysExact == WorkerSpec => []InflightExact
<1>1. WorkerInit => InflightExact
  <2> SUFFICES ASSUME WorkerInit PROVE InflightExact
    OBVIOUS
  <2>1. In(Executing) = {} /\ In({"raised"}) = {}
    BY DEF WorkerInit, In, NoTask, Executing
  <2> QED
    BY <2>1, FS_EmptySet, ConcurrencyAssumption DEF WorkerInit, InflightExact
<1> QED
  BY <1>1, CounterStaysExact, LooseTypes, QueueAlwaysExact, PTL DEF WorkerSpec

\* The types of the worker's state, the counter being a natural number.
THEOREM WorkerTypes == WorkerSpec => []WorkerTypeOK
<1>1. LooseType /\ InflightExact => WorkerTypeOK
  <2> SUFFICES ASSUME LooseType, InflightExact PROVE inflight \in Nat
    BY DEF LooseType, WorkerTypeOK
  <2> QED
    BY InIsFinite DEF InflightExact
<1> QED
  BY <1>1, LooseTypes, CounterAlwaysExact, PTL
-----------------------------------------------------------------------------
\* A worker that exits leaves no job unfinished.
THEOREM ExitAlwaysDrained == WorkerSpec => []ExitDrained
<1>1. WorkerInit => ExitDrained
  BY DEF WorkerInit, ExitDrained
<1>2. LooseType /\ QueueExact /\ ExitDrained /\ [WorkerNext]_workerVars
        => ExitDrained'
  <2> SUFFICES ASSUME LooseType, QueueExact, ExitDrained,
                      [WorkerNext]_workerVars, main' = "exited"
               PROVE  In(Pending)' = {}
    BY DEF ExitDrained
  <2>1. CASE Exit
    <3>1. Len(queue) = 0
      BY <2>1, EmptySeq DEF Exit, Drained
    <3>2. In({"queued"}) = {}
      BY <3>1 DEF QueueExact
    <3>3. In(Executing) = {}
      BY <2>1 DEF Exit, Drained
    <3> QED
      BY <2>1, <3>2, <3>3 DEF Exit, In, Pending
  <2>2. CASE main = "exited"
    <3>1. In(Pending) = {}
      BY <2>2 DEF ExitDrained
    <3>2. ~ Begin
      BY <3>1, BeginMoves DEF In, Pending
    <3>3. \A n \in Tasks : ~ Executes(n)
      BY <3>1, ExecutionMoves DEF In, Pending
    <3>4. UNCHANGED task
      BY <2>2, <3>2, <3>3
         DEF WorkerNext, LoopStep, PoolStep, Executes, Poll, ClaimNothing,
             ClaimJob, Drain, Exit, Signal, Reconfigure, Restart, workerVars
    <3> QED
      BY <3>1, <3>4 DEF In
  <2> QED
    BY <2>1, <2>2
       DEF WorkerNext, LoopStep, PoolStep, Poll, ClaimNothing, ClaimJob, Drain,
           Begin, Refuse, Scan, ScanEnds, Submit, Raise, Signal, Reconfigure,
           Restart, workerVars
<1> QED
  BY <1>1, <1>2, LooseTypes, QueueAlwaysExact, PTL DEF WorkerSpec
-----------------------------------------------------------------------------
\* Which stage of an execution each state of a task is.
LEMMA Stages ==
  ASSUME NEW n
  PROVE  /\ task[n].pc = "none" => Progress(n) = "free"
         /\ task[n].pc \in {"queued", "gate", "refused"} => Progress(n) = "assigned"
         /\ task[n].pc \in {"scanning", "reporting"} => Progress(n) = "scanning"
         /\ task[n].pc \in Ended => Progress(n) = "gone"
BY DEF Progress, Ended

\* The same after a step.
LEMMA StagesAfter ==
  ASSUME NEW n
  PROVE  /\ task'[n].pc = "none" => Progress(n)' = "free"
         /\ task'[n].pc \in {"queued", "gate", "refused"} => Progress(n)' = "assigned"
         /\ task'[n].pc \in {"scanning", "reporting"} => Progress(n)' = "scanning"
         /\ task'[n].pc \in Ended => Progress(n)' = "gone"
BY DEF Progress, Ended

\* Each step moves a task one stage on, to its end, or leaves it.
LEMMA StageMoves ==
  ASSUME LooseType, QueueExact, [WorkerNext]_workerVars, NEW n \in Tasks
  PROVE  Progress(n)' \in {Progress(n)} \cup Expected!After(Progress(n))
<1> DEFINE Onward == Progress(n)' \in {Progress(n)} \cup Expected!After(Progress(n))
<1> USE DEF LooseType
<1>1. CASE task'[n].pc = task[n].pc
  BY <1>1 DEF Progress
<1>2. ASSUME NEW m \in Tasks, ClaimJob(m) PROVE Onward
  <2>1. m # n => task'[n] = task[n]
    BY <1>2 DEF ClaimJob
  <2>2. task[m].pc = "none" /\ task'[m].pc = "queued"
    BY <1>2 DEF ClaimJob
  <2> QED
    BY <1>1, <2>1, <2>2, Stages, StagesAfter DEF Expected!After
<1>3. CASE Begin
  <2>1. CASE n = Head(queue)
    BY <1>3, <2>1, BeginMoves, Stages, StagesAfter
  <2> QED
    BY <1>1, <1>3, <2>1, BeginMoves
<1>4. ASSUME NEW m \in Tasks, Executes(m) PROVE Onward
  <2>1. CASE m # n
    BY <1>1, <1>4, <2>1, ExecutionMoves
  <2>2. CASE m = n /\ (Refuse(m) \/ Scan(m) \/ ScanEnds(m))
    <3>1. \/ task[n].pc = "gate" /\ task'[n].pc \in {"refused", "scanning"}
          \/ task[n].pc = "scanning" /\ task'[n].pc = "reporting"
      BY <2>2, GotoTyped DEF Refuse, Scan, ScanEnds, Pending, Executing
    <3> QED
      BY <3>1, Stages, StagesAfter DEF Expected!After
  <2>3. CASE m = n /\ (Submit(m) \/ Raise(m))
    <3>1. task[n].pc \in {"refused", "reporting"} /\ task'[n].pc \in Ended
      BY <2>3, GotoTyped DEF Submit, AfterSubmit, Raise, Ended
    <3> QED
      BY <3>1, Stages, StagesAfter DEF Expected!After
  <2> QED
    BY <1>4, <2>1, <2>2, <2>3 DEF Executes
<1>5. CASE Restart
  <2>1. CASE task[n].pc \in Pending \cup {"raised"}
    <3>1. task'[n].pc \in Ended
      BY <1>5, <2>1 DEF Restart, Ended
    <3>2. Progress(n) \in {"assigned", "scanning", "gone"}
      BY <2>1, Stages DEF Pending, Executing, Ended
    <3> QED
      BY <3>1, <3>2, StagesAfter DEF Expected!After
  <2>2. CASE task[n].pc \notin Pending \cup {"raised"}
    BY <1>1, <1>5, <2>2 DEF Restart
  <2> QED
    BY <2>1, <2>2
<1> QED
  BY <1>1, <1>2, <1>3, <1>4, <1>5
     DEF WorkerNext, LoopStep, PoolStep, Executes, Poll, ClaimNothing, Drain,
         Exit, Signal, Reconfigure, workerVars

\* The worker does with each job what the queue's model expects of a hand-out.
THEOREM WorkerExecutes == WorkerSpec => ImplementsExecution
<1>1. WorkerInit => Expected!Init
  <2> SUFFICES ASSUME WorkerInit PROVE Expected!Init
    OBVIOUS
  <2>1. \A n \in Tasks : Progress(n) = "free"
    BY Stages DEF WorkerInit, NoTask
  <2> QED
    BY <2>1 DEF Expected!Init
<1>2. LooseType /\ QueueExact /\ [WorkerNext]_workerVars => Expected!Next
  BY StageMoves DEF Expected!Next
<1> QED
  BY <1>1, <1>2, LooseTypes, QueueAlwaysExact, PTL
     DEF WorkerSpec, ImplementsExecution, Expected!Spec
=============================================================================
