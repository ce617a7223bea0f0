------------------------------- MODULE Worker -------------------------------
(***************************************************************************)
(* A worker process: the loop that polls for jobs, the thread pool that    *)
(* executes them and its counter of executions (worker/runner.py,          *)
(* worker/client.py, nmap_runner.run).                                     *)
(*                                                                         *)
(* The loop claims while the counter is below Concurrency; the counter is  *)
(* raised by the pool's thread once it starts, not by the loop.  Each      *)
(* execution checks the hosts against the allowlist before nmap starts.    *)
(* The allowlist comes from settings read once per process.                *)
(***************************************************************************)
EXTENDS Integers, Sequences, FiniteSets

CONSTANTS
  Hosts,
  Concurrency,  \* SCANGRID_WORKER_CONCURRENCY
  MaxClaims     \* bound: jobs the worker is given

ASSUME ConcurrencyAssumption == Concurrency \in Nat \ {0}
ASSUME MaxClaimsAssumption == MaxClaims \in Nat

VARIABLES
  main,        \* where the polling loop is
  stopping,    \* _stop, set by the signal handler
  inflight,    \* _inflight
  queue,       \* jobs submitted to the pool that no thread has taken
  task,        \* each job the worker was given, and how far it has got
  allow,       \* the allowlist in the process's settings
  configured   \* the allowlist in the environment file by now

workerVars == <<main, stopping, inflight, queue, task, allow, configured>>

Tasks == 1 .. MaxClaims

Allowlists == SUBSET Hosts \ {{}}

NoTask == [pc |-> "none", hosts |-> {}]

Executing == {"gate", "refused", "scanning", "reporting"}
Pending == {"queued"} \cup Executing
Ended == {"done", "raised", "lost"}

Task == [pc : {"none"} \cup Pending \cup Ended, hosts : SUBSET Hosts]

In(S) == {n \in Tasks : task[n].pc \in S}

Goto(n, pc) == task' = [task EXCEPT ![n].pc = pc]

WorkerInit == /\ main = "poll"
              /\ stopping = FALSE
              /\ inflight = 0
              /\ queue = << >>
              /\ task = [n \in Tasks |-> NoTask]
              /\ allow \in Allowlists
              /\ configured = allow
-----------------------------------------------------------------------------
(* The polling loop. *)

\* A loop that does not look at _stop.
CanPoll_Deaf == inflight < Concurrency

\* With every slot taken the loop sleeps and looks again.
CanPoll == ~ stopping /\ inflight < Concurrency

Poll == /\ main = "poll"
        /\ CanPoll
        /\ main' = "claim"
        /\ UNCHANGED <<stopping, inflight, queue, task, allow, configured>>

\* The orchestrator has no job, the call fails, or its answer is lost.
ClaimNothing == /\ main = "claim"
                /\ main' = "poll"
                /\ UNCHANGED <<stopping, inflight, queue, task, allow, configured>>

ClaimJob(n) == /\ main = "claim"
               /\ task[n].pc = "none"
               /\ \A m \in Tasks : m < n => task[m].pc # "none"
               /\ \E hosts \in Allowlists :
                    task' = [task EXCEPT ![n] = [pc |-> "queued", hosts |-> hosts]]
               /\ queue' = Append(queue, n)
               /\ main' = "poll"
               /\ UNCHANGED <<stopping, inflight, allow, configured>>

Drain == /\ main = "poll"
         /\ stopping
         /\ main' = "drain"
         /\ UNCHANGED <<stopping, inflight, queue, task, allow, configured>>

\* A shutdown that waits for the running threads alone.
Drained_Running == In(Executing) = {}

\* pool.shutdown(wait=True) lets the threads work off the queue.
Drained == queue = << >> /\ In(Executing) = {}

Exit == /\ main = "drain"
        /\ Drained
        /\ main' = "exited"
        /\ UNCHANGED <<stopping, inflight, queue, task, allow, configured>>
-----------------------------------------------------------------------------
(* One execution, in a thread of the pool. *)

\* A pool that counts the slots by _inflight.
FreeThread_ByCounter == inflight < Concurrency

FreeThread == Cardinality(In(Executing)) < Concurrency

Begin == /\ queue # << >>
         /\ FreeThread
         /\ Goto(Head(queue), "gate")
         /\ queue' = Tail(queue)
         /\ inflight' = inflight + 1
         /\ UNCHANGED <<main, stopping, allow, configured>>

\* A gate that lets a job pass when any of its hosts is authorised.
Passes_Any(n) == task[n].hosts \cap allow # {}

\* assert_hosts_allowed; reload_cache has rebuilt the networks, from settings
\* that are cached for the life of the process.
Passes(n) == task[n].hosts \subseteq allow

Refuse(n) == /\ task[n].pc = "gate"
             /\ ~ Passes(n)
             /\ Goto(n, "refused")
             /\ UNCHANGED <<main, stopping, inflight, queue, allow, configured>>

\* The ping, whatever comes of it, and nmap starts.
Scan(n) == /\ task[n].pc = "gate"
           /\ Passes(n)
           /\ Goto(n, "scanning")
           /\ UNCHANGED <<main, stopping, inflight, queue, allow, configured>>

\* nmap ends, times out or is missing; each way there is a result.
ScanEnds(n) == /\ task[n].pc = "scanning"
               /\ Goto(n, "reporting")
               /\ UNCHANGED <<main, stopping, inflight, queue, allow, configured>>

\* A refused job is not counted down.
Lowered_NotRefused(n) == IF task[n].pc = "refused" THEN inflight ELSE inflight - 1

\* Counted down in a finally block as well.
Lowered_Twice(n) == inflight - 2

Lowered(n) == inflight - 1

\* A submission that failed starts the execution again.
AfterSubmit_Again(n) == "gate"

AfterSubmit(n) == "done"

\* submit returns, whether or not the result has arrived.
Submit(n) == /\ task[n].pc \in {"refused", "reporting"}
             /\ Goto(n, AfterSubmit(n))
             /\ inflight' = Lowered(n)
             /\ UNCHANGED <<main, stopping, queue, allow, configured>>

\* submit raises what it does not catch (a success whose body is no JSON): the
\* pool keeps the exception and the counter is never lowered.
Raise(n) == /\ task[n].pc \in {"refused", "reporting"}
            /\ Goto(n, "raised")
            /\ UNCHANGED <<main, stopping, inflight, queue, allow, configured>>
-----------------------------------------------------------------------------
(* The process and its configuration. *)

\* SIGTERM or SIGINT.
Signal == /\ main # "exited"
          /\ ~ stopping
          /\ stopping' = TRUE
          /\ UNCHANGED <<main, inflight, queue, task, allow, configured>>

Reconfigure == /\ configured' \in Allowlists \ {configured}
               /\ UNCHANGED <<main, stopping, inflight, queue, task, allow>>

\* A new process, after an exit, a kill or a power cut.
Restart == /\ main' = "poll"
           /\ stopping' = FALSE
           /\ inflight' = 0
           /\ queue' = << >>
           /\ task' = [n \in Tasks |-> IF task[n].pc \in Pending \cup {"raised"}
                                       THEN [task[n] EXCEPT !.pc = "lost"]
                                       ELSE task[n]]
           /\ allow' = configured
           /\ UNCHANGED configured

LoopStep == Poll \/ ClaimNothing \/ (\E n \in Tasks : ClaimJob(n)) \/ Drain \/ Exit

PoolStep == \/ Begin
            \/ \E n \in Tasks : Refuse(n) \/ Scan(n) \/ ScanEnds(n) \/ Submit(n) \/ Raise(n)

WorkerNext == LoopStep \/ PoolStep \/ Signal \/ Reconfigure \/ Restart

WorkerSpec == WorkerInit /\ [][WorkerNext]_workerVars

\* The loop and the pool's threads run; nmap has a timeout and so has every
\* call.  Nothing is assumed of signals, restarts or the operator.
WorkerFairness ==
  /\ WF_workerVars(LoopStep)
  /\ WF_workerVars(Begin)
  /\ \A n \in Tasks : WF_workerVars(Refuse(n) \/ Scan(n) \/ ScanEnds(n) \/ Submit(n))

FairWorkerSpec == WorkerSpec /\ WorkerFairness
-----------------------------------------------------------------------------
WorkerTypeOK ==
  /\ main \in {"poll", "claim", "drain", "exited"}
  /\ stopping \in BOOLEAN
  /\ inflight \in Nat
  /\ queue \in Seq(Tasks)
  /\ task \in [Tasks -> Task]
  /\ allow \in Allowlists
  /\ configured \in Allowlists

\* The counter is the number of executions in the pool, plus those an exception
\* cut off, and never more than the pool's size unless some were: a refusal or
\* a failed scan or submission gives its slot back (_execute).
InflightExact ==
  /\ inflight = Cardinality(In(Executing)) + Cardinality(In({"raised"}))
  /\ Cardinality(In(Executing)) <= Concurrency

\* No host outside the process's allowlist is ever scanned, whatever the
\* orchestrator sent (assert_hosts_allowed before run_nmap).
GateHolds == \A n \in In({"scanning", "reporting"}) : task[n].hosts \subseteq allow

\* A worker that stops on a signal leaves no job it was given unfinished.
ExitDrained == main = "exited" => In(Pending) = {}

Progress(n) == CASE task[n].pc = "none" -> "free"
                 [] task[n].pc \in {"queued", "gate", "refused"} -> "assigned"
                 [] task[n].pc \in {"scanning", "reporting"} -> "scanning"
                 [] task[n].pc \in Ended -> "gone"

Expected == INSTANCE Execution WITH
  Runs <- Tasks, progress <- [n \in Tasks |-> Progress(n)]

\* A worker does with a job no more than the queue's model lets it do.
ImplementsExecution == Expected!Spec

\* Every job given to the worker is ended, one way or another.
EveryTaskEnds == \A n \in Tasks : task[n].pc = "queued" ~> task[n].pc \in Ended

\* The worker polls again and again, unless it is told to stop or lost its
\* slots to executions that an exception cut off.
PollsAgain == []<>(\/ main = "claim"
                   \/ stopping
                   \/ Cardinality(In({"raised"})) >= Concurrency)

\* A signal ends the worker, busy or not.
SignalExits == stopping ~> (main = "exited" \/ ~ stopping)
=============================================================================
