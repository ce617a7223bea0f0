# ScanGrid in TLA+

ScanGrid scans an operator's own networks with nmap on a schedule. One *orchestrator* process
(FastAPI, APScheduler, SQLite) keeps targets, a job queue, the inventory and a change log; any
number of *workers* poll it for jobs over HTTP, run nmap and send the results back. This directory
models the parts of it in which order, concurrency, failure and time matter, checks them with TLC
on small instances, and proves the most important properties with TLAPS for every instance.

Paths below are relative to `src/scangrid/` of the repository unless they start with `docs/`.

1. [The system](#1-the-system)
2. [Modules](#2-modules)
3. [How the models correspond to the code](#3-how-the-models-correspond-to-the-code)
4. [Runs](#4-runs)
5. [Fairness](#5-fairness)
6. [What is proved](#6-what-is-proved)
7. [Where the code and its documentation disagree](#7-where-the-code-and-its-documentation-disagree)
8. [What is not modelled](#8-what-is-not-modelled)
9. [Plan](#9-plan)

## 1. The system

### Components

| Component | Code | State | Operations | Model |
|---|---|---|---|---|
| job queue | `orchestrator/queue.py` | table `scanjob`, `target.last_queued_at` | `enqueue_target`, `claim_next`, `requeue_stale` | `ScanQueue`, `ScanQueueRaces`, `JobLifecycle`, `ScanQueueLifecycle` |
| worker API | `orchestrator/routes_worker.py` | none of its own | `claim`, `mark_running`, `submit_result` | `ScanQueue`, `Inventory`, `Retention` |
| scheduler ticks | `orchestrator/app.py`, `housekeeping.py` | the schedule | enqueue (60 s), enrich (45 s), notify (30 s), prune (6 h), one instance of each at a time | enqueue in `ScanQueue`, prune in `Retention`, enrich in `Enrichment`, notify in `Notification` |
| result ingestion and inventory | `orchestrator/ingest.py` | tables `scan`, `host`, `service`, `change` | `process_result` | `Inventory`, `Ledger`; the job's end in `ScanQueue`, the row's life in `Retention` |
| snapshot diffing | `diffing.py` | none | `snapshot_from_hosts`, `diff_snapshots` | `Diffing` |
| worker loop and pool | `worker/runner.py` | `_stop`, `_inflight`, the thread pool and its queue | `run_forever`, `_execute`, signal handler | `Worker`, `Execution` |
| worker HTTP client | `worker/client.py` | none | `claim`, `mark_running`, `submit`: one attempt each | lost calls in `ScanQueue`, `Worker` |
| nmap runner | `nmap_runner.py` | none | `run_nmap`, `parse_nmap_xml`, `sanitise_args` | what it may return, in `Worker` and `Diffing` |
| allowlist | `allowlist.py` | lru-cached networks | `resolve_spec`, `assert_hosts_allowed`, `reload_cache` | sets of hosts in `ScanQueue`, `Worker` |
| storage | `db.py`, `models.py` | the SQLite file | sessions, commit, rollback, foreign keys | the transaction steps of every module |
| target and scan API | `orchestrator/routes_api.py` | table `target` | create, patch, delete, scan now, preview, lists, mute a finding | the first four in `ScanQueue`, `Retention` |
| CVE enrichment | `orchestrator/enrich.py` | `service.needs_cve`, tables `finding`, `cvecache` | `enrich_batch` | `Enrichment` |
| CVE providers | `cve/` | lru caches, a throttle | `lookup` | the answers a lookup can get and the cache key, in `Enrichment` |
| notifications | `notify.py`, `housekeeping.py` | `change.notified` | `notify_pending_changes`, `send` | `Notification` |
| dashboard | `orchestrator/routes_dashboard.py` | none | pages that read | no |
| command line | `cli.py` | none | starts the processes, `add-target`, `selftest` | no |
| configuration | `config.py` | lru-cached `Settings` | `get_settings` | constants; the cache itself in `Worker` |
| wire schemas | `schemas.py` | none | validation | records of the fields the handlers use |
| authentication | `security.py` | none | token and password comparison | no |
| deployment | `Dockerfile`, `docker-compose.yml`, `deploy/` | none | restarts | a restart at any time in `ScanQueue`, `Inventory`, `Enrichment`, `Worker`, as an abort in `Notification` |

### How they interact

* The **enqueue tick** returns stale jobs to the queue, then inserts a job for every enabled target
  that is due, has no pending job and has at least one address inside the allowlist. `POST
  /api/targets/{id}/scan` does the same for one target, due or not.
* A **worker** polls `claim`. The orchestrator picks the oldest queued job, marks it claimed,
  checks the job's hosts against its allowlist again and answers with the job. The worker submits it
  to its thread pool; a pool thread checks the hosts a third time, pings `running`, runs nmap and
  posts one result. Every call is tried once.
* **Ingestion** of a result inserts the scan, updates hosts and services, compares the snapshot
  with the previous one of the target, records the changes and closes the job, in one transaction.
* **Enrichment** loads a batch of services whose product or version changed, looks each one up in the cache
  table or with the provider, and commits findings, cached answers and cleared flags together.
* **Notification** loads the oldest changes nobody was told of, sends one digest per kind and then commits which
  of them went through.
* **Pruning** deletes old scans and jobs.
* All of them share one SQLite database and nothing else. HTTP handlers run in FastAPI's thread pool,
  ticks in APScheduler's, so two of them may run at the same time.

### What is hard in it

* **Interleaved transactions.** A SELECT takes no lock (pysqlite opens a transaction only at the
  first write), the first INSERT or UPDATE takes the write lock and keeps it until the commit. What a
  handler decided on may be stale when it writes, and it writes by row id.
* **Slow is not dead.** A job whose worker is slow is handed to another one; both report in the end.
* **Lost calls, lost processes.** A claim's answer, a ping or a result may be lost; a worker or the
  orchestrator may die between any two steps. Only the requeue brings a job back.
* **Out-of-order results.** The comparison goes by the worker's start time, ingestion by arrival.
* **Cached configuration.** Both processes read the allowlist once.
* **A lock held over the network.** A batch of lookups takes the write lock at its first finding and keeps it while it
  waits for the provider; what it loaded before may be replaced by then, or results may have to wait for it.
* **An effect outside the transaction.** A digest is sent before the mark that it was sent is committed.
* **References between rows** that live for different times.

### What makes each part correct

* Queue: one pending job per target, one worker per attempt, a bounded number of attempts, closed for
  good, never stuck, never a host out of scope.
* Ingestion: the inventory shows what was seen last; the change log says exactly what has changed.
* Worker: no unauthorised scan, an exact count of slots, nothing left undone at an exit.
* Retention: no dangling reference, the base of the next comparison is kept, history is bounded.
* Enrichment: a finding exists once, belongs to a version that was seen on its service, and none the provider knows is
  missing but for reasons the code logs; every flag is taken down.
* Notification: nothing at or above the floor is dropped, nothing is repeated without a failure, and no change
  waits for ever behind others.

`PROJECT.json` lists the hazards one by one, each with the line where it bites and the properties that
would catch it.

## 2. Modules

| Module | What it is |
|---|---|
| `ScanQueue` | the job table, the handlers as interleaved read and write steps, the hand-outs, failures |
| `ScanQueueRaces` | `ScanQueue` with a history of its races, and what each promise needs to break |
| `JobLifecycle` | abstract: what `docs/ARCHITECTURE.md` ("Job lifecycle") promises |
| `ScanQueueLifecycle` | the refinement mapping from `ScanQueue` to `JobLifecycle` |
| `Diffing` | snapshots and the changes between two of them, as sets |
| `Inventory` | ingestion of results on top of `Diffing`, and its mapping to `Ledger` |
| `Ledger` | abstract: what ingestion promises, with no handler, lock or service row |
| `Enrichment` | `Inventory` with the enrich tick beside it: batch, cache, findings, flags |
| `Notification` | the notify tick, its digests, its marks, failing sinks |
| `Worker` | polling loop, pool, counter, signals, configuration of one worker process |
| `Execution` | abstract: what the queue expects of one hand-out; `Worker` is mapped to it |
| `Retention` | life time of targets, jobs and scans; foreign keys; the prune tick |
| `MCScanQueue`, `MCScanQueueRaces`, `MCInventory`, `MCEnrichment`, `MCNotification`, `MCWorker`, `MCRetention` | instances for TLC |
| `ScanQueueProofs`, `ScanQueueSerialProofs`, `ScanQueueRacesProofs`, `WorkerProofs`, `InventoryProofs`, `RetentionProofs`, `EnrichmentProofs`, `NotificationProofs` | theorems |

`ScanQueue` and `Worker` meet in `Execution`. Its four stages are the values of `run[r].pc` in
`ScanQueue` (`free`, `assigned`, `scanning`, `gone`), with the same steps between them: `Delivered`,
`MarkRead`/`MarkLost`, `ResultRead`, `Lose`. The run `worker` and the theorem `WorkerExecutes` show that a
worker does with a job only what `Execution` allows, so `ScanQueue` may stand in for any number of workers.

`Enrichment` extends `Inventory`: its next-state relation takes every step of ingestion beside its own, with one change:
no result is written while a batch holds the write lock. The proofs follow: `EnrichmentProofs` cites the step lemmas of
`InventoryProofs`. `Notification` stands beside both and knows of a change only when it is committed, its kind and
whether it reaches the floor.

## 3. How the models correspond to the code

### ScanQueue

| Variable | Code |
|---|---|
| `job` | rows of `scanjob`: `state`, `target`, the frozen `hosts`, `worker_id`, `attempts`, `claimed_at` (null, fresh or older than the requeue cutoff), `finished_at` set or not |
| `due` | enabled targets whose interval since `last_queued_at` has passed |
| `allow` | the orchestrator's cached allowlist |
| `thread` | what the handler in each thread has loaded and will do next |
| `run` | every hand-out of a job and how far the worker is with it |
| `ingested` | hand-outs whose result became a `Scan` row |

| Actions | Code |
|---|---|
| `ScanNowRead`, `ScanNowWrite` | `scan_now`, `enqueue_target(force=True)` |
| `TickRead`, `RequeueWrite`, `TickSkip`, `TickPick`, `TickWrite`, `TickEnd` | `enqueue_due_targets` with `requeue_stale` and `enqueue_target` |
| `ClaimSelect`, `ClaimRecheck`, `ClaimGrant`, `ClaimRefuse` | `claim_next` and the allowlist check of `claim` |
| `MarkRead`, `MarkWrite`, `MarkLost` | `mark_running` and the client's ping |
| `ResultRead`, `ResultWrite` | `submit_result`, the job's part of `process_result` |
| `Lose` | a result or a worker is lost |
| `BecomesDue`, `Postpone`, `Expire` | time and the operator's edits of a target |
| `Abort`, `Restart` | rollback ("database is locked" after `busy_timeout`, or any error); the process stops and starts, perhaps with another allowlist |

Choices a reader should know:

* A handler is a sequence of read steps and one write step that commits. Everything after the first
  write happens under the write lock, so it is one step; everything before is a step of its own.
* An UPDATE writes the columns the ORM saw change, by row id. That is why `Closed` leaves the state alone
  when the loaded state was already the outcome, and why `Claimed` writes `h.attempts + 1`, not the row's.
* Two SELECTs are collapsed: the tick's SELECT of stale rows and, when there are none, its SELECT of
  targets (`TickRead`). Nothing is written between them and each target is looked at again later.
* Jobs are claimed in the order of `created_at`; ids are given in that order. Ids are not reused here.
* The claim commits before its answer is on the way, as FastAPI does when it ends a dependency with `yield` before it sends the response;
  releases that end it afterwards, which `pyproject.toml` allows too, commit once the worker has been sent the job. A claim whose answer
  is lost, or that is rolled back, is in the model either way; a worker that has a job whose claim was then rolled back is not.
* A job's age is not measured: any claimed job may turn stale at any time (`Expire`). This allows
  more than the code does and covers a wrong clock.
* `SpecHosts` is fixed: a PATCH of a target's spec is not modelled; a narrower allowlist is.
* With one element in `Threads` handlers are serialised, which is what the docstring of `queue.py`
  assumes ("a single orchestrator process serialises writes"). With two or more they interleave.

`ScanQueueRaces` adds one variable, the history `raced`, and changes nothing else: every step of it is a step of `ScanQueue`.
It remembers four kinds of situations, each a pair of handlers between their reads and their writes: two claims of one job
(`TwoClaims`), two handlers about to insert jobs (`TwoEnqueues`), a ping of a job another handler is about to requeue (`LatePing`),
and a handler about to close a job that another one is about to make pending (`LateClose`). Its properties say which promise of
the queue needs which of them to be broken, so they are about every number of threads, where those promises alone hold for one
thread only. `LifecycleUntilRace` says the same of all of them together: up to the first race the queue implements
`JobLifecycle`.

### Diffing and Inventory

`scan`, `changes`, `host` and `svc` are the tables, `ingest` what a thread's `process_result` has loaded.
`IngestRead` is the SELECT of the previous snapshot, `IngestWrite` everything from the INSERT of the scan to
the commit: `_apply_inventory` (`Observed`, `Unseen`, `Inventoried`), then `_record_changes` (`Recorded`,
`Diff`). `IngestAbort` and `IngestRestart` are a rollback and a restart.

A banner is what nmap says of a service: product, version and cpe. The constant `Version` is the part of it that is compared, product
and version, by `diff_snapshots` (whose stored snapshots have no cpe) and by `_apply_inventory` (`Observed`): a cpe that alone is
another is written into the row, raises no flag and is no change. Whatever has no product is the one banner `Unnamed`.
A result lists hosts that are up and ports that are open, because
`parse_nmap_xml` passes on nothing else (`Reported`); `Diff` is defined for any snapshot. Start times
are distinct; the code breaks no tie. Host names, OS guesses, `first_seen`, severities and wording are left out.

`Ledger` keeps the stored results, their changes and what is open, and has one action, `Store`: a result is stored whole, with
the changes from the newest result of its target among some number of those stored before. `ImplementsLedger` maps `Inventory`
to it, `open` being the service rows that are open (`OpenServices`); reading, aborting, restarting and everything
`Enrichment` adds must stutter.

### Enrichment

| Variable | Code |
|---|---|
| `finding` | how many rows of `finding` a service has for a CVE |
| `cache` | the table `cvecache`: under each key no answer, or the one cached |
| `batch` | the session of `enrich_batch`: the banners it loaded, the services still to look up, and its own view of `finding` and `cache`, which no one else sees before the commit |
| `unanswered`, `overtaken` | history only: keys with a lookup that failed; `Version`s whose flag a batch cleared that had loaded another one |

`EnrichSelect` is the SELECT with its LIMIT, which has no ORDER BY, so any `Limit` flagged services may come. `EnrichOne`
looks up one service and writes its findings: `LookupCached` (a fresh answer), `LookupAnswered` (the provider's, then
cached), `LookupOutage` (`NvdApiProvider._get` gives `{}` after three tries, and that is cached), `LookupRaised` (nothing is
cached). `EnrichCommit` writes `needs_cve = 0` by row id and nothing else of the service, since SQLAlchemy updates the
columns that changed; `EnrichAbort` and `EnrichmentRestart` undo the batch. `Locked` holds from the end of the first service
on: the session is flushed by the next query after it.

`QueryKey` is `query_key` of a banner, so of its cpe too, and `Known` what the provider has
for it at or above `cve_min_cvss`. The provider is asked for exactly what the key is made of, so banners with one key have the
same answer (`KnownAssumption`). Whether a cached answer has expired is a free choice. Scores, summaries and the throttle
are left out; the `cve.new` change that comes with each new finding is a `Record` of `Notification`.

### Notification

| Variable | Code |
|---|---|
| `change` | the table `change` by order of `ts`: not there yet, pending or notified; its kind; whether its severity reaches the floor |
| `tick` | the session of `notify_pending_changes`: rows loaded, kinds still to send, rows whose digest went through |
| `told`, `failures` | history only: digests that reached the operator, by change; sends and ticks that failed |

`Record` commits a change, in any order of `ts`, because a row gets its `ts` when it is made and an enrichment batch commits
minutes later. `TickLoad` is the SELECT with order and LIMIT and the grouping by kind. A digest is below the floor
(`SendQuiet`), delivered, refused for what it is (`SendRefused`: Telegram answers 400 to text whose Markdown it cannot
parse, an empty topic fails at once), lost, or delivered with the answer lost (`SendUnsure`). `TickCommit` marks what
succeeded; `TickAbort` is a stop or a failing commit. The kinds a backend refuses for ever are the constant `Broken`. The
backends `none` and `log` never fail and are the special case without failures and broken kinds.

### Worker and Execution

| Variable | Code |
|---|---|
| `main` | where `run_forever` is: before the check of `_inflight`, in `claim`, in `pool.shutdown`, ended |
| `stopping`, `inflight`, `queue` | `_stop`, `_inflight`, the pool's work queue |
| `task` | every job the process was given: `queued`, `gate`, `refused`, `scanning`, `reporting`, then `done`, `raised` or `lost` |
| `allow`, `configured` | the allowlist in the cached settings, and in the environment file |

`Poll`, `ClaimNothing`, `ClaimJob`, `Drain`, `Exit` are the loop; `Begin`, `Refuse`, `Scan`, `ScanEnds`,
`Submit`, `Raise` are `_execute` in a pool thread; `Signal`, `Restart`, `Reconfigure` are the environment.
The counter is raised by the pool's thread, as in the code, so the loop may claim more jobs than there are
threads. `_inflight += 1` is one step: the CPython releases the project supports (3.11 and later) switch threads
at calls and backward jumps, and the statement has neither. The `running` ping is part of `Scan`: its outcome is
ignored. A restart loses what the process held, which is `Lose` of each hand-out in `ScanQueue`.

### Retention

`targets`, `job` and `scans` are three tables; a job keeps its state, its target and how old its
`finished_at` is. A `DELETE` that would leave a dangling reference is not enabled (`DeleteTarget`) or rolls
its whole transaction back (`PruneBlocked`), since `db.py` turns foreign keys on. A late result is accepted
until 30 days after the job finished; every scan has timed out long before.

## 4. Runs

| Run | Instance | Expected | Shows |
|---|---|---|---|
| `queue_serial` | 1 thread, 2 targets, 2 hosts, 1 worker, 2 attempts, 2 jobs, 2 hand-outs | pass | serialised, the queue keeps every promise and implements `JobLifecycle` |
| `queue_threads` | 2 threads, 1 target, 2 hosts, 1 worker, 2 attempts, 2 jobs, 2 hand-outs | pass | what survives every interleaving: coherent rows, a scan behind each done job, a real hand-out behind each claim; for each other promise the only race that breaks it; and the life cycle implemented until the first race |
| `queue_live` | 1 thread, 1 target, 1 host, 1 worker, 2 attempts, 2 jobs, 4 hand-outs | pass | every pending job is closed in the end |
| `inventory` | 2 threads, 2 targets that share 2 hosts, 1 port, 1 version with 2 cpes and no version, 3 scans | pass | open services are those seen last; each scan is compared with one of its own target; where results come in turn, the change log tells the newest state |
| `enrichment` | 1 thread, 1 target, 1 host, 2 ports, 2 versions, one of them with 2 cpes, and no version, 2 CVEs, batches of 2, 2 scans | pass | findings are unique, belong to a banner that was seen, and are complete for a cpe seen with the version but for lookups that failed or were overtaken; no batch disturbs the ledger of results; every flag is taken down |
| `notification` | 3 kinds, one of them always refused, ticks of 2, 3 changes, 2 failures | pass | nothing loud is dropped, repeats are bounded by failures, every change is marked unless refused ones fill a tick |
| `worker` | 2 hosts, 2 pool threads, 3 jobs | pass | counter, gate, drain, refinement of `Execution`, three liveness properties |
| `retention` | 2 targets, 1 scan kept, 3 jobs, 3 scans per target | pass | references hold, the base is kept, history shrinks unless a foreign key forbids it |
| `double_claim` | 2 threads, 1 target, 2 workers, 2 jobs | violation | one attempt handed to two workers |
| `unreclaimable` | same | violation | a running job that no requeue will ever see |
| `empty_snapshot` | 1 thread, 1 target, 1 host, 3 scans | violation | hosts that return after an empty scan are not reported |
| `prune_blocked` | 1 target, 1 scan kept, 2 jobs | violation | the prune tick fails for ever |

### Properties of the passing runs

*Queue, serialised.* `OnePendingPerTarget`, `HandoutsDistinct` (no attempt given out twice),
`HandoutInScope`, `ImplementsLifecycle`.
*Queue, interleaved.* `RowCoherent`, `DoneHasScan`, `ClaimedWasHandedOut`; `HandoutsNeedClaimRace` (the two promises on
hand-outs), `ReclaimNeedsPingRace` (`PendingReclaimable`: a job that is out has a date, so the requeue can find it),
`PendingNeedsEnqueueRace` (one pending job per target), `ReopenNeedsCloseRace` (a closed job stays closed);
`LifecycleUntilRace`.
*Queue, live.* `EveryJobCloses`.
*Inventory.* `OpenIsLastSeen`, `ComparedWithStored` (a comparison may be stale, but it is with a scan of the same target that
was the newest at some moment before), `LogTellsNewest`.
*Enrichment.* `FindingOnce`, `FindingsFromBanner`, `KnownAreFound`, `EveryFlagClears`, `ImplementsLedger`.
*Notification.* `LoudAreTold`, `ToldOncePerFailure`, `EveryChangeMarked`.
*Worker.* `InflightExact`, `GateHolds`, `ExitDrained`, `ImplementsExecution`, `EveryTaskEnds`, `PollsAgain`,
`SignalExits`.
*Retention.* `ReferencesHold`, `BaseKept`, `ShrinksUnlessBlocked`.
Each module has one type invariant besides. Every property of a passing run has a mutant in `PROJECT.json`: a
plausible slip in one definition, written next to it in the module, under which TLC finds the property violated.

### Bounds, and why they are enough

* `MaxAttempts = 2` is the least for which a job is requeued once and exhausted once; `MaxRuns = 2` lets one job use both
  attempts, so that the late result of the first meets every later state of the job, or two jobs one each. In `queue_live`
  `MaxRuns = 4` lets two jobs use both.
* `MaxJobs = 2` lets a target's second job exist while the first is late. A full table stops only the INSERT (`InsertJobs`), not the
  rest of the handler. The two targets of `queue_serial` let one tick insert two jobs.
* Two threads are what every race needs: a reader that writes late and one writer in between; the theorems are about any number.
* Three scans: a base, a change and its undoing, or one late result between two others. Two targets share hosts,
  which is what the inventory must get right and the change log must keep apart.
* Two threads of ingestion: one reads, the other writes, the first writes. `LogTellsNewest` asks that every comparison of the
  target was with what was stored just before; `SerialComparesInTurn` proves that one thread always does that, so the
  condition excludes interleaved results and nothing else.
* Two ports let a batch hold two services, so that one is looked up with the lock held while the other is not yet; two
  versions share a CVE and not the other, and the second has another cpe with a key and a CVE of its own; the fourth banner has
  no product. Two scans are a version, or a cpe, and its change under a batch.
* Three changes of three kinds in ticks of two: a tick with two digests, one change that does not fit, and one or two of the
  broken kind in front. Two failures: a lost send and an abort, or a repeat of either.
* Two pool threads and three jobs: one job has to wait in the pool's queue.
* `Keep = 1` makes every second scan one too many; three scans give a prune more than one to remove.
* Symmetry is used only in runs without liveness: workers and threads, hosts, targets and threads of `Inventory`.
  `retention` and `worker` run without it, and so do `enrichment` and `notification`, which check liveness.

Deadlock is checked in every run but `notification`: time, restarts or ticks go on in each of the systems. In
`notification` nothing is left to do once all of the changes the bound allows are recorded and marked.

## 5. Fairness

* **Queue** (`FairSpec`). Workers poll for ever (`run_forever`) and the scheduler fires for ever, so a claim
  or a tick that is possible again and again is started and one day gets through, although single
  attempts are rolled back or cut off by a restart: strong fairness of `TickRead`, `RequeueWrite`, `ClaimSelect`,
  `ClaimRecheck`, and `ClaimGrant` or `ClaimRefuse`. A started handler ends, by a commit or a rollback, and
  time passes: weak fairness. No worker is assumed ever to report, to ping or to survive. The run has one thread;
  with two, `unreclaimable` shows a job that never closes.
* **Worker** (`FairWorkerSpec`). Weak fairness of the loop, of the pool taking a job, and of each execution's
  steps: `subprocess.run` has a timeout and every HTTP call has one. Nothing is assumed of signals, restarts,
  the operator, or exceptions.
* **Enrichment** (`EnrichmentFairSpec`). The tick fires every 45 seconds: weak fairness of `EnrichSelect`. A lookup ends, by an
  answer or an exception, and a batch is not rolled back for ever: strong fairness of the next lookup at each set of
  services still to do, and of `EnrichCommit`. No lookup is assumed to be answered. Nothing is assumed of workers.
* **Notification** (`NotificationFairSpec`). The tick fires every 30 seconds and every send has a timeout of ten: weak fairness of
  `TickLoad`, of sending the next digest and of `TickCommit`. Failures are bounded by `MaxFailures`: what `EveryChangeMarked`
  says holds from the moment they stop. Kinds in `Broken` go on failing for ever.
* **Retention** (`FairRetentionSpec`). Weak fairness of `Prune`: its tick fires every six hours.

## 6. What is proved

All theorems hold for every value of the constants that satisfies the named assumptions (`SpecHostsAssumption`,
`BoundsAssumption`, `NullAssumption`, and their counterparts in the other modules), so also without the bounds above:
`MaxJobs`, `MaxRuns`, `MaxScans`, `MaxClaims` are arbitrary naturals.

| Theorem | Module | Statement |
|---|---|---|
| `TypeCorrect` | `ScanQueueProofs` | `Spec => []TypeOK` |
| `RowsCoherent` | | `Spec => []RowCoherent` |
| `DoneJobsHaveScans` | | `Spec => []DoneHasScan` |
| `ClaimsWereHandedOut` | | `Spec => []ClaimedWasHandedOut` |
| `HandoutsInScope` | | `Spec => HandoutInScope` |
| `SerialOnePending`, `SerialHandouts`, `SerialAttempts`, `SerialReclaimable` | `ScanQueueSerialProofs` | with one thread: `OnePendingPerTarget`, `HandoutsDistinct`, `AttemptsBounded` (a job is never handed out more often than `MaxAttempts`), `PendingReclaimable` |
| `SerialClosed` | | with one thread: `ClosedStaysClosed` |
| `SerialLifecycle` | | with one thread: `ImplementsLifecycle` |
| `SerialJobsRunOut` | | with one thread: each move of a job leaves it fewer moves, counted in naturals |
| `HandoutsUnlessClaimRace` | `ScanQueueRacesProofs` | `RacesSpec => []HandoutsNeedClaimRace` |
| `HandoutsBoundedUnlessClaimRace` | | until two claims overlap, at most `MaxAttempts` hand-outs of a job exist |
| `ReclaimableUnlessPingRace` | | `RacesSpec => []ReclaimNeedsPingRace` |
| `OnePendingUnlessRace` | | `RacesSpec => []PendingNeedsEnqueueRace` |
| `ClosedUnlessRace` | | `RacesSpec => ReopenNeedsCloseRace` |
| `LifecycleImplementedUntilRace` | | `RacesSpec => LifecycleUntilRace`, for any number of threads |
| `JobsRunOutUntilRace` | | `SerialJobsRunOut` for any number of threads, until the first race |
| `OneThreadNeverRaces` | | with one thread `raced` stays empty, so the conditional promises hold outright |
| `GateAlwaysHolds`, `CounterAlwaysExact`, `ExitAlwaysDrained` | `WorkerProofs` | the three safety invariants of the worker; `WorkerTypes` its types |
| `WorkerExecutes` | | `ImplementsExecution` |
| `OpenIsAlwaysLastSeen` | `InventoryProofs` | `InventorySpec => []OpenIsLastSeen`, for any number of threads; `InventoryTypes` the types |
| `ComparedAlwaysWithStored` | | `InventorySpec => []ComparedWithStored`, for any number of threads |
| `SerialComparesInTurn` | | with one thread every scan is compared with what was stored just before it |
| `LogAlwaysTellsNewest` | | `InventorySpec => []LogTellsNewest`, for any number of threads |
| `DiffSilent` | | two reported snapshots have no changes between them exactly when they have the same versions on the same open ports of the same hosts |
| `InventoryIsLedger` | | `InventorySpec => ImplementsLedger`, for any number of threads |
| `FindingIsOnce`, `FindingsAreFromBanners`, `KnownAreAlwaysFound` | `EnrichmentProofs` | the three safety invariants of enrichment; `EnrichmentTypes` its types |
| `OpenIsLastSeenBesideBatches`, `LogTellsNewestBesideBatches` | | `EnrichmentSpec => []OpenIsLastSeen`, `EnrichmentSpec => []LogTellsNewest` |
| `EnrichmentIsLedger` | | `EnrichmentSpec => ImplementsLedger`: the refinement survives the batches |
| `LoudAreAlwaysTold`, `ToldAtMostOncePerFailure` | `NotificationProofs` | `LoudAreTold`, `ToldOncePerFailure`; `NotificationTypes` the types |
| `ReferencesAlwaysHold`, `BaseAlwaysKept` | `RetentionProofs` | `ReferencesHold`, and `BaseKept` for every `Keep` but 0; `RetentionTypes` the types |

### The arguments

*Queue, any number of threads.* Types come first: a handler's record names rows that exist, because jobs are
never deleted in this module, and a hand-out's job and attempt never change once they are written.
`RowCoherent` is inductive with the types alone: every write step replaces `worker` and `claimedAt`
together or leaves both, whatever the row was. `DoneHasScan` needs to know that a result in a thread came from a hand-out of the
same job (`ResultsFromRuns`); otherwise `ResultWrite` could close a job with another job's scan.
`ClaimedWasHandedOut` follows because `ClaimGrant` writes row and hand-out together and no other step leaves a row
claimed with different values. `HandoutInScope` is read off the one step that assigns.

*Queue, one thread.* None of the four serial invariants is inductive: what a handler loaded must still be true when
it writes. `SerialInv` adds exactly this (`ViewsAccurate`): the claim's loaded `attempts` are the row's and the row is
still queued, the ping's row is still claimed, the rows to be requeued are still out with an attempt left, the result's
row is in the state it was loaded in, the target about to be enqueued still has no pending job; and (`RunsCounted`) that the attempts of a job's hand-outs are no greater than the row's counter, which makes
the next attempt a new one. With one thread no other handler writes between a read and its write, and
`Expire` keeps each of these views. The four theorems read their property off `SerialInv`.

*Queue, which race breaks what.* With more threads a view may be out of date when it is used, so the argument runs the other way:
a view stays accurate until a step of another handler makes it stale, and at that moment both handlers hold what one of
the four situations names. `Always` holds whatever has raced: every handler and hand-out names rows that exist, two enqueue ticks
never run at once (`OneTick`; APScheduler starts one instance of each job), and a situation that is there now is in `raced`
(`RacesNoted`). `LoadSteps` says for each handler that what it holds after a step it either held before or has just
loaded, from a table the step leaves alone. On top of it stands one invariant per promise, each conditional on its race:

* `PingInv`: whoever is about to mark a job running sees a row with a date, because only a requeue takes a date away
  (`DateStays`), and a requeue of the same job at that moment is a `LatePing`.
* `ClaimsInv`: the claim's loaded counter is the row's, and hand-outs are numbered by it. A job being claimed has no date and
  one being requeued has (`ClaimDates`), so a requeue cannot touch the former or a claim the latter; only a second claim
  of the same job changes its counter (`ClaimedRowKept`, `RetriedRowKept`).
* `CloseInv`: whoever is about to make a job pending sees it open, because who closes it at that moment makes a `LateClose`.
* `EnqueueInv`: what a handler is about to insert a job for has no pending job. It needs both conditions: another INSERT
  would be a second enqueue, and a job of that target that is closed may become pending again by a late close only (`TargetStaysFree`).

*How often a job is handed out.* `RunsCounted` numbers the hand-outs of a job from 1 up to its counter, which
`AttemptsBounded` keeps at `MaxAttempts`; `HandoutsDistinct` makes the numbering injective, so there are no more than
`MaxAttempts` of them (`DistinctAreBounded`, with the library's theorem on injections between finite sets).

*Refinement of the life cycle.* `LifeStep(j)` says what one step may do to the row of job `j`: create it, claim it with the next attempt
while it is queued, mark it while it is out, requeue it while it is out with an attempt left, or close it. `RowMoves` shows that each of
these is a move of `JobLifecycle` or leaves the job's phase alone, and `LifecycleStep` that all rows doing one of them make a
step of `JobLifecycle`: a step that moves a job to "out" is a grant (`GrantHandsOut`), so it hands out one job, and the abstract
`OneOpenPerTarget` in the next state is `OnePendingPerTarget'`. What remains is that every row does a `LifeStep`, and this is shown twice: with
one thread from `SerialInv`, and with any number of threads, as long as nothing has raced, from the four invariants above together
(`Unraced`). The second needs that a row's date tells its state (`DateTells`): a row with a date is out or closed, one without is queued
or closed. So a handler that loaded a row, whose date is kept by `PingInv` and `ClaimsInv` and which `CloseInv` says is still open, writes to a row
in the state it expects. A job about to be given up keeps its date, raced or not (`GivenUpDated`).

*Jobs run out.* `MovesLeft` of a row is twice the attempts it has left, one more while it waits, two more while it is out, and 0 when it
is closed. Every move of a job in `JobLifecycle` lowers it (`MovesRunOut`), so no order of late answers, lost workers and
requeues moves a job more than `2 * MaxAttempts + 2` times. This is the part of `EveryJobCloses` that does not need fairness; that a next
move always comes is what TLC checks.

*Worker.* The invariant that carries the rest is that the pool's queue holds each queued job exactly once
(`QueueExact`): only then does `Begin` move a job that is waiting, so that the number of executing jobs and
`inflight` rise together, and only then does an empty queue mean that nothing waits at `Exit`. Cardinalities of the
sets of jobs in a stage come from the library's theorems on finite sets.

*Inventory.* `OpenIsLastSeen` is inductive with the types: appending a scan makes it the last listing of its hosts,
whose rows `Inventoried` has just rewritten, and leaves the last listing of all others. `ComparedWithStored` is not: what a
handler has loaded is used steps later, when other scans have been stored. `LoadedFromStored` says that some number of the stored
scans left what it loaded, which stays true because `Base` of the first `n` scans does not change when another is appended
(`BaseStays`). With one thread that number is all of them (`LoadedFromAll`).

`LogTellsNewest` is proved one result at a time. `DiffTells` is about the algorithm alone: what the changes between two reported
snapshots say of a host or of a port is exactly how the second differs from the first. A result that keeps the three conditions of
the property had them before it as well (`ConditionsBefore`), so its target's log was right until then. The first result of a target is
stored without changes and starts the log (`FirstResultsLog`); one more was compared with the last of those before it
(`ComparedWithLast`), so that by `DiffTells` its changes take the log from that one's snapshot to its own (`NextResultsLog`).

*Ingestion as a ledger.* Only `IngestWrite` is a step of `Ledger`. That its changes are those from the newest snapshot of its target among some
number of the stored results is `LoadedFromStored` (`BaseIsNewest`), the invariant that carries `ComparedWithStored`; that the
rows it writes are the open services of the hosts it lists is `OpenAfterResult`. Beside enrichment the same holds, since
a commit changes neither the state nor the banner of a service row (`CommitRows`). `DiffSilent` needs `DiffMembers` only, which takes a difference apart.

*Enrichment.* A batch carries findings and cached answers that are not committed, so each invariant is stated of the tables
and of the batch alike. `FindingOnce` needs no more. For `FindingsFromBanner` the invariant is `Grounded`: every cached
answer, in the table or in the batch, holds only CVEs known for the banners with its key, and every named banner a row has or a batch loaded was seen on
its service by a stored scan. For `KnownAreFound` it is `Complete`: an answer cached under a key that never failed is the whole answer;
the batch's view has every committed finding; and a service the batch has been through has in that view all that is known
of the banner it was loaded with. What ingestion does to a service during a batch is the same version again, perhaps with another cpe, or a
new one with its flag up, which the commit puts into `overtaken`. The banner loaded is then the one `KnownAreFound` asks for: it has the
version of the row, and `Grounded` says that a scan saw it there. `UnnamedAssumption` is needed once: a service that gets a name gets another version.

*Notification.* `DoneAreTold` extends `LoudAreTold` to the rows a tick is about to mark. `ToldByFailures` says why a change can be
told at most once more than something failed: one that is neither marked nor about to be was told no more often than there were
failures, so the digest that ends its wait is the one extra; and no kind that is done is still to be sent in the same tick.

### Only model-checked

All liveness, under the fairness of section 5: `EveryJobCloses`, `EveryTaskEnds`, `PollsAgain`, `SignalExits`,
`ShrinksUnlessBlocked`, `EveryFlagClears`, `EveryChangeMarked`. Liveness under fairness is outside what the installed provers do.

## 7. Where the code and its documentation disagree

The first four are runs that TLC finds violated; `PROJECT.json` quotes the lines.

1. `double_claim`: `claim_next` looks at the row again and then updates it by id alone; the docstring of `queue.py`
   speaks of a "conditional UPDATE + rowcount check". Two claims that interleave get the same attempt.
2. `unreclaimable`: `mark_running` sets `running` on a row that a requeue has just cleared; `claimed_at` is null,
   so `requeue_stale` never selects it and the target is never enqueued again.
3. `empty_snapshot`: a scan that found nothing leaves an empty snapshot, which is falsy; the next one is treated as the
   first scan of its target and what it finds is not reported.
4. `prune_blocked`: the prune tick deletes jobs older than 30 days while kept scans still refer to them. The foreign
   key makes it fail, and its DELETE of scans is undone with it, at every tick. The instance keeps one scan, which with regular ticks needs 30 days
   without one; with the default of 20, a target scanned weekly or by hand has kept scans that old anyway.

The others have no run of their own:

5. `enqueue_target` checks for a pending job before it takes the lock; its docstring says "unless one is already pending". A manual
   scan and a tick that interleave both insert. `OnePendingPerTarget` is therefore claimed and proved for one thread, and for
   more threads only as long as no two enqueues overlap and no job is closed under a handler that is about to write it.
6. The worker's `reload_cache` rebuilds the networks from settings that are cached for the life of the process;
   `docs/SAFETY.md` says the allowlist is "reloaded from config". `GateHolds` is about the settings the process has
   (`allow`), which lag behind the configured ones (`configured`) until a restart.
7. `docs/ARCHITECTURE.md` has ingestion mark "new/changed services needs_cve" so that they are looked up. A service whose version
   changes while a batch is at work has its flag cleared by that batch and is not looked up until it changes again:
   `KnownAreFound` excepts these (`overtaken`), and those whose lookup failed (`unanswered`).
   Nor is a service looked up whose cpe changes alone: `_apply_inventory` compares product and version (`ingest.py:117`) and then
   writes the cpe (`ingest.py:124`), by which `_lookup_cached` keys and asks (`enrich.py:52`). Its findings stay those of the cpe it had when
   it was looked up. `KnownAreFound` therefore speaks of some cpe a scan saw with the version, not of the one of now, for which it fails
   in the instance of `enrichment`.
8. `config.py`, `.env.example` and the repository's README allow ranges such as `a.b.c.d-e` in the allowlist; `_allow_networks` parses
   networks and addresses only and the orchestrator does not start with one.
9. `scan_history_keep` is "scans kept per target for diffing", and the prune tick spares the newest of them; but `config.py:44` accepts 0, and
   then `offset(0)` (`housekeeping.py:87`) deletes the base of the next comparison as well. `Retention` allows `Keep = 0`; `BaseKept` needs
   another value, which is the assumption of `BaseAlwaysKept`.

## 8. What is not modelled

* What the providers match: `NvdApiProvider` sends the key's parts to the NVD and `OfflineNvdProvider` compares exact
  versions of feed entries (version ranges are ignored, and it looks up by product where the key may be a cpe, so `KnownAssumption` is
  about the API provider). Parsing of feeds and answers, scores, the throttle and its sleeps are left out.
* The wording of digests and the ten lines they print (`LoudAreTold` takes every change of a digest that was delivered for told), and the severity of single changes beyond reaching the floor or not.
* Allowlist arithmetic (CIDRs, ranges, DNS), `sanitise_args` and the parsing of nmap's XML: pure functions
  over strings; here an address is a member of a set and a result is a snapshot.
* Dashboard pages, list routes, `healthz`, statistics, muting a finding: they only read, or set one flag that only they read.
* Authentication: a comparison of two strings without state.
* Command line, logging, packaging, deployment: they start and restart the processes, which the models allow at any time.
* Changes of a target's spec or nmap arguments while a job of it exists; the job keeps what it was created with.
* Limits of 0: `BoundsAssumption` asks for one attempt at least. `config.py` accepts a `job_max_attempts` of 0, which `requeue_stale` would
  treat as 1, since it compares after the claim has counted.
* How many jobs the worker claims beyond its slots: `Worker` has them, waiting in the pool's queue, but nothing in the code bounds them, and no property does.
* Two orchestrator processes on one database, which the documentation excludes.

## 9. Plan

Modelled first was what decides which host is scanned by whom and how often (the queue), then what
becomes of the answer (inventory, retention), with the worker that stands between; then what is made of the inventory
(enrichment) and of the change log (notification). Next:

1. `Notification` composed with `Enrichment`, so that a `cve.new` change is recorded by the commit that stores its finding.
2. `allowlist` and `sanitise_args` as operators over small sets of addresses and tokens, checked against a reference definition.
3. Retention in the queue's module: targets that are deleted between a tick's SELECT and its INSERT.
