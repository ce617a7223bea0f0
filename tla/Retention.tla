----------------------------- MODULE Retention -----------------------------
(***************************************************************************)
(* How long rows live: targets, their jobs and their scans, the foreign    *)
(* keys between them and the prune tick (models.py, routes_api.py,         *)
(* housekeeping.prune_history).  SQLite checks foreign keys (db.py): a     *)
(* DELETE that would leave a row behind without its parent fails, and the  *)
(* whole transaction rolls back.                                           *)
(***************************************************************************)
EXTENDS Integers, Sequences, SequencesExt

CONSTANTS
  Targets,
  Keep,     \* SCANGRID_SCAN_HISTORY_KEEP; SQLite takes a negative OFFSET for 0
  MaxJobs,  \* bound: rows the job table can hold
  MaxScans, \* bound: scans of one target at a time
  NoTarget  \* the target of a row that does not exist

ASSUME KeepAssumption == Keep \in Nat
ASSUME RowsAssumption == MaxJobs \in Nat /\ MaxScans \in Nat
ASSUME NoTargetAssumption == NoTarget \notin Targets

VARIABLES
  targets,  \* the rows of table target
  job,      \* the scanjob table
  scans     \* scans[t]: the job of each scan of t, in the order of their start

retentionVars == <<targets, job, scans>>

JobIds == 1 .. MaxJobs

\* finished: finished_at, against the 30 days of prune_history.
Job == [state : {"absent", "pending", "closed"},
        target : Targets \cup {NoTarget}, finished : {"null", "recent", "old"}]

NoJob == [state |-> "absent", target |-> NoTarget, finished |-> "null"]

Absent(j) == job[j].state = "absent"

\* A state that neither the prune tick nor the API knows.
Closed_Failed(j) ==
  job' = [job EXCEPT ![j].state = "failed", ![j].finished = "recent"]

Closed(j) == job' = [job EXCEPT ![j].state = "closed", ![j].finished = "recent"]

RetentionInit ==
  /\ targets = {}
  /\ job = [j \in JobIds |-> NoJob]
  /\ scans = [t \in Targets |-> << >>]

CreateTarget(t) == /\ t \notin targets
                   /\ targets' = targets \cup {t}
                   /\ UNCHANGED <<job, scans>>

\* Foreign keys declared but not enforced.
Referenced_Never(t) == FALSE

\* A job or a scan of t exists.
Referenced(t) == \/ scans[t] # << >>
                 \/ \E j \in JobIds : ~ Absent(j) /\ job[j].target = t

\* Refused with an error while anything refers to the row.
DeleteTarget(t) == /\ t \in targets
                   /\ ~ Referenced(t)
                   /\ targets' = targets \ {t}
                   /\ UNCHANGED <<job, scans>>

Enqueue(t) ==
  /\ t \in targets
  /\ \A j \in JobIds : ~ (job[j].state = "pending" /\ job[j].target = t)
  /\ \E j \in JobIds :
       /\ Absent(j)
       /\ \A i \in JobIds : i < j => ~ Absent(i)
       /\ job' = [job EXCEPT ![j] = [state |-> "pending", target |-> t,
                                     finished |-> "null"]]
  /\ UNCHANGED <<targets, scans>>

\* A worker may still report on j: long before 30 days its scan has timed out.
Reportable(j) == ~ Absent(j) /\ job[j].finished # "old"

\* A successful result, the first for its job or a late one: one more scan,
\* which may have started before others that are already there.
ResultOk(j) ==
  LET t == job[j].target IN
  /\ Reportable(j)
  /\ Len(scans[t]) < MaxScans
  /\ \E i \in 1 .. Len(scans[t]) + 1 :
       scans' = [scans EXCEPT ![t] = InsertAt(@, i, j)]
  /\ Closed(j)
  /\ UNCHANGED targets

\* A failed result, or too many attempts.
ResultFailed(j) == /\ Reportable(j)
                   /\ Closed(j)
                   /\ UNCHANGED <<targets, scans>>

\* A claim refused by the allowlist closes the job without a finished_at.
Refuse(j) == /\ job[j].state = "pending"
             /\ job' = [job EXCEPT ![j].state = "closed"]
             /\ UNCHANGED <<targets, scans>>

\* 30 days pass since the job finished.
Age(j) == /\ job[j].finished = "recent"
          /\ job' = [job EXCEPT ![j].finished = "old"]
          /\ UNCHANGED <<targets, scans>>

\* Sorted the wrong way round.
Kept_Oldest(s) == SubSeq(s, 1, IF Len(s) < Keep THEN Len(s) ELSE Keep)

\* One scan too many.
Kept_OneMore(s) == IF Len(s) <= Keep + 1 THEN s ELSE SubSeq(s, Len(s) - Keep, Len(s))

Kept(s) == IF Len(s) <= Keep THEN s ELSE SubSeq(s, Len(s) - Keep + 1, Len(s))

KeptScans == [t \in Targets |-> IF t \in targets THEN Kept(scans[t]) ELSE scans[t]]

Prunable(j) == job[j].state = "closed" /\ job[j].finished = "old"

Blocked_Never == FALSE

\* A scan that is kept refers to a job that would go.
Blocked == \E t \in Targets, j \in JobIds :
             Prunable(j) /\ j \in ToSet(KeptScans[t])

\* Scans first, then jobs, in one transaction.
Prune == /\ ~ Blocked
         /\ scans' = KeptScans
         /\ job' = [j \in JobIds |-> IF Prunable(j) THEN NoJob ELSE job[j]]
         /\ UNCHANGED targets

\* The tick whose DELETE of jobs is refused: its DELETE of scans is undone too.
PruneBlocked == Blocked /\ UNCHANGED retentionVars

RetentionNext ==
  \/ \E t \in Targets : CreateTarget(t) \/ DeleteTarget(t) \/ Enqueue(t)
  \/ \E j \in JobIds : ResultOk(j) \/ ResultFailed(j) \/ Refuse(j) \/ Age(j)
  \/ Prune
  \/ PruneBlocked

RetentionSpec == RetentionInit /\ [][RetentionNext]_retentionVars

\* The scheduler fires the prune tick every six hours.
FairRetentionSpec == RetentionSpec /\ WF_retentionVars(Prune)
-----------------------------------------------------------------------------
RetentionTypeOK ==
  /\ targets \subseteq Targets
  /\ job \in [JobIds -> Job]
  /\ scans \in [Targets -> Seq(JobIds)]

\* No row outlives the rows it refers to: a job its target, a scan its job and
\* its target, whatever is deleted or pruned in whatever order.
ReferencesHold ==
  /\ \A j \in JobIds : ~ Absent(j) => job[j].target \in targets
  /\ \A t \in Targets : \A i \in DOMAIN scans[t] :
       ~ Absent(scans[t][i]) /\ job[scans[t][i]].target = t

\* The scan of a target that started last, which the next one is compared with,
\* is never pruned away: it is replaced only by one that started later.  This
\* needs a Keep of 1 or more: at 0, which the configuration accepts too, the
\* prune tick deletes the base with all the others.
BaseKept ==
  [][\A t \in Targets :
       scans[t] # << >> =>
         /\ scans'[t] # << >>
         /\ Last(scans'[t]) # Last(scans[t]) => Len(scans'[t]) = Len(scans[t]) + 1
    ]_retentionVars

\* A history that is too long is cut down to Keep scans, unless a scan that
\* stays refers to a job that is due to go.
ShrinksUnlessBlocked ==
  \A t \in Targets : Len(scans[t]) > Keep ~> (Len(scans[t]) <= Keep \/ Blocked)

\* scan_history_keep bounds the history of every target (README.md, "keeps the
\* database from growing forever").
HistoryShrinks ==
  \A t \in Targets : Len(scans[t]) > Keep ~> Len(scans[t]) <= Keep
=============================================================================
