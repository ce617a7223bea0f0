---------------------------- MODULE Notification ----------------------------
(***************************************************************************)
(* The notify tick (housekeeping.notify_pending_changes, notify.py): the   *)
(* oldest un-notified changes are grouped by kind, each kind is sent as    *)
(* one digest, and what was sent is marked notified in one commit at the   *)
(* end.  The digests are out before the marks are stored.                  *)
(*                                                                         *)
(* Changes are numbered in the order of their ts, given when the row is    *)
(* made; they are committed in any order, an enrichment batch minutes      *)
(* later.  The tick takes no lock before its commit.                       *)
(*                                                                         *)
(* The backend is one that sends: "none" and "log" never fail.             *)
(***************************************************************************)
EXTENDS Integers, FiniteSets

CONSTANTS
  Kinds,
  Broken,     \* kinds whose digest the backend never takes
  Batch,      \* changes of a tick: 25
  MaxChanges, \* bound: changes recorded
  MaxFailures \* bound: ticks and sends that fail, but for those of Broken

ASSUME BrokenAssumption == Broken \subseteq Kinds
ASSUME BatchAssumption == Batch \in Nat \ {0}
ASSUME BoundsAssumption == MaxChanges \in Nat /\ MaxFailures \in Nat

VARIABLES
  change,  \* the change table
  tick,    \* the session of notify_pending_changes
  told,    \* history: digests that reached the operator, by the change in them
  failures \* history: sends and ticks that failed

notificationVars == <<change, tick, told, failures>>

ChangeIds == 1 .. MaxChanges

\* loud: the severity reaches notify_min_severity.
Recorded == [state : {"pending", "notified"}, kind : Kinds, loud : BOOLEAN]

NotRecorded == [state |-> "absent"]

NoTick == [op |-> "idle"]

Tick == {NoTick} \cup [op : {"tick"}, items : SUBSET ChangeIds,
                       todo : SUBSET Kinds, done : SUBSET ChangeIds]

NotificationInit == /\ change = [i \in ChangeIds |-> NotRecorded]
                    /\ tick = NoTick
                    /\ told = [i \in ChangeIds |-> 0]
                    /\ failures = 0
-----------------------------------------------------------------------------
\* Ingestion or enrichment commits change i.
Record(i) == /\ change[i] = NotRecorded
             /\ \E k \in Kinds, l \in BOOLEAN :
                  change' = [change EXCEPT ![i] =
                               [state |-> "pending", kind |-> k, loud |-> l]]
             /\ UNCHANGED <<tick, told, failures>>

\* The SELECT forgets the flag.
Pending_Any(i) == change[i] # NotRecorded

Pending(i) == change[i].state = "pending"

\* ORDER BY ts LIMIT.
Oldest == {i \in ChangeIds :
             Pending(i) /\ Cardinality({k \in 1 .. i : Pending(k)}) <= Batch}

TickLoad == /\ tick = NoTick
            /\ Oldest # {}
            /\ tick' = [op |-> "tick", items |-> Oldest,
                        todo |-> {change[i].kind : i \in Oldest}, done |-> {}]
            /\ UNCHANGED <<change, told, failures>>

\* UPDATE change SET notified WHERE kind = k.
ItemsOf_Table(k) == {i \in ChangeIds : change[i] # NotRecorded /\ change[i].kind = k}

ItemsOf(k) == {i \in tick.items : change[i].kind = k}

\* The digest takes the severity of its first line.
Loud_First(k) == \E i \in ItemsOf(k) : change[i].loud /\ \A l \in ItemsOf(k) : i <= l

\* The digest takes the worst severity of its changes.
Loud(k) == \E i \in ItemsOf(k) : change[i].loud

Delivers(k) == told' = [i \in ChangeIds |-> IF i \in ItemsOf(k) THEN told[i] + 1
                                                                ELSE told[i]]

Succeeds(k) == tick' = [tick EXCEPT !.todo = @ \ {k}, !.done = @ \cup ItemsOf(k)]

Fails(k) == tick' = [tick EXCEPT !.todo = @ \ {k}]

Failure == failures < MaxFailures /\ failures' = failures + 1

\* Below the floor: nothing goes out, the changes count as notified.
SendQuiet(k) == /\ ~ Loud(k)
                /\ Succeeds(k)
                /\ UNCHANGED <<change, told, failures>>

SendDelivered(k) == /\ Loud(k)
                    /\ k \notin Broken
                    /\ Delivers(k)
                    /\ Succeeds(k)
                    /\ UNCHANGED <<change, failures>>

\* A digest the backend refuses for what it is, each time.
SendRefused(k) == /\ Loud(k)
                  /\ k \in Broken
                  /\ Fails(k)
                  /\ UNCHANGED <<change, told, failures>>

SendLost(k) == /\ Loud(k)
               /\ k \notin Broken
               /\ Failure
               /\ Fails(k)
               /\ UNCHANGED <<change, told>>

\* The digest got there, but the answer did not come back in time.
SendUnsure(k) == /\ Loud(k)
                 /\ k \notin Broken
                 /\ Failure
                 /\ Delivers(k)
                 /\ Fails(k)
                 /\ UNCHANGED change

SendOne(k) == /\ tick # NoTick
              /\ k \in tick.todo
              /\ SendQuiet(k) \/ SendDelivered(k) \/ SendRefused(k)

SendFails(k) == /\ tick # NoTick
                /\ k \in tick.todo
                /\ SendLost(k) \/ SendUnsure(k)

\* Nothing is marked unless every digest went through.
Marked_AllOrNone == IF tick.done = tick.items THEN tick.done ELSE {}

Marked == tick.done

TickCommit ==
  /\ tick # NoTick
  /\ tick.todo = {}
  /\ change' = [i \in ChangeIds |-> IF i \in Marked
                                    THEN [change[i] EXCEPT !.state = "notified"]
                                    ELSE change[i]]
  /\ tick' = NoTick
  /\ UNCHANGED <<told, failures>>

\* The orchestrator stops, or the commit finds the database locked: no mark is
\* stored, whatever was sent.
TickAbort == /\ tick # NoTick
             /\ Failure
             /\ tick' = NoTick
             /\ UNCHANGED <<change, told>>

NotificationNext ==
  \/ \E i \in ChangeIds : Record(i)
  \/ TickLoad
  \/ \E k \in Kinds : SendOne(k) \/ SendFails(k)
  \/ TickCommit
  \/ TickAbort

NotificationSpec == NotificationInit /\ [][NotificationNext]_notificationVars

\* The tick fires every 30 s for ever and ends by itself: every send times out.
NotificationFairness == /\ WF_notificationVars(TickLoad)
                        /\ WF_notificationVars(\E k \in Kinds : SendOne(k))
                        /\ WF_notificationVars(TickCommit)

NotificationFairSpec == NotificationSpec /\ NotificationFairness
-----------------------------------------------------------------------------
\* The table and the tick keep their types; a tick marks only changes it loaded,
\* never one of the same kind that was recorded meanwhile.
NotificationTypeOK ==
  /\ change \in [ChangeIds -> Recorded \cup {NotRecorded}]
  /\ tick \in Tick
  /\ tick # NoTick => /\ tick.done \subseteq tick.items
                      /\ \A i \in tick.items : Pending(i)
  /\ told \in [ChangeIds -> Nat]
  /\ failures \in Nat

\* A change at or above the floor is never marked notified without having been in
\* a digest that reached the operator, whatever the sends of its tick and of the
\* ticks before it did (send returns True below the floor, too).
LoudAreTold ==
  \A i \in ChangeIds :
    change[i].state = "notified" /\ change[i].loud => told[i] >= 1

\* An operator reads of a change once, and once more at most for every send or
\* tick that failed: at least once, but no repeats of their own accord.
ToldOncePerFailure ==
  \A i \in ChangeIds : told[i] <= 1 + failures

PendingOfBroken == {i \in ChangeIds : Pending(i) /\ change[i].kind \in Broken}

\* When failures stop, every change is marked in the end, also beside a kind whose
\* digests the backend refuses for ever, unless Batch or more changes of such kinds
\* are left: those stay the oldest, and no tick loads any other change.
EveryChangeMarked ==
  []<>(Cardinality(PendingOfBroken) < Batch) =>
    \A i \in ChangeIds :
      Pending(i) /\ change[i].kind \notin Broken ~> ~ Pending(i)
=============================================================================
