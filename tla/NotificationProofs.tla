------------------------- MODULE NotificationProofs -------------------------
(* Proofs about the notify tick, for every number of changes and failures,   *)
(* every set of kinds and of refused kinds and every batch size.             *)
EXTENDS Notification, TLAPS

\* A session that is one has the parts of a session.
LEMMA TickParts ==
  ASSUME tick \in Tick, tick # NoTick
  PROVE  /\ tick = [op |-> "tick", items |-> tick.items, todo |-> tick.todo,
                    done |-> tick.done]
         /\ tick.items \in SUBSET ChangeIds /\ tick.todo \in SUBSET Kinds
         /\ tick.done \in SUBSET ChangeIds
BY DEF Tick

\* A change that is pending is recorded.
LEMMA PendingTyped ==
  ASSUME NotificationTypeOK, NEW i \in ChangeIds, Pending(i)
  PROVE  change[i] \in Recorded /\ change[i].kind \in Kinds
BY DEF NotificationTypeOK, Pending, Recorded, NotRecorded

\* Loading gives a session of pending changes with nothing done yet.
LEMMA LoadIs ==
  ASSUME NotificationTypeOK, TickLoad
  PROVE  /\ tick = NoTick /\ tick' \in Tick /\ tick' # NoTick /\ tick'.done = {}
         /\ \A i \in tick'.items : i \in ChangeIds /\ Pending(i)
         /\ UNCHANGED <<change, told, failures>>
<1>1. Oldest \in SUBSET ChangeIds /\ \A i \in Oldest : Pending(i)
  BY DEF Oldest
<1>2. {change[i].kind : i \in Oldest} \in SUBSET Kinds
  BY <1>1, PendingTyped
<1>3. tick' = [op |-> "tick", items |-> Oldest,
               todo |-> {change[i].kind : i \in Oldest}, done |-> {}]
  BY DEF TickLoad
<1> QED
  BY <1>1, <1>2, <1>3 DEF TickLoad, Tick, NoTick

\* What a send of kind k does: its changes are told of or not, and are done or not.
LEMMA SendIs ==
  ASSUME NotificationTypeOK, NEW k \in Kinds, SendOne(k) \/ SendFails(k)
  PROVE  /\ tick # NoTick /\ tick' # NoTick /\ tick' \in Tick /\ k \in tick.todo
         /\ tick'.items = tick.items /\ tick'.todo = tick.todo \ {k}
         /\ change' = change
         /\ \/ /\ tick'.done = tick.done \cup ItemsOf(k)
               /\ failures' = failures
               /\ \/ ~ Loud(k) /\ told' = told
                  \/ Delivers(k)
            \/ /\ tick'.done = tick.done
               /\ \/ failures' = failures /\ told' = told
                  \/ failures' = failures + 1 /\ (told' = told \/ Delivers(k))
<1>1. tick # NoTick /\ tick \in Tick /\ k \in tick.todo
  BY DEF SendOne, SendFails, NotificationTypeOK
<1>2. ItemsOf(k) \in SUBSET ChangeIds
  BY <1>1, TickParts DEF ItemsOf
<1>3. ASSUME Succeeds(k)
      PROVE  tick' = [op |-> "tick", items |-> tick.items, todo |-> tick.todo \ {k},
                      done |-> tick.done \cup ItemsOf(k)]
  <2>1. PICK items : items = ItemsOf(k)
    OBVIOUS
  <2>2. tick' = [tick EXCEPT !.todo = @ \ {k}, !.done = @ \cup items]
    BY <1>3, <2>1 DEF Succeeds
  <2>3. tick' = [op |-> "tick", items |-> tick.items, todo |-> tick.todo \ {k},
                 done |-> tick.done \cup items]
    <3>1. PICK I, T, D : tick = [op |-> "tick", items |-> I, todo |-> T, done |-> D]
      BY <1>1, TickParts
    <3>2. tick' = [op |-> "tick", items |-> I, todo |-> T \ {k}, done |-> D \cup items]
      BY <2>2, <3>1
    <3> QED
      BY <3>1, <3>2
  <2> QED
    BY <2>1, <2>3
<1>4. ASSUME Fails(k)
      PROVE  tick' = [op |-> "tick", items |-> tick.items, todo |-> tick.todo \ {k},
                      done |-> tick.done]
  BY <1>1, <1>4, TickParts DEF Fails
<1>5. CASE SendQuiet(k) \/ SendDelivered(k)
  <2>1. Succeeds(k)
    BY <1>5 DEF SendQuiet, SendDelivered
  <2>2. tick' \in Tick /\ tick' # NoTick
    BY <1>1, <1>2, <1>3, <2>1, TickParts DEF Tick, NoTick
  <2> QED
    BY <1>1, <1>3, <1>5, <2>1, <2>2 DEF SendQuiet, SendDelivered
<1>6. CASE SendRefused(k) \/ SendLost(k) \/ SendUnsure(k)
  <2>1. Fails(k)
    BY <1>6 DEF SendRefused, SendLost, SendUnsure
  <2>2. tick' \in Tick /\ tick' # NoTick
    BY <1>1, <1>4, <2>1, TickParts DEF Tick, NoTick
  <2> QED
    BY <1>1, <1>4, <1>6, <2>1, <2>2 DEF SendRefused, SendLost, SendUnsure, Failure
<1> QED
  BY <1>5, <1>6 DEF SendOne, SendFails

\* A commit marks the changes that are done and forgets the session.
LEMMA CommitIs ==
  ASSUME NotificationTypeOK, TickCommit
  PROVE  /\ tick # NoTick /\ tick' = NoTick /\ UNCHANGED <<told, failures>>
         /\ change' \in [ChangeIds -> Recorded \cup {NotRecorded}]
         /\ \A i \in ChangeIds :
              IF i \in tick.done
              THEN Pending(i) /\ change'[i].state = "notified"
                   /\ change'[i].loud = change[i].loud
              ELSE change'[i] = change[i]
<1>1. tick # NoTick /\ \A i \in tick.done : i \in ChangeIds /\ Pending(i)
  BY TickParts DEF TickCommit, NotificationTypeOK
<1>2. \A r \in Recorded : /\ [r EXCEPT !.state = "notified"] \in Recorded
                          /\ [r EXCEPT !.state = "notified"].state = "notified"
                          /\ [r EXCEPT !.state = "notified"].loud = r.loud
  BY DEF Recorded
<1>3. \A i \in tick.done : change[i] \in Recorded
  BY <1>1, PendingTyped
<1>4. change' = [i \in ChangeIds |-> IF i \in tick.done
                                     THEN [change[i] EXCEPT !.state = "notified"]
                                     ELSE change[i]]
  BY DEF TickCommit, Marked
<1>5. \A i \in ChangeIds : change[i] \in Recorded \cup {NotRecorded}
  BY DEF NotificationTypeOK
<1>6. \A i \in ChangeIds :
        IF i \in tick.done THEN /\ change'[i] \in Recorded
                                /\ change'[i].state = "notified"
                                /\ change'[i].loud = change[i].loud
        ELSE change'[i] = change[i]
  BY <1>2, <1>3, <1>4
<1>7. change' \in [ChangeIds -> Recorded \cup {NotRecorded}]
  BY <1>2, <1>3, <1>4, <1>5
<1> QED
  BY <1>1, <1>6, <1>7 DEF TickCommit

\* The table and the tick keep their types.
THEOREM NotificationTypes == NotificationSpec => []NotificationTypeOK
<1>1. NotificationInit => NotificationTypeOK
  BY DEF NotificationInit, NotificationTypeOK, Tick
<1>2. NotificationTypeOK /\ [NotificationNext]_notificationVars => NotificationTypeOK'
  <2> SUFFICES ASSUME NotificationTypeOK, [NotificationNext]_notificationVars
               PROVE  NotificationTypeOK'
    OBVIOUS
  <2>1. CASE UNCHANGED notificationVars
    BY <2>1 DEF notificationVars, NotificationTypeOK, Pending
  <2>2. ASSUME NEW i \in ChangeIds, Record(i) PROVE NotificationTypeOK'
    <3>1. PICK r \in Recorded : change' = [change EXCEPT ![i] = r]
      BY <2>2 DEF Record, Recorded
    <3>2. change' \in [ChangeIds -> Recorded \cup {NotRecorded}]
      BY <3>1 DEF NotificationTypeOK
    <3>3. tick # NoTick => \A l \in tick.items : l \in ChangeIds /\ l # i
      BY <2>2, TickParts DEF Record, NotificationTypeOK, Pending, NotRecorded
    <3>4. \A l \in ChangeIds : l # i => change'[l] = change[l]
      BY <3>1 DEF NotificationTypeOK
    <3> QED
      BY <2>2, <3>2, <3>3, <3>4 DEF Record, NotificationTypeOK, Pending
  <2>3. CASE TickLoad
    BY <2>3, LoadIs DEF NotificationTypeOK, Pending
  <2>4. ASSUME NEW k \in Kinds, SendOne(k) \/ SendFails(k) PROVE NotificationTypeOK'
    <3>1. /\ tick # NoTick /\ tick' # NoTick /\ tick' \in Tick
          /\ tick'.items = tick.items /\ change' = change
          /\ failures' \in Nat
          /\ told' = told \/ Delivers(k)
          /\ tick'.done = tick.done \/ tick'.done = tick.done \cup ItemsOf(k)
      BY <2>4, SendIs DEF NotificationTypeOK
    <3>2. told' \in [ChangeIds -> Nat]
      BY <3>1 DEF Delivers, NotificationTypeOK
    <3>3. tick'.done \subseteq tick'.items
      BY <3>1 DEF ItemsOf, NotificationTypeOK
    <3> QED
      BY <3>1, <3>2, <3>3 DEF NotificationTypeOK, Pending
  <2>5. CASE TickCommit
    BY <2>5, CommitIs DEF NotificationTypeOK, Tick
  <2>6. CASE TickAbort
    BY <2>6 DEF TickAbort, Failure, NotificationTypeOK, Tick
  <2> QED
    BY <2>1, <2>2, <2>3, <2>4, <2>5, <2>6 DEF NotificationNext
<1> QED
  BY <1>1, <1>2, PTL DEF NotificationSpec
-----------------------------------------------------------------------------
\* A change that is done in this tick is quiet or was told of: the strengthening
\* that LoudAreTold needs.
DoneAreTold ==
  /\ LoudAreTold
  /\ tick # NoTick => \A i \in tick.done : change[i].loud => told[i] >= 1

\* A change is marked without a digest only if it is below the floor.
THEOREM LoudAreAlwaysTold == NotificationSpec => []LoudAreTold
<1>1. NotificationInit => DoneAreTold
  BY DEF NotificationInit, DoneAreTold, LoudAreTold, NotRecorded
<1>2. NotificationTypeOK /\ DoneAreTold /\ [NotificationNext]_notificationVars
        => DoneAreTold'
  <2> SUFFICES ASSUME NotificationTypeOK, DoneAreTold,
                      [NotificationNext]_notificationVars
               PROVE  DoneAreTold'
    OBVIOUS
  <2>1. CASE UNCHANGED notificationVars
    BY <2>1 DEF notificationVars, DoneAreTold, LoudAreTold
  <2>2. ASSUME NEW i \in ChangeIds, Record(i) PROVE DoneAreTold'
    <3>1. PICK r \in Recorded : r.state = "pending" /\ change' = [change EXCEPT ![i] = r]
      BY <2>2 DEF Record, Recorded
    <3>2. /\ change'[i].state = "pending"
          /\ \A l \in ChangeIds : l # i => change'[l] = change[l]
      BY <3>1 DEF NotificationTypeOK
    <3>3. tick # NoTick => \A l \in tick.done : l \in ChangeIds /\ l # i
      BY <2>2, TickParts DEF Record, NotificationTypeOK, Pending, NotRecorded
    <3> QED
      BY <2>2, <3>2, <3>3 DEF Record, DoneAreTold, LoudAreTold
  <2>3. CASE TickLoad
    BY <2>3, LoadIs DEF DoneAreTold, LoudAreTold
  <2>4. ASSUME NEW k \in Kinds, SendOne(k) \/ SendFails(k) PROVE DoneAreTold'
    <3>1. /\ tick # NoTick /\ tick' # NoTick /\ change' = change
          /\ \/ /\ tick'.done = tick.done \cup ItemsOf(k)
                /\ (~ Loud(k) /\ told' = told) \/ Delivers(k)
             \/ tick'.done = tick.done /\ (told' = told \/ Delivers(k))
      BY <2>4, SendIs
    <3>2. \A i \in ChangeIds :
            told[i] \in Nat /\ told'[i] \in Nat /\ told'[i] >= told[i]
      BY <3>1 DEF Delivers, NotificationTypeOK
    <3>3. \A i \in tick'.done : i \in ChangeIds
      BY <2>4, SendIs, TickParts DEF NotificationTypeOK, Tick
    <3>4. ASSUME NEW i \in ItemsOf(k), change[i].loud, i \in tick'.done,
                 i \notin tick.done
          PROVE  told'[i] >= 1
      BY <3>1, <3>3, <3>4 DEF Loud, Delivers, NotificationTypeOK
    <3>5. \A i \in tick'.done : change[i].loud => told'[i] >= 1
      <4> TAKE i \in tick'.done
      <4>1. CASE i \in tick.done
        BY <3>1, <3>2, <3>3, <4>1 DEF DoneAreTold
      <4>2. CASE i \notin tick.done
        BY <3>1, <3>4, <4>2
      <4> QED
        BY <4>1, <4>2
    <3>6. LoudAreTold'
      <4>1. \A i \in ChangeIds :
              change[i].state = "notified" /\ change[i].loud => told'[i] >= 1
        BY <3>2 DEF DoneAreTold, LoudAreTold
      <4> QED
        BY <3>1, <4>1 DEF LoudAreTold
    <3> QED
      BY <3>1, <3>5, <3>6 DEF DoneAreTold
  <2>5. CASE TickCommit
    BY <2>5, CommitIs DEF DoneAreTold, LoudAreTold
  <2>6. CASE TickAbort
    BY <2>6 DEF TickAbort, Failure, DoneAreTold, LoudAreTold
  <2> QED
    BY <2>1, <2>2, <2>3, <2>4, <2>5, <2>6 DEF NotificationNext
<1>3. DoneAreTold => LoudAreTold
  BY DEF DoneAreTold
<1> QED
  BY <1>1, <1>2, <1>3, NotificationTypes, PTL DEF NotificationSpec
-----------------------------------------------------------------------------
InDone(i) == tick # NoTick /\ i \in tick.done

\* A change that is still to be told of has been told of at most once per failure;
\* the one more is of the tick that marks it.  No kind is done that is still to do:
\* the strengthening that ToldOncePerFailure needs.
ToldByFailures ==
  /\ ToldOncePerFailure
  /\ \A i \in ChangeIds :
       change[i].state # "notified" /\ ~ InDone(i) => told[i] <= failures
  /\ tick # NoTick => \A i \in tick.done : change[i].kind \notin tick.todo

\* A send: what it tells of was still to be told of.
LEMMA SendTells ==
  ASSUME NotificationTypeOK, ToldByFailures, NEW k \in Kinds,
         SendOne(k) \/ SendFails(k)
  PROVE  ToldByFailures'
<1>1. /\ tick # NoTick /\ tick' # NoTick /\ k \in tick.todo
      /\ tick'.todo = tick.todo \ {k} /\ change' = change
      /\ \/ /\ tick'.done = tick.done \cup ItemsOf(k)
            /\ failures' = failures
            /\ told' = told \/ Delivers(k)
         \/ /\ tick'.done = tick.done
            /\ \/ failures' = failures /\ told' = told
               \/ failures' = failures + 1 /\ (told' = told \/ Delivers(k))
  BY SendIs
<1>2. failures \in Nat /\ \A i \in ChangeIds : told[i] \in Nat
  BY DEF NotificationTypeOK
<1>3. ASSUME NEW i \in ChangeIds, i \in ItemsOf(k)
      PROVE  told[i] <= failures
  <2>1. i \notin tick.done /\ change[i].state # "notified"
    BY <1>1, <1>3 DEF ItemsOf, ToldByFailures, NotificationTypeOK, Pending
  <2> QED
    BY <2>1 DEF ToldByFailures, InDone
<1>4. ASSUME NEW i \in ChangeIds
      PROVE  /\ told'[i] <= 1 + failures'
             /\ change[i].state # "notified" /\ i \notin tick'.done
                  => told'[i] <= failures'
  <2>1. told[i] <= 1 + failures
    BY DEF ToldByFailures, ToldOncePerFailure
  <2>2. change[i].state # "notified" /\ i \notin tick.done => told[i] <= failures
    BY <1>1 DEF ToldByFailures, InDone
  <2>3. CASE i \in ItemsOf(k)
    <3>1. told'[i] = told[i] \/ told'[i] = told[i] + 1
      BY <1>1 DEF Delivers
    <3>2. \/ i \in tick'.done /\ failures' = failures
          \/ failures' = failures + 1
          \/ failures' = failures /\ told' = told
      BY <1>1, <2>3
    <3> QED
      BY <1>2, <1>3, <2>3, <3>1, <3>2
  <2>4. CASE i \notin ItemsOf(k)
    <3>1. told'[i] = told[i]
      BY <1>1, <2>4 DEF Delivers
    <3>2. i \in tick.done => i \in tick'.done
      BY <1>1
    <3>3. failures' = failures \/ failures' = failures + 1
      BY <1>1
    <3> QED
      BY <1>2, <2>1, <2>2, <3>1, <3>2, <3>3
  <2> QED
    BY <2>3, <2>4
<1>5. \A i \in tick'.done : change[i].kind \notin tick'.todo
  <2>1. \A i \in tick.done : change[i].kind \notin tick.todo
    BY <1>1 DEF ToldByFailures
  <2>2. \A i \in ItemsOf(k) : change[i].kind = k
    BY DEF ItemsOf
  <2> QED
    BY <1>1, <2>1, <2>2
<1> QED
  BY <1>1, <1>4, <1>5 DEF ToldByFailures, ToldOncePerFailure, InDone

\* An operator reads of a change once, and once more at most for every failure.
THEOREM ToldAtMostOncePerFailure == NotificationSpec => []ToldOncePerFailure
<1>1. NotificationInit => ToldByFailures
  BY DEF NotificationInit, ToldByFailures, ToldOncePerFailure
<1>2. NotificationTypeOK /\ ToldByFailures /\ [NotificationNext]_notificationVars
        => ToldByFailures'
  <2> SUFFICES ASSUME NotificationTypeOK, ToldByFailures,
                      [NotificationNext]_notificationVars
               PROVE  ToldByFailures'
    OBVIOUS
  <2> USE DEF ToldByFailures, ToldOncePerFailure, InDone
  <2>1. CASE UNCHANGED notificationVars
    BY <2>1 DEF notificationVars
  <2>2. ASSUME NEW i \in ChangeIds, Record(i) PROVE ToldByFailures'
    <3>1. PICK r \in Recorded : change' = [change EXCEPT ![i] = r]
      BY <2>2 DEF Record, Recorded
    <3>2. \A l \in ChangeIds : l # i => change'[l] = change[l]
      BY <3>1 DEF NotificationTypeOK
    <3>3. /\ tick # NoTick => \A l \in tick.done : l \in ChangeIds /\ l # i
          /\ told[i] <= failures
      <4>1. tick # NoTick => i \notin tick.items /\ tick.done \subseteq tick.items
        BY <2>2 DEF Record, NotificationTypeOK, Pending, NotRecorded
      <4>2. change[i].state # "notified"
        BY <2>2 DEF Record, NotRecorded
      <4> QED
        BY <4>1, <4>2, TickParts DEF NotificationTypeOK
    <3> QED
      BY <2>2, <3>2, <3>3 DEF Record
  <2>3. CASE TickLoad
    BY <2>3, LoadIs
  <2>4. ASSUME NEW k \in Kinds, SendOne(k) \/ SendFails(k) PROVE ToldByFailures'
    BY <2>4, SendTells
  <2>5. CASE TickCommit
    BY <2>5, CommitIs
  <2>6. CASE TickAbort
    <3>1. /\ tick' = NoTick /\ change' = change /\ told' = told
          /\ failures' = failures + 1
      BY <2>6 DEF TickAbort, Failure
    <3>2. failures \in Nat /\ \A i \in ChangeIds : told[i] \in Nat
      BY DEF NotificationTypeOK
    <3>3. \A i \in ChangeIds : told[i] <= 1 + failures
      OBVIOUS
    <3> QED
      BY <3>1, <3>2, <3>3
  <2> QED
    BY <2>1, <2>2, <2>3, <2>4, <2>5, <2>6 DEF NotificationNext
<1>3. ToldByFailures => ToldOncePerFailure
  BY DEF ToldByFailures
<1> QED
  BY <1>1, <1>2, <1>3, NotificationTypes, PTL DEF NotificationSpec
=============================================================================
