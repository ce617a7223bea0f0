-------------------------- MODULE RetentionProofs --------------------------
(* Proofs about retention, for every number of scans to keep, set of targets *)
(* and number of rows.                                                       *)
EXTENDS Retention, SequenceTheorems, TLAPS

\* A scan put into a history at its start time is the only new one there.
LEMMA InsertAtMembers ==
  ASSUME NEW S, NEW s \in Seq(S), NEW i \in 1 .. Len(s) + 1, NEW e \in S
  PROVE  /\ InsertAt(s, i, e) \in Seq(S)
         /\ Len(InsertAt(s, i, e)) = Len(s) + 1
         /\ \A k \in 1 .. Len(s) + 1 :
              \/ InsertAt(s, i, e)[k] = e
              \/ \E l \in 1 .. Len(s) : InsertAt(s, i, e)[k] = s[l]
<1> DEFINE A == SubSeq(s, 1, i - 1)
           B == SubSeq(s, i, Len(s))
<1>1. Len(s) \in Nat /\ \A k \in 1 .. Len(s) : s[k] \in S
  BY LenProperties, ElementOfSeq
<1>2. /\ A \in Seq(S) /\ Len(A) = i - 1
      /\ \A k \in 1 .. i - 1 : A[k] = s[k]
  <2>1. \A k \in 1 .. i - 1 : s[k] \in S
    BY <1>1
  <2> QED
    BY <1>1, <2>1, SubSeqProperties
<1>3. /\ B \in Seq(S) /\ Len(B) = Len(s) - i + 1
      /\ \A k \in 1 .. Len(s) - i + 1 : B[k] = s[i + k - 1]
  <2>1. \A k \in i .. Len(s) : s[k] \in S
    BY <1>1
  <2> QED
    BY <1>1, <2>1, SubSeqProperties
<1> DEFINE P == A \o <<e>>
<1>4. /\ P \in Seq(S) /\ Len(P) = i
      /\ \A k \in 1 .. i : P[k] = IF k < i THEN s[k] ELSE e
  BY <1>2
<1>5. InsertAt(s, i, e) = P \o B
  BY DEF InsertAt
<1> HIDE DEF B, P
<1>6. /\ P \o B \in Seq(S)
      /\ Len(P \o B) = Len(s) + 1
      /\ \A k \in 1 .. Len(s) + 1 :
           (P \o B)[k] = IF k <= i THEN P[k] ELSE B[k - i]
  <2>1. /\ P \o B \in Seq(S)
        /\ Len(P \o B) = Len(P) + Len(B)
        /\ \A k \in 1 .. Len(P) + Len(B) :
             (P \o B)[k] = IF k <= Len(P) THEN P[k] ELSE B[k - Len(P)]
    BY <1>3, <1>4, ConcatProperties, Zenon
  <2>2. Len(P) + Len(B) = Len(s) + 1
    BY <1>1, <1>3, <1>4
  <2> QED
    BY <1>4, <2>1, <2>2
<1>7. \A k \in 1 .. Len(s) + 1 :
        (P \o B)[k] = IF k < i THEN s[k] ELSE IF k = i THEN e ELSE s[k - 1]
  BY <1>1, <1>3, <1>4, <1>6
<1>8. ASSUME NEW k \in 1 .. Len(s) + 1
      PROVE  (P \o B)[k] = e \/ \E l \in 1 .. Len(s) : (P \o B)[k] = s[l]
  <2>1. CASE k = i
    BY <1>1, <1>6, <1>7, <2>1
  <2>2. CASE k < i
    <3>1. k \in 1 .. Len(s) /\ (P \o B)[k] = s[k]
      BY <1>1, <1>6, <1>7, <2>2
    <3> QED
      BY <1>6, <3>1
  <2>3. CASE k > i
    <3>1. k - 1 \in 1 .. Len(s) /\ (P \o B)[k] = s[k - 1]
      BY <1>1, <1>6, <1>7, <2>3
    <3> QED
      BY <1>6, <3>1
  <2>4. k = i \/ k < i \/ k > i
    BY <1>1
  <2> QED
    BY <2>1, <2>2, <2>3, <2>4, Zenon
<1> QED
  BY <1>5, <1>6, <1>8, Zenon

\* What is kept of a history is its newest part, and none of it if Keep is 0.
LEMMA KeptMembers ==
  ASSUME NEW S, NEW s \in Seq(S)
  PROVE  /\ Kept(s) \in Seq(S)
         /\ Len(Kept(s)) <= Len(s) /\ Len(Kept(s)) <= Keep
         /\ \A k \in 1 .. Len(Kept(s)) : \E l \in 1 .. Len(s) : Kept(s)[k] = s[l]
         /\ Keep # 0 /\ s # << >> => /\ Kept(s) # << >>
                                     /\ Kept(s)[Len(Kept(s))] = s[Len(s)]
<1>1. /\ Len(s) \in Nat /\ \A k \in 1 .. Len(s) : s[k] \in S
      /\ s # << >> => Len(s) # 0
  BY LenProperties, ElementOfSeq, EmptySeq
<1>2. Keep \in Nat
  BY KeepAssumption
<1>3. CASE Len(s) <= Keep
  BY <1>1, <1>2, <1>3 DEF Kept
<1>4. CASE Len(s) > Keep
  <2> DEFINE f == Len(s) - Keep + 1
             K == SubSeq(s, f, Len(s))
  <2>1. \A k \in f .. Len(s) : s[k] \in S
    BY <1>1, <1>2, <1>4
  <2>2. /\ K \in Seq(S) /\ Len(K) = Keep
        /\ \A k \in 1 .. Keep : K[k] = s[f + k - 1]
    BY <1>1, <1>2, <1>4, <2>1, SubSeqProperties
  <2>3. Kept(s) = K
    BY <1>1, <1>2, <1>4 DEF Kept
  <2>4. \A k \in 1 .. Keep : f + k - 1 \in 1 .. Len(s)
    BY <1>1, <1>2, <1>4
  <2>5. f + Keep - 1 = Len(s)
    BY <1>1, <1>2
  <2> HIDE DEF f, K
  <2>6. Keep # 0 => K # << >>
    BY <1>2, <2>2, EmptySeq
  <2>7. Keep # 0 => K[Keep] = s[Len(s)]
    BY <1>2, <2>2, <2>5
  <2> QED
    BY <1>1, <1>2, <1>4, <2>2, <2>3, <2>4, <2>6, <2>7
<1> QED
  BY <1>1, <1>2, <1>3, <1>4
-----------------------------------------------------------------------------
\* Closing a job leaves its target and the other jobs alone.
LEMMA ClosedKeeps ==
  ASSUME job \in [JobIds -> Job], NEW j \in JobIds, Closed(j)
  PROVE  /\ job' \in [JobIds -> Job]
         /\ job'[j].state = "closed" /\ job'[j].target = job[j].target
         /\ \A k \in JobIds : k # j => job'[k] = job[k]
BY DEF Closed, Job

\* The tables keep their types.
THEOREM RetentionTypes == RetentionSpec => []RetentionTypeOK
<1>1. ASSUME RetentionInit PROVE RetentionTypeOK
  <2>1. job \in [JobIds -> Job]
    BY <1>1 DEF RetentionInit, Job, NoJob
  <2>2. scans \in [Targets -> Seq(JobIds)]
    BY <1>1, EmptySeq DEF RetentionInit
  <2> QED
    BY <1>1, <2>1, <2>2 DEF RetentionInit, RetentionTypeOK
<1>2. RetentionTypeOK /\ [RetentionNext]_retentionVars => RetentionTypeOK'
  <2> SUFFICES ASSUME RetentionTypeOK, [RetentionNext]_retentionVars
               PROVE  RetentionTypeOK'
    OBVIOUS
  <2> USE DEF RetentionTypeOK
  <2>1. CASE UNCHANGED retentionVars
    BY <2>1 DEF retentionVars
  <2>2. ASSUME NEW t \in Targets, CreateTarget(t) \/ DeleteTarget(t)
        PROVE  RetentionTypeOK'
    BY <2>2 DEF CreateTarget, DeleteTarget
  <2>3. ASSUME NEW t \in Targets, Enqueue(t) PROVE RetentionTypeOK'
    BY <2>3 DEF Enqueue, Job
  <2>4. ASSUME NEW j \in JobIds, ResultOk(j) PROVE RetentionTypeOK'
    <3> DEFINE t == job[j].target
    <3>1. job' \in [JobIds -> Job]
      BY <2>4, ClosedKeeps, Zenon DEF ResultOk
    <3>2. PICK i \in 1 .. Len(scans[t]) + 1 :
            scans' = [scans EXCEPT ![t] = InsertAt(scans[t], i, j)]
      BY <2>4, Zenon DEF ResultOk
    <3>3. ASSUME t \in Targets
          PROVE  scans' \in [Targets -> Seq(JobIds)]
      <4>1. InsertAt(scans[t], i, j) \in Seq(JobIds)
        BY <3>3, InsertAtMembers
      <4> QED
        BY <3>2, <4>1
    <3>4. ASSUME t \notin Targets
          PROVE  scans' = scans
      BY <3>2, <3>4
    <3> QED
      BY <2>4, <3>1, <3>3, <3>4 DEF ResultOk
  <2>5. ASSUME NEW j \in JobIds, ResultFailed(j) \/ Refuse(j) \/ Age(j)
        PROVE  RetentionTypeOK'
    BY <2>5 DEF ResultFailed, Refuse, Age, Closed, Job
  <2>6. CASE Prune
    <3>0. NoJob \in Job
      BY DEF Job, NoJob
    <3>1. job' \in [JobIds -> Job]
      BY <2>6, <3>0 DEF Prune
    <3>2. \A t \in Targets : Kept(scans[t]) \in Seq(JobIds)
      BY KeptMembers
    <3>3. scans' \in [Targets -> Seq(JobIds)]
      BY <2>6, <3>2 DEF Prune, KeptScans
    <3> QED
      BY <2>6, <3>1, <3>3 DEF Prune
  <2>7. CASE PruneBlocked
    BY <2>7 DEF PruneBlocked, retentionVars
  <2> QED
    BY <2>1, <2>2, <2>3, <2>4, <2>5, <2>6, <2>7 DEF RetentionNext
<1> QED
  BY <1>1, <1>2, PTL DEF RetentionSpec
-----------------------------------------------------------------------------
\* No step but the prune tick takes a job away or changes its target.
LEMMA JobsStay ==
  ASSUME RetentionTypeOK, NEW j \in JobIds, ~ Absent(j),
         \/ \E t \in Targets : CreateTarget(t) \/ DeleteTarget(t) \/ Enqueue(t)
         \/ \E i \in JobIds : ResultOk(i) \/ ResultFailed(i) \/ Refuse(i) \/ Age(i)
  PROVE  job'[j].state # "absent" /\ job'[j].target = job[j].target
<1> USE DEF RetentionTypeOK, Absent
<1>1. ASSUME NEW t \in Targets, CreateTarget(t) \/ DeleteTarget(t) \/ Enqueue(t)
      PROVE  job'[j] = job[j]
  BY <1>1 DEF CreateTarget, DeleteTarget, Enqueue
<1>2. ASSUME NEW i \in JobIds, Closed(i)
      PROVE  job'[j].state # "absent" /\ job'[j].target = job[j].target
  BY <1>2, ClosedKeeps
<1>3. ASSUME NEW i \in JobIds, Refuse(i) \/ Age(i)
      PROVE  job'[j].state # "absent" /\ job'[j].target = job[j].target
  <2>1. CASE i # j
    BY <1>3, <2>1 DEF Refuse, Age
  <2>2. CASE i = j /\ Refuse(i)
    BY <2>2 DEF Refuse, Job
  <2>3. CASE i = j /\ Age(i)
    BY <2>3 DEF Age, Job
  <2> QED
    BY <1>3, <2>1, <2>2, <2>3
<1> QED
  BY <1>1, <1>2, <1>3 DEF ResultOk, ResultFailed

\* A job that is there by now was there before, unless it was just enqueued.
LEMMA JobsWereThere ==
  ASSUME RetentionTypeOK, NEW i \in JobIds,
         ResultOk(i) \/ ResultFailed(i) \/ Refuse(i) \/ Age(i),
         NEW j \in JobIds, job'[j].state # "absent"
  PROVE  ~ Absent(j)
<1> USE DEF RetentionTypeOK, Absent
<1>1. CASE Closed(i) /\ ~ Absent(i)
  BY <1>1, ClosedKeeps
<1>2. CASE Refuse(i) \/ Age(i)
  BY <1>2 DEF Refuse, Age, Job
<1> QED
  BY <1>1, <1>2 DEF ResultOk, ResultFailed, Reportable

\* The members of a history are jobs that exist, of the history's target.
LEMMA MembersBacked ==
  ASSUME RetentionTypeOK, ReferencesHold, NEW t \in Targets,
         NEW i \in 1 .. Len(scans[t])
  PROVE  /\ scans[t][i] \in JobIds /\ ~ Absent(scans[t][i])
         /\ job[scans[t][i]].target = t
<1>1. scans[t] \in Seq(JobIds)
  BY DEF RetentionTypeOK
<1>2. DOMAIN scans[t] = 1 .. Len(scans[t]) /\ scans[t][i] \in JobIds
  BY <1>1, LenProperties, ElementOfSeq
<1> QED
  BY <1>2 DEF ReferencesHold

\* What ReferencesHold says of the next state.
LEMMA BackedAfter ==
  ASSUME \A j \in JobIds : job'[j].state # "absent" => job'[j].target \in targets',
         \A t \in Targets : scans'[t] \in Seq(JobIds),
         \A t \in Targets : \A i \in 1 .. Len(scans'[t]) :
           /\ job'[scans'[t][i]].state # "absent"
           /\ job'[scans'[t][i]].target = t
  PROVE  ReferencesHold'
<1>1. \A t \in Targets : DOMAIN scans'[t] = 1 .. Len(scans'[t])
  BY LenProperties
<1> QED
  BY <1>1, Zenon DEF ReferencesHold, Absent

\* No row outlives a row it refers to.
THEOREM ReferencesAlwaysHold == RetentionSpec => []ReferencesHold
<1>1. ASSUME RetentionInit PROVE ReferencesHold
  BY <1>1, EmptySeq DEF RetentionInit, ReferencesHold, Absent, NoJob
<1>2. /\ RetentionTypeOK /\ RetentionTypeOK' /\ ReferencesHold
      /\ [RetentionNext]_retentionVars
      => ReferencesHold'
  <2> SUFFICES ASSUME RetentionTypeOK, RetentionTypeOK', ReferencesHold,
                      [RetentionNext]_retentionVars
               PROVE  ReferencesHold'
    OBVIOUS
  <2>0. /\ \A t \in Targets : scans'[t] \in Seq(JobIds)
        /\ \A t \in Targets : scans[t] \in Seq(JobIds)
    BY DEF RetentionTypeOK
  <2>1. CASE UNCHANGED retentionVars
    BY <2>1 DEF retentionVars, ReferencesHold, Absent
  <2>2. ASSUME NEW t \in Targets, CreateTarget(t) \/ DeleteTarget(t)
        PROVE  ReferencesHold'
    BY <2>2 DEF CreateTarget, DeleteTarget, Referenced, ReferencesHold, Absent
  <2>3. ASSUME NEW t \in Targets, Enqueue(t) PROVE ReferencesHold'
    <3>1. \A j \in JobIds : job'[j].state # "absent" => job'[j].target \in targets'
      BY <2>3 DEF Enqueue, ReferencesHold, RetentionTypeOK, Absent
    <3>2. \A u \in Targets : \A i \in 1 .. Len(scans'[u]) :
            /\ job'[scans'[u][i]].state # "absent"
            /\ job'[scans'[u][i]].target = u
      BY <2>3, MembersBacked, JobsStay DEF Enqueue
    <3> QED
      BY <2>0, <3>1, <3>2, BackedAfter
  <2>4. ASSUME NEW j \in JobIds, ResultOk(j) PROVE ReferencesHold'
    <3>0. /\ ~ Absent(j)
          /\ job[j].target \in targets /\ job[j].target \in Targets
      BY <2>4 DEF ResultOk, Reportable, ReferencesHold, RetentionTypeOK
    <3>1. PICK t \in Targets : t = job[j].target
      BY <3>0
    <3>2. \A k \in JobIds : job'[k].state # "absent" => job'[k].target \in targets'
      BY <2>4, JobsWereThere, JobsStay DEF ResultOk, ReferencesHold
    <3>3. PICK i \in 1 .. Len(scans[t]) + 1 :
            scans' = [scans EXCEPT ![t] = InsertAt(scans[t], i, j)]
      BY <2>4, <3>1, Zenon DEF ResultOk
    <3>4. /\ scans'[t] = InsertAt(scans[t], i, j)
          /\ \A u \in Targets : u # t => scans'[u] = scans[u]
      BY <3>1, <3>3 DEF RetentionTypeOK
    <3>5. ASSUME NEW k \in 1 .. Len(scans'[t])
          PROVE  \/ scans'[t][k] = j
                 \/ \E l \in 1 .. Len(scans[t]) : scans'[t][k] = scans[t][l]
      <4>1. scans[t] \in Seq(JobIds)
        BY <2>0
      <4>2. /\ Len(InsertAt(scans[t], i, j)) = Len(scans[t]) + 1
            /\ \A m \in 1 .. Len(scans[t]) + 1 :
                 \/ InsertAt(scans[t], i, j)[m] = j
                 \/ \E l \in 1 .. Len(scans[t]) :
                      InsertAt(scans[t], i, j)[m] = scans[t][l]
        BY <4>1, InsertAtMembers
      <4> QED
        BY <3>4, <4>2, Zenon
    <3>6. ASSUME NEW u \in Targets, NEW k \in 1 .. Len(scans'[u])
          PROVE  /\ job'[scans'[u][k]].state # "absent"
                 /\ job'[scans'[u][k]].target = u
      <4>1. CASE u = t /\ scans'[u][k] = j
        BY <2>4, <3>0, <3>1, <4>1, JobsStay
      <4>2. CASE \E l \in 1 .. Len(scans[u]) : scans'[u][k] = scans[u][l]
        BY <2>4, <4>2, MembersBacked, JobsStay
      <4>3. u # t => \E l \in 1 .. Len(scans[u]) : scans'[u][k] = scans[u][l]
        BY <3>4, Zenon
      <4> QED
        BY <3>5, <4>1, <4>2, <4>3, Zenon
    <3> QED
      BY <2>0, <3>2, <3>6, BackedAfter
  <2>5. ASSUME NEW j \in JobIds, ResultFailed(j) \/ Refuse(j) \/ Age(j)
        PROVE  ReferencesHold'
    <3>1. UNCHANGED <<targets, scans>>
      BY <2>5 DEF ResultFailed, Refuse, Age
    <3>2. \A k \in JobIds : job'[k].state # "absent" => job'[k].target \in targets'
      BY <2>5, <3>1, JobsWereThere, JobsStay DEF ReferencesHold
    <3>3. \A u \in Targets : \A i \in 1 .. Len(scans'[u]) :
            /\ job'[scans'[u][i]].state # "absent"
            /\ job'[scans'[u][i]].target = u
      BY <2>5, <3>1, MembersBacked, JobsStay
    <3> QED
      BY <2>0, <3>2, <3>3, BackedAfter
  <2>6. CASE Prune
    <3>1. \A j \in JobIds : job'[j] = IF Prunable(j) THEN NoJob ELSE job[j]
      BY <2>6 DEF Prune
    <3>2. \A j \in JobIds : job'[j].state # "absent" => job'[j].target \in targets'
      BY <2>6, <3>1 DEF Prune, ReferencesHold, Absent, NoJob
    <3>3. ASSUME NEW t \in Targets, NEW k \in 1 .. Len(scans'[t])
          PROVE  /\ job'[scans'[t][k]].state # "absent"
                 /\ job'[scans'[t][k]].target = t
      <4>1. scans'[t] = KeptScans[t] /\ k \in DOMAIN KeptScans[t]
        BY <2>0, <2>6, LenProperties DEF Prune
      <4>2. scans'[t] = Kept(scans[t]) \/ scans'[t] = scans[t]
        BY <4>1 DEF KeptScans
      <4>3. PICK l \in 1 .. Len(scans[t]) : scans'[t][k] = scans[t][l]
        BY <2>0, <4>2, KeptMembers
      <4>4. /\ scans'[t][k] \in JobIds /\ ~ Absent(scans[t][l])
            /\ job[scans'[t][k]].target = t
        BY <4>3, MembersBacked
      <4>5. scans'[t][k] \in ToSet(KeptScans[t])
        BY <4>1 DEF ToSet
      <4>6. ~ Prunable(scans[t][l])
        BY <2>6, <4>3, <4>4, <4>5 DEF Prune, Blocked
      <4> QED
        BY <3>1, <4>3, <4>4, <4>6 DEF Absent
    <3> QED
      BY <2>0, <3>2, <3>3, BackedAfter
  <2>7. CASE PruneBlocked
    BY <2>1, <2>7 DEF PruneBlocked
  <2> QED
    BY <2>1, <2>2, <2>3, <2>4, <2>5, <2>6, <2>7 DEF RetentionNext
<1> QED
  BY <1>1, <1>2, RetentionTypes, PTL DEF RetentionSpec
-----------------------------------------------------------------------------
\* The newest scan of a target is never pruned away, unless nothing is to be kept.
THEOREM BaseAlwaysKept ==
  ASSUME Keep # 0
  PROVE  RetentionSpec => BaseKept
<1> DEFINE Keeps(t) ==
      scans[t] # << >> =>
        /\ scans'[t] # << >>
        /\ Last(scans'[t]) # Last(scans[t]) => Len(scans'[t]) = Len(scans[t]) + 1
<1>1. ASSUME RetentionTypeOK, [RetentionNext]_retentionVars, NEW t \in Targets
      PROVE  Keeps(t)
  <2>0. scans[t] \in Seq(JobIds)
    BY <1>1 DEF RetentionTypeOK
  <2>1. CASE scans'[t] = scans[t]
    BY <2>1
  <2>2. ASSUME NEW j \in JobIds, ResultOk(j), scans'[t] # scans[t]
        PROVE  Keeps(t)
    <3>1. PICK i \in 1 .. Len(scans[job[j].target]) + 1 :
            scans' = [scans EXCEPT ![job[j].target] =
                        InsertAt(scans[job[j].target], i, j)]
      BY <2>2, Zenon DEF ResultOk
    <3>2. t = job[j].target /\ scans'[t] = InsertAt(scans[t], i, j)
      BY <1>1, <2>2, <3>1 DEF RetentionTypeOK
    <3>3. /\ InsertAt(scans[t], i, j) \in Seq(JobIds)
          /\ Len(InsertAt(scans[t], i, j)) = Len(scans[t]) + 1
      BY <2>0, <3>2, InsertAtMembers
    <3>4. Len(scans[t]) + 1 # 0
      BY <2>0, LenProperties
    <3>5. scans'[t] # << >> /\ Len(scans'[t]) = Len(scans[t]) + 1
      BY <3>2, <3>3, <3>4, EmptySeq
    <3> QED
      BY <3>5
  <2>3. CASE Prune
    <3>1. scans'[t] = Kept(scans[t]) \/ scans'[t] = scans[t]
      BY <2>3 DEF Prune, KeptScans
    <3> QED
      BY <2>0, <2>1, <3>1, KeptMembers DEF Last
  <2> QED
    BY <1>1, <2>1, <2>2, <2>3
       DEF RetentionNext, CreateTarget, DeleteTarget, Enqueue, ResultFailed,
           Refuse, Age, PruneBlocked, retentionVars
<1>2. RetentionTypeOK /\ [RetentionNext]_retentionVars
        => [\A t \in Targets : Keeps(t)]_retentionVars
  BY <1>1
<1> QED
  BY <1>2, RetentionTypes, PTL DEF RetentionSpec, BaseKept
=============================================================================
