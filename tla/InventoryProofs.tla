-------------------------- MODULE InventoryProofs --------------------------
(* Proofs about ingestion, for every number of threads, set of targets,      *)
(* hosts, ports and banners and number of scans.                             *)
EXTENDS Inventory, SequenceTheorems, TLAPS

\* What a result's snapshot holds, host by host and port by port.
LEMMA Listed ==
  ASSUME NEW s \in Snapshot
  PROVE  /\ DOMAIN s \subseteq Hosts
         /\ \A h \in DOMAIN s : s[h] \in HostObs
BY DEF Snapshot

\* The same of a port table.
LEMMA Observation ==
  ASSUME NEW o \in HostObs
  PROVE  /\ o.state \in {"up", "down"} /\ DOMAIN o.ports \subseteq Ports
         /\ \A p \in DOMAIN o.ports : o.ports[p] \in Banners
BY DEF HostObs, PortTable

\* No snapshot is the snapshot that lists no host.
LEMMA NoSnapshotIsOne == NoSnapshot \in Snapshot
<1>1. NoSnapshot \in [{} -> HostObs]
  BY DEF NoSnapshot
<1> QED
  BY <1>1 DEF Snapshot

\* A change about a host and some of its ports is one.
LEMMA ChangedTyped ==
  ASSUME NEW h \in Hosts, NEW P \in SUBSET Ports,
         NEW k \in {"host.up", "host.down", "port.open", "port.close", "service.change"}
  PROVE  Changed(k, h, P) \in Change
BY DEF Changed, Change

\* The hosts of a snapshot and their open ports.
LEMMA OpenTyped ==
  ASSUME NEW s \in Snapshot
  PROVE  /\ Up(s) \subseteq Hosts /\ DOMAIN s \subseteq Hosts
         /\ \A h \in Hosts : Open(s, h) \subseteq Ports
BY Listed, Observation DEF Up, Open

\* A difference of two snapshots is a set of changes.
LEMMA DiffTyped ==
  ASSUME NEW prev \in Snapshot, NEW cur \in Snapshot
  PROVE  Diff(prev, cur) \subseteq Change
<1>1. HostChanges(prev, cur) \subseteq Change
  BY OpenTyped, ChangedTyped DEF HostChanges
<1>2. ASSUME NEW h \in DOMAIN prev \cap DOMAIN cur
      PROVE  PortChanges(prev, cur, h) \subseteq Change
  <2>1. h \in Hosts /\ Open(prev, h) \subseteq Ports /\ Open(cur, h) \subseteq Ports
    BY OpenTyped
  <2>2. \A p \in Ports : /\ Changed("port.open", h, {p}) \in Change
                         /\ Changed("port.close", h, {p}) \in Change
                         /\ Changed("service.change", h, {p}) \in Change
    BY <2>1, ChangedTyped
  <2> QED
    BY <2>1, <2>2 DEF PortChanges
<1> QED
  BY <1>1, <1>2 DEF Diff

\* A service row stays one, seen or not.
LEMMA RowsTyped ==
  ASSUME NEW row \in Service, NEW b \in Banners
  PROVE  /\ Observed(row, b) \in Service /\ Observed(row, b).state = "open"
         /\ Observed(row, b).banner = b
         /\ Unseen(row) \in Service /\ Unseen(row).state # "open"
BY DEF Observed, Unseen, Service

\* The inventory after a result is one of service rows.
LEMMA InventoriedTyped ==
  ASSUME svc \in [Hosts -> [Ports -> Service]], NEW s \in Snapshot
  PROVE  Inventoried(s) \in [Hosts -> [Ports -> Service]]
<1>1. ASSUME NEW h \in Hosts, NEW p \in Ports
      PROVE  (IF h \notin DOMAIN s THEN svc[h][p]
              ELSE IF p \in DOMAIN s[h].ports
                   THEN Observed(svc[h][p], s[h].ports[p])
                   ELSE Unseen(svc[h][p])) \in Service
  <2>1. svc[h][p] \in Service
    OBVIOUS
  <2>2. CASE h \notin DOMAIN s
    BY <2>1, <2>2
  <2>3. CASE h \in DOMAIN s /\ p \in DOMAIN s[h].ports
    <3>1. s[h].ports[p] \in Banners
      BY <2>3, Listed, Observation
    <3> QED
      BY <2>1, <2>3, <3>1, RowsTyped
  <2>4. CASE h \in DOMAIN s /\ p \notin DOMAIN s[h].ports
    BY <2>1, <2>4, RowsTyped, UnnamedAssumption
  <2> QED
    BY <2>2, <2>3, <2>4
<1> QED
  BY <1>1 DEF Inventoried

\* Every step of ingestion keeps the types of the tables.
LEMMA InventoryTypesStep ==
  InventoryTypeOK /\ [InventoryNext]_inventoryVars => InventoryTypeOK'
<1> SUFFICES ASSUME InventoryTypeOK, [InventoryNext]_inventoryVars
             PROVE  InventoryTypeOK'
  OBVIOUS
<1> USE DEF InventoryTypeOK
<1>1. CASE UNCHANGED inventoryVars
  BY <1>1 DEF inventoryVars
<1>2. ASSUME NEW th \in Threads, NEW t \in Targets, NEW s \in Starts,
             NEW snap \in Reported, IngestRead(th, t, s, snap)
      PROVE  InventoryTypeOK'
  <2>1. PICK previous \in {scan[i].snap : i \in ScansOf(t)} \cup {NoSnapshot} :
          ingest' = [ingest EXCEPT ![th] =
            [op |-> "ingest", previous |-> previous,
             scan |-> [target |-> t, started |-> s, snap |-> snap]]]
    BY <1>2, Zenon DEF IngestRead
  <2>2. \A i \in DOMAIN scan : scan[i] \in Scan
    BY LenProperties, ElementOfSeq
  <2>3. previous \in Snapshot
    BY <2>2, NoSnapshotIsOne DEF ScansOf, Scan, Reported
  <2>4. [op |-> "ingest", previous |-> previous,
         scan |-> [target |-> t, started |-> s, snap |-> snap]] \in Ingest
    BY <2>3 DEF Ingest, Scan
  <2>5. ingest' \in [Threads -> Ingest]
    BY <2>1, <2>4
  <2> QED
    BY <1>2, <2>5 DEF IngestRead
<1>3. ASSUME NEW th \in Threads, IngestWrite(th) PROVE InventoryTypeOK'
  <2> DEFINE new == ingest[th].scan
             previous == ingest[th].previous
  <2>1. new \in Scan /\ previous \in Snapshot
    BY <1>3 DEF IngestWrite, Ingest
  <2>2. new.snap \in Snapshot /\ \A h \in DOMAIN new.snap : new.snap[h].state = "up"
    BY <2>1 DEF Scan, Reported
  <2>3. Recorded(previous, new.snap) \in SUBSET Change
    BY <2>1, <2>2, DiffTyped DEF Recorded
  <2>4. /\ scan' = Append(scan, new)
        /\ changes' = Append(changes, Recorded(previous, new.snap))
    BY <1>3 DEF IngestWrite
  <2> HIDE DEF new, previous
  <2>5. /\ scan' \in Seq(Scan) /\ changes' \in Seq(SUBSET Change)
        /\ Len(changes') = Len(scan')
    BY <2>1, <2>3, <2>4, AppendProperties
  <2>6. svc' \in [Hosts -> [Ports -> Service]]
    BY <1>3, <2>2, InventoriedTyped DEF IngestWrite, new
  <2>7. host' \in [Hosts -> {"absent", "up", "down"}]
    BY <1>3, <2>2 DEF IngestWrite, new
  <2>8. ingest' \in [Threads -> Ingest]
    BY <1>3 DEF IngestWrite, Ingest
  <2> QED
    BY <2>5, <2>6, <2>7, <2>8
<1>4. CASE IngestRestart \/ \E th \in Threads : IngestAbort(th)
  BY <1>4 DEF IngestRestart, IngestAbort, Ingest
<1> QED
  BY <1>1, <1>2, <1>3, <1>4 DEF InventoryNext

\* The empty tables have their types.
LEMMA InventoryTypesInit ==
  ASSUME InventoryInit
  PROVE  InventoryTypeOK
<1>1. NoService \in Service
  BY UnnamedAssumption DEF NoService, Service
<1>2. svc \in [Hosts -> [Ports -> Service]]
  BY <1>1 DEF InventoryInit
<1>3. scan \in Seq(Scan) /\ changes \in Seq(SUBSET Change)
  BY EmptySeq DEF InventoryInit
<1>4. ingest \in [Threads -> Ingest] /\ host \in [Hosts -> {"absent", "up", "down"}]
  BY DEF InventoryInit, Ingest
<1>5. Len(changes) = Len(scan)
  BY DEF InventoryInit
<1> QED
  BY <1>2, <1>3, <1>4, <1>5 DEF InventoryTypeOK

\* The tables keep their types.
THEOREM InventoryTypes == InventorySpec => []InventoryTypeOK
BY InventoryTypesInit, InventoryTypesStep, PTL DEF InventorySpec
-----------------------------------------------------------------------------
\* Every step of ingestion keeps what is open what was seen last.
LEMMA OpenIsLastSeenStep ==
  InventoryTypeOK /\ OpenIsLastSeen /\ [InventoryNext]_inventoryVars => OpenIsLastSeen'
<1> SUFFICES ASSUME InventoryTypeOK, OpenIsLastSeen,
                    [InventoryNext]_inventoryVars
             PROVE  OpenIsLastSeen'
  OBVIOUS
<1>1. CASE UNCHANGED <<scan, svc>>
  BY <1>1 DEF OpenIsLastSeen, LastListing
<1>2. ASSUME NEW th \in Threads, IngestWrite(th) PROVE OpenIsLastSeen'
  <2> DEFINE new == ingest[th].scan
  <2>0. PICK n \in Nat : n = Len(scan) + 1
    BY LenProperties DEF InventoryTypeOK
  <2>1. /\ new \in Scan /\ new.snap \in Snapshot
        /\ scan' = Append(scan, new) /\ svc' = Inventoried(new.snap)
    BY <1>2 DEF IngestWrite, Ingest, Scan, Reported, InventoryTypeOK
  <2> HIDE DEF new
  <2>2. /\ Len(scan) \in Nat
        /\ DOMAIN scan = 1 .. Len(scan) /\ DOMAIN scan' = 1 .. n
        /\ \A i \in 1 .. Len(scan) : scan'[i] = scan[i]
        /\ scan'[n] = new
    BY <2>0, <2>1, LenProperties, AppendProperties DEF InventoryTypeOK
  <2>3. ASSUME NEW h \in Hosts, NEW p \in Ports
        PROVE  svc'[h][p].state = "open" <=>
                 \E i \in DOMAIN scan' :
                   /\ LastListing(h, i)'
                   /\ p \in DOMAIN scan'[i].snap[h].ports
                   /\ scan'[i].snap[h].ports[p] = svc'[h][p].banner
    <3>1. CASE h \in DOMAIN new.snap
      <4>1. LastListing(h, n)' /\ \A i \in 1 .. Len(scan) : ~ LastListing(h, i)'
        BY <2>0, <2>2, <3>1 DEF LastListing
      <4>2. svc'[h][p] = IF p \in DOMAIN new.snap[h].ports
                         THEN Observed(svc[h][p], new.snap[h].ports[p])
                         ELSE Unseen(svc[h][p])
        BY <2>1, <3>1 DEF Inventoried
      <4>3. CASE p \in DOMAIN new.snap[h].ports
        <5>1. PICK b \in Banners : b = new.snap[h].ports[p]
          BY <2>1, <3>1, <4>3, Listed, Observation
        <5>2. svc[h][p] \in Service /\ svc'[h][p] = Observed(svc[h][p], b)
          BY <4>2, <4>3, <5>1 DEF InventoryTypeOK
        <5>3. svc'[h][p].state = "open" /\ svc'[h][p].banner = b
          BY <5>2, RowsTyped
        <5>4. n \in DOMAIN scan' /\ scan'[n].snap[h].ports[p] = b
          BY <2>0, <2>2, <5>1
        <5> QED
          BY <2>2, <4>1, <4>3, <5>3, <5>4
      <4>4. CASE p \notin DOMAIN new.snap[h].ports
        <5>1. svc'[h][p].state # "open"
          BY <4>2, <4>4, RowsTyped, UnnamedAssumption DEF InventoryTypeOK
        <5>2. ASSUME NEW i \in DOMAIN scan', LastListing(h, i)'
              PROVE  p \notin DOMAIN scan'[i].snap[h].ports
          BY <2>0, <2>2, <4>1, <4>4, <5>2
        <5> QED
          BY <5>1, <5>2
      <4> QED
        BY <4>3, <4>4
    <3>2. CASE h \notin DOMAIN new.snap
      <4>1. svc'[h][p] = svc[h][p]
        BY <2>1, <3>2 DEF Inventoried
      <4>2. /\ ~ LastListing(h, n)'
            /\ \A i \in 1 .. Len(scan) : LastListing(h, i)' <=> LastListing(h, i)
        BY <2>0, <2>2, <3>2 DEF LastListing
      <4>3. svc[h][p].state = "open" <=>
              \E i \in 1 .. Len(scan) :
                /\ LastListing(h, i)
                /\ p \in DOMAIN scan[i].snap[h].ports
                /\ scan[i].snap[h].ports[p] = svc[h][p].banner
        BY <2>2 DEF OpenIsLastSeen
      <4>4. \A i \in 1 .. n : i = n \/ i \in 1 .. Len(scan)
        BY <2>0, <2>2
      <4>5. \A i \in 1 .. Len(scan) : i \in 1 .. n
        BY <2>0, <2>2
      <4> QED
        BY <2>2, <4>1, <4>2, <4>3, <4>4, <4>5
    <3> QED
      BY <3>1, <3>2
  <2> QED
    BY <2>3 DEF OpenIsLastSeen
<1> QED
  BY <1>1, <1>2
     DEF InventoryNext, IngestRead, IngestAbort, IngestRestart, inventoryVars

\* No service is open and nothing was seen at the start.
LEMMA OpenIsLastSeenInit ==
  ASSUME InventoryInit
  PROVE  OpenIsLastSeen
<1>1. DOMAIN scan = {}
  BY EmptySeq DEF InventoryInit
<1>2. \A h \in Hosts, p \in Ports : svc[h][p].state # "open"
  BY DEF InventoryInit, NoService
<1> QED
  BY <1>1, <1>2 DEF OpenIsLastSeen

\* A service is open exactly when the last result that lists its host shows it.
THEOREM OpenIsAlwaysLastSeen == InventorySpec => []OpenIsLastSeen
BY OpenIsLastSeenInit, InventoryTypes, OpenIsLastSeenStep, PTL DEF InventorySpec
-----------------------------------------------------------------------------
\* What the first n scans leave to compare with does not change with later ones.
LEMMA BaseStays ==
  ASSUME InventoryTypeOK, NEW new \in Scan, scan' = Append(scan, new),
         NEW n \in 0 .. Len(scan), NEW t \in Targets, NEW s
  PROVE  Base(n, t, s)' <=> Base(n, t, s)
<1>1. /\ Len(scan) \in Nat /\ DOMAIN scan = 1 .. Len(scan)
      /\ DOMAIN scan' = 1 .. Len(scan) + 1
      /\ \A i \in 1 .. Len(scan) : scan'[i] = scan[i]
  BY LenProperties, AppendProperties DEF InventoryTypeOK
<1>2. ScansOf(t)' \cap 1 .. n = ScansOf(t) \cap 1 .. n
  BY <1>1 DEF ScansOf
<1>3. \A i \in ScansOf(t) \cap 1 .. n : scan'[i] = scan[i]
  BY <1>1 DEF ScansOf
<1> QED
  BY <1>2, <1>3 DEF Base

\* Nor does what a stored scan was compared with.
LEMMA ComparisonStays ==
  ASSUME InventoryTypeOK, NEW new \in Scan, scan' = Append(scan, new),
         NEW rows \in SUBSET Change, changes' = Append(changes, rows),
         NEW i \in DOMAIN scan, NEW n \in 0 .. i - 1, ComparedAfter(n, i)
  PROVE  ComparedAfter(n, i)'
<1>1. /\ Len(scan) \in Nat /\ DOMAIN scan = 1 .. Len(scan) /\ Len(changes) = Len(scan)
      /\ \A k \in 1 .. Len(scan) : scan'[k] = scan[k] /\ changes'[k] = changes[k]
  BY LenProperties, AppendProperties DEF InventoryTypeOK
<1>2. n \in 0 .. Len(scan) /\ i \in 1 .. Len(scan) /\ 1 .. n \subseteq 1 .. Len(scan)
  BY <1>1
<1>3. PICK s \in {scan[k].snap : k \in 1 .. n} \cup {NoSnapshot} :
        Base(n, scan[i].target, s) /\ changes[i] = Recorded(s, scan[i].snap)
  BY DEF ComparedAfter
<1>4. scan[i].target \in Targets
  <2>1. scan[i] \in Scan
    BY <1>1, <1>2, ElementOfSeq DEF InventoryTypeOK
  <2> QED
    BY <2>1 DEF Scan
<1>5. Base(n, scan[i].target, s)'
  BY <1>1, <1>2, <1>3, <1>4, BaseStays
<1>6. s \in {scan'[k].snap : k \in 1 .. n} \cup {NoSnapshot}
  BY <1>1, <1>2, <1>3
<1> QED
  BY <1>1, <1>2, <1>3, <1>5, <1>6 DEF ComparedAfter

\* What a handler has loaded is what some number of the stored scans left.
Loaded(th, n) == Base(n, ingest[th].scan.target, ingest[th].previous)

\* A handler that has just read loaded what all of the stored scans leave.
LEMMA ReadLoads ==
  ASSUME InventoryTypeOK, NEW th \in Threads, NEW t \in Targets, NEW s \in Starts,
         NEW snap \in Reported, IngestRead(th, t, s, snap)
  PROVE  /\ Loaded(th, Len(scan))'
         /\ \A u \in Threads \ {th} : ingest'[u] = ingest[u]
         /\ scan' = scan /\ changes' = changes
<1>1. PICK previous \in {scan[i].snap : i \in ScansOf(t)} \cup {NoSnapshot} :
        /\ Previous(t, previous)
        /\ ingest' = [ingest EXCEPT ![th] =
             [op |-> "ingest", previous |-> previous,
              scan |-> [target |-> t, started |-> s, snap |-> snap]]]
  BY Zenon DEF IngestRead
<1>2. ingest'[th].previous = previous /\ ingest'[th].scan.target = t
  BY <1>1 DEF InventoryTypeOK
<1>3. ScansOf(t) \cap 1 .. Len(scan) = ScansOf(t)
  BY LenProperties DEF InventoryTypeOK, ScansOf
<1>4. Base(Len(scan), t, previous)
  BY <1>1, <1>3 DEF Previous, Base
<1>5. scan' = scan /\ changes' = changes
  BY DEF IngestRead
<1>6. Base(Len(scan), t, previous)'
  BY <1>4, <1>5 DEF Base, ScansOf
<1> QED
  BY <1>1, <1>2, <1>5, <1>6 DEF Loaded, InventoryTypeOK

\* A handler that writes compares with what it has loaded.
LEMMA WriteCompares ==
  ASSUME InventoryTypeOK, NEW th \in Threads, IngestWrite(th),
         NEW n \in 0 .. Len(scan), Loaded(th, n),
         NEW last, last = Len(scan) + 1
  PROVE  /\ Len(scan) \in Nat
         /\ DOMAIN scan = 1 .. Len(scan) /\ DOMAIN scan' = 1 .. last
         /\ ComparedAfter(n, last)'
         /\ \A i \in DOMAIN scan, k \in Nat :
              k < i /\ ComparedAfter(k, i) => ComparedAfter(k, i)'
<1>1. PICK new \in Scan, previous \in Snapshot :
        ingest[th].scan = new /\ ingest[th].previous = previous
  BY DEF IngestWrite, Ingest, InventoryTypeOK
<1>2. PICK rows \in SUBSET Change : rows = Recorded(previous, new.snap)
  BY <1>1, DiffTyped DEF Recorded, Scan, Reported
<1>3. scan' = Append(scan, new) /\ changes' = Append(changes, rows)
  BY <1>1, <1>2 DEF IngestWrite
<1>4. PICK t \in Targets : t = new.target
  BY <1>1 DEF Scan
<1>5. /\ Len(scan) \in Nat /\ DOMAIN scan = 1 .. Len(scan)
      /\ DOMAIN scan' = 1 .. last
      /\ scan'[last] = new /\ changes'[last] = rows
      /\ \A i \in 1 .. Len(scan) : scan'[i] = scan[i]
  BY <1>1, <1>2, <1>3, LenProperties, AppendProperties DEF InventoryTypeOK
<1>6. Base(n, t, previous)'
  <2>1. Base(n, t, previous)
    BY <1>1, <1>4 DEF Loaded
  <2> QED
    BY <1>3, <2>1, BaseStays
<1>7. ComparedAfter(n, last)'
  <2>1. previous \in {scan'[k].snap : k \in 1 .. n} \cup {NoSnapshot}
    BY <1>6 DEF Base
  <2> QED
    BY <1>2, <1>4, <1>5, <1>6, <2>1 DEF ComparedAfter
<1>8. ASSUME NEW i \in DOMAIN scan, NEW k \in Nat, k < i, ComparedAfter(k, i)
      PROVE  ComparedAfter(k, i)'
  <2>1. k \in 0 .. i - 1
    BY <1>5, <1>8
  <2> QED
    BY <1>1, <1>2, <1>3, <1>8, <2>1, ComparisonStays
<1> QED
  BY <1>5, <1>7, <1>8

\* The inductive invariant: whatever a handler has loaded, some number of the
\* stored scans left it.
LoadedFromStored ==
  \A th \in Threads : ingest[th] # NoIngest => \E n \in 0 .. Len(scan) : Loaded(th, n)

LEMMA ComparedWithStoredStep ==
  InventoryTypeOK /\ LoadedFromStored /\ ComparedWithStored /\ [InventoryNext]_inventoryVars
    => (LoadedFromStored /\ ComparedWithStored)'
<1> SUFFICES ASSUME InventoryTypeOK, LoadedFromStored, ComparedWithStored,
                    [InventoryNext]_inventoryVars
             PROVE  (LoadedFromStored /\ ComparedWithStored)'
  OBVIOUS
<1>1. ASSUME scan' = scan, changes' = changes PROVE ComparedWithStored'
  BY <1>1 DEF ComparedWithStored, ComparedAfter, Base, ScansOf
<1>2. ASSUME scan' = scan, NEW u \in Threads, ingest'[u] = ingest[u],
             ingest'[u] # NoIngest
      PROVE  \E n \in 0 .. Len(scan') : Loaded(u, n)'
  BY <1>2 DEF LoadedFromStored, Loaded, Base, ScansOf
<1>3. CASE UNCHANGED inventoryVars
  BY <1>1, <1>2, <1>3 DEF inventoryVars, LoadedFromStored
<1>4. ASSUME NEW th \in Threads, NEW t \in Targets, NEW s \in Starts,
             NEW snap \in Reported, IngestRead(th, t, s, snap)
      PROVE  (LoadedFromStored /\ ComparedWithStored)'
  <2>1. /\ Loaded(th, Len(scan))' /\ scan' = scan /\ changes' = changes
        /\ \A u \in Threads \ {th} : ingest'[u] = ingest[u]
    BY <1>4, ReadLoads
  <2>2. Len(scan') \in 0 .. Len(scan')
    BY <2>1, LenProperties DEF InventoryTypeOK
  <2> QED
    BY <1>1, <1>2, <2>1, <2>2 DEF LoadedFromStored
<1>5. ASSUME NEW th \in Threads, IngestWrite(th)
      PROVE  (LoadedFromStored /\ ComparedWithStored)'
  <2>1. PICK n \in 0 .. Len(scan) : Loaded(th, n)
    BY <1>5 DEF LoadedFromStored, IngestWrite
  <2>2. PICK last : last = Len(scan) + 1
    OBVIOUS
  <2>3. /\ Len(scan) \in Nat
        /\ DOMAIN scan = 1 .. Len(scan) /\ DOMAIN scan' = 1 .. last
        /\ ComparedAfter(n, last)'
        /\ \A i \in DOMAIN scan, k \in Nat :
             k < i /\ ComparedAfter(k, i) => ComparedAfter(k, i)'
    BY <1>5, <2>1, <2>2, WriteCompares
  <2>4. ComparedWithStored'
    <3>1. ASSUME NEW i \in 1 .. last
          PROVE  \E k \in 0 .. i - 1 : ComparedAfter(k, i)'
      <4>1. CASE i = last
        BY <2>1, <2>2, <2>3, <4>1
      <4>2. CASE i \in DOMAIN scan
        <5>1. PICK k \in 0 .. i - 1 : ComparedAfter(k, i)
          BY <4>2 DEF ComparedWithStored
        <5> QED
          BY <2>3, <4>2, <5>1
      <4> QED
        BY <2>2, <2>3, <4>1, <4>2
    <3> QED
      BY <2>3, <3>1 DEF ComparedWithStored
  <2>5. ASSUME NEW u \in Threads, ingest'[u] # NoIngest
        PROVE  \E k \in 0 .. Len(scan') : Loaded(u, k)'
    <3>1. ingest'[u] = ingest[u] /\ u # th
      BY <1>5, <2>5 DEF IngestWrite, InventoryTypeOK
    <3>2. PICK k \in 0 .. Len(scan) : Loaded(u, k)
      BY <2>5, <3>1 DEF LoadedFromStored
    <3>3. PICK t \in Targets, s \in Snapshot :
            t = ingest[u].scan.target /\ s = ingest[u].previous
      BY <2>5, <3>1 DEF InventoryTypeOK, Ingest, Scan
    <3>4. PICK new \in Scan : scan' = Append(scan, new)
      BY <1>5 DEF IngestWrite, InventoryTypeOK, Ingest
    <3>5. Base(k, t, s)'
      BY <3>2, <3>3, <3>4, BaseStays DEF Loaded
    <3>6. k \in 0 .. Len(scan')
      BY <2>3, <3>4, AppendProperties DEF InventoryTypeOK
    <3> QED
      BY <3>1, <3>3, <3>5, <3>6 DEF Loaded
  <2> QED
    BY <2>4, <2>5 DEF LoadedFromStored
<1>6. ASSUME NEW th \in Threads, IngestAbort(th)
      PROVE  (LoadedFromStored /\ ComparedWithStored)'
  <2>1. /\ scan' = scan /\ changes' = changes /\ ingest'[th] = NoIngest
        /\ \A u \in Threads \ {th} : ingest'[u] = ingest[u]
    BY <1>6 DEF IngestAbort, InventoryTypeOK
  <2> QED
    BY <1>1, <1>2, <2>1 DEF LoadedFromStored
<1>7. CASE IngestRestart
  BY <1>1, <1>7 DEF IngestRestart, LoadedFromStored
<1> QED
  BY <1>3, <1>4, <1>5, <1>6, <1>7 DEF InventoryNext

\* Nothing is loaded or compared at the start.
LEMMA ComparedWithStoredInit ==
  ASSUME InventoryInit
  PROVE  LoadedFromStored /\ ComparedWithStored
<1>1. DOMAIN scan = {}
  BY EmptySeq DEF InventoryInit
<1> QED
  BY <1>1 DEF InventoryInit, LoadedFromStored, ComparedWithStored

\* However many handlers interleave, a scan is compared with what some number of
\* the scans stored before it leave as the newest of its target.
THEOREM ComparedAlwaysWithStored == InventorySpec => []ComparedWithStored
BY ComparedWithStoredInit, InventoryTypes, ComparedWithStoredStep, PTL
   DEF InventorySpec

\* With one thread, what the handler has loaded is what all stored scans leave.
LoadedFromAll ==
  \A th \in Threads : ingest[th] # NoIngest => Loaded(th, Len(scan))

LEMMA ComparedInTurnStep ==
  ASSUME NEW only, Threads = {only}, InventoryTypeOK, LoadedFromAll,
         \A t \in Targets : ComparedInTurn(t), [InventoryNext]_inventoryVars
  PROVE  LoadedFromAll' /\ \A t \in Targets : ComparedInTurn(t)'
<1>1. ASSUME scan' = scan, changes' = changes
      PROVE  \A t \in Targets : ComparedInTurn(t)'
  BY <1>1 DEF ComparedInTurn, ComparedAfter, Base, ScansOf
<1>2. CASE UNCHANGED inventoryVars
  BY <1>1, <1>2 DEF inventoryVars, LoadedFromAll, Loaded, Base, ScansOf
<1>3. ASSUME NEW th \in Threads, NEW t \in Targets, NEW s \in Starts,
             NEW snap \in Reported, IngestRead(th, t, s, snap)
      PROVE  LoadedFromAll' /\ \A u \in Targets : ComparedInTurn(u)'
  <2>1. Loaded(th, Len(scan))' /\ scan' = scan /\ changes' = changes
    BY <1>3, ReadLoads
  <2> QED
    BY <1>1, <2>1 DEF LoadedFromAll
<1>4. ASSUME NEW th \in Threads, IngestWrite(th)
      PROVE  LoadedFromAll' /\ \A u \in Targets : ComparedInTurn(u)'
  <2>1. PICK n \in 0 .. Len(scan) : n = Len(scan) /\ Loaded(th, n)
    BY <1>4, LenProperties DEF LoadedFromAll, IngestWrite, InventoryTypeOK
  <2>2. PICK last : last = Len(scan) + 1
    OBVIOUS
  <2>3. /\ Len(scan) \in Nat
        /\ DOMAIN scan = 1 .. Len(scan) /\ DOMAIN scan' = 1 .. last
        /\ ComparedAfter(n, last)'
        /\ \A i \in DOMAIN scan, k \in Nat :
             k < i /\ ComparedAfter(k, i) => ComparedAfter(k, i)'
    BY <1>4, <2>1, <2>2, WriteCompares
  <2>4. ASSUME NEW i \in 1 .. last PROVE ComparedAfter(i - 1, i)'
    <3>1. CASE i = last
      BY <2>1, <2>2, <2>3, <3>1
    <3>2. CASE i \in DOMAIN scan
      <4>1. PICK t \in Targets : t = scan[i].target
        <5>1. scan[i] \in Scan
          BY <2>3, <3>2, ElementOfSeq DEF InventoryTypeOK
        <5> QED
          BY <5>1 DEF Scan
      <4>2. i \in ScansOf(t)
        BY <3>2, <4>1 DEF ScansOf
      <4>3. ComparedAfter(i - 1, i)
        BY <4>1, <4>2 DEF ComparedInTurn
      <4> QED
        BY <2>3, <3>2, <4>3
    <3> QED
      BY <2>2, <2>3, <3>1, <3>2
  <2>5. \A t \in Targets : ComparedInTurn(t)'
    BY <2>3, <2>4 DEF ComparedInTurn, ScansOf
  <2>6. LoadedFromAll'
    BY <1>4 DEF IngestWrite, LoadedFromAll, InventoryTypeOK
  <2> QED
    BY <2>5, <2>6
<1>5. CASE IngestRestart \/ \E th \in Threads : IngestAbort(th)
  <2>1. scan' = scan /\ changes' = changes /\ \A th \in Threads : ingest'[th] = NoIngest
    BY <1>5 DEF IngestRestart, IngestAbort, InventoryTypeOK
  <2> QED
    BY <1>1, <2>1 DEF LoadedFromAll
<1> QED
  BY <1>2, <1>3, <1>4, <1>5 DEF InventoryNext

\* With one thread every scan is compared with what was stored just before it:
\* the condition of LogTellsNewest on comparisons is about interleaving alone.
THEOREM SerialComparesInTurn ==
  ASSUME NEW only, Threads = {only}
  PROVE  InventorySpec => [](\A t \in Targets : ComparedInTurn(t))
<1>1. InventoryInit => LoadedFromAll /\ \A t \in Targets : ComparedInTurn(t)
  <2>1. InventoryInit => DOMAIN scan = {}
    BY EmptySeq DEF InventoryInit
  <2> QED
    BY <2>1 DEF InventoryInit, LoadedFromAll, ComparedInTurn, ScansOf
<1>2. InventoryTypeOK /\ LoadedFromAll /\ (\A t \in Targets : ComparedInTurn(t))
        /\ [InventoryNext]_inventoryVars
        => LoadedFromAll' /\ (\A t \in Targets : ComparedInTurn(t))'
  BY ComparedInTurnStep
<1> QED
  BY <1>1, <1>2, InventoryTypes, PTL DEF InventorySpec
-----------------------------------------------------------------------------
\* A reported snapshot lists the hosts that are up.
LEMMA ReportedUp ==
  ASSUME NEW s \in Reported
  PROVE  s \in Snapshot /\ Up(s) = DOMAIN s
BY DEF Reported, Up

\* The changes between two reported snapshots, kind by kind.
LEMMA DiffMembers ==
  ASSUME NEW prev \in Reported, NEW cur \in Reported, NEW c
  PROVE  c \in Diff(prev, cur) <=>
           \/ \E h \in Up(cur) \ Up(prev) : c = Changed("host.up", h, Open(cur, h))
           \/ \E h \in Up(prev) \ Up(cur) : c = Changed("host.down", h, {})
           \/ \E h \in Up(prev) \cap Up(cur) : c \in PortChanges(prev, cur, h)
<1>1. /\ DOMAIN prev = Up(prev) /\ DOMAIN cur = Up(cur)
      /\ (Up(cur) \cap DOMAIN prev) \ Up(prev) = {}
  BY ReportedUp
<1>2. c \in HostChanges(prev, cur) <=>
        \/ \E h \in Up(cur) \ Up(prev) : c = Changed("host.up", h, Open(cur, h))
        \/ \E h \in Up(prev) \ Up(cur) : c = Changed("host.down", h, {})
  BY <1>1 DEF HostChanges
<1>3. Diff(prev, cur) = HostChanges(prev, cur) \cup
        UNION {PortChanges(prev, cur, h) : h \in Up(prev) \cap Up(cur)}
  BY <1>1 DEF Diff
<1> QED
  BY <1>2, <1>3

\* The changes of one host's ports say which opened and which closed.
LEMMA PortMembers ==
  ASSUME NEW prev, NEW cur, NEW h, NEW c \in PortChanges(prev, cur, h)
  PROVE  /\ c.host = h /\ c.kind \in {"port.open", "port.close", "service.change"}
         /\ c.kind = "port.open" => \E p \in Open(cur, h) \ Open(prev, h) : c.ports = {p}
         /\ c.kind = "port.close" => \E p \in Open(prev, h) \ Open(cur, h) : c.ports = {p}
BY DEF PortChanges, Changed

\* What the changes between two reported snapshots say of a host and of a port
\* is how the second differs from the first.
LEMMA DiffTells ==
  ASSUME NEW prev \in Reported, NEW cur \in Reported, NEW h \in Hosts
  PROVE  /\ (\E c \in Diff(prev, cur) : c.kind = "host.up" /\ c.host = h)
               <=> h \in Up(cur) \ Up(prev)
         /\ Changed("host.down", h, {}) \in Diff(prev, cur) <=> h \in Up(prev) \ Up(cur)
         /\ \A p \in Ports :
              /\ (\E c \in Diff(prev, cur) : /\ c.kind \in {"host.up", "port.open"}
                                            /\ c.host = h
                                            /\ p \in c.ports)
                    <=> p \in Open(cur, h) \ Open(prev, h)
              /\ Changed("port.close", h, {p}) \in Diff(prev, cur)
                    <=> h \in Up(cur) /\ p \in Open(prev, h) \ Open(cur, h)
<1>0. /\ \A p \in Open(prev, h) : h \in Up(prev)
      /\ \A p \in Open(cur, h) : h \in Up(cur)
  BY ReportedUp DEF Open
<1>1. (\E c \in Diff(prev, cur) : c.kind = "host.up" /\ c.host = h)
        <=> h \in Up(cur) \ Up(prev)
  <2>1. ASSUME NEW c \in Diff(prev, cur), c.kind = "host.up", c.host = h
        PROVE  h \in Up(cur) \ Up(prev)
    BY <2>1, DiffMembers, PortMembers DEF Changed
  <2>2. ASSUME h \in Up(cur) \ Up(prev)
        PROVE  \E c \in Diff(prev, cur) : c.kind = "host.up" /\ c.host = h
    <3>1. Changed("host.up", h, Open(cur, h)) \in Diff(prev, cur)
      BY <2>2, DiffMembers
    <3> QED
      BY <3>1 DEF Changed
  <2> QED
    BY <2>1, <2>2
<1>2. Changed("host.down", h, {}) \in Diff(prev, cur) <=> h \in Up(prev) \ Up(cur)
  <2>1. ASSUME Changed("host.down", h, {}) \in Diff(prev, cur)
        PROVE  h \in Up(prev) \ Up(cur)
    <3> DEFINE c == Changed("host.down", h, {})
    <3>1. c.kind = "host.down" /\ c.host = h
      BY DEF Changed
    <3>2. \A g \in Up(prev) \cap Up(cur) : c \notin PortChanges(prev, cur, g)
      BY <3>1, PortMembers
    <3> QED
      BY <2>1, <3>1, <3>2, DiffMembers DEF Changed
  <2> QED
    BY <2>1, DiffMembers
<1>3. ASSUME NEW p \in Ports
      PROVE  (\E c \in Diff(prev, cur) : /\ c.kind \in {"host.up", "port.open"}
                                        /\ c.host = h
                                        /\ p \in c.ports)
               <=> p \in Open(cur, h) \ Open(prev, h)
  <2>1. ASSUME NEW c \in Diff(prev, cur), c.kind \in {"host.up", "port.open"},
               c.host = h, p \in c.ports
        PROVE  p \in Open(cur, h) \ Open(prev, h)
    <3>1. CASE \E g \in Up(cur) \ Up(prev) : c = Changed("host.up", g, Open(cur, g))
      BY <1>0, <2>1, <3>1 DEF Changed
    <3>2. CASE \E g \in Up(prev) \ Up(cur) : c = Changed("host.down", g, {})
      BY <2>1, <3>2 DEF Changed
    <3>3. CASE \E g \in Up(prev) \cap Up(cur) : c \in PortChanges(prev, cur, g)
      BY <2>1, <3>3, PortMembers
    <3> QED
      BY <3>1, <3>2, <3>3, DiffMembers
  <2>2. ASSUME p \in Open(cur, h) \ Open(prev, h)
        PROVE  \E c \in Diff(prev, cur) : /\ c.kind \in {"host.up", "port.open"}
                                         /\ c.host = h
                                         /\ p \in c.ports
    <3>1. CASE h \in Up(prev)
      <4>1. Changed("port.open", h, {p}) \in PortChanges(prev, cur, h)
        BY <2>2 DEF PortChanges
      <4>2. Changed("port.open", h, {p}) \in Diff(prev, cur)
        BY <1>0, <2>2, <3>1, <4>1, DiffMembers
      <4> QED
        BY <4>2 DEF Changed
    <3>2. CASE h \notin Up(prev)
      <4>1. Changed("host.up", h, Open(cur, h)) \in Diff(prev, cur)
        BY <1>0, <2>2, <3>2, DiffMembers
      <4> QED
        BY <2>2, <4>1 DEF Changed
    <3> QED
      BY <3>1, <3>2
  <2> QED
    BY <2>1, <2>2
<1>4. ASSUME NEW p \in Ports
      PROVE  Changed("port.close", h, {p}) \in Diff(prev, cur)
               <=> h \in Up(cur) /\ p \in Open(prev, h) \ Open(cur, h)
  <2> DEFINE c == Changed("port.close", h, {p})
  <2>1. c.kind = "port.close" /\ c.host = h /\ c.ports = {p}
    BY DEF Changed
  <2>2. /\ \A g : c # Changed("host.up", g, Open(cur, g))
        /\ \A g : c # Changed("host.down", g, {})
    BY DEF Changed
  <2> HIDE DEF c
  <2>3. ASSUME c \in Diff(prev, cur)
        PROVE  h \in Up(cur) /\ p \in Open(prev, h) \ Open(cur, h)
    <3>1. PICK g \in Up(prev) \cap Up(cur) : c \in PortChanges(prev, cur, g)
      BY <2>2, <2>3, DiffMembers
    <3>2. g = h
      BY <2>1, <3>1, PortMembers
    <3>3. PICK q \in Open(prev, g) \ Open(cur, g) : c.ports = {q}
      BY <2>1, <3>1, PortMembers
    <3>4. q = p
      BY <2>1, <3>3
    <3> QED
      BY <3>1, <3>2, <3>3, <3>4
  <2>4. ASSUME h \in Up(cur), p \in Open(prev, h) \ Open(cur, h)
        PROVE  c \in Diff(prev, cur)
    <3>1. c \in PortChanges(prev, cur, h)
      BY <2>4 DEF PortChanges, c
    <3> QED
      BY <1>0, <2>4, <3>1, DiffMembers
  <2> QED
    BY <2>3, <2>4 DEF c
<1> QED
  BY <1>1, <1>2, <1>3, <1>4

\* What the comparison is about: the product and version on each open port.
Compared(s) == [h \in DOMAIN s |-> [p \in DOMAIN s[h].ports |-> Version[s[h].ports[p]]]]

\* Two reported scans of a target bring no change exactly when they saw the same
\* products and versions on the same ports of the same hosts: diff_snapshots misses
\* nothing of what is compared and reports nothing else.
THEOREM DiffSilent ==
  ASSUME NEW prev \in Reported, NEW cur \in Reported
  PROVE  Diff(prev, cur) = {} <=> Compared(prev) = Compared(cur)
<1>0. /\ prev \in Snapshot /\ Up(prev) = DOMAIN prev
      /\ cur \in Snapshot /\ Up(cur) = DOMAIN cur
  BY ReportedUp
<1>1. ASSUME Compared(prev) = Compared(cur)
      PROVE  Diff(prev, cur) = {}
  <2>1. DOMAIN prev = DOMAIN cur
    BY <1>1 DEF Compared
  <2>2. ASSUME NEW h \in DOMAIN prev
        PROVE  PortChanges(prev, cur, h) = {}
    <3>1. [p \in DOMAIN prev[h].ports |-> Version[prev[h].ports[p]]]
            = [p \in DOMAIN cur[h].ports |-> Version[cur[h].ports[p]]]
      BY <1>1, <2>1, <2>2 DEF Compared
    <3>2. DOMAIN prev[h].ports = DOMAIN cur[h].ports
      BY <3>1
    <3>3. \A p \in DOMAIN prev[h].ports :
            Version[prev[h].ports[p]] = Version[cur[h].ports[p]]
      BY <3>1
    <3>4. /\ Open(prev, h) = DOMAIN prev[h].ports
          /\ Open(cur, h) = DOMAIN cur[h].ports
      BY <2>1, <2>2 DEF Open
    <3> QED
      BY <3>2, <3>3, <3>4 DEF PortChanges
  <2> QED
    BY <1>0, <2>1, <2>2, DiffMembers
<1>2. ASSUME Diff(prev, cur) = {}
      PROVE  Compared(prev) = Compared(cur)
  <2>1. /\ Up(cur) \ Up(prev) = {}
        /\ Up(prev) \ Up(cur) = {}
    BY <1>2, DiffMembers
  <2>2. DOMAIN prev = DOMAIN cur
    BY <1>0, <2>1
  <2>3. ASSUME NEW h \in DOMAIN prev
        PROVE  /\ DOMAIN prev[h].ports = DOMAIN cur[h].ports
               /\ \A p \in DOMAIN prev[h].ports :
                    Version[prev[h].ports[p]] = Version[cur[h].ports[p]]
    <3>1. PortChanges(prev, cur, h) = {}
      BY <1>0, <1>2, <2>2, <2>3, DiffMembers
    <3>2. /\ Open(prev, h) = DOMAIN prev[h].ports
          /\ Open(cur, h) = DOMAIN cur[h].ports
      BY <2>2, <2>3 DEF Open
    <3>3. /\ Open(cur, h) \ Open(prev, h) = {}
          /\ Open(prev, h) \ Open(cur, h) = {}
          /\ \A p \in Open(cur, h) \cap Open(prev, h) :
               Version[prev[h].ports[p]] = Version[cur[h].ports[p]]
      BY <3>1 DEF PortChanges
    <3> QED
      BY <3>2, <3>3
  <2> QED
    BY <2>2, <2>3 DEF Compared
<1> QED
  BY <1>1, <1>2

\* What a result adds to the tables: a scan, its changes, and nothing else of them.
LEMMA WriteAppends ==
  ASSUME InventoryTypeOK, NEW th \in Threads, IngestWrite(th)
  PROVE  \E new \in Scan, rows \in SUBSET Change, last \in Nat :
           /\ scan' = Append(scan, new) /\ changes' = Append(changes, rows)
           /\ last = Len(scan) + 1
           /\ DOMAIN scan = 1 .. last - 1 /\ DOMAIN scan' = 1 .. last
           /\ scan'[last] = new /\ changes'[last] = rows
           /\ \A i \in DOMAIN scan : scan'[i] = scan[i] /\ changes'[i] = changes[i]
<1>1. PICK new \in Scan, previous \in Snapshot :
        ingest[th].scan = new /\ ingest[th].previous = previous
  BY DEF IngestWrite, Ingest, InventoryTypeOK
<1>2. PICK rows \in SUBSET Change : rows = Recorded(previous, new.snap)
  BY <1>1, DiffTyped DEF Recorded, Scan, Reported
<1>3. scan' = Append(scan, new) /\ changes' = Append(changes, rows)
  BY <1>1, <1>2 DEF IngestWrite
<1>4. PICK last \in Nat : last = Len(scan) + 1
  BY LenProperties DEF InventoryTypeOK
<1>5. /\ Len(scan) \in Nat /\ DOMAIN scan = 1 .. Len(scan) /\ Len(changes) = Len(scan)
      /\ DOMAIN scan' = 1 .. last /\ scan'[last] = new /\ changes'[last] = rows
      /\ \A i \in 1 .. Len(scan) : scan'[i] = scan[i] /\ changes'[i] = changes[i]
  BY <1>3, <1>4, LenProperties, AppendProperties DEF InventoryTypeOK
<1>6. DOMAIN scan = 1 .. last - 1
  BY <1>4, <1>5
<1> QED
  BY <1>3, <1>4, <1>5, <1>6

\* The conditions of LogTellsNewest hold before a result if they hold after it.
LEMMA ConditionsBefore ==
  ASSUME InventoryTypeOK, NEW th \in Threads, IngestWrite(th), NEW t \in Targets,
         InOrder(t)', NeverEmpty(t)', ComparedInTurn(t)'
  PROVE  InOrder(t) /\ NeverEmpty(t) /\ ComparedInTurn(t)
<1>1. PICK new \in Scan, rows \in SUBSET Change, last \in Nat :
        /\ scan' = Append(scan, new) /\ changes' = Append(changes, rows)
        /\ last = Len(scan) + 1
        /\ DOMAIN scan = 1 .. last - 1 /\ DOMAIN scan' = 1 .. last
        /\ scan'[last] = new /\ changes'[last] = rows
        /\ \A i \in DOMAIN scan : scan'[i] = scan[i] /\ changes'[i] = changes[i]
  BY WriteAppends
<1>2. \A i \in ScansOf(t) : i \in ScansOf(t)' /\ i \in DOMAIN scan
  BY <1>1 DEF ScansOf
<1>3. InOrder(t) /\ NeverEmpty(t)
  BY <1>1, <1>2 DEF InOrder, NeverEmpty
<1>4. ASSUME NEW i \in ScansOf(t) PROVE ComparedAfter(i - 1, i)
  <2>1. i \in 1 .. last - 1 /\ scan[i].target = t /\ i - 1 \in 0 .. Len(scan)
    BY <1>1 DEF ScansOf
  <2>2. ComparedAfter(i - 1, i)'
    BY <1>2, <1>4 DEF ComparedInTurn
  <2>3. PICK s \in {scan'[k].snap : k \in 1 .. i - 1} \cup {NoSnapshot} :
          Base(i - 1, t, s)' /\ changes'[i] = Recorded(s, scan'[i].snap)
    BY <1>1, <2>1, <2>2 DEF ComparedAfter
  <2>4. Base(i - 1, t, s)
    BY <1>1, <2>1, <2>3, BaseStays
  <2>5. s \in {scan[k].snap : k \in 1 .. i - 1} \cup {NoSnapshot}
    BY <1>1, <2>1, <2>3
  <2> QED
    BY <1>1, <2>1, <2>3, <2>4, <2>5 DEF ComparedAfter
<1> QED
  BY <1>3, <1>4 DEF ComparedInTurn

\* A result of another target leaves what the log of t says.
LEMMA OtherTargetsLog ==
  ASSUME InventoryTypeOK, LogTellsNewest, NEW th \in Threads, IngestWrite(th),
         NEW t \in Targets, InOrder(t)', NeverEmpty(t)', ComparedInTurn(t)',
         ScansOf(t)' = ScansOf(t)
  PROVE  LogTells(t)'
<1>1. LogTells(t)
  BY ConditionsBefore DEF LogTellsNewest
<1>2. \A i \in ScansOf(t) : scan'[i] = scan[i] /\ changes'[i] = changes[i]
  BY WriteAppends DEF ScansOf
<1>3. ASSUME NEW h \in Hosts, NEW i \in ScansOf(t)
      PROVE  /\ SaysUp(t, i, h)' <=> SaysUp(t, i, h)
             /\ SaysDown(i, h)' <=> SaysDown(i, h)
             /\ \A p \in Ports : /\ SaysOpen(t, i, h, p)' <=> SaysOpen(t, i, h, p)
                                 /\ SaysShut(i, h, p)' <=> SaysShut(i, h, p)
             /\ LastOf(t, i)' <=> LastOf(t, i)
  BY <1>2 DEF SaysUp, SaysDown, SaysOpen, SaysShut, FirstOf, LastOf
<1> QED
  BY <1>1, <1>2, <1>3 DEF LogTells

\* The log of a target starts from what its first scan saw.
LEMMA FirstResultsLog ==
  ASSUME InventoryTypeOK, NEW th \in Threads, IngestWrite(th), NEW t \in Targets,
         ComparedInTurn(t)', ScansOf(t) = {}, ScansOf(t)' # {}
  PROVE  LogTells(t)'
<1>1. PICK new \in Scan, last \in Nat :
        /\ last = Len(scan) + 1
        /\ DOMAIN scan = 1 .. last - 1 /\ DOMAIN scan' = 1 .. last
        /\ scan'[last] = new
        /\ \A i \in DOMAIN scan : scan'[i] = scan[i]
  BY WriteAppends
<1>2. ScansOf(t)' = {last} /\ new.target = t
  <2>1. \A i \in 1 .. last : i = last \/ i \in DOMAIN scan
    BY <1>1
  <2>2. \A i \in ScansOf(t)' : i = last
    BY <1>1, <2>1 DEF ScansOf
  <2> QED
    BY <1>1, <2>2 DEF ScansOf
<1>3. changes'[last] = {}
  <2>1. ComparedAfter(last - 1, last)'
    BY <1>2 DEF ComparedInTurn
  <2>2. PICK s : Base(last - 1, t, s)' /\ changes'[last] = Recorded(s, scan'[last].snap)
    BY <1>1, <1>2, <2>1 DEF ComparedAfter
  <2>3. ScansOf(t)' \cap 1 .. last - 1 = {}
    BY <1>2
  <2>4. s = NoSnapshot
    BY <2>2, <2>3 DEF Base
  <2> QED
    BY <2>2, <2>4 DEF Recorded
<1>4. FirstOf(t, last)'
  BY <1>2 DEF FirstOf
<1>5. ASSUME NEW h \in Hosts
      PROVE  /\ SaysUp(t, last, h)' <=> h \in Up(scan'[last].snap)
             /\ \A p \in Ports : SaysOpen(t, last, h, p)' <=> p \in Open(scan'[last].snap, h)
  BY <1>3, <1>4 DEF SaysUp, SaysOpen
<1>6. \A i \in ScansOf(t)' : i = last
  BY <1>2
<1>7. \A l \in ScansOf(t)' : ~ (l > last)
  BY <1>2
<1> QED
  BY <1>2, <1>5, <1>6, <1>7 DEF LogTells

\* Where a target's results came in order and in turn, one more was compared with
\* the last of those before it.
LEMMA ComparedWithLast ==
  ASSUME InventoryTypeOK', NEW last \in Nat, NEW t \in Targets,
         last \in ScansOf(t)', ScansOf(t)' \cap 1 .. last - 1 # {},
         InOrder(t)', NeverEmpty(t)', ComparedInTurn(t)'
  PROVE  \E i \in ScansOf(t)' \cap 1 .. last - 1 :
           /\ \A k \in ScansOf(t)' \cap 1 .. last - 1 : k <= i
           /\ changes'[last] = Diff(scan'[i].snap, scan'[last].snap)
<1>1. scan'[last].target = t /\ ComparedAfter(last - 1, last)'
  BY DEF ComparedInTurn, ScansOf
<1>2. PICK s : Base(last - 1, t, s)' /\ changes'[last] = Recorded(s, scan'[last].snap)
  BY <1>1 DEF ComparedAfter
<1>3. PICK i \in ScansOf(t)' \cap 1 .. last - 1 :
        /\ \A k \in ScansOf(t)' \cap 1 .. last - 1 : scan'[k].started <= scan'[i].started
        /\ s = scan'[i].snap
  BY <1>2 DEF Base
<1>4. \A k \in ScansOf(t)' : scan'[k].started \in Nat
  <2>1. scan' \in Seq(Scan)
    BY DEF InventoryTypeOK
  <2>2. \A k \in DOMAIN scan' : scan'[k] \in Scan
    BY <2>1, ElementOfSeq, LenProperties
  <2>3. Starts \subseteq Nat
    BY DEF Starts
  <2> QED
    BY <2>2, <2>3 DEF ScansOf, Scan
<1>5. ASSUME NEW k \in ScansOf(t)' \cap 1 .. last - 1 PROVE k <= i
  <2>1. scan'[k].started <= scan'[i].started
    BY <1>3
  <2>2. i < k => scan'[i].started < scan'[k].started
    BY <1>3 DEF InOrder
  <2>3. scan'[k].started \in Nat /\ scan'[i].started \in Nat
    BY <1>3, <1>4
  <2> QED
    BY <2>1, <2>2, <2>3
<1>6. s # NoSnapshot
  BY <1>3 DEF NeverEmpty
<1> QED
  BY <1>2, <1>3, <1>5, <1>6 DEF Recorded

\* Another result of a target: its changes take the log from the last scan to it.
LEMMA NextResultsLog ==
  ASSUME InventoryTypeOK, InventoryTypeOK', LogTellsNewest,
         NEW th \in Threads, IngestWrite(th), NEW t \in Targets,
         InOrder(t)', NeverEmpty(t)', ComparedInTurn(t)',
         ScansOf(t) # {}, ScansOf(t)' # ScansOf(t)
  PROVE  LogTells(t)'
<1>1. PICK last \in Nat :
        /\ DOMAIN scan = 1 .. last - 1 /\ DOMAIN scan' = 1 .. last
        /\ \A i \in DOMAIN scan : scan'[i] = scan[i] /\ changes'[i] = changes[i]
  BY WriteAppends
<1>2. /\ ScansOf(t)' = ScansOf(t) \cup {last}
      /\ ScansOf(t) = ScansOf(t)' \cap 1 .. last - 1
      /\ \A k \in ScansOf(t) : k \in Nat /\ k < last /\ k \in DOMAIN scan
  <2>1. \A i \in 1 .. last : i = last \/ i \in DOMAIN scan
    BY <1>1
  <2>2. /\ \A i \in ScansOf(t)' : i = last \/ i \in ScansOf(t)
        /\ \A i \in ScansOf(t) : i \in ScansOf(t)' /\ i \in DOMAIN scan
    BY <1>1, <2>1 DEF ScansOf
  <2>3. last \in ScansOf(t)'
    BY <2>2
  <2> QED
    BY <1>1, <2>2, <2>3
<1>3. PICK i \in ScansOf(t) : /\ \A k \in ScansOf(t) : k <= i
                              /\ changes'[last] = Diff(scan'[i].snap, scan'[last].snap)
  BY <1>2, ComparedWithLast
<1>4. PICK prev \in Reported, cur \in Reported :
        prev = scan[i].snap /\ cur = scan'[last].snap /\ changes'[last] = Diff(prev, cur)
  <2>1. scan \in Seq(Scan) /\ scan' \in Seq(Scan)
    BY DEF InventoryTypeOK
  <2>2. scan[i] \in Scan /\ scan'[last] \in Scan
    BY <1>1, <1>2, <2>1, ElementOfSeq, LenProperties
  <2> QED
    BY <1>1, <1>2, <1>3, <2>2 DEF Scan
<1>5. LogTells(t) /\ LastOf(t, i)
  BY <1>3, ConditionsBefore DEF LogTellsNewest, LastOf
<1>6. ASSUME NEW k \in ScansOf(t), NEW h \in Hosts
      PROVE  /\ SaysUp(t, k, h)' <=> SaysUp(t, k, h)
             /\ SaysDown(k, h)' <=> SaysDown(k, h)
             /\ \A p \in Ports : /\ SaysOpen(t, k, h, p)' <=> SaysOpen(t, k, h, p)
                                 /\ SaysShut(k, h, p)' <=> SaysShut(k, h, p)
  <2>1. FirstOf(t, k)' <=> FirstOf(t, k)
    BY <1>2 DEF FirstOf
  <2>2. scan'[k] = scan[k] /\ changes'[k] = changes[k]
    BY <1>1, <1>2
  <2> QED
    BY <2>1, <2>2 DEF SaysUp, SaysDown, SaysOpen, SaysShut
<1>7. ~ FirstOf(t, last)'
  BY <1>2, <1>3 DEF FirstOf
<1>8. ASSUME NEW h \in Hosts
      PROVE  /\ SaysUp(t, last, h)' <=> h \in Up(cur) \ Up(prev)
             /\ SaysDown(last, h)' <=> h \in Up(prev) \ Up(cur)
             /\ \A p \in Ports :
                  /\ SaysOpen(t, last, h, p)' <=> p \in Open(cur, h) \ Open(prev, h)
                  /\ SaysShut(last, h, p)' <=>
                       \/ h \in Up(prev) \ Up(cur)
                       \/ h \in Up(cur) /\ p \in Open(prev, h) \ Open(cur, h)
  <2>1. /\ (\E c \in changes'[last] : c.kind = "host.up" /\ c.host = h)
              <=> h \in Up(cur) \ Up(prev)
        /\ Changed("host.down", h, {}) \in changes'[last] <=> h \in Up(prev) \ Up(cur)
        /\ \A p \in Ports :
             /\ (\E c \in changes'[last] : /\ c.kind \in {"host.up", "port.open"}
                                           /\ c.host = h
                                           /\ p \in c.ports)
                   <=> p \in Open(cur, h) \ Open(prev, h)
             /\ Changed("port.close", h, {p}) \in changes'[last]
                   <=> h \in Up(cur) /\ p \in Open(prev, h) \ Open(cur, h)
    <3> DEFINE rows == changes'[last]
    <3>1. rows = Diff(prev, cur)
      BY <1>4
    <3> HIDE DEF rows
    <3>2. /\ (\E c \in rows : c.kind = "host.up" /\ c.host = h)
                <=> h \in Up(cur) \ Up(prev)
          /\ Changed("host.down", h, {}) \in rows <=> h \in Up(prev) \ Up(cur)
      BY <3>1, DiffTells
    <3>3. ASSUME NEW p \in Ports
          PROVE  /\ (\E c \in rows : /\ c.kind \in {"host.up", "port.open"}
                                       /\ c.host = h
                                       /\ p \in c.ports)
                       <=> p \in Open(cur, h) \ Open(prev, h)
                 /\ Changed("port.close", h, {p}) \in rows
                       <=> h \in Up(cur) /\ p \in Open(prev, h) \ Open(cur, h)
      BY <3>1, DiffTells
    <3> QED
      BY <3>2, <3>3 DEF rows
  <2>2. SaysUp(t, last, h)' <=> h \in Up(cur) \ Up(prev)
    BY <1>7, <2>1 DEF SaysUp
  <2>3. SaysDown(last, h)' <=> h \in Up(prev) \ Up(cur)
    BY <2>1 DEF SaysDown, Changed
  <2>4. ASSUME NEW p \in Ports
        PROVE  SaysOpen(t, last, h, p)' <=> p \in Open(cur, h) \ Open(prev, h)
    BY <1>7, <2>1 DEF SaysOpen
  <2>5. ASSUME NEW p \in Ports
        PROVE  SaysShut(last, h, p)' <=>
                 \/ h \in Up(prev) \ Up(cur)
                 \/ h \in Up(cur) /\ p \in Open(prev, h) \ Open(cur, h)
    BY <2>1, <2>3 DEF SaysShut, Changed
  <2> QED
    BY <2>2, <2>3, <2>4, <2>5
<1>9. \A j \in ScansOf(t)' : LastOf(t, j)' => j = last
  BY <1>2 DEF LastOf
<1>10. ASSUME NEW h \in Hosts
       PROVE  h \in Up(cur) <=>
                \E k \in ScansOf(t)' : /\ SaysUp(t, k, h)'
                                       /\ \A l \in ScansOf(t)' : l > k => ~ SaysDown(l, h)'
  <2>1. h \in Up(prev) <=>
          \E k \in ScansOf(t) : /\ SaysUp(t, k, h)
                                /\ \A l \in ScansOf(t) : l > k => ~ SaysDown(l, h)
    BY <1>4, <1>5 DEF LogTells
  <2>2. CASE h \in Up(cur) /\ h \in Up(prev)
    BY <1>2, <1>6, <1>8, <2>1, <2>2
  <2>3. CASE h \in Up(cur) /\ h \notin Up(prev)
    BY <1>2, <1>8, <2>3
  <2>4. CASE h \notin Up(cur)
    BY <1>2, <1>6, <1>8, <2>1, <2>4
  <2> QED
    BY <2>2, <2>3, <2>4
<1>11. ASSUME NEW h \in Hosts, NEW p \in Ports
       PROVE  p \in Open(cur, h) <=>
                \E k \in ScansOf(t)' : /\ SaysOpen(t, k, h, p)'
                                       /\ \A l \in ScansOf(t)' : l > k => ~ SaysShut(l, h, p)'
  <2>0. (p \in Open(cur, h) => h \in Up(cur)) /\ (p \in Open(prev, h) => h \in Up(prev))
    BY ReportedUp DEF Open
  <2>1. p \in Open(prev, h) <=>
          \E k \in ScansOf(t) : /\ SaysOpen(t, k, h, p)
                                /\ \A l \in ScansOf(t) : l > k => ~ SaysShut(l, h, p)
    BY <1>4, <1>5 DEF LogTells
  <2>2. CASE p \in Open(cur, h) /\ p \in Open(prev, h)
    BY <1>2, <1>6, <1>8, <2>0, <2>1, <2>2
  <2>3. CASE p \in Open(cur, h) /\ p \notin Open(prev, h)
    BY <1>2, <1>8, <2>3
  <2>4. CASE p \notin Open(cur, h)
    BY <1>2, <1>6, <1>8, <2>0, <2>1, <2>4
  <2> QED
    BY <2>2, <2>3, <2>4
<1> QED
  BY <1>4, <1>9, <1>10, <1>11 DEF LogTells
-----------------------------------------------------------------------------
\* There is no log at the start.
LEMMA LogTellsNewestInit ==
  ASSUME InventoryInit
  PROVE  LogTellsNewest
<1>1. DOMAIN scan = {}
  BY EmptySeq DEF InventoryInit
<1> QED
  BY <1>1 DEF LogTellsNewest, LogTells, ScansOf

\* What leaves scans and changes alone leaves the log as right as it was.
LEMMA LogStays ==
  ASSUME LogTellsNewest, UNCHANGED <<scan, changes>>
  PROVE  LogTellsNewest'
BY DEF LogTellsNewest, LogTells, LastOf, FirstOf, ScansOf, InOrder, NeverEmpty,
       ComparedInTurn, ComparedAfter, Base, SaysUp, SaysDown, SaysOpen, SaysShut

\* Every step of ingestion keeps the log right.
LEMMA LogTellsNewestStep ==
  InventoryTypeOK /\ InventoryTypeOK' /\ LogTellsNewest /\ [InventoryNext]_inventoryVars
    => LogTellsNewest'
<1> SUFFICES ASSUME InventoryTypeOK, InventoryTypeOK', LogTellsNewest,
                    [InventoryNext]_inventoryVars
             PROVE  LogTellsNewest'
  OBVIOUS
<1>1. ASSUME NEW th \in Threads, IngestWrite(th), NEW t \in Targets,
             InOrder(t)', NeverEmpty(t)', ComparedInTurn(t)'
      PROVE  LogTells(t)'
  <2>1. CASE ScansOf(t)' = {}
    BY <2>1 DEF LogTells
  <2>2. CASE ScansOf(t)' = ScansOf(t)
    BY <1>1, <2>2, OtherTargetsLog
  <2>3. CASE ScansOf(t) = {} /\ ScansOf(t)' # {}
    BY <1>1, <2>3, FirstResultsLog
  <2>4. CASE ScansOf(t) # {} /\ ScansOf(t)' # ScansOf(t)
    BY <1>1, <2>4, NextResultsLog
  <2> QED
    BY <2>1, <2>2, <2>3, <2>4
<1>2. ASSUME NEW th \in Threads, IngestWrite(th) PROVE LogTellsNewest'
  BY <1>1, <1>2 DEF LogTellsNewest
<1> QED
  BY <1>2, LogStays
     DEF InventoryNext, IngestRead, IngestAbort, IngestRestart, inventoryVars

\* For any number of threads, targets and hosts, the change log of a target whose
\* results came in order, in turn and never empty tells what is up and open by now.
THEOREM LogAlwaysTellsNewest == InventorySpec => []LogTellsNewest
BY LogTellsNewestInit, LogTellsNewestStep, InventoryTypes, PTL DEF InventorySpec
-----------------------------------------------------------------------------
(* Ingestion is the ledger it is meant to be. *)

\* The ledger's newest snapshot among n results is what they leave to compare with.
LEMMA BaseIsNewest ==
  ASSUME InventoryTypeOK, NEW n \in 0 .. Len(scan), NEW t, NEW s, Base(n, t, s)
  PROVE  /\ Ledger!Newest(n, t, s)
         /\ s \in {scan[i].snap : i \in DOMAIN scan} \cup {NoSnapshot}
<1>1. Len(scan) \in Nat /\ DOMAIN scan = 1 .. Len(scan)
  BY LenProperties DEF InventoryTypeOK
<1>2. ScansOf(t) \cap 1 .. n = Ledger!Earlier(n, t)
  BY <1>1 DEF ScansOf, Ledger!Earlier
<1> QED
  BY <1>2 DEF Base, Ledger!Newest, ScansOf

\* What the service rows show of a host after a result that lists it, or not.
LEMMA OpenAfterResult ==
  ASSUME InventoryTypeOK, NEW snap \in Snapshot, svc' = Inventoried(snap)
  PROVE  OpenServices' = [h \in Hosts |-> IF h \in DOMAIN snap THEN snap[h].ports
                                                             ELSE OpenServices[h]]
<1> SUFFICES ASSUME NEW h \in Hosts
             PROVE  OpenServices'[h] = IF h \in DOMAIN snap THEN snap[h].ports
                                                             ELSE OpenServices[h]
  BY DEF OpenServices
<1>1. OpenServices'[h] = [p \in {q \in Ports : svc'[h][q].state = "open"} |->
                            svc'[h][p].banner]
  BY DEF OpenServices
<1>2. CASE h \notin DOMAIN snap
  BY <1>1, <1>2 DEF OpenServices, Inventoried
<1>3. CASE h \in DOMAIN snap
  <2>1. snap[h].ports \in PortTable /\ DOMAIN snap[h].ports \subseteq Ports
    BY <1>3, Listed, Observation DEF HostObs
  <2>2. ASSUME NEW p \in Ports
        PROVE  /\ \A b \in Banners : /\ Observed(svc[h][p], b).state = "open"
                                     /\ Observed(svc[h][p], b).banner = b
               /\ Unseen(svc[h][p]).state # "open"
    <3>1. svc[h][p] \in Service
      BY DEF InventoryTypeOK
    <3> QED
      BY <3>1 DEF Observed, Unseen, Service
  <2>3. \A p \in Ports :
          svc'[h][p] = IF p \in DOMAIN snap[h].ports
                       THEN Observed(svc[h][p], snap[h].ports[p])
                       ELSE Unseen(svc[h][p])
    BY <1>3 DEF Inventoried
  <2>4. \A p \in DOMAIN snap[h].ports : snap[h].ports[p] \in Banners
    BY <1>3, Listed, Observation
  <2>5. /\ {q \in Ports : svc'[h][q].state = "open"} = DOMAIN snap[h].ports
        /\ \A p \in DOMAIN snap[h].ports : svc'[h][p].banner = snap[h].ports[p]
    BY <2>1, <2>2, <2>3, <2>4
  <2>6. snap[h].ports = [p \in DOMAIN snap[h].ports |-> snap[h].ports[p]]
    BY <2>1 DEF PortTable
  <2> QED
    BY <1>1, <1>3, <2>5, <2>6
<1> QED
  BY <1>2, <1>3

\* A step of ingestion is a step of the ledger, or none.
LEMMA LedgerStep ==
  InventoryTypeOK /\ LoadedFromStored /\ [InventoryNext]_inventoryVars
    => [Ledger!Next]_(Ledger!vars)
<1> SUFFICES ASSUME InventoryTypeOK, LoadedFromStored, [InventoryNext]_inventoryVars
             PROVE  [Ledger!Next]_(Ledger!vars)
  OBVIOUS
<1>1. ASSUME NEW th \in Threads, IngestWrite(th)
      PROVE  Ledger!Next
  <2> DEFINE new == ingest[th].scan
             previous == ingest[th].previous
  <2>1. new \in Scan /\ new.snap \in Snapshot
    BY <1>1, ReportedUp DEF IngestWrite, InventoryTypeOK, Ingest, Scan
  <2>2. PICK n \in 0 .. Len(scan) : Base(n, new.target, previous)
    BY <1>1 DEF IngestWrite, LoadedFromStored, Loaded
  <2>3. /\ scan' = Append(scan, new)
        /\ changes' = Append(changes, Recorded(previous, new.snap))
        /\ svc' = Inventoried(new.snap)
    BY <1>1 DEF IngestWrite
  <2> HIDE DEF new, previous
  <2>4. Ledger!Compared(new)
    BY <2>2, <2>3, BaseIsNewest DEF Ledger!Compared
  <2> QED
    BY <2>1, <2>3, <2>4, OpenAfterResult DEF Ledger!Next, Ledger!Store
<1>2. CASE UNCHANGED <<scan, changes, svc>>
  BY <1>2 DEF Ledger!vars, OpenServices
<1> QED
  BY <1>1, <1>2
     DEF InventoryNext, IngestRead, IngestAbort, IngestRestart, inventoryVars

\* The empty tables are the empty ledger.
LEMMA LedgerInit ==
  ASSUME InventoryInit
  PROVE  Ledger!Init
<1>1. \A h \in Hosts : {q \in Ports : svc[h][q].state = "open"} = {}
  BY DEF InventoryInit, NoService
<1>2. ASSUME NEW h \in Hosts
      PROVE  OpenServices[h] = [p \in {} |-> Unnamed]
  BY <1>1 DEF OpenServices
<1>3. OpenServices = [h \in Hosts |-> [p \in {} |-> Unnamed]]
  BY <1>2 DEF OpenServices
<1> QED
  BY <1>3 DEF InventoryInit, Ledger!Init

\* However many handlers interleave, fail and restart, ingestion stores each
\* result whole, with its changes and its services, or not at all.
THEOREM InventoryIsLedger == InventorySpec => ImplementsLedger
BY LedgerInit, LedgerStep, InventoryTypes, ComparedWithStoredInit,
   ComparedWithStoredStep, PTL DEF InventorySpec, ImplementsLedger, Ledger!Spec
=============================================================================
