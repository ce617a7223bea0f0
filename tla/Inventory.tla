----------------------------- MODULE Inventory -----------------------------
(***************************************************************************)
(* Ingestion of worker results: the scan table, the rolling inventory of   *)
(* hosts and services and the change log (orchestrator/ingest.py).         *)
(*                                                                         *)
(* A result carries the start time its worker's clock gave it, so results  *)
(* of one target may be ingested in an order that is not that of their     *)
(* start: a slow attempt whose job was requeued, or two workers' clocks.   *)
(* process_result reads the previous snapshot without the write lock, then *)
(* inserts the scan, which takes it, and does the rest before it commits.  *)
(***************************************************************************)
EXTENDS Diffing, Integers, Sequences

CONSTANTS
  Targets,
  Threads,   \* threads of the orchestrator
  Unnamed,   \* the banner of a service nmap found no product for
  MaxScans   \* bound: scans ingested

\* A cpe without a product is no name.
ASSUME UnnamedAssumption ==
  /\ Unnamed \in Banners
  /\ \A b \in Banners : Version[b] = Version[Unnamed] => b = Unnamed
ASSUME MaxScansAssumption == MaxScans \in Nat

VARIABLES
  scan,      \* the scan table, in the order of its ids
  changes,   \* changes[i]: the Change rows recorded with scan i
  host,      \* Host.state, or "absent"
  svc,       \* the service table, by address and port
  ingest     \* what each thread's process_result has loaded

inventoryVars == <<scan, changes, host, svc, ingest>>

Starts == 1 .. MaxScans

Scan == [target : Targets, started : Starts, snap : Reported]

Service == [state : {"none", "open", "closed"}, banner : Banners,
            needsCve : BOOLEAN]

NoService == [state |-> "none", banner |-> Unnamed, needsCve |-> FALSE]

NoIngest == [op |-> "idle"]

Ingest == {NoIngest} \cup [op : {"ingest"}, scan : Scan, previous : Snapshot]

InventoryInit == /\ scan = << >>
                 /\ changes = << >>
                 /\ host = [h \in Hosts |-> "absent"]
                 /\ svc = [h \in Hosts |-> [p \in Ports |-> NoService]]
                 /\ ingest = [th \in Threads |-> NoIngest]
-----------------------------------------------------------------------------
ScansOf(t) == {i \in DOMAIN scan : scan[i].target = t}

\* The snapshot of the scan of t that was ingested last.
Previous_Ingested(t, s) ==
  \/ ScansOf(t) = {} /\ s = NoSnapshot
  \/ \E i \in ScansOf(t) : (\A k \in ScansOf(t) : k <= i) /\ s = scan[i].snap

\* The snapshot of the scan of t that started last, not of the last ingested.
Previous(t, s) ==
  \/ ScansOf(t) = {} /\ s = NoSnapshot
  \/ \E i \in ScansOf(t) :
       /\ \A k \in ScansOf(t) : scan[k].started <= scan[i].started
       /\ s = scan[i].snap

\* Only a row that is new is flagged.
Observed_FlagNew(row, banner) ==
  [state |-> "open",
   banner |-> banner,
   needsCve |-> IF row.state = "none" THEN banner # Unnamed ELSE row.needsCve]

\* needs_cve goes with the product and version it was set for; a cpe that alone
\* is another is written over the old one and raises no flag.
Observed(row, banner) ==
  [state |-> "open",
   banner |-> banner,
   needsCve |-> IF row.state = "none" \/ Version[row.banner] # Version[banner]
                THEN banner # Unnamed
                ELSE row.needsCve]

\* A port the scan misses leaves its row as it is.
Unseen_Kept(row) == row

\* A port that is shut gets a state the API's filters do not know.
Unseen_Down(row) == IF row.state = "open" THEN [row EXCEPT !.state = "down"]
                                          ELSE row

Unseen(row) == IF row.state = "open" THEN [row EXCEPT !.state = "closed"]
                                     ELSE row

\* Hosts the result does not list keep their services.
Inventoried(snap) ==
  [h \in Hosts |->
     [p \in Ports |->
        IF h \notin DOMAIN snap THEN svc[h][p]
        ELSE IF p \in DOMAIN snap[h].ports
             THEN Observed(svc[h][p], snap[h].ports[p])
             ELSE Unseen(svc[h][p])]]

\* An empty snapshot is taken for no scan at all.
Recorded(previous, current) ==
  IF previous = NoSnapshot THEN {} ELSE Diff(previous, current)

\* A result of the scan of t that started at s arrives.
IngestRead(th, t, s, snap) ==
  /\ ingest[th] = NoIngest
  /\ Len(scan) < MaxScans
  /\ \A i \in DOMAIN scan : scan[i].started # s
  /\ \A u \in Threads : ingest[u] # NoIngest => ingest[u].scan.started # s
  /\ \E previous \in {scan[i].snap : i \in ScansOf(t)} \cup {NoSnapshot} :
       /\ Previous(t, previous)
       /\ ingest' = [ingest EXCEPT ![th] =
            [op |-> "ingest", previous |-> previous,
             scan |-> [target |-> t, started |-> s, snap |-> snap]]]
  /\ UNCHANGED <<scan, changes, host, svc>>

IngestWrite(th) ==
  /\ ingest[th] # NoIngest
  /\ Len(scan) < MaxScans
  /\ LET new == ingest[th].scan IN
       /\ scan' = Append(scan, new)
       /\ changes' = Append(changes, Recorded(ingest[th].previous, new.snap))
       /\ host' = [h \in Hosts |-> IF h \in DOMAIN new.snap
                                   THEN new.snap[h].state ELSE host[h]]
       /\ svc' = Inventoried(new.snap)
  /\ ingest' = [ingest EXCEPT ![th] = NoIngest]

\* "database is locked", or any other error; the worker does not send again.
IngestAbort(th) == /\ ingest[th] # NoIngest
                   /\ ingest' = [ingest EXCEPT ![th] = NoIngest]
                   /\ UNCHANGED <<scan, changes, host, svc>>

\* The orchestrator stops and starts again.
IngestRestart == /\ ingest' = [th \in Threads |-> NoIngest]
                 /\ UNCHANGED <<scan, changes, host, svc>>

InventoryNext ==
  \/ IngestRestart
  \/ \E th \in Threads :
       \/ \E t \in Targets, s \in Starts, snap \in Reported : IngestRead(th, t, s, snap)
       \/ IngestWrite(th)
       \/ IngestAbort(th)

InventorySpec == InventoryInit /\ [][InventoryNext]_inventoryVars
-----------------------------------------------------------------------------
\* The tables keep their types and every scan its (possibly empty) set of
\* changes: no service gets a state the API's filters do not know.
InventoryTypeOK ==
  /\ scan \in Seq(Scan)
  /\ changes \in Seq(SUBSET Change)
  /\ Len(changes) = Len(scan)
  /\ host \in [Hosts -> {"absent", "up", "down"}]
  /\ svc \in [Hosts -> [Ports -> Service]]
  /\ ingest \in [Threads -> Ingest]

LastListing(h, i) == /\ h \in DOMAIN scan[i].snap
                     /\ \A k \in DOMAIN scan : k > i => h \notin DOMAIN scan[k].snap

\* The open services of a host are those of the last ingested result that lists
\* it, whatever target it was a scan of and however handlers interleave: none
\* is left over from an older one (_apply_inventory).
OpenIsLastSeen ==
  \A h \in Hosts, p \in Ports :
    svc[h][p].state = "open" <=>
      \E i \in DOMAIN scan : /\ LastListing(h, i)
                             /\ p \in DOMAIN scan[i].snap[h].ports
                             /\ scan[i].snap[h].ports[p] = svc[h][p].banner

FirstOf(t, i) == i \in ScansOf(t) /\ \A k \in ScansOf(t) : i <= k
LastOf(t, i) == i \in ScansOf(t) /\ \A k \in ScansOf(t) : k <= i

\* Change i says of h that it is up, or of its port p that it is open; the
\* first scan of a target is what its log starts from.
SaysUp(t, i, h) == \/ FirstOf(t, i) /\ h \in Up(scan[i].snap)
                   \/ \E c \in changes[i] : c.kind = "host.up" /\ c.host = h
SaysDown(i, h) == Changed("host.down", h, {}) \in changes[i]
SaysOpen(t, i, h, p) ==
  \/ FirstOf(t, i) /\ p \in Open(scan[i].snap, h)
  \/ \E c \in changes[i] : /\ c.kind \in {"host.up", "port.open"}
                           /\ c.host = h
                           /\ p \in c.ports
SaysShut(i, h, p) == SaysDown(i, h) \/ Changed("port.close", h, {p}) \in changes[i]

InOrder(t) == \A i, k \in ScansOf(t) : i < k => scan[i].started < scan[k].started
NeverEmpty(t) == \A i \in ScansOf(t) : scan[i].snap # NoSnapshot

LogTells(t) ==
  \A i \in ScansOf(t) : LastOf(t, i) =>
    \A h \in Hosts :
      /\ h \in Up(scan[i].snap) <=>
           \E k \in ScansOf(t) : /\ SaysUp(t, k, h)
                                 /\ \A l \in ScansOf(t) : l > k => ~ SaysDown(l, h)
      /\ \A p \in Ports :
           p \in Open(scan[i].snap, h) <=>
             \E k \in ScansOf(t) : /\ SaysOpen(t, k, h, p)
                                   /\ \A l \in ScansOf(t) : l > k => ~ SaysShut(l, h, p)

\* The first n scans leave s to compare the next scan of t with.
Base(n, t, s) ==
  LET earlier == ScansOf(t) \cap 1 .. n IN
  \/ earlier = {} /\ s = NoSnapshot
  \/ \E i \in earlier : /\ \A k \in earlier : scan[k].started <= scan[i].started
                        /\ s = scan[i].snap

ComparedAfter(n, i) ==
  \E s \in {scan[k].snap : k \in 1 .. n} \cup {NoSnapshot} :
    Base(n, scan[i].target, s) /\ changes[i] = Recorded(s, scan[i].snap)

\* However handlers interleave and in whatever order results come, a scan is
\* compared with the one of its target that started last among those stored at
\* some moment before: stale at worst, never another target's and never itself
\* (_previous_snapshot is read before the INSERT takes the lock).
ComparedWithStored == \A i \in DOMAIN scan : \E n \in 0 .. i - 1 : ComparedAfter(n, i)

\* Every scan of t was compared with what was stored just before it.
ComparedInTurn(t) == \A i \in ScansOf(t) : ComparedAfter(i - 1, i)

\* When the results of a target are ingested in the order of their start, no two
\* at once and none of them empty, its change log tells exactly which hosts are
\* up and which ports are open by now: nothing is reported twice, missed or
\* reported against the wrong scan (_previous_snapshot, diff_snapshots).
LogTellsNewest ==
  \A t \in Targets : InOrder(t) /\ NeverEmpty(t) /\ ComparedInTurn(t) => LogTells(t)

\* The inventory, seen as the ledger it is meant to be.
OpenServices ==
  [h \in Hosts |-> [p \in {q \in Ports : svc[h][q].state = "open"} |-> svc[h][p].banner]]

Ledger == INSTANCE Ledger WITH
  Results <- Scan,
  NoPorts <- [p \in {} |-> Unnamed],
  open <- OpenServices

\* Handlers that read, wait, fail and restart in any order store each result as
\* if it came alone: with its changes and its services, or not at all; and what
\* is open changes with a stored result only, so not with a batch of enrichment.
ImplementsLedger == Ledger!Spec

\* Only the first scan of a target has nothing to be compared with (the comment
\* in _record_changes): in any later one a host that the scan before did not
\* see up is reported.
ReturnsReported ==
  \A t \in Targets : InOrder(t) =>
    \A i, k \in ScansOf(t) :
      /\ k < i
      /\ \A l \in ScansOf(t) : l <= k \/ i <= l
      => \A h \in Up(scan[i].snap) \ Up(scan[k].snap) : SaysUp(t, i, h)
=============================================================================
