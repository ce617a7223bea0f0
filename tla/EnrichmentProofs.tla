-------------------------- MODULE EnrichmentProofs --------------------------
(* Proofs about enrichment beside ingestion, for every number of hosts,      *)
(* ports, versions, CVEs and threads, every batch size and every provider.   *)
EXTENDS Enrichment, InventoryProofs

\* What is not a step of ingestion leaves the inventory alone or commits a batch.
LEMMA StepKinds ==
  ASSUME [EnrichmentNext]_enrichmentVars
  PROVE  EnrichCommit \/ [InventoryNext]_inventoryVars
<1>1. CASE EnrichSelect \/ EnrichAbort \/ \E s \in Services : EnrichOne(s)
  BY <1>1 DEF EnrichSelect, EnrichAbort, EnrichOne, LookupCached, LookupAnswered,
              LookupOutage, LookupRaised, Enriched
<1>2. CASE EnrichmentRestart \/ \E th \in Threads : IngestStep(th)
  BY <1>2 DEF EnrichmentRestart, IngestStep, InventoryNext
<1>3. CASE UNCHANGED enrichmentVars
  BY <1>3 DEF enrichmentVars
<1> QED
  BY <1>1, <1>2, <1>3 DEF EnrichmentNext

\* The banners a batch loaded.
LEMMA BannersTyped ==
  ASSUME NEW v \in LoadedBanners
  PROVE  /\ DOMAIN v \subseteq Services
         /\ \A s \in DOMAIN v : v[s] \in Banners
BY DEF LoadedBanners

\* A batch that is one has the parts of a batch.
LEMMA BatchParts ==
  ASSUME batch \in Batch, batch # NoBatch
  PROVE  /\ batch = [op |-> "batch", loaded |-> batch.loaded, todo |-> batch.todo,
                     finding |-> batch.finding, cache |-> batch.cache]
         /\ batch.op = "batch" /\ batch.loaded \in LoadedBanners
         /\ batch.todo \in SUBSET Services
         /\ batch.finding \in Findings /\ batch.cache \in CveCache
BY DEF Batch

\* The findings of a service after a lookup: those of the answer it lacked are new.
LEMMA WithFindingsRows ==
  ASSUME NEW rows \in Findings, NEW h0 \in Hosts, NEW p0 \in Ports,
         NEW answer \in SUBSET Cves, NEW new,
         new = WithFindings(rows, <<h0, p0>>, answer)
  PROVE  /\ new \in Findings
         /\ \A h \in Hosts, p \in Ports, c \in Cves :
              new[h][p][c] =
                IF h = h0 /\ p = p0 /\ c \in answer /\ rows[h][p][c] = 0
                THEN 1 ELSE rows[h][p][c]
<1> DEFINE row == [c \in Cves |-> IF c \in answer /\ rows[h0][p0][c] = 0
                                  THEN 1 ELSE rows[h0][p0][c]]
<1>1. row \in [Cves -> Nat]
  BY DEF Findings
<1>2. WithFindings(rows, <<h0, p0>>, answer) = [rows EXCEPT ![h0][p0] = row]
  BY DEF WithFindings
<1>3. \A c \in Cves : row[c] = IF c \in answer /\ rows[h0][p0][c] = 0
                               THEN 1 ELSE rows[h0][p0][c]
  OBVIOUS
<1> HIDE DEF row
<1>4. [rows EXCEPT ![h0][p0] = row] \in Findings
  BY <1>1 DEF Findings
<1>5. \A h \in Hosts, p \in Ports :
        [rows EXCEPT ![h0][p0] = row][h][p] = IF h = h0 /\ p = p0 THEN row ELSE rows[h][p]
  BY DEF Findings
<1>6. \A h \in Hosts, p \in Ports : new[h][p] = IF h = h0 /\ p = p0 THEN row ELSE rows[h][p]
  BY <1>2, <1>5
<1> QED
  BY <1>2, <1>3, <1>4, <1>6

\* Where the answer of a lookup comes from and what goes into the cache.
Provenance(s, answer, cached) ==
  \/ /\ answer \in batch.cache[CacheKey(s)]
     /\ cached = batch.cache
     /\ unanswered' = unanswered
  \/ /\ answer = Known[batch.loaded[s]]
     /\ cached = [batch.cache EXCEPT ![CacheKey(s)] = {answer}]
     /\ unanswered' = unanswered
  \/ /\ answer = {}
     /\ cached \in {batch.cache, [batch.cache EXCEPT ![CacheKey(s)] = {{}}]}
     /\ unanswered' = unanswered \cup {CacheKey(s)}

\* A lookup has an answer and leaves a session behind.
LEMMA LookupIs ==
  ASSUME EnrichmentTypeOK, NEW s \in Services, EnrichOne(s)
  PROVE  /\ batch # NoBatch /\ s \in batch.todo
         /\ \E answer \in SUBSET Cves, cached \in CveCache :
              /\ batch' = [batch EXCEPT !.todo = @ \ {s},
                                        !.finding = WithFindings(@, s, answer),
                                        !.cache = cached]
              /\ Provenance(s, answer, cached)
         /\ UNCHANGED <<scan, changes, host, svc, ingest, finding, cache, overtaken>>
<1>1. batch # NoBatch /\ s \in batch.todo
  BY DEF EnrichOne
<1>2. batch.loaded[s] \in Banners /\ batch.cache \in CveCache
  BY <1>1, BatchParts, BannersTyped DEF EnrichmentTypeOK
<1>3. /\ CacheKey(s) \in Keys /\ Known[batch.loaded[s]] \in SUBSET Cves
      /\ \A answer \in SUBSET Cves :
           [batch.cache EXCEPT ![CacheKey(s)] = {answer}] \in CveCache
      /\ \A answer \in batch.cache[CacheKey(s)] : answer \in SUBSET Cves
  BY <1>2, QueryKeyAssumption, KnownAssumption DEF CacheKey, CveCache
<1>4. UNCHANGED <<scan, changes, host, svc, ingest, finding, cache, overtaken>>
  BY DEF EnrichOne, LookupCached, LookupAnswered, LookupOutage, LookupRaised,
         Enriched, inventoryVars
<1>5. CASE LookupCached(s)
  BY <1>1, <1>2, <1>3, <1>4, <1>5 DEF LookupCached, Enriched, Provenance
<1>6. CASE LookupAnswered(s)
  BY <1>1, <1>2, <1>3, <1>4, <1>6 DEF LookupAnswered, Enriched, Cached, Provenance
<1>7. CASE LookupOutage(s)
  BY <1>1, <1>2, <1>3, <1>4, <1>7 DEF LookupOutage, Enriched, Cached, Provenance
<1>8. CASE LookupRaised(s)
  BY <1>1, <1>2, <1>3, <1>4, <1>8 DEF LookupRaised, Enriched, Provenance
<1> QED
  BY <1>5, <1>6, <1>7, <1>8 DEF EnrichOne

\* A lookup keeps the parts of a batch in their types.
LEMMA LookupTyped ==
  ASSUME EnrichmentTypeOK, NEW s \in Services, EnrichOne(s)
  PROVE  EnrichmentTypeOK'
<1>1. PICK answer \in SUBSET Cves, cached \in CveCache :
        batch' = [batch EXCEPT !.todo = @ \ {s},
                               !.finding = WithFindings(@, s, answer),
                               !.cache = cached]
  BY LookupIs
<1>2. batch # NoBatch /\ batch \in Batch
  BY LookupIs DEF EnrichmentTypeOK
<1>3. PICK h \in Hosts, p \in Ports : s = <<h, p>>
  BY DEF Services
<1>4. PICK new : new = WithFindings(batch.finding, s, answer)
  OBVIOUS
<1>5. new \in Findings
  BY <1>2, <1>3, <1>4, BatchParts, WithFindingsRows
<1>6. batch' = [op |-> "batch", loaded |-> batch.loaded, todo |-> batch.todo \ {s},
                finding |-> new, cache |-> cached]
  BY <1>1, <1>2, <1>4, BatchParts
<1>7. batch' \in Batch
  BY <1>2, <1>5, <1>6, BatchParts DEF Batch
<1>8. batch'.todo \subseteq DOMAIN batch'.loaded
  BY <1>2, <1>6 DEF EnrichmentTypeOK
<1>9. unanswered' \in SUBSET Keys
  <2>1. CacheKey(s) \in Keys
    BY <1>2, BatchParts, BannersTyped, LookupIs, QueryKeyAssumption
       DEF CacheKey, EnrichmentTypeOK
  <2> QED
    BY <2>1, LookupIs DEF EnrichmentTypeOK, Provenance
<1>10. InventoryTypeOK'
  BY LookupIs DEF EnrichmentTypeOK, InventoryTypeOK
<1> QED
  BY <1>7, <1>8, <1>9, <1>10, LookupIs DEF EnrichmentTypeOK

\* A commit changes the flags of the services it loaded and nothing else of a row.
LEMMA CommitRows ==
  ASSUME InventoryTypeOK, EnrichCommit
  PROVE  /\ svc' \in [Hosts -> [Ports -> Service]]
         /\ \A h \in Hosts, p \in Ports :
              /\ svc'[h][p].state = svc[h][p].state
              /\ svc'[h][p].banner = svc[h][p].banner
              /\ svc'[h][p].needsCve = IF <<h, p>> \in DOMAIN batch.loaded
                                       THEN FALSE ELSE svc[h][p].needsCve
<1>1. svc' = [h \in Hosts |-> [p \in Ports |->
                IF <<h, p>> \in DOMAIN batch.loaded
                THEN [svc[h][p] EXCEPT !.needsCve = FALSE] ELSE svc[h][p]]]
  BY DEF EnrichCommit, Cleared, Row
<1>2. \A row \in Service : /\ [row EXCEPT !.needsCve = FALSE] \in Service
                           /\ [row EXCEPT !.needsCve = FALSE].state = row.state
                           /\ [row EXCEPT !.needsCve = FALSE].banner = row.banner
                           /\ [row EXCEPT !.needsCve = FALSE].needsCve = FALSE
  BY DEF Service
<1> QED
  BY <1>1, <1>2 DEF InventoryTypeOK

\* Every step keeps the types.
LEMMA EnrichmentTypesStep ==
  ASSUME EnrichmentTypeOK, [EnrichmentNext]_enrichmentVars
  PROVE  EnrichmentTypeOK'
<1>1. CASE EnrichSelect
  <2>1. PICK S \in SUBSET Flagged :
          batch' = [op |-> "batch", loaded |-> [s \in S |-> Row(s).banner],
                    todo |-> S, finding |-> finding, cache |-> cache]
    BY <1>1 DEF EnrichSelect
  <2>2. S \in SUBSET Services
    BY <2>1 DEF Flagged
  <2>3. \A s \in S : Row(s).banner \in Banners
    BY <2>2 DEF Services, Row, EnrichmentTypeOK, InventoryTypeOK, Service
  <2>4. [s \in S |-> Row(s).banner] \in LoadedBanners
    BY <2>2, <2>3 DEF LoadedBanners
  <2>5. batch' \in Batch
    BY <2>1, <2>2, <2>4 DEF Batch, EnrichmentTypeOK
  <2>6. batch'.todo \subseteq DOMAIN batch'.loaded
    BY <2>1
  <2>7. UNCHANGED <<scan, changes, host, svc, ingest, finding, cache, unanswered, overtaken>>
    BY <1>1 DEF EnrichSelect, inventoryVars
  <2> QED
    BY <2>5, <2>6, <2>7 DEF EnrichmentTypeOK, InventoryTypeOK
<1>2. ASSUME NEW s \in Services, EnrichOne(s) PROVE EnrichmentTypeOK'
  BY <1>2, LookupTyped
<1>3. CASE EnrichCommit
  <2>1. InventoryTypeOK'
    BY <1>3, CommitRows DEF EnrichmentTypeOK, InventoryTypeOK, EnrichCommit
  <2>2. finding' \in Findings /\ cache' \in CveCache /\ batch' = NoBatch
    BY <1>3, BatchParts DEF EnrichCommit, EnrichmentTypeOK
  <2>3. overtaken' \in [Hosts -> [Ports -> SUBSET {Version[b] : b \in Banners}]]
    <3>1. \A h \in Hosts, p \in Ports : svc[h][p].banner \in Banners
      BY DEF EnrichmentTypeOK, InventoryTypeOK, Service
    <3> QED
      BY <1>3, <3>1 DEF EnrichCommit, EnrichmentTypeOK
  <2> QED
    BY <1>3, <2>1, <2>2, <2>3 DEF EnrichmentTypeOK, Batch, EnrichCommit
<1>4. CASE EnrichAbort
  BY <1>4 DEF EnrichAbort, inventoryVars, EnrichmentTypeOK, InventoryTypeOK, Batch
<1>5. CASE EnrichmentRestart
  <2>1. InventoryTypeOK'
    BY <1>5, InventoryTypesStep DEF EnrichmentRestart, InventoryNext, EnrichmentTypeOK
  <2> QED
    BY <1>5, <2>1 DEF EnrichmentRestart, EnrichmentTypeOK, Batch
<1>6. CASE \E th \in Threads : IngestStep(th)
  <2>1. InventoryTypeOK'
    BY <1>6, InventoryTypesStep DEF IngestStep, InventoryNext, EnrichmentTypeOK
  <2> QED
    BY <1>6, <2>1 DEF IngestStep, enrichVars, EnrichmentTypeOK
<1>7. CASE UNCHANGED enrichmentVars
  BY <1>7 DEF enrichmentVars, inventoryVars, enrichVars, EnrichmentTypeOK, InventoryTypeOK
<1> QED
  BY <1>1, <1>2, <1>3, <1>4, <1>5, <1>6, <1>7 DEF EnrichmentNext

\* The tables and the batch keep their types.
THEOREM EnrichmentTypes == EnrichmentSpec => []EnrichmentTypeOK
<1>1. EnrichmentInit => EnrichmentTypeOK
  BY InventoryTypesInit DEF EnrichmentInit, EnrichmentTypeOK, Findings, CveCache, Batch
<1>2. EnrichmentTypeOK /\ [EnrichmentNext]_enrichmentVars => EnrichmentTypeOK'
  BY EnrichmentTypesStep
<1> QED
  BY <1>1, <1>2, PTL DEF EnrichmentSpec
-----------------------------------------------------------------------------
\* Beside enrichment too, the open services of a host are those seen last.
THEOREM OpenIsLastSeenBesideBatches == EnrichmentSpec => []OpenIsLastSeen
<1>1. EnrichmentInit => OpenIsLastSeen
  BY OpenIsLastSeenInit DEF EnrichmentInit
<1>2. EnrichmentTypeOK /\ OpenIsLastSeen /\ [EnrichmentNext]_enrichmentVars
        => OpenIsLastSeen'
  <2> SUFFICES ASSUME EnrichmentTypeOK, OpenIsLastSeen, [EnrichmentNext]_enrichmentVars
               PROVE  OpenIsLastSeen'
    OBVIOUS
  <2>1. CASE EnrichCommit
    <3>1. scan' = scan /\ \A h \in Hosts, p \in Ports :
                            /\ svc'[h][p].state = svc[h][p].state
                            /\ svc'[h][p].banner = svc[h][p].banner
      BY <2>1, CommitRows DEF EnrichCommit, EnrichmentTypeOK
    <3> QED
      BY <3>1 DEF OpenIsLastSeen, LastListing
  <2>2. CASE [InventoryNext]_inventoryVars
    BY <2>2, OpenIsLastSeenStep DEF EnrichmentTypeOK
  <2> QED
    BY <2>1, <2>2, StepKinds
<1> QED
  BY <1>1, <1>2, EnrichmentTypes, PTL DEF EnrichmentSpec

\* Beside enrichment too, every step keeps what ingestion has loaded and compared.
LEMMA ComparedBesideBatches ==
  EnrichmentSpec => [](LoadedFromStored /\ ComparedWithStored)
<1>1. EnrichmentInit => LoadedFromStored /\ ComparedWithStored
  BY ComparedWithStoredInit DEF EnrichmentInit
<1>2. /\ EnrichmentTypeOK /\ LoadedFromStored /\ ComparedWithStored
      /\ [EnrichmentNext]_enrichmentVars
      => (LoadedFromStored /\ ComparedWithStored)'
  <2> SUFFICES ASSUME EnrichmentTypeOK, LoadedFromStored, ComparedWithStored,
                      [EnrichmentNext]_enrichmentVars
               PROVE  (LoadedFromStored /\ ComparedWithStored)'
    OBVIOUS
  <2>1. CASE EnrichCommit
    BY <2>1 DEF EnrichCommit, LoadedFromStored, Loaded, ComparedWithStored,
                ComparedAfter, Base, ScansOf
  <2>2. CASE [InventoryNext]_inventoryVars
    BY <2>2, ComparedWithStoredStep DEF EnrichmentTypeOK
  <2> QED
    BY <2>1, <2>2, StepKinds
<1> QED
  BY <1>1, <1>2, EnrichmentTypes, PTL DEF EnrichmentSpec

\* Beside enrichment too, the change log of a target whose results came in order,
\* in turn and never empty tells what is up and open by now.
THEOREM LogTellsNewestBesideBatches == EnrichmentSpec => []LogTellsNewest
<1>1. EnrichmentInit => LogTellsNewest
  BY LogTellsNewestInit DEF EnrichmentInit
<1>2. /\ EnrichmentTypeOK /\ EnrichmentTypeOK' /\ LogTellsNewest
      /\ [EnrichmentNext]_enrichmentVars
      => LogTellsNewest'
  <2> SUFFICES ASSUME EnrichmentTypeOK, EnrichmentTypeOK', LogTellsNewest,
                      [EnrichmentNext]_enrichmentVars
               PROVE  LogTellsNewest'
    OBVIOUS
  <2>1. CASE EnrichCommit
    BY <2>1, LogStays DEF EnrichCommit
  <2>2. CASE [InventoryNext]_inventoryVars
    BY <2>2, LogTellsNewestStep DEF EnrichmentTypeOK
  <2> QED
    BY <2>1, <2>2, StepKinds
<1> QED
  BY <1>1, <1>2, EnrichmentTypes, PTL DEF EnrichmentSpec

\* Batches of enrichment, whenever they are loaded, committed or rolled back, are
\* no steps of the ledger: results are stored whole beside them, and what is open
\* changes with results only.
THEOREM EnrichmentIsLedger == EnrichmentSpec => ImplementsLedger
<1>1. EnrichmentInit => Ledger!Init
  BY LedgerInit DEF EnrichmentInit
<1>2. EnrichmentTypeOK /\ LoadedFromStored /\ [EnrichmentNext]_enrichmentVars
        => [Ledger!Next]_(Ledger!vars)
  <2> SUFFICES ASSUME EnrichmentTypeOK, LoadedFromStored,
                      [EnrichmentNext]_enrichmentVars
               PROVE  [Ledger!Next]_(Ledger!vars)
    OBVIOUS
  <2>1. CASE EnrichCommit
    <3>1. scan' = scan /\ changes' = changes
      BY <2>1 DEF EnrichCommit
    <3>2. \A h \in Hosts, p \in Ports : /\ svc'[h][p].state = svc[h][p].state
                                       /\ svc'[h][p].banner = svc[h][p].banner
      BY <2>1, CommitRows DEF EnrichmentTypeOK
    <3>3. OpenServices' = OpenServices
      BY <3>2 DEF OpenServices
    <3> QED
      BY <3>1, <3>3 DEF Ledger!vars
  <2>2. CASE [InventoryNext]_inventoryVars
    BY <2>2, LedgerStep DEF EnrichmentTypeOK
  <2> QED
    BY <2>1, <2>2, StepKinds
<1> QED
  BY <1>1, <1>2, ComparedBesideBatches, EnrichmentTypes, PTL
     DEF EnrichmentSpec, ImplementsLedger, Ledger!Spec
-----------------------------------------------------------------------------
\* What a step does to the tables and to the batch: it leaves both alone or
\* forgets the batch, loads one, looks a service up, or commits.
LEMMA TableSteps ==
  ASSUME [EnrichmentNext]_enrichmentVars
  PROVE  \/ /\ UNCHANGED <<finding, cache, unanswered, overtaken>>
            /\ batch' \in {batch, NoBatch}
            /\ [InventoryNext]_inventoryVars
         \/ EnrichSelect
         \/ \E s \in Services : EnrichOne(s)
         \/ EnrichCommit
<1>1. CASE EnrichAbort \/ EnrichmentRestart
  BY <1>1 DEF EnrichAbort, EnrichmentRestart, InventoryNext
<1>2. CASE \E th \in Threads : IngestStep(th)
  BY <1>2 DEF IngestStep, InventoryNext, enrichVars
<1>3. CASE UNCHANGED enrichmentVars
  BY <1>3 DEF enrichmentVars, enrichVars
<1> QED
  BY <1>1, <1>2, <1>3 DEF EnrichmentNext

\* A batch just loaded sees the tables as they are.
LEMMA SelectIs ==
  ASSUME EnrichSelect
  PROVE  /\ batch' # NoBatch /\ batch'.finding = finding /\ batch'.cache = cache
         /\ batch'.todo = DOMAIN batch'.loaded
         /\ batch'.todo \in SUBSET Flagged
         /\ \A s \in DOMAIN batch'.loaded : batch'.loaded[s] = Row(s).banner
         /\ UNCHANGED <<scan, changes, host, svc, ingest, finding, cache,
                        unanswered, overtaken>>
<1>1. PICK S \in SUBSET Flagged :
        batch' = [op |-> "batch", loaded |-> [s \in S |-> Row(s).banner],
                  todo |-> S, finding |-> finding, cache |-> cache]
  BY DEF EnrichSelect
<1>2. batch' # NoBatch
  BY <1>1 DEF NoBatch
<1> QED
  BY <1>1, <1>2 DEF EnrichSelect, inventoryVars

\* A lookup at (h0, p0): the findings of the batch afterwards, row by row.
LEMMA LookupRows ==
  ASSUME EnrichmentTypeOK, NEW h0 \in Hosts, NEW p0 \in Ports, EnrichOne(<<h0, p0>>)
  PROVE  /\ batch # NoBatch /\ <<h0, p0>> \in batch.todo /\ batch' # NoBatch
         /\ batch'.loaded = batch.loaded /\ batch'.todo = batch.todo \ {<<h0, p0>>}
         /\ \E answer \in SUBSET Cves :
              /\ Provenance(<<h0, p0>>, answer, batch'.cache)
              /\ \A h \in Hosts, p \in Ports, c \in Cves :
                   batch'.finding[h][p][c] =
                     IF h = h0 /\ p = p0 /\ c \in answer /\ batch.finding[h][p][c] = 0
                     THEN 1 ELSE batch.finding[h][p][c]
<1>1. <<h0, p0>> \in Services /\ batch \in Batch
  BY DEF Services, EnrichmentTypeOK
<1>2. batch # NoBatch /\ <<h0, p0>> \in batch.todo
  BY <1>1, LookupIs
<1>3. PICK answer \in SUBSET Cves, cached \in CveCache :
        /\ batch' = [batch EXCEPT !.todo = @ \ {<<h0, p0>>},
                                  !.finding = WithFindings(@, <<h0, p0>>, answer),
                                  !.cache = cached]
        /\ Provenance(<<h0, p0>>, answer, cached)
  BY <1>1, LookupIs
<1>4. PICK new : new = WithFindings(batch.finding, <<h0, p0>>, answer)
  OBVIOUS
<1>5. batch' = [op |-> "batch", loaded |-> batch.loaded,
                todo |-> batch.todo \ {<<h0, p0>>}, finding |-> new, cache |-> cached]
  BY <1>1, <1>2, <1>3, <1>4, BatchParts
<1>6. /\ batch' # NoBatch
      /\ batch'.finding = new /\ batch'.loaded = batch.loaded /\ batch'.cache = cached
      /\ batch'.todo = batch.todo \ {<<h0, p0>>}
  BY <1>5 DEF NoBatch
<1>7. \A h \in Hosts, p \in Ports, c \in Cves :
        new[h][p][c] = IF h = h0 /\ p = p0 /\ c \in answer /\ batch.finding[h][p][c] = 0
                       THEN 1 ELSE batch.finding[h][p][c]
  BY <1>1, <1>2, <1>4, BatchParts, WithFindingsRows
<1> QED
  BY <1>2, <1>3, <1>6, <1>7

AtMostOne(rows) == \A h \in Hosts, p \in Ports, c \in Cves : rows[h][p][c] <= 1

\* A service has one finding per CVE, in the table and in the batch's session.
THEOREM FindingIsOnce == EnrichmentSpec => []FindingOnce
<1> DEFINE Inv == AtMostOne(finding) /\ (batch # NoBatch => AtMostOne(batch.finding))
<1>1. EnrichmentInit => Inv
  BY DEF EnrichmentInit, AtMostOne
<1>2. EnrichmentTypeOK /\ Inv /\ [EnrichmentNext]_enrichmentVars => Inv'
  <2> SUFFICES ASSUME EnrichmentTypeOK, Inv, [EnrichmentNext]_enrichmentVars
               PROVE  Inv'
    OBVIOUS
  <2>1. CASE UNCHANGED finding /\ batch' \in {batch, NoBatch}
    BY <2>1 DEF AtMostOne
  <2>2. CASE EnrichSelect
    BY <2>2, SelectIs DEF AtMostOne
  <2>3. ASSUME NEW s \in Services, EnrichOne(s) PROVE Inv'
    <3>1. PICK h0 \in Hosts, p0 \in Ports : s = <<h0, p0>>
      BY DEF Services
    <3>2. EnrichOne(<<h0, p0>>)
      BY <2>3, <3>1
    <3>3. AtMostOne(batch'.finding)
      BY <3>2, LookupRows DEF AtMostOne
    <3> QED
      BY <2>3, <3>3, LookupIs DEF AtMostOne
  <2>4. CASE EnrichCommit
    BY <2>4 DEF EnrichCommit, AtMostOne
  <2> QED
    BY <2>1, <2>2, <2>3, <2>4, TableSteps
<1>3. Inv => FindingOnce
  BY DEF AtMostOne, FindingOnce
<1> QED
  BY <1>1, <1>2, <1>3, EnrichmentTypes, PTL DEF EnrichmentSpec
-----------------------------------------------------------------------------
FromScans(rows) ==
  \A h \in Hosts, p \in Ports, c \in Cves :
    rows[h][p][c] > 0 => \E b \in Banners : Seen(h, p, b) /\ c \in Known[b]

RightAnswers(table) ==
  \A b \in Banners : \A answer \in table[QueryKey[b]] : answer \subseteq Known[b]

\* What is stored and what a batch holds comes from what scans saw: the strengthening
\* that FindingsFromBanner needs.
Grounded ==
  /\ \A h \in Hosts, p \in Ports :
       svc[h][p].banner # Unnamed => Seen(h, p, svc[h][p].banner)
  /\ FromScans(finding)
  /\ RightAnswers(cache)
  /\ batch # NoBatch =>
       /\ \A h \in Hosts, p \in Ports :
            <<h, p>> \in DOMAIN batch.loaded => Seen(h, p, batch.loaded[<<h, p>>])
       /\ FromScans(batch.finding)
       /\ RightAnswers(batch.cache)

\* Stored scans stay stored.
LEMMA SeenStays ==
  ASSUME InventoryTypeOK, [InventoryNext]_inventoryVars,
         NEW h \in Hosts, NEW p \in Ports, NEW b, Seen(h, p, b)
  PROVE  Seen(h, p, b)'
<1>1. CASE UNCHANGED scan
  BY <1>1 DEF Seen
<1>2. ASSUME NEW th \in Threads, IngestWrite(th) PROVE Seen(h, p, b)'
  <2>1. PICK new \in Scan : scan' = Append(scan, new)
    BY <1>2 DEF IngestWrite, InventoryTypeOK, Ingest
  <2>2. \A i \in DOMAIN scan : i \in DOMAIN scan' /\ scan'[i] = scan[i]
    BY <2>1, LenProperties, AppendProperties DEF InventoryTypeOK
  <2> QED
    BY <2>2 DEF Seen
<1> QED
  BY <1>1, <1>2
     DEF InventoryNext, IngestRead, IngestAbort, IngestRestart, inventoryVars

\* A row changes its banner only to one of the result being stored, and its version
\* only together with the flag.
LEMMA RowsSeen ==
  ASSUME InventoryTypeOK, [InventoryNext]_inventoryVars,
         NEW h \in Hosts, NEW p \in Ports
  PROVE  \/ /\ svc'[h][p].banner = svc[h][p].banner
            /\ svc'[h][p].needsCve = svc[h][p].needsCve
         \/ /\ Seen(h, p, svc[h][p].banner)'
            /\ \/ svc'[h][p].banner # Unnamed => svc'[h][p].needsCve
               \/ /\ Version[svc'[h][p].banner] = Version[svc[h][p].banner]
                  /\ svc'[h][p].needsCve = svc[h][p].needsCve
<1>1. CASE UNCHANGED svc
  BY <1>1
<1>2. ASSUME NEW th \in Threads, IngestWrite(th)
      PROVE  \/ /\ svc'[h][p].banner = svc[h][p].banner
                /\ svc'[h][p].needsCve = svc[h][p].needsCve
             \/ /\ Seen(h, p, svc[h][p].banner)'
                /\ \/ svc'[h][p].banner # Unnamed => svc'[h][p].needsCve
                   \/ /\ Version[svc'[h][p].banner] = Version[svc[h][p].banner]
                      /\ svc'[h][p].needsCve = svc[h][p].needsCve
  <2>1. PICK new \in Scan : scan' = Append(scan, new) /\ svc' = Inventoried(new.snap)
    BY <1>2 DEF IngestWrite, InventoryTypeOK, Ingest
  <2>2. PICK n \in DOMAIN scan' : scan'[n] = new
    <3>1. /\ Len(scan) \in Nat /\ DOMAIN scan' = 1 .. Len(scan) + 1
          /\ scan'[Len(scan) + 1] = new
      BY <2>1, LenProperties, AppendProperties DEF InventoryTypeOK
    <3> QED
      BY <3>1
  <2>3. svc'[h][p] = IF h \notin DOMAIN new.snap THEN svc[h][p]
                     ELSE IF p \in DOMAIN new.snap[h].ports
                          THEN Observed(svc[h][p], new.snap[h].ports[p])
                          ELSE Unseen(svc[h][p])
    BY <2>1 DEF Inventoried
  <2>4. svc[h][p] \in Service
    BY DEF InventoryTypeOK
  <2>5. CASE h \in DOMAIN new.snap /\ p \in DOMAIN new.snap[h].ports
    <3>1. Seen(h, p, new.snap[h].ports[p])'
      BY <2>2, <2>5 DEF Seen
    <3>2. svc'[h][p] = Observed(svc[h][p], new.snap[h].ports[p])
      BY <2>3, <2>5
    <3>3. /\ svc'[h][p].banner = new.snap[h].ports[p]
          /\ \/ svc'[h][p].needsCve = (svc'[h][p].banner # Unnamed)
             \/ /\ Version[svc'[h][p].banner] = Version[svc[h][p].banner]
                /\ svc'[h][p].needsCve = svc[h][p].needsCve
      BY <3>2 DEF Observed
    <3>4. Seen(h, p, svc[h][p].banner)'
      BY <3>1, <3>3 DEF Seen
    <3> QED
      BY <3>3, <3>4
  <2>6. CASE ~ (h \in DOMAIN new.snap /\ p \in DOMAIN new.snap[h].ports)
    BY <2>3, <2>4, <2>6 DEF Unseen, Service
  <2> QED
    BY <2>5, <2>6
<1> QED
  BY <1>1, <1>2
     DEF InventoryNext, IngestRead, IngestAbort, IngestRestart, inventoryVars

\* A lookup brings in CVEs of the banner the batch loaded and nothing else.
LEMMA LookupGrounded ==
  ASSUME EnrichmentTypeOK, Grounded, NEW h0 \in Hosts, NEW p0 \in Ports,
         EnrichOne(<<h0, p0>>)
  PROVE  Grounded'
<1> DEFINE b0 == batch.loaded[<<h0, p0>>]
<1>1. /\ batch # NoBatch /\ <<h0, p0>> \in DOMAIN batch.loaded
      /\ b0 \in Banners /\ Seen(h0, p0, b0) /\ batch.cache \in CveCache
  BY LookupRows, BatchParts, BannersTyped DEF EnrichmentTypeOK, Grounded
<1>2. PICK answer \in SUBSET Cves :
        /\ Provenance(<<h0, p0>>, answer, batch'.cache)
        /\ \A h \in Hosts, p \in Ports, c \in Cves :
             batch'.finding[h][p][c] =
               IF h = h0 /\ p = p0 /\ c \in answer /\ batch.finding[h][p][c] = 0
               THEN 1 ELSE batch.finding[h][p][c]
  BY LookupRows
<1>3. UNCHANGED <<scan, svc, finding, cache>> /\ batch'.loaded = batch.loaded
  <2>1. <<h0, p0>> \in Services
    BY DEF Services
  <2> QED
    BY <2>1, LookupIs, LookupRows
<1>4. answer \subseteq Known[b0] /\ RightAnswers(batch'.cache)
  <2>1. RightAnswers(batch.cache) /\ CacheKey(<<h0, p0>>) = QueryKey[b0]
    BY <1>1 DEF Grounded, CacheKey
  <2>2. QueryKey[b0] \in Keys
    BY <1>1, QueryKeyAssumption
  <2>3. ASSUME NEW a \in SUBSET Cves, a \subseteq Known[b0],
               batch'.cache = [batch.cache EXCEPT ![QueryKey[b0]] = {a}]
        PROVE  RightAnswers(batch'.cache)
    <3>1. \A b \in Banners : QueryKey[b] = QueryKey[b0] => Known[b] = Known[b0]
      BY <1>1, KnownAssumption
    <3>2. \A b \in Banners :
            batch'.cache[QueryKey[b]] = IF QueryKey[b] = QueryKey[b0] THEN {a}
                                        ELSE batch.cache[QueryKey[b]]
      BY <1>1, <2>2, <2>3, QueryKeyAssumption DEF CveCache
    <3> QED
      BY <2>1, <2>3, <3>1, <3>2 DEF RightAnswers
  <2>4. answer \subseteq Known[b0]
    BY <1>1, <1>2, <2>1 DEF Provenance, RightAnswers
  <2> HIDE DEF b0
  <2> QED
    BY <1>2, <2>1, <2>3, <2>4, KnownAssumption DEF Provenance, b0
<1>5. FromScans(batch.finding)
  BY <1>1 DEF Grounded
<1> HIDE DEF b0
<1>6. FromScans(batch'.finding)
  BY <1>1, <1>2, <1>4, <1>5 DEF FromScans
<1>7. FromScans(batch.finding)'
  BY <1>3, <1>6 DEF FromScans, Seen
<1>8. /\ FromScans(finding)' /\ RightAnswers(cache)'
      /\ \A h \in Hosts, p \in Ports :
           svc'[h][p].banner # Unnamed => Seen(h, p, svc[h][p].banner)'
      /\ \A h \in Hosts, p \in Ports :
           <<h, p>> \in DOMAIN batch'.loaded => Seen(h, p, batch.loaded[<<h, p>>])'
  BY <1>1, <1>3 DEF Grounded, FromScans, RightAnswers, Seen
<1> QED
  BY <1>4, <1>7, <1>8 DEF Grounded, FromScans, RightAnswers

\* Everything stored and loaded stays one that a scan saw.
LEMMA AlwaysGrounded == EnrichmentSpec => []Grounded
<1>1. EnrichmentInit => Grounded
  BY QueryKeyAssumption
     DEF EnrichmentInit, InventoryInit, NoService, Grounded, FromScans, RightAnswers
<1>2. EnrichmentTypeOK /\ Grounded /\ [EnrichmentNext]_enrichmentVars => Grounded'
  <2> SUFFICES ASSUME EnrichmentTypeOK, Grounded, [EnrichmentNext]_enrichmentVars
               PROVE  Grounded'
    OBVIOUS
  <2>1. CASE /\ UNCHANGED <<finding, cache>> /\ batch' \in {batch, NoBatch}
             /\ [InventoryNext]_inventoryVars
    <3>1. InventoryTypeOK
      BY DEF EnrichmentTypeOK
    <3>2. \A h \in Hosts, p \in Ports : \A b : Seen(h, p, b) => Seen(h, p, b)'
      BY <2>1, <3>1, SeenStays
    <3>3. \A h \in Hosts, p \in Ports :
            svc'[h][p].banner # Unnamed => Seen(h, p, svc[h][p].banner)'
      <4> TAKE h \in Hosts, p \in Ports
      <4>1. CASE svc'[h][p].banner = svc[h][p].banner
        BY <3>2, <4>1 DEF Grounded, Seen
      <4> QED
        BY <2>1, <3>1, <4>1, RowsSeen
    <3>4. FromScans(finding)' /\ RightAnswers(cache)'
      BY <2>1, <3>2 DEF Grounded, FromScans, RightAnswers
    <3>5. CASE batch' = batch
      <4>1. ASSUME batch # NoBatch PROVE FromScans(batch.finding)'
        BY <3>2, <3>5, <4>1 DEF Grounded, FromScans
      <4>2. ASSUME batch # NoBatch PROVE RightAnswers(batch.cache)'
        BY <3>5, <4>2 DEF Grounded, RightAnswers
      <4>3. ASSUME batch # NoBatch, NEW h \in Hosts, NEW p \in Ports,
                   <<h, p>> \in DOMAIN batch.loaded
            PROVE  Seen(h, p, batch.loaded[<<h, p>>])'
        <5>1. Seen(h, p, batch.loaded[<<h, p>>])
          BY <4>3 DEF Grounded
        <5> QED
          BY <3>2, <3>5, <5>1 DEF Seen
      <4> QED
        BY <3>3, <3>4, <3>5, <4>1, <4>2, <4>3 DEF Grounded
    <3>6. CASE batch' = NoBatch
      BY <3>3, <3>4, <3>6 DEF Grounded
    <3> QED
      BY <2>1, <3>5, <3>6
  <2>2. CASE EnrichSelect
    <3>1. \A h \in Hosts, p \in Ports : <<h, p>> \in DOMAIN batch'.loaded =>
            /\ svc[h][p].banner # Unnamed
            /\ batch'.loaded[<<h, p>>] = svc[h][p].banner
      BY <2>2, SelectIs DEF Flagged, Row
    <3> QED
      BY <2>2, <3>1, SelectIs DEF Grounded, FromScans, RightAnswers, Seen
  <2>3. ASSUME NEW s \in Services, EnrichOne(s) PROVE Grounded'
    BY <2>3, LookupGrounded DEF Services
  <2>4. CASE EnrichCommit
    <3>1. \A h \in Hosts, p \in Ports : svc'[h][p].banner = svc[h][p].banner
      BY <2>4, CommitRows DEF EnrichmentTypeOK
    <3>2. /\ scan' = scan /\ batch' = NoBatch /\ batch # NoBatch
          /\ finding' = batch.finding /\ cache' = batch.cache
      BY <2>4 DEF EnrichCommit
    <3> QED
      BY <3>1, <3>2 DEF Grounded, FromScans, RightAnswers, Seen
  <2> QED
    BY <2>1, <2>2, <2>3, <2>4, TableSteps
<1> QED
  BY <1>1, <1>2, EnrichmentTypes, PTL DEF EnrichmentSpec

\* Every finding is a CVE of a banner that a scan saw on that service.
THEOREM FindingsAreFromBanners == EnrichmentSpec => []FindingsFromBanner
<1>1. Grounded => FindingsFromBanner
  BY DEF Grounded, FromScans, FindingsFromBanner
<1> QED
  BY <1>1, AlwaysGrounded, PTL
-----------------------------------------------------------------------------
HasAll(rows, h, p, b) == \A c \in Known[b] : rows[h][p][c] > 0

FullAnswers(table) ==
  \A b \in Banners : QueryKey[b] \notin unanswered =>
    \A answer \in table[QueryKey[b]] : answer = Known[b]

\* The batch keeps what the table has and adds all of an answer: the strengthening
\* that KnownAreFound needs.
Complete ==
  /\ KnownAreFound
  /\ FullAnswers(cache)
  /\ batch # NoBatch =>
       /\ FullAnswers(batch.cache)
       /\ \A h \in Hosts, p \in Ports, c \in Cves :
            finding[h][p][c] > 0 => batch.finding[h][p][c] > 0
       /\ \A h \in Hosts, p \in Ports :
            /\ <<h, p>> \in DOMAIN batch.loaded
            /\ <<h, p>> \notin batch.todo
            /\ QueryKey[batch.loaded[<<h, p>>]] \notin unanswered
            => HasAll(batch.finding, h, p, batch.loaded[<<h, p>>])

\* What the provider knows of a version under some cpe seen with it is found, or
\* the lookup under that key failed.
FoundFor(h, p, version) ==
  \E b \in Banners : /\ Version[b] = version
                     /\ Seen(h, p, b)
                     /\ QueryKey[b] \in unanswered \/ HasAll(finding, h, p, b)

LEMMA KnownAreFoundIs ==
  KnownAreFound <=>
    \A h \in Hosts, p \in Ports :
      /\ svc[h][p].banner # Unnamed
      /\ ~ svc[h][p].needsCve
      /\ Version[svc[h][p].banner] \notin overtaken[h][p]
      => FoundFor(h, p, Version[svc[h][p].banner])
BY DEF KnownAreFound, FoundFor, HasAll

\* A version is new to a row only together with the flag; a cpe may come alone.
LEMMA IngestComplete ==
  ASSUME EnrichmentTypeOK, Complete, [InventoryNext]_inventoryVars,
         UNCHANGED <<finding, cache, unanswered, overtaken>>, batch' \in {batch, NoBatch}
  PROVE  Complete'
<1>1. InventoryTypeOK /\ InventoryTypeOK'
  BY InventoryTypesStep DEF EnrichmentTypeOK
<1>2. KnownAreFound'
  <2> SUFFICES ASSUME NEW h \in Hosts, NEW p \in Ports, svc'[h][p].banner # Unnamed,
                      ~ svc'[h][p].needsCve,
                      Version[svc'[h][p].banner] \notin overtaken[h][p]
               PROVE  FoundFor(h, p, Version[svc[h][p].banner])'
    BY DEF KnownAreFound, FoundFor, HasAll
  <2>1. /\ Version[svc'[h][p].banner] = Version[svc[h][p].banner]
        /\ svc'[h][p].needsCve = svc[h][p].needsCve
    BY <1>1, RowsSeen
  <2>2. svc[h][p].banner # Unnamed
    <3>1. svc'[h][p].banner \in Banners
      BY <1>1 DEF InventoryTypeOK, Service
    <3> QED
      BY <2>1, <3>1, UnnamedAssumption
  <2>3. FoundFor(h, p, Version[svc[h][p].banner])
    BY <2>1, <2>2, KnownAreFoundIs DEF Complete
  <2>4. \A b : Seen(h, p, b) => Seen(h, p, b)'
    BY <1>1, SeenStays
  <2> QED
    BY <2>1, <2>3, <2>4 DEF FoundFor, HasAll
<1>3. FullAnswers(cache)'
  BY DEF Complete, FullAnswers
<1>4. CASE batch' = batch
  <2>1. batch # NoBatch => FullAnswers(batch.cache)'
    BY <1>4 DEF Complete, FullAnswers
  <2> QED
    BY <1>2, <1>3, <1>4, <2>1 DEF Complete, HasAll
<1>5. CASE batch' = NoBatch
  BY <1>2, <1>3, <1>5 DEF Complete
<1> QED
  BY <1>4, <1>5

\* A lookup that does not fail finds all there is, in the cache as with the provider.
LEMMA LookupComplete ==
  ASSUME EnrichmentTypeOK, Complete, NEW h0 \in Hosts, NEW p0 \in Ports,
         EnrichOne(<<h0, p0>>)
  PROVE  Complete'
<1> DEFINE b0 == batch.loaded[<<h0, p0>>]
<1>1. /\ batch # NoBatch /\ batch' # NoBatch /\ <<h0, p0>> \in DOMAIN batch.loaded
      /\ b0 \in Banners /\ batch.cache \in CveCache /\ batch.finding \in Findings
      /\ batch'.loaded = batch.loaded /\ batch'.todo = batch.todo \ {<<h0, p0>>}
      /\ \A h \in Hosts, p \in Ports : <<h, p>> \in DOMAIN batch.loaded =>
           batch.loaded[<<h, p>>] \in Banners
  BY LookupRows, BatchParts, BannersTyped DEF EnrichmentTypeOK
<1>2. PICK answer \in SUBSET Cves :
        /\ Provenance(<<h0, p0>>, answer, batch'.cache)
        /\ \A h \in Hosts, p \in Ports, c \in Cves :
             batch'.finding[h][p][c] =
               IF h = h0 /\ p = p0 /\ c \in answer /\ batch.finding[h][p][c] = 0
               THEN 1 ELSE batch.finding[h][p][c]
  BY LookupRows
<1>3. UNCHANGED <<scan, svc, finding, cache, overtaken>>
  <2>1. <<h0, p0>> \in Services
    BY DEF Services
  <2> QED
    BY <2>1, LookupIs
<1>4. CacheKey(<<h0, p0>>) = QueryKey[b0] /\ QueryKey[b0] \in Keys
  BY <1>1, QueryKeyAssumption DEF CacheKey
<1>5. unanswered \subseteq unanswered'
  BY <1>2 DEF Provenance
<1>6. QueryKey[b0] \notin unanswered' => answer = Known[b0]
  BY <1>1, <1>2, <1>4 DEF Provenance, Complete, FullAnswers
<1>7. FullAnswers(batch.cache)'
  <2> SUFFICES ASSUME NEW b \in Banners, QueryKey[b] \notin unanswered',
                      NEW a \in batch'.cache[QueryKey[b]]
               PROVE  a = Known[b]
    BY DEF FullAnswers
  <2>1. QueryKey[b] \in Keys
    BY QueryKeyAssumption
  <2>2. CASE a \in batch.cache[QueryKey[b]]
    BY <1>1, <1>5, <2>2 DEF Complete, FullAnswers
  <2>3. CASE a \notin batch.cache[QueryKey[b]]
    <3>1. QueryKey[b] = QueryKey[b0] /\ a = answer
      BY <1>1, <1>2, <1>4, <2>1, <2>3 DEF Provenance, CveCache
    <3>2. Known[b] = Known[b0]
      BY <1>1, <3>1, KnownAssumption
    <3> QED
      BY <1>6, <3>1, <3>2
  <2> QED
    BY <2>2, <2>3
<1> HIDE DEF b0
<1>8. \A h \in Hosts, p \in Ports, c \in Cves :
        batch.finding[h][p][c] > 0 => batch'.finding[h][p][c] > 0
  BY <1>2
<1>9. \A h \in Hosts, p \in Ports, c \in Cves :
        finding[h][p][c] > 0 => batch'.finding[h][p][c] > 0
  BY <1>1, <1>8 DEF Complete
<1>10. ASSUME NEW h \in Hosts, NEW p \in Ports,
              <<h, p>> \in DOMAIN batch.loaded,
              <<h, p>> \notin batch'.todo,
              QueryKey[batch.loaded[<<h, p>>]] \notin unanswered'
       PROVE  HasAll(batch'.finding, h, p, batch.loaded[<<h, p>>])
  <2>1. Known[batch.loaded[<<h, p>>]] \in SUBSET Cves
    BY <1>1, <1>10, KnownAssumption
  <2>2. CASE h = h0 /\ p = p0
    <3>1. answer = Known[b0] /\ b0 = batch.loaded[<<h, p>>]
      BY <1>6, <1>10, <2>2 DEF b0
    <3>2. \A c \in answer : batch.finding[h][p][c] \in Nat
      BY <1>1 DEF Findings
    <3> QED
      BY <1>2, <2>2, <3>1, <3>2 DEF HasAll
  <2>3. CASE ~ (h = h0 /\ p = p0)
    <3>1. <<h, p>> \notin batch.todo
      BY <1>1, <1>10, <2>3
    <3> QED
      BY <1>1, <1>5, <1>8, <1>10, <2>1, <3>1 DEF Complete, HasAll
  <2> QED
    BY <2>2, <2>3
<1>11. KnownAreFound'
  BY <1>3, <1>5 DEF Complete, KnownAreFound, Seen
<1>12. FullAnswers(cache)'
  BY <1>3, <1>5 DEF Complete, FullAnswers
<1> QED
  BY <1>1, <1>3, <1>7, <1>9, <1>10, <1>11, <1>12 DEF Complete, HasAll

\* A flag a batch clears is that of a version it looked up, or one it was overtaken by.
LEMMA CommitComplete ==
  ASSUME EnrichmentTypeOK, Grounded, Complete, EnrichCommit
  PROVE  Complete'
<1>1. /\ batch # NoBatch /\ batch.todo = {} /\ finding' = batch.finding
      /\ cache' = batch.cache /\ batch' = NoBatch /\ unanswered' = unanswered
      /\ scan' = scan
      /\ overtaken' = [h \in Hosts |-> [p \in Ports |->
           IF /\ <<h, p>> \in DOMAIN batch.loaded
              /\ Version[svc[h][p].banner] # Version[batch.loaded[<<h, p>>]]
           THEN overtaken[h][p] \cup {Version[svc[h][p].banner]}
           ELSE overtaken[h][p]]]
  BY DEF EnrichCommit
<1>2. ASSUME NEW h \in Hosts, NEW p \in Ports
      PROVE  /\ svc'[h][p].banner = svc[h][p].banner
             /\ svc'[h][p].needsCve = IF <<h, p>> \in DOMAIN batch.loaded
                                      THEN FALSE ELSE svc[h][p].needsCve
  BY CommitRows DEF EnrichmentTypeOK
<1>3. KnownAreFound'
  <2> SUFFICES ASSUME NEW h \in Hosts, NEW p \in Ports, svc'[h][p].banner # Unnamed,
                      ~ svc'[h][p].needsCve,
                      Version[svc'[h][p].banner] \notin overtaken'[h][p]
               PROVE  FoundFor(h, p, Version[svc[h][p].banner])'
    BY DEF KnownAreFound, FoundFor, HasAll
  <2>1. svc'[h][p].banner = svc[h][p].banner
    BY <1>2
  <2>2. CASE <<h, p>> \in DOMAIN batch.loaded
    <3> DEFINE b == batch.loaded[<<h, p>>]
    <3>1. Version[svc[h][p].banner] = Version[b]
      BY <1>1, <2>1, <2>2
    <3>2. b \in Banners /\ Seen(h, p, b)
      BY <1>1, <2>2, BatchParts, BannersTyped DEF EnrichmentTypeOK, Grounded
    <3>3. QueryKey[b] \in unanswered \/ HasAll(batch.finding, h, p, b)
      BY <1>1, <2>2 DEF Complete
    <3> HIDE DEF b
    <3> QED
      BY <1>1, <2>1, <3>1, <3>2, <3>3 DEF FoundFor, Seen, HasAll
  <2>3. CASE <<h, p>> \notin DOMAIN batch.loaded
    <3>1. FoundFor(h, p, Version[svc[h][p].banner])
      BY <1>1, <1>2, <2>1, <2>3, KnownAreFoundIs DEF Complete
    <3>2. \A b \in Banners : HasAll(finding, h, p, b) => HasAll(batch.finding, h, p, b)
      BY <1>1, KnownAssumption DEF Complete, HasAll
    <3> QED
      BY <1>1, <2>1, <3>1, <3>2 DEF FoundFor, Seen, HasAll
  <2> QED
    BY <2>2, <2>3
<1> QED
  BY <1>1, <1>3 DEF Complete, FullAnswers

\* What the provider knows of a version, under a cpe it was seen with, is found,
\* unless a lookup failed or a batch was overtaken.
THEOREM KnownAreAlwaysFound == EnrichmentSpec => []KnownAreFound
<1>1. EnrichmentInit => Complete
  BY QueryKeyAssumption
     DEF EnrichmentInit, InventoryInit, NoService, Complete, KnownAreFound, FullAnswers
<1>2. /\ EnrichmentTypeOK /\ Grounded /\ Complete
      /\ [EnrichmentNext]_enrichmentVars
      => Complete'
  <2> SUFFICES ASSUME EnrichmentTypeOK, Grounded, Complete,
                      [EnrichmentNext]_enrichmentVars
               PROVE  Complete'
    OBVIOUS
  <2>1. CASE /\ UNCHANGED <<finding, cache, unanswered, overtaken>>
             /\ batch' \in {batch, NoBatch}
             /\ [InventoryNext]_inventoryVars
    BY <2>1, IngestComplete
  <2>2. CASE EnrichSelect
    BY <2>2, SelectIs DEF Complete, KnownAreFound, FullAnswers, Seen
  <2>3. ASSUME NEW s \in Services, EnrichOne(s) PROVE Complete'
    BY <2>3, LookupComplete DEF Services
  <2>4. CASE EnrichCommit
    BY <2>4, CommitComplete
  <2> QED
    BY <2>1, <2>2, <2>3, <2>4, TableSteps
<1>3. Complete => KnownAreFound
  BY DEF Complete
<1> QED
  BY <1>1, <1>2, <1>3, EnrichmentTypes, AlwaysGrounded, PTL DEF EnrichmentSpec
=============================================================================
