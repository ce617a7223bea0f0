----------------------------- MODULE Enrichment -----------------------------
(***************************************************************************)
(* CVE enrichment beside ingestion (orchestrator/enrich.py).  A tick loads *)
(* a batch of the services flagged needs_cve, looks each one up, in the    *)
(* cache table or with the provider over the network, and commits the      *)
(* findings, the cached answers and the cleared flags together.            *)
(*                                                                         *)
(* The batch is loaded without the write lock.  Its first write takes the  *)
(* lock, which it keeps while it asks the provider about the rest: results *)
(* of workers are ingested before that write or after the commit.          *)
(*                                                                         *)
(* Time is left out: whether a cached answer has expired is a free choice. *)
(* Each new finding comes with one cve.new Change, see Notification.       *)
(***************************************************************************)
EXTENDS Inventory, FiniteSets

CONSTANTS
  Cves,
  Keys,      \* the keys of the cache table
  QueryKey,  \* cve/cpe.query_key of a banner
  Known,     \* CVEs of at least cve_min_cvss the provider has for a banner
  Limit      \* services of a batch

ASSUME QueryKeyAssumption == QueryKey \in [Banners -> Keys]
\* The provider is asked for what the key is made of.
ASSUME KnownAssumption ==
  /\ Known \in [Banners -> SUBSET Cves]
  /\ \A b, c \in Banners : QueryKey[b] = QueryKey[c] => Known[b] = Known[c]
ASSUME LimitAssumption == Limit \in Nat \ {0}

VARIABLES
  finding,    \* finding[h][p][c]: Finding rows of a service and a CVE
  cache,      \* the cvecache table: under each key no answer or one
  batch,      \* the session of enrich_batch: what it loaded and wrote
  unanswered, \* history: keys whose lookup failed or came back empty in an outage
  overtaken   \* history: Versions whose flag a batch cleared for an older one

enrichVars == <<finding, cache, batch, unanswered, overtaken>>
enrichmentVars == <<inventoryVars, enrichVars>>

Services == Hosts \X Ports

Findings == [Hosts -> [Ports -> [Cves -> Nat]]]

CveCache == [Keys -> {{}} \cup {{answer} : answer \in SUBSET Cves}]

LoadedBanners == UNION {[S -> Banners] : S \in SUBSET Services}

NoBatch == [op |-> "idle"]

\* loaded: the banners read at the start; todo: the services still to look up.
Batch == {NoBatch} \cup [op : {"batch"}, loaded : LoadedBanners,
                         todo : SUBSET Services, finding : Findings,
                         cache : CveCache]

EnrichmentInit ==
  /\ InventoryInit
  /\ finding = [h \in Hosts |-> [p \in Ports |-> [c \in Cves |-> 0]]]
  /\ cache = [k \in Keys |-> {}]
  /\ batch = NoBatch
  /\ unanswered = {}
  /\ overtaken = [h \in Hosts |-> [p \in Ports |-> {}]]
-----------------------------------------------------------------------------
Row(s) == svc[s[1]][s[2]]

\* A port that was shut in the meantime loses its place in the batch.
Flagged_OpenOnly == {s \in Services : Row(s).needsCve /\ Row(s).state = "open"}

Flagged == {s \in Services : Row(s).needsCve /\ Row(s).banner # Unnamed}

\* SELECT ... LIMIT, in no order.
EnrichSelect ==
  /\ batch = NoBatch
  /\ \E S \in SUBSET Flagged :
       /\ S # {}
       /\ Cardinality(S) <= Limit
       /\ S = Flagged \/ Cardinality(S) = Limit
       /\ batch' = [op |-> "batch", loaded |-> [s \in S |-> Row(s).banner],
                    todo |-> S, finding |-> finding, cache |-> cache]
  /\ UNCHANGED <<inventoryVars, finding, cache, unanswered, overtaken>>

\* From the end of the first service on.
Locked == batch # NoBatch /\ batch.todo # DOMAIN batch.loaded

\* No look at what the service already has.
WithFindings_Unchecked(rows, s, answer) ==
  [rows EXCEPT ![s[1]][s[2]] = [c \in Cves |-> IF c \in answer THEN @[c] + 1 ELSE @[c]]]

WithFindings(rows, s, answer) ==
  [rows EXCEPT ![s[1]][s[2]] =
     [c \in Cves |-> IF c \in answer /\ @[c] = 0 THEN 1 ELSE @[c]]]

\* The cache knows a service by its product alone.
CacheKey_Product(s) == CHOOSE k \in Keys : TRUE

CacheKey(s) == QueryKey[batch.loaded[s]]

\* A second row for a key whose answer had expired.
Cached_Another(s, answer) == [batch.cache EXCEPT ![CacheKey(s)] = @ \cup {answer}]

Cached(s, answer) == [batch.cache EXCEPT ![CacheKey(s)] = {answer}]

Enriched(s, answer, cached) ==
  /\ batch' = [batch EXCEPT !.todo = @ \ {s},
                            !.finding = WithFindings(@, s, answer),
                            !.cache = cached]
  /\ UNCHANGED <<inventoryVars, finding, cache, overtaken>>

\* The cached answer is fresh.
LookupCached(s) ==
  /\ \E answer \in batch.cache[CacheKey(s)] : Enriched(s, answer, batch.cache)
  /\ UNCHANGED unanswered

\* No cached answer, or an expired one: the provider's is cached.
LookupAnswered(s) ==
  LET answer == Known[batch.loaded[s]] IN
  /\ Enriched(s, answer, Cached(s, answer))
  /\ UNCHANGED unanswered

\* After three failed tries NvdApiProvider answers that there is nothing.
LookupOutage(s) ==
  /\ Enriched(s, {}, Cached(s, {}))
  /\ unanswered' = unanswered \cup {CacheKey(s)}

\* A provider that raises: nothing is cached, but the flag will be cleared.
LookupRaised(s) ==
  /\ Enriched(s, {}, batch.cache)
  /\ unanswered' = unanswered \cup {CacheKey(s)}

EnrichOne(s) == /\ batch # NoBatch
                /\ s \in batch.todo
                /\ \/ LookupCached(s)
                   \/ LookupAnswered(s)
                   \/ LookupOutage(s)
                   \/ LookupRaised(s)

\* The row goes back as it was loaded.
Cleared_Loaded(s) == [Row(s) EXCEPT !.needsCve = FALSE, !.banner = batch.loaded[s]]

\* UPDATE service SET needs_cve = 0 WHERE id = ...
Cleared(s) == [Row(s) EXCEPT !.needsCve = FALSE]

EnrichCommit ==
  /\ batch # NoBatch
  /\ batch.todo = {}
  /\ svc' = [h \in Hosts |-> [p \in Ports |->
               IF <<h, p>> \in DOMAIN batch.loaded THEN Cleared(<<h, p>>)
                                                   ELSE svc[h][p]]]
  /\ overtaken' = [h \in Hosts |-> [p \in Ports |->
       IF /\ <<h, p>> \in DOMAIN batch.loaded
          /\ Version[svc[h][p].banner] # Version[batch.loaded[<<h, p>>]]
       THEN overtaken[h][p] \cup {Version[svc[h][p].banner]}
       ELSE overtaken[h][p]]]
  /\ finding' = batch.finding
  /\ cache' = batch.cache
  /\ batch' = NoBatch
  /\ UNCHANGED <<scan, changes, host, ingest, unanswered>>

\* "database is locked" at the first write, or any other error: rolled back.
EnrichAbort == /\ batch # NoBatch
               /\ batch' = NoBatch
               /\ UNCHANGED <<inventoryVars, finding, cache, unanswered, overtaken>>

EnrichmentRestart == /\ IngestRestart
                     /\ batch' = NoBatch
                     /\ UNCHANGED <<finding, cache, unanswered, overtaken>>

IngestStep(th) ==
  /\ \/ \E t \in Targets, s \in Starts, snap \in Reported : IngestRead(th, t, s, snap)
     \/ ~ Locked /\ IngestWrite(th)
     \/ IngestAbort(th)
  /\ UNCHANGED enrichVars

EnrichmentNext ==
  \/ EnrichSelect
  \/ \E s \in Services : EnrichOne(s)
  \/ EnrichCommit
  \/ EnrichAbort
  \/ EnrichmentRestart
  \/ \E th \in Threads : IngestStep(th)

EnrichmentSpec == EnrichmentInit /\ [][EnrichmentNext]_enrichmentVars

\* The tick fires every 45 s for ever, and no step of a batch fails for ever.
EnrichmentFairness ==
  /\ WF_enrichmentVars(EnrichSelect)
  /\ \A S \in SUBSET Services :
       SF_enrichmentVars(batch # NoBatch /\ batch.todo = S /\ \E s \in S : EnrichOne(s))
  /\ SF_enrichmentVars(EnrichCommit)

EnrichmentFairSpec == EnrichmentSpec /\ EnrichmentFairness
-----------------------------------------------------------------------------
\* The tables and the batch keep their types: a batch looks up only services it
\* loaded, and the cache has at most one answer under a key.
EnrichmentTypeOK ==
  /\ InventoryTypeOK
  /\ finding \in Findings
  /\ cache \in CveCache
  /\ batch \in Batch
  /\ batch # NoBatch => batch.todo \subseteq DOMAIN batch.loaded
  /\ unanswered \in SUBSET Keys
  /\ overtaken \in [Hosts -> [Ports -> SUBSET {Version[b] : b \in Banners}]]

\* A service has one Finding row per CVE (finding is keyed (service_id, cve_id)
\* in docs/ARCHITECTURE.md, no constraint of the table says so), however often it
\* is looked up again after a version that changed and changed back, a batch that
\* was rolled back or an expired answer.
FindingOnce ==
  \A h \in Hosts, p \in Ports, c \in Cves : finding[h][p][c] <= 1

\* Some stored scan saw the banner b at h and p.
Seen(h, p, b) == \E i \in DOMAIN scan : /\ h \in DOMAIN scan[i].snap
                                         /\ p \in DOMAIN scan[i].snap[h].ports
                                         /\ scan[i].snap[h].ports[p] = b

\* A finding is a CVE of a banner that a stored scan saw on that very service:
\* neither the cache, shared by all services, nor a batch that works on rows read
\* long before brings in a CVE of another product, another version or another cpe.
FindingsFromBanner ==
  \A h \in Hosts, p \in Ports, c \in Cves :
    finding[h][p][c] > 0 => \E b \in Banners : Seen(h, p, b) /\ c \in Known[b]

\* A named service whose flag is down has a finding for every CVE the provider
\* knows for its product and version under some cpe that a stored scan saw there
\* with them, unless a lookup under that key has failed, or a batch that was still
\* at the version before cleared the flag.  It need not be the cpe of now: one that
\* changes alone gives the service another key, and no lookup (_apply_inventory
\* compares product and version, _lookup_cached asks for all three).
KnownAreFound ==
  \A h \in Hosts, p \in Ports :
    LET version == Version[svc[h][p].banner] IN
      /\ svc[h][p].banner # Unnamed
      /\ ~ svc[h][p].needsCve
      /\ version \notin overtaken[h][p]
      => \E b \in Banners :
           /\ Version[b] = version
           /\ Seen(h, p, b)
           /\ \/ QueryKey[b] \in unanswered
              \/ \A c \in Known[b] : finding[h][p][c] > 0

\* Every flag is taken down in the end, also that of a port that is shut or of a
\* version that is gone: batches that are rolled back are repeated (enrich_batch).
EveryFlagClears ==
  \A h \in Hosts, p \in Ports : svc[h][p].needsCve ~> ~ svc[h][p].needsCve
=============================================================================
