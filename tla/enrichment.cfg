CONSTANTS
  Targets = {t1}
  Hosts = {h1}
  Ports = {p1, p2}
  b1 = b1
  b2 = b2
  b3 = b3
  Unnamed = Unnamed
  Banners = {b1, b2, b3, Unnamed}
  c1 = c1
  c2 = c2
  Cves = {c1, c2}
  k0 = k0
  k1 = k1
  k2 = k2
  k3 = k3
  Keys = {k0, k1, k2, k3}
  Version <- MCVersion
  QueryKey <- MCQueryKey
  Known <- MCKnown
  Limit = 2
  Threads = {th1}
  MaxScans = 2
SPECIFICATION EnrichmentFairSpec
INVARIANTS EnrichmentTypeOK FindingOnce FindingsFromBanner KnownAreFound
PROPERTIES ImplementsLedger EveryFlagClears
