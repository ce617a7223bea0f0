CONSTANTS
  h1 = h1
  Targets = {t1}
  Hosts = {h1, h2}
  SpecHosts <- MCSpecHosts
  Workers = {w1}
  Threads = {th1, th2}
  MaxAttempts = 2
  MaxJobs = 2
  MaxRuns = 2
  NoWorker = NoWorker
  NoTarget = NoTarget
SPECIFICATION RacesSpec
SYMMETRY Symmetry
INVARIANTS TypeOK RowCoherent DoneHasScan ClaimedWasHandedOut HandoutsNeedClaimRace ReclaimNeedsPingRace PendingNeedsEnqueueRace
PROPERTIES ReopenNeedsCloseRace LifecycleUntilRace
