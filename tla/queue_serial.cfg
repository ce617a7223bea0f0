CONSTANTS
  t1 = t1
  h1 = h1
  Targets = {t1, t2}
  Hosts = {h1, h2}
  SpecHosts <- MCSpecHosts
  Workers = {w1}
  Threads = {th1}
  MaxAttempts = 2
  MaxJobs = 2
  MaxRuns = 2
  NoWorker = NoWorker
  NoTarget = NoTarget
SPECIFICATION Spec
INVARIANTS OnePendingPerTarget HandoutsDistinct
PROPERTIES HandoutInScope ImplementsLifecycle
