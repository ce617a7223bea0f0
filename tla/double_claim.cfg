CONSTANTS
  t1 = t1
  h1 = h1
  Targets = {t1}
  Hosts = {h1}
  SpecHosts <- MCSpecHosts
  Workers = {w1, w2}
  Threads = {th1, th2}
  MaxAttempts = 2
  MaxJobs = 2
  MaxRuns = 2
  NoWorker = NoWorker
  NoTarget = NoTarget
SPECIFICATION Spec
SYMMETRY Symmetry
INVARIANTS HandoutsDistinct
