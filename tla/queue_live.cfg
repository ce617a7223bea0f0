CONSTANTS
  t1 = t1
  h1 = h1
  Targets = {t1}
  Hosts = {h1}
  SpecHosts <- MCSpecHosts
  Workers = {w1}
  Threads = {th1}
  MaxAttempts = 2
  MaxJobs = 2
  MaxRuns = 4
  NoWorker = NoWorker
  NoTarget = NoTarget
SPECIFICATION FairSpec
PROPERTIES EveryJobCloses
