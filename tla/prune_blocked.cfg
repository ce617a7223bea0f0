CONSTANTS
  Targets = {t1}
  Keep = 1
  MaxJobs = 2
  MaxScans = 2
  NoTarget = NoTarget
SPECIFICATION FairRetentionSpec
PROPERTIES HistoryShrinks
