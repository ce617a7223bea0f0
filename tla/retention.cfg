CONSTANTS
  Targets = {t1, t2}
  Keep = 1
  MaxJobs = 3
  MaxScans = 3
  NoTarget = NoTarget
SPECIFICATION FairRetentionSpec
INVARIANTS RetentionTypeOK ReferencesHold
PROPERTIES BaseKept ShrinksUnlessBlocked
