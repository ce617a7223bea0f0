CONSTANTS
  Kinds = {k1, k2, k3}
  Broken = {k3}
  Batch = 2
  MaxChanges = 3
  MaxFailures = 2
SPECIFICATION NotificationFairSpec
INVARIANTS NotificationTypeOK LoudAreTold ToldOncePerFailure
PROPERTIES EveryChangeMarked
CHECK_DEADLOCK FALSE
