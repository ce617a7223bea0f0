CONSTANTS
  Hosts = {h1, h2}
  Concurrency = 2
  MaxClaims = 3
SPECIFICATION FairWorkerSpec
INVARIANTS WorkerTypeOK InflightExact GateHolds ExitDrained
PROPERTIES ImplementsExecution EveryTaskEnds PollsAgain SignalExits
