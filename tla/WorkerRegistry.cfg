SPECIFICATION FairSpec

CONSTANTS
  Workers = {w1, w2, w3, w4}
  NoWorker = NoWorker
  Events = {"stale", "crash"}

INVARIANTS
  RegisteredRuns

PROPERTIES
  OnlyRestartsOrphan
  StoppedRobotLosesItsWorkers
