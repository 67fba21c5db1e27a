SPECIFICATION PolledSpec

CONSTANTS
  Requests = {r1, r2}
  Worker = Worker
  StatusTTL = 1
  AccountTTL = 2
  FreshTTL = 1
  GraceTTL = 2
  OfflineTTL = 2
  SeenTTL = 3
  CallTTL = 1
  Environments <- Dashboard

INVARIANTS
  TypeOK
  OfflineForgets
  StoppedStaysOff
  SwitchIsPersisted
PROPERTIES
  LossStopsRobot
  RobotGoesOn
