SPECIFICATION Spec

CONSTANTS
  OrderIds = {o1, o2, o3}
  NoTrade = NoTrade
  NoSignal = NoSignal
  NoOrder = NoOrder
  HistoryLimit = 4
  EntryValue = 1
  Multiplier = 2
  StopWin = 0
  StopLoss = 0
  MaxAttempts = 2
  Fallbacks = 1
  Reported <- AnyProfit
  Environments <- Failing

SYMMETRY Ids

INVARIANTS
  OpenTradeIsMonitored
  BookedAsBroker
  EveryResultIsBooked
  GaleRecoversALoss
  OneGalePerLoss
  ScoreMatchesHistory

PROPERTIES
  SendsOnlyWhenAllowed
  SerialOrders
  ImplementsLedger
