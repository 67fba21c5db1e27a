SPECIFICATION Spec

CONSTANTS
  OrderIds = {o1, o2, o3}
  NoTrade = NoTrade
  NoSignal = NoSignal
  NoOrder = NoOrder
  HistoryLimit = 1
  EntryValue = 1
  Multiplier = 2
  StopWin = 2
  StopLoss = 2
  MaxAttempts = 2
  Fallbacks = 1
  Reported <- AnyProfit
  Environments <- Handling

SYMMETRY Ids

INVARIANTS
  TypeOK
  WaitingMeansOpen

PROPERTIES
  DailyLimitsHold
