SPECIFICATION Spec

CONSTANTS
  OrderIds = {o1, o2}
  NoTrade = NoTrade
  NoSignal = NoSignal
  NoOrder = NoOrder
  HistoryLimit = 2
  EntryValue = 1
  Multiplier = 2
  StopWin = 0
  StopLoss = 0
  MaxAttempts = 2
  Fallbacks = 1
  Reported <- AnyProfit
  Environments <- RunningClock

SYMMETRY Ids

PROPERTIES
  NoLateOrder
