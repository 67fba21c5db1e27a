-------------------------- MODULE RobotCycleProofs --------------------------
(***************************************************************************)
(* The invariants of the robot's cycle, for every set of orders, every     *)
(* stake, multiplier and limit, and every choice of events.                *)
(*                                                                         *)
(* The properties are not inductive alone.  That an open operation has a   *)
(* live monitor needs that its trade is the order the cycle recorded and   *)
(* that a finished monitor was that of another order; that a gale recovers *)
(* a loss needs that the parent kept by the robot through stops, resets,   *)
(* restarts and deadlines is still an order the broker decided as lost.    *)
(* IInv adds those links between the robot, its orders and its monitors.   *)
(* Every action is then one lemma: all but three of the robot's methods    *)
(* are Safe (AutoTraderProofs), and SafeStep turns Safe into IInv'.        *)
(***************************************************************************)
EXTENDS RobotCycle, AutoTraderProofs, FiniteSetTheorems, TLAPS

\* An order the broker accepted.
Placed == {"open", "WIN", "LOSS"}

\* The last trade is an order as it was sent and accepted; the parent of a
\* gale is a normal order that was lost.
TradesOfOrders ==
  /\ robot.trade # NoTrade =>
       /\ orders[robot.trade.id].st \in Placed
       /\ robot.trade.gale = orders[robot.trade.id].gale
       /\ robot.trade.amount = orders[robot.trade.id].amount
  /\ robot.galeParent # NoTrade =>
       /\ orders[robot.galeParent.id].st = "LOSS"
       /\ ~orders[robot.galeParent.id].gale

\* No cycle is inside an await while an operation is open.  The cycle that
\* waits for an answer, or for the server time, has its order, which nobody
\* watches yet; while a gale is armed that order is the gale's, and no other
\* candidate is left behind a gale's.
CycleOrder ==
  /\ cyc.pc # "idle" => ~robot.op
  /\ cyc.pc \in {"submit", "recording"} =>
       /\ cyc.order \in OrderIds /\ orders[cyc.order].st # "unused"
       /\ monitor[cyc.order] = "off"
       /\ robot.galePending => orders[cyc.order].gale
  /\ cyc.pc = "submit" /\ orders[cyc.order].gale => cyc.left = 0
  /\ cyc.pc = "recording" => orders[cyc.order].st \in Placed

\* While a gale is armed, the last trade is the loss it is to recover: closed,
\* completed, and in the archive.
ArmedOverALoss ==
  robot.galePending /\ robot.trade # NoTrade =>
    /\ ~robot.op /\ robot.trade.result = "LOSS" /\ robot.trade.id \in robot.completed
    /\ \E t \in archive : t.id = robot.trade.id /\ t.result = "LOSS"

\* A monitor watches an accepted order, has got only a real result, and has
\* ended once that order is completed.
MonitorOrder ==
  \A id \in OrderIds :
    /\ monitor[id] # "off" => orders[id].st \in Placed
    /\ monitor[id] = "got" => orders[id].st \in {"WIN", "LOSS"}
    /\ id \in robot.completed => monitor[id] = "done"

\* Only an order that was sent is a gale's, and only after the loss it
\* recovers was completed.
GaleOrders ==
  \A id \in OrderIds : orders[id].gale =>
    orders[id].st # "unused" /\ orders[id].parent \in robot.completed

\* Every result the memory holds is persisted, under the same order.
HistoryArchived ==
  \A t \in Range(robot.history) :
    t.result \in {"WIN", "LOSS"} => \E a \in archive : a.id = t.id

\* The inductive invariant.
IInv ==
  /\ TypeOK
  /\ Sound(robot)
  /\ OpenTradeIsMonitored
  /\ TradesOfOrders
  /\ CycleOrder
  /\ MonitorOrder
  /\ GaleOrders
  /\ GaleRecoversALoss
  /\ ArmedOverALoss
  /\ BookedAsBroker
  /\ HistoryArchived
  /\ ScoreMatchesHistory

\* An empty history has nothing to persist and nothing to count.
LEMMA NothingScored ==
  /\ DOMAIN <<>> = {} /\ Range(<<>>) = {}
  /\ Cardinality(Scored(<<>>, "WIN")) = 0 /\ Cardinality(Scored(<<>>, "LOSS")) = 0
<1>1. DOMAIN <<>> = {}
  OBVIOUS
<1>2. Range(<<>>) = {} /\ Scored(<<>>, "WIN") = {} /\ Scored(<<>>, "LOSS") = {}
  BY <1>1 DEF Range, Scored
<1>. QED
  BY <1>1, <1>2, FS_EmptySet

\* While the history has room, a booked trade adds its point to the score.
LEMMA RememberScores ==
  ASSUME NEW h \in Seq(Trade), NEW t \in Trade, NEW result,
         Len(Remember(h, t)) < HistoryLimit
  PROVE  /\ Len(h) < HistoryLimit
         /\ Cardinality(Scored(h, result)) \in Nat
         /\ Cardinality(Scored(Remember(h, t), result))
              = Cardinality(Scored(h, result)) + Point(t, result)
<1>. DEFINE longer == Append(h, t)
            n == Len(h) + 1
<1>1. /\ longer \in Seq(Trade) /\ Len(longer) = n /\ Len(h) \in Nat
      /\ DOMAIN longer = 1 .. n /\ DOMAIN h = 1 .. Len(h)
      /\ \A j \in 1 .. n : longer[j] = IF j = n THEN t ELSE h[j]
  OBVIOUS
<1>. HIDE DEF longer
<1>2. Remember(h, t) = longer /\ Len(h) < HistoryLimit
  <2>1. CASE n > HistoryLimit
    <3>1. Len(SubSeq(longer, Len(longer) - HistoryLimit + 1, Len(longer))) = HistoryLimit
      BY <1>1, <2>1, LimitAssumption
    <3>. QED
      BY <1>1, <2>1, <3>1, LimitAssumption DEF Remember, longer
  <2>2. CASE ~(n > HistoryLimit)
    BY <1>1, <2>2, LimitAssumption DEF Remember, longer
  <2>. QED
    BY <2>1, <2>2
<1>3. IsFiniteSet(Scored(h, result)) /\ Cardinality(Scored(h, result)) \in Nat
  <2>1. IsFiniteSet(1 .. Len(h))
    BY <1>1, FS_Interval
  <2>2. Scored(h, result) \subseteq 1 .. Len(h)
    BY <1>1 DEF Scored
  <2>. QED
    BY <2>1, <2>2, FS_Subset, FS_CardinalityType
<1>4. n \notin Scored(h, result)
  BY <1>1 DEF Scored
<1>5. Scored(longer, result) =
        IF t.final /\ t.result = result THEN Scored(h, result) \cup {n} ELSE Scored(h, result)
  BY <1>1 DEF Scored
<1>6. Cardinality(Scored(h, result) \cup {n}) = Cardinality(Scored(h, result)) + 1
  BY <1>3, <1>4, FS_AddElement
<1>. QED
  BY <1>2, <1>3, <1>5, <1>6 DEF Point

\* A new robot, with no order sent, satisfies the inductive invariant.
LEMMA InitIInv == Init => IInv
<1>. SUFFICES ASSUME Init PROVE IInv
  OBVIOUS
<1>1. NewRobot \in Robot
  BY StatusFacts, ClockFacts, EmptyHistory DEF NewRobot, Robot
<1>2. /\ Sound(robot) /\ ~robot.op /\ robot.trade = NoTrade /\ robot.galeParent = NoTrade
      /\ robot.completed = {}
  BY <1>1, StatusFacts, EmptyHistory DEF Init, NewRobot, Sound, GaleSound
<1>3. UnusedOrder \in Order /\ UnusedOrder.st = "unused" /\ ~UnusedOrder.gale
  BY DEF UnusedOrder, Order, OrderStates
<1>4. NoCycle \in Cycle /\ NoCycle.pc = "idle"
  BY DEF NoCycle, Cycle
<1>5. TypeOK
  BY <1>1, <1>3, <1>4, EmptyHistory DEF TypeOK, Init, NewRobot
<1>6. BookedAsBroker
  <2>1. robot.history = <<>> /\ DOMAIN <<>> = {} /\ archive = {}
    BY DEF Init, NewRobot
  <2>. QED
    BY <2>1 DEF BookedAsBroker, Range
<1>7. HistoryArchived /\ ScoreMatchesHistory
  BY NothingScored DEF Init, NewRobot, HistoryArchived, ScoreMatchesHistory
<1>. QED
  BY <1>2, <1>3, <1>4, <1>5, <1>6, <1>7
  DEF Init, IInv, OpenTradeIsMonitored, TradesOfOrders, CycleOrder, MonitorOrder,
      GaleOrders, GaleRecoversALoss, ArmedOverALoss

\* An order leaves only for a robot that may send it: SendsOnlyWhenAllowed.
SendAllowed ==
  \A id \in OrderIds : Sending(id) =>
    robot.enabled /\ ~robot.op /\ StopReason(robot) = "none"

\* The cycle is waiting for an order: for its answer, or to record it.
Waits == {"submit", "recording"}

\* Only the answer of POST /robot/start turns the switch on.
Switched == robot'.enabled => robot.enabled \/ (startReq /\ ~startReq')

\* A cycle waits for the order it has just sent, or for the one it waited for.
CycleMoves ==
  cyc'.pc \in Waits =>
    \/ Sending(cyc'.order)
    \/ cyc.pc \in Waits /\ cyc'.order = cyc.order

\* An order is left alone, is decided by the broker, or is sent by the cycle,
\* after the refusal of the one it waited for.
OrderMoves ==
  \A id \in OrderIds :
    \/ orders'[id] = orders[id]
    \/ /\ orders'[id] = [orders[id] EXCEPT !.st = orders'[id].st]
       /\ orders[id].st \notin {"unused", "WIN", "LOSS", "refused"}
       /\ orders[id].st = "open" => orders'[id].st \in {"WIN", "LOSS"}
    \/ /\ Sending(id) /\ cyc'.pc = "submit" /\ cyc'.order = id
       /\ cyc.pc \notin {"idle", "recording"}
       /\ cyc.pc = "submit" => orders[cyc.order].st = "refused" /\ ~robot.galePending
       /\ orders'[id].gale => robot.galePending /\ orders'[id].parent = robot.galeParent.id

\* A step that moves no monitor opens no operation and completes no order.
StepKeeps == monitor' = monitor => Keeps(robot, robot')

Moves == Switched /\ CycleMoves /\ OrderMoves /\ StepKeeps

\* What each step is shown to do: it preserves the invariant, is a step of
\* the ledger, sends no order that is not allowed, and moves as Moves says.
GoodStep == IInv' /\ Ledger!Next /\ SendAllowed /\ Moves

\* A step that moves no order may end the cycle, or leave its order alone.
CycleKept ==
  /\ cyc' \in Cycle
  /\ cyc'.pc # "idle" => cyc.pc # "idle" \/ ~robot'.op
  /\ cyc'.pc \in {"submit", "recording"} =>
       cyc'.pc = cyc.pc /\ cyc'.order = cyc.order /\ cyc'.left = cyc.left

\* What was booked is kept as it was, or let go.
LEMMA BooksKept ==
  ASSUME IInv, UNCHANGED orders, robot'.completed = robot.completed,
         archive' \subseteq archive, archive' # archive => robot'.history = <<>>,
         \/ /\ robot'.history = robot.history
            /\ robot'.wins = robot.wins /\ robot'.losses = robot.losses
         \/ robot'.history = <<>> /\ robot'.wins = 0 /\ robot'.losses = 0
  PROVE  /\ BookedAsBroker' /\ HistoryArchived' /\ ScoreMatchesHistory'
         /\ LedgerBook' \subseteq LedgerBook
<1>1. DOMAIN <<>> = {}
  OBVIOUS
<1>2. Range(robot'.history) \subseteq Range(robot.history)
  BY <1>1 DEF Range
<1>3. LedgerBook' \subseteq LedgerBook
  BY <1>2 DEF LedgerBook
<1>4. BookedAsBroker'
  BY <1>1, <1>2 DEF IInv, BookedAsBroker
<1>5. HistoryArchived' /\ ScoreMatchesHistory'
  BY NothingScored DEF IInv, HistoryArchived, ScoreMatchesHistory
<1>. QED
  BY <1>3, <1>4, <1>5

\* A step that leaves the orders and the monitors alone, opens no operation
\* and books nothing.
LEMMA KeptStep ==
  ASSUME IInv, Sound(robot'), Keeps(robot, robot'), Switched,
         UNCHANGED <<orders, monitor>>, CycleKept, startReq' \in BOOLEAN, archive' \subseteq Trade,
         BookedAsBroker', HistoryArchived', ScoreMatchesHistory',
         LedgerBook' \subseteq LedgerBook, ArmedOverALoss'
  PROVE  GoodStep
<1>1. TypeOK'
  BY DEF IInv, TypeOK, Sound, CycleKept
<1>2. OpenTradeIsMonitored'
  BY DEF IInv, OpenTradeIsMonitored, Keeps
<1>3. TradesOfOrders'
  BY DEF IInv, TradesOfOrders, Keeps
<1>4. CycleOrder'
  BY DEF IInv, CycleOrder, CycleKept, Keeps
<1>5. MonitorOrder' /\ GaleOrders' /\ GaleRecoversALoss'
  BY DEF IInv, MonitorOrder, GaleOrders, GaleRecoversALoss, Keeps
<1>6. Ledger!Next
  BY DEF Ledger!Next, Ledger!Forget, LedgerOutcome, LedgerWatch, Keeps
<1>7. SendAllowed
  BY DEF SendAllowed, Sending
<1>8. Moves
  BY DEF Moves, CycleMoves, OrderMoves, StepKeeps, CycleKept, Waits
<1>. QED
  BY <1>1, <1>2, <1>3, <1>4, <1>5, <1>6, <1>7, <1>8 DEF IInv, GoodStep

\* A step that leaves the orders and the monitors alone, and the robot's
\* books as they were or empty; the archive is cleared only with the history,
\* and when no gale is armed over its trade.
LEMMA BooksStep ==
  ASSUME IInv, Sound(robot'), Keeps(robot, robot'), Switched,
         \/ /\ robot'.history = robot.history
            /\ robot'.wins = robot.wins /\ robot'.losses = robot.losses
         \/ robot'.history = <<>> /\ robot'.wins = 0 /\ robot'.losses = 0,
         UNCHANGED <<orders, monitor>>, CycleKept,
         startReq' \in BOOLEAN, archive' \in {archive, {}},
         archive' # archive => /\ robot'.history = <<>>
                               /\ ~robot'.galePending \/ robot'.trade = NoTrade
  PROVE  GoodStep
<1>1. archive' \subseteq Trade
  BY DEF IInv, TypeOK
<1>2. /\ BookedAsBroker' /\ HistoryArchived' /\ ScoreMatchesHistory'
      /\ LedgerBook' \subseteq LedgerBook
  BY BooksKept DEF Keeps
<1>3. ArmedOverALoss'
  BY DEF IInv, ArmedOverALoss, Keeps
<1>. QED
  BY <1>1, <1>2, <1>3, KeptStep

\* The same of a step that is safe for the robot.
LEMMA SafeStep ==
  ASSUME IInv, Safe(robot, robot'), UNCHANGED <<orders, monitor>>, CycleKept,
         startReq' \in BOOLEAN, archive' \in {archive, {}},
         archive' # archive => /\ robot'.history = <<>>
                               /\ ~robot'.galePending \/ robot'.trade = NoTrade
  PROVE  GoodStep
BY BooksStep DEF Safe, Switched

\* A method that does nothing is safe.
LEMMA SafeReflexive == ASSUME NEW r, Sound(r) PROVE Safe(r, r)
BY DEF Safe, Keeps

\* What decides whether an order may leave is left alone.
Quiet(r, s) ==
  /\ s.enabled = r.enabled /\ s.op = r.op
  /\ s.profit = r.profit /\ s.history = r.history

\* Reading the entry window, the connection and the signal changes nothing an
\* order depends on, and neither does the serialisation of the state.
LEMMA QuietMethods ==
  ASSUME NEW r \in Robot, NEW win \in BOOLEAN, NEW c \in BOOLEAN, NEW align \in BOOLEAN
  PROVE  /\ Quiet(r, UpdateEntryWindow(r, win)) /\ Quiet(r, SyncConnection(r, c, align))
         /\ Quiet(r, ShowEntry(r)) /\ Quiet(r, SetPendingSignal(r))
         /\ Quiet(r, Normalise(r))
<1>1. \A s \in Robot : \A st \in STRING : Quiet(s, [s EXCEPT !.status = st])
  BY DEF Quiet, Robot
<1>2. Quiet(r, r)
  BY DEF Quiet
<1>3. Quiet(r, UpdateEntryWindow(r, win))
  BY DEF Quiet, UpdateEntryWindow, Robot
<1>4. Quiet(r, SyncConnection(r, c, align))
  BY DEF Quiet, SyncConnection, Robot
<1>5. Quiet(r, ShowEntry(r)) /\ Quiet(r, SetPendingSignal(r))
  BY DEF Quiet, ShowEntry, SetPendingSignal, Robot
<1>6. Quiet(r, Normalise(r))
  BY DEF Quiet, Normalise, Robot
<1>. QED
  BY <1>3, <1>4, <1>5, <1>6

\* The stop rules see the same robot, and let it send.
LEMMA StopReasonQuiet ==
  ASSUME NEW r, NEW s, Quiet(r, s), ~r.op, StopReason(s) \notin StopStatuses
  PROVE  StopReason(r) = "none"
<1>1. DailyStop(r) = DailyStop(s)
  <2>1. DayTrades(r) = DayTrades(s)
    BY DEF Quiet, DayTrades
  <2>. QED
    BY <2>1 DEF DailyStop
<1>2. StopReason(r) = StopReason(s)
  BY <1>1 DEF Quiet, StopReason
<1>3. DailyStop(r) \in {"none"} \cup StopStatuses
  BY DEF DailyStop, StopStatuses
<1>4. StopReason(r) \in {"none"} \cup StopStatuses
  BY <1>3 DEF StopReason, StopStatuses
<1>. QED
  BY <1>2, <1>4

\* The idle cycle waits for no order.
LEMMA NoCycleKept ==
  /\ NoCycle \in Cycle /\ NoCycle.pc = "idle"
BY DEF NoCycle, Cycle

\* A cycle that returns preserves the invariant.
LEMMA EndCycleStep ==
  ASSUME IInv, NEW r, Safe(robot, r), EndCycle(r), UNCHANGED <<startReq, archive>>
  PROVE  GoodStep
<1>1. Safe(robot, robot')
  BY NormaliseSafe, SafeTransitive DEF EndCycle, Safe
<1>2. CycleKept
  BY NoCycleKept DEF EndCycle, CycleKept
<1>. QED
  BY <1>1, <1>2, SafeStep DEF EndCycle, IInv, TypeOK

\* A cycle that reaches an await preserves the invariant.
LEMMA AwaitStep ==
  ASSUME IInv, NEW r, Safe(robot, r), NEW pc \in {"account", "analysis"},
         NEW by \in {"nobody", "worker", "tick"}, NEW win \in BOOLEAN, ~r.op,
         Await(r, pc, by, win), UNCHANGED <<startReq, archive>>
  PROVE  GoodStep
<1>1. CycleKept
  BY DEF Await, CycleKept, NoCycle, Cycle
<1>. QED
  BY <1>1, SafeStep DEF Await, IInv, TypeOK

\* Sending an order preserves the invariant: a gale order carries the
\* doubled stake and the lost order it recovers.
LEMMA SendOrderStep ==
  ASSUME IInv, cyc.pc # "idle", NEW r, Safe(robot, r), Quiet(robot, r),
         MaySend(r), StopReason(r) \notin StopStatuses,
         NEW gale \in BOOLEAN, gale = r.galePending,
         NEW left \in Nat, gale => left = 0, cyc.pc # "recording",
         cyc.pc = "submit" => orders[cyc.order].st = "refused" /\ ~robot.galePending,
         SendOrder(r, gale, left), UNCHANGED <<startReq, archive>>
  PROVE  GoodStep
<1>. DEFINE sent(s, i) == [StartSendingOrder(SetOrderAttempt(s)) EXCEPT !.cycle = @ \cup {i}]
            parent == IF r.galeParent = NoTrade THEN NoOrder ELSE r.galeParent.id
            amount == IF gale THEN r.galeAmount ELSE EntryValue
            order == [st |-> "sent", gale |-> gale, amount |-> amount, parent |-> parent]
<1>1. PICK id \in OrderIds :
         /\ orders[id].st = "unused"
         /\ robot' = sent(r, id)
         /\ orders' = [orders EXCEPT ![id] = order]
         /\ cyc' = [cyc EXCEPT !.pc = "submit", !.left = left, !.order = id]
         /\ UNCHANGED monitor
  BY DEF SendOrder
<1>2. Sound(r) /\ r \in Robot
  BY DEF Safe, Sound
<1>3. Safe(r, SetOrderAttempt(r))
  BY <1>2, SetOrderAttemptSafe
<1>4. Safe(r, StartSendingOrder(SetOrderAttempt(r)))
  BY <1>3, StartSendingOrderSafe, SafeTransitive DEF Safe
<1>5. Safe(robot, sent(r, id))
  <2>1. ASSUME NEW s, Sound(s) PROVE Safe(s, [s EXCEPT !.cycle = @ \cup {id}])
    BY <2>1 DEF Safe, Sound, GaleSound, Keeps, Robot
  <2>. QED
    BY <1>4, <2>1, SafeTransitive DEF Safe
<1>6. /\ order \in Order /\ order.st = "sent" /\ order.gale = gale
      /\ order.amount = amount /\ order.parent = parent
  BY <1>2, MoneyAssumption DEF Order, OrderStates, Robot, Trade
<1>7. gale => /\ amount = EntryValue * Multiplier /\ parent \in OrderIds
              /\ orders[parent].st = "LOSS" /\ ~orders[parent].gale
              /\ robot.galePending /\ parent = robot.galeParent.id
              /\ parent \in robot.completed
  BY <1>2, NoneAssumption
  DEF IInv, TradesOfOrders, Safe, Sound, GaleSound, Keeps, Robot, Trade
<1>8. ~gale => amount = EntryValue
  OBVIOUS
<1>. HIDE DEF sent, order, parent, amount
<1>9. orders' \in [OrderIds -> Order] /\ cyc' \in Cycle /\ cyc'.pc = "submit" /\ cyc'.order = id
      /\ cyc'.left = left
  BY <1>1, <1>6 DEF IInv, TypeOK, Cycle
<1>10. \A i \in OrderIds : orders'[i] = IF i = id THEN order ELSE orders[i]
  BY <1>1 DEF IInv, TypeOK
<1>11. TypeOK'
  BY <1>1, <1>5, <1>9 DEF IInv, TypeOK, Safe, Sound
<1>12. OpenTradeIsMonitored'
  BY <1>1, <1>5 DEF IInv, OpenTradeIsMonitored, Safe, Keeps
<1>13. TradesOfOrders'
  <2>1. /\ robot'.trade \in {robot.trade, NoTrade}
        /\ robot'.galeParent \in {robot.galeParent, NoTrade}
    BY <1>1, <1>5 DEF Safe, Keeps
  <2>2. /\ robot.trade # NoTrade => robot.trade.id \in OrderIds
        /\ robot.galeParent # NoTrade => robot.galeParent.id \in OrderIds
    BY DEF IInv, Sound, Robot, Trade
  <2>. QED
    BY <1>1, <1>10, <2>1, <2>2 DEF IInv, TradesOfOrders, Placed
<1>14. CycleOrder'
  <2>1. monitor[id] = "off"
    BY <1>1 DEF IInv, TypeOK, MonitorOrder, Placed
  <2>2. ~robot'.op /\ (robot'.galePending => gale)
    BY <1>1, <1>4, <1>5 DEF IInv, CycleOrder, Safe, Keeps, Quiet, sent, Sound, Robot
  <2>. QED
    BY <1>1, <1>6, <1>9, <1>10, <2>1, <2>2 DEF CycleOrder
<1>15. MonitorOrder' /\ GaleOrders'
  <2>1. robot'.completed = robot.completed
    BY <1>1, <1>5 DEF Safe, Keeps
  <2>. QED
    BY <1>1, <1>6, <1>7, <1>10, <2>1 DEF IInv, MonitorOrder, GaleOrders, Placed
<1>16. GaleRecoversALoss'
  BY <1>1, <1>6, <1>7, <1>8, <1>10 DEF IInv, GaleRecoversALoss
<1>17. ArmedOverALoss'
  BY <1>1, <1>5 DEF IInv, ArmedOverALoss, Safe, Keeps
<1>18. BookedAsBroker'
  <2>1. DOMAIN <<>> = {} /\ Range(robot'.history) \subseteq Range(robot.history)
    BY <1>1, <1>5 DEF Safe, Range
  <2>2. \A u \in Range(robot.history) \cup archive : u.id \in OrderIds
    <3>1. \A u \in Range(robot.history) : u \in Trade
      BY DEF IInv, TypeOK, Robot, Range
    <3>. QED
      BY <3>1 DEF IInv, TypeOK, Trade
  <2>. QED
    BY <1>1, <1>5, <1>10, <2>1, <2>2 DEF IInv, BookedAsBroker, Safe, Keeps
<1>19. HistoryArchived' /\ ScoreMatchesHistory'
  <2>1. archive' = archive
    OBVIOUS
  <2>. QED
    BY <1>1, <1>5, <2>1, NothingScored
    DEF IInv, HistoryArchived, ScoreMatchesHistory, Safe
<1>20. Ledger!Next
  <2>1. LedgerOutcome' = LedgerOutcome
    BY <1>1, <1>6, <1>10 DEF LedgerOutcome
  <2>2. LedgerWatch' = LedgerWatch /\ robot'.completed = robot.completed
    BY <1>1, <1>5 DEF LedgerWatch, Safe, Keeps
  <2>3. LedgerBook' \subseteq LedgerBook
    <3>1. DOMAIN <<>> = {} /\ Range(robot'.history) \subseteq Range(robot.history)
      BY <1>1, <1>5 DEF Safe, Range
    <3>. QED
      BY <3>1 DEF LedgerBook
  <2>. QED
    BY <2>1, <2>2, <2>3 DEF Ledger!Next, Ledger!Forget
<1>21. SendAllowed
  <2>1. robot.enabled /\ ~robot.op
    BY DEF IInv, CycleOrder, MaySend, Quiet
  <2>2. StopReason(robot) = "none"
    BY <2>1, StopReasonQuiet
  <2>. QED
    BY <2>1, <2>2 DEF SendAllowed
<1>22. Moves
  <2>1. Switched /\ StepKeeps
    BY <1>1, <1>5 DEF Switched, StepKeeps, Safe
  <2>2. Sending(id)
    BY <1>1, <1>6, <1>10 DEF Sending
  <2>3. CycleMoves
    BY <1>9, <2>2 DEF CycleMoves
  <2>4. OrderMoves
    BY <1>6, <1>7, <1>9, <1>10, <2>2 DEF OrderMoves
  <2>. QED
    BY <2>1, <2>3, <2>4 DEF Moves
<1>. QED
  BY <1>1, <1>5, <1>11, <1>12, <1>13, <1>14, <1>15, <1>16, <1>17, <1>18, <1>19, <1>20, <1>21,
     <1>22
  DEF IInv, Safe, GoodStep

\* The branch of a robot found disabled is safe.
LEMMA SwitchedOffSafe == ASSUME NEW r, Sound(r) PROVE Safe(r, SwitchedOff(r))
<1>1. r \in Robot
  BY DEF Sound
<1>. QED
  BY <1>1, DisarmGaleFacts, StatusFacts
  DEF SwitchedOff, Safe, Sound, GaleSound, Keeps, Robot

\* clear_session_backoff is safe.
LEMMA ClearBackoffSafe == ASSUME NEW r, Sound(r) PROVE Safe(r, ClearBackoff(r))
BY DeferCycleSafe, SafeReflexive, StatusFacts DEF ClearBackoff

\* A confirmed account ends the backoff and aligns the status.
LEMMA ConfirmedSafe ==
  ASSUME NEW r, Sound(r) PROVE Safe(r, SyncConnection(ClearBackoff(r), TRUE, TRUE))
<1>1. Safe(r, ClearBackoff(r))
  BY ClearBackoffSafe
<1>2. Sound(ClearBackoff(r))
  BY <1>1 DEF Safe
<1>3. Safe(ClearBackoff(r), SyncConnection(ClearBackoff(r), TRUE, TRUE))
  BY <1>2, SyncConnectionSafe
<1>. QED
  BY <1>1, <1>3, SafeTransitive

\* One pass of the attempt loop preserves the invariant.
LEMMA TryCandidateStep ==
  ASSUME IInv, cyc.pc # "idle", NEW r, Safe(robot, r), Quiet(robot, r),
         NEW gale \in BOOLEAN, gale = r.galePending, NEW n \in Nat, gale => n = 0,
         cyc.pc # "recording",
         cyc.pc = "submit" => orders[cyc.order].st = "refused" /\ ~robot.galePending,
         TryCandidate(r, gale, n), UNCHANGED <<startReq, archive>>
  PROVE  GoodStep
<1>1. Sound(r)
  BY DEF Safe
<1>2. ASSUME NEW s, Safe(r, s), EndCycle(s) PROVE GoodStep
  BY <1>2, SafeTransitive, EndCycleStep
<1>3. CASE ~r.enabled /\ EndCycle(SwitchedOff(r))
  BY <1>1, <1>2, <1>3, SwitchedOffSafe
<1>4. CASE EndCycle(RejectOrder(r))
  BY <1>1, <1>2, <1>4, RejectOrderSafe
<1>5. CASE StopReason(r) \in StopStatuses /\ EndCycle(PauseByStop(r, StopReason(r)))
  BY <1>1, <1>2, <1>5, PauseByStopSafe
<1>6. CASE EndCycle(RejectStrategy(r))
  BY <1>1, <1>2, <1>6, RejectStrategySafe
<1>7. CASE /\ MaySend(r) /\ StopReason(r) \notin StopStatuses
           /\ \E left \in 0..n : SendOrder(r, gale, left)
  <2>1. PICK left \in 0..n : SendOrder(r, gale, left)
    BY <1>7
  <2>2. left \in Nat /\ (gale => left = 0)
    BY <2>1
  <2>. QED
    BY <1>7, <2>1, <2>2, SendOrderStep
<1>. QED
  BY <1>3, <1>4, <1>5, <1>6, <1>7 DEF TryCandidate

\* The entry window of a pending signal preserves the invariant; a signal
\* marked as a gale is one whose gale is still armed.
LEMMA EntryGateStep ==
  ASSUME IInv, cyc.pc \in {"account", "analysis"}, NEW r, Safe(robot, r), Quiet(robot, r),
         r.pending # NoSignal, NEW win \in BOOLEAN, EntryGate(r, win), UNCHANGED <<startReq, archive>>
  PROVE  GoodStep
<1>1. Sound(r) /\ r \in Robot /\ r.pending \in Signal
  BY DEF Safe, Sound, Robot
<1>2. ASSUME NEW s, Safe(r, s), EndCycle(s) PROVE GoodStep
  BY <1>2, SafeTransitive, EndCycleStep
<1>. DEFINE aimed == [r EXCEPT !.pending.targeted = TRUE, !.status = "WAITING_ENTRY"]
            waiting == [r EXCEPT !.status = "WAITING_ENTRY"]
<1>3. Safe(r, aimed)
  BY <1>1, StatusFacts DEF Safe, Sound, GaleSound, Keeps, Robot, Signal
<1>4. Safe(r, waiting)
  BY <1>1, StatusFacts DEF Safe, Sound, GaleSound, Keeps, Robot
<1>5. CASE EndCycle(aimed)
  BY <1>2, <1>3, <1>5
<1>6. CASE EndCycle(ExpirePendingSignal(r))
  BY <1>1, <1>2, <1>6, ExpirePendingSignalSafe
<1>7. CASE EndCycle(waiting)
  BY <1>2, <1>4, <1>7
<1>8. CASE win /\ (r.galePending \/ r.pending.gale) /\ TryCandidate(r, TRUE, 0)
  BY <1>1, <1>8, TryCandidateStep DEF Sound, GaleSound
<1>9. CASE win /\ ~r.galePending /\ \E n \in 0..Fallbacks : TryCandidate(r, FALSE, n)
  <2>1. PICK n \in 0..Fallbacks : TryCandidate(r, FALSE, n)
    BY <1>9
  <2>2. n \in Nat /\ FALSE = r.galePending
    BY <1>1, <1>9, AttemptsAssumption DEF Robot
  <2>. QED
    BY <2>1, <2>2, TryCandidateStep
<1>. QED
  BY <1>5, <1>6, <1>7, <1>8, <1>9 DEF EntryGate

\* The segment up to the first await preserves the invariant.
LEMMA BeginCycleStep ==
  ASSUME IInv, NEW by \in {"worker", "tick"}, BeginCycle(by)
  PROVE  GoodStep
<1>. DEFINE shown == DisplayExpired(robot) \/ WaitingStale(robot)
            fresh == IF shown THEN Normalise(ResetCycleAfterResult(robot)) ELSE robot
            ready == IF fresh.pending = NoSignal THEN PrepareCycle(fresh) ELSE fresh
<1>1. Sound(robot)
  BY DEF IInv
<1>2. Safe(robot, fresh)
  BY <1>1, ResetCycleAfterResultSafe, NormaliseSafe, SafeTransitive, SafeReflexive DEF Safe
<1>. HIDE DEF fresh
<1>3. Sound(fresh)
  BY <1>2 DEF Safe
<1>4. Safe(robot, ready)
  BY <1>2, <1>3, PrepareCycleSafe, SafeTransitive
<1>. HIDE DEF ready
<1>5. Sound(ready)
  BY <1>4 DEF Safe
<1>6. UNCHANGED <<startReq, archive>>
  BY DEF BeginCycle
<1>7. ASSUME NEW s, Safe(robot, s), EndCycle(s) PROVE GoodStep
  BY <1>6, <1>7, EndCycleStep
<1>8. CASE StopReason(fresh) \in StopStatuses /\ EndCycle(PauseByStop(fresh, StopReason(fresh)))
  BY <1>2, <1>3, <1>7, <1>8, PauseByStopSafe, SafeTransitive
<1>9. CASE EndCycle(ready)
  BY <1>4, <1>7, <1>9
<1>10. CASE ready.op /\ EndCycle([ready EXCEPT !.status = WaitingStatus(ready)])
  <2>1. Safe(ready, [ready EXCEPT !.status = WaitingStatus(ready)])
    <3>1. WaitingStatus(ready) \in Statuses /\ WaitingStatus(ready) \notin Resting
      BY StatusFacts DEF WaitingStatus
    <3>. QED
      BY <1>5, <1>10, <3>1 DEF Safe, Sound, GaleSound, Keeps, Robot
  <2>. QED
    BY <1>4, <1>7, <1>10, <2>1, SafeTransitive
<1>11. CASE ~ready.op /\ Await(Normalise(ready), "account", by, FALSE)
  <2>1. Safe(robot, Normalise(ready)) /\ ~Normalise(ready).op
    BY <1>4, <1>5, <1>11, NormaliseSafe, SafeTransitive
  <2>. QED
    BY <1>6, <1>11, <2>1, AwaitStep
<1>12. CASE EndCycle(InsufficientBalance(ready))
  BY <1>4, <1>5, <1>7, <1>12, StopAndReleaseSafe, SafeTransitive
<1>13. \/ StopReason(fresh) \in StopStatuses /\ EndCycle(PauseByStop(fresh, StopReason(fresh)))
       \/ EndCycle(ready)
       \/ ready.op /\ EndCycle([ready EXCEPT !.status = WaitingStatus(ready)])
       \/ ~ready.op /\ Await(Normalise(ready), "account", by, FALSE)
       \/ EndCycle(InsufficientBalance(ready))
  BY Zenon DEF BeginCycle, fresh, ready
<1>. QED
  BY <1>8, <1>9, <1>10, <1>11, <1>12, <1>13

\* No stop reason means no open operation.
LEMMA StopReasonNone == ASSUME NEW r, StopReason(r) = "none" PROVE ~r.op
BY DEF StopReason

\* Showing a signal as waiting changes its status only.
LEMMA ShowEntryType == ASSUME NEW r \in Robot PROVE ShowEntry(r) \in Robot
BY StatusFacts DEF ShowEntry, EntryStatus, Robot

\* Showing a signal as waiting keeps the signal when no operation is open.
LEMMA ShowEntrySafe ==
  ASSUME NEW r, Sound(r)
  PROVE  LET ready == Normalise(ShowEntry(r))
         IN /\ Safe(r, ready)
            /\ r.pending # NoSignal /\ ~r.op => ready.pending # NoSignal
<1>. DEFINE e == [r EXCEPT !.status = EntryStatus(r)]
<1>1. Safe(r, e) /\ e.pending = r.pending /\ e.status = EntryStatus(r)
  BY StatusFacts DEF EntryStatus, Safe, Sound, GaleSound, Keeps, Robot
<1>2. e.status \in {"WAITING_GALE_ENTRY", "WAITING_ENTRY"}
  BY <1>1 DEF EntryStatus
<1>. HIDE DEF e
<1>3. Normalise(e) = e
  BY <1>2 DEF Normalise, TemporaryWaits, ShownStatuses
<1>4. Safe(r, Normalise(r))
  BY NormaliseSafe
<1>. QED
  BY <1>1, <1>3, <1>4 DEF e, ShowEntry

\* Whatever the account check decides preserves the invariant.
LEMMA AccountCheckedStep ==
  ASSUME IInv, cyc.pc = "account", NEW seen, Safe(robot, seen), NEW r, Safe(robot, r),
         NEW ready, Safe(robot, ready), Quiet(robot, ready),
         r.pending # NoSignal /\ ~r.op => ready.pending # NoSignal,
         NEW win \in BOOLEAN, AccountChecked(seen, r, ready, win),
         UNCHANGED <<startReq, archive>>
  PROVE  GoodStep
<1>1. Sound(seen) /\ Sound(r) /\ Sound(ready)
  BY DEF Safe
<1>2. ASSUME NEW s, Safe(robot, s), EndCycle(s) PROVE GoodStep
  BY <1>2, EndCycleStep
<1>3. CASE EndCycle(DisconnectAccount(seen))
  BY <1>1, <1>2, <1>3, DisconnectAccountSafe, SafeTransitive
<1>4. CASE EndCycle(InsufficientBalance(r))
  BY <1>1, <1>2, <1>4, StopAndReleaseSafe, SafeTransitive
<1>5. CASE EndCycle(LockReal(r))
  BY <1>1, <1>2, <1>5, LockRealSafe, SafeTransitive
<1>6. CASE EndCycle(WaitAnalysisWindow(r))
  BY <1>1, <1>2, <1>6, WaitAnalysisWindowSafe, SafeTransitive
<1>7. CASE StopReason(r) = "none" /\ r.pending # NoSignal /\ EntryGate(ready, win)
  BY <1>7, StopReasonNone, EntryGateStep
<1>8. CASE EndCycle(ready)
  BY <1>2, <1>8
<1>9. CASE Await(ready, "analysis", cyc.by, win)
  <2>1. cyc.by \in {"nobody", "worker", "tick"} /\ ~ready.op
    BY DEF IInv, TypeOK, Cycle, CycleOrder, Quiet
  <2>. QED
    BY <1>9, <2>1, AwaitStep
<1>10. CASE EndCycle(IF ready.enabled THEN WaitAnalysisWindow(ready)
                                      ELSE SwitchedOff(ready))
  <2>1. /\ Safe(robot, WaitAnalysisWindow(ready))
        /\ Safe(robot, SwitchedOff(ready))
    BY <1>1, WaitAnalysisWindowSafe, SwitchedOffSafe, SafeTransitive
  <2>. QED
    BY <1>2, <1>10, <2>1
<1>. QED
  BY <1>3, <1>4, <1>5, <1>6, <1>7, <1>8, <1>9, <1>10 DEF AccountChecked

\* The segment after the account await preserves the invariant.
LEMMA AccountResumesStep == ASSUME IInv, AccountResumes PROVE GoodStep
<1>1. PICK win \in BOOLEAN, align \in BOOLEAN :
        LET seen == UpdateEntryWindow(robot, win)
            r == SyncConnection(seen, TRUE, align)
        IN AccountChecked(seen, r, Normalise(ShowEntry(r)), win)
  BY DEF AccountResumes
<1>2. UNCHANGED <<startReq, archive>>
  BY DEF AccountResumes
<1>. DEFINE seen == UpdateEntryWindow(robot, win)
            r == SyncConnection(seen, TRUE, align)
            ready == Normalise(ShowEntry(r))
<1>3. Safe(robot, seen) /\ Sound(seen) /\ Quiet(robot, seen)
  BY UpdateEntryWindowSafe, QuietMethods DEF IInv, Safe, Sound
<1>4. AccountChecked(seen, r, ready, win)
  BY <1>1
<1>. HIDE DEF seen
<1>5. Safe(robot, r) /\ Sound(r) /\ Quiet(robot, r)
  <2>1. Safe(robot, r) /\ Sound(r)
    BY <1>3, SyncConnectionSafe, SafeTransitive DEF Safe
  <2>2. Quiet(seen, r)
    BY <1>3, QuietMethods DEF Sound
  <2>. QED
    BY <1>3, <2>1, <2>2 DEF Quiet
<1>. HIDE DEF r
<1>6. /\ Safe(robot, ready)
      /\ r.pending # NoSignal /\ ~r.op => ready.pending # NoSignal
  BY <1>5, ShowEntrySafe, SafeTransitive
<1>7. Quiet(robot, ready)
  <2>1. ShowEntry(r) \in Robot
    BY <1>5, ShowEntryType DEF Sound
  <2>2. Quiet(r, ShowEntry(r)) /\ Quiet(ShowEntry(r), ready)
    BY <1>5, <2>1, QuietMethods DEF Sound
  <2>. QED
    BY <1>5, <2>2 DEF Quiet
<1>8. cyc.pc = "account"
  BY DEF AccountResumes
<1>. HIDE DEF ready
<1>. QED
  BY <1>2, <1>3, <1>4, <1>5, <1>6, <1>7, <1>8, AccountCheckedStep

\* The segment after the scan preserves the invariant.
LEMMA AnalysisResumesStep == ASSUME IInv, AnalysisResumes PROVE GoodStep
<1>1. Sound(robot) /\ cyc.win \in BOOLEAN
  BY DEF IInv, TypeOK, Cycle
<1>2. UNCHANGED <<startReq, archive>>
  BY DEF AnalysisResumes
<1>3. CASE EndCycle(WaitAnalysisWindow(robot))
  BY <1>1, <1>2, <1>3, WaitAnalysisWindowSafe, EndCycleStep
<1>4. CASE EntryGate(SetPendingSignal(robot), cyc.win)
  <2>1. SetPendingSignal(robot).pending # NoSignal
    <3>1. [gale |-> FALSE, targeted |-> FALSE] \in Signal
      BY DEF Signal
    <3>. QED
      BY <1>1, <3>1, NoneAssumption DEF SetPendingSignal, Sound, Robot
  <2>2. Quiet(robot, SetPendingSignal(robot)) /\ cyc.pc = "analysis"
    BY <1>1, QuietMethods DEF AnalysisResumes, Sound
  <2>. QED
    BY <1>1, <1>2, <1>4, <2>1, <2>2, SetPendingSignalSafe, EntryGateStep
<1>. QED
  BY <1>3, <1>4 DEF AnalysisResumes

\* The segment after the order call preserves the invariant.
LEMMA SubmitResumesStep == ASSUME IInv, SubmitResumes PROVE GoodStep
<1>1. Sound(robot) /\ Safe(robot, robot) /\ robot.galePending \in BOOLEAN
  BY SafeReflexive DEF IInv, Sound, Robot
<1>2. UNCHANGED <<startReq, archive>>
  BY DEF SubmitResumes
<1>3. CASE /\ cyc.pc = "submit" /\ orders[cyc.order].st \in {"open", "WIN", "LOSS"}
           /\ cyc' = [cyc EXCEPT !.pc = "recording"]
           /\ UNCHANGED <<robot, orders, monitor>>
  <2>1. cyc' \in Cycle /\ cyc'.pc = "recording" /\ cyc'.order = cyc.order
    BY <1>3 DEF IInv, TypeOK, Cycle
  <2>2. TypeOK'
    BY <1>2, <1>3, <2>1 DEF IInv, TypeOK
  <2>3. CycleOrder'
    BY <1>3, <2>1 DEF IInv, CycleOrder, Placed
  <2>4. OpenTradeIsMonitored' /\ TradesOfOrders' /\ MonitorOrder' /\ GaleOrders' /\ GaleRecoversALoss'
    BY <1>3 DEF IInv, OpenTradeIsMonitored, TradesOfOrders, MonitorOrder, GaleOrders,
                GaleRecoversALoss
  <2>5. ArmedOverALoss' /\ BookedAsBroker' /\ HistoryArchived' /\ ScoreMatchesHistory'
    BY <1>2, <1>3
    DEF IInv, ArmedOverALoss, BookedAsBroker, HistoryArchived, ScoreMatchesHistory
  <2>6. Ledger!Next
    BY <1>2, <1>3 DEF Ledger!Next, Ledger!Forget, LedgerOutcome, LedgerWatch, LedgerBook
  <2>7. SendAllowed
    BY <1>3 DEF SendAllowed, Sending
  <2>8. Moves
    BY <1>1, <1>3, <2>1
    DEF Moves, Switched, CycleMoves, OrderMoves, StepKeeps, Waits, Safe
  <2>. QED
    BY <1>1, <1>3, <2>2, <2>3, <2>4, <2>5, <2>6, <2>7, <2>8 DEF IInv, GoodStep
<1>4. CASE /\ orders[cyc.order].st = "refused" /\ cyc.left > 0
           /\ TryCandidate(robot, robot.galePending, cyc.left - 1)
  <2>1. cyc.left - 1 \in Nat
    BY <1>4 DEF IInv, TypeOK, Cycle
  <2>2. Quiet(robot, robot) /\ cyc.pc = "submit" /\ ~robot.galePending
    BY <1>4 DEF Quiet, SubmitResumes, IInv, CycleOrder
  <2>. QED
    BY <1>1, <1>2, <1>4, <2>1, <2>2, TryCandidateStep
<1>5. CASE EndCycle(RejectOrder(robot))
  BY <1>1, <1>2, <1>5, RejectOrderSafe, EndCycleStep
<1>. QED
  BY <1>3, <1>4, <1>5 DEF SubmitResumes

\* Recording an accepted order opens its operation and starts its monitor.
LEMMA RecordResumesStep == ASSUME IInv, RecordResumes PROVE GoodStep
<1>. DEFINE id == cyc.order
            trade == [id |-> id, gale |-> orders[id].gale, amount |-> orders[id].amount,
                      parent |-> IF robot.galeParent = NoTrade THEN NoOrder
                                 ELSE robot.galeParent.id,
                      result |-> "PENDING_RESULT", profit |-> 0, final |-> FALSE,
                      today |-> TRUE]
            done == RecordTrade(robot, trade)
<1>1. /\ cyc.pc = "recording" /\ robot' = Normalise(done)
      /\ monitor' = [monitor EXCEPT ![id] = "poll"]
      /\ cyc' = NoCycle
      /\ UNCHANGED <<orders, startReq, archive>>
  BY DEF RecordResumes
<1>2. Sound(robot) /\ robot.galeParent \in Trade \cup {NoTrade}
  BY DEF IInv, Sound, Robot
<1>3. id \in OrderIds /\ orders[id] \in Order /\ orders[id].st \in Placed
  BY <1>1 DEF IInv, TypeOK, CycleOrder
<1>4. /\ trade \in Trade /\ trade.id = id /\ trade.gale = orders[id].gale
      /\ trade.amount = orders[id].amount /\ trade.result = "PENDING_RESULT"
  <2>1. (IF robot.galeParent = NoTrade THEN NoOrder ELSE robot.galeParent.id)
          \in OrderIds \cup {NoOrder}
    BY <1>2 DEF Trade
  <2>. QED
    BY <1>3, <2>1, EmptyHistory DEF Trade, Results, Order
<1>. HIDE DEF trade
<1>5. /\ Sound(done)
      /\ done.completed = robot.completed /\ done.galeParent = robot.galeParent
      /\ done.history = robot.history
      /\ done.wins = robot.wins /\ done.losses = robot.losses
      /\ done.enabled = robot.enabled
      /\ id \notin robot.completed /\ ~robot.op => done.op
      /\ \/ done = robot
         \/ /\ done.op /\ done.trade = trade /\ trade.id \notin done.completed
            /\ done.galePending => robot.galePending /\ ~trade.gale
  BY <1>2, <1>4, RecordTradeSound
<1>. HIDE DEF done, id
<1>6. Safe(done, robot')
  BY <1>1, <1>5, NormaliseSafe
<1>7. TypeOK'
  BY <1>1, <1>3, <1>6, NoCycleKept DEF IInv, TypeOK, Safe, Sound
<1>8. OpenTradeIsMonitored'
  <2>1. CASE done = robot
    <3>1. ~robot'.op
      BY <1>1, <1>6, <2>1 DEF IInv, CycleOrder, Safe, Keeps
    <3>. QED
      BY <3>1 DEF OpenTradeIsMonitored
  <2>2. CASE done.op /\ done.trade = trade /\ trade.id \notin done.completed
    BY <1>1, <1>3, <1>4, <1>6, <2>2, NoneAssumption
    DEF IInv, TypeOK, OpenTradeIsMonitored, Safe, Keeps
  <2>. QED
    BY <1>5, <2>1, <2>2
<1>9. TradesOfOrders'
  <2>1. CASE done = robot
    BY <1>1, <1>6, <2>1 DEF IInv, TradesOfOrders, Safe, Keeps
  <2>2. CASE done.trade = trade
    BY <1>1, <1>3, <1>4, <1>5, <1>6, <2>2 DEF IInv, TradesOfOrders, Safe, Keeps
  <2>. QED
    BY <1>5, <2>1, <2>2
<1>10. CycleOrder'
  BY <1>1, NoCycleKept DEF CycleOrder
<1>11. MonitorOrder' /\ GaleOrders'
  <2>1. robot'.completed = robot.completed /\ id \notin robot.completed
    BY <1>1, <1>3, <1>5, <1>6 DEF IInv, MonitorOrder, CycleOrder, Safe, Keeps, id
  <2>. QED
    BY <1>1, <1>3, <2>1 DEF IInv, TypeOK, MonitorOrder, GaleOrders
<1>12. GaleRecoversALoss'
  BY <1>1 DEF IInv, GaleRecoversALoss
<1>13. robot'.history = robot.history /\ robot'.completed = robot.completed
  <2>1. Quiet(done, robot')
    BY <1>1, <1>5, QuietMethods DEF Sound
  <2>. QED
    BY <1>5, <1>6, <2>1 DEF Quiet, Safe, Keeps
<1>14. ArmedOverALoss'
  <2>1. CASE done = robot
    BY <1>1, <1>6, <2>1 DEF IInv, ArmedOverALoss, Safe, Keeps
  <2>2. CASE done.galePending => robot.galePending /\ ~trade.gale
    <3>1. robot.galePending => trade.gale
      BY <1>1, <1>4 DEF IInv, CycleOrder, id
    <3>. QED
      BY <1>6, <2>2, <3>1 DEF ArmedOverALoss, Safe, Keeps
  <2>. QED
    BY <1>5, <2>1, <2>2
<1>15. BookedAsBroker' /\ HistoryArchived' /\ ScoreMatchesHistory'
  <2>1. BookedAsBroker' /\ HistoryArchived'
    BY <1>1, <1>13 DEF IInv, BookedAsBroker, HistoryArchived
  <2>2. ScoreMatchesHistory'
    BY <1>5, <1>6, <1>13, NothingScored DEF IInv, ScoreMatchesHistory, Safe
  <2>. QED
    BY <2>1, <2>2
<1>16. Ledger!Next
  <2>1. monitor[id] = "off"
    BY <1>1 DEF IInv, CycleOrder, id
  <2>2. LedgerOutcome[id] # "none" /\ LedgerWatch[id] = "off"
    BY <1>3, <2>1 DEF LedgerOutcome, LedgerWatch, Placed
  <2>3. LedgerWatch' = [LedgerWatch EXCEPT ![id] = "on"]
    BY <1>1, <1>3 DEF LedgerWatch, IInv, TypeOK
  <2>4. UNCHANGED <<LedgerOutcome, LedgerBook>>
    BY <1>1, <1>13 DEF LedgerOutcome, LedgerBook
  <2>. QED
    BY <1>3, <1>13, <2>2, <2>3, <2>4 DEF Ledger!Next, Ledger!Watch
<1>17. SendAllowed
  BY <1>1 DEF SendAllowed, Sending
<1>18. Moves
  <2>1. Switched
    BY <1>5, <1>6 DEF Switched, Safe
  <2>2. monitor' # monitor
    BY <1>1, <1>3 DEF IInv, TypeOK, CycleOrder, id
  <2>. QED
    BY <1>1, <2>1, <2>2, NoCycleKept DEF Moves, CycleMoves, OrderMoves, StepKeeps, Waits
<1>. QED
  BY <1>6, <1>7, <1>8, <1>9, <1>10, <1>11, <1>12, <1>14, <1>15, <1>16, <1>17, <1>18
  DEF IInv, Safe, GoodStep

\* What the broker decides of an order never contradicts what was kept.
LEMMA BrokerStep ==
  ASSUME IInv, NEW id \in OrderIds, BrokerDecides(id) \/ BrokerExpires(id)
  PROVE  GoodStep
<1>1. PICK st \in {"open", "refused", "WIN", "LOSS"} :
        /\ \/ orders[id].st = "sent" /\ st \in {"open", "refused"}
           \/ orders[id].st = "open" /\ st \in {"WIN", "LOSS"}
        /\ orders' = [orders EXCEPT ![id].st = st]
        /\ UNCHANGED <<robot, monitor, cyc, startReq, archive>>
  <2>1. CASE BrokerDecides(id)
    BY <2>1 DEF BrokerDecides
  <2>2. CASE BrokerExpires(id)
    BY <2>2 DEF BrokerExpires
  <2>. QED
    BY <2>1, <2>2
<1>2. orders \in [OrderIds -> Order]
  BY DEF IInv, TypeOK
<1>3. /\ orders' \in [OrderIds -> Order]
      /\ \A i \in OrderIds :
           /\ orders'[i].gale = orders[i].gale /\ orders'[i].amount = orders[i].amount
           /\ orders'[i].parent = orders[i].parent
           /\ orders'[i].st = IF i = id THEN st ELSE orders[i].st
           /\ i # id => orders'[i] = orders[i]
           /\ orders'[i] = [orders[i] EXCEPT !.st = orders'[i].st]
  BY <1>1, <1>2 DEF Order, OrderStates
<1>4. TypeOK' /\ OpenTradeIsMonitored' /\ Sound(robot)'
  BY <1>1, <1>3 DEF IInv, TypeOK, OpenTradeIsMonitored
<1>5. TradesOfOrders'
  <2>1. /\ robot.trade # NoTrade => robot.trade.id \in OrderIds
        /\ robot.galeParent # NoTrade => robot.galeParent.id \in OrderIds
    BY DEF IInv, Sound, Robot, Trade
  <2>. QED
    BY <1>1, <1>3, <2>1 DEF IInv, TradesOfOrders, Placed
<1>6. CycleOrder'
  BY <1>1, <1>3 DEF IInv, CycleOrder, Placed
<1>7. MonitorOrder'
  BY <1>1, <1>3 DEF IInv, MonitorOrder, Placed
<1>8. GaleOrders' /\ GaleRecoversALoss'
  BY <1>1, <1>3 DEF IInv, GaleOrders, GaleRecoversALoss
<1>9. ArmedOverALoss' /\ HistoryArchived' /\ ScoreMatchesHistory' /\ SendAllowed
  BY <1>1, <1>3
  DEF IInv, ArmedOverALoss, HistoryArchived, ScoreMatchesHistory, SendAllowed, Sending
<1>10. BookedAsBroker'
  <2>1. \A u \in Range(robot.history) \cup archive : u.id \in OrderIds
    <3>1. \A u \in Range(robot.history) : u \in Trade
      BY DEF IInv, TypeOK, Robot, Range
    <3>. QED
      BY <3>1 DEF IInv, TypeOK, Trade
  <2>. QED
    BY <1>1, <1>3, <2>1 DEF IInv, BookedAsBroker
<1>11. Ledger!Next
  <2>1. UNCHANGED <<LedgerWatch, robot.completed, LedgerBook>>
    BY <1>1 DEF LedgerWatch, LedgerBook
  <2>2. CASE st = "refused"
    <3>1. LedgerOutcome' = LedgerOutcome
      BY <1>1, <1>3, <2>2 DEF LedgerOutcome
    <3>. QED
      BY <2>1, <3>1 DEF Ledger!Next, Ledger!Forget
  <2>3. CASE st # "refused"
    <3>1. LedgerOutcome' = [LedgerOutcome EXCEPT ![id] = st]
      BY <1>1, <1>3, <2>3 DEF LedgerOutcome
    <3>2. LedgerOutcome[id] = IF orders[id].st = "sent" THEN "none" ELSE "open"
      BY <1>1 DEF LedgerOutcome
    <3>. QED
      BY <1>1, <2>1, <2>3, <3>1, <3>2 DEF Ledger!Next, Ledger!Decide
  <2>. QED
    BY <2>2, <2>3
<1>12. Moves
  <2>1. OrderMoves
    BY <1>1, <1>3 DEF OrderMoves
  <2>2. Sound(robot)
    BY DEF IInv
  <2>. QED
    BY <1>1, <2>1, <2>2, SafeReflexive DEF Moves, Switched, CycleMoves, StepKeeps, Safe
<1>. QED
  BY <1>4, <1>5, <1>6, <1>7, <1>8, <1>9, <1>10, <1>11, <1>12 DEF IInv, GoodStep

\* A monitor that has its result still watches the operation.
LEMMA MonitorFetchesStep ==
  ASSUME IInv, NEW id \in OrderIds, MonitorFetches(id)
  PROVE  GoodStep
<1>1. /\ monitor[id] = "poll" /\ orders[id].st \in {"WIN", "LOSS"}
      /\ monitor' = [monitor EXCEPT ![id] = "got"]
      /\ UNCHANGED <<robot, orders, cyc, startReq, archive>>
  BY DEF MonitorFetches
<1>2. TypeOK'
  BY <1>1 DEF IInv, TypeOK
<1>3. OpenTradeIsMonitored'
  <2>1. robot.op => robot.trade.id \in OrderIds
    BY DEF IInv, OpenTradeIsMonitored, Sound, Robot, Trade
  <2>. QED
    BY <1>1, <2>1 DEF IInv, TypeOK, OpenTradeIsMonitored
<1>4. MonitorOrder' /\ GaleOrders'
  BY <1>1 DEF IInv, TypeOK, MonitorOrder, GaleOrders, Placed
<1>5. /\ TradesOfOrders' /\ GaleRecoversALoss' /\ ArmedOverALoss' /\ BookedAsBroker'
      /\ HistoryArchived' /\ ScoreMatchesHistory'
  BY <1>1 DEF IInv, TradesOfOrders, GaleRecoversALoss, ArmedOverALoss, BookedAsBroker,
              HistoryArchived, ScoreMatchesHistory
<1>6. CycleOrder'
  BY <1>1 DEF IInv, TypeOK, CycleOrder
<1>7. Ledger!Next
  <2>1. LedgerWatch' = LedgerWatch
    BY <1>1 DEF LedgerWatch, IInv, TypeOK
  <2>. QED
    BY <1>1, <2>1 DEF Ledger!Next, Ledger!Forget, LedgerOutcome, LedgerBook
<1>8. SendAllowed
  BY <1>1 DEF SendAllowed, Sending
<1>9. Moves
  <2>1. Sound(robot)
    BY DEF IInv
  <2>. QED
    BY <1>1, <2>1, SafeReflexive
    DEF Moves, Switched, CycleMoves, OrderMoves, StepKeeps, Safe
<1>. QED
  BY <1>1, <1>2, <1>3, <1>4, <1>5, <1>6, <1>7, <1>8, <1>9 DEF IInv, GoodStep

\* A monitor that ends leaves the operation open only when it is another
\* order's, and books nothing but the result of its own.
LEMMA MonitorEndsStep ==
  ASSUME IInv, NEW id \in OrderIds, NEW r, NEW result \in {"WIN", "LOSS", "TIMEOUT"},
         monitor[id] \in {"poll", "got"}, Sound(r),
         result # "TIMEOUT" => orders[id].st = result,
         r.op => r = robot /\ ~CanSettle(robot, id),
         r = robot \/ Settles(robot, r, id, result),
         \/ r.galeParent \in {robot.galeParent, NoTrade}
         \/ orders[r.galeParent.id].st = "LOSS" /\ ~orders[r.galeParent.id].gale,
         robot' = Normalise(r), monitor' = [monitor EXCEPT ![id] = "done"],
         UNCHANGED <<orders, cyc, startReq>>,
         \/ archive' = archive
         \/ /\ r.trade # NoTrade /\ (r = robot => robot.galePending)
            /\ archive' = {t \in archive : t.id # r.trade.id} \cup {r.trade},
         r # robot /\ r.galePending => cyc.pc = "idle",
         r # robot /\ result # "TIMEOUT" => r.trade \in archive'
  PROVE  GoodStep
<1>1. Safe(r, robot')
  BY NormaliseSafe
<1>2. /\ orders \in [OrderIds -> Order]
      /\ monitor \in [OrderIds -> {"off", "poll", "got", "done"}]
      /\ archive \subseteq Trade /\ robot.history \in Seq(Trade)
  BY DEF IInv, TypeOK, Robot
<1>3. r = robot \/ \E t \in Trade :
        /\ t.id = id /\ t.result = result /\ id \notin robot.completed
        /\ robot.trade # NoTrade /\ SameTrade(t, robot.trade)
        /\ r.trade = t /\ r.completed = robot.completed \cup {id}
        /\ r.history = Remember(robot.history, t)
        /\ r.wins = robot.wins + Point(t, "WIN")
        /\ r.losses = robot.losses + Point(t, "LOSS")
        /\ r.galePending => result = "LOSS"
        /\ r.enabled => robot.enabled
  BY DEF Settles, CanSettle, SameTrade
<1>4. TypeOK'
  <2>1. r.trade # NoTrade => r.trade \in Trade
    BY DEF Sound, Robot
  <2>2. archive' \subseteq Trade
    BY <1>2, <2>1
  <2>. QED
    BY <1>1, <1>2, <2>2 DEF IInv, TypeOK, Safe, Sound
<1>5. OpenTradeIsMonitored'
  <2>1. CASE r.op
    <3>1. robot.trade.id \in OrderIds /\ robot.trade.id # id
      BY <2>1 DEF IInv, OpenTradeIsMonitored, CanSettle, Sound, Robot, Trade
    <3>. QED
      BY <1>1, <2>1, <3>1 DEF IInv, TypeOK, OpenTradeIsMonitored, Safe, Keeps
  <2>2. CASE ~r.op
    BY <1>1, <2>2 DEF OpenTradeIsMonitored, Safe, Keeps
  <2>. QED
    BY <2>1, <2>2
<1>6. TradesOfOrders'
  <2>1. r.trade # NoTrade =>
          /\ orders[r.trade.id].st \in Placed
          /\ r.trade.gale = orders[r.trade.id].gale
          /\ r.trade.amount = orders[r.trade.id].amount
    BY <1>3 DEF IInv, TradesOfOrders, SameTrade
  <2>2. r.galeParent # NoTrade =>
          orders[r.galeParent.id].st = "LOSS" /\ ~orders[r.galeParent.id].gale
    BY DEF IInv, TradesOfOrders
  <2>. QED
    BY <1>1, <2>1, <2>2 DEF TradesOfOrders, Safe, Keeps
<1>7. CycleOrder'
  <2>1. cyc.pc \in {"submit", "recording"} => monitor'[cyc.order] = "off"
    BY <1>2 DEF IInv, CycleOrder
  <2>2. /\ cyc.pc # "idle" => ~robot'.op
        /\ cyc.pc # "idle" /\ robot'.galePending => robot.galePending
    BY <1>1 DEF IInv, CycleOrder, Safe, Keeps
  <2>. QED
    BY <2>1, <2>2 DEF IInv, CycleOrder
<1>8. GaleRecoversALoss' /\ MonitorOrder' /\ GaleOrders' /\ SendAllowed
  <2>1. robot'.completed \in {robot.completed, robot.completed \cup {id}}
    BY <1>1, <1>3 DEF Safe, Keeps
  <2>. QED
    BY <1>2, <2>1
    DEF IInv, GaleRecoversALoss, MonitorOrder, GaleOrders, SendAllowed, Sending
<1>9. ArmedOverALoss'
  <2>1. robot'.galePending /\ robot'.trade # NoTrade =>
          r.galePending /\ robot'.trade = r.trade /\ (robot'.op => r.op)
          /\ robot'.completed = r.completed
    BY <1>1 DEF Safe, Keeps
  <2>2. CASE r = robot
    <3>1. robot.galePending /\ robot.trade # NoTrade =>
            \E t \in archive' : t.id = robot.trade.id /\ t.result = "LOSS"
      BY <2>2 DEF IInv, ArmedOverALoss
    <3>. QED
      BY <2>1, <2>2, <3>1 DEF IInv, ArmedOverALoss
  <2>3. CASE r # robot
    BY <1>3, <2>1, <2>3 DEF ArmedOverALoss
  <2>. QED
    BY <2>2, <2>3
<1>10. BookedAsBroker' /\ Ledger!Next
  <2>1. \A u \in Range(robot.history) \cup archive : u.id \in robot.completed
    BY DEF IInv, BookedAsBroker
  <2>2. /\ Range(robot'.history) \subseteq Range(r.history)
        /\ robot'.history \in {r.history, <<>>} /\ DOMAIN <<>> = {}
        /\ robot'.completed = r.completed
    BY <1>1 DEF Safe, Keeps, Range
  <2>3. LedgerWatch' = [LedgerWatch EXCEPT ![id] = "done"] /\ LedgerWatch[id] = "on"
    BY <1>2 DEF LedgerWatch
  <2>4. LedgerOutcome' = LedgerOutcome
    BY DEF LedgerOutcome
  <2>5. CASE r = robot
    <3>1. \A u \in archive' : \/ u \in archive
                             \/ /\ u.id \in robot.completed /\ u.result = "LOSS"
                                /\ \E t \in archive : t.id = u.id /\ t.result = "LOSS"
      BY <2>5 DEF IInv, ArmedOverALoss
    <3>2. LedgerBook' \subseteq LedgerBook
      BY <2>2, <2>5, <3>1 DEF LedgerBook
    <3>3. BookedAsBroker'
      BY <2>2, <2>5, <3>1 DEF IInv, BookedAsBroker
    <3>4. Ledger!Close(id)
      BY <2>2, <2>3, <2>4, <2>5, <3>2 DEF Ledger!Close, Ledger!Abandon
    <3>. QED
      BY <3>3, <3>4 DEF Ledger!Next
  <2>6. CASE r # robot
    <3>1. PICK t \in Trade :
            /\ t.id = id /\ t.result = result /\ id \notin robot.completed
            /\ r.trade = t /\ r.completed = robot.completed \cup {id}
            /\ r.history = Remember(robot.history, t)
      BY <1>3, <2>6
    <3>2. /\ Range(r.history) \subseteq Range(robot.history) \cup {t}
          /\ \A i, j \in DOMAIN r.history : r.history[i].id = r.history[j].id => i = j
      <4>1. \A i, j \in DOMAIN robot.history :
              robot.history[i].id = robot.history[j].id => i = j
        BY DEF IInv, BookedAsBroker
      <4>2. \A u \in Range(robot.history) : u.id # t.id
        BY <2>1, <3>1
      <4>3. /\ Range(Remember(robot.history, t)) \subseteq Range(robot.history) \cup {t}
            /\ \A i, j \in DOMAIN Remember(robot.history, t) :
                 Remember(robot.history, t)[i].id = Remember(robot.history, t)[j].id => i = j
        BY <1>2, <4>1, <4>2, RememberBooks
      <4>4. DOMAIN <<>> = {} /\ Range(<<>>) = {}
        BY DEF Range
      <4>. QED
        BY <3>1, <4>3, <4>4
    <3>3. archive' \subseteq archive \cup {t}
      BY <3>1
    <3>4. BookedAsBroker'
      <4>1. \A u \in Range(robot'.history) \cup archive' :
              u \in Range(robot.history) \cup archive \/ u = t
        BY <2>2, <3>2, <3>3
      <4>2. \A i, j \in DOMAIN robot'.history :
              robot'.history[i].id = robot'.history[j].id => i = j
        BY <2>2, <3>2
      <4>3. \A u \in Range(robot.history) \cup archive :
              u.result \in {"WIN", "LOSS"} => u.result = orders[u.id].st
        BY DEF IInv, BookedAsBroker
      <4>. QED
        BY <2>1, <2>2, <3>1, <4>1, <4>2, <4>3 DEF BookedAsBroker
    <3>5. LedgerBook' \subseteq LedgerBook \cup {<<id, result>>}
      BY <2>2, <3>1, <3>2, <3>3 DEF LedgerBook
    <3>6. result \in Ledger!Results(id)
      BY DEF Ledger!Results, LedgerOutcome
    <3>7. Ledger!Close(id)
      BY <2>2, <2>3, <2>4, <3>1, <3>5, <3>6 DEF Ledger!Close, Ledger!Settle
    <3>. QED
      BY <3>4, <3>7 DEF Ledger!Next
  <2>. QED
    BY <2>5, <2>6
<1>11. HistoryArchived'
  <2>1. \A a \in archive : \E b \in archive' : b.id = a.id
    OBVIOUS
  <2>2. Range(robot'.history) \subseteq Range(r.history)
    BY <1>1, NothingScored DEF Safe
  <2>3. CASE r = robot
    BY <2>1, <2>2, <2>3 DEF IInv, HistoryArchived
  <2>4. CASE r # robot
    <3>1. PICK t \in Trade : /\ t.result = result /\ r.trade = t
                             /\ r.history = Remember(robot.history, t)
      BY <1>3, <2>4
    <3>2. Range(r.history) \subseteq Range(robot.history) \cup {t}
      BY <1>2, <3>1, RememberBooks
    <3>. QED
      BY <2>1, <2>2, <2>4, <3>1, <3>2 DEF IInv, HistoryArchived
  <2>. QED
    BY <2>3, <2>4
<1>12. ScoreMatchesHistory'
  <2>1. Len(r.history) < HistoryLimit =>
          /\ r.wins = Cardinality(Scored(r.history, "WIN"))
          /\ r.losses = Cardinality(Scored(r.history, "LOSS"))
    <3>1. CASE r = robot
      BY <3>1 DEF IInv, ScoreMatchesHistory
    <3>2. CASE r # robot
      <4>1. PICK t \in Trade : /\ r.history = Remember(robot.history, t)
                               /\ r.wins = robot.wins + Point(t, "WIN")
                               /\ r.losses = robot.losses + Point(t, "LOSS")
        BY <1>3, <3>2
      <4>. QED
        BY <1>2, <4>1, RememberScores DEF IInv, ScoreMatchesHistory
    <3>. QED
      BY <3>1, <3>2
  <2>. QED
    BY <1>1, <2>1, NothingScored DEF ScoreMatchesHistory, Safe
<1>13. Moves
  <2>1. Switched
    BY <1>1, <1>3 DEF Switched, Safe
  <2>2. monitor' # monitor
    BY <1>2
  <2>. QED
    BY <2>1, <2>2 DEF Moves, CycleMoves, OrderMoves, StepKeeps
<1>. QED
  BY <1>1, <1>4, <1>5, <1>6, <1>7, <1>8, <1>9, <1>10, <1>11, <1>12, <1>13
  DEF IInv, Safe, GoodStep

\* finish_monitored_trade preserves the invariant.
LEMMA MonitorFinishesStep ==
  ASSUME IInv, NEW id \in OrderIds, MonitorFinishes(id)
  PROVE  GoodStep
<1>. DEFINE result == orders[id].st
<1>1. PICK reported \in Reported :
        LET final == CanSettle(robot, id) /\ ~WantsGale(robot, result, reported)
            done == FinishTrade(robot, id, result, reported)
        IN /\ robot' = Normalise(done)
           /\ archive' = IF done.trade # NoTrade /\ (final \/ done.galePending)
                         THEN {t \in archive : t.id # done.trade.id} \cup {done.trade}
                         ELSE archive
  BY DEF MonitorFinishes, NormalizeTradeResult
<1>2. /\ monitor[id] = "got" /\ cyc.pc = "idle"
      /\ monitor' = [monitor EXCEPT ![id] = "done"]
      /\ UNCHANGED <<orders, cyc, startReq>>
  BY DEF MonitorFinishes
<1>3. /\ result \in {"WIN", "LOSS"} /\ reported \in Int /\ Sound(robot)
  BY <1>2, ReportedAssumption DEF IInv, MonitorOrder
<1>4. robot.trade # NoTrade /\ ~robot.trade.gale => robot.trade.amount = EntryValue
  <2>1. robot.trade # NoTrade => robot.trade.id \in OrderIds
    BY <1>3 DEF Sound, Robot, Trade
  <2>. QED
    BY <2>1 DEF IInv, TradesOfOrders, GaleRecoversALoss, Placed
<1>. DEFINE done == FinishTrade(robot, id, result, reported)
<1>5. /\ Sound(done)
      /\ done.op => done = robot /\ ~CanSettle(robot, id)
      /\ done = robot \/ Settles(robot, done, id, result)
      /\ done = robot /\ CanSettle(robot, id) => WantsGale(robot, result, reported)
      /\ done # robot => ~WantsGale(robot, result, reported) \/ done.galePending
      /\ \/ done.galeParent \in {robot.galeParent, NoTrade}
         \/ /\ result = "LOSS" /\ robot.trade # NoTrade /\ robot.trade.id = id
            /\ ~robot.trade.gale /\ SameTrade(done.galeParent, robot.trade)
  BY <1>3, <1>4, FinishTradeSound
<1>6. /\ robot' = Normalise(done)
      /\ \/ archive' = archive
         \/ /\ done.trade # NoTrade /\ (done = robot => robot.galePending)
            /\ archive' = {t \in archive : t.id # done.trade.id} \cup {done.trade}
      /\ done.trade # NoTrade /\ done # robot => done.trade \in archive'
  BY <1>1, <1>5 DEF Settles
<1>. HIDE DEF done
<1>7. \/ done.galeParent \in {robot.galeParent, NoTrade}
      \/ /\ orders[done.galeParent.id].st = "LOSS"
         /\ ~orders[done.galeParent.id].gale
  BY <1>5 DEF IInv, TradesOfOrders, SameTrade
<1>8. done # robot => done.trade # NoTrade
  BY <1>5, NoneAssumption DEF Settles
<1>. QED
  BY <1>2, <1>3, <1>5, <1>6, <1>7, <1>8, MonitorEndsStep

\* timeout_monitored_trade preserves the invariant, inside a cycle too.
LEMMA MonitorGivesUpStep ==
  ASSUME IInv, NEW id \in OrderIds, MonitorGivesUp(id)
  PROVE  GoodStep
<1>. DEFINE done == TimeoutTrade(robot, id)
<1>1. /\ monitor[id] = "poll" /\ robot' = Normalise(done)
      /\ monitor' = [monitor EXCEPT ![id] = "done"]
      /\ UNCHANGED <<orders, cyc, startReq, archive>>
  BY DEF MonitorGivesUp
<1>2. /\ Sound(done)
      /\ done.op => done = robot /\ ~CanSettle(robot, id)
      /\ done.galeParent \in {robot.galeParent, NoTrade}
      /\ done = robot \/ (Settles(robot, done, id, "TIMEOUT") /\ ~done.galePending)
  BY TimeoutTradeSound DEF IInv
<1>. HIDE DEF done
<1>. QED
  BY <1>1, <1>2, MonitorEndsStep

\* A cycle that goes on, or is cancelled, keeps the order it waits for.
LEMMA CycleMayBeKept ==
  ASSUME IInv, CancelWorker \/ UNCHANGED cyc
  PROVE  CycleKept
BY NoCycleKept DEF CancelWorker, CycleKept, IInv, TypeOK, CycleOrder

\* A request handler that is safe for the robot preserves the invariant,
\* whether or not it cancels the worker's cycle.
LEMMA HandlerStep ==
  ASSUME IInv, NEW r, Safe(robot, r), robot' = Normalise(r),
         UNCHANGED <<orders, monitor>>, CancelWorker \/ UNCHANGED cyc,
         startReq' \in BOOLEAN, archive' \in {archive, {}},
         archive' # archive => r.history = <<>> /\ (~r.galePending \/ r.trade = NoTrade)
  PROVE  GoodStep
<1>1. Safe(robot, robot') /\ Safe(r, robot')
  BY NormaliseSafe, SafeTransitive DEF Safe
<1>2. CycleKept
  BY CycleMayBeKept
<1>3. archive' # archive => /\ robot'.history = <<>>
                            /\ ~robot'.galePending \/ robot'.trade = NoTrade
  BY <1>1 DEF Safe, Keeps
<1>. QED
  BY <1>1, <1>2, <1>3, SafeStep

\* Every request handler preserves the invariant.
LEMMA RequestsStep == ASSUME IInv, Requests PROVE GoodStep
<1>1. Sound(robot) /\ startReq \in BOOLEAN
  BY DEF IInv, TypeOK
<1>2. CASE StopRequest
  BY <1>1, <1>2, StopSafe, HandlerStep DEF StopRequest, Handler
<1>3. CASE StartRequest
  <2>1. Safe(robot, robot')
    BY <1>1, <1>3, SafeReflexive DEF StartRequest
  <2>2. CycleKept
    BY <1>3, CycleMayBeKept DEF StartRequest
  <2>. QED
    BY <1>3, <2>1, <2>2, SafeStep DEF StartRequest, IInv, TypeOK
<1>4. CASE StartResumes
  <2>. DEFINE r == SyncConnection(ClearBackoff(robot), TRUE, TRUE)
  <2>1. Safe(robot, r) /\ Sound(r)
    BY <1>1, ConfirmedSafe DEF Safe
  <2>. HIDE DEF r
  <2>2. /\ Safe(robot, LockReal(r))
        /\ Safe(robot, DisconnectAccount(robot))
        /\ Safe(robot, RequireRealMode(robot)) /\ Safe(robot, InsufficientBalance(robot))
    BY <1>1, <2>1, LockRealSafe, DisconnectAccountSafe, StopAndReleaseSafe,
       SafeTransitive
  <2>3. /\ startReq' \in BOOLEAN /\ UNCHANGED <<orders, monitor, archive>>
        /\ CancelWorker \/ UNCHANGED cyc
    BY <1>4 DEF StartResumes, Payload
  <2>4. \/ robot' = Normalise(Start(r)) \/ robot' = Normalise(LockReal(r))
        \/ robot' = Normalise(DisconnectAccount(robot))
        \/ robot' = Normalise(RequireRealMode(robot))
        \/ robot' = Normalise(InsufficientBalance(robot))
    BY <1>4 DEF StartResumes, r
  <2>5. CASE robot' = Normalise(Start(r))
    <3>1. Safe(SwitchedOn(r), robot')
      BY <2>1, <2>5, StartSafe, NormaliseSafe, SafeTransitive DEF Safe
    <3>2. r \in Robot
      BY <2>1 DEF Sound
    <3>3. /\ SwitchedOn(r).op = r.op /\ SwitchedOn(r).trade = r.trade
          /\ SwitchedOn(r).galeParent = r.galeParent /\ SwitchedOn(r).completed = r.completed
          /\ SwitchedOn(r).galePending = r.galePending /\ SwitchedOn(r).history = r.history
          /\ SwitchedOn(r).wins = r.wins /\ SwitchedOn(r).losses = r.losses
      BY <3>2 DEF SwitchedOn, Robot
    <3>4. /\ Sound(robot') /\ Keeps(robot, robot')
          /\ \/ /\ robot'.history = robot.history
                /\ robot'.wins = robot.wins /\ robot'.losses = robot.losses
             \/ robot'.history = <<>> /\ robot'.wins = 0 /\ robot'.losses = 0
      BY <2>1, <3>1, <3>3 DEF Safe, Keeps
    <3>5. Switched
      BY <1>4 DEF Switched, StartResumes
    <3>. QED
      BY <2>3, <3>4, <3>5, CycleMayBeKept, BooksStep
  <2>. QED
    BY <2>2, <2>3, <2>4, <2>5, HandlerStep
<1>5. CASE PollState
  <2>1. PICK win \in BOOLEAN :
          LET seen == IF robot.connected
                      THEN SyncConnection(ClearBackoff(robot), TRUE, TRUE) ELSE robot
              r == UpdateEntryWindow(seen, win)
          IN \/ /\ Handler(IF r.enabled /\ r.status = "STOPPED"
                           THEN [r EXCEPT !.status = "ANALYZING"] ELSE r)
                /\ Payload
             \/ /\ "balance" \in Events
                /\ Handler(InsufficientBalance(r))
                /\ CancelWorker
    BY <1>5 DEF PollState
  <2>. DEFINE seen == IF robot.connected
                      THEN SyncConnection(ClearBackoff(robot), TRUE, TRUE) ELSE robot
              r == UpdateEntryWindow(seen, win)
              live == IF r.enabled /\ r.status = "STOPPED"
                      THEN [r EXCEPT !.status = "ANALYZING"] ELSE r
  <2>2. Safe(robot, seen) /\ Sound(seen)
    <3>1. Safe(robot, SyncConnection(ClearBackoff(robot), TRUE, TRUE))
      BY <1>1, ConfirmedSafe DEF Safe
    <3>. QED
      BY <1>1, <3>1, SafeReflexive DEF Safe
  <2>3. \/ Handler(live) /\ Payload
        \/ Handler(InsufficientBalance(r)) /\ CancelWorker
    BY <2>1
  <2>. HIDE DEF seen
  <2>4. Safe(robot, r) /\ Sound(r)
    BY <2>2, UpdateEntryWindowSafe, SafeTransitive DEF Safe
  <2>. HIDE DEF r
  <2>5. Safe(r, [r EXCEPT !.status = "ANALYZING"])
    BY <2>4, StatusFacts DEF Safe, Sound, GaleSound, Keeps, Robot
  <2>6. Safe(robot, live) /\ Safe(robot, InsufficientBalance(r))
    BY <2>4, <2>5, StopAndReleaseSafe, SafeTransitive
  <2>. HIDE DEF live
  <2>. QED
    BY <1>1, <1>5, <2>3, <2>6, HandlerStep DEF Handler, Payload, PollState
<1>6. CASE ResetCycleRequest
  <2>1. /\ Safe(robot, ResetCycle(robot)) /\ ResetCycle(robot).trade = NoTrade
        /\ ResetCycle(robot).history = <<>>
    BY <1>1, ResetCycleSafe, ClearGaleFacts DEF ResetCycle, Sound, Robot
  <2>. QED
    BY <1>1, <1>6, <2>1, HandlerStep DEF ResetCycleRequest, Handler
<1>7. CASE ResetScoreRequest
  <2>. DEFINE r == ResetScore(robot)
  <2>1. Safe(robot, r) /\ r.history = <<>>
    BY <1>1, ResetScoreSafe DEF ResetScore, Sound, Robot
  <2>2. robot.galePending /\ robot.trade # NoTrade => ~robot.op /\ IsFinal(robot.trade)
    BY DEF IInv, ArmedOverALoss, IsFinal
  <2>3. ~robot.op /\ IsFinal(robot.trade) => r.trade = NoTrade
    BY <1>1 DEF ResetScore, Sound, Robot
  <2>4. robot' = Normalise(r)
    BY <1>7 DEF ResetScoreRequest, Handler
  <2>. HIDE DEF r
  <2>5. ~r.galePending \/ r.trade = NoTrade
    BY <2>1, <2>2, <2>3 DEF Safe, Keeps
  <2>. QED
    BY <1>1, <1>7, <2>1, <2>4, <2>5, HandlerStep DEF ResetScoreRequest, Handler, Payload
<1>8. CASE ConfigRequest
  <2>1. PICK martingale \in BOOLEAN : Handler(UpdateConfig(robot, martingale))
    BY <1>8 DEF ConfigRequest
  <2>2. Safe(robot, UpdateConfig(robot, martingale))
    BY <1>1, UpdateConfigSafe
  <2>. QED
    BY <1>1, <1>8, <2>1, <2>2, HandlerStep DEF ConfigRequest, Handler
<1>9. CASE DisconnectRequest
  <2>1. Safe(robot, DeferCycle(robot, "WAITING_RECOVERY"))
    BY <1>1, DeferCycleSafe, StatusFacts
  <2>2. Safe(robot, DisconnectAccount(DeferCycle(robot, "WAITING_RECOVERY")))
    BY <2>1, DisconnectAccountSafe, SafeTransitive DEF Safe
  <2>. QED
    BY <1>1, <1>9, <2>2, HandlerStep DEF DisconnectRequest, Handler
<1>10. CASE AccountConfirmed
  <2>1. Safe(robot, SyncConnection(ClearBackoff(robot), TRUE, TRUE))
    BY <1>1, ConfirmedSafe DEF Safe
  <2>. QED
    BY <1>1, <1>10, <2>1, HandlerStep DEF AccountConfirmed, Handler, Payload
<1>11. CASE AccountNotReal
  BY <1>1, <1>11, StopAndReleaseSafe, HandlerStep DEF AccountNotReal, Handler
<1>. QED
  BY <1>2, <1>3, <1>4, <1>5, <1>6, <1>7, <1>8, <1>9, <1>10, <1>11 DEF Requests

\* A new day changes the dates of what is booked, and nothing else.
LEMMA MidnightStep == ASSUME IInv, MidnightPasses PROVE GoodStep
<1>. DEFINE late(t) == [t EXCEPT !.today = FALSE]
<1>1. /\ robot' = Midnight(robot) /\ archive' = {late(t) : t \in archive}
      /\ UNCHANGED <<orders, monitor, cyc, startReq>>
  BY DEF MidnightPasses
<1>2. /\ Sound(robot') /\ Keeps(robot, robot')
      /\ DOMAIN robot'.history = DOMAIN robot.history
      /\ Len(robot'.history) = Len(robot.history)
      /\ robot'.wins = robot.wins /\ robot'.losses = robot.losses
      /\ robot'.enabled = robot.enabled
      /\ \A i \in DOMAIN robot.history : /\ robot'.history[i].id = robot.history[i].id
                                        /\ robot'.history[i].result = robot.history[i].result
                                        /\ robot'.history[i].final = robot.history[i].final
  BY <1>1, MidnightSound DEF IInv
<1>3. \A t \in archive : t \in Trade /\ late(t) \in Trade
                        /\ late(t).id = t.id /\ late(t).result = t.result
  BY DEF IInv, TypeOK, Trade
<1>. HIDE DEF late
<1>4. /\ \A u \in archive' : \E t \in archive : u.id = t.id /\ u.result = t.result
      /\ \A t \in archive : \E u \in archive' : u.id = t.id /\ u.result = t.result
  BY <1>1, <1>3
<1>5. \A u \in Range(robot'.history) :
        \E t \in Range(robot.history) : u.id = t.id /\ u.result = t.result
  BY <1>2 DEF Range
<1>6. BookedAsBroker'
  <2>1. orders' = orders /\ robot'.completed = robot.completed
    BY <1>1, <1>2 DEF Keeps
  <2>2. \A u \in Range(robot'.history) \cup archive' :
          \E t \in Range(robot.history) \cup archive : u.id = t.id /\ u.result = t.result
    BY <1>4, <1>5
  <2>3. \A i, j \in DOMAIN robot'.history :
          robot'.history[i].id = robot'.history[j].id => i = j
    BY <1>2 DEF IInv, BookedAsBroker
  <2>. QED
    BY <2>1, <2>2, <2>3 DEF IInv, BookedAsBroker
<1>7. LedgerBook' \subseteq LedgerBook
  BY <1>4, <1>5 DEF LedgerBook
<1>8. ArmedOverALoss'
  BY <1>2, <1>4 DEF IInv, ArmedOverALoss, Keeps
<1>9. archive' \subseteq Trade
  BY <1>1, <1>3
<1>10. CycleKept /\ startReq' \in BOOLEAN
  BY <1>1, CycleMayBeKept DEF IInv, TypeOK
<1>11. HistoryArchived'
  BY <1>4, <1>5 DEF IInv, HistoryArchived
<1>12. ScoreMatchesHistory'
  <2>1. \A result : Scored(robot'.history, result) = Scored(robot.history, result)
    BY <1>2 DEF Scored
  <2>. QED
    BY <1>2, <2>1 DEF IInv, ScoreMatchesHistory
<1>13. Switched
  BY <1>2 DEF Switched
<1>. QED
  BY <1>1, <1>2, <1>6, <1>7, <1>8, <1>9, <1>10, <1>11, <1>12, <1>13, KeptStep

\* Session failures, the heartbeat and time preserve the invariant.
LEMMA EnvironmentStep == ASSUME IInv, Environment PROVE GoodStep
<1>1. Sound(robot) /\ cyc \in Cycle /\ startReq \in BOOLEAN /\ archive \subseteq Trade
  BY DEF IInv, TypeOK
<1>2. ASSUME UNCHANGED <<orders, monitor, cyc, startReq, archive>>, Safe(robot, robot')
      PROVE  GoodStep
  BY <1>1, <1>2, SafeStep, CycleMayBeKept
<1>3. CASE SessionFails
  BY <1>1, <1>2, <1>3, DeferCycleSafe, StatusFacts DEF SessionFails
<1>4. CASE SessionRecovers
  BY <1>1, <1>2, <1>4, ClearBackoffSafe DEF SessionRecovers
<1>5. CASE WorkerHeartbeat
  <2>1. Safe(robot, ResetCycleAfterResult(robot))
    BY <1>1, ResetCycleAfterResultSafe
  <2>2. Safe(robot, Normalise(ResetCycleAfterResult(robot)))
    BY <2>1, NormaliseSafe, SafeTransitive DEF Safe
  <2>. QED
    BY <1>2, <1>5, <2>2 DEF WorkerHeartbeat
<1>6. CASE CycleDue
  <2>1. Safe(robot, [robot EXCEPT !.nextCycle = "due"])
    BY <1>1, ClockFacts DEF Safe, Sound, GaleSound, Keeps, Robot
  <2>2. robot' = [robot EXCEPT !.nextCycle = "due"]
    BY <1>6 DEF CycleDue, Due
  <2>. QED
    BY <1>2, <1>6, <2>1, <2>2 DEF CycleDue
<1>7. CASE DisplayDue
  <2>1. Safe(robot, [robot EXCEPT !.display = "due"])
    BY <1>1, ClockFacts DEF Safe, Sound, GaleSound, Keeps, Robot
  <2>2. robot' = [robot EXCEPT !.display = "due"]
    BY <1>7 DEF DisplayDue, Due
  <2>. QED
    BY <1>2, <1>7, <2>1, <2>2 DEF DisplayDue
<1>8. CASE WindowCloses
  <2>1. /\ cyc' \in Cycle /\ cyc'.pc = cyc.pc /\ cyc'.order = cyc.order
        /\ cyc'.left = cyc.left
    BY <1>1, <1>8 DEF WindowCloses, Cycle
  <2>2. CycleKept
    BY <2>1 DEF CycleKept
  <2>. QED
    BY <1>1, <1>8, <2>2, SafeReflexive, SafeStep DEF WindowCloses
<1>9. CASE MidnightPasses
  BY <1>9, MidnightStep
<1>. QED
  BY <1>3, <1>4, <1>5, <1>6, <1>7, <1>8, <1>9 DEF Environment

\* The invariant is inductive.
LEMMA NextGood == IInv /\ [Next]_vars => GoodStep
<1>. SUFFICES ASSUME IInv, [Next]_vars PROVE GoodStep
  OBVIOUS
<1>1. CASE Cycles
  BY <1>1, BeginCycleStep, AccountResumesStep, AnalysisResumesStep,
     SubmitResumesStep, RecordResumesStep DEF Cycles
<1>2. CASE Monitors
  BY <1>2, MonitorFetchesStep, MonitorFinishesStep, MonitorGivesUpStep DEF Monitors
<1>3. CASE Broker
  BY <1>3, BrokerStep DEF Broker
<1>4. CASE Requests
  BY <1>4, RequestsStep
<1>5. CASE Environment
  BY <1>5, EnvironmentStep
<1>6. CASE UNCHANGED vars
  <2>1. Sound(robot)' /\ TypeOK'
    BY <1>6 DEF vars, IInv, TypeOK
  <2>2. OpenTradeIsMonitored' /\ TradesOfOrders' /\ CycleOrder' /\ MonitorOrder'
        /\ GaleOrders' /\ GaleRecoversALoss' /\ ArmedOverALoss' /\ BookedAsBroker'
        /\ HistoryArchived' /\ ScoreMatchesHistory'
    BY <1>6 DEF vars, IInv, OpenTradeIsMonitored, TradesOfOrders, CycleOrder,
                MonitorOrder, GaleOrders, GaleRecoversALoss, ArmedOverALoss, BookedAsBroker,
                HistoryArchived, ScoreMatchesHistory
  <2>3. Ledger!Next /\ SendAllowed
    BY <1>6 DEF vars, Ledger!Next, Ledger!Forget, LedgerOutcome, LedgerWatch, LedgerBook,
                SendAllowed, Sending
  <2>4. Moves
    <3>1. Sound(robot)
      BY DEF IInv
    <3>. QED
      BY <1>6, <3>1, SafeReflexive
      DEF vars, Moves, Switched, CycleMoves, OrderMoves, StepKeeps, Safe
  <2>. QED
    BY <2>1, <2>2, <2>3, <2>4 DEF IInv, GoodStep
<1>. QED
  BY <1>1, <1>2, <1>3, <1>4, <1>5, <1>6 DEF Next

\* The inductive invariant holds in every reachable state of the gateway's
\* robot, for any number of orders, any limits and any stake.
THEOREM Invariance == Spec => []IInv
<1>1. IInv /\ [Next]_vars => IInv'
  BY NextGood DEF GoodStep
<1>. QED
  BY <1>1, InitIInv, PTL DEF Spec

\* Through every handler and every cycle each variable keeps its type and
\* the history in memory stays within its limit (auto_trader.py: del history[:-100]).
THEOREM TypeCorrect == Spec => []TypeOK
<1>1. IInv => TypeOK
  BY DEF IInv
<1>. QED
  BY <1>1, Invariance, PTL

\* A robot that shows WAITING_RESULT or PENDING_GALE_RESULT has its
\* operation open, so prepare_cycle never re-opens one that was released.
THEOREM WaitingIsOpen == Spec => []WaitingMeansOpen
<1>1. IInv => WaitingMeansOpen
  BY DEF IInv, Sound, WaitingMeansOpen
<1>. QED
  BY <1>1, Invariance, PTL

\* An open operation is an unsettled recorded trade whose monitor task is
\* still running, whatever stops, restarts, failures and deadlines interleave.
THEOREM OpenIsMonitored == Spec => []OpenTradeIsMonitored
<1>1. IInv => OpenTradeIsMonitored
  BY DEF IInv
<1>. QED
  BY <1>1, Invariance, PTL

\* Every martingale order doubles the plain stake to recover a normal order
\* the broker did lose, and every other order is for the plain stake.
THEOREM GaleIsARecovery == Spec => []GaleRecoversALoss
<1>1. IInv => GaleRecoversALoss
  BY DEF IInv
<1>. QED
  BY <1>1, Invariance, PTL

\* What the history books for an order, in memory or persisted, is the
\* outcome the broker gave to that same order, and no order is there twice.
THEOREM BookIsTheBrokers == Spec => []BookedAsBroker
<1>1. IInv => BookedAsBroker
  BY DEF IInv
<1>. QED
  BY <1>1, Invariance, PTL

\* wins and losses count the final trades of the history, each once, until the
\* history is full (finish_trade, trigger_gale, reset_score, reset_cycle).
THEOREM ScoreIsTheHistorys == Spec => []ScoreMatchesHistory
<1>1. IInv => ScoreMatchesHistory
  BY DEF IInv
<1>. QED
  BY <1>1, Invariance, PTL

\* The results of today, the persisted ones and those only the memory holds,
\* are the persisted ones: daily_stop_reason sees what the archive sees.
LEMMA DayIsArchived ==
  ASSUME IInv
  PROVE  /\ GrossLoss(DayTrades(robot)) = GrossLoss(archive)
         /\ GrossProfit(DayTrades(robot)) = GrossProfit(archive)
<1>. DEFINE loss(S) == MapThenSumSet(LAMBDA t : -t.profit, {t \in S : t.profit < 0})
            profit(S) == MapThenSumSet(LAMBDA t : t.profit, {t \in S : t.profit > 0})
<1>1. Settled(DayTrades(robot)) = Settled(archive)
  BY DEF IInv, HistoryArchived, DayTrades, Settled
<1>2. \A S : GrossLoss(S) = loss(Settled(S)) /\ GrossProfit(S) = profit(Settled(S))
  BY DEF GrossLoss, GrossProfit
<1>. HIDE DEF loss, profit
<1>. QED
  BY <1>1, <1>2

\* No order leaves once the trades booked today have reached a daily limit,
\* however short the history the process remembers (daily_stop_reason,
\* load_robot_history_items).
THEOREM DailyLimitsAreHeld == Spec => DailyLimitsHold
<1>1. IInv /\ [Next]_vars =>
        [\A id \in OrderIds : Sending(id) =>
           /\ ~LossLimitHit(GrossLoss(archive))
           /\ ~WinLimitHit(GrossProfit(archive))]_vars
  <2>. SUFFICES ASSUME IInv, [Next]_vars, NEW id \in OrderIds, Sending(id)
                PROVE  /\ ~LossLimitHit(GrossLoss(archive))
                       /\ ~WinLimitHit(GrossProfit(archive))
    OBVIOUS
  <2>1. StopReason(robot) = "none"
    BY NextGood DEF GoodStep, SendAllowed
  <2>2. DailyStop(robot) = "none"
    BY <2>1 DEF StopReason
  <2>3. ~LossLimitHit(GrossLoss(DayTrades(robot))) /\ ~WinLimitHit(GrossProfit(DayTrades(robot)))
    BY <2>2 DEF DailyStop
  <2>. QED
    BY <2>3, DayIsArchived
<1>. QED
  BY <1>1, Invariance, PTL DEF Spec, DailyLimitsHold

\* An order leaves only for a robot that is switched on, has no operation open
\* and has reached no limit (MaySend, daily_stop_reason, robot_stop_reason).
THEOREM SendsAllowed == Spec => SendsOnlyWhenAllowed
<1>1. IInv /\ [Next]_vars =>
        [\A id \in OrderIds : Sending(id) =>
           robot.enabled /\ ~robot.op /\ StopReason(robot) = "none"]_vars
  BY NextGood DEF GoodStep, SendAllowed
<1>. QED
  BY <1>1, Invariance, PTL DEF Spec, SendsOnlyWhenAllowed

\* Every behaviour of the robot's cycle is one of the ledger: each order is
\* watched once, settled once with its own outcome or dropped, and what was
\* booked is only ever forgotten.
THEOREM Refinement == Spec => ImplementsLedger
<1>1. Init => Ledger!Init
  <2>. SUFFICES ASSUME Init PROVE Ledger!Init
    OBVIOUS
  <2>1. robot.history = <<>> /\ robot.completed = {} /\ archive = {} /\ DOMAIN <<>> = {}
    BY DEF Init, NewRobot
  <2>2. LedgerBook = {}
    BY <2>1 DEF LedgerBook, Range
  <2>3. LedgerOutcome = [id \in OrderIds |-> "none"]
    BY DEF Init, LedgerOutcome, UnusedOrder
  <2>4. LedgerWatch = [id \in OrderIds |-> "off"]
    BY DEF Init, LedgerWatch
  <2>. QED
    BY <2>1, <2>2, <2>3, <2>4 DEF Ledger!Init
<1>2. IInv /\ [Next]_vars => Ledger!Next
  BY NextGood DEF GoodStep
<1>. QED
  BY <1>1, <1>2, Invariance, PTL DEF Spec, ImplementsLedger, Ledger!Spec
=============================================================================
