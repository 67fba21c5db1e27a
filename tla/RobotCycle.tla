----------------------------- MODULE RobotCycle -----------------------------
(***************************************************************************)
(* One user's robot inside the gateway process (backend/main.py): the      *)
(* trading cycle, the result monitor of every order, the HTTP handlers     *)
(* that change the robot and the session failures that hit it, around the  *)
(* AutoTrader record.                                                      *)
(*                                                                         *)
(* The process is one asyncio loop, so a handler runs without interruption *)
(* from one await to the next: each action is such a segment.  A cycle     *)
(* (execute_robot_cycle) holds cycle_lock through its awaits, which are    *)
(*   account    the /sessions/status call and the connection check         *)
(*   analysis   the scan of the assets                                     *)
(*   submit     POST /orders/buy-real                                      *)
(*   recording  the server time of an accepted order.                      *)
(* The broker is external: an order that was sent is opened or refused,    *)
(* and an open order is won or lost, whatever the gateway heard of it.     *)
(***************************************************************************)
EXTENDS AutoTrader

CONSTANTS
  MaxAttempts,    \* MAX_ORDER_ATTEMPTS_PER_CYCLE, 3 in the code
  Fallbacks,      \* bound: candidates ranked behind the selected one
  Reported,       \* bound: profits the result endpoint may report
  Environments    \* bound: the environments a run explores, see env

ASSUME AttemptsAssumption == MaxAttempts \in Nat \ {0} /\ Fallbacks \in Nat
ASSUME ReportedAssumption == Reported \subseteq Int

VARIABLES
  robot,     \* auto_trader.get(user_id)
  orders,    \* what the broker knows of each order, and how it was sent
  monitor,   \* the TradeResultMonitor task of each order
  cyc,       \* the cycle in progress, with the locals it keeps across awaits:
             \* win is the entry window it read, late that it has closed since
  startReq,  \* a POST /robot/start waits for the session or the account
  archive,   \* robot_persistence's trade history
  env        \* bound: the requests and failures this behaviour may meet, and
             \* how many orders it may send

vars == <<robot, orders, monitor, cyc, startReq, archive, env>>

Events == env.events

OrderStates == {"unused", "sent", "open", "WIN", "LOSS", "refused"}
Order == [st : OrderStates, gale : BOOLEAN, amount : Nat,
          parent : OrderIds \cup {NoOrder}]
UnusedOrder == [st |-> "unused", gale |-> FALSE, amount |-> 0, parent |-> NoOrder]

Cycle == [pc : {"idle", "account", "analysis", "submit", "recording"},
          by : {"nobody", "worker", "tick"}, win : BOOLEAN, late : BOOLEAN,
          left : Nat, order : OrderIds \cup {NoOrder}]
NoCycle == [pc |-> "idle", by |-> "nobody", win |-> FALSE, late |-> FALSE,
            left |-> 0, order |-> NoOrder]

Init ==
  /\ robot = NewRobot
  /\ orders = [id \in OrderIds |-> UnusedOrder]
  /\ monitor = [id \in OrderIds |-> "off"]
  /\ cyc = NoCycle
  /\ startReq = FALSE
  /\ archive = {}
  /\ env \in Environments

-----------------------------------------------------------------------------
(* Stop rules                                                              *)

\* A mutant of DayTrades: only what the process remembers.
RememberedTrades(r) == Range(r.history)

\* load_robot_history_items: the persisted trades, completed by those only
\* the memory holds.
DayTrades(r) ==
  archive \cup {t \in Range(r.history) : \A a \in archive : a.id # t.id}

\* build_management_summary: the loss limit is looked at first.
DailyStop(r) ==
  LET day == DayTrades(r)
  IN CASE LossLimitHit(GrossLoss(day)) -> "STOP_LOSS_HIT"
       [] ~LossLimitHit(GrossLoss(day)) /\ WinLimitHit(GrossProfit(day)) -> "STOP_WIN_HIT"
       [] OTHER -> "none"

\* daily_stop_reason(...) or robot_stop_reason(...)
StopReason(r) ==
  CASE DailyStop(r) # "none" -> DailyStop(r)
    [] DailyStop(r) = "none" /\ r.op -> "OPERATION_IN_PROGRESS"
    [] DailyStop(r) = "none" /\ ~r.op /\ WinLimitHit(r.profit) -> "STOP_WIN_HIT"
    [] /\ DailyStop(r) = "none" /\ ~r.op
       /\ ~WinLimitHit(r.profit) /\ LossLimitHit(-r.profit) -> "STOP_LOSS_HIT"
    [] OTHER -> "none"

DisplayExpired(r) == r.status \in ShownStatuses /\ r.display = "due"

\* A mutant of WaitingStale: an open operation is stale at once.
WaitingStaleHasty(r) == r.status = "WAITING_RESULT"

\* waiting_result_stale; a last trade without a result is not stale.
WaitingStale(r) ==
  r.status = "WAITING_RESULT" /\ ~r.op /\ (r.trade = NoTrade \/ IsFinal(r.trade))

\* clear_session_backoff
ClearBackoff(r) ==
  IF r.status \in {"CONNECTION_BACKOFF", "WAITING_RECOVERY"} /\ r.enabled
  THEN DeferCycle(r, "WAITING_NEXT_CYCLE") ELSE r

\* The branch every cycle takes once it finds the robot disabled.
SwitchedOff(r) == [DisarmGale(r) EXCEPT !.status = "STOPPED", !.pending = NoSignal]

-----------------------------------------------------------------------------
(* Steps of a cycle.  EndCycle is a return: the payload or the finally     *)
(* clause serialises the robot, and cycle_lock is released.                *)

EndCycle(r) ==
  /\ robot' = Normalise(r)
  /\ cyc' = NoCycle
  /\ UNCHANGED <<orders, monitor>>

Await(r, pc, by, win) ==
  /\ robot' = r
  /\ cyc' = [NoCycle EXCEPT !.pc = pc, !.by = by, !.win = win]
  /\ UNCHANGED <<orders, monitor>>

SendOrder(r, gale, left) ==
  \E id \in OrderIds :
    /\ orders[id].st = "unused"
    /\ Cardinality({other \in OrderIds : orders[other].st # "unused"}) < env.orders
    /\ robot' = [StartSendingOrder(SetOrderAttempt(r)) EXCEPT !.cycle = @ \cup {id}]
    /\ orders' = [orders EXCEPT ![id] =
         [st |-> "sent", gale |-> gale,
          amount |-> IF gale THEN r.galeAmount ELSE EntryValue,
          parent |-> IF r.galeParent = NoTrade THEN NoOrder ELSE r.galeParent.id]]
    /\ cyc' = [cyc EXCEPT !.pc = "submit", !.left = left, !.order = id]
    /\ UNCHANGED monitor

\* A mutant of MaySend: the switch is not looked at again.
MaySendBlindly(r) == r.attempts < MaxAttempts

MaySend(r) == r.enabled /\ r.attempts < MaxAttempts

\* One pass of the loop over order_attempt_candidates, when n candidates
\* are left besides this one.  Closed candidates are skipped: trying a later
\* one is a pass with fewer left, running out of them rejects the order.
TryCandidate(r, gale, n) ==
  \/ /\ ~r.enabled
     /\ EndCycle(SwitchedOff(r))
  \/ /\ r.enabled /\ r.attempts >= MaxAttempts
     /\ EndCycle(RejectOrder(r))
  \/ /\ MaySend(r)
     /\ StopReason(r) \in StopStatuses
     /\ EndCycle(PauseByStop(r, StopReason(r)))
  \/ /\ MaySend(r)
     /\ StopReason(r) \notin StopStatuses
     /\ \/ EndCycle(RejectStrategy(r))
        \/ EndCycle(RejectOrder(r))
        \/ \E left \in 0..n : SendOrder(r, gale, left)

\* A pending signal meets the entry window the cycle read before its awaits.
EntryGate(r, win) ==
  \/ /\ ~win
     /\ IF ~r.pending.targeted
        THEN EndCycle([r EXCEPT !.pending.targeted = TRUE, !.status = "WAITING_ENTRY"])
        ELSE \/ EndCycle(ExpirePendingSignal(r))
             \/ EndCycle([r EXCEPT !.status = "WAITING_ENTRY"])
  \/ /\ win
     /\ LET gale == r.galePending \/ r.pending.gale
        IN IF gale THEN TryCandidate(r, TRUE, 0)
           ELSE \E n \in 0..Fallbacks : TryCandidate(r, FALSE, n)

\* execute_robot_cycle up to its first await.  The worker does not tick
\* while an operation is open; POST /robot/tick always does.
BeginCycle(by) ==
  LET shown == DisplayExpired(robot) \/ WaitingStale(robot)
      fresh == IF shown THEN Normalise(ResetCycleAfterResult(robot)) ELSE robot
      ready == IF fresh.pending = NoSignal THEN PrepareCycle(fresh) ELSE fresh
  IN /\ cyc.pc = "idle"
     /\ by = "worker" => robot.enabled /\ ~robot.op
     /\ CASE StopReason(fresh) \in StopStatuses ->
               EndCycle(PauseByStop(fresh, StopReason(fresh)))
          [] /\ StopReason(fresh) \notin StopStatuses
             /\ fresh.pending = NoSignal /\ ~CanRun(fresh) -> EndCycle(ready)
          [] OTHER ->
               IF ready.op
               THEN EndCycle([ready EXCEPT !.status = WaitingStatus(ready)])
               ELSE \/ Await(Normalise(ready), "account", by, FALSE)
                    \/ /\ "balance" \in Events
                       /\ EndCycle(InsufficientBalance(ready))
     /\ UNCHANGED <<startReq, env, archive>>

\* A signal that is pending is shown as waiting for its entry.
ShowEntry(r) ==
  IF r.pending # NoSignal /\ ~r.op THEN [r EXCEPT !.status = EntryStatus(r)] ELSE r

MayChoose(r, ready) ==
  /\ r.pending = NoSignal /\ ready.enabled
  /\ ready.status = "WAITING_NEXT_CYCLE" /\ ~ready.op

\* The connection is checked, then balance, mode and stop rules (an account
\* that is not REAL locks the robot); a pending signal goes to its entry
\* window, otherwise the analysis may start.  An exception anywhere in the
\* cycle waits for the next analysis window.
AccountChecked(seen, r, ready, win) ==
  \/ /\ "session" \in Events
     /\ EndCycle(DisconnectAccount(seen))
  \/ /\ "balance" \in Events
     /\ EndCycle(InsufficientBalance(r))
  \/ /\ StopReason(r) # "none" \/ "account" \in Events
     /\ EndCycle(LockReal(r))
  \/ /\ "session" \in Events \/ (r.status = "ANALYZING" /\ r.pending = NoSignal)
     /\ EndCycle(WaitAnalysisWindow(r))
  \/ /\ StopReason(r) = "none" /\ r.pending # NoSignal
     /\ EntryGate(ready, win)
  \/ /\ StopReason(r) = "none" /\ MayChoose(r, ready)
     /\ IF ready.nextCycle = "later" THEN EndCycle(ready)
        ELSE Await(ready, "analysis", cyc.by, win)
  \/ /\ StopReason(r) = "none" /\ r.pending = NoSignal /\ ~MayChoose(r, ready)
     /\ EndCycle(IF ready.enabled THEN WaitAnalysisWindow(ready)
                                  ELSE SwitchedOff(ready))

AccountResumes ==
  /\ cyc.pc = "account"
  /\ \E win \in BOOLEAN, align \in BOOLEAN :
       LET seen == UpdateEntryWindow(robot, win)
           r == SyncConnection(seen, TRUE, align)
       IN AccountChecked(seen, r, Normalise(ShowEntry(r)), win)
  /\ UNCHANGED <<startReq, env, archive>>

\* No candidate, or a failed scan, waits for the next candle; the entry
\* window is the one of AccountResumes.
AnalysisResumes ==
  /\ cyc.pc = "analysis"
  /\ \/ EndCycle(WaitAnalysisWindow(robot))
     \/ EntryGate(SetPendingSignal(robot), cyc.win)
  /\ UNCHANGED <<startReq, env, archive>>

\* The answer of the order call: accepted, refused because the asset is not
\* available (the next candidate is tried), refused, or lost on its way.
SubmitResumes ==
  LET order == orders[cyc.order]
  IN /\ cyc.pc = "submit"
     /\ \/ /\ order.st \in {"open", "WIN", "LOSS"}
           /\ cyc' = [cyc EXCEPT !.pc = "recording"]
           /\ UNCHANGED <<robot, orders, monitor>>
        \/ /\ order.st = "refused" /\ cyc.left > 0
           /\ TryCandidate(robot, robot.galePending, cyc.left - 1)
        \/ /\ order.st = "refused" \/ "gateway" \in Events
           /\ EndCycle(RejectOrder(robot))
     /\ UNCHANGED <<startReq, env, archive>>

\* The accepted order becomes last_trade and its monitor is started, even
\* when record_trade ignored it.
RecordResumes ==
  LET order == orders[cyc.order]
      trade == [id |-> cyc.order, gale |-> order.gale, amount |-> order.amount,
                parent |-> IF robot.galeParent = NoTrade THEN NoOrder
                           ELSE robot.galeParent.id,
                result |-> "PENDING_RESULT", profit |-> 0, final |-> FALSE,
                today |-> TRUE]
  IN /\ cyc.pc = "recording"
     /\ robot' = Normalise(RecordTrade(robot, trade))
     /\ monitor' = [monitor EXCEPT ![cyc.order] = "poll"]
     /\ cyc' = NoCycle
     /\ UNCHANGED <<orders, startReq, env, archive>>

-----------------------------------------------------------------------------
(* The broker (external) and the result monitor                            *)

BrokerDecides(id) ==
  /\ orders[id].st = "sent"
  /\ \E st \in {"open", "refused"} : orders' = [orders EXCEPT ![id].st = st]
  /\ UNCHANGED <<robot, monitor, cyc, startReq, env, archive>>

BrokerExpires(id) ==
  /\ orders[id].st = "open"
  /\ \E st \in {"WIN", "LOSS"} : orders' = [orders EXCEPT ![id].st = st]
  /\ UNCHANGED <<robot, monitor, cyc, startReq, env, archive>>

MonitorFetches(id) ==
  /\ monitor[id] = "poll"
  /\ orders[id].st \in {"WIN", "LOSS"}
  /\ monitor' = [monitor EXCEPT ![id] = "got"]
  /\ UNCHANGED <<robot, orders, cyc, startReq, env, archive>>

\* normalize_trade_result: a draw is a loss, and so is a win reported with a
\* negative profit.  The WIN or LOSS of an order is the normalised one, so no
\* WIN carries a negative profit.
NormalizeTradeResult(result) ==
  {p \in Reported : /\ result = "WIN" => p >= 0
                    /\ "amounts" \in Events \/ p = 0}

\* finish_monitored_trade: under cycle_lock, so never inside a cycle.  The
\* result is saved when it is final, and also when it armed a gale.
MonitorFinishes(id) ==
  /\ monitor[id] = "got"
  /\ cyc.pc = "idle"
  /\ \E reported \in NormalizeTradeResult(orders[id].st) :
       LET result == orders[id].st
           final == CanSettle(robot, id) /\ ~WantsGale(robot, result, reported)
           done == FinishTrade(robot, id, result, reported)
       IN /\ robot' = Normalise(done)
          /\ archive' = IF done.trade # NoTrade /\ (final \/ done.galePending)
                        THEN {t \in archive : t.id # done.trade.id} \cup {done.trade}
                        ELSE archive
  /\ monitor' = [monitor EXCEPT ![id] = "done"]
  /\ UNCHANGED <<orders, cyc, startReq, env>>

\* The deadline of the monitor: timeout_monitored_trade takes another lock
\* and may run inside a cycle.
MonitorGivesUp(id) ==
  /\ "timeout" \in Events
  /\ monitor[id] = "poll"
  /\ robot' = Normalise(TimeoutTrade(robot, id))
  /\ monitor' = [monitor EXCEPT ![id] = "done"]
  /\ UNCHANGED <<orders, cyc, startReq, env, archive>>

-----------------------------------------------------------------------------
(* HTTP handlers.  stop_robot_worker cancels the cycle the worker runs;    *)
(* one that POST /robot/tick runs goes on.                                 *)

CancelWorker == cyc' = IF cyc.by = "worker" THEN NoCycle ELSE cyc

\* build_robot_payload, in the answer of a handler: a worker of an enabled
\* robot that has not ticked for 30 s is cancelled and replaced.
Payload == UNCHANGED cyc \/ (robot'.enabled /\ CancelWorker)

Handler(r) ==
  /\ robot' = Normalise(r)
  /\ UNCHANGED <<orders, monitor, startReq, env>>

StopRequest ==
  /\ "stop" \in Events
  /\ Handler(Stop(robot))
  /\ CancelWorker
  /\ UNCHANGED archive

\* A robot already paused by its stop limits is refused at once.  The code
\* lets a running robot be started again, and one whose operation is open; a
\* run may leave that out.
StartRequest ==
  /\ ~startReq
  /\ "restart" \in Events \/ (~robot.enabled /\ ~robot.op /\ cyc.pc = "idle")
  /\ robot.status \notin StopStatuses
  /\ startReq' = TRUE
  /\ UNCHANGED <<robot, orders, monitor, cyc, archive, env>>

\* The answers are in: the robot starts, or is locked, disconnected, sent
\* back to the real mode or stopped for its balance.  A worker that has not
\* ticked for 30 s is cancelled by ensure_robot_worker.
StartResumes ==
  LET r == SyncConnection(ClearBackoff(robot), TRUE, TRUE)
  IN /\ startReq
     /\ startReq' = FALSE
     /\ \/ /\ StopReason(r) = "none"
           /\ robot' = Normalise(Start(r))
           /\ Payload
        \/ /\ StopReason(r) # "none"
           /\ robot' = Normalise(LockReal(r))
           /\ UNCHANGED cyc
        \/ /\ "session" \in Events
           /\ robot' = Normalise(DisconnectAccount(robot))
           /\ CancelWorker
        \/ /\ "balance" \in Events
           /\ \/ robot' = Normalise(RequireRealMode(robot))
              \/ robot' = Normalise(InsufficientBalance(robot))
           /\ CancelWorker
     /\ UNCHANGED <<orders, monitor, archive, env>>

\* GET /robot/state, the poll of the dashboard.
PollState ==
  /\ "poll" \in Events
  /\ \E win \in BOOLEAN :
       LET seen == IF robot.connected
                   THEN SyncConnection(ClearBackoff(robot), TRUE, TRUE) ELSE robot
           r == UpdateEntryWindow(seen, win)
       IN \/ /\ Handler(IF r.enabled /\ r.status = "STOPPED"
                        THEN [r EXCEPT !.status = "ANALYZING"] ELSE r)
             /\ Payload
          \/ /\ "balance" \in Events
             /\ Handler(InsufficientBalance(r))
             /\ CancelWorker
  /\ UNCHANGED archive

ResetCycleRequest ==
  /\ "reset" \in Events
  /\ Handler(ResetCycle(robot))
  /\ CancelWorker
  /\ archive' = {}

ResetScoreRequest ==
  /\ "reset" \in Events
  /\ Handler(ResetScore(robot))
  /\ archive' = {}
  /\ Payload

ConfigRequest ==
  /\ "config" \in Events
  /\ ~robot.enabled /\ ~robot.op /\ cyc.by # "worker"
  /\ \E martingale \in BOOLEAN : Handler(UpdateConfig(robot, martingale))
  /\ UNCHANGED <<cyc, archive>>

\* POST /bullex/disconnect after the call to the service.
DisconnectRequest ==
  /\ "disconnect" \in Events
  /\ Handler(DisconnectAccount(DeferCycle(robot, "WAITING_RECOVERY")))
  /\ CancelWorker
  /\ UNCHANGED archive

\* POST /bullex/connect and GET /bullex/account once the service answered
\* with a real account, or with anything else.
AccountConfirmed ==
  /\ "account" \in Events
  /\ Handler(SyncConnection(ClearBackoff(robot), TRUE, TRUE))
  /\ Payload
  /\ UNCHANGED archive

AccountNotReal ==
  /\ "account" \in Events
  /\ Handler(RequireRealMode(robot))
  /\ CancelWorker
  /\ UNCHANGED archive

-----------------------------------------------------------------------------
(* Session failures, the worker's heartbeat and time                       *)

\* mark_session_failure: any /account or /sessions/status call that fails,
\* of any handler, defers the cycle of the robot.
SessionFails ==
  /\ "session" \in Events
  /\ \E status \in {"CONNECTION_BACKOFF", "WAITING_RECOVERY"} :
       robot' = DeferCycle(robot, status)
  /\ UNCHANGED <<orders, monitor, cyc, startReq, env, archive>>

SessionRecovers ==
  /\ "session" \in Events
  /\ robot' = ClearBackoff(robot)
  /\ UNCHANGED <<orders, monitor, cyc, startReq, env, archive>>

\* The worker resets a result shown long enough before it takes cycle_lock.
WorkerHeartbeat ==
  /\ robot.enabled
  /\ DisplayExpired(robot) \/ WaitingStale(robot)
  /\ robot' = Normalise(ResetCycleAfterResult(robot))
  /\ UNCHANGED <<orders, monitor, cyc, startReq, env, archive>>

CycleDue ==
  /\ robot.nextCycle = "later"
  /\ robot' = [robot EXCEPT !.nextCycle = Due(@)]
  /\ UNCHANGED <<orders, monitor, cyc, startReq, env, archive>>

DisplayDue ==
  /\ robot.display = "later"
  /\ robot' = [robot EXCEPT !.display = Due(@)]
  /\ UNCHANGED <<orders, monitor, cyc, startReq, env, archive>>

\* The candle moves on while the cycle awaits; entry_window stays as read.
WindowCloses ==
  /\ "clock" \in Events
  /\ cyc.win /\ ~cyc.late
  /\ cyc' = [cyc EXCEPT !.late = TRUE]
  /\ UNCHANGED <<robot, orders, monitor, startReq, env, archive>>

MidnightPasses ==
  /\ "midnight" \in Events
  /\ robot' = Midnight(robot)
  /\ archive' = {[t EXCEPT !.today = FALSE] : t \in archive}
  /\ UNCHANGED <<orders, monitor, cyc, startReq, env>>

-----------------------------------------------------------------------------

Cycles ==
  \/ BeginCycle("worker") \/ BeginCycle("tick")
  \/ AccountResumes \/ AnalysisResumes \/ SubmitResumes \/ RecordResumes

Monitors ==
  \E id \in OrderIds :
    MonitorFetches(id) \/ MonitorFinishes(id) \/ MonitorGivesUp(id)

Broker == \E id \in OrderIds : BrokerDecides(id) \/ BrokerExpires(id)

Requests ==
  \/ StopRequest \/ StartRequest \/ StartResumes \/ PollState
  \/ ResetCycleRequest \/ ResetScoreRequest \/ ConfigRequest
  \/ DisconnectRequest \/ AccountConfirmed \/ AccountNotReal

Environment ==
  \/ SessionFails \/ SessionRecovers \/ WorkerHeartbeat
  \/ CycleDue \/ DisplayDue \/ WindowCloses \/ MidnightPasses

Next == Cycles \/ Monitors \/ Broker \/ Requests \/ Environment

Spec == Init /\ [][Next]_vars

\* Every await of a cycle ends (the gateway's HTTP calls have timeouts), the
\* worker keeps ticking, clocks advance, a monitor polls until its deadline.
\* cycle_lock is an asyncio.Lock, first come first served: a result waiting
\* for it is not overtaken for ever by the next cycles.
Fairness ==
  /\ WF_vars(AccountResumes) /\ WF_vars(AnalysisResumes)
  /\ WF_vars(SubmitResumes) /\ WF_vars(RecordResumes)
  /\ WF_vars(BeginCycle("worker"))
  /\ WF_vars(CycleDue) /\ WF_vars(DisplayDue)
  /\ \A id \in OrderIds :
       /\ WF_vars(MonitorFetches(id)) /\ WF_vars(MonitorGivesUp(id))
       /\ SF_vars(MonitorFinishes(id))

FairSpec == Spec /\ Fairness

-----------------------------------------------------------------------------
(* Properties                                                              *)

\* Every variable keeps its type through every handler, and the history in
\* memory stays within its limit.
TypeOK ==
  /\ robot \in Robot /\ Len(robot.history) <= HistoryLimit
  /\ orders \in [OrderIds -> Order]
  /\ monitor \in [OrderIds -> {"off", "poll", "got", "done"}]
  /\ cyc \in Cycle
  /\ startReq \in BOOLEAN
  /\ archive \subseteq Trade

\* An open operation is a recorded trade that still waits for its result and
\* that a monitor task is watching; whatever clears or re-opens the flag in
\* between, nothing leaves a user blocked behind a trade nobody follows.
OpenTradeIsMonitored ==
  robot.op => /\ robot.trade # NoTrade
              /\ robot.trade.result = "PENDING_RESULT"
              /\ robot.trade.id \notin robot.completed
              /\ monitor[robot.trade.id] \in {"poll", "got"}

\* The robot shows a waiting status only while its operation is open, so the
\* recovery of a stale WAITING_RESULT has nothing to recover in memory.
WaitingMeansOpen == robot.status \in WaitStatuses => robot.op

\* What the history, in memory or persisted, books for an order is the
\* outcome the broker gave to that same order, and each order is booked once.
BookedAsBroker ==
  /\ \A t \in Range(robot.history) \cup archive :
       /\ t.id \in robot.completed
       /\ t.result \in {"WIN", "LOSS"} => t.result = orders[t.id].st
  /\ \A i, j \in DOMAIN robot.history :
       robot.history[i].id = robot.history[j].id => i = j

\* A martingale entry is sent only to recover a normal order that was lost,
\* for its doubled stake, and every other order for the plain stake.
GaleRecoversALoss ==
  \A id \in OrderIds :
    orders[id].st # "unused" =>
      IF orders[id].gale
      THEN /\ orders[id].amount = EntryValue * Multiplier
           /\ orders[id].parent \in OrderIds
           /\ orders[orders[id].parent].st = "LOSS"
           /\ ~orders[orders[id].parent].gale
      ELSE orders[id].amount = EntryValue

\* A loss is recovered by at most one martingale entry, unless the answer of
\* a handler, a start or a session failure ends the cycle that is sending it
\* while the gale stays armed: the next cycle sends it once more.
OneGalePerLoss ==
  Events \cap {"reset", "restart", "session", "disconnect", "poll", "account"} = {} =>
  \A a, b \in OrderIds :
    /\ orders[a].gale /\ orders[b].gale
    /\ orders[a].parent = orders[b].parent
    => a = b

Sending(id) == orders[id].st = "unused" /\ orders'[id].st = "sent"

\* An order leaves only for a robot that is switched on, has no operation
\* open, and has reached neither its daily nor its session limits, whatever
\* was handled while the cycle awaited the session, the scan or an answer.
SendsOnlyWhenAllowed ==
  [][\A id \in OrderIds : Sending(id) =>
       robot.enabled /\ ~robot.op /\ StopReason(robot) = "none"]_vars

\* tests/test_auto_trader.py: test_pending_result_blocks_new_analysis.
PendingResultBlocksAnalysis ==
  [][cyc.pc # "analysis" /\ cyc'.pc = "analysis"
       => \A id \in OrderIds : monitor[id] \notin {"poll", "got"}]_vars

\* tests/test_auto_trader.py: test_window_closing_during_analysis_blocks_late_order.
NoLateOrder == [][\A id \in OrderIds : Sending(id) => ~cyc.late]_vars

\* Where nothing happens but settings, the clock and odd amounts in results (no
\* failing session, restart, stop, lost answer, deadline, reset or low balance),
\* orders are strictly serial: one is sent when every earlier one was refused or
\* its monitor has ended.
SerialOrders ==
  [][Events \subseteq {"config", "clock", "amounts"} =>
     \A id \in OrderIds : Sending(id) =>
       \A other \in OrderIds :
         orders[other].st \in {"unused", "refused"} \/ monitor[other] = "done"]_vars

\* No order leaves once the trades booked today, the persisted ones included,
\* have reached a daily limit, even when the in-memory history was truncated
\* or the process was told to start again.
DailyLimitsHold ==
  [][\A id \in OrderIds : Sending(id) =>
       /\ ~LossLimitHit(GrossLoss(archive))
       /\ ~WinLimitHit(GrossProfit(archive))]_vars

\* An open operation is always released: by its result, or by the deadline of
\* its monitor, even when cycles keep taking the lock the result needs.
OperationReleased == robot.op ~> ~robot.op

\* Whatever status a cycle, a refused order, an expired signal or a result
\* leaves, a robot that stays on gets back to an analysis or holds a signal.
RobotKeepsLooking ==
  robot.enabled ~> (~robot.enabled \/ robot.pending # NoSignal \/ cyc.pc = "analysis")

\* The result of an accepted order is booked by the time its monitor ends,
\* whatever stops, lost answers and the monitor's deadline do.  Failing
\* sessions, restarts and resets may drop the trade before its result comes,
\* and so may the next start after an account check or a poll of the state
\* has released the operation.
EveryResultIsBooked ==
  /\ Events \cap {"session", "restart", "disconnect", "reset", "account"} = {}
  /\ ~{"poll", "balance"} \subseteq Events
  => \A id \in OrderIds : monitor[id] = "done" => id \in robot.completed

Scored(h, result) == {i \in DOMAIN h : h[i].final /\ h[i].result = result}

\* The score counts every final trade of the history and nothing else, a lost
\* trade that armed a gale and a timed out one included neither, whatever
\* reset or deadline came, until the history is full and forgets its oldest.
ScoreMatchesHistory ==
  Len(robot.history) < HistoryLimit =>
    /\ robot.wins = Cardinality(Scored(robot.history, "WIN"))
    /\ robot.losses = Cardinality(Scored(robot.history, "LOSS"))

-----------------------------------------------------------------------------
(* The promise about orders, and how the robot's state keeps it            *)

LedgerOutcome ==
  [id \in OrderIds |-> IF orders[id].st \in {"open", "WIN", "LOSS"} THEN orders[id].st ELSE "none"]
LedgerWatch ==
  [id \in OrderIds |-> IF monitor[id] \in {"poll", "got"} THEN "on" ELSE monitor[id]]
LedgerBook == {<<t.id, t.result>> : t \in Range(robot.history) \cup archive}

Ledger == INSTANCE OrderLedger WITH
  Orders <- OrderIds, outcome <- LedgerOutcome, watch <- LedgerWatch,
  settled <- robot.completed, book <- LedgerBook

\* Every step of the robot is a step of the ledger or none at all: one watch
\* per order, one result per watch, and nothing booked but that result, in
\* whatever order answers, deadlines, resets and restarts come.
ImplementsLedger == Ledger!Spec
=============================================================================
