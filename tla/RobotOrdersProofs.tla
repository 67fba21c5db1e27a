------------------------- MODULE RobotOrdersProofs -------------------------
(***************************************************************************)
(* The three promises about orders that hold only while some disturbances  *)
(* stay away: every result is booked, a loss is recovered once, orders are *)
(* serial.  Each has the environment of the behaviour as its premise, and  *)
(* an invariant of its own, added to the one of RobotCycleProofs:          *)
(*   Followed    a live monitor is the one of the open operation           *)
(*   Collected   an order out at the broker is the one the cycle waits for *)
(*   Recovering  the gale of the last loss is the order the cycle waits    *)
(*               for, as long as it stays armed.                           *)
(***************************************************************************)
EXTENDS RobotCycleProofs

\* What may change the variables a cycle shares with the rest of the gateway.
Frame ==
  /\ env' = env
  /\ startReq' => startReq \/ StartRequest
  /\ \/ monitor' = monitor
     \/ RecordResumes
     \/ \E id \in OrderIds :
          MonitorFetches(id) \/ MonitorFinishes(id) \/ MonitorGivesUp(id)
  /\ \/ archive' = archive
     \/ \E id \in OrderIds : MonitorFinishes(id)
     \/ ResetCycleRequest \/ ResetScoreRequest \/ MidnightPasses

\* One pass of the attempt loop leaves the monitors alone.
LEMMA TryCandidateFrame ==
  ASSUME NEW r, NEW gale, NEW n, TryCandidate(r, gale, n) PROVE monitor' = monitor
BY DEF TryCandidate, EndCycle, SendOrder

\* The entry gate leaves the monitors alone.
LEMMA EntryGateFrame ==
  ASSUME NEW r, NEW win, EntryGate(r, win) PROVE monitor' = monitor
<1>1. ASSUME NEW s, EndCycle(s) PROVE monitor' = monitor
  BY <1>1 DEF EndCycle
<1>2. CASE ~win
  BY <1>1, <1>2 DEF EntryGate
<1>3. CASE \E gale \in {TRUE, FALSE}, n \in {0} \cup (0 .. Fallbacks) : TryCandidate(r, gale, n)
  BY <1>3, TryCandidateFrame
<1>. QED
  BY <1>2, <1>3 DEF EntryGate

\* A cycle touches the monitors only when it records its order.
LEMMA CyclesFrame == ASSUME Cycles PROVE Frame
<1>1. ASSUME NEW r, EndCycle(r) PROVE monitor' = monitor
  BY <1>1 DEF EndCycle
<1>2. ASSUME NEW r, NEW pc, NEW by, NEW win, Await(r, pc, by, win) PROVE monitor' = monitor
  BY <1>2 DEF Await
<1>3. ASSUME NEW by, BeginCycle(by) PROVE Frame
  <2>1. /\ UNCHANGED <<startReq, env, archive>>
        /\ (\E s : EndCycle(s)) \/ (\E s : Await(s, "account", by, FALSE))
    BY <1>3 DEF BeginCycle
  <2>. QED
    BY <1>1, <1>2, <2>1 DEF Frame
<1>4. CASE AccountResumes
  <2>1. UNCHANGED <<startReq, env, archive>>
    BY <1>4 DEF AccountResumes
  <2>2. \/ \E s : EndCycle(s)
        \/ \E s, win : Await(s, "analysis", cyc.by, win)
        \/ \E s, win : EntryGate(s, win)
    BY <1>4 DEF AccountResumes, AccountChecked
  <2>. QED
    BY <1>1, <1>2, <2>1, <2>2, EntryGateFrame DEF Frame
<1>5. CASE AnalysisResumes
  BY <1>1, <1>5, EntryGateFrame DEF AnalysisResumes, Frame
<1>6. CASE SubmitResumes
  BY <1>1, <1>6, TryCandidateFrame DEF SubmitResumes, Frame
<1>7. CASE RecordResumes
  <2>1. UNCHANGED <<startReq, env, archive>>
    BY <1>7 DEF RecordResumes
  <2>. QED
    BY <1>7, <2>1 DEF Frame
<1>. QED
  BY <1>3, <1>4, <1>5, <1>6, <1>7 DEF Cycles

\* Every step is framed.
LEMMA NextFrame == ASSUME [Next]_vars PROVE Frame
<1>1. CASE Monitors
  <2>1. PICK id \in OrderIds : MonitorFetches(id) \/ MonitorFinishes(id) \/ MonitorGivesUp(id)
    BY <1>1 DEF Monitors
  <2>2. startReq' = startReq /\ env' = env /\ (archive' = archive \/ MonitorFinishes(id))
    BY <2>1 DEF MonitorFetches, MonitorFinishes, MonitorGivesUp
  <2>3. \E i \in OrderIds : MonitorFetches(i) \/ MonitorFinishes(i) \/ MonitorGivesUp(i)
    BY <2>1
  <2>4. archive' = archive \/ \E i \in OrderIds : MonitorFinishes(i)
    BY <2>2
  <2>. QED
    BY <2>2, <2>3, <2>4 DEF Frame
<1>2. CASE Broker
  BY <1>2 DEF Broker, BrokerDecides, BrokerExpires, Frame
<1>3. CASE Requests
  <2>1. CASE StopRequest \/ PollState \/ ConfigRequest \/ DisconnectRequest
             \/ AccountConfirmed \/ AccountNotReal
    <3>1. archive' = archive /\ \E r : Handler(r)
      BY <2>1 DEF StopRequest, PollState, ConfigRequest, DisconnectRequest,
                  AccountConfirmed, AccountNotReal
    <3>. QED
      BY <3>1 DEF Handler, Frame
  <2>2. CASE StartRequest \/ StartResumes
    <3>1. CASE StartRequest
      <4>1. UNCHANGED <<monitor, archive, env>>
        BY <3>1 DEF StartRequest
      <4>. QED
        BY <3>1, <4>1 DEF Frame
    <3>2. CASE StartResumes
      BY <3>2 DEF StartResumes, Frame
    <3>. QED
      BY <2>2, <3>1, <3>2
  <2>3. CASE ResetCycleRequest \/ ResetScoreRequest
    <3>1. UNCHANGED <<monitor, startReq, env>>
      BY <2>3 DEF ResetCycleRequest, ResetScoreRequest, Handler
    <3>. QED
      BY <2>3, <3>1 DEF Frame
  <2>. QED
    BY <1>3, <2>1, <2>2, <2>3 DEF Requests
<1>4. CASE Environment
  <2>1. CASE MidnightPasses
    <3>1. UNCHANGED <<monitor, startReq, env>>
      BY <2>1 DEF MidnightPasses
    <3>. QED
      BY <2>1, <3>1 DEF Frame
  <2>2. CASE ~MidnightPasses
    BY <1>4, <2>2 DEF Environment, SessionFails, SessionRecovers, WorkerHeartbeat,
                      CycleDue, DisplayDue, WindowCloses, Frame
  <2>. QED
    BY <2>1, <2>2
<1>5. CASE UNCHANGED vars
  BY <1>5 DEF vars, Frame
<1>. QED
  BY CyclesFrame, <1>1, <1>2, <1>3, <1>4, <1>5 DEF Next

-----------------------------------------------------------------------------
(* Every result is booked                                                  *)

\* The premise of EveryResultIsBooked.
Undisturbed ==
  /\ Events \cap {"session", "restart", "disconnect", "reset", "account"} = {}
  /\ ~{"poll", "balance"} \subseteq Events

\* The trades of today have reached a daily limit.
LimitReached(trades) ==
  LossLimitHit(GrossLoss(trades)) \/ WinLimitHit(GrossProfit(trades))

\* A live monitor is the one of the open operation, an ended one has had its
\* order completed.  No limit is reached while an order is out, so nothing
\* pauses the robot over it, and no start waits behind it.
Followed ==
  /\ \A id \in OrderIds : monitor[id] \in {"poll", "got"} => robot.op /\ robot.trade.id = id
  /\ \A id \in OrderIds : monitor[id] = "done" => id \in robot.completed
  /\ robot.op \/ cyc.pc \in Waits => ~LimitReached(archive)
  /\ startReq => ~robot.enabled /\ ~robot.op /\ cyc.pc \notin Waits

\* What stops the day is in the archive.
LEMMA DailyStopArchived ==
  ASSUME IInv
  PROVE  /\ DailyStop(robot) = "none" <=> ~LimitReached(archive)
         /\ StopReason(robot) = "none" => ~LimitReached(archive)
         /\ robot.op /\ ~LimitReached(archive) => StopReason(robot) \notin StopStatuses
<1>1. DailyStop(robot) = "none" <=> ~LimitReached(archive)
  BY DayIsArchived DEF DailyStop, LimitReached
<1>. QED
  BY <1>1 DEF StopReason, StopStatuses

\* At midnight no trade is of today any more.
LEMMA NoLimitAtMidnight ==
  ASSUME NEW S, \A t \in S : ~t.today PROVE ~LimitReached(S)
<1>1. Settled(S) = {}
  BY DEF Settled
<1>2. {t \in Settled(S) : t.profit > 0} = {} /\ {t \in Settled(S) : t.profit < 0} = {}
  BY <1>1
<1>3. MapThenSumSet(LAMBDA t : t.profit, {}) = 0
  BY DEF MapThenSumSet, MapThenFoldSet
<1>4. MapThenSumSet(LAMBDA t : -t.profit, {}) = 0
  BY DEF MapThenSumSet, MapThenFoldSet
<1>5. GrossProfit(S) = 0 /\ GrossLoss(S) = 0
  BY <1>2, <1>3, <1>4 DEF GrossProfit, GrossLoss
<1>. QED
  BY <1>5, MoneyAssumption DEF LimitReached, WinLimitHit, LossLimitHit

\* A tick that finds an operation open leaves it open.
LEMMA PrepareCycleKeepsOpen ==
  ASSUME NEW r, Sound(r), r.op PROVE PrepareCycle(r).op
<1>1. r \in Robot /\ r.status \notin ShownStatuses /\ r.status \notin TemporaryWaits
  BY DEF Sound, Resting
<1>2. PrepareBase(r) = r /\ ~PrepareHeld(r) /\ ResultWaiting(r)
  BY <1>1 DEF PrepareBase, PrepareHeld, ResultWaiting
<1>. QED
  BY <1>1, <1>2 DEF PrepareCycle, Robot

\* A tick that finds an operation open ends at once and leaves it open.
LEMMA BeginCycleKeepsOpen ==
  ASSUME IInv, Followed, robot.op, NEW by, BeginCycle(by) PROVE robot'.op
<1>1. Sound(robot) /\ ~(DisplayExpired(robot) \/ WaitingStale(robot))
  BY DEF IInv, Sound, Resting, DisplayExpired, WaitingStale
<1>2. StopReason(robot) \notin StopStatuses
  BY DailyStopArchived DEF Followed
<1>. DEFINE ready == IF robot.pending = NoSignal THEN PrepareCycle(robot) ELSE robot
<1>3. Sound(ready) /\ ready.op
  BY <1>1, PrepareCycleKeepsOpen, PrepareCycleSafe DEF Safe
<1>4. \/ EndCycle(ready)
      \/ EndCycle([ready EXCEPT !.status = WaitingStatus(ready)])
  <2>1. ready.op
    BY <1>3
  <2>. QED
    BY Zenon, <1>1, <1>2, <2>1 DEF BeginCycle, ready
<1>. HIDE DEF ready
<1>5. LET s == [ready EXCEPT !.status = WaitingStatus(ready)] IN Sound(s) /\ s.op
  <2>1. WaitingStatus(ready) \in Statuses /\ WaitingStatus(ready) \notin Resting
    BY StatusFacts DEF WaitingStatus
  <2>. QED
    BY <1>3, <2>1 DEF Sound, GaleSound, Robot
<1>. QED
  BY <1>3, <1>4, <1>5, NormaliseSafe DEF EndCycle

\* stop() keeps the operation of a trade that waits for its result.
LEMMA StopKeepsOpen ==
  ASSUME NEW r, Sound(r), r.op, r.trade # NoTrade, r.trade.result = "PENDING_RESULT"
  PROVE  Normalise(Stop(r)).op
<1>1. r.op /\ ~IsFinal(r.trade) /\ r \in Robot
  BY DEF IsFinal, Sound
<1>2. Stop(r).op
  BY <1>1 DEF Stop, Robot
<1>3. Sound(Stop(r))
  BY StopSafe DEF Safe
<1>. QED
  BY <1>2, <1>3, NormaliseSafe

\* No step but the end of its monitor closes an open operation.
LEMMA OperationKept ==
  ASSUME IInv, Undisturbed, Followed, [Next]_vars, monitor' = monitor, robot.op
  PROVE  robot'.op
<1>1. Sound(robot) /\ robot \in Robot /\ cyc.pc = "idle"
  BY DEF IInv, Sound, CycleOrder
<1>2. /\ robot.status \notin TemporaryWaits /\ robot.status \notin ShownStatuses
      /\ robot.trade # NoTrade /\ robot.trade.result = "PENDING_RESULT" /\ ~startReq
  BY <1>1 DEF Sound, Resting, IInv, OpenTradeIsMonitored, Followed
<1>3. CASE Cycles
  <2>1. ~AccountResumes /\ ~AnalysisResumes /\ ~SubmitResumes /\ ~RecordResumes
    BY <1>1 DEF AccountResumes, AnalysisResumes, SubmitResumes, RecordResumes
  <2>. QED
    BY <1>3, <2>1, BeginCycleKeepsOpen DEF Cycles
<1>4. CASE Monitors
  <2>1. PICK id \in OrderIds : MonitorFetches(id) \/ MonitorFinishes(id) \/ MonitorGivesUp(id)
    BY <1>4 DEF Monitors
  <2>2. monitor'[id] # monitor[id]
    BY <2>1 DEF IInv, TypeOK, MonitorFetches, MonitorFinishes, MonitorGivesUp
  <2>. QED
    BY <2>2
<1>5. CASE Broker
  BY <1>5 DEF Broker, BrokerDecides, BrokerExpires
<1>6. CASE Requests
  <2>1. CASE StopRequest
    BY <1>1, <1>2, <2>1, StopKeepsOpen DEF StopRequest, Handler
  <2>2. CASE StartRequest
    BY <2>2 DEF StartRequest
  <2>3. CASE PollState
    <3>1. PICK win \in BOOLEAN :
            LET seen == IF robot.connected
                        THEN SyncConnection(ClearBackoff(robot), TRUE, TRUE) ELSE robot
                r == UpdateEntryWindow(seen, win)
            IN robot' = Normalise(IF r.enabled /\ r.status = "STOPPED"
                                  THEN [r EXCEPT !.status = "ANALYZING"] ELSE r)
      BY <2>3 DEF PollState, Undisturbed, Handler
    <3>. DEFINE seen == IF robot.connected
                        THEN SyncConnection(ClearBackoff(robot), TRUE, TRUE) ELSE robot
                r == UpdateEntryWindow(seen, win)
                s == IF r.enabled /\ r.status = "STOPPED"
                     THEN [r EXCEPT !.status = "ANALYZING"] ELSE r
    <3>2. ClearBackoff(robot) = robot
      BY <1>2 DEF ClearBackoff, TemporaryWaits
    <3>3. Sound(seen) /\ seen \in Robot /\ seen.op
      BY <1>1, <3>2, SyncConnectionSafe, QuietMethods DEF Safe, Sound, Quiet
    <3>. HIDE DEF seen
    <3>4. Sound(r) /\ r.op
      BY <3>3, UpdateEntryWindowSafe, QuietMethods DEF Safe, Quiet
    <3>. HIDE DEF r
    <3>5. Sound(s) /\ s.op
      BY <3>4, StatusFacts DEF Sound, GaleSound, Robot, Resting, ShownStatuses, TemporaryWaits
    <3>. QED
      BY <3>1, <3>5, NormaliseSafe DEF s, r, seen
  <2>4. ~StartResumes /\ ~ConfigRequest
    BY <1>2 DEF StartResumes, ConfigRequest
  <2>5. ~ResetCycleRequest /\ ~ResetScoreRequest /\ ~DisconnectRequest
        /\ ~AccountConfirmed /\ ~AccountNotReal
    BY DEF Undisturbed, ResetCycleRequest, ResetScoreRequest, DisconnectRequest,
           AccountConfirmed, AccountNotReal
  <2>. QED
    BY <1>6, <2>1, <2>2, <2>3, <2>4, <2>5 DEF Requests
<1>7. CASE Environment
  <2>1. ~SessionFails /\ ~SessionRecovers /\ ~WorkerHeartbeat
    BY <1>2 DEF Undisturbed, SessionFails, SessionRecovers, WorkerHeartbeat, DisplayExpired,
                WaitingStale
  <2>2. CASE CycleDue \/ DisplayDue \/ WindowCloses \/ MidnightPasses
    BY <1>1, <2>2 DEF CycleDue, DisplayDue, WindowCloses, MidnightPasses, Midnight, Robot
  <2>. QED
    BY <1>7, <2>1, <2>2 DEF Environment
<1>8. CASE UNCHANGED vars
  BY <1>8 DEF vars
<1>. QED
  BY <1>3, <1>4, <1>5, <1>6, <1>7, <1>8 DEF Next


\* The end of the monitor of the open operation closes it and completes its
\* order: by the result, or by the deadline.
LEMMA MonitorEndSettles ==
  ASSUME IInv, Followed, NEW id \in OrderIds, MonitorFinishes(id) \/ MonitorGivesUp(id)
  PROVE  /\ ~robot'.op /\ robot'.completed = robot.completed \cup {id}
         /\ \A i \in OrderIds : i # id => monitor[i] \notin {"poll", "got"}
         /\ monitor' = [monitor EXCEPT ![id] = "done"]
         /\ id \notin robot.completed
         /\ robot'.galePending => robot'.galeParent.id = id
<1>1. monitor[id] \in {"poll", "got"} /\ monitor' = [monitor EXCEPT ![id] = "done"]
  BY DEF MonitorFinishes, MonitorGivesUp
<1>2. robot.op /\ robot.trade.id = id /\ Sound(robot)
  BY <1>1 DEF Followed, IInv
<1>3. CanSettle(robot, id)
  BY <1>2 DEF IInv, OpenTradeIsMonitored, CanSettle
<1>4. \A i \in OrderIds : i # id => monitor[i] \notin {"poll", "got"}
  BY <1>2 DEF Followed
<1>5. PICK done : /\ robot' = Normalise(done) /\ Sound(done) /\ ~done.op
                  /\ done.completed = robot.completed \cup {id}
                  /\ done.galePending => done.galeParent.id = id
  <2>1. CASE MonitorFinishes(id)
    <3>. DEFINE result == orders[id].st
    <3>1. PICK reported \in Reported : robot' = Normalise(FinishTrade(robot, id, result, reported))
      BY <2>1 DEF MonitorFinishes, NormalizeTradeResult
    <3>2. result \in {"WIN", "LOSS"} /\ reported \in Int
      BY <2>1, ReportedAssumption DEF MonitorFinishes, IInv, MonitorOrder
    <3>3. robot.trade # NoTrade /\ ~robot.trade.gale => robot.trade.amount = EntryValue
      BY <1>2 DEF IInv, TradesOfOrders, GaleRecoversALoss, Placed
    <3>. DEFINE done == FinishTrade(robot, id, result, reported)
    <3>4. /\ Sound(done) /\ (done.op => ~CanSettle(robot, id))
          /\ done = robot \/ Settles(robot, done, id, result)
          /\ done # robot /\ done.galePending => SameTrade(done.galeParent, robot.trade)
      BY <1>2, <3>2, <3>3, FinishTradeSound
    <3>. HIDE DEF done
    <3>5. ~done.op /\ done # robot
      BY <1>2, <1>3, <3>4
    <3>6. done.completed = robot.completed \cup {id}
      BY <3>4, <3>5 DEF Settles
    <3>7. done.galePending => done.galeParent.id = id
      BY <1>2, <3>4, <3>5 DEF SameTrade
    <3>. QED
      BY <3>1, <3>4, <3>5, <3>6, <3>7 DEF done
  <2>2. CASE MonitorGivesUp(id)
    <3>. DEFINE done == TimeoutTrade(robot, id)
    <3>1. robot' = Normalise(done)
      BY <2>2 DEF MonitorGivesUp
    <3>2. /\ Sound(done) /\ (done.op => ~CanSettle(robot, id))
          /\ done = robot \/ (Settles(robot, done, id, "TIMEOUT") /\ ~done.galePending)
      BY <1>2, TimeoutTradeSound
    <3>. HIDE DEF done
    <3>3. ~done.op /\ done # robot /\ ~done.galePending
      BY <1>2, <1>3, <3>2
    <3>4. done.completed = robot.completed \cup {id}
      BY <3>2, <3>3 DEF Settles
    <3>. QED
      BY <3>1, <3>2, <3>3, <3>4
  <2>. QED
    BY <2>1, <2>2
<1>6. Safe(done, robot') /\ robot'.op = done.op
  BY <1>5, NormaliseSafe
<1>7. robot'.galePending => robot'.galeParent = done.galeParent /\ done.galePending
  BY <1>6 DEF Safe, Sound, GaleSound, Keeps
<1>8. id \notin robot.completed
  BY <1>3 DEF CanSettle
<1>9. robot'.completed = robot.completed \cup {id} /\ ~robot'.op
  BY <1>5, <1>6 DEF Safe, Keeps
<1>. QED
  BY <1>1, <1>4, <1>5, <1>7, <1>8, <1>9

\* A recorded order opens its operation, as no monitor has ended for it.
LEMMA RecordOpens ==
  ASSUME IInv, RecordResumes
  PROVE  LET id == cyc.order
         IN /\ cyc.pc = "recording" /\ id \in OrderIds
            /\ robot'.op /\ robot'.trade.id = id
            /\ robot'.completed = robot.completed
            /\ ~robot.op /\ monitor' = [monitor EXCEPT ![id] = "poll"]
            /\ ~robot'.galePending
<1>. DEFINE id == cyc.order
            trade == [id |-> id, gale |-> orders[id].gale, amount |-> orders[id].amount,
                      parent |-> IF robot.galeParent = NoTrade THEN NoOrder
                                 ELSE robot.galeParent.id,
                      result |-> "PENDING_RESULT", profit |-> 0, final |-> FALSE,
                      today |-> TRUE]
            done == RecordTrade(robot, trade)
<1>1. /\ cyc.pc = "recording" /\ robot' = Normalise(done)
      /\ monitor' = [monitor EXCEPT ![id] = "poll"]
  BY DEF RecordResumes
<1>2. Sound(robot) /\ robot.galeParent \in Trade \cup {NoTrade}
  BY DEF IInv, Sound, Robot
<1>3. id \in OrderIds /\ orders[id] \in Order /\ ~robot.op /\ id \notin robot.completed
  BY <1>1 DEF IInv, TypeOK, CycleOrder, MonitorOrder
<1>4. trade \in Trade /\ trade.id = id /\ trade.gale = orders[id].gale
  <2>1. (IF robot.galeParent = NoTrade THEN NoOrder ELSE robot.galeParent.id)
          \in OrderIds \cup {NoOrder}
    BY <1>2 DEF Trade
  <2>. QED
    BY <1>3, <2>1, EmptyHistory DEF Trade, Results, Order
<1>. HIDE DEF trade
<1>5. robot.galePending => orders[id].gale
  BY <1>1 DEF IInv, CycleOrder
<1>6. /\ Sound(done) /\ done.op /\ done.completed = robot.completed
      /\ done.trade = trade /\ (done.galePending => robot.galePending /\ ~trade.gale)
  BY <1>2, <1>3, <1>4, RecordTradeSound
<1>. HIDE DEF done
<1>7. Safe(done, robot') /\ robot'.op = done.op
  BY <1>1, <1>6, NormaliseSafe
<1>8. robot'.trade = trade /\ robot'.completed = robot.completed
      /\ (robot'.galePending => done.galePending)
  BY <1>6, <1>7 DEF Safe, Keeps
<1>. QED
  BY <1>1, <1>3, <1>4, <1>5, <1>6, <1>7, <1>8


\* What follows an order is preserved by every step of an undisturbed robot.
LEMMA FollowedStep ==
  ASSUME IInv, Undisturbed, Followed, [Next]_vars PROVE Followed'
<1>1. IInv' /\ SendAllowed /\ Switched /\ CycleMoves /\ StepKeeps /\ Frame
  BY NextGood, NextFrame DEF GoodStep, Moves
<1>2. monitor \in [OrderIds -> {"off", "poll", "got", "done"}]
  BY DEF IInv, TypeOK
<1>3. CASE \E id \in OrderIds : MonitorFinishes(id) \/ MonitorGivesUp(id)
  <2>1. PICK id \in OrderIds : MonitorFinishes(id) \/ MonitorGivesUp(id)
    BY <1>3
  <2>2. /\ ~robot'.op /\ robot'.completed = robot.completed \cup {id}
        /\ \A i \in OrderIds : i # id => monitor[i] \notin {"poll", "got"}
        /\ monitor' = [monitor EXCEPT ![id] = "done"]
    BY <2>1, MonitorEndSettles
  <2>3. cyc' = cyc /\ startReq' = startReq
    BY <2>1 DEF MonitorFinishes, MonitorGivesUp
  <2>4. robot.op
    BY <2>1 DEF Followed, MonitorFinishes, MonitorGivesUp
  <2>5. cyc.pc = "idle" /\ ~startReq
    BY <2>4 DEF IInv, CycleOrder, Followed
  <2>. QED
    BY <1>2, <2>2, <2>3, <2>5 DEF Followed, Waits
<1>4. CASE RecordResumes
  <2>. DEFINE id == cyc.order
  <2>1. /\ cyc.pc = "recording" /\ id \in OrderIds
        /\ robot'.op /\ robot'.trade.id = id /\ robot'.completed = robot.completed
        /\ ~robot.op /\ monitor' = [monitor EXCEPT ![id] = "poll"]
    BY <1>4, RecordOpens
  <2>2. archive' = archive /\ startReq' = startReq
    BY <1>4 DEF RecordResumes
  <2>. HIDE DEF id
  <2>. QED
    BY <1>2, <2>1, <2>2 DEF Followed, Waits
<1>5. CASE \E id \in OrderIds : MonitorFetches(id)
  <2>1. PICK id \in OrderIds : MonitorFetches(id)
    BY <1>5
  <2>2. /\ monitor[id] = "poll" /\ monitor' = [monitor EXCEPT ![id] = "got"]
        /\ UNCHANGED <<robot, cyc, startReq, archive>>
    BY <2>1 DEF MonitorFetches
  <2>. QED
    BY <1>2, <2>2 DEF Followed
<1>6. CASE monitor' = monitor
  <2>1. Keeps(robot, robot') /\ (robot.op => robot'.op)
    BY <1>1, <1>6, OperationKept DEF StepKeeps
  <2>2. /\ \A i \in OrderIds : monitor'[i] \in {"poll", "got"} => robot'.op /\ robot'.trade.id = i
        /\ \A i \in OrderIds : monitor'[i] = "done" => i \in robot'.completed
    BY <1>6, <2>1 DEF Followed, Keeps
  <2>3. cyc'.pc \in Waits =>
          /\ cyc.pc \in Waits \/ (robot.enabled /\ ~robot.op /\ StopReason(robot) = "none")
          /\ cyc.pc \in Waits \/ Sending(cyc'.order)
    <3>1. ASSUME Sending(cyc'.order), cyc'.pc \in Waits PROVE cyc'.order \in OrderIds
      BY <1>1, <3>1 DEF IInv, CycleOrder, Waits
    <3>. QED
      BY <1>1, <3>1 DEF CycleMoves, SendAllowed
  <2>4. robot'.op \/ cyc'.pc \in Waits => ~LimitReached(archive)
    BY <2>1, <2>3, DailyStopArchived DEF Followed, Keeps
  <2>5. robot'.op \/ cyc'.pc \in Waits => ~LimitReached(archive')
    <3>1. CASE archive' = archive
      BY <2>4, <3>1
    <3>2. CASE MidnightPasses
      <4>1. \A t \in archive : ~[t EXCEPT !.today = FALSE].today
        BY DEF IInv, TypeOK, Trade
      <4>2. \A t \in archive' : ~t.today
        BY <3>2, <4>1 DEF MidnightPasses
      <4>. QED
        BY <4>2, NoLimitAtMidnight
    <3>3. \A id \in OrderIds : ~MonitorFinishes(id)
      BY <1>2, <1>6 DEF MonitorFinishes
    <3>4. ~ResetCycleRequest /\ ~ResetScoreRequest
      BY DEF ResetCycleRequest, ResetScoreRequest, Undisturbed
    <3>. QED
      BY <1>1, <3>1, <3>2, <3>3, <3>4 DEF Frame
  <2>6. startReq' => ~robot'.enabled /\ ~robot'.op /\ cyc'.pc \notin Waits
    <3>1. startReq' => ~robot.enabled /\ ~robot.op /\ cyc.pc \notin Waits
      <4>1. StartRequest => ~robot.enabled /\ ~robot.op /\ cyc.pc = "idle"
        BY DEF StartRequest, Undisturbed
      <4>. QED
        BY <1>1, <4>1 DEF Frame, Followed, Waits
    <3>. QED
      BY <1>1, <2>1, <2>3, <3>1 DEF Switched, Keeps
  <2>. QED
    BY <2>2, <2>5, <2>6 DEF Followed
<1>. QED
  BY <1>1, <1>3, <1>4, <1>5, <1>6 DEF Frame

\* The invariant of an undisturbed robot.
FInv == IInv /\ (Undisturbed => Followed)

LEMMA FollowedInvariance == Spec => []FInv
<1>1. Init => FInv
  <2>. SUFFICES ASSUME Init PROVE Followed
    BY InitIInv DEF FInv
  <2>. QED
    BY DEF Init, Followed, NewRobot, NoCycle, Waits
<1>2. FInv /\ [Next]_vars => FInv'
  <2>. SUFFICES ASSUME FInv, [Next]_vars PROVE FInv'
    OBVIOUS
  <2>1. IInv'
    BY NextGood DEF FInv, GoodStep
  <2>2. Undisturbed' => Undisturbed
    BY NextFrame DEF Frame, Undisturbed, Events
  <2>. QED
    BY <2>1, <2>2, FollowedStep DEF FInv
<1>. QED
  BY <1>1, <1>2, PTL DEF Spec

\* The result of an accepted order is booked by the time its monitor ends,
\* through stops, lost answers and deadlines (finish_monitored_trade,
\* timeout_monitored_trade): CanSettle never refuses it.
THEOREM ResultsAreBooked == Spec => []EveryResultIsBooked
<1>1. FInv => EveryResultIsBooked
  BY DEF FInv, Undisturbed, Followed, EveryResultIsBooked
<1>. QED
  BY <1>1, FollowedInvariance, PTL


-----------------------------------------------------------------------------
(* A loss is recovered once                                                *)

\* The premise of OneGalePerLoss: nothing ends the cycle that sends a gale
\* while the gale stays armed.
Uncut ==
  Events \cap {"reset", "restart", "session", "disconnect", "poll", "account"} = {}

\* While a gale is armed, the order sent for it, if any, is the one the cycle
\* waits for; and no loss has two.
Recovering ==
  /\ \A id \in OrderIds :
       robot.galePending /\ orders[id].gale /\ orders[id].parent = robot.galeParent.id
       => cyc.pc \in Waits /\ cyc.order = id
  /\ \A a, b \in OrderIds :
       orders[a].gale /\ orders[b].gale /\ orders[a].parent = orders[b].parent => a = b

\* The cycle that waits for an order goes on, hears the answer, records the
\* order, or is cancelled by a stop.
LEMMA WaitEnds ==
  ASSUME IInv, Followed, Uncut, [Next]_vars, cyc.pc \in Waits
  PROVE  \/ cyc'.pc = cyc.pc /\ cyc'.order = cyc.order
         \/ SubmitResumes \/ RecordResumes \/ StopRequest
<1>1. cyc.pc # "idle" /\ cyc.pc # "account" /\ cyc.pc # "analysis" /\ ~robot.op /\ ~startReq
  BY DEF IInv, CycleOrder, Followed, Waits
<1>2. CASE Cycles
  <2>1. ~AccountResumes /\ ~AnalysisResumes /\ \A by \in {"worker", "tick"} : ~BeginCycle(by)
    BY <1>1 DEF AccountResumes, AnalysisResumes, BeginCycle
  <2>. QED
    BY <1>2, <2>1 DEF Cycles
<1>3. CASE Monitors \/ Broker
  <2>1. cyc' = cyc
    BY <1>3 DEF Monitors, Broker, MonitorFetches, MonitorFinishes, MonitorGivesUp,
                BrokerDecides, BrokerExpires
  <2>. QED
    BY <2>1
<1>4. CASE Requests
  <2>1. ~StartResumes
    BY <1>1 DEF StartResumes
  <2>2. ~PollState /\ ~ResetCycleRequest /\ ~ResetScoreRequest /\ ~DisconnectRequest
        /\ ~AccountConfirmed /\ ~AccountNotReal
    BY DEF Uncut, PollState, ResetCycleRequest, ResetScoreRequest, DisconnectRequest,
           AccountConfirmed, AccountNotReal
  <2>3. StartRequest \/ ConfigRequest => cyc' = cyc
    BY DEF StartRequest, ConfigRequest
  <2>. QED
    BY <1>4, <2>1, <2>2, <2>3 DEF Requests
<1>5. CASE Environment
  <2>1. \/ cyc' = cyc
        \/ cyc' = [cyc EXCEPT !.late = TRUE]
    BY <1>5 DEF Environment, SessionFails, SessionRecovers, WorkerHeartbeat,
                CycleDue, DisplayDue, WindowCloses, MidnightPasses
  <2>. QED
    BY <2>1 DEF IInv, TypeOK, Cycle
<1>6. CASE UNCHANGED vars
  BY <1>6 DEF vars
<1>. QED
  BY <1>2, <1>3, <1>4, <1>5, <1>6 DEF Next

\* The answer to an order leaves the cycle waiting for it, or disarms the gale
\* it was sent for; without lost answers it only ends the wait for a refusal.
LEMMA AnswerDisarms ==
  ASSUME IInv, SubmitResumes
  PROVE  /\ \/ cyc'.pc \in Waits /\ cyc'.order = cyc.order
            \/ ~robot'.galePending
         /\ \/ cyc'.pc \in Waits /\ cyc'.order = cyc.order
            \/ orders[cyc.order].st = "refused" \/ "gateway" \in Events
<1>1. cyc.pc = "submit" /\ Sound(robot)
  BY DEF SubmitResumes, IInv
<1>2. CASE cyc' = [cyc EXCEPT !.pc = "recording"]
  BY <1>2 DEF Waits, IInv, TypeOK, Cycle
<1>3. CASE /\ orders[cyc.order].st = "refused" /\ cyc.left > 0
           /\ TryCandidate(robot, robot.galePending, cyc.left - 1)
  <2>1. ~robot.galePending
    BY <1>1, <1>3 DEF IInv, CycleOrder
  <2>2. monitor' = monitor
    BY <1>3, TryCandidateFrame
  <2>3. Keeps(robot, robot')
    BY <2>2, NextGood DEF GoodStep, Moves, StepKeeps, Next, Cycles
  <2>. QED
    BY <1>3, <2>1, <2>3 DEF Keeps
<1>4. CASE /\ orders[cyc.order].st = "refused" \/ "gateway" \in Events
           /\ EndCycle(RejectOrder(robot))
  <2>1. Sound(RejectOrder(robot)) /\ ~RejectOrder(robot).galePending
    <3>1. Sound(RejectOrder(robot))
      BY <1>1, RejectOrderSafe DEF Safe
    <3>2. ~ClearGale(robot).galePending /\ ClearGale(robot) \in Robot
      BY <1>1, ClearGaleFacts DEF Sound
    <3>. QED
      BY <3>1, <3>2 DEF RejectOrder, Robot
  <2>2. ~robot'.galePending
    BY <1>4, <2>1, NormaliseSafe DEF EndCycle, Safe, Keeps
  <2>. QED
    BY <1>4, <2>2
<1>. QED
  BY <1>2, <1>3, <1>4 DEF SubmitResumes

\* stop() disarms the gale, whether or not it keeps an operation open.
LEMMA StopDisarms == ASSUME IInv, StopRequest PROVE ~robot'.galePending
<1>1. Sound(robot) /\ robot \in Robot /\ robot' = Normalise(Stop(robot))
  BY DEF IInv, Sound, StopRequest, Handler
<1>2. ~Stop(robot).galePending
  BY <1>1 DEF Stop, ClearGale, DisarmGale, Robot
<1>3. Sound(Stop(robot))
  BY <1>1, StopSafe DEF Safe
<1>. QED
  BY <1>1, <1>2, <1>3, NormaliseSafe DEF Safe, Keeps


\* A gale is armed by the end of the monitor of its loss, and by nothing else.
LEMMA ArmedByItsLoss ==
  ASSUME IInv, Followed, [Next]_vars, robot'.galePending
  PROVE  \/ robot.galePending /\ robot'.galeParent = robot.galeParent
         \/ /\ robot'.galeParent.id \notin robot.completed
            /\ UNCHANGED <<orders, cyc>>
<1>1. IInv' /\ StepKeeps /\ Frame
  BY NextGood, NextFrame DEF GoodStep, Moves
<1>2. robot'.galeParent # NoTrade
  BY <1>1 DEF IInv, Sound, GaleSound
<1>3. CASE monitor' = monitor
  BY <1>1, <1>2, <1>3 DEF StepKeeps, Keeps
<1>4. CASE RecordResumes
  BY <1>4, RecordOpens
<1>5. CASE \E id \in OrderIds : MonitorFetches(id)
  BY <1>5 DEF MonitorFetches
<1>6. CASE \E id \in OrderIds : MonitorFinishes(id) \/ MonitorGivesUp(id)
  <2>1. PICK id \in OrderIds : MonitorFinishes(id) \/ MonitorGivesUp(id)
    BY <1>6
  <2>2. orders' = orders /\ cyc' = cyc
    BY <2>1 DEF MonitorFinishes, MonitorGivesUp
  <2>. QED
    BY <2>1, <2>2, MonitorEndSettles
<1>. QED
  BY <1>1, <1>3, <1>4, <1>5, <1>6 DEF Frame

\* Nothing sends a second gale for a loss.
LEMMA RecoveringStep ==
  ASSUME IInv, Followed, Uncut, Recovering, [Next]_vars PROVE Recovering'
<1>1. IInv' /\ OrderMoves
  BY NextGood DEF GoodStep, Moves
<1>2. orders \in [OrderIds -> Order]
  BY DEF IInv, TypeOK
<1>3. ASSUME NEW id \in OrderIds, orders'[id].gale, ~Sending(id)
      PROVE  orders[id].gale /\ orders'[id].parent = orders[id].parent
  <2>1. orders'[id] = orders[id] \/ orders'[id] = [orders[id] EXCEPT !.st = orders'[id].st]
    BY <1>1, <1>3 DEF OrderMoves
  <2>. QED
    BY <1>2, <1>3, <2>1 DEF Order
<1>4. ASSUME NEW id \in OrderIds, orders'[id].gale, Sending(id)
      PROVE  /\ robot.galePending /\ orders'[id].parent = robot.galeParent.id
             /\ cyc'.pc \in Waits /\ cyc'.order = id
             /\ cyc.pc \notin Waits
  <2>1. orders'[id] # orders[id] /\ orders[id].st = "unused"
    BY <1>4 DEF Sending
  <2>2. /\ cyc'.pc = "submit" /\ cyc'.order = id /\ cyc.pc \notin {"idle", "recording"}
        /\ cyc.pc = "submit" => ~robot.galePending
        /\ robot.galePending /\ orders'[id].parent = robot.galeParent.id
    BY <1>1, <1>4, <2>1 DEF OrderMoves
  <2>. QED
    BY <2>2 DEF Waits
<1>5. ASSUME NEW id \in OrderIds, robot'.galePending, orders'[id].gale,
             orders'[id].parent = robot'.galeParent.id
      PROVE  cyc'.pc \in Waits /\ cyc'.order = id
  <2>1. CASE Sending(id)
    BY <1>4, <1>5, <2>1
  <2>2. CASE ~Sending(id)
    <3>1. orders[id].gale /\ orders'[id].parent = orders[id].parent
      BY <1>3, <1>5, <2>2
    <3>2. orders[id].parent \in robot.completed
      BY <3>1 DEF IInv, GaleOrders
    <3>3. robot.galePending /\ robot'.galeParent = robot.galeParent
      BY <1>5, <3>1, <3>2, ArmedByItsLoss
    <3>4. cyc.pc \in Waits /\ cyc.order = id
      BY <1>5, <3>1, <3>3 DEF Recovering
    <3>5. ~RecordResumes /\ ~StopRequest
      BY <1>5, RecordOpens, StopDisarms
    <3>6. cyc'.pc \in Waits /\ cyc'.order = cyc.order
      BY <1>5, <3>4, <3>5, WaitEnds, AnswerDisarms
    <3>. QED
      BY <3>4, <3>6
  <2>. QED
    BY <2>1, <2>2
<1>6. ASSUME NEW a \in OrderIds, NEW b \in OrderIds, orders'[a].gale, orders'[b].gale,
             orders'[a].parent = orders'[b].parent, Sending(b)
      PROVE  a = b
  <2>1. /\ robot.galePending /\ orders'[b].parent = robot.galeParent.id
        /\ cyc'.order = b /\ cyc.pc \notin Waits
    BY <1>4, <1>6
  <2>2. CASE Sending(a)
    BY <1>4, <1>6, <2>1, <2>2
  <2>3. CASE ~Sending(a)
    <3>1. orders[a].gale /\ orders[a].parent = robot.galeParent.id
      BY <1>3, <1>6, <2>1, <2>3
    <3>. QED
      BY <2>1, <3>1 DEF Recovering
  <2>. QED
    BY <2>2, <2>3
<1>7. ASSUME NEW a \in OrderIds, NEW b \in OrderIds, orders'[a].gale, orders'[b].gale,
             orders'[a].parent = orders'[b].parent
      PROVE  a = b
  <2>1. CASE Sending(a) \/ Sending(b)
    BY <1>6, <1>7, <2>1
  <2>2. CASE ~Sending(a) /\ ~Sending(b)
    BY <1>3, <1>7, <2>2 DEF Recovering
  <2>. QED
    BY <2>1, <2>2
<1>. QED
  BY <1>5, <1>7 DEF Recovering

-----------------------------------------------------------------------------
(* Orders are serial                                                       *)

\* The premise of SerialOrders.
Calm == Events \subseteq {"config", "clock", "amounts"}

\* An order the broker has, or may have, and that no monitor watches yet, is
\* the one the cycle waits for.
Collected ==
  \A id \in OrderIds :
    orders[id].st \in {"sent", "open", "WIN", "LOSS"} /\ monitor[id] = "off"
    => cyc.pc \in Waits /\ cyc.order = id

\* No order is left behind by the cycle that sent it.
LEMMA CollectedStep ==
  ASSUME IInv, Followed, Calm, Collected, [Next]_vars PROVE Collected'
<1>1. IInv' /\ OrderMoves /\ Frame /\ Uncut
  BY NextGood, NextFrame DEF GoodStep, Moves, Calm, Uncut
<1>2. orders \in [OrderIds -> Order] /\ monitor \in [OrderIds -> {"off", "poll", "got", "done"}]
  BY DEF IInv, TypeOK
<1>. SUFFICES ASSUME NEW id \in OrderIds, orders'[id].st \in {"sent", "open", "WIN", "LOSS"},
                     monitor'[id] = "off"
              PROVE  cyc'.pc \in Waits /\ cyc'.order = id
  BY DEF Collected
<1>3. CASE Sending(id)
  <2>1. orders'[id] # orders[id] /\ orders[id].st = "unused"
    BY <1>3 DEF Sending
  <2>. QED
    BY <1>1, <2>1 DEF OrderMoves, Waits
<1>4. CASE ~Sending(id)
  <2>1. orders[id].st \in {"sent", "open", "WIN", "LOSS"}
    BY <1>1, <1>2, <1>4 DEF OrderMoves, Order, OrderStates
  <2>2. monitor[id] = "off" /\ (RecordResumes => cyc.order # id)
    BY <1>1, <1>2 DEF Frame, RecordResumes, MonitorFetches, MonitorFinishes, MonitorGivesUp
  <2>3. cyc.pc \in Waits /\ cyc.order = id
    BY <2>1, <2>2 DEF Collected
  <2>4. ~StopRequest /\ ~RecordResumes
    BY <2>2, <2>3 DEF Calm, StopRequest
  <2>5. SubmitResumes => cyc'.pc \in Waits /\ cyc'.order = cyc.order
    BY <2>1, <2>3, AnswerDisarms DEF Calm
  <2>6. cyc'.pc \in Waits /\ cyc'.order = cyc.order
    BY <1>1, <2>3, <2>4, <2>5, WaitEnds
  <2>. QED
    BY <2>3, <2>6
<1>. QED
  BY <1>3, <1>4

\* The invariant of all three promises.
OInv == FInv /\ (Uncut => Recovering) /\ (Calm => Collected)

LEMMA OrdersInvariance == Spec => []OInv
<1>1. Init => OInv
  <2>1. Init => IInv /\ Followed
    BY InitIInv DEF Init, Followed, NewRobot, NoCycle, Waits
  <2>2. Init => Recovering /\ Collected
    BY DEF Init, Recovering, Collected, UnusedOrder
  <2>. QED
    BY <2>1, <2>2 DEF OInv, FInv
<1>2. OInv /\ [Next]_vars => OInv'
  <2>. SUFFICES ASSUME OInv, [Next]_vars PROVE OInv'
    OBVIOUS
  <2>1. Frame /\ IInv'
    BY NextFrame, NextGood DEF OInv, FInv, GoodStep
  <2>2. (Undisturbed' => Undisturbed) /\ (Uncut' => Uncut) /\ (Calm' => Calm)
    BY <2>1 DEF Frame, Undisturbed, Uncut, Calm, Events
  <2>3. (Uncut => Undisturbed) /\ (Calm => Undisturbed)
    BY DEF Undisturbed, Uncut, Calm
  <2>4. FInv'
    BY <2>1, <2>2, FollowedStep DEF OInv, FInv
  <2>5. Uncut' => Recovering'
    BY <2>2, <2>3, RecoveringStep DEF OInv, FInv
  <2>6. Calm' => Collected'
    BY <2>2, <2>3, CollectedStep DEF OInv, FInv
  <2>. QED
    BY <2>4, <2>5, <2>6 DEF OInv
<1>. QED
  BY <1>1, <1>2, PTL DEF Spec

\* A loss is recovered by at most one martingale entry, unless its cycle is cut
\* while the gale is armed (trigger_gale, reject_order, record_trade).
THEOREM OneGaleRecovers == Spec => []OneGalePerLoss
<1>1. OInv => OneGalePerLoss
  BY DEF OInv, Uncut, Recovering, OneGalePerLoss
<1>. QED
  BY <1>1, OrdersInvariance, PTL

\* While no session fails and nobody restarts a running robot, an order is sent
\* only when every earlier one was refused or settled (execute_robot_cycle under
\* cycle_lock, finish_monitored_trade).
THEOREM OrdersAreSerial == Spec => SerialOrders
<1>1. OInv /\ [Next]_vars =>
        [Events \subseteq {"config", "clock", "amounts"} =>
           \A id \in OrderIds : Sending(id) =>
             \A other \in OrderIds :
               orders[other].st \in {"unused", "refused"} \/ monitor[other] = "done"]_vars
  <2>. SUFFICES ASSUME OInv, [Next]_vars, Calm, NEW id \in OrderIds, Sending(id),
                       NEW other \in OrderIds, orders[other].st \notin {"unused", "refused"},
                       monitor[other] # "done"
                PROVE  FALSE
    BY DEF Calm
  <2>1. IInv /\ Followed /\ Collected
    BY DEF OInv, FInv, Calm, Undisturbed
  <2>2. SendAllowed /\ OrderMoves
    BY <2>1, NextGood DEF GoodStep, Moves
  <2>3. ~robot.op
    BY <2>2 DEF SendAllowed
  <2>4. monitor[other] = "off" /\ orders[other].st \in {"sent", "open", "WIN", "LOSS"}
    BY <2>1, <2>3 DEF IInv, TypeOK, Order, OrderStates, Followed
  <2>5. cyc.pc \in Waits /\ cyc.order = other
    BY <2>1, <2>4 DEF Collected
  <2>6. orders'[id] # orders[id] /\ orders[id].st = "unused"
    BY DEF Sending
  <2>7. cyc.pc # "recording" /\ (cyc.pc = "submit" => orders[cyc.order].st = "refused")
    BY <2>2, <2>6 DEF OrderMoves
  <2>. QED
    BY <2>4, <2>5, <2>7 DEF Waits
<1>. QED
  BY <1>1, OrdersInvariance, PTL DEF Spec, SerialOrders
=============================================================================
