-------------------------- MODULE AutoTraderProofs --------------------------
(***************************************************************************)
(* What every method of AutoTrader preserves of the record it is applied   *)
(* to.  A record is Sound when it has its type, shows a waiting status     *)
(* only over an open operation, and has a martingale entry armed only for  *)
(* a lost trade and the doubled stake.  Safe(r, s) says that a method may  *)
(* lead from r to s: s is sound, no operation is opened, and the trade,    *)
(* its gale parent and the history with its score are kept or dropped.     *)
(* The three methods for which that is too strong (a trade is recorded,    *)
(* finished or timed out) have lemmas of their own.                        *)
(***************************************************************************)
EXTENDS AutoTrader, TLAPS

\* The gale that is armed has its parent and its doubled stake; a signal
\* marked as a gale is followed by no result of the trade it recovers, whose
\* result is in.
GaleSound(r) ==
  /\ r.galePending => r.galeAmount = EntryValue * Multiplier /\ r.galeParent # NoTrade
  /\ r.galeParent # NoTrade => r.galeParent.id \in r.completed
  /\ r.pending # NoSignal /\ r.pending.gale =>
       r.galePending /\ (r.trade = NoTrade \/ r.trade.id \in r.completed)

\* The statuses a closed operation, or a session that failed, rests in.
Resting == ShownStatuses \cup TemporaryWaits

\* What holds of the record between any two segments of the code.
Sound(r) ==
  /\ r \in Robot
  /\ Len(r.history) <= HistoryLimit
  /\ r.status \in WaitStatuses => r.op
  /\ r.op => r.status \notin Resting
  /\ GaleSound(r)

\* The operation, the trade, its gale and the completed ids are kept or let go.
Keeps(r, s) ==
  /\ s.op => r.op /\ s.trade = r.trade
  /\ s.trade \in {r.trade, NoTrade}
  /\ s.galeParent \in {r.galeParent, NoTrade}
  /\ s.completed = r.completed
  /\ s.galePending => r.galePending

Safe(r, s) ==
  /\ Sound(s) /\ Keeps(r, s) /\ (s.enabled => r.enabled)
  /\ \/ s.history = r.history /\ s.wins = r.wins /\ s.losses = r.losses
     \/ s.history = <<>> /\ s.wins = 0 /\ s.losses = 0

\* Every status a method assigns is a status, and only the two of
\* WaitStatuses wait for a result.
LEMMA StatusFacts ==
  /\ StopStatuses \subseteq Statuses /\ StopStatuses \cap WaitStatuses = {}
  /\ {"WAITING_RESULT", "PENDING_GALE_RESULT"} \subseteq Statuses
  /\ "STOPPED" \in Statuses /\ "STOPPED" \notin WaitStatuses
  /\ "WAITING_NEXT_CYCLE" \in Statuses /\ "WAITING_NEXT_CYCLE" \notin WaitStatuses
  /\ "ANALYZING" \in Statuses /\ "ANALYZING" \notin WaitStatuses
  /\ "WAITING_ANALYSIS_WINDOW" \in Statuses /\ "WAITING_ANALYSIS_WINDOW" \notin WaitStatuses
  /\ "SIGNAL_REJECTED" \in Statuses /\ "SIGNAL_REJECTED" \notin WaitStatuses
  /\ "SIGNAL_EXPIRED" \in Statuses /\ "SIGNAL_EXPIRED" \notin WaitStatuses
  /\ "ORDER_REJECTED" \in Statuses /\ "ORDER_REJECTED" \notin WaitStatuses
  /\ "REAL_TRADING_LOCKED" \in Statuses /\ "REAL_TRADING_LOCKED" \notin WaitStatuses
  /\ "DISCONNECTED" \in Statuses /\ "DISCONNECTED" \notin WaitStatuses
  /\ "INSUFFICIENT_BALANCE" \in Statuses /\ "INSUFFICIENT_BALANCE" \notin WaitStatuses
  /\ "BULLEX_ACTIVE_MODE_NOT_REAL" \in Statuses
  /\ "BULLEX_ACTIVE_MODE_NOT_REAL" \notin WaitStatuses
  /\ "WAITING_ENTRY" \in Statuses /\ "WAITING_ENTRY" \notin WaitStatuses
  /\ "WAITING_GALE_ENTRY" \in Statuses /\ "WAITING_GALE_ENTRY" \notin WaitStatuses
  /\ "SIGNAL_FOUND" \in Statuses /\ "SIGNAL_FOUND" \notin WaitStatuses
  /\ "BUYING" \in Statuses /\ "BUYING" \notin WaitStatuses
  /\ "SENDING_GALE_ORDER" \in Statuses /\ "SENDING_GALE_ORDER" \notin WaitStatuses
  /\ "WIN" \in Statuses /\ "WIN" \notin WaitStatuses
  /\ "LOSS" \in Statuses /\ "LOSS" \notin WaitStatuses
  /\ "CONNECTION_BACKOFF" \in Statuses /\ "CONNECTION_BACKOFF" \notin WaitStatuses
  /\ "WAITING_RECOVERY" \in Statuses /\ "WAITING_RECOVERY" \notin WaitStatuses
  /\ StopStatuses \cap Resting = {} /\ WaitStatuses \cap Resting = {}
  /\ "WAITING_RESULT" \notin Resting /\ "PENDING_GALE_RESULT" \notin Resting
  /\ "STOPPED" \notin Resting /\ "WAITING_NEXT_CYCLE" \notin Resting
  /\ "ANALYZING" \notin Resting /\ "WAITING_ENTRY" \notin Resting
  /\ "WAITING_GALE_ENTRY" \notin Resting /\ "SIGNAL_FOUND" \notin Resting
  /\ "BUYING" \notin Resting /\ "SENDING_GALE_ORDER" \notin Resting
BY DEF Statuses, StopStatuses, ShownStatuses, WaitStatuses, TemporaryWaits,
       SendableStatuses, Resting

\* The three readings of a timestamp.
LEMMA ClockFacts == "none" \in Clock /\ "later" \in Clock /\ "due" \in Clock
BY DEF Clock

\* An emptied history is within the limit; a cleared score is a number.
LEMMA EmptyHistory ==
  <<>> \in Seq(Trade) /\ Len(<<>>) <= HistoryLimit /\ 0 \in Nat /\ 0 \in Int
BY LimitAssumption

\* Methods compose: a handler is safe when each method it calls is.
LEMMA SafeTransitive ==
  ASSUME NEW r, NEW s, NEW t, Safe(r, s), Safe(s, t)
  PROVE  Safe(r, t)
BY DEF Safe, Keeps

\* _clear_gale_state drops the gale and nothing else.
LEMMA ClearGaleFacts ==
  ASSUME NEW r \in Robot
  PROVE  /\ ClearGale(r) \in Robot
         /\ ~ClearGale(r).galePending
         /\ ClearGale(r).galeParent = NoTrade
         /\ ClearGale(r).status = r.status /\ ClearGale(r).op = r.op
         /\ ClearGale(r).trade = r.trade /\ ClearGale(r).pending = r.pending
         /\ ClearGale(r).history = r.history /\ ClearGale(r).completed = r.completed
         /\ ClearGale(r).wins = r.wins /\ ClearGale(r).losses = r.losses
         /\ ClearGale(r).enabled = r.enabled
BY DEF Robot, DisarmGale, ClearGale

\* _clear_gale_state(preserve_context=True) keeps the parent of the gale.
LEMMA DisarmGaleFacts ==
  ASSUME NEW r \in Robot
  PROVE  /\ DisarmGale(r) \in Robot
         /\ ~DisarmGale(r).galePending
         /\ DisarmGale(r).galeParent = r.galeParent
         /\ DisarmGale(r).status = r.status /\ DisarmGale(r).op = r.op
         /\ DisarmGale(r).trade = r.trade /\ DisarmGale(r).pending = r.pending
         /\ DisarmGale(r).history = r.history /\ DisarmGale(r).completed = r.completed
         /\ DisarmGale(r).wins = r.wins /\ DisarmGale(r).losses = r.losses
         /\ DisarmGale(r).enabled = r.enabled
BY DEF Robot, DisarmGale

\* The record with its switch on: only start turns it.
SwitchedOn(r) == [r EXCEPT !.enabled = TRUE]

\* start opens no operation and drops the armed gale.
LEMMA StartSafe ==
  ASSUME NEW r, Sound(r) PROVE  Safe(SwitchedOn(r), Start(r))
<1>. DEFINE c == ClearGale(r)
            on == SwitchedOn(r)
<1>1. r \in Robot BY DEF Sound
<1>2. c \in Robot /\ Len(c.history) <= HistoryLimit
  BY <1>1, ClearGaleFacts DEF Sound
<1>3. /\ on.enabled /\ on.op = r.op /\ on.trade = r.trade /\ on.galeParent = r.galeParent
      /\ on.completed = r.completed /\ on.history = r.history
      /\ on.galePending = r.galePending /\ on.wins = r.wins /\ on.losses = r.losses
  BY <1>1 DEF SwitchedOn, Robot
<1>4. /\ ~c.galePending /\ c.galeParent = NoTrade /\ c.trade = r.trade
      /\ c.history = r.history /\ c.completed = r.completed
      /\ c.wins = r.wins /\ c.losses = r.losses
  BY <1>1, ClearGaleFacts
<1>. HIDE DEF c, on
<1>5. /\ Sound(Start(r)) /\ ~Start(r).op /\ Start(r).trade = c.trade
      /\ Start(r).galeParent = NoTrade /\ ~Start(r).galePending
      /\ Start(r).completed = c.completed /\ Start(r).history = c.history
      /\ Start(r).wins = c.wins /\ Start(r).losses = c.losses
  BY <1>2, <1>4, StatusFacts, ClockFacts DEF c, Start, Sound, GaleSound, Robot
<1>. QED
  BY <1>3, <1>4, <1>5 DEF on, Safe, Keeps

\* pause_by_stop, for either limit, leaves no operation and no signal.
LEMMA PauseByStopSafe ==
  ASSUME NEW r, Sound(r), NEW st \in StopStatuses
  PROVE  Safe(r, PauseByStop(r, st))
<1>1. r \in Robot BY DEF Sound
<1>. QED
  BY <1>1, ClearGaleFacts, StatusFacts, ClockFacts
  DEF PauseByStop, Safe, Sound, GaleSound, Keeps, Robot

\* defer_cycle releases the operation whatever status it is given.
LEMMA DeferCycleSafe ==
  ASSUME NEW r, Sound(r), NEW st \in Statuses \ WaitStatuses PROVE  Safe(r, DeferCycle(r, st))
BY StatusFacts, ClockFacts
   DEF DeferCycle, Safe, Sound, GaleSound, Keeps, Robot

\* lock_real releases the operation; the status stops waiting with it.
LEMMA LockRealSafe ==
  ASSUME NEW r, Sound(r) PROVE  Safe(r, LockReal(r))
BY StatusFacts, ClockFacts
   DEF LockReal, Safe, Sound, GaleSound, Keeps, Robot

\* update_config stops the robot without touching its trade.
LEMMA UpdateConfigSafe ==
  ASSUME NEW r, Sound(r), NEW m \in BOOLEAN PROVE  Safe(r, UpdateConfig(r, m))
BY ZenonT(90), StatusFacts, ClockFacts
   DEF UpdateConfig, Safe, Sound, GaleSound, Keeps, Robot

\* disconnect_account drops the trade with its operation.
LEMMA DisconnectAccountSafe ==
  ASSUME NEW r, Sound(r) PROVE  Safe(r, DisconnectAccount(r))
BY StatusFacts, ClockFacts
   DEF DisconnectAccount, Safe, Sound, GaleSound, Keeps, Robot

\* sync_connection aligns the status only when no operation is open.
LEMMA SyncConnectionSafe ==
  ASSUME NEW r, Sound(r), NEW c \in BOOLEAN, NEW a \in BOOLEAN
  PROVE  Safe(r, SyncConnection(r, c, a))
BY ZenonT(90), StatusFacts, ClockFacts
   DEF SyncConnection, IdleStatus, Safe, Sound, GaleSound, Keeps, Robot

\* wait_analysis_window drops the signal and the operation.
LEMMA WaitAnalysisWindowSafe ==
  ASSUME NEW r, Sound(r) PROVE  Safe(r, WaitAnalysisWindow(r))
BY StatusFacts, ClockFacts
   DEF WaitAnalysisWindow, Safe, Sound, GaleSound, Keeps, Robot

\* start_sending_order only changes the status.
LEMMA StartSendingOrderSafe ==
  ASSUME NEW r, Sound(r) PROVE  Safe(r, StartSendingOrder(r))
BY StatusFacts, ClockFacts
   DEF StartSendingOrder, Safe, Sound, GaleSound, Keeps, Robot

\* set_pending_signal never marks its signal as a gale.
LEMMA SetPendingSignalSafe ==
  ASSUME NEW r, Sound(r) PROVE  Safe(r, SetPendingSignal(r))
BY ZenonT(90), StatusFacts, ClockFacts
   DEF SetPendingSignal, Signal, Safe, Sound, GaleSound, Keeps, Robot

\* reject_strategy drops the signal and the operation.
LEMMA RejectStrategySafe ==
  ASSUME NEW r, Sound(r) PROVE  Safe(r, RejectStrategy(r))
BY StatusFacts, ClockFacts
   DEF RejectStrategy, Reject, Safe, Sound, GaleSound, Keeps, Robot

\* reset_cycle forgets the trade, the gale and the history together.
LEMMA ResetCycleSafe ==
  ASSUME NEW r, Sound(r) PROVE  Safe(r, ResetCycle(r))
<1>1. r \in Robot
  BY DEF Sound
<1>. QED
  BY ZenonT(90), <1>1, EmptyHistory, ClearGaleFacts, StatusFacts, ClockFacts
  DEF ResetCycle, Safe, Sound, GaleSound, Keeps, Robot

\* expire_pending_signal drops the gale with its signal.
LEMMA ExpirePendingSignalSafe ==
  ASSUME NEW r, Sound(r) PROVE  Safe(r, ExpirePendingSignal(r))
<1>1. r \in Robot
  BY DEF Sound
<1>. QED
  BY <1>1, ClearGaleFacts, StatusFacts, ClockFacts
  DEF ExpirePendingSignal, Safe, Sound, GaleSound, Keeps, Robot

\* reject_order drops the gale with its signal.
LEMMA RejectOrderSafe ==
  ASSUME NEW r, Sound(r) PROVE  Safe(r, RejectOrder(r))
<1>1. r \in Robot
  BY DEF Sound
<1>. QED
  BY <1>1, ClearGaleFacts, StatusFacts, ClockFacts
  DEF RejectOrder, Safe, Sound, GaleSound, Keeps, Robot

\* reset_cycle_after_result ends the waiting status with the operation.
LEMMA ResetCycleAfterResultSafe ==
  ASSUME NEW r, Sound(r) PROVE  Safe(r, ResetCycleAfterResult(r))
<1>. DEFINE ended(k) ==
       [k EXCEPT !.op = FALSE, !.pending = NoSignal, !.attempts = 0,
                 !.cycle = {}, !.nextCycle = NextIfEnabled(r),
                 !.status = IdleStatus(r)]
<1>1. r \in Robot
  BY DEF Sound
<1>2. Safe(r, ended(r))
  BY ZenonT(90), StatusFacts, ClockFacts
  DEF IdleStatus, NextIfEnabled, Safe, Sound, GaleSound, Keeps, Robot
<1>3. Safe(r, ended(ClearGale(r)))
  BY ZenonT(90), <1>1, ClearGaleFacts, StatusFacts, ClockFacts
  DEF IdleStatus, NextIfEnabled, Safe, Sound, GaleSound, Keeps, Robot
<1>. QED
  BY <1>2, <1>3 DEF ResetCycleAfterResult

\* reset_score forgets the last trade only when its operation is closed.
LEMMA ResetScoreSafe ==
  ASSUME NEW r, Sound(r) PROVE  Safe(r, ResetScore(r))
<1>. DEFINE zero == [r EXCEPT !.wins = 0, !.losses = 0, !.profit = 0, !.history = <<>>]
<1>1. /\ Safe(r, zero) /\ zero.op = r.op
  BY EmptyHistory DEF Safe, Sound, GaleSound, Keeps, Robot
<1>. HIDE DEF zero
<1>2. ASSUME ~r.op PROVE Safe(zero, [zero EXCEPT !.trade = NoTrade, !.display = "none"])
  BY <1>1, <1>2, ClockFacts DEF Safe, Sound, GaleSound, Keeps, Robot
<1>. QED
  BY <1>1, <1>2, SafeTransitive DEF ResetScore, zero

\* stop keeps an operation open only over the trade that opened it.
LEMMA StopSafe ==
  ASSUME NEW r, Sound(r) PROVE  Safe(r, Stop(r))
<1>. DEFINE open == r.op /\ ~IsFinal(r.trade)
            off == [r EXCEPT !.enabled = FALSE, !.status = "STOPPED",
                       !.pending = NoSignal, !.nextCycle = "none",
                       !.op = open, !.attempts = 0]
<1>1. open \in BOOLEAN /\ (open => r.op)
  BY DEF IsFinal, Sound, Robot
<1>. HIDE DEF open
<1>2. /\ off \in Robot /\ Safe(r, off)
      /\ off.pending = NoSignal /\ off.status = "STOPPED"
  BY ZenonT(90), <1>1, StatusFacts, ClockFacts DEF Safe, Sound, GaleSound, Keeps, Robot
<1>. HIDE DEF off
<1>3. ASSUME NEW s, Sound(s), s.pending = NoSignal
      PROVE  LET e == [s EXCEPT !.galePending = FALSE]
             IN Safe(s, e) /\ e.pending = NoSignal
  BY <1>3 DEF Safe, Sound, GaleSound, Keeps, Robot
<1>4. ASSUME NEW s, Sound(s), s.pending = NoSignal
      PROVE  Safe(s, ClearGale(s)) /\ ClearGale(s).pending = NoSignal
  <2>1. s \in Robot
    BY <1>4 DEF Sound
  <2>. QED
    BY <1>4, <2>1, ClearGaleFacts DEF Safe, Sound, GaleSound, Keeps
<1>5. ASSUME NEW s, Sound(s)
      PROVE  LET e == [s EXCEPT !.display = "none"]
             IN Safe(s, e) /\ e.pending = s.pending
  BY <1>5, ClockFacts DEF Safe, Sound, GaleSound, Keeps, Robot
<1>6. Safe(r, [off EXCEPT !.galePending = FALSE])
  BY <1>2, <1>3, SafeTransitive DEF Safe
<1>7. Safe(r, [ClearGale(off) EXCEPT !.display = "none"])
  <2>1. Sound(off)
    BY <1>2 DEF Safe
  <2>2. Safe(r, ClearGale(off))
    BY <1>2, <1>4, <2>1, SafeTransitive
  <2>3. Sound(ClearGale(off))
    BY <2>2 DEF Safe
  <2>. QED
    BY <1>5, <2>2, <2>3, SafeTransitive
<1>. QED
  BY <1>2, <1>3, <1>4, <1>5, <1>6, <1>7 DEF Stop, off, open, Safe

\* insufficient_balance and require_real_mode stop, then release.
LEMMA StopAndReleaseSafe ==
  ASSUME NEW r, Sound(r) PROVE  Safe(r, InsufficientBalance(r)) /\ Safe(r, RequireRealMode(r))
<1>1. Safe(r, Stop(r))
  BY StopSafe
<1>2. ASSUME NEW s, Sound(s), NEW st \in Statuses \ WaitStatuses
      PROVE  Safe(s, [ClearGale(s) EXCEPT !.status = st, !.op = FALSE, !.pending = NoSignal])
  <2>1. s \in Robot
    BY <1>2 DEF Sound
  <2>. QED
    BY ZenonT(90), <1>2, <2>1, ClearGaleFacts DEF Safe, Sound, GaleSound, Keeps, Robot
<1>3. /\ Safe(Stop(r), InsufficientBalance(r))
      /\ Safe(Stop(r), RequireRealMode(r))
  BY <1>1, <1>2, StatusFacts DEF InsufficientBalance, RequireRealMode, StopAndRelease, Safe
<1>. QED
  BY <1>1, <1>3, SafeTransitive

\* set_order_attempt counts the attempt and sets the signal again.
LEMMA SetOrderAttemptSafe ==
  ASSUME NEW r, Sound(r) PROVE  Safe(r, SetOrderAttempt(r))
<1>. DEFINE s == [r EXCEPT !.attempts = @ + 1]
<1>1. Safe(r, s)
  BY DEF Safe, Sound, GaleSound, Keeps, Robot
<1>. HIDE DEF s
<1>2. Safe(s, SetPendingSignal(s))
  BY <1>1, SetPendingSignalSafe DEF Safe
<1>. QED
  BY <1>1, <1>2, SafeTransitive DEF SetOrderAttempt, s

\* Serialising the robot (to_dict) never opens nor closes an operation.
LEMMA NormaliseSafe ==
  ASSUME NEW r, Sound(r) PROVE  Safe(r, Normalise(r)) /\ Normalise(r).op = r.op
<1>. DEFINE idle == [r EXCEPT !.status = IdleStatus(r)]
<1>1. Safe(r, idle) /\ Safe(r, r) /\ idle.op = r.op
  BY StatusFacts DEF IdleStatus, Safe, Sound, GaleSound, Keeps, Robot
<1>2. ASSUME NEW s, Safe(r, s)
      PROVE  LET e == [s EXCEPT !.status = IdleStatus(r), !.nextCycle = NextIfEnabled(r),
                                !.pending = NoSignal]
             IN Safe(s, e) /\ e.op = s.op
  BY ZenonT(90), <1>2, StatusFacts, ClockFacts
  DEF IdleStatus, NextIfEnabled, Safe, Sound, GaleSound, Keeps, Robot
<1>. HIDE DEF idle
<1>. QED
  BY <1>1, <1>2, SafeTransitive DEF Normalise, idle

\* update_entry_window only ever changes the status.
LEMMA UpdateEntryWindowSafe ==
  ASSUME NEW r, Sound(r), NEW w \in BOOLEAN PROVE  Safe(r, UpdateEntryWindow(r, w))
<1>1. Safe(r, r) /\ Safe(r, [r EXCEPT !.status = IdleStatus(r)])
  BY StatusFacts DEF IdleStatus, Safe, Sound, GaleSound, Keeps, Robot
<1>2. ASSUME NEW s, Safe(r, s)
      PROVE  /\ Safe(s, [s EXCEPT !.status = IdleStatus(r)])
             /\ Safe(s, [s EXCEPT !.status = EntryStatus(r)])
  BY ZenonT(90), <1>2, StatusFacts
  DEF IdleStatus, EntryStatus, Safe, Sound, GaleSound, Keeps, Robot
<1>. DEFINE calm == IF r.status = "ANALYZING" /\ r.pending = NoSignal /\ ~r.op
                    THEN [r EXCEPT !.status = IdleStatus(r)] ELSE r
<1>3. Safe(r, calm)
  BY <1>1
<1>. HIDE DEF calm
<1>4. /\ Safe(r, [calm EXCEPT !.status = IdleStatus(r)])
      /\ Safe(r, [calm EXCEPT !.status = EntryStatus(r)])
  BY <1>2, <1>3, SafeTransitive
<1>. QED
  BY <1>3, <1>4 DEF UpdateEntryWindow, calm

\* The first blocks of prepare_cycle.
LEMMA PrepareBaseSafe ==
  ASSUME NEW r, Sound(r) PROVE  Safe(r, PrepareBase(r))
<1>. DEFINE awake == IF r.status \in TemporaryWaits
                     THEN [r EXCEPT !.status = "WAITING_NEXT_CYCLE"] ELSE r
<1>1. Safe(r, r) /\ Safe(r, [r EXCEPT !.status = "WAITING_NEXT_CYCLE"])
  BY StatusFacts DEF Safe, Sound, GaleSound, Keeps, Robot
<1>2. Safe(r, awake)
  BY <1>1
<1>. HIDE DEF awake
<1>3. Safe(awake, ResetCycleAfterResult(awake))
  BY <1>2, ResetCycleAfterResultSafe DEF Safe
<1>. QED
  BY <1>2, <1>3, SafeTransitive DEF PrepareBase, awake

\* prepare_cycle re-opens the operation of a status that waits, which is
\* one that is open already.
LEMMA PrepareCycleSafe ==
  ASSUME NEW r, Sound(r) PROVE  Safe(r, PrepareCycle(r))
<1>. DEFINE b == PrepareBase(r)
<1>1. Safe(r, b) /\ Sound(b)
  BY PrepareBaseSafe DEF Safe
<1>. HIDE DEF b
<1>2. CASE ~r.enabled
  <2>1. Safe(r, [r EXCEPT !.status = IF @ \in StopStatuses THEN @ ELSE "STOPPED"])
    BY StatusFacts DEF Safe, Sound, GaleSound, Keeps, Robot
  <2>. QED
    BY <1>2, <2>1 DEF PrepareCycle
<1>3. CASE r.enabled /\ PrepareHeld(r)
  <2>1. Safe(r, r)
    BY DEF Safe, Sound, Keeps
  <2>. QED
    BY <1>3, <2>1 DEF PrepareCycle
<1>4. CASE r.enabled /\ ~PrepareHeld(r) /\ ResultWaiting(b)
  <2>1. b.op
    BY <1>1, <1>4 DEF ResultWaiting, Sound
  <2>2. WaitingStatus(b) \in Statuses /\ WaitingStatus(b) \notin Resting
    BY StatusFacts DEF WaitingStatus
  <2>3. Safe(b, [b EXCEPT !.op = TRUE, !.status = WaitingStatus(b)])
    BY ZenonT(90), <1>1, <2>1, <2>2 DEF Safe, Sound, GaleSound, Keeps, Robot
  <2>4. PrepareCycle(r) = [b EXCEPT !.op = TRUE, !.status = WaitingStatus(b)]
    BY <1>4 DEF PrepareCycle, b
  <2>. QED
    BY <1>1, <2>3, <2>4, SafeTransitive
<1>5. CASE r.enabled /\ ~PrepareHeld(r) /\ ~ResultWaiting(b) /\ b.pending # NoSignal
  <2>1. Safe(b, [b EXCEPT !.status = EntryStatus(b)])
    BY <1>1, StatusFacts DEF EntryStatus, Safe, Sound, GaleSound, Keeps, Robot
  <2>2. PrepareCycle(r) = [b EXCEPT !.status = EntryStatus(b)]
    BY <1>5 DEF PrepareCycle, b
  <2>. QED
    BY <1>1, <2>1, <2>2, SafeTransitive
<1>6. CASE r.enabled /\ ~PrepareHeld(r) /\ ~ResultWaiting(b) /\ b.pending = NoSignal
  <2>. DEFINE later == [b EXCEPT !.status = "WAITING_NEXT_CYCLE"]
              new == [b EXCEPT !.status = "WAITING_NEXT_CYCLE",
                               !.cycle = {}, !.nextCycle = "later"]
              run == [b EXCEPT !.status = "WAITING_NEXT_CYCLE", !.attempts = 0]
  <2>1. Safe(b, later) /\ Safe(b, new) /\ Safe(b, run)
    BY ZenonT(90), <1>1, StatusFacts, ClockFacts, EmptyHistory
    DEF Safe, Sound, GaleSound, Keeps, Robot
  <2>2. b.nextCycle \in {"later", "none", "due"}
    BY <1>1 DEF Sound, Robot, Clock
  <2>3. PrepareCycle(r) \in {later, new, run}
    BY <1>6, <2>2 DEF PrepareCycle, b
  <2>. QED
    BY <1>1, <2>1, <2>3, SafeTransitive
<1>. QED
  BY <1>1, <1>2, <1>3, <1>4, <1>5, <1>6 DEF Sound, Robot

\* Reaching a limit after a result pauses the robot.
LEMMA PauseAtLimitSafe ==
  ASSUME NEW r, Sound(r) PROVE  Safe(r, PauseAtLimit(r))
<1>1. /\ Safe(r, r)
      /\ Safe(r, PauseByStop(r, "STOP_WIN_HIT"))
      /\ Safe(r, PauseByStop(r, "STOP_LOSS_HIT"))
  BY PauseByStopSafe DEF Safe, Sound, Keeps, StopStatuses
<1>. QED
  BY <1>1 DEF PauseAtLimit

\* A pause keeps the trade that caused it, booked and counted.
LEMMA PauseAtLimitFacts ==
  ASSUME NEW r \in Robot
  PROVE  LET s == PauseAtLimit(r)
         IN /\ s.trade = r.trade /\ s.history = r.history
            /\ s.wins = r.wins /\ s.losses = r.losses
BY ClearGaleFacts DEF PauseAtLimit, PauseByStop, Robot

\* The history keeps its type and its limit when a trade is appended.
LEMMA RememberType ==
  ASSUME NEW h \in Seq(Trade), NEW t \in Trade
  PROVE  Remember(h, t) \in Seq(Trade) /\ Len(Remember(h, t)) <= HistoryLimit
<1>. DEFINE longer == Append(h, t)
<1>1. longer \in Seq(Trade) /\ Len(longer) \in Nat
  OBVIOUS
<1>. HIDE DEF longer
<1>2. ASSUME Len(longer) > HistoryLimit
      PROVE  LET s == SubSeq(longer, Len(longer) - HistoryLimit + 1, Len(longer))
             IN s \in Seq(Trade) /\ Len(s) = HistoryLimit
  BY <1>1, <1>2, LimitAssumption
<1>. QED
  BY <1>1, <1>2, LimitAssumption DEF Remember, longer

\* What Remember keeps: the end of the longer history, in its order.
LEMMA RememberElements ==
  ASSUME NEW h \in Seq(Trade), NEW t \in Trade
  PROVE  \E d \in Nat : \A i \in DOMAIN Remember(h, t) :
           /\ i \in Nat /\ i + d \in 1 .. Len(h) + 1
           /\ Remember(h, t)[i] = IF i + d = Len(h) + 1 THEN t ELSE h[i + d]
<1>. DEFINE longer == Append(h, t)
            n == Len(h) + 1
<1>1. /\ longer \in Seq(Trade) /\ Len(longer) = n /\ Len(h) \in Nat
      /\ \A j \in 1 .. n : longer[j] = IF j = n THEN t ELSE h[j]
  OBVIOUS
<1>. HIDE DEF longer
<1>2. CASE n > HistoryLimit
  <2>. DEFINE d == n - HistoryLimit
              s == SubSeq(longer, d + 1, n)
  <2>1. d \in Nat /\ d + 1 \in 1 .. n /\ n \in 1 .. n
    BY <1>1, <1>2, LimitAssumption
  <2>2. /\ DOMAIN s = 1 .. HistoryLimit
        /\ \A i \in 1 .. HistoryLimit : s[i] = longer[i + d]
    BY <1>1, <1>2, <2>1, LimitAssumption
  <2>3. Remember(h, t) = s
    BY <1>1, <1>2 DEF Remember, longer
  <2>4. \A i \in 1 .. HistoryLimit : i \in Nat /\ i + d \in 1 .. n
    BY <1>1, <1>2, <2>1, LimitAssumption
  <2>. HIDE DEF d, s
  <2>5. \A i \in DOMAIN s : /\ i \in Nat /\ i + d \in 1 .. n
                           /\ s[i] = IF i + d = n THEN t ELSE h[i + d]
    BY <1>1, <2>2, <2>4
  <2>. QED
    BY <2>1, <2>3, <2>5
<1>3. CASE ~(n > HistoryLimit)
  <2>1. Remember(h, t) = longer
    BY <1>1, <1>3 DEF Remember, longer
  <2>2. DOMAIN longer = 1 .. n
    BY <1>1
  <2>3. \A i \in DOMAIN longer :
          /\ i \in Nat /\ i + 0 \in 1 .. n
          /\ longer[i] = IF i + 0 = n THEN t ELSE h[i + 0]
    BY <1>1, <2>2
  <2>. QED
    BY <2>1, <2>3
<1>. QED
  BY <1>2, <1>3

\* No trade but the new one enters the history, and none is there twice that
\* was not there twice before.
LEMMA RememberBooks ==
  ASSUME NEW h \in Seq(Trade), NEW t \in Trade
  PROVE  /\ Range(Remember(h, t)) \subseteq Range(h) \cup {t}
         /\ /\ \A i, j \in DOMAIN h : h[i].id = h[j].id => i = j
            /\ \A u \in Range(h) : u.id # t.id
            => \A i, j \in DOMAIN Remember(h, t) :
                 Remember(h, t)[i].id = Remember(h, t)[j].id => i = j
<1>. DEFINE k == Remember(h, t)
            n == Len(h) + 1
<1>1. PICK d \in Nat : \A i \in DOMAIN k :
        /\ i \in Nat /\ i + d \in 1 .. n
        /\ k[i] = IF i + d = n THEN t ELSE h[i + d]
  BY RememberElements
<1>2. \A j \in 1 .. n : j # n => j \in DOMAIN h
  OBVIOUS
<1>. HIDE DEF k
<1>3. Range(k) \subseteq Range(h) \cup {t}
  BY <1>1, <1>2 DEF Range
<1>4. ASSUME \A i, j \in DOMAIN h : h[i].id = h[j].id => i = j,
             \A u \in Range(h) : u.id # t.id,
             NEW i \in DOMAIN k, NEW j \in DOMAIN k, k[i].id = k[j].id
      PROVE  i = j
  <2>1. i + d # n => h[i + d] \in Range(h) /\ i + d \in DOMAIN h
    BY <1>1, <1>2 DEF Range
  <2>2. j + d # n => h[j + d] \in Range(h) /\ j + d \in DOMAIN h
    BY <1>1, <1>2 DEF Range
  <2>3. i + d = j + d
    BY <1>1, <1>4, <2>1, <2>2
  <2>. QED
    BY <1>1, <2>3
<1>. QED
  BY <1>3, <1>4 DEF k

\* A new day changes the dates of the history only.
LEMMA MidnightSound ==
  ASSUME NEW r, Sound(r)
  PROVE  LET s == Midnight(r)
         IN /\ Sound(s) /\ Keeps(r, s)
            /\ DOMAIN s.history = DOMAIN r.history
            /\ s.wins = r.wins /\ s.losses = r.losses /\ s.enabled = r.enabled
            /\ Len(s.history) = Len(r.history)
            /\ \A i \in DOMAIN r.history : /\ s.history[i].id = r.history[i].id
                                          /\ s.history[i].result = r.history[i].result
                                          /\ s.history[i].final = r.history[i].final
<1>. DEFINE h == r.history
            past == [i \in DOMAIN h |-> [h[i] EXCEPT !.today = FALSE]]
<1>1. h \in Seq(Trade) /\ Len(h) <= HistoryLimit
  BY DEF Sound, Robot
<1>2. past \in Seq(Trade) /\ Len(past) = Len(h)
  <2>. HIDE DEF h
  <2>1. DOMAIN h = 1 .. Len(h) /\ Len(h) \in Nat
    BY <1>1
  <2>2. \A i \in 1 .. Len(h) : h[i] \in Trade
    BY <1>1
  <2>3. \A t \in Trade : [t EXCEPT !.today = FALSE] \in Trade
    BY DEF Trade
  <2>4. [i \in 1 .. Len(h) |-> [h[i] EXCEPT !.today = FALSE]] \in Seq(Trade)
    BY <2>1, <2>2, <2>3
  <2>5. Len([i \in 1 .. Len(h) |-> [h[i] EXCEPT !.today = FALSE]]) = Len(h)
    BY <2>1
  <2>. QED
    BY <2>1, <2>4, <2>5
<1>3. /\ DOMAIN past = DOMAIN h
      /\ \A i \in DOMAIN h : /\ past[i].id = h[i].id /\ past[i].result = h[i].result
                             /\ past[i].final = h[i].final
  <2>. HIDE DEF h
  <2>1. \A i \in DOMAIN h : h[i] \in Trade
    BY <1>1
  <2>2. \A t \in Trade : LET u == [t EXCEPT !.today = FALSE]
                         IN u.id = t.id /\ u.result = t.result /\ u.final = t.final
    BY DEF Trade
  <2>. QED
    BY <2>1, <2>2
<1>4. Midnight(r) = [r EXCEPT !.history = past]
  BY DEF Midnight
<1>. HIDE DEF past
<1>5. /\ Sound([r EXCEPT !.history = past]) /\ Keeps(r, [r EXCEPT !.history = past])
      /\ LET s == [r EXCEPT !.history = past]
         IN /\ s.history = past /\ s.wins = r.wins /\ s.losses = r.losses
            /\ s.enabled = r.enabled
  BY <1>1, <1>2 DEF Sound, GaleSound, Keeps, Robot
<1>. QED
  BY <1>2, <1>3, <1>4, <1>5 DEF h

\* The same order, whatever its result.
SameTrade(t, u) == t.id = u.id /\ t.gale = u.gale /\ t.amount = u.amount

\* What a booked trade adds to the wins, or to the losses.
Point(t, result) == IF t.final /\ t.result = result THEN 1 ELSE 0

\* From r to s the last trade, of order id, gets its result: it is closed,
\* completed, remembered and counted, and only a loss leaves a gale armed.
Settles(r, s, id, result) ==
  /\ CanSettle(r, id) /\ ~s.op /\ (s.enabled => r.enabled)
  /\ s.completed = r.completed \cup {id}
  /\ s.galePending => result = "LOSS"
  /\ \E t \in Trade :
       /\ t.result = result /\ SameTrade(t, r.trade)
       /\ s.trade = t /\ s.history = Remember(r.history, t)
       /\ s.wins = r.wins + Point(t, "WIN") /\ s.losses = r.losses + Point(t, "LOSS")

\* The projected trade of a result is the last trade with a result.
LEMMA ProjectedType ==
  ASSUME NEW r, Sound(r), r.trade # NoTrade,
         NEW result \in {"WIN", "LOSS"}, NEW reported \in Int
  PROVE  /\ Projected(r, result, reported) \in Trade
         /\ SameTrade(Projected(r, result, reported), r.trade)
         /\ Projected(r, result, reported).result = result
<1>1. r.trade \in Trade
  BY DEF Sound, Robot
<1>2. r.trade.amount \in Nat
  BY <1>1 DEF Trade
<1>3. Booked(result, reported, r.trade.amount) \in Int
  BY <1>2 DEF Booked
<1>4. result \in Results
  BY DEF Results
<1>. QED
  BY <1>1, <1>3, <1>4 DEF Projected, SameTrade, Trade

\* record_trade either ignores the trade or opens its operation.
LEMMA RecordTradeSound ==
  ASSUME NEW r, Sound(r), NEW t \in Trade
  PROVE  LET s == RecordTrade(r, t)
         IN /\ Sound(s)
            /\ s.completed = r.completed /\ s.galeParent = r.galeParent
            /\ s.history = r.history /\ s.wins = r.wins /\ s.losses = r.losses
            /\ s.enabled = r.enabled
            /\ t.id \notin r.completed /\ ~r.op => s.op
            /\ \/ s = r
               \/ /\ s.op /\ s.trade = t /\ t.id \notin s.completed
                  /\ s.galePending => r.galePending /\ ~t.gale
<1>. DEFINE held == [r EXCEPT !.trade = t, !.pending = NoSignal, !.display = "none",
                              !.op = TRUE,
                              !.status = IF t.gale THEN "PENDING_GALE_RESULT"
                                                   ELSE "WAITING_RESULT"]
            gale == [held EXCEPT !.galePending = FALSE, !.galeActive = TRUE,
                                 !.galeAmount = t.amount]
<1>1. /\ Sound(held) /\ held.op /\ held.trade = t /\ held.pending = NoSignal
      /\ held.completed = r.completed /\ held.galeParent = r.galeParent
      /\ held.history = r.history /\ held.galePending = r.galePending
      /\ held.wins = r.wins /\ held.losses = r.losses /\ held.enabled = r.enabled
  BY StatusFacts, ClockFacts DEF Sound, GaleSound, Robot
<1>2. t.amount \in Nat
  BY DEF Trade
<1>. HIDE DEF held
<1>3. /\ Sound(gale) /\ gale.op /\ gale.trade = t
      /\ gale.completed = r.completed /\ gale.galeParent = r.galeParent
      /\ gale.history = r.history /\ ~gale.galePending
      /\ gale.wins = r.wins /\ gale.losses = r.losses /\ gale.enabled = r.enabled
  BY ZenonT(90), <1>1, <1>2 DEF Sound, GaleSound, Robot
<1>4. RecordTrade(r, t) = IF t.id \in r.completed \/ r.op THEN r
                          ELSE IF t.gale THEN gale ELSE held
  BY DEF RecordTrade, held
<1>. HIDE DEF gale
<1>. QED
  BY <1>1, <1>3, <1>4

\* timeout_trade closes the operation unless the order is not its own.
LEMMA TimeoutTradeSound ==
  ASSUME NEW r, Sound(r), NEW id \in OrderIds
  PROVE  LET s == TimeoutTrade(r, id)
         IN /\ Sound(s)
            /\ s.op => s = r /\ ~CanSettle(r, id)
            /\ s.galeParent \in {r.galeParent, NoTrade}
            /\ s = r \/ (Settles(r, s, id, "TIMEOUT") /\ ~s.galePending)
<1>1. CASE ~CanSettle(r, id)
  BY <1>1 DEF TimeoutTrade
<1>2. CASE CanSettle(r, id)
  <2>. DEFINE t == [r.trade EXCEPT !.result = "TIMEOUT", !.profit = 0, !.today = TRUE]
              c == ClearGale(r)
              h == Remember(r.history, t)
              s == [c EXCEPT !.completed = @ \cup {id}, !.trade = t, !.op = FALSE,
                             !.status = IdleStatus(r), !.nextCycle = "later",
                             !.history = h]
  <2>1. r \in Robot /\ r.trade \in Trade /\ r.history \in Seq(Trade)
    BY <1>2 DEF CanSettle, Sound, Robot
  <2>2. t \in Trade /\ SameTrade(t, r.trade) /\ t.result = "TIMEOUT"
    BY <2>1, EmptyHistory DEF Trade, Results, SameTrade
  <2>3. h \in Seq(Trade) /\ Len(h) <= HistoryLimit
    BY <2>1, <2>2, RememberType
  <2>4. ~(r.pending # NoSignal /\ r.pending.gale)
    BY <1>2 DEF CanSettle, Sound, GaleSound
  <2>5. /\ c \in Robot /\ ~c.galePending /\ c.galeParent = NoTrade
        /\ c.pending = r.pending /\ c.completed = r.completed
        /\ c.wins = r.wins /\ c.losses = r.losses /\ c.enabled = r.enabled
    BY <2>1, ClearGaleFacts
  <2>6. TimeoutTrade(r, id) = s
    BY <1>2, <2>5, ClearGaleFacts, <2>1 DEF TimeoutTrade
  <2>7. IdleStatus(r) \in Statuses \ WaitStatuses
    BY StatusFacts DEF IdleStatus
  <2>. HIDE DEF t, c, h
  <2>8. /\ Sound(s) /\ ~s.op /\ s.galeParent = NoTrade /\ s.trade = t
        /\ ~s.galePending /\ s.history = h /\ s.completed = r.completed \cup {id}
        /\ s.wins = r.wins /\ s.losses = r.losses /\ s.enabled = r.enabled
    BY ZenonT(90), <2>2, <2>3, <2>4, <2>5, <2>7, ClockFacts DEF Sound, GaleSound, Robot
  <2>9. Point(t, "WIN") = 0 /\ Point(t, "LOSS") = 0 /\ r.wins \in Nat /\ r.losses \in Nat
    BY <2>1, <2>2 DEF Point, Robot
  <2>10. Settles(r, s, id, "TIMEOUT")
    BY <1>2, <2>2, <2>8, <2>9 DEF Settles, h
  <2>. QED
    BY <2>6, <2>8, <2>10
<1>. QED
  BY <1>1, <1>2

\* The booking of a result closes the operation and keeps the gale's
\* parent for the trades that follow.
LEMMA BookResultSound ==
  ASSUME NEW r, Sound(r), NEW id \in OrderIds, CanSettle(r, id),
         NEW result \in {"WIN", "LOSS"}, NEW reported \in Int
  PROVE  LET s == BookResult(r, result, reported)
         IN /\ Sound(s) /\ ~s.op /\ ~s.galePending
            /\ s.galeParent = r.galeParent
            /\ Settles(r, s, id, result)
<1>. DEFINE p == Projected(r, result, reported)
            origin == IF r.galeParent = NoTrade THEN NoOrder ELSE r.galeParent.id
            t == [p EXCEPT !.final = TRUE, !.parent = IF @ = NoOrder THEN origin ELSE @]
            before == IF t.gale /\ r.galeParent # NoTrade
                      THEN r.galeParent.profit ELSE 0
            d == DisarmGale(r)
            h == Remember(d.history, t)
            wins == IF result = "WIN" THEN d.wins + 1 ELSE d.wins
            losses == IF result = "LOSS" THEN d.losses + 1 ELSE d.losses
            sum == d.profit + before + t.profit
            shown == IF r.enabled THEN result ELSE "STOPPED"
            s == [d EXCEPT
                    !.wins = wins, !.losses = losses, !.profit = sum,
                    !.completed = @ \cup {t.id}, !.trade = t, !.op = FALSE,
                    !.status = shown,
                    !.display = NextIfEnabled(r), !.nextCycle = "none",
                    !.history = h]
<1>1. /\ r \in Robot /\ r.trade # NoTrade /\ r.trade \in Trade
      /\ r.history \in Seq(Trade) /\ r.galeParent \in Trade \cup {NoTrade}
  BY DEF CanSettle, Sound, Robot
<1>2. p \in Trade /\ SameTrade(p, r.trade) /\ p.result = result
  BY <1>1, ProjectedType
<1>3. origin \in OrderIds \cup {NoOrder} /\ before \in Int
  BY <1>1, EmptyHistory DEF Trade
<1>. HIDE DEF p, origin, before
<1>4. t \in Trade /\ SameTrade(t, p) /\ t.result = p.result /\ t.final
  BY <1>2, <1>3 DEF Trade, SameTrade
<1>5. t.profit \in Int /\ t.id \in OrderIds
  BY <1>4 DEF Trade
<1>6. ~(r.pending # NoSignal /\ r.pending.gale)
  BY DEF CanSettle, Sound, GaleSound
<1>7. /\ d \in Robot /\ ~d.galePending /\ d.galeParent = r.galeParent
      /\ d.pending = r.pending /\ d.history = r.history
      /\ d.completed = r.completed /\ d.wins = r.wins /\ d.losses = r.losses
      /\ d.enabled = r.enabled
  BY <1>1, DisarmGaleFacts
<1>8. h \in Seq(Trade) /\ Len(h) <= HistoryLimit
  BY <1>1, <1>4, <1>7, RememberType
<1>9. /\ NextIfEnabled(r) \in Clock /\ "none" \in Clock
      /\ shown \in Statuses \ WaitStatuses
  BY StatusFacts, ClockFacts DEF NextIfEnabled
<1>10. BookResult(r, result, reported) = s
  BY DEF BookResult, p, origin, before
<1>. HIDE DEF t, d, h
<1>11. s \in Robot
  <2>1. wins \in Nat /\ losses \in Nat /\ sum \in Int
    BY <1>3, <1>5, <1>7 DEF Robot
  <2>. HIDE DEF wins, losses, sum, shown
  <2>. QED
    BY <1>4, <1>5, <1>8, <1>7, <1>9, <2>1 DEF Robot
<1>12. /\ ~s.op /\ s.galeParent = r.galeParent /\ s.trade = t /\ s.history = h
       /\ s.status \notin WaitStatuses /\ ~s.galePending /\ s.pending = r.pending
       /\ s.completed = r.completed \cup {t.id} /\ s.wins = wins /\ s.losses = losses
       /\ s.enabled = r.enabled
  BY <1>7, <1>9 DEF Robot
<1>13. Sound(s)
  BY <1>8, <1>6, <1>11, <1>12 DEF Sound, GaleSound
<1>14. SameTrade(t, r.trade) /\ t.result = result /\ t.id = id
  BY <1>2, <1>4 DEF SameTrade, CanSettle
<1>15. Settles(r, s, id, result)
  <2>1. h = Remember(r.history, t)
    BY <1>7 DEF h
  <2>2. wins = r.wins + Point(t, "WIN") /\ losses = r.losses + Point(t, "LOSS")
    BY <1>1, <1>4, <1>7, <1>14 DEF Point, Robot
  <2>. QED
    BY <1>4, <1>12, <1>14, <2>1, <2>2 DEF Settles
<1>. QED
  BY <1>10, <1>12, <1>13, <1>15

\* trigger_gale arms the doubled stake for the trade that was lost.
LEMMA TriggerGaleSound ==
  ASSUME NEW r, Sound(r), NEW id \in OrderIds, CanSettle(r, id),
         NEW reported \in Int, r.trade.amount = EntryValue
  PROVE  LET s == TriggerGale(r, reported)
         IN /\ Sound(s) /\ ~s.op
            /\ SameTrade(s.trade, r.trade)
            /\ s.galeParent = s.trade /\ s.galePending
            /\ Settles(r, s, id, "LOSS")
<1>. DEFINE p == [Projected(r, "LOSS", reported) EXCEPT !.final = FALSE]
            sig == [gale |-> TRUE, targeted |-> FALSE]
            stake == p.amount * Multiplier
            h == Remember(r.history, p)
            s == [r EXCEPT !.completed = @ \cup {p.id}, !.trade = p,
                           !.op = FALSE, !.pending = sig,
                           !.status = "WAITING_GALE_ENTRY", !.display = "none",
                           !.nextCycle = "none", !.galePending = TRUE,
                           !.galeActive = TRUE, !.galeAmount = stake,
                           !.galeParent = p, !.history = h]
<1>1. /\ r \in Robot /\ r.trade # NoTrade /\ r.trade.id = id
      /\ r.history \in Seq(Trade)
  BY DEF CanSettle, Sound, Robot
<1>2. /\ Projected(r, "LOSS", reported) \in Trade
      /\ SameTrade(Projected(r, "LOSS", reported), r.trade)
      /\ Projected(r, "LOSS", reported).result = "LOSS"
  BY <1>1, ProjectedType
<1>3. p \in Trade /\ SameTrade(p, r.trade) /\ p.result = "LOSS" /\ ~p.final
  BY <1>2 DEF Trade, SameTrade
<1>4. TriggerGale(r, reported) = s
  BY DEF TriggerGale
<1>5. stake = EntryValue * Multiplier /\ p.id = id
  BY <1>1, <1>3 DEF SameTrade
<1>6. stake \in Nat
  BY <1>5, MoneyAssumption
<1>7. h \in Seq(Trade) /\ Len(h) <= HistoryLimit
  BY <1>1, <1>3, RememberType
<1>8. sig \in Signal /\ sig.gale
  BY DEF Signal
<1>. HIDE DEF p, sig, h, stake
<1>9. s \in Robot
  BY ZenonT(90), <1>1, <1>3, <1>5, <1>6, <1>7, <1>8, StatusFacts, ClockFacts DEF Robot
<1>10. /\ s.status = "WAITING_GALE_ENTRY" /\ ~s.op /\ s.pending = sig /\ s.galePending
       /\ s.galeAmount = stake /\ s.trade = p /\ s.galeParent = p /\ s.history = h
       /\ s.completed = r.completed \cup {p.id} /\ s.wins = r.wins /\ s.losses = r.losses
       /\ s.enabled = r.enabled
  BY <1>1 DEF Robot
<1>11. p # NoTrade
  BY <1>3, NoneAssumption
<1>12. Sound(s)
  BY <1>5, <1>7, <1>9, <1>10, <1>11, StatusFacts DEF Sound, GaleSound
<1>13. Settles(r, s, id, "LOSS")
  <2>1. Point(p, "WIN") = 0 /\ Point(p, "LOSS") = 0 /\ r.wins \in Nat /\ r.losses \in Nat
    BY <1>1, <1>3 DEF Point, Robot
  <2>. QED
    BY <1>3, <1>5, <1>10, <2>1 DEF Settles, h
<1>. QED
  BY <1>3, <1>4, <1>10, <1>12, <1>13

\* finish_trade closes the operation unless the order is not its own, and
\* the only new gale parent is the normal trade just lost.
LEMMA FinishTradeSound ==
  ASSUME NEW r, Sound(r), NEW id \in OrderIds,
         NEW result \in {"WIN", "LOSS"}, NEW reported \in Int,
         r.trade # NoTrade /\ ~r.trade.gale => r.trade.amount = EntryValue
  PROVE  LET s == FinishTrade(r, id, result, reported)
         IN /\ Sound(s)
            /\ s.op => s = r /\ ~CanSettle(r, id)
            /\ s = r \/ Settles(r, s, id, result)
            /\ s = r /\ CanSettle(r, id) => WantsGale(r, result, reported)
            /\ s # r => ~WantsGale(r, result, reported) \/ s.galePending
            /\ s # r /\ s.galePending => SameTrade(s.galeParent, r.trade)
            /\ \/ s.galeParent \in {r.galeParent, NoTrade}
               \/ /\ result = "LOSS" /\ r.trade # NoTrade /\ r.trade.id = id
                  /\ ~r.trade.gale /\ SameTrade(s.galeParent, r.trade)
<1>1. CASE ~CanSettle(r, id)
  BY <1>1 DEF FinishTrade
<1>2. CASE CanSettle(r, id) /\ WantsGale(r, result, reported) /\ ~r.op
  BY <1>2 DEF FinishTrade
<1>3. CASE CanSettle(r, id) /\ WantsGale(r, result, reported) /\ r.op
  <2>1. /\ result = "LOSS" /\ r.trade # NoTrade /\ r.trade.id = id
        /\ ~r.trade.gale /\ r.trade.amount = EntryValue
    BY <1>3 DEF WantsGale, CanSettle
  <2>2. FinishTrade(r, id, result, reported) = TriggerGale(r, reported)
    BY <1>3 DEF FinishTrade
  <2>. QED
    BY <1>3, <2>1, <2>2, TriggerGaleSound
<1>4. CASE CanSettle(r, id) /\ ~WantsGale(r, result, reported)
  <2>. DEFINE b == BookResult(r, result, reported)
  <2>1. /\ Sound(b) /\ ~b.op /\ ~b.galePending /\ b.galeParent = r.galeParent
        /\ Settles(r, b, id, result)
    BY <1>4, BookResultSound
  <2>2. FinishTrade(r, id, result, reported) = PauseAtLimit(b)
    BY <1>4 DEF FinishTrade
  <2>. HIDE DEF b
  <2>3. Safe(b, PauseAtLimit(b))
    BY <2>1, PauseAtLimitSafe
  <2>. DEFINE s == PauseAtLimit(b)
  <2>4. ~s.op /\ ~s.galePending /\ s.galeParent \in {b.galeParent, NoTrade}
    BY <2>1, <2>3 DEF Safe, Keeps
  <2>5. Settles(r, s, id, result)
    BY <2>1, <2>3, <2>4, PauseAtLimitFacts DEF Settles, Safe, Keeps, Sound
  <2>6. s # r
    BY <2>5 DEF Settles, CanSettle
  <2>. QED
    BY <1>4, <2>1, <2>2, <2>3, <2>4, <2>5, <2>6 DEF Safe
<1>. QED
  BY <1>1, <1>2, <1>3, <1>4

=============================================================================
