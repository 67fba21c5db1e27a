----------------------------- MODULE AutoTrader -----------------------------
(***************************************************************************)
(* The trading robot of one user: class AutoTrader of                      *)
(* backend/auto_trader.py.  RobotState is a record r; every method that    *)
(* mutates it is an operator from the record before the call to the record *)
(* after it, so that the modules that EXTEND this one apply a whole        *)
(* handler as a composition of methods, in the order of the code.          *)
(*                                                                         *)
(* Abstractions.  A timestamp compared with the clock is "none", "later"   *)
(* or "due".  A pending signal is its is_gale flag and whether it carries  *)
(* a target_entry_timestamp.  A cycle_id is the set of the orders sent     *)
(* under it, so a new id is the empty set.  gale_original_order_id and     *)
(* gale_parent_trade are one field, galeParent.  Narration, candidates,    *)
(* metrics, scores of a signal and window seconds are left out.            *)
(***************************************************************************)
EXTENDS Integers, Sequences, FiniteSets, FiniteSetsExt, Functions

CONSTANTS
  OrderIds,      \* the identifiers the broker gives to orders
  NoTrade,       \* last_trade / gale_parent_trade = None
  NoSignal,      \* pending_signal = None
  NoOrder,       \* parent_order_id = None
  HistoryLimit,  \* 100 in the code: del history[:-100]
  EntryValue,    \* entry_value, the amount of a normal order
  Multiplier,    \* martingale_multiplier
  StopWin,       \* stop_win; 0 disables it
  StopLoss       \* stop_loss; 0 disables it

ASSUME LimitAssumption == HistoryLimit \in Nat \ {0}
ASSUME MoneyAssumption ==
  /\ EntryValue \in Nat \ {0}
  /\ Multiplier \in Nat \ {0}
  /\ StopWin \in Nat
  /\ StopLoss \in Nat

Results == {"PENDING_RESULT", "WIN", "LOSS", "TIMEOUT"}
StopStatuses == {"STOP_WIN_HIT", "STOP_LOSS_HIT"}
ShownStatuses == {"WIN", "LOSS"}
WaitStatuses == {"WAITING_RESULT", "PENDING_GALE_RESULT"}
TemporaryWaits == {"CONNECTION_BACKOFF", "WAITING_RECOVERY", "SIGNAL_EXPIRED"}
SendableStatuses == {"SIGNAL_FOUND", "WAITING_ENTRY", "WAITING_GALE_ENTRY",
                     "BUYING", "SENDING_GALE_ORDER"}
Statuses ==
  StopStatuses \cup ShownStatuses \cup WaitStatuses \cup TemporaryWaits
  \cup SendableStatuses
  \cup {"STOPPED", "ANALYZING", "WAITING_NEXT_CYCLE", "WAITING_ANALYSIS_WINDOW",
        "SIGNAL_REJECTED", "ORDER_REJECTED", "REAL_TRADING_LOCKED",
        "DISCONNECTED", "INSUFFICIENT_BALANCE", "BULLEX_ACTIVE_MODE_NOT_REAL"}

Clock == {"none", "later", "due"}

Trade == [id : OrderIds, gale : BOOLEAN, parent : OrderIds \cup {NoOrder},
          amount : Nat, result : Results, profit : Int, final : BOOLEAN,
          today : BOOLEAN]
Signal == [gale : BOOLEAN, targeted : BOOLEAN]

\* None is no order, no trade and no signal.
ASSUME NoneAssumption ==
  NoOrder \notin OrderIds /\ NoTrade \notin Trade /\ NoSignal \notin Signal

Robot == [enabled : BOOLEAN, connected : BOOLEAN, martingale : BOOLEAN,
          status : Statuses, op : BOOLEAN,
          trade : Trade \cup {NoTrade}, pending : Signal \cup {NoSignal},
          galePending : BOOLEAN, galeActive : BOOLEAN, galeAmount : Nat,
          galeParent : Trade \cup {NoTrade},
          attempts : Nat, cycle : SUBSET OrderIds,
          nextCycle : Clock, display : Clock,
          wins : Nat, losses : Nat, profit : Int,
          history : Seq(Trade), completed : SUBSET OrderIds]

\* RobotState() as get() creates it for an unknown user.
NewRobot ==
  [enabled |-> FALSE, connected |-> FALSE, martingale |-> FALSE,
   status |-> "STOPPED", op |-> FALSE,
   trade |-> NoTrade, pending |-> NoSignal,
   galePending |-> FALSE, galeActive |-> FALSE, galeAmount |-> 0,
   galeParent |-> NoTrade,
   attempts |-> 0, cycle |-> {}, nextCycle |-> "none", display |-> "none",
   wins |-> 0, losses |-> 0, profit |-> 0, history |-> <<>>, completed |-> {}]

-----------------------------------------------------------------------------
(* Helpers                                                                 *)

IsFinal(t) == t # NoTrade /\ t.result \in {"WIN", "LOSS", "TIMEOUT"}

WaitingStatus(r) == IF r.galeActive THEN "PENDING_GALE_RESULT" ELSE "WAITING_RESULT"
EntryStatus(r) == IF r.galePending THEN "WAITING_GALE_ENTRY" ELSE "WAITING_ENTRY"
IdleStatus(r) == IF r.enabled THEN "WAITING_NEXT_CYCLE" ELSE "STOPPED"
NextIfEnabled(r) == IF r.enabled THEN "later" ELSE "none"

\* A mutant of DisarmGale: gale_pending survives.
DisarmGaleHalf(r) == [r EXCEPT !.galeActive = FALSE]

\* _clear_gale_state, without and with preserve_context.
DisarmGale(r) == [r EXCEPT !.galePending = FALSE, !.galeActive = FALSE]
ClearGale(r) == [DisarmGale(r) EXCEPT !.galeAmount = 0, !.galeParent = NoTrade]

\* A mutant of Remember: nothing is ever forgotten.
RememberAll(hist, t) == Append(hist, t)

\* history.append(trade); del history[:-HistoryLimit]
Remember(hist, t) ==
  LET longer == Append(hist, t)
  IN IF Len(longer) > HistoryLimit
     THEN SubSeq(longer, Len(longer) - HistoryLimit + 1, Len(longer))
     ELSE longer

\* What management_totals sums: the results of today.  Order ids are unique
\* in a history, so a history is summed as the set of its trades.
Settled(trades) == {t \in trades : t.today /\ t.result \in {"WIN", "LOSS"}}
GrossProfit(trades) ==
  MapThenSumSet(LAMBDA t : t.profit, {t \in Settled(trades) : t.profit > 0})
GrossLoss(trades) ==
  MapThenSumSet(LAMBDA t : -t.profit, {t \in Settled(trades) : t.profit < 0})

WinLimitHit(gross) == StopWin > 0 /\ gross >= StopWin
LossLimitHit(gross) == StopLoss > 0 /\ gross >= StopLoss

\* The profit booked for a result: a missing or contradictory amount is
\* replaced by the stake.
Booked(result, reported, amount) ==
  IF result = "WIN"
  THEN IF reported > 0 THEN reported ELSE amount
  ELSE IF reported < 0 THEN reported ELSE -amount

-----------------------------------------------------------------------------
(* Starting, stopping and resetting                                        *)

Start(r) ==
  [ClearGale(r) EXCEPT
     !.enabled = TRUE, !.status = "WAITING_NEXT_CYCLE", !.display = "none",
     !.attempts = 0, !.pending = NoSignal, !.op = FALSE,
     !.cycle = {}, !.nextCycle = "later"]

\* A mutant of Stop: the open operation is released.
StopReleases(r) ==
  [ClearGale(r) EXCEPT !.enabled = FALSE, !.status = "STOPPED", !.pending = NoSignal,
                       !.nextCycle = "none", !.op = FALSE, !.attempts = 0]

\* A trade whose result is pending keeps the operation open across a stop.
Stop(r) ==
  LET open == r.op /\ ~IsFinal(r.trade)
      off == [r EXCEPT !.enabled = FALSE, !.status = "STOPPED",
                       !.pending = NoSignal, !.nextCycle = "none",
                       !.op = open, !.attempts = 0]
  IN IF open THEN [off EXCEPT !.galePending = FALSE]
             ELSE [ClearGale(off) EXCEPT !.display = "none"]

\* stop() followed by dropping the open operation: insufficient_balance and
\* require_real_mode differ only in the status they leave.
StopAndRelease(r, status) ==
  [ClearGale(Stop(r)) EXCEPT !.status = status, !.op = FALSE, !.pending = NoSignal]
InsufficientBalance(r) == StopAndRelease(r, "INSUFFICIENT_BALANCE")
RequireRealMode(r) == StopAndRelease(r, "BULLEX_ACTIVE_MODE_NOT_REAL")

PauseByStop(r, reason) ==
  [ClearGale(r) EXCEPT !.enabled = FALSE, !.status = reason, !.op = FALSE,
                       !.pending = NoSignal, !.nextCycle = "none"]

\* reset_cycle(reset_score = True), the only way it is called.  The set of
\* completed order ids survives.
ResetCycle(r) ==
  [ClearGale(r) EXCEPT
     !.enabled = FALSE, !.status = "STOPPED", !.display = "none",
     !.trade = NoTrade, !.pending = NoSignal, !.op = FALSE, !.attempts = 0,
     !.cycle = {}, !.nextCycle = "none",
     !.wins = 0, !.losses = 0, !.history = <<>>, !.profit = 0]

\* A mutant of ResetScore: the score is cleared, its trades stay.
ResetScoreOnly(r) == [r EXCEPT !.wins = 0, !.losses = 0, !.profit = 0]

ResetScore(r) ==
  LET zero == [r EXCEPT !.wins = 0, !.losses = 0, !.profit = 0, !.history = <<>>]
  IN IF ~r.op /\ IsFinal(r.trade)
     THEN [zero EXCEPT !.trade = NoTrade, !.display = "none"]
     ELSE zero

\* update_config always carries account_mode = REAL, which disables the robot.
UpdateConfig(r, martingale) ==
  [r EXCEPT !.martingale = martingale, !.enabled = FALSE,
            !.status = "STOPPED", !.nextCycle = "none"]

DisconnectAccount(r) ==
  [r EXCEPT !.enabled = FALSE, !.connected = FALSE, !.pending = NoSignal,
            !.op = FALSE, !.nextCycle = "none", !.trade = NoTrade,
            !.status = "DISCONNECTED"]

\* A mutant of LockReal: the status is left as it was.
LockRealSilently(r) == [r EXCEPT !.pending = NoSignal, !.op = FALSE]

LockReal(r) ==
  [r EXCEPT !.status = "REAL_TRADING_LOCKED", !.pending = NoSignal, !.op = FALSE]

DeferCycle(r, status) ==
  [r EXCEPT !.status = status, !.op = FALSE, !.nextCycle = "later"]

SyncConnection(r, connected, align) ==
  [r EXCEPT !.connected = connected,
            !.status = IF connected /\ align /\ ~r.op THEN IdleStatus(r) ELSE @]

-----------------------------------------------------------------------------
(* The phases of a cycle                                                   *)

ResetCycleAfterResult(r) ==
  LET kept == IF r.martingale THEN r ELSE ClearGale(r)
  IN [kept EXCEPT !.op = FALSE, !.pending = NoSignal, !.attempts = 0,
                  !.cycle = {}, !.nextCycle = NextIfEnabled(r),
                  !.status = IdleStatus(r)]

\* prepare_cycle.  PrepareBase is the state its first three blocks leave;
\* the operation is re-opened when the status still waits for a result.
PrepareBase(r) ==
  LET awake == IF r.status \in TemporaryWaits
               THEN [r EXCEPT !.status = "WAITING_NEXT_CYCLE"] ELSE r
  IN IF \/ awake.status \in ShownStatuses /\ awake.display # "none"
        \/ awake.status = "WAITING_RESULT" /\ ~awake.op
     THEN ResetCycleAfterResult(awake) ELSE awake

PrepareHeld(r) ==
  \/ r.status \in TemporaryWaits /\ r.nextCycle = "later"
  \/ r.status \in ShownStatuses /\ r.display = "later"

ResultWaiting(r) == r.op \/ (r.status \in WaitStatuses /\ ~IsFinal(r.trade))

CanRun(r) ==
  /\ r.enabled
  /\ ~PrepareHeld(r)
  /\ LET b == PrepareBase(r)
     IN ~ResultWaiting(b) /\ (b.pending # NoSignal \/ b.nextCycle = "due")

PrepareCycle(r) ==
  LET b == PrepareBase(r)
  IN CASE ~r.enabled ->
            [r EXCEPT !.status = IF @ \in StopStatuses THEN @ ELSE "STOPPED"]
       [] r.enabled /\ PrepareHeld(r) -> r
       [] r.enabled /\ ~PrepareHeld(r) /\ ResultWaiting(b) ->
            [b EXCEPT !.op = TRUE, !.status = WaitingStatus(b)]
       [] r.enabled /\ ~PrepareHeld(r) /\ ~ResultWaiting(b) /\ b.pending # NoSignal ->
            [b EXCEPT !.status = EntryStatus(b)]
       [] OTHER ->
            CASE b.nextCycle = "later" -> [b EXCEPT !.status = "WAITING_NEXT_CYCLE"]
              [] b.nextCycle = "none" ->
                   [b EXCEPT !.status = "WAITING_NEXT_CYCLE",
                             !.cycle = {}, !.nextCycle = "later"]
              [] b.nextCycle = "due" ->
                   [b EXCEPT !.status = "WAITING_NEXT_CYCLE", !.attempts = 0]

Reject(r) == [r EXCEPT !.status = "SIGNAL_REJECTED"]

RejectStrategy(r) ==
  [Reject(r) EXCEPT !.pending = NoSignal, !.op = FALSE, !.nextCycle = "later"]

WaitAnalysisWindow(r) ==
  [r EXCEPT !.pending = NoSignal, !.op = FALSE,
            !.status = "WAITING_ANALYSIS_WINDOW", !.nextCycle = "later"]

\* set_pending_signal rebuilds the signal field by field: is_gale and
\* target_entry_timestamp are not among the fields it copies.
SetPendingSignal(r) ==
  [r EXCEPT !.pending = [gale |-> FALSE, targeted |-> FALSE],
            !.status = IF r.galePending THEN "WAITING_GALE_ENTRY" ELSE "SIGNAL_FOUND"]

SetOrderAttempt(r) == SetPendingSignal([r EXCEPT !.attempts = @ + 1])

ExpirePendingSignal(r) ==
  [ClearGale(r) EXCEPT !.status = "SIGNAL_EXPIRED", !.pending = NoSignal,
                       !.op = FALSE, !.nextCycle = "later"]

StartSendingOrder(r) ==
  [r EXCEPT !.status = IF r.galePending THEN "SENDING_GALE_ORDER" ELSE "BUYING"]

\* A mutant of RejectOrder: the gale state is kept.
RejectOrderKeepsGale(r) ==
  [r EXCEPT !.pending = NoSignal, !.op = FALSE, !.status = "ORDER_REJECTED",
            !.attempts = IF @ = 0 THEN 1 ELSE @, !.nextCycle = "later"]

RejectOrder(r) ==
  [ClearGale(r) EXCEPT !.pending = NoSignal, !.op = FALSE,
                       !.attempts = IF @ = 0 THEN 1 ELSE @,
                       !.status = "ORDER_REJECTED", !.nextCycle = "later"]

\* update_entry_window, for a window in which entry is open or not.
UpdateEntryWindow(r, windowOpen) ==
  LET quiet == r.status = "WAITING_NEXT_CYCLE" /\ r.pending = NoSignal /\ ~r.op
      open == windowOpen /\ ~quiet
      calm == IF r.status = "ANALYZING" /\ r.pending = NoSignal /\ ~r.op
              THEN [r EXCEPT !.status = IdleStatus(r)] ELSE r
  IN CASE ~open /\ r.enabled /\ ~r.op /\ r.pending # NoSignal ->
            [calm EXCEPT !.status = EntryStatus(r)]
       [] open /\ calm.status = "WAITING_GALE_ENTRY" /\ r.pending = NoSignal ->
            [calm EXCEPT !.status = IdleStatus(r)]
       [] OTHER -> calm

\* The mutations to_dict makes while it serialises the state; every
\* persist_robot and every response goes through them.
Normalise(r) ==
  LET awake == IF \/ /\ r.status \in TemporaryWaits
                     /\ r.nextCycle = "due" /\ r.enabled /\ ~r.op
                  \/ r.status = "WAITING_ANALYSIS_WINDOW"
                  \/ r.status = "SIGNAL_EXPIRED" /\ r.nextCycle = "due"
               THEN [r EXCEPT !.status = IdleStatus(r)] ELSE r
  IN IF awake.status \in ShownStatuses /\ awake.display = "due"
     THEN [awake EXCEPT !.status = IdleStatus(r), !.nextCycle = NextIfEnabled(r),
                        !.pending = NoSignal]
     ELSE awake

-----------------------------------------------------------------------------
(* The life of a trade                                                     *)

\* record_trade drops a trade whose id is already completed, and a trade
\* that arrives while another operation is open.
RecordTrade(r, t) ==
  IF t.id \in r.completed \/ r.op
  THEN r
  ELSE LET held == [r EXCEPT !.trade = t, !.pending = NoSignal, !.display = "none",
                             !.op = TRUE,
                             !.status = IF t.gale THEN "PENDING_GALE_RESULT"
                                                  ELSE "WAITING_RESULT"]
       IN IF t.gale
          THEN [held EXCEPT !.galePending = FALSE, !.galeActive = TRUE,
                            !.galeAmount = t.amount]
          ELSE held

\* A mutant of CanSettle: the result of any order settles the last trade.
CanSettleAny(r, id) ==
  id \notin r.completed /\ r.trade # NoTrade /\ (r.op \/ ~IsFinal(r.trade))

\* The guards finish_trade and timeout_trade share.
CanSettle(r, id) ==
  /\ id \notin r.completed
  /\ r.trade # NoTrade
  /\ r.trade.id = id
  /\ r.op \/ ~IsFinal(r.trade)

Projected(r, result, reported) ==
  [r.trade EXCEPT !.result = result, !.today = TRUE,
                  !.profit = Booked(result, reported, r.trade.amount)]

WantsGale(r, result, reported) ==
  /\ result = "LOSS" /\ r.enabled /\ ~r.trade.gale
  /\ r.martingale /\ ~r.galeActive
  /\ ~LossLimitHit(GrossLoss(Range(r.history) \cup {Projected(r, result, reported)}))

\* A lost normal trade becomes the parent of one doubled entry; its loss is
\* in the history at once, in wins/losses/profit only with the gale's result.
TriggerGale(r, reported) ==
  LET parent == [Projected(r, "LOSS", reported) EXCEPT !.final = FALSE]
  IN [r EXCEPT !.completed = @ \cup {parent.id}, !.trade = parent,
               !.op = FALSE, !.pending = [gale |-> TRUE, targeted |-> FALSE],
               !.status = "WAITING_GALE_ENTRY", !.display = "none",
               !.nextCycle = "none", !.galePending = TRUE, !.galeActive = TRUE,
               !.galeAmount = parent.amount * Multiplier, !.galeParent = parent,
               !.history = Remember(@, parent)]

BookResult(r, result, reported) ==
  LET origin == IF r.galeParent = NoTrade THEN NoOrder ELSE r.galeParent.id
      t == [Projected(r, result, reported) EXCEPT
              !.final = TRUE, !.parent = IF @ = NoOrder THEN origin ELSE @]
      parentProfit == IF t.gale /\ r.galeParent # NoTrade
                      THEN r.galeParent.profit ELSE 0
  IN [DisarmGale(r) EXCEPT
        !.wins = IF result = "WIN" THEN @ + 1 ELSE @,
        !.losses = IF result = "LOSS" THEN @ + 1 ELSE @,
        !.profit = @ + parentProfit + t.profit,
        !.completed = @ \cup {t.id}, !.trade = t, !.op = FALSE,
        !.status = IF r.enabled THEN result ELSE "STOPPED",
        !.display = NextIfEnabled(r), !.nextCycle = "none",
        !.history = Remember(@, t)]

PauseAtLimit(r) ==
  CASE r.enabled /\ WinLimitHit(GrossProfit(Range(r.history))) ->
         PauseByStop(r, "STOP_WIN_HIT")
    [] /\ r.enabled /\ ~WinLimitHit(GrossProfit(Range(r.history)))
       /\ LossLimitHit(GrossLoss(Range(r.history))) ->
         PauseByStop(r, "STOP_LOSS_HIT")
    [] OTHER -> r

\* When a gale is wanted but the operation is no longer open, trigger_gale
\* refuses and the result is not booked at all.
FinishTrade(r, id, result, reported) ==
  IF ~CanSettle(r, id) THEN r
  ELSE IF WantsGale(r, result, reported)
       THEN IF r.op THEN TriggerGale(r, reported) ELSE r
       ELSE PauseAtLimit(BookResult(r, result, reported))

\* A mutant of TimeoutTrade: the operation stays open.
TimeoutKeepsOperation(r, id) ==
  IF ~CanSettle(r, id) THEN r
  ELSE LET t == [r.trade EXCEPT !.result = "TIMEOUT", !.profit = 0, !.today = TRUE]
       IN [ClearGale(r) EXCEPT !.completed = @ \cup {id}, !.trade = t,
                               !.history = Remember(@, t)]

\* A mutant of TimeoutTrade: whatever trade is the last one is timed out.
TimeoutAny(r, id) ==
  IF r.trade = NoTrade THEN r
  ELSE LET t == [r.trade EXCEPT !.result = "TIMEOUT", !.profit = 0, !.today = TRUE]
       IN [ClearGale(r) EXCEPT !.completed = @ \cup {t.id}, !.trade = t, !.op = FALSE,
                               !.history = Remember(@, t)]

TimeoutTrade(r, id) ==
  IF ~CanSettle(r, id) THEN r
  ELSE LET t == [r.trade EXCEPT !.result = "TIMEOUT", !.profit = 0, !.today = TRUE]
       IN [ClearGale(r) EXCEPT
             !.completed = @ \cup {id}, !.trade = t, !.op = FALSE,
             !.status = IdleStatus(r), !.nextCycle = "later",
             !.history = Remember(@, t)]

-----------------------------------------------------------------------------
(* Time                                                                    *)

Due(clock) == IF clock = "later" THEN "due" ELSE clock

Midnight(r) ==
  [r EXCEPT !.history = [i \in DOMAIN @ |-> [@[i] EXCEPT !.today = FALSE]]]
=============================================================================
