# The trading robot, in TLA+

A verification project for the trading robot of this repository: a FastAPI
gateway (`backend/`) that runs one robot per user, a second FastAPI process
(`bullex_service/`) that talks to the broker through a vendored websocket
library (`bullexapi/`), and Supabase for what must outlive a process.

Six modules model the two processes: the robot's state machine
(`AutoTrader`), the trading cycle and what interleaves with it (`RobotCycle`),
the worker tasks that drive it (`RobotWorker`), what the gateway believes of a
user's session (`GatewaySession`), and, in the service, the sessions of
several users over one library (`BullexSessions`) and the catalogue cache
(`InstrumentsCache`). `OrderLedger` is the promise about orders that
`RobotCycle` implements.

## 1. Inventory

| component | state | operations | interacts with |
|---|---|---|---|
| **AutoTrader** `backend/auto_trader.py` | one `RobotState` per user: status, enabled, operation_in_progress, last_trade, pending_signal, gale fields, history (100), completed order ids, wins/losses/profit, deadlines | start, stop, lock_real, set_pending_signal, record_trade, finish_trade, timeout_trade, trigger_gale, reject_order, defer_cycle, reset_cycle(_after_result), reset_score, prepare_cycle, ... | called by every handler, cycle and monitor |
| **Robot cycle** `backend/main.py` 4603-5853 | locals kept across awaits, `cycle_lock` | `execute_robot_cycle`, `submit_real_order` and its answers, result handlers | AutoTrader, the service, the monitor, persistence |
| **Request handlers** `backend/main.py` 6140-7700 | none of their own | /robot/start, stop, state, config, reset-cycle, reset-score, /bullex/connect, disconnect, /account, /sessions/status | run between any two awaits of a cycle |
| **TradeResultMonitor** `backend/trade_result_monitor.py` | a task per order, cached responses | start, poll, finish, timeout, cancel | delivers results to AutoTrader under `cycle_lock` (the deadline without it) |
| **Robot worker tasks** `backend/main.py` 5864-6055 | `robot_tasks`, `robot_worker_last_tick_at`, `robot_worker_restart_attempted` | ensure, stop, the loop, its finally clause, the stale restart of `build_robot_payload` | start and stop cycles |
| **Session cache and backoff** `backend/main.py` 560-1100, 1990-2450 | cached answers of `/sessions/status` and `/account`, `next_retry_at`, offline TTL, active users, the grace of a lost connection | mark_session_failure, clear on success, guards, sync and reconcile | decides whether a robot may start, cycle or keep its worker |
| **Persistence and restore** `backend/robot_persistence.py` | `robot_states`, `robot_trades`, `robot_events` rows, a circuit that disables Supabase | persist, load, restore on startup | AutoTrader; daily limits read the trade table |
| **Bullex service** `bullex_service/main.py` | sessions, per-user locks, a process lock, the instruments cache, the answers it keeps (`_probe_cache`), executors | connect, disconnect, status, balance, candles, buy, result | the gateway's HTTP peer |
| **Signal engine** `backend/signal_engine.py` | none | indicators, scores, filters over candles | called by the cycle |
| **User store** `backend/user_store.py` | users, password hashes, presence | CRUD | request authentication |
| **bullexapi** | globals (SSID, balance id, flags), one profile for all clients, a websocket and its thread per client | connect, restore_with_ssid, change_balance, buy, the catalogue; it connects again by itself when a fetch cannot send | vendored; called by the service |

What is hard here. Everything in the gateway shares one asyncio loop, so a
handler runs undisturbed from one `await` to the next, and everything can
happen at an `await`. A cycle has four of them (the session status, the scan
of the assets, the order call, the server time), and a stop, a restart, a
session failure, a poll of the dashboard, a result or a monitor's deadline can
be handled at each. The order call may time out after the broker accepted the
order. Several results can be outstanding. A loss may ask for a martingale
("gale") order whose bookkeeping spans two cycles. Tasks are cancelled and
replaced, and a cancellation arrives later than it is asked for.

What makes each part correct:

- **AutoTrader and the cycle.** An open operation is always followed by a
  monitor and always ends; a result is booked once, for the order it belongs
  to; a gale recovers one loss, once, for the doubled stake; no order leaves a
  robot that is off, busy or at a limit; the score is that of the history; the
  daily limits survive the truncation of the history; a robot that stays on
  goes on looking.
- **Workers.** One running task per user, reachable by stop; no dead task in
  the registry; nothing runs for ever after a stop.
- **Result monitor.** One task per order; a deadline for each order;
  a result that is fetched is applied.
- **Sessions and backoff.** An offline session leaves no answer that calls it
  connected; a session that is lost stops the robot; an outage that ends lets
  it go on; a stop and a disconnect are final.
- **Persistence.** The row says of the robot what the memory says at every
  await, so that a crash neither revives nor loses one; the daily limits read
  the persisted trades.
- **Bullex service.** An order is placed on the account of the user who asked;
  a token is stored for the user it was given to; a disconnect is final; no
  session that works is lost; every request gives its locks back; the cache
  shows a catalogue fetched since the last connect, and one fetch runs for an
  entry.

`PROJECT.json` lists the components with their status and, under `hazards`,
each of these dangers at the line where it bites.

## 2. Modules

| module | models | proofs |
|---|---|---|
| `AutoTrader` | `auto_trader.py` and the statuses of `status.py`: a record per robot and one operator per method | `AutoTraderProofs`: lemmas on each operator |
| `RobotCycle` | the cycle, the handlers, the monitors, session failures, the broker; extends `AutoTrader` | `RobotCycleProofs`; `RobotOrdersProofs`: the promises that need a calm environment |
| `OrderLedger` | abstract: what becomes of an order, whatever the robot meets | `RobotCycleProofs`: theorem `Refinement` |
| `RobotWorker` | the registry of worker tasks of one user | `RobotWorkerProofs` |
| `GatewaySession` | the session as the gateway sees it: caches, backoff, grace, routes, worker, row, restart; the answers the service keeps | `GatewaySessionProofs` |
| `BullexSessions` | `SessionManager`, its locks, and the library with its globals and threads, for several users | `BullexSessionsProofs`: the layers and the library's steps; `BullexRequestsProofs`: the requests' steps and the theorems |
| `InstrumentsCache` | `read_assets`: the catalogue cache, its executor and backoff; the stored answers of `/assets` | `InstrumentsCacheProofs` |
| `MC...` | values, environments and symmetry for the runs | |

The modules meet at calls: `GatewaySession` reduces a cycle to its check of
the connection, which `RobotCycle` takes as the outcome of `AccountResumes`;
`RobotCycle` takes from `RobotWorker` that a cancelled worker loses its cycle.
`GatewaySession` takes from the service whether a session is there and what
answers it keeps; how a session comes and goes is `BullexSessions`.

### AutoTrader

A method of the class that takes and returns a `RobotState` is an operator on
the record `Robot`. A deadline (`next_cycle_at`, `result_display_until`) is a
member of `Clock`: none, later or due; time passing turns later into due.
Order ids, trades and signals keep the fields the control depends on: id,
whether it is a gale, amount, parent, result, profit, final (a loss that armed
a gale is in the history but not final until the gale's result), and whether
it is of today. The stake `EntryValue`, the `Multiplier` and the limits are
constants. Names follow the code: `FinishTrade` is `finish_trade`,
`prepare_cycle` is `PrepareCycle`, and so on; `map` in `PROJECT.json` gives
the lines of each.

Operators that stand for a loop over trades (`management_totals`) are folds,
so that theorems can be stated about the module. Each `A mutant of ...`
operator is a deliberately wrong version used to check that a property can
fail, and no action refers to it.

### RobotCycle

Each action is the code between two awaits. `cyc.pc` says which await the
cycle is at; `cyc.win` is the local `entry_window` the code reads once, and
`cyc.left` the number of ranked candidates it can still fall back on.

| action | code |
|---|---|
| `BeginCycle(by)` | `execute_robot_cycle` up to the session status; `by` is the worker or the tick of `schedule_robot_tick` |
| `AccountResumes` | after the session status: balance, mode, stops, pending signal, or the start of the scan |
| `AnalysisResumes` | after the scan: no signal, a signal that waits, or an order |
| `SubmitResumes` | after `POST /orders/buy-real`: accepted, refused (next candidate), timed out |
| `RecordResumes` | after the server time: `record_trade` and the monitor's start |
| `MonitorFetches`, `MonitorFinishes`, `MonitorGivesUp` | a poll that returns a result, its delivery under `cycle_lock`, the deadline (no lock) |
| `StopRequest` ... `AccountNotReal` | the handlers |
| `SessionFails`, `SessionRecovers` | `mark_session_failure` and its undoing |
| `BrokerDecides`, `BrokerExpires` | external: the order is opened or refused, won or lost |

The broker decides independently of what the gateway hears, so an order
accepted behind a timeout or a cancelled call is in the model. A cycle run by
the worker is lost when the worker is cancelled (`CancelWorker`); the tick is
not.

Choices that a reader of the code may question:

- The choice of a candidate by the signal engine is a nondeterministic
  outcome of `AnalysisResumes`: the cycle only depends on whether one comes.
- An exception anywhere in a cycle ends in the same recovery
  (`wait_analysis_window`); it is explored with the event `"session"`.
- The second check of the stop limits at the top of a cycle
  is subsumed by the first: nothing changes between them.
- The 90 seconds `waiting_result_stale` requires since the last entry are
  taken as passed: the weaker guard makes the action possible more often.
- Saving a trade to the history table is assumed to succeed: the code logs a
  failed save and goes on.
- A result the broker reports as neither won nor lost ends like the deadline
  of its monitor (`timeout_trade`), and is explored with it.
- `entry_value` does not change while a signal is pending.
- Two awaits of `/robot/start` are one (`startReq`): both only wait for the
  session and the account.

### RobotWorker

`task` holds the state of every task, `registered` what `robot_tasks` holds.
`Cancel` only marks a task; `CancelArrives` is the task's own next step, which
runs the finally clause, unless it never ran at all. `Ensure`, `Payload`,
`Unregister` and `Ends` are the four pieces of code that write the registry,
as functions from a pool of tasks to a pool. The early returns of
`ensure_robot_worker` (offline, disconnected, backoff) leave everything as it
is; the one that finds no balance is a `StopRequest`. An enabled robot never has
a stop status, so that test of the finally clause is left out. `TickGetsStale`
says that more than 30 s have passed since the last heartbeat. The id of a
task that ended is used again.

### OrderLedger

The abstract specification has four variables: what became of each order at
the broker, its watch, the orders that have their result, and the results that
are booked. An order is watched once, after it was accepted; the end of the
watch settles it, at most once and with the broker's outcome or a timeout, or
abandons it; otherwise the book only forgets. `RobotCycle` implements it
through `LedgerOutcome` (an order that was only sent is not there yet),
`LedgerWatch` (polling and having fetched are both watching),
`robot.completed`, and `LedgerBook` (the history in memory and the persisted
one together). `ImplementsLedger` is checked in the run `failures` and proved as
`Refinement`: nearly all
of the robot's steps are stuttering steps of the ledger, which is the point: no
handler, reset, restart or failing session touches what was settled.

### GatewaySession

`gw` is the memory of the gateway that concerns one user: the cached answers
with the ticks they are still valid, the last valid ones, the backoff, the
offline mark, the throttle, the activity of the user, the robot's connection
fields and switch, whether it has a worker, and the connection row of the user
store. `row` is what `persist_robot` wrote, `session` what the service really
has, `responses` the answers it keeps of `/account` and `/sessions/status`,
`wish` the last start, stop, connect or disconnect that was carried out.

A route is split at its awaits. `Reply` is `call_bullex_service` up to the
call (what is answered without one), `Noted` the memory it leaves, `Answered`
and `Payload` what an answer does to the memory and what the caller gets.
`Checks`, `Reconciles` and `Decides` are the path that
`/robot/sync-connection`, `/robot/start` and the worker's cycle share.

| action | code |
|---|---|
| `StatusBegins/Returns`, `AccountBegins/Returns` | `GET /bullex/status`, `GET /bullex/account` |
| `SyncBegins`, `StartBegins`, `CheckReturns`, `ContractReturns`, `RefreshReturns` | `POST /robot/sync-connection`, `POST /robot/start` |
| `StatePoll`, `StopRequest` | `GET /robot/state`, `POST /robot/stop` |
| `ConnectBegins/Returns`, `ReconnectBegins/Returns`, `DisconnectBegins/Returns/Ends` | the three `POST /bullex/...` |
| `CycleBegins`, `CycleEnds`, `WorkerExits` | the worker's `refresh_entry_window`, the end of its cycle, the end of the worker of a robot that is off |
| `ServesRead`, `ServesKept` | the service: `session_status` and `account_overview`, from the session or from a kept answer |
| `ServesPost`, `FailsRead`, `RestoresSession` | the service: connect, disconnect, reconnect; a call that fails; `restore_on_demand` |
| `SessionChanges` | external: the broker |
| `Tick`, `Restart` | time; a crash and `restore_robot_states` |

The status answer carries no balance, so the connection row learns it from the
account only; that is what makes a sync read the account a second time.
Requests are alike: an idle one is picked, not each of them. An event (a drop,
a restart, ...) happens at most once in a behaviour.

A kept answer is served whatever its age (`ServesKept`): the service has
branches for an answer that is valid, throttled, in backoff or offline, and for
the last one of a session it no longer lists. An environment whose `keeps` is
FALSE is a service that answers from its sessions, for the questions that are
not about its cache.

### BullexSessions

The library keeps the SSID, the balance id and the connection flag of "the"
client in module globals. `global` is that module; `_session_context` takes
the process lock (`inside`), writes the session's values over it and reads
them back when it leaves. `profile` is the class attribute `BullexAPI.profile`,
which no context saves: the account whose profile message came last. A session
is an object with an identity (`object`), because the map, a request and a
login thread may refer to different ones of the same user. Each `request` is a
thread with a program counter. `account` of an object is whose account the
broker takes its socket for, so that an order (`orders`) can be compared with
the user who asked.

| action | code |
|---|---|
| `Arrives`, `ConnectBegins` ... `CallBegins` | a route takes the user lock |
| `OldSessionCloses`, `LoginStarts`, `SmsLoginStarts`, `LoginReturns`, `LoginTimesOut` | `connect_new_session`, `reconnect_attempt`, `restore_on_demand`, `connect_existing_2fa` around the library's connect |
| `SocketOpens`, `SocketSeen`, `LoginStalls`, `SsidSent`, `SsidAccepted`, `SsidRejected`, `PasswordAccepted`, `PasswordRefused`, `SecondFactorAsked`, `SendFails` | `BullexAPI.connect` and `connect_with_ssid_only`, step by step, each with what it leaves of the socket |
| `ProfileArrives`, `SocketDrops` | the websocket's thread |
| `FetchReconnects`, `FetchEnds` | `self.connect()` inside `get_instruments`, `get_all_init` and `get_candles` |
| `EntersReady`, `BecomesReady`, `NeverReady`, `RealMissing`, `LoadsReal`, `RowRefused` | `_populate_ready_state`, `_persist_connected` |
| `EntersTail`, `ConnectTail`, `ConnectCleanup` | `connect_session` after `SessionManager.connect`, and its handler of unexpected errors |
| `SessionMissing`, `SessionAlive`, `SessionDead` | `ensure_session_alive`, `_attempt_reconnect` |
| `EntersCall` ... `ModeChanged` | the operation of `run` |
| `MarketBegins`, `MarketBusy`, `FetchReturns`, `FetchOutlives` | `/candles`, `/assets`, `/payouts`: a fetch that may reconnect, and may outlive its request |

What a failed login leaves is what the code leaves: a socket that is not
closed stays open (only `get_ssid` without an SSID, `restore_on_demand` and
`_mark_disconnected` close one), and `TriesAgain` repeats every failure whose
text speaks of a timeout as well as the 60 s. `finished` marks a session whose
login ended well and was taken over; the two properties of sockets are about
those.

Assumptions about what is not in the code. The broker closes the socket on which
it refuses an SSID, as the comment of `api.py:872` says. It sends a profile once
for each SSID it accepts, and within 10 s; one that comes later on a socket that
was kept is not in the model. A client logs in in one thread at a time; where a
code arrives for a session whose late login still runs, the session goes on as
another object and the thread keeps the old one.
`/sessions/reconnect` is the path of `SessionDead` and `/account` that of
`/sessions/status`, so neither is an action of its own. Where the code asks for
the mode of a session outside its context (`main.py:476`), the wait for the
profile is a guard.

### InstrumentsCache

An entry of the cache is an object with its lock; a connect drops the entry. A
read starts a fetch in the executor, waits for it, and may leave it behind:
the fetch then keeps the lock until its callback (`held`). `wait` is the
backoff, `streak` counts the failures of the user to compare it with.

In front of the entry `list_assets` keeps its last answer (`probe`), stored
after `run` gave the user lock back: `answer` is one on its way, and
`overtaken` the users who connected meanwhile. A catalogue is the number of
connects its user had made when it was fetched. Its symbols come from
`OP_code.ACTIVES`, one table that the fetches of all users fill, so a catalogue
says when it was fetched and not for whom; and a reconnection keeps the entry.

## 3. Runs

Each run explores several *environments*, chosen in the initial state: the
requests and failures a behaviour may meet, and its bounds. So the questions
that need many requests stay apart from those that need many orders, and a
property that excludes a failure says so in its premise. Between them the runs
take every action.

| run | checks | what it shows |
|---|---|---|
| `handlers` | `TypeOK`, `WaitingMeansOpen`, `DailyLimitsHold` | all handlers, in any order and inside any await: no waiting status remains over a released operation; with a history of one trade and new days, the persisted trades still stop the robot |
| `failures` | `OpenTradeIsMonitored`, `BookedAsBroker`, `EveryResultIsBooked`, `GaleRecoversALoss`, `OneGalePerLoss`, `ScoreMatchesHistory`, `SendsOnlyWhenAllowed`, `SerialOrders`, `ImplementsLedger` | failing sessions, restarts, lost answers, deadlines, low balances, odd amounts, resets: an open operation is watched, a result is booked once and as the broker gave it, a loss is recovered once, nothing leaves a robot that may not trade, and the robot implements `OrderLedger` |
| `live` | `OperationReleased`, `RobotKeepsLooking` | every operation ends; a robot that stays on gets back to a scan or a signal |
| `worker` | `RegisteredRuns`, `OnlyRestartsOrphan`, `StoppedRobotLosesItsWorkers` | the registry never holds a dead task, only the restart of a finally clause orphans a running one, and a robot that stays off loses all its workers |
| `gateway` | `TypeOK`, `OfflineForgets`, `StoppedStaysOff`, `SwitchIsPersisted`, `LossStopsRobot`, `RobotGoesOn` | what the gateway believes of a session while routes, worker, time, failures and a crash interleave |
| `sessions` | `TypeOK`, `OrdersOnOwnAccount`, `TokensAreOwn`, `LeftStaysOut`, `OneSocketPerUser`, `NoForgottenSocket` | two users whose sockets drop and whose clients log in again by themselves; SSIDs that expire; one user with every kind of request and failure: orders and SSIDs stay with their user, a session that works is neither doubled nor forgotten; logins and fetches that outlive the service's wait: a disconnect is final all the same |
| `sessions_live` | `EveryRequestEnds` | with a broker that answers, every request of two users gives its locks back |
| `cache` | `TypeOK`, `LockHasOneHolder`, `CatalogueSinceConnect`, `BackoffSequence`, `OneFetchPerEntry`, `LocksAreReleased` | fetches that outlive their readers, connects that drop the entry under them, answers that are stored after a connect; the lock of an entry is given back, by a fetch that was left behind too |
| `pending_result` | `PendingResultBlocksAnalysis` (violated) | finding 1 |
| `late_order` | `NoLateOrder` (violated) | finding 2 |
| `worker_duplicate` | `AtMostOneWorker` (violated) | finding 3 |
| `shared_profile` | `OrdersOnOwnBalance` (violated) | finding 4 |

**Findings.** Three tests and the README of the repository state rules that
the code does not keep outside the path they take.

1. *A pending result blocks a new analysis* (`tests/test_auto_trader.py:1593`).
   `defer_cycle`, called when a session fails, clears the operation of a trade
   whose result is pending; the cycle after the backoff analyses again while
   the monitor still polls.
2. *A window that closes during the analysis blocks a late order*
   (`tests/test_auto_trader.py:3243`). The entry window is read before the
   scan and gates the order after it.
3. *A user has at most one worker*
   (`tests/test_session_worker_lifecycle.py:54`). A stop cancels the worker; a
   start that goes on before the cancellation is delivered registers a new one;
   the finally clause of the cancelled worker then finds the robot on and
   registers another over it.
4. *Users are isolated in memory by locks* (`README.md:205`). The profile is
   a class attribute of the library and no context lends it: when two users
   connect at once, the REAL balance one of them selects is looked up in the
   profile of the other, and the order goes out for that balance.

Properties with a premise. A result is booked only while its operation is
open, and more than a deadline can release it before the result comes: a
failing session and a restart (finding 1), a reset, a disconnect, a check of
the account that finds another mode, or a poll of the state that finds no
balance, each followed by a start that replaces the trade.
`EveryResultIsBooked` excludes them, `SerialOrders` all but the events that do
not touch the operation. An armed gale survives the handlers that end the
cycle which is sending it (`defer_cycle`, `wait_analysis_window`,
`require_real_mode` keep `gale_pending`), so the next cycle sends it once
more: `OneGalePerLoss` excludes these.

Met while modelling and visible in a premise or an action, without a run of
their own: a `reset-score` while a gale is on its way lets the same loss be
recovered twice (premise of `OneGalePerLoss`); a login that outlives its 60 s,
or a fetch its 8 s, goes on outside the process lock and writes its SSID over
the globals that are lent to another session by then, so the row of one user
may get the token of another, and the user who logs in next may be logged in to
the account of the one before (`ThreadsReturn`, the premise of `TokensAreOwn`
and of `OrdersOnOwnAccount`); a login that fails after its socket opened leaves
the socket, and the retry opens another (`Works`,
`bullex_service/main.py:761`); the cleanup of an unexpected error takes no user
lock and may remove the session of the next request (`Tidy`); an answer of
`/assets` that was on its way when its user connected is kept (`overtaken`); a
connect drops the cache entry with its lock, so a fetch that was left behind
and the next one run at once (`OneFetchPerEntry` is about one entry, not about
one user); a login that fails leaves the shared profile empty, and a status
call of another user waits for it in a loop without a pause and without a
deadline, inside the process lock (`Spins`, the premise of `EveryRequestEnds`,
`bullexapi/stable_api.py:455`); `POST /bullex/disconnect` does not persist that
it switched the robot off (premise of `SwitchIsPersisted`,
`backend/main.py:7605`); and without the account poll of the dashboard nothing
tells the worker that a session is lost, because every cycle renews the robot's
own connection (premise of `LossStopsRobot`, `backend/main.py:2434`). That
premise (`Reachable`) also excludes a service that goes on answering from what
it kept: `run` drops a session without marking the kept answers, and
`account_overview` then serves the last one, of any age
(`bullex_service/main.py:611` and `1862`).
`disconnect_account` keeps `last_connected_at`, so a `POST /robot/sync-connection`
within 30 s of the last connection calls a disconnected robot connected
(`InGrace`, `backend/auto_trader.py:1647`), against `README.md:218-222`.

### Bounds

- `OrderIds`: two or three orders. Three are the least with a loss, its gale,
  and an order after them; two suffice where the question is about one pending
  order and the next. Once all are used no order is sent, and the runs go on
  without sending.
- `MaxAttempts` of `RobotCycle` = 2 (3 in the code) and `Fallbacks` = 1: a
  rejection, a fallback, and the limit in the middle of a gale.
- `HistoryLimit` 1 to 3 (100 in the code): small so that it is reached; 4 in
  `failures`, where a history of three orders never fills, so that the score is
  compared with it to the end.
- `EntryValue` = 1, `Multiplier` = 2; `Reported` are the profits -1, 0 and 1
  that `AnyProfit` lists (right, missing, wrong sign).
- `StopWin`, `StopLoss`: 0 is off; 2 is reached by two results or one gale.
- `Workers` of `RobotWorker`: 4 tasks alive at once; two orphans need 4.
- Timers of `GatewaySession`, in ticks of about ten seconds: the order of the
  code's limits is kept (status 1, account 2, fresh 1, grace 2, offline 2, seen
  3), the long ones are shortened. A read takes at most one tick (its timeout
  is 5 s), a login at most the offline time (60 s both). One request of the
  dashboard at a time next to the worker, and two in one environment.
- `BullexSessions`: two users, two requests at once, three sessions that exist
  at once (two with late threads, four for liveness), one or two attempts of a
  login. Two users are the least who can mix up the globals; a third object is
  the one a connect builds while the old one and one a failed login left live.
  At most one connection in use is lost in a behaviour. The runs of
  `BullexSessions` do not look for deadlock, because the service really may
  stop: a request that waits for a profile nobody will send holds the process
  lock, and with it every request of every user. `EveryRequestEnds` excludes
  that wait (`Spins`) and nothing else. No run has an SMS code arrive beside a
  login that outlived its time; the invariant of `BullexSessionsProofs` covers
  it.
- `InstrumentsCache`: two users, of whom one connects again, two entries, two
  fetches and an executor of two (4 in the code), so that two fetches may be one
  user's or two users'.
- Symmetry over order ids, tasks, requests and objects in the safety runs only:
  the modules treat them alike. The runs with liveness properties use none.

Deadlock is checked in every other run.

### Fairness

`FairSpec` of `RobotCycle` assumes that every await of a cycle ends (each HTTP
call has a timeout), that the worker begins its next cycle (its loop only
sleeps), that clocks advance, and that a monitor polls until a result or its
deadline (`expires_at` + 15 s). Delivering a result needs `cycle_lock`, which
cycles keep taking: strong fairness, because an `asyncio.Lock` wakes its
waiters in order. Users, the broker, sessions and the dashboard are under no
obligation. `FairSpec` of `RobotWorker` assumes that sleeps and cycles end and
that a cancellation is delivered.

`FairSpec` of `GatewaySession`: time passes, a call is answered and its route
goes on, and the worker wakes again and again (strong fairness of
`CycleBegins`: it does not each time wake in the moment another route has the
connection in backoff). `PolledSpec` adds the dashboard of a user who watches:
it reads the account and the robot's state again and again. The frontend is
not in this repository; the caches, the throttle and the activity of
`active_users` are what the gateway has for its polls, and both properties are
about a user who has it open. Both need the service to answer from some time on,
and from its sessions instead of from a kept answer (`Reachable`); `RobotGoesOn`
also needs that the user does not fall inactive, since the code lets the robot
of an absent user rest.

`FairSpec` of `BullexSessions`: a thread that may take a lock gets it (strong
fairness: `threading.Lock` is contended by requests that each hold it for a
bounded time), and the broker answers a login. `FairSpec` of
`InstrumentsCache`: a read ends by its deadline and a backoff runs out. A fetch
ends because its loops have deadlines and because the login it may make ends:
the socket and the SSID have time limits, the password's HTTP request has none,
so that is an assumption about the broker.

## 4. Proofs

All for every value of the constants: any number of orders, workers, users,
requests, session objects, entries and fetches, any stake, multiplier, limits
and timers, and any environment. The assumptions are those the modules name:

- the markers of absence (`NoTrade`, `NoSignal`, `NoOrder`, `NoWorker`,
  `NoUser`, `NoRequest`, `NoObject`, `NoEntry`, `NoFetch`) are outside the sets
  they mark the absence of, and the `Worker` of `GatewaySession` is no request;
- numbers are naturals, those that count something to do at least one; reported
  profits are integers; there is a user;
- the timers of `GatewaySession` are ordered as in the code (constants
  of `backend/main.py`): a call takes no longer than a status is
  valid, a status is valid no longer than an account or an offline mark, the
  grace ends no later than the offline mark, and that no later than the user
  counts as absent;
- an environment is a set of the requests, answers and events the modules name.

| theorem | states | module |
|---|---|---|
| `TypeCorrect` | `Spec => []TypeOK`: types, and the history within its limit | `RobotCycleProofs` |
| `WaitingIsOpen` | `Spec => []WaitingMeansOpen` | |
| `OpenIsMonitored` | `Spec => []OpenTradeIsMonitored` | |
| `GaleIsARecovery` | `Spec => []GaleRecoversALoss` | |
| `BookIsTheBrokers` | `Spec => []BookedAsBroker` | |
| `ScoreIsTheHistorys` | `Spec => []ScoreMatchesHistory` | |
| `DailyLimitsAreHeld` | `Spec => DailyLimitsHold`, an action property | |
| `SendsAllowed` | `Spec => SendsOnlyWhenAllowed`, an action property | |
| `Refinement` | `Spec => ImplementsLedger`, that is `Ledger!Spec` | |
| `ResultsAreBooked` | `Spec => []EveryResultIsBooked` | `RobotOrdersProofs` |
| `OneGaleRecovers` | `Spec => []OneGalePerLoss` | |
| `OrdersAreSerial` | `Spec => SerialOrders`, an action property | |
| `RegistryIsAlive` | `Spec => []RegisteredRuns` | `RobotWorkerProofs` |
| `OrphansComeFromRestarts` | `Spec => OnlyRestartsOrphan`, an action property | |
| `CacheTypeCorrect` | `Spec => []TypeOK` | `InstrumentsCacheProofs` |
| `LockIsHeldOnce` | `Spec => []LockHasOneHolder` | |
| `CatalogueIsCurrent` | `Spec => []CatalogueSinceConnect` | |
| `BackoffIsSequential` | `Spec => []BackoffSequence` | |
| `FetchesAreExclusive` | `Spec => []OneFetchPerEntry` | |
| `SessionTypeCorrect` | `Spec => []TypeOK` | `GatewaySessionProofs` |
| `OfflineIsForgotten` | `Spec => []OfflineForgets` | |
| `StopIsFinal` | `Spec => []StoppedStaysOff` | |
| `SwitchSurvives` | `Spec => []SwitchIsPersisted` | |
| `SessionsTypeCorrect` | `Spec => []TypeOK` | `BullexRequestsProofs` |
| `DisconnectIsFinal` | `Spec => []LeftStaysOut` | |
| `OrdersAreOwn` | `Spec => []OrdersOnOwnAccount` | |
| `StoredTokensAreOwn` | `Spec => []TokensAreOwn` | |
| `SocketsAreSingle` | `Spec => []OneSocketPerUser` | |
| `SocketsAreNotForgotten` | `Spec => []NoForgottenSocket` | |

Each module has one inductive invariant, `IInv`, shown to hold by one theorem
(`Invariance`, `RegistryInvariance`, `CacheInvariance`, `SessionInvariance`,
`SessionsInvariance`) from which the others follow; `RobotOrdersProofs` adds to
that of the cycle, and `CacheInvariance` also has `AnswersAreCurrent`, about the
stored answers.
TLC checked each invariant on the bounds of the module's runs before it was
proved.

**The cycle.** None of its invariants is inductive alone. `IInv` of
`RobotCycleProofs` adds what links the robot to its surroundings:

- `Sound(robot)`: the record is consistent in itself (a waiting status has an
  open operation, a pending gale has its parent, a gale signal is a doubled
  stake);
- `TradesOfOrders`: the last trade and the parent of a gale are orders the
  broker accepted, with the amounts and flags they were sent with;
- `CycleOrder`: no cycle is inside an await while an operation is open, and one
  that waits for an answer has its order, which nobody watches yet;
- `ArmedOverALoss`: while a gale is armed the last trade is the loss it is to
  recover, closed, completed and in the archive;
- `MonitorOrder`: a monitor watches an accepted order, and has ended once that
  order is completed;
- `GaleOrders`: an order is a gale's only if it was sent, for a completed loss;
- `HistoryArchived`: a result the memory holds is persisted under its order.

Most methods of AutoTrader cannot disturb those links: `AutoTraderProofs` shows
each of them `Safe` (it keeps the record sound, opens no operation and
invents no parent, turns no switch on, and keeps the history with its score or
empties both). One lemma, `SafeStep`, turns `Safe` into `GoodStep`; only
`start`, `record_trade`, `finish_trade` with its gale, and sending an order need
an argument of their own. `GoodStep` is all that is claimed of a step: `IInv'`,
a step of the ledger, no order sent that is not allowed, and `Moves`, how the
switch, the cycle and the orders may move. They are proved together because
they look at the same effects. Each action is one lemma and `NextGood` combines
them.

The two properties about sums need no induction over the trades.
`ScoreMatchesHistory` compares cardinalities, and one trade more adds one to
them (`RememberScores`), as long as the history forgets none.
`DailyLimitsHold` speaks of the persisted trades while the code sums those of
the memory as well: by `HistoryArchived` both sums are over the same set
(`DayIsArchived`).

Where a step is not a stutter of the
ledger, it is the ledger's `Decide` (the broker), `Watch` (`RecordResumes`),
`Close` (a result or a deadline) or `Forget` (a history that lets go).

**Orders in a calm environment.** `EveryResultIsBooked`, `OneGalePerLoss` and
`SerialOrders` hold only while some events stay away, and their inductive
invariants do too. The environment is chosen once (`Frame`: no step changes
it), so each invariant has its property's premise in front:

- `Followed`, for a booked result: a live monitor is the one of the open
  operation, an ended one has had its order completed. A tick must not release
  the operation, so no daily limit may be reached while an order is out; that
  holds because it was not when the order left and trades are booked only when
  it is back, or lose their day at midnight. And a start must not either, so
  none waits while an order is out. `OperationKept` goes through the actions:
  nothing but the end of its monitor closes the operation, and that end settles
  it (`MonitorEndSettles`), because its trade is the one `CanSettle` asks for.
- `Recovering`, for a single gale: while a gale is armed, the order sent for it
  is the one the cycle waits for. The wait ends with the answer, which disarms
  the gale, with its record, which consumes it, or with a stop, which disarms
  it (`WaitEnds`, `AnswerDisarms`, `RecordOpens`, `StopDisarms`); and a gale is
  armed only for a loss that was not completed before, which by `GaleOrders` no
  gale has recovered (`ArmedByItsLoss`).
- `Collected`, for serial orders: an order the broker may have and nobody
  watches is the one the cycle waits for. The next is sent by a cycle that
  waits for none, or for one that was refused (`OrderMoves`), and only when no
  operation is open, so by `Followed` nobody watches an order then.

The proofs show where each premise is needed: `Followed` cites it for the
actions that would release an operation, `WaitEnds` for those that would cut a
cycle, and `CollectedStep` for the stop and the lost answer.

**The workers.** Every operator that writes the registry maps a `Sane` pool
to a `Sane` pool, and `Keeps` the place of any running worker; `Finish` is the
exception, and it spends the one restart. `NextStep` lifts this to the
actions.

**The catalogue cache.** What makes it safe is who may still touch an entry:
the fetch that is to release its lock (`FetchesHold`, `LocksAreHeld`) and the
reader that waits for that fetch (`ReaderOwns`). An entry a user no longer sees
is not given to another while any of them is left, so a late answer cannot
reach an entry made after a connect. `AnswersAreCurrent` adds the stored
answers: what a read hands over is what its entry holds, and only a connect
with an answer on its way makes one old.

**The gateway.** Every operator on the memory keeps it `Sound` (typed, and
without a live answer while offline), and all but the switch routes are `Kept`:
they leave the robot's switch alone. `StepSound` needs of a step only that it
takes a sound memory to a sound one and says what it did to switch, row and
wish.

**The sessions of the service.** Three layers, each needing the one below.
`Control` says which request holds which lock (`UserLocks`, `ProcessLock`), and
that a request of a user who left is about to give up (`LeftIsIdle`); it holds
in every environment, late logins and late fetches included, and `LeftStaysOut`
is part of it. `Ownership` says whose SSID and account is in the globals, the
sessions, the rows and the orders. A listed session is always its user's
(`OwnersMatch`); the rest (`EverythingIsOwn`) holds when no thread of the
library outlives its request (`ThreadsReturn`). It rests on `ThreadsInside`: a
login or a fetch, with the reconnection the fetch may make by itself, runs only
inside the context of the request that waits for it. `Sockets` says, when the
environment is `Tidy`, which request or list entry holds each session that
works, that is, whose login is over and whose socket is open
(`SocketsAreHeld`): it is the listed one of its user or the one the holder of
the user's lock is making. Besides `Ownership` it needs that such a session has
its flag set (`OpenIsFlagged`), because `Alive` trusts the flag and a
reconnection closes only the socket of a session that is not alive. The sockets
that failed logins leave behind are not in it: nothing in the code closes them.

All steps of requests have one shape (`Turn`: the request moves on, the locks
follow, nobody else's entry or row is touched) and all steps of websockets and
library threads another (`Beneath`: one client changes, the service's own state
stays), so most of a layer is proved once per shape. `BullexSessionsProofs` has
the layers and the steps of the library, `BullexRequestsProofs` those of the
requests and the theorems.

**Only model-checked**, on the bounds above:

- the liveness properties (`OperationReleased`, `RobotKeepsLooking`,
  `StoppedRobotLosesItsWorkers`, `EveryRequestEnds`, `LocksAreReleased`,
  `LossStopsRobot`, `RobotGoesOn`): TLAPS has neither fairness nor ENABLED;
- which of the four documented rules the code breaks: the runs that expect a
  violation show a counterexample, and there is nothing to prove.

Every invariant and every safety action property that a passing run checks is
the subject of a theorem.

## 5. Not modelled

- The signal engine: floating-point arithmetic over candles, without state. The
  cycle depends only on whether a candidate comes out.
- Passwords, tokens and presence of the user store: CRUD; nothing of the robot
  depends on it. Its connection row is in `GatewaySession`.
- The websocket broadcast and read-only routes: no state of the robot changes.
- The cache and the cooldowns of candles, payouts and order results: market
  data per asset; they change no switch and no trade.
- `persist_robot` that fails: it logs and goes on, and the row is then the one
  of the save before; the SQL, the settings columns and the circuit that
  disables Supabase.
- The monitor of a trade that is open when the process restarts: the code
  starts none, and no document promises one.
- `should_throttle_session_status` renews its time at every throttled read
  (`backend/main.py:983`): polls less than 10 s apart for ever would keep
  answering from the cache. The reads are in `GatewaySession`; no property asks
  that a throttled status is renewed.
- `read_restored_session_status`: no route reaches it.
- `bullexapi`: of the vendored library, the login, the globals, the websocket
  callbacks, the profile, the catalogue and the reconnections its calls make by
  themselves are modelled, as far as the service uses them; the other calls are
  not used, and the broker is an environment. Not modelled: the write flag
  `ssl_Mutual_exclusion_write` (`api.py:280`): a send that raises leaves it set,
  and later sends wait 5 s for it and raise.
- Inside AutoTrader: narration, metrics, candidate lists and the simulated
  analysis the cycle never calls.
- What the service's market calls return: candles, assets and payouts are one
  kind of request of `BullexSessions` (`market`), whose fetch may outlive its
  reader and reconnect by itself, and the data that come back are not told
  apart; the stored answers of `/candles` and `/payouts` are left out (that of
  `/assets` is in `InstrumentsCache`). The result route runs in the frame of
  `run` like the other calls and only reads what the websocket has left.
- Several users of the gateway: no variable of the gateway's robot is shared
  between users. In the service they share the library: `BullexSessions`.

## 6. Plan

Done, the most important behaviour first: the models of `AutoTrader`,
`RobotCycle`, `RobotWorker`, `BullexSessions`, `InstrumentsCache` and
`GatewaySession`, the refinement of `OrderLedger`, and for each of them the
inductive invariant with the safety properties that follow. Left:

1. The failed save: a row that lags behind the memory, and what a restart makes
   of it.
2. What the model of each component leaves out and its notes name: the cached
   response and the exception path of the monitor, the throttle of the session
   status as a liveness property.
