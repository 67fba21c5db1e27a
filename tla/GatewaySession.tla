--------------------------- MODULE GatewaySession ---------------------------
(***************************************************************************)
(* What the gateway (backend/main.py) believes of one user's session at    *)
(* the broker, and what it lets the robot do with that belief: the cached  *)
(* answers of /sessions/status and /account, the backoff after failures,   *)
(* the connection fields of the robot, its worker, the rows that survive   *)
(* a restart, and every route that reads or writes them.                   *)
(*                                                                         *)
(* The process is one asyncio loop: a route runs without interruption from *)
(* one await to the next, and each action is such a segment.  What a route *)
(* awaits is a call of bullex_service (bullex_service/main.py): it serves  *)
(* the call at some time, from the session it has then or from the last    *)
(* answer it kept, and the gateway gets the answer at some later time.     *)
(* Time is counted in ticks; every timer holds the ticks it has left.      *)
(*                                                                         *)
(* The robot's trading state is in RobotCycle: here it is on or off, and a *)
(* cycle is the worker's read of the connection before it analyses.  The   *)
(* account has a positive balance above the entry value.                   *)
(***************************************************************************)
EXTENDS Integers, FiniteSets

CONSTANTS
  Requests,      \* dashboard requests under way at once
  Worker,        \* the actor of the worker's cycle
  StatusTTL,     \* SESSION_CACHE_TTL_SECONDS, SESSION_STATUS_THROTTLE_SECONDS: 10 s
  AccountTTL,    \* ACCOUNT_CACHE_TTL_SECONDS: 15 s
  FreshTTL,      \* ROBOT_SESSION_REFRESH_SECONDS: 15 s
  GraceTTL,      \* CONNECTION_GRACE_SECONDS: 30 s
  OfflineTTL,    \* SESSION_OFFLINE_TTL_SECONDS: 60 s
  SeenTTL,       \* ACTIVE_USER_TTL_SECONDS, ROBOT_VALID_CACHE_SECONDS: 300 s
  CallTTL,       \* BULLEX_UPSTREAM_TIMEOUT_SECONDS: 5 s
  Environments   \* bound: what may happen in a run, see env

ASSUME TimersAssumption ==
  /\ {StatusTTL, AccountTTL, FreshTTL, GraceTTL, OfflineTTL, SeenTTL} \subseteq Nat \ {0}
  /\ CallTTL \in Nat /\ CallTTL < StatusTTL + 1
  /\ StatusTTL <= AccountTTL /\ StatusTTL <= OfflineTTL
  /\ GraceTTL <= OfflineTTL /\ OfflineTTL <= SeenTTL
ASSUME WorkerAssumption == Worker \notin Requests

VARIABLES
  gw,        \* the memory of the gateway process that concerns the user
  row,       \* robot_states: what survives the process
  session,   \* what the service has: "real", "practice" or "out"
  responses, \* the answers the service kept: responses of its probe state
  req,       \* the requests under way, and the worker's cycle
  wish,      \* the last start, stop, connect or disconnect that was carried out
  env        \* bound: the routes, answers and events of this behaviour, whether
             \* the user store is the one in memory and whether the service
             \* keeps its answers

vars == <<gw, row, session, responses, req, wish, env>>

Actors == Requests \cup {Worker}
Paths == {"status", "account"}
Live == {"real", "practice"}
Heard == Live \cup {"out", "none"}
Modes == {"REAL", "PRACTICE", "none"}
Statuses == {"waiting", "recovery", "locked", "stopped", "disconnected", "not_real"}
Wishes == {"none", "start", "stop", "connect", "disconnect"}

ModeOf(p) == CASE p = "real" -> "REAL" [] p = "practice" -> "PRACTICE" [] OTHER -> "none"
TTL(p) == IF p = "status" THEN StatusTTL ELSE AccountTTL
Old == SeenTTL + 1      \* an age past every limit, or no time at all
Gone == -1              \* active_users has no entry

\* BullexUserSessionCache, active_users, the robot's connection, robot_tasks
\* and the user's connection row of the user store
Gateway ==
  [resp : [Paths -> Heard], left : [Paths -> 0..AccountTTL], last : [Paths -> Live \cup {"none"}],
   retry : 0..OfflineTTL, offline : 0..OfflineTTL, asked : 0..StatusTTL, seen : Gone..SeenTTL,
   on : BOOLEAN, connected : BOOLEAN, mode : Modes, fails : 0..3, grace : 0..GraceTTL,
   age : 0..Old, status : Statuses, worker : BOOLEAN,
   store : [connected : BOOLEAN, mode : Modes, balance : BOOLEAN]]

NewGateway ==
  [resp |-> [p \in Paths |-> "none"], left |-> [p \in Paths |-> 0], last |-> [p \in Paths |-> "none"],
   retry |-> 0, offline |-> 0, asked |-> 0, seen |-> Gone,
   on |-> FALSE, connected |-> FALSE, mode |-> "none", fails |-> 0, grace |-> 0,
   age |-> Old, status |-> "stopped", worker |-> FALSE,
   store |-> [connected |-> FALSE, mode |-> "none", balance |-> FALSE]]

Routes == {"status", "account", "sync", "start", "cycle", "connect", "disconnect", "reconnect"}
Answers == Live \cup {"out", "refused", "fail", "done"}
Request ==
  [route : Routes \cup {"none"},
   pc : {"idle", "probe", "account", "contract", "refresh", "post", "closing", "passed"},
   ans : Answers \cup {"none"}, conn : BOOLEAN, mode : Modes, wait : 0..OfflineTTL]
Idle ==
  [route |-> "none", pc |-> "idle", ans |-> "none", conn |-> FALSE, mode |-> "none", wait |-> 0]
Calling(q) == q.pc \in {"probe", "account", "contract", "refresh", "post"}

Row == [on : BOOLEAN, status : Statuses, fails : 0..3, grace : 0..GraceTTL]

Environment ==
  [requests : SUBSET Requests, routes : SUBSET (Routes \cup {"state", "stop"}),
   answers : SUBSET Answers, events : SUBSET {"drop", "practice", "restore", "restart"},
   memory : BOOLEAN, keeps : BOOLEAN]
ASSUME EnvironmentsAssumption == Environments \subseteq Environment

NoResponses == [p \in Paths |-> "none"]

\* Only the sync route asks for the balance: elsewhere the row has it already.
Init ==
  /\ env \in Environments
  /\ gw = [NewGateway EXCEPT !.store.balance = "sync" \notin env.routes]
  /\ row = [on |-> FALSE, status |-> "stopped", fails |-> 0, grace |-> 0]
  /\ session \in {"real", "out"}
  /\ responses = NoResponses
  /\ req = [r \in Actors |-> Idle]
  /\ wish = "none"

-----------------------------------------------------------------------------
(* Who is active, what is cached                                           *)

\* A mutant of MarkUserActive: one tick too long.
MarkUserActiveLong(g) == [g EXCEPT !.seen = SeenTTL + 1]

MarkUserActive(g) == [g EXCEPT !.seen = SeenTTL]

\* is_user_active, and the entry it drops once it has expired.  Without an
\* entry a robot that is on and has a worker counts as active.
IsUserActive(g) == g.seen > 0 \/ (g.seen = Gone /\ g.on /\ g.worker)
Looked(g) == IF g.seen = 0 THEN [g EXCEPT !.seen = Gone] ELSE g

\* cached_successful_response
Successful(g, p) ==
  IF g.last[p] # "none" THEN g.last[p] ELSE IF g.resp[p] \in Live THEN g.resp[p] ELSE "none"

\* cacheable_success: both caches take the answer.
Cached(g, p, ans) ==
  [g EXCEPT !.resp[p] = ans, !.left[p] = TTL(p), !.last[p] = ans]

\* get_cached_account_snapshot: the cached account, or the user store when it
\* is the one in memory
Snapshot(g) ==
  IF Successful(g, "account") # "none"
  THEN [connected |-> TRUE, mode |-> ModeOf(Successful(g, "account"))]
  ELSE IF env.memory THEN [connected |-> g.store.connected, mode |-> g.store.mode]
  ELSE [connected |-> FALSE, mode |-> "none"]

\* sync_user_store_from_payload, for an account; a status tells no balance.
Stored(g, p) ==
  CASE p \in Live -> [g EXCEPT !.store = [connected |-> TRUE, mode |-> ModeOf(p), balance |-> TRUE]]
    [] p \in {"out", "backoff"} -> [g EXCEPT !.store.connected = FALSE]
    [] OTHER -> g
StatusStored(g, p) == [Stored(g, p) EXCEPT !.store.balance = g.store.balance]

-----------------------------------------------------------------------------
(* The robot's connection fields: AutoTrader                               *)

\* sync_connection with connected=True, and with connected=False
SyncOn(g, mode, align) ==
  [g EXCEPT !.connected = TRUE, !.mode = mode, !.age = 0, !.fails = 0, !.grace = GraceTTL,
            !.status = IF align THEN (IF g.on THEN "waiting" ELSE "stopped") ELSE @]
SyncOff(g, mode) ==
  [g EXCEPT !.connected = FALSE, !.mode = mode, !.age = 0,
            !.fails = IF @ < 3 THEN @ + 1 ELSE 3]

DeferCycle(g, status) == [g EXCEPT !.status = status]

\* disconnect_account leaves last_connected_at, and with it the grace.
DisconnectAccount(g) ==
  [g EXCEPT !.on = FALSE, !.connected = FALSE, !.mode = "none", !.age = 0, !.status = "disconnected"]

RequireRealMode(g) == [g EXCEPT !.on = FALSE, !.status = "not_real"]

\* get_user_robot_state: an unknown mode becomes REAL.
UserRobotState(g) == IF g.mode = "none" THEN [g EXCEPT !.mode = "REAL"] ELSE g

FreshConnection(g) == g.age <= FreshTTL

\* robot_has_recent_real_cache
RecentRealCache(g) ==
  g.connected /\ g.mode = "REAL" /\ g.age < Old /\ Snapshot(g).mode # "none"

-----------------------------------------------------------------------------
(* Failures and backoff                                                    *)

\* clear_session_backoff
ClearBackoff(g) ==
  [g EXCEPT !.retry = 0, !.offline = 0,
            !.status = IF @ = "recovery" /\ g.on THEN "waiting" ELSE @]

\* A mutant of Forgotten: the account keeps its last answer.
ForgottenHalf(g) ==
  [g EXCEPT !.resp = [p \in Paths |-> "out"], !.left = [p \in Paths |-> TTL(p)],
            !.last["status"] = "none"]

\* Offline: every cached answer says disconnected.
Forgotten(g) ==
  [g EXCEPT !.resp = [p \in Paths |-> "out"], !.left = [p \in Paths |-> TTL(p)],
            !.last = [p \in Paths |-> "none"]]

\* mark_session_failure
MarkFailure(g, offline) ==
  IF ~IsUserActive(g) THEN Looked(g)
  ELSE IF offline
       THEN [Forgotten(DeferCycle(g, "recovery")) EXCEPT !.offline = OfflineTTL, !.retry = OfflineTTL]
       ELSE [DeferCycle(g, "recovery") EXCEPT !.retry = OfflineTTL]

\* connection_guard_reason
Guarded(g) == g.offline > 0 \/ g.retry > 0

\* recent_real_account_connection_payload
RecentAccount(g) == g.left["account"] > 0 /\ g.resp["account"] = "real"

\* temporary_upstream_response: what a call that failed leaves and answers.
\* The next attempt waits 10 s, also within a backoff of 60 s.
Unanswered(g, p) ==
  IF p = "status" /\ RecentAccount(g) THEN SyncOn(ClearBackoff(g), "REAL", TRUE)
  ELSE IF ~IsUserActive(g) THEN Looked(g)
  ELSE [g EXCEPT !.retry = StatusTTL]
Fallback(g, p) ==
  IF p = "status" /\ RecentAccount(g) THEN "real"
  ELSE IF Successful(g, p) # "none" THEN Successful(g, p)
  ELSE IF IsUserActive(g) THEN "fail" ELSE "out"

-----------------------------------------------------------------------------
(* call_bullex_service, for a GET of status or account                     *)

Throttled(g, p) == p = "status" /\ g.asked > 0 /\ g.resp[p] # "none"

\* What is answered without a call, or "ask".
Reply(g, p) ==
  LET known == Successful(g, p)
  IN IF g.left[p] > 0 THEN g.resp[p]
     ELSE IF ~IsUserActive(g) THEN (IF known # "none" THEN known ELSE "out")
     ELSE IF Throttled(g, p) THEN g.resp[p]
     ELSE IF ~Guarded(g) THEN "ask"
     ELSE IF known # "none" THEN known
     ELSE IF g.resp[p] # "none" THEN g.resp[p] ELSE "backoff"

\* The memory after that: should_throttle_session_status renews its time at
\* every read that misses the cache.
Noted(g, p) ==
  IF g.left[p] > 0 THEN g
  ELSE IF ~IsUserActive(g) THEN Looked(g)
  ELSE IF p = "status" THEN [g EXCEPT !.asked = StatusTTL] ELSE g

\* The memory after the service's answer, and the payload the caller gets.
Answered(g, p, ans) ==
  CASE ans = "fail" -> Unanswered(g, p)
    [] ans \in Live -> ClearBackoff(Cached(g, p, ans))
    [] ans = "out" -> MarkFailure(g, TRUE)
    [] ans = "refused" -> MarkFailure(g, FALSE)
Payload(g, p, ans) == IF ans = "fail" THEN Fallback(g, p) ELSE ans

-----------------------------------------------------------------------------
(* The worker                                                              *)

\* ensure_robot_worker
EnsureWorker(g) ==
  LET h == Looked(g)
  IN IF /\ IsUserActive(g) /\ g.on /\ g.connected /\ g.mode # "none"
        /\ ~Guarded(g) \/ RecentRealCache(g)
     THEN [h EXCEPT !.worker = TRUE] ELSE h

\* stop_robot_worker
StopWorker(g) == [g EXCEPT !.worker = FALSE]

\* auto_trader.start, then the worker
Started(g) == EnsureWorker([g EXCEPT !.on = TRUE, !.status = "waiting"])

\* What persist_robot writes of it.
RowOf(g) == [on |-> g.on, status |-> g.status, fails |-> g.fails, grace |-> g.grace]

\* A step of actor r that leaves the memory g and the request q.  Stopping the
\* worker cancels its cycle, whose finally clause persists the robot.
Step(r, g, q, persists) ==
  LET cancels == r # Worker /\ gw.worker /\ ~g.worker /\ req[Worker] # Idle
  IN /\ gw' = g
     /\ req' = [a \in Actors |-> IF a = r THEN q ELSE IF a = Worker /\ cancels THEN Idle ELSE req[a]]
     /\ row' = IF persists \/ cancels THEN RowOf(g) ELSE row
     /\ UNCHANGED <<responses, env>>

Returns(r, g) == Step(r, g, Idle, FALSE) /\ UNCHANGED wish
ReturnsSaved(r, g) == Step(r, g, Idle, TRUE) /\ UNCHANGED wish
Awaits(r, g, route, pc, conn, mode) ==
  /\ Step(r, g, [Idle EXCEPT !.route = route, !.pc = pc, !.conn = conn, !.mode = mode], FALSE)
  /\ UNCHANGED wish

\* A mutant of Blocked: nothing is persisted.
BlockedUnsaved(r, g) == Returns(r, StopWorker(RequireRealMode(g)))

\* require_real_mode, persist_robot and stop_robot_worker
Blocked(r, g) == ReturnsSaved(r, StopWorker(RequireRealMode(g)))

\* Requests are alike: a free one is as good as any other.
Begins(r, route) ==
  /\ r \in env.requests /\ route \in env.routes
  /\ req[r] = Idle
  /\ r = CHOOSE q \in env.requests : req[q] = Idle
  /\ UNCHANGED session

Resumes(r, route, pc) ==
  /\ req[r].route = route /\ req[r].pc = pc /\ req[r].ans # "none"
  /\ UNCHANGED session

-----------------------------------------------------------------------------
(* GET /bullex/status, GET /bullex/account                                 *)

\* memory_account_fallback: the robot's connection, or the snapshot's
Fallen(g) ==
  [connected |-> g.connected \/ Snapshot(g).connected,
   mode |-> IF g.mode # "none" THEN g.mode ELSE Snapshot(g).mode]

StatusAnswers(r, g, p) ==
  CASE p = "real" -> Returns(r, SyncOn(g, "REAL", TRUE))
    [] p = "practice" ->
         ReturnsSaved(r, [StopWorker(RequireRealMode(g)) EXCEPT !.connected = TRUE, !.mode = "PRACTICE"])
    [] OTHER -> Returns(r, g)

StatusBegins(r) ==
  /\ Begins(r, "status")
  /\ LET g == MarkUserActive(gw)
         p == Reply(g, "status")
     IN IF p = "ask" THEN Awaits(r, Noted(g, "status"), "status", "probe", FALSE, "none")
        ELSE StatusAnswers(r, Noted(g, "status"), p)

StatusReturns(r) ==
  /\ Resumes(r, "status", "probe")
  /\ StatusAnswers(r, Answered(gw, "status", req[r].ans), Payload(gw, "status", req[r].ans))

\* A mutant of AccountAnswers: a disconnected account is forgiven while the
\* robot remembers a REAL one.
AccountAnswersForgiving(r, g, p) ==
  IF p = "real" THEN Returns(r, SyncOn(Stored(g, p), "REAL", TRUE))
  ELSE IF p # "practice" /\ Fallen(g).mode = "REAL" THEN Returns(r, g)
  ELSE Blocked(r, g)

\* build_real_account_contract: a REAL balance, or the robot is stopped.
AccountAnswers(r, g, p) ==
  \/ /\ p = "real"
     /\ Returns(r, SyncOn(Stored(g, p), "REAL", TRUE))
  \/ /\ \/ p = "backoff"
        \/ p \in {"fail", "refused"} /\ Fallen(g).mode = "REAL" /\ Snapshot(g).mode # "none"
     /\ Returns(r, g)
  \/ /\ \/ p \in {"practice", "out"}
        \/ p \in {"fail", "refused"} /\ (Fallen(g).mode # "REAL" \/ Snapshot(g).mode = "none")
     /\ Blocked(r, g)

AccountBegins(r) ==
  /\ Begins(r, "account")
  /\ LET g == MarkUserActive(gw)
         p == Reply(g, "account")
     IN IF p = "ask" THEN Awaits(r, g, "account", "probe", FALSE, "none")
        ELSE AccountAnswers(r, g, p)

AccountReturns(r) ==
  /\ Resumes(r, "account", "probe")
  /\ AccountAnswers(r, Answered(gw, "account", req[r].ans), Payload(gw, "account", req[r].ans))

-----------------------------------------------------------------------------
(* The connection check of sync, start and the worker's cycle              *)

\* sync_robot_connection_from_payload: up to three failures are forgiven while
\* the grace lasts.
InGrace(g) == g.connected /\ g.fails < 3 /\ g.grace > 0
Synced(g, p) ==
  IF p \in Live THEN SyncOn(g, ModeOf(p), FALSE)
  ELSE IF InGrace(g) THEN [SyncOff(g, g.mode) EXCEPT !.connected = TRUE]
  ELSE SyncOff(g, "none")

\* POST /robot/sync-connection: persisted, then the account is read when the
\* connection row differs or has no balance (refresh_account_snapshot_if_needed).
SyncEnds(r, g, conn, mode) ==
  LET p == Reply(g, "account")
  IN IF ~conn \/ (g.store.connected /\ g.store.balance /\ mode \in {"none", g.store.mode})
     THEN ReturnsSaved(r, g)
     ELSE IF p # "ask" THEN ReturnsSaved(r, Stored(Noted(g, "account"), p))
     ELSE /\ Step(r, g, [Idle EXCEPT !.route = "sync", !.pc = "refresh"], TRUE)
          /\ UNCHANGED wish

\* The account has the last word before a start.
StartDecides(r, g, p) ==
  \/ /\ p = "real"
     /\ Step(r, Started(SyncOn(ClearBackoff(g), "REAL", TRUE)), Idle, TRUE)
     /\ wish' = "start"
  \/ p # "real" /\ Blocked(r, g)

StartValidates(r, g, conn, mode) ==
  LET p == Reply(g, "account")
  IN \/ /\ ~conn \/ mode = "none"
        /\ ReturnsSaved(r, StopWorker(DisconnectAccount(g)))
     \/ conn /\ mode = "PRACTICE" /\ Blocked(r, g)
     \/ /\ conn /\ mode = "REAL"
        /\ IF p = "ask" THEN Awaits(r, g, "start", "contract", FALSE, "none")
           ELSE StartDecides(r, Noted(g, "account"), p)

\* execute_robot_cycle after the check: a disconnected account switches the
\* robot off, the wrong mode locks it, and otherwise the cycle goes on.
CycleDecides(r, g, conn, mode) ==
  \/ (~conn \/ mode = "none") /\ ReturnsSaved(r, DisconnectAccount(g))
  \/ conn /\ mode = "PRACTICE" /\ ReturnsSaved(r, DeferCycle(g, "locked"))
  \/ conn /\ mode = "REAL" /\ Awaits(r, g, "cycle", "passed", FALSE, "none")

Decides(r, route, g, conn, mode) ==
  \/ route = "sync" /\ SyncEnds(r, g, conn, mode)
  \/ route = "start" /\ StartValidates(r, g, conn, mode)
  \/ route = "cycle" /\ CycleDecides(r, g, conn, mode)

\* reconcile_robot_connection_from_payload, once the account is known: it may
\* overrule the status, and the grace counts from the last connection.
Reconciles(r, route, g, p, conn, mode) ==
  IF p \in Live THEN Decides(r, route, SyncOn(Stored(g, p), ModeOf(p), TRUE), TRUE, ModeOf(p))
  ELSE IF g.fails = 3 /\ g.grace = 0
  THEN Decides(r, route, [DeferCycle(g, "recovery") EXCEPT !.connected = FALSE, !.mode = mode], FALSE, mode)
  ELSE IF ~conn /\ g.grace > 0
  THEN Decides(r, route, [g EXCEPT !.connected = TRUE], TRUE, IF g.mode # "none" THEN g.mode ELSE mode)
  ELSE Decides(r, route, g, conn, mode)

\* ... and before: a disconnected status asks the account.
Checks(r, route, g, p) ==
  LET h == Synced(g, p)
      q == Reply(h, "account")
      conn == InGrace(g)
      mode == h.mode
  IN IF p \in Live THEN Decides(r, route, StatusStored(h, p), TRUE, ModeOf(p))
     ELSE IF q = "ask" THEN Awaits(r, h, route, "account", conn, mode)
     ELSE Reconciles(r, route, Noted(h, "account"), q, conn, mode)

SyncBegins(r) ==
  /\ Begins(r, "sync")
  /\ LET g == UserRobotState(gw)
         p == Reply(g, "status")
     IN IF p = "ask" THEN Awaits(r, Noted(g, "status"), "sync", "probe", FALSE, "none")
        ELSE Checks(r, "sync", Noted(g, "status"), p)

\* POST /robot/start: a fresh connection is believed, or the service is asked
\* to restore the session, whatever is cached.
StartBegins(r) ==
  /\ Begins(r, "start")
  /\ LET g == UserRobotState(MarkUserActive(gw))
     IN IF FreshConnection(g) /\ g.connected
        THEN StartValidates(r, g, TRUE, g.mode)
        ELSE Awaits(r, g, "start", "probe", FALSE, "none")

\* The worker's cycle: refresh_entry_window reads the connection from the
\* robot while it is fresh, or REAL and not older than five minutes.
CycleBegins ==
  /\ gw.worker /\ gw.on /\ req[Worker] = Idle
  /\ gw.connected /\ gw.mode # "none" /\ ~Guarded(gw)
  /\ UNCHANGED session
  /\ LET p == Reply(gw, "status")
         own == IF gw.mode = "REAL" THEN "real" ELSE "practice"
     IN IF FreshConnection(gw) \/ RecentRealCache(gw)
        THEN Checks(Worker, "cycle", gw, own)
        ELSE IF p = "ask" THEN Awaits(Worker, Noted(gw, "status"), "cycle", "probe", FALSE, "none")
        ELSE Checks(Worker, "cycle", Noted(gw, "status"), p)

CheckReturns(r) ==
  \E route \in {"sync", "start", "cycle"} :
    \/ /\ Resumes(r, route, "probe")
       /\ Checks(r, route, Answered(gw, "status", req[r].ans), Payload(gw, "status", req[r].ans))
    \/ /\ Resumes(r, route, "account")
       /\ Reconciles(r, route, Answered(gw, "account", req[r].ans),
                     Payload(gw, "account", req[r].ans), req[r].conn, req[r].mode)

ContractReturns(r) ==
  /\ Resumes(r, "start", "contract")
  /\ StartDecides(r, Answered(gw, "account", req[r].ans), Payload(gw, "account", req[r].ans))

RefreshReturns(r) ==
  /\ Resumes(r, "sync", "refresh")
  /\ Returns(r, Stored(Answered(gw, "account", req[r].ans), Payload(gw, "account", req[r].ans)))

\* The rest of the cycle is RobotCycle's; it persists the robot.
CycleEnds ==
  /\ req[Worker].pc = "passed"
  /\ ReturnsSaved(Worker, gw)
  /\ UNCHANGED session

WorkerExits ==
  /\ gw.worker /\ ~gw.on /\ req[Worker] = Idle
  /\ Returns(Worker, StopWorker(gw))
  /\ UNCHANGED session

-----------------------------------------------------------------------------
(* GET /robot/state, POST /robot/stop                                      *)

\* A mutant of StatePoll: a robot without a worker is left without one.
StatePollOnly(r) ==
  /\ Begins(r, "state")
  /\ Returns(r, IF Fallen(gw).connected /\ Fallen(gw).mode = "REAL"
                THEN SyncOn(ClearBackoff(gw), "REAL", TRUE) ELSE gw)

\* The poll asks nobody: the robot's own connection, or the snapshot's, renews
\* itself and ends a backoff; an enabled robot gets its worker.
StatePoll(r) ==
  /\ Begins(r, "state")
  /\ LET g == Looked(gw)
         seen == Fallen(g)
         h == IF seen.connected /\ seen.mode = "REAL" THEN SyncOn(ClearBackoff(g), "REAL", TRUE) ELSE g
     IN Returns(r, IF h.on /\ ~h.worker /\ seen.connected /\ seen.mode = "REAL" THEN EnsureWorker(h) ELSE h)

\* A mutant of StopRequest: nothing is persisted.
StopRequestUnsaved(r) ==
  /\ Begins(r, "stop")
  /\ Step(r, [MarkUserActive(gw) EXCEPT !.on = FALSE, !.status = "stopped"], Idle, FALSE)
  /\ wish' = "stop"

StopRequest(r) ==
  /\ Begins(r, "stop")
  /\ Step(r, StopWorker([MarkUserActive(gw) EXCEPT !.on = FALSE, !.status = "stopped"]), Idle, TRUE)
  /\ wish' = "stop"

-----------------------------------------------------------------------------
(* POST /bullex/connect, /bullex/disconnect, /bullex/reconnect             *)

ConnectBegins(r) ==
  /\ Begins(r, "connect")
  /\ Awaits(r, ClearBackoff(MarkUserActive(gw)), "connect", "post", FALSE, "none")

ConnectReturns(r) ==
  /\ Resumes(r, "connect", "post")
  /\ \/ /\ req[r].ans = "real"
        /\ Step(r, SyncOn(Stored(gw, "real"), "REAL", TRUE), Idle, TRUE)
        /\ wish' = "connect"
     \/ req[r].ans = "practice" /\ Blocked(r, gw)
     \/ req[r].ans \in {"refused", "fail"} /\ Returns(r, gw)

ReconnectBegins(r) ==
  /\ Begins(r, "reconnect")
  /\ Awaits(r, ClearBackoff(gw), "reconnect", "post", FALSE, "none")

ReconnectReturns(r) ==
  /\ Resumes(r, "reconnect", "post")
  /\ Returns(r, Stored(gw, req[r].ans))

DisconnectBegins(r) ==
  /\ Begins(r, "disconnect")
  /\ Awaits(r, gw, "disconnect", "post", FALSE, "none")

\* The robot is switched off and its worker awaited; nothing is persisted.
DisconnectReturns(r) ==
  /\ Resumes(r, "disconnect", "post")
  /\ Step(r, StopWorker(DisconnectAccount(MarkFailure(gw, TRUE))),
          [Idle EXCEPT !.route = "disconnect", !.pc = "closing", !.ans = req[r].ans], FALSE)
  /\ wish' = "disconnect"

\* The user store follows once the worker and the websocket are closed.
DisconnectEnds(r) ==
  /\ Resumes(r, "disconnect", "closing")
  /\ Returns(r, IF req[r].ans = "done" THEN [gw EXCEPT !.store.connected = FALSE] ELSE gw)

-----------------------------------------------------------------------------
(* bullex_service                                                          *)

\* Bound: an event happens at most once.
Happens(event) ==
  /\ event \in env.events
  /\ env' = [env EXCEPT !.events = @ \ {event}]

Asks(r) == Calling(req[r]) /\ req[r].pc # "post" /\ req[r].ans = "none"

\* What the call of r reads: account_overview or session_status.
PathOf(r) == IF req[r].pc = "probe" /\ req[r].route # "account" THEN "status" ELSE "account"

AllOut == [p \in Paths |-> "out"]

\* _mark_probe_success and _mark_probe_failure; an account without a session
\* is answered disconnected and nothing is marked.
Marks(p) ==
  \/ ~env.keeps /\ UNCHANGED responses
  \/ env.keeps /\ session \in Live /\ responses' = [responses EXCEPT ![p] = session]
  \/ env.keeps /\ session = "out" /\ responses' = AllOut
  \/ env.keeps /\ session = "out" /\ p = "account" /\ responses[p] \notin Live /\ UNCHANGED responses

\* session_status, account_overview: a read is served from the session.
ServesRead(r) ==
  /\ Asks(r)
  /\ req' = [req EXCEPT ![r].ans = session]
  /\ Marks(PathOf(r))
  /\ UNCHANGED <<gw, row, session, wish, env>>

\* get_cached_probe, get_last_probe: it is served from the kept answer, which
\* may be of any age: the service drops a session from its list without marking
\* a failure (run), and then serves the last account it kept.
ServesKept(r) ==
  /\ Asks(r)
  /\ responses[PathOf(r)] \notin {"none", session}
  /\ req' = [req EXCEPT ![r].ans = responses[PathOf(r)]]
  /\ UNCHANGED <<gw, row, session, responses, wish, env>>

\* A call that fails may have found the session not alive.
FailsRead(r) ==
  /\ Asks(r)
  /\ \E ans \in env.answers \cap {"fail", "refused"} : req' = [req EXCEPT ![r].ans = ans]
  /\ UNCHANGED responses \/ (env.keeps /\ responses' = AllOut)
  /\ UNCHANGED <<gw, row, session, wish, env>>

\* restore_on_demand: a start may have the service restore a session it has
\* lost, but not one the user closed.
RestoresSession(r) ==
  /\ Asks(r) /\ req[r].route = "start" /\ req[r].pc = "probe"
  /\ Happens("restore") /\ session = "out" /\ wish # "disconnect"
  /\ session' = "real" /\ req' = [req EXCEPT ![r].ans = "real"]
  /\ responses' = IF env.keeps THEN [responses EXCEPT !["status"] = "real"] ELSE responses
  /\ UNCHANGED <<gw, row, wish>>

\* connect, disconnect and reconnect drop the kept answers; what follows keeps
\* the status of a login, or marks a failed reconnection.
Renews(r) ==
  \/ responses' = NoResponses
  \/ env.keeps /\ session' = "real" /\ responses' = [NoResponses EXCEPT !["status"] = "real"]
  \/ env.keeps /\ session' = "out" /\ req[r].route = "reconnect" /\ responses' = AllOut

\* A login is accepted, refused, or its answer is lost.
ServesPost(r) ==
  /\ req[r].pc = "post" /\ req[r].ans = "none"
  /\ \E ans \in env.answers \cup {IF req[r].route = "disconnect" THEN "done" ELSE "real"} :
       /\ IF req[r].route = "disconnect"
          THEN ans \in {"done", "fail"} /\ session' = "out"
          ELSE CASE ans = "real" -> session' = "real"
                 [] ans = "fail" -> session' \in {"out", "real"}
                 [] OTHER -> session' = "out"
       /\ req' = [req EXCEPT ![r].ans = ans]
  /\ Renews(r)
  /\ UNCHANGED <<gw, row, wish, env>>

-----------------------------------------------------------------------------
(* The broker, time and the process: external                              *)

\* The broker drops the session, or turns the account to PRACTICE.
SessionChanges ==
  /\ session = "real"
  /\ \/ Happens("drop") /\ session' = "out"
     \/ Happens("practice") /\ session' = "practice"
  /\ UNCHANGED <<gw, row, responses, req, wish>>

Less(n) == IF n > 0 THEN n - 1 ELSE n

\* No call outlives its timeout: BULLEX_CONNECT_TIMEOUT_SECONDS, 60 s, for a
\* login.
Tick ==
  /\ \A r \in Actors :
       Calling(req[r]) => req[r].wait < (IF req[r].pc = "post" THEN OfflineTTL ELSE CallTTL)
  /\ gw' = [gw EXCEPT !.left = [p \in Paths |-> Less(@[p])], !.retry = Less(@), !.offline = Less(@),
                      !.asked = Less(@), !.seen = Less(@), !.grace = Less(@),
                      !.age = IF @ < Old THEN @ + 1 ELSE Old]
  /\ row' = [row EXCEPT !.grace = Less(@)]
  /\ req' = [r \in Actors |-> IF Calling(req[r]) THEN [req[r] EXCEPT !.wait = @ + 1] ELSE req[r]]
  /\ UNCHANGED <<session, responses, wish, env>>

\* The process restarts: restore_robot_states takes every robot from its row,
\* disconnected and without a worker; the requests under way are lost.
Restart ==
  /\ Happens("restart")
  /\ gw' = [NewGateway EXCEPT
       !.on = row.on, !.mode = "REAL", !.fails = row.fails, !.grace = row.grace,
       !.status = IF row.on THEN "waiting" ELSE row.status,
       !.store = IF env.memory THEN @ ELSE gw.store]
  /\ req' = [r \in Actors |-> Idle]
  /\ UNCHANGED <<row, session, responses, wish>>

-----------------------------------------------------------------------------
AccountPolls == \E r \in Requests : AccountBegins(r)
StatePolls == \E r \in Requests : StatePoll(r)

RequestStep(r) ==
  \/ StatusReturns(r) \/ AccountReturns(r) \/ CheckReturns(r) \/ ContractReturns(r)
  \/ RefreshReturns(r) \/ ConnectReturns(r) \/ ReconnectReturns(r)
  \/ DisconnectReturns(r) \/ DisconnectEnds(r)

Serves(r) == ServesRead(r) \/ ServesPost(r)
Fails(r) == FailsRead(r) \/ RestoresSession(r)

Next ==
  \/ AccountPolls \/ StatePolls
  \/ \E r \in Requests :
       \/ StatusBegins(r) \/ SyncBegins(r) \/ StartBegins(r) \/ StopRequest(r)
       \/ ConnectBegins(r) \/ ReconnectBegins(r) \/ DisconnectBegins(r)
  \/ \E r \in Actors : RequestStep(r) \/ Serves(r) \/ ServesKept(r) \/ Fails(r)
  \/ CycleBegins \/ CycleEnds \/ WorkerExits
  \/ SessionChanges \/ Tick \/ Restart

Spec == Init /\ [][Next]_vars

\* Time passes, calls are served and the awaits of the routes end, and the
\* worker of a robot that may run goes on: it wakes again and again, and not
\* each time in a moment when the connection is being checked.
FairSpec ==
  /\ Spec
  /\ WF_vars(Tick) /\ \A r \in Actors : WF_vars(RequestStep(r) \/ Serves(r))
  /\ SF_vars(CycleBegins) /\ WF_vars(CycleEnds \/ WorkerExits)

\* The dashboard of the user polls the account and the robot.
PolledSpec == FairSpec /\ SF_vars(AccountPolls) /\ SF_vars(StatePolls)

-----------------------------------------------------------------------------
(* Properties                                                              *)

TypeOK ==
  /\ gw \in Gateway
  /\ row \in Row
  /\ session \in Live \cup {"out"}
  /\ responses \in [Paths -> Heard]
  /\ req \in [Actors -> Request]
  /\ wish \in Wishes
  /\ env \in Environment

\* While the session is marked offline no cached answer, fresh or last valid,
\* calls it connected, whatever answers were under way.
OfflineForgets ==
  gw.offline > 0 => \A p \in Paths : gw.last[p] = "none" /\ gw.resp[p] \notin Live

\* A stop is final: no answer under way, no poll and no restart of the process
\* switches the robot on again.
StoppedStaysOff == wish = "stop" => ~gw.on /\ ~row.on

\* From some time on the service answers every call, and from its session: it
\* keeps no answer that says otherwise.
Reachable == <>[][\A r \in Actors : ~FailsRead(r) /\ ~ServesKept(r)]_vars

\* Unless the user disconnected, the row says of the robot what the memory
\* says: a crash at any await neither revives a robot nor loses it.
SwitchIsPersisted == wish # "disconnect" => row.on = gw.on

\* A session that is lost, or left on PRACTICE, stops the robot for good, once
\* the service answers from that session and as long as the dashboard polls the
\* account: neither the cached answers of the gateway, nor the backoff, nor a
\* start, a restart of the process or an answer the service kept for a while
\* keeps it on.  A service that goes on serving the last account it kept does
\* keep it on (account_overview, bullex_service/main.py:1862).
LossStopsRobot == Reachable /\ <>[](session # "real") => <>[]~gw.on

\* A robot that is on trades again once the session is there for good, after
\* an outage as after a restart: its worker is there and passes the check of
\* the connection again and again, while the user does not fall inactive.
RobotGoesOn ==
  Reachable /\ <>[](session = "real" /\ gw.seen > 0)
  => []<>(gw.on => req[Worker].pc = "passed")
=============================================================================
