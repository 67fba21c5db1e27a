------------------------ MODULE GatewaySessionProofs ------------------------
(***************************************************************************)
(* The safety of the gateway's belief in a session, for any number of      *)
(* requests, any timers that fit together and any environment.             *)
(***************************************************************************)
EXTENDS GatewaySession, TLAPS

\* Only a login, logout or reconnect is answered "done".
ReadsAreAnswered ==
  \A r \in Actors : req[r].ans = "done" => req[r].pc \in {"post", "closing"}

\* The inductive invariant.
IInv ==
  /\ TypeOK
  /\ OfflineForgets
  /\ StoppedStaysOff
  /\ SwitchIsPersisted
  /\ ReadsAreAnswered

\* A memory that has its type and forgets while it is offline.
Sound(g) ==
  /\ g \in Gateway
  /\ g.offline > 0 => \A p \in Paths : g.last[p] = "none" /\ g.resp[p] \notin Live

\* h is such a memory, with the robot's switch as g has it.
Kept(g, h) == Sound(h) /\ h.on = g.on
-----------------------------------------------------------------------------
LEMMA Bounds ==
  /\ StatusTTL \in Nat \ {0} /\ AccountTTL \in Nat \ {0} /\ GraceTTL \in Nat \ {0}
  /\ OfflineTTL \in Nat \ {0} /\ SeenTTL \in Nat \ {0} /\ CallTTL \in Nat
  /\ CallTTL <= StatusTTL /\ StatusTTL <= AccountTTL /\ StatusTTL <= OfflineTTL
  /\ CallTTL <= OfflineTTL
  /\ Old \in Nat /\ Gone..SeenTTL \subseteq Int /\ SeenTTL \in Gone..SeenTTL
  /\ Gone \in Gone..SeenTTL /\ 0 \in Gone..SeenTTL /\ 0 \in 0..Old /\ Old \in 0..Old
  /\ StatusTTL \in 0..OfflineTTL /\ OfflineTTL \in 0..OfflineTTL
  /\ StatusTTL \in 0..StatusTTL /\ GraceTTL \in 0..GraceTTL
  /\ \A p \in Paths : TTL(p) \in 0..AccountTTL
BY TimersAssumption DEF Old, Gone, TTL, Paths

LEMMA ModeOfType == \A p : ModeOf(p) \in Modes
BY DEF ModeOf, Modes

LEMMA MarkUserActiveKept ==
  ASSUME NEW g, Sound(g)  PROVE Kept(g, MarkUserActive(g))
BY Bounds DEF Sound, Kept, MarkUserActive, Gateway

LEMMA LookedKept ==
  ASSUME NEW g, Sound(g)  PROVE Kept(g, Looked(g))
BY Bounds DEF Sound, Kept, Looked, Gateway

LEMMA DeferKept ==
  ASSUME NEW g, Sound(g), NEW s \in Statuses
  PROVE  Kept(g, DeferCycle(g, s))
BY DEF Sound, Kept, DeferCycle, Gateway

LEMMA SyncOnKept ==
  ASSUME NEW g, Sound(g), NEW m \in Modes, NEW a \in BOOLEAN
  PROVE  Kept(g, SyncOn(g, m, a))
<1>1. PICK st \in Statuses :
        st = IF a THEN (IF g.on THEN "waiting" ELSE "stopped") ELSE g.status
  BY DEF Sound, Gateway, Statuses
<1> DEFINE j == [g EXCEPT !.connected = TRUE, !.mode = m, !.age = 0, !.grace = GraceTTL]
           k == [j EXCEPT !.fails = 0]
           h == DeferCycle(k, st)
<1>2. SyncOn(g, m, a) = h
  BY <1>1 DEF SyncOn, DeferCycle
<1>3. Kept(g, j)
  BY Bounds DEF Sound, Kept, Gateway
<1>4. Kept(g, k)
  <2> HIDE DEF j
  <2> QED
    BY <1>3, Bounds DEF Sound, Kept, Gateway
<1>5. Kept(k, h)
  <2> HIDE DEF k
  <2> QED
    BY <1>1, <1>4, DeferKept DEF Kept
<1> QED
  BY <1>2, <1>4, <1>5 DEF Kept

LEMMA SyncOffKept ==
  ASSUME NEW g, Sound(g), NEW m \in Modes
  PROVE  Kept(g, SyncOff(g, m))
<1> DEFINE n == IF g.fails < 3 THEN g.fails + 1 ELSE 3
<1>1. n \in 0..3
  BY DEF Sound, Gateway
<1> DEFINE h == [g EXCEPT !.connected = FALSE, !.mode = m, !.age = 0, !.fails = n]
<1>2. SyncOff(g, m) = h
  BY DEF SyncOff
<1>3. Kept(g, h)
  <2> HIDE DEF n
  <2> QED
    BY <1>1, Bounds DEF Sound, Kept, Gateway
<1> QED
  BY <1>2, <1>3

LEMMA Cleared ==
  ASSUME NEW g \in Gateway
  PROVE  Kept(g, ClearBackoff(g))
<1>1. PICK st \in Statuses : st = IF g.status = "recovery" /\ g.on THEN "waiting" ELSE g.status
  BY DEF Gateway, Statuses
<1> DEFINE with(x) == [g EXCEPT !.retry = 0, !.offline = 0, !.status = x]
           h == with(st)
<1>2. ClearBackoff(g) = h
  BY <1>1 DEF ClearBackoff
<1>3. h \in Gateway
  <2>1. 0 \in 0..OfflineTTL
    BY Bounds
  <2>2. \A x \in Statuses : with(x) \in Gateway
    BY <2>1 DEF Gateway
  <2> HIDE DEF with
  <2> QED
    BY <2>2, <1>1
<1>4. h.on = g.on /\ h.offline = 0
  BY DEF Gateway
<1> QED
  BY <1>2, <1>3, <1>4 DEF Sound, Kept

LEMMA ClearKept ==
  ASSUME NEW g, Sound(g)  PROVE  Kept(g, ClearBackoff(g))
BY Cleared DEF Sound

\* ... and so does one that has just taken an answer of the service.
LEMMA CachedKept ==
  ASSUME NEW g, Sound(g), NEW p \in Paths, NEW ans \in Live
  PROVE  Kept(g, ClearBackoff(Cached(g, p, ans)))
<1>1. Cached(g, p, ans) \in Gateway /\ Cached(g, p, ans).on = g.on
  BY Bounds DEF Sound, Cached, Gateway, Heard
<1> QED
  BY <1>1, Cleared DEF Kept

LEMMA StoredKept ==
  ASSUME NEW g, Sound(g), NEW p  PROVE  Kept(g, Stored(g, p))
BY ModeOfType DEF Sound, Kept, Stored, Gateway, Statuses

LEMMA StatusStoredKept ==
  ASSUME NEW g, Sound(g), NEW p  PROVE  Kept(g, StatusStored(g, p))
BY StoredKept DEF Sound, Kept, StatusStored, Gateway, Statuses

LEMMA ForgottenKept ==
  ASSUME NEW g, Sound(g)
  PROVE  /\ Kept(g, Forgotten(g))
         /\ \A p \in Paths : Forgotten(g).last[p] = "none" /\ Forgotten(g).resp[p] \notin Live
BY Bounds DEF Sound, Kept, Forgotten, Gateway, Heard, Live

LEMMA FailureKept ==
  ASSUME NEW g, Sound(g), NEW offline \in BOOLEAN
  PROVE  Kept(g, MarkFailure(g, offline))
<1> DEFINE d == DeferCycle(g, "recovery")
<1>1. Kept(g, d)
  BY DeferKept DEF Statuses
<1>2. Kept(g, Looked(g))
  BY LookedKept
<1>3. Kept(g, [Forgotten(d) EXCEPT !.offline = OfflineTTL, !.retry = OfflineTTL])
  <2>1. /\ Kept(d, Forgotten(d))
        /\ \A p \in Paths : Forgotten(d).last[p] = "none" /\ Forgotten(d).resp[p] \notin Live
    BY <1>1, ForgottenKept DEF Kept
  <2> DEFINE f == Forgotten(d)
  <2>2. f.on = g.on /\ f \in Gateway
    BY <1>1, <2>1 DEF Kept, Sound
  <2> HIDE DEF d, f
  <2> QED
    BY <2>1, <2>2, Bounds DEF Kept, Sound, Gateway, f
<1>4. Kept(g, [d EXCEPT !.retry = OfflineTTL])
  BY <1>1, Bounds DEF Kept, Sound, Gateway
<1> QED
  BY <1>2, <1>3, <1>4 DEF MarkFailure

LEMMA UnansweredKept ==
  ASSUME NEW g, Sound(g), NEW p \in Paths
  PROVE  Kept(g, Unanswered(g, p))
<1>1. Kept(g, SyncOn(ClearBackoff(g), "REAL", TRUE))
  BY ClearKept, SyncOnKept DEF Kept, Modes
<1>2. Kept(g, Looked(g))
  BY LookedKept
<1>3. Kept(g, [g EXCEPT !.retry = StatusTTL])
  BY Bounds DEF Kept, Sound, Gateway
<1> QED
  BY <1>1, <1>2, <1>3 DEF Unanswered

LEMMA NotedKept ==
  ASSUME NEW g, Sound(g), NEW p \in Paths
  PROVE  Kept(g, Noted(g, p))
<1>1. Kept(g, Looked(g)) /\ Kept(g, g)
  BY LookedKept DEF Kept
<1>2. Kept(g, [g EXCEPT !.asked = StatusTTL])
  BY Bounds DEF Kept, Sound, Gateway
<1> QED
  BY <1>1, <1>2 DEF Noted

LEMMA AnsweredKept ==
  ASSUME NEW g, Sound(g), NEW p \in Paths, NEW ans \in Answers \ {"done"}
  PROVE  Kept(g, Answered(g, p, ans))
<1>1. CASE ans = "fail"
  BY <1>1, UnansweredKept DEF Answered, Live
<1>2. CASE ans \in Live
  BY <1>2, CachedKept DEF Answered, Live
<1>3. CASE ans = "out"
  BY <1>3, FailureKept DEF Answered, Live
<1>4. CASE ans = "refused"
  BY <1>4, FailureKept DEF Answered, Live
<1> QED
  BY <1>1, <1>2, <1>3, <1>4 DEF Answers

LEMMA EnsureKept ==
  ASSUME NEW g, Sound(g)  PROVE  Kept(g, EnsureWorker(g))
<1> DEFINE h == Looked(g)
<1>1. Kept(g, h)
  BY LookedKept
<1>2. Kept(g, [h EXCEPT !.worker = TRUE])
  BY <1>1 DEF Kept, Sound, Gateway
<1> QED
  BY <1>1, <1>2 DEF EnsureWorker

LEMMA StopWorkerKept ==
  ASSUME NEW g, Sound(g)  PROVE  Kept(g, StopWorker(g))
BY DEF Sound, Kept, StopWorker, Gateway

LEMMA UserRobotStateKept ==
  ASSUME NEW g, Sound(g)  PROVE  Kept(g, UserRobotState(g))
<1>1. Kept(g, [g EXCEPT !.mode = "REAL"]) /\ Kept(g, g)
  BY DEF Sound, Kept, Gateway, Modes
<1> QED
  BY <1>1 DEF UserRobotState

LEMMA SyncedKept ==
  ASSUME NEW g, Sound(g), NEW p
  PROVE  Kept(g, Synced(g, p))
<1> DEFINE h == SyncOff(g, g.mode)
<1>1. Kept(g, SyncOn(g, ModeOf(p), FALSE))
  BY SyncOnKept, ModeOfType
<1>2. Kept(g, h)
  BY SyncOffKept DEF Sound, Gateway
<1>3. Kept(g, [h EXCEPT !.connected = TRUE])
  BY <1>2 DEF Sound, Kept, Gateway
<1>4. Kept(g, SyncOff(g, "none"))
  BY SyncOffKept DEF Modes
<1> QED
  BY <1>1, <1>3, <1>4 DEF Synced

\* Three routes switch the robot off, one on.
LEMMA SwitchedOff ==
  ASSUME NEW g, Sound(g)
  PROVE  /\ Sound(DisconnectAccount(g)) /\ ~DisconnectAccount(g).on
         /\ Sound(RequireRealMode(g)) /\ ~RequireRealMode(g).on
BY Bounds DEF Sound, DisconnectAccount, RequireRealMode, Gateway, Modes, Statuses

LEMMA SwitchedOn ==
  ASSUME NEW g, Sound(g)  PROVE  Sound(Started(g))
<1>1. Sound([g EXCEPT !.on = TRUE, !.status = "waiting"])
  BY DEF Sound, Gateway, Statuses
<1> QED
  BY <1>1, EnsureKept DEF Kept, Started
-----------------------------------------------------------------------------
LEMMA RowType ==
  ASSUME NEW g, Sound(g)  PROVE  RowOf(g) \in Row /\ RowOf(g).on = g.on
BY DEF Sound, Gateway, RowOf, Row

\* A request that awaits, and one that has come to its end.
LEMMA RequestType ==
  /\ Idle \in Request /\ Idle.ans = "none"
  /\ 0 \in 0..OfflineTTL
<1>1. 0 \in 0..OfflineTTL
  BY Bounds
<1> QED
  BY <1>1 DEF Idle, Request, Modes

\* A step of an actor is safe when it leaves a sound memory and, unless it
\* persists the robot or disconnects, neither the switch nor the wish changes.
LEMMA StepSound ==
  ASSUME IInv, NEW r \in Actors, NEW g, Sound(g), NEW q \in Request,
         q.ans = "done" => q.pc \in {"post", "closing"},
         NEW persists \in BOOLEAN, Step(r, g, q, persists), UNCHANGED session,
         wish' \in Wishes, wish' = "stop" => ~g.on,
         ~persists => wish' = "disconnect" \/ (g.on = gw.on /\ wish' = wish)
  PROVE  IInv'
<1> DEFINE cancels == r # Worker /\ gw.worker /\ ~g.worker /\ req[Worker] # Idle
<1>1. /\ gw' = g /\ env' = env /\ responses' = responses
      /\ req' = [a \in Actors |-> IF a = r THEN q ELSE IF a = Worker /\ cancels THEN Idle ELSE req[a]]
      /\ row' = IF persists \/ cancels THEN RowOf(g) ELSE row
  BY DEF Step
<1> HIDE DEF cancels
<1>2. row' \in Row /\ row'.on = (IF persists \/ cancels THEN g.on ELSE row.on)
  BY <1>1, RowType DEF IInv, TypeOK
<1>3. req' \in [Actors -> Request]
  BY <1>1, RequestType DEF IInv, TypeOK
<1>4. TypeOK'
  BY <1>1, <1>2, <1>3 DEF IInv, TypeOK, Sound
<1>5. OfflineForgets'
  BY <1>1 DEF OfflineForgets, Sound
<1>6. StoppedStaysOff'
  BY <1>1, <1>2 DEF IInv, StoppedStaysOff
<1>7. SwitchIsPersisted'
  BY <1>1, <1>2 DEF IInv, SwitchIsPersisted
<1>8. ReadsAreAnswered'
  BY <1>1, RequestType DEF IInv, ReadsAreAnswered, TypeOK
<1> QED
  BY <1>4, <1>5, <1>6, <1>7, <1>8 DEF IInv

LEMMA ReturnsSound ==
  ASSUME IInv, NEW r \in Actors, NEW g, Kept(gw, g), Returns(r, g), UNCHANGED session
  PROVE  IInv'
<1>1. Sound(g) /\ g.on = gw.on
  BY DEF Kept
<1>2. Step(r, g, Idle, FALSE) /\ wish' = wish
  BY DEF Returns
<1>3. wish' \in Wishes /\ (wish' = "stop" => ~g.on)
  BY <1>1, <1>2 DEF IInv, TypeOK, StoppedStaysOff
<1> QED
  BY <1>1, <1>2, <1>3, RequestType, StepSound

LEMMA SavedSound ==
  ASSUME IInv, NEW r \in Actors, NEW g, Sound(g), g.on => gw.on, NEW q \in Request,
         q.ans = "none", Step(r, g, q, TRUE), UNCHANGED <<session, wish>>
  PROVE  IInv'
<1>1. wish' \in Wishes /\ (wish' = "stop" => ~g.on)
  BY DEF IInv, TypeOK, StoppedStaysOff
<1> QED
  BY <1>1, StepSound

LEMMA ReturnsSavedSound ==
  ASSUME IInv, NEW r \in Actors, NEW g, Sound(g), g.on => gw.on,
         ReturnsSaved(r, g), UNCHANGED session
  PROVE  IInv'
BY RequestType, SavedSound DEF ReturnsSaved

LEMMA BlockedSound ==
  ASSUME IInv, NEW r \in Actors, NEW g, Kept(gw, g), Blocked(r, g), UNCHANGED session
  PROVE  IInv'
<1>1. Sound(RequireRealMode(g)) /\ ~RequireRealMode(g).on
  BY SwitchedOff DEF Kept
<1>2. Kept(RequireRealMode(g), StopWorker(RequireRealMode(g)))
  BY <1>1, StopWorkerKept
<1> QED
  BY <1>1, <1>2, ReturnsSavedSound DEF Blocked, Kept

LEMMA AwaitsSound ==
  ASSUME IInv, NEW r \in Actors, NEW g, Kept(gw, g), NEW route \in Routes,
         NEW pc \in {"probe", "account", "contract", "refresh", "post", "closing", "passed"},
         NEW conn \in BOOLEAN, NEW mode \in Modes,
         Awaits(r, g, route, pc, conn, mode), UNCHANGED session
  PROVE  IInv'
<1> DEFINE q == [Idle EXCEPT !.route = route, !.pc = pc, !.conn = conn, !.mode = mode]
<1>1. q.ans = Idle.ans
  BY RequestType DEF Request
<1>2. q \in Request /\ q.ans = "none"
  BY <1>1, RequestType DEF Request
<1>3. Sound(g) /\ g.on = gw.on
  BY DEF Kept
<1>4. Step(r, g, q, FALSE) /\ wish' = wish
  BY DEF Awaits
<1> HIDE DEF q
<1>5. wish' \in Wishes /\ (wish' = "stop" => ~g.on)
  BY <1>3, <1>4 DEF IInv, TypeOK, StoppedStaysOff
<1> QED
  BY <1>2, <1>3, <1>4, <1>5, StepSound

LEMMA Onward ==
  ASSUME NEW f, NEW g, NEW h, Kept(f, g), Kept(g, h)  PROVE  Kept(f, h)
BY DEF Kept

\* The memory as the invariant has it.
LEMMA GatewaySound == ASSUME IInv PROVE Kept(gw, gw)
BY DEF IInv, TypeOK, OfflineForgets, Kept, Sound

\* An answer that a read awaited, and the memory once it has been heard.
LEMMA HeardKept ==
  ASSUME IInv, NEW r \in Actors, NEW p \in Paths, req[r].ans # "none",
         req[r].pc \in {"probe", "account", "contract", "refresh"}
  PROVE  Kept(gw, Answered(gw, p, req[r].ans))
<1>1. req[r].ans \in Answers \ {"done"}
  BY DEF IInv, TypeOK, ReadsAreAnswered, Request
<1> QED
  BY <1>1, GatewaySound, AnsweredKept DEF Kept

LEMMA StatusAnswersSound ==
  ASSUME IInv, NEW r \in Actors, NEW g, Kept(gw, g), NEW p, StatusAnswers(r, g, p), UNCHANGED session
  PROVE  IInv'
<1>1. CASE p = "real"
  <2>1. Kept(g, SyncOn(g, "REAL", TRUE))
    BY SyncOnKept DEF Kept, Modes
  <2>2. Returns(r, SyncOn(g, "REAL", TRUE))
    BY <1>1 DEF StatusAnswers
  <2> QED
    BY <2>1, <2>2, Onward, ReturnsSound
<1>2. CASE p = "practice"
  <2> DEFINE h == StopWorker(RequireRealMode(g))
             k == [h EXCEPT !.connected = TRUE, !.mode = "PRACTICE"]
  <2>1. Sound(h) /\ ~h.on
    BY SwitchedOff, StopWorkerKept DEF Kept
  <2>2. Sound(k) /\ ~k.on
    <3> HIDE DEF h
    <3> QED
      BY <2>1 DEF Sound, Gateway, Modes
  <2>3. ReturnsSaved(r, k)
    BY <1>2 DEF StatusAnswers
  <2> QED
    BY <2>2, <2>3, ReturnsSavedSound
<1>3. CASE p \notin {"real", "practice"}
  <2>1. Returns(r, g)
    BY <1>3 DEF StatusAnswers
  <2> QED
    BY <2>1, ReturnsSound
<1> QED
  BY <1>1, <1>2, <1>3

LEMMA AccountAnswersSound ==
  ASSUME IInv, NEW r \in Actors, NEW g, Kept(gw, g), NEW p, AccountAnswers(r, g, p), UNCHANGED session
  PROVE  IInv'
<1>1. Kept(g, Stored(g, p))
  BY StoredKept DEF Kept
<1>2. Kept(Stored(g, p), SyncOn(Stored(g, p), "REAL", TRUE))
  BY <1>1, SyncOnKept DEF Kept, Modes
<1>3. Kept(gw, SyncOn(Stored(g, p), "REAL", TRUE))
  BY <1>1, <1>2, Onward
<1> QED
  BY <1>3, ReturnsSound, BlockedSound DEF AccountAnswers

LEMMA SyncEndsSound ==
  ASSUME IInv, NEW r \in Actors, NEW g, Kept(gw, g), NEW conn, NEW mode,
         SyncEnds(r, g, conn, mode), UNCHANGED session
  PROVE  IInv'
<1> DEFINE h == Stored(Noted(g, "account"), Reply(g, "account"))
           q == [Idle EXCEPT !.route = "sync", !.pc = "refresh"]
<1>1. Kept(gw, h)
  BY NotedKept, StoredKept DEF Kept, Paths
<1>2. q.ans = Idle.ans
  BY RequestType DEF Request
<1>3. q \in Request /\ q.ans = "none"
  BY <1>2, RequestType DEF Request, Routes
<1>4. \/ ReturnsSaved(r, g)
      \/ ReturnsSaved(r, h)
      \/ Step(r, g, q, TRUE) /\ UNCHANGED wish
  BY DEF SyncEnds
<1> HIDE DEF h, q
<1> QED
  BY <1>1, <1>3, <1>4, ReturnsSavedSound, SavedSound DEF Kept

LEMMA StartDecidesSound ==
  ASSUME IInv, NEW r \in Actors, NEW g, Kept(gw, g), NEW p, StartDecides(r, g, p), UNCHANGED session
  PROVE  IInv'
<1>1. CASE p # "real" /\ Blocked(r, g)
  BY <1>1, BlockedSound
<1> DEFINE h == Started(SyncOn(ClearBackoff(g), "REAL", TRUE))
<1>2. CASE Step(r, h, Idle, TRUE) /\ wish' = "start"
  <2>1. Sound(SyncOn(ClearBackoff(g), "REAL", TRUE))
    BY ClearKept, SyncOnKept DEF Kept, Modes
  <2>2. Sound(h)
    BY <2>1, SwitchedOn
  <2> HIDE DEF h
  <2> QED
    BY <1>2, <2>2, RequestType, StepSound DEF Wishes
<1> QED
  BY <1>1, <1>2 DEF StartDecides

LEMMA StartValidatesSound ==
  ASSUME IInv, NEW r \in Actors, NEW g, Kept(gw, g), NEW conn, NEW mode,
         StartValidates(r, g, conn, mode), UNCHANGED session
  PROVE  IInv'
<1>1. CASE ReturnsSaved(r, StopWorker(DisconnectAccount(g)))
  <2>1. Sound(DisconnectAccount(g)) /\ ~DisconnectAccount(g).on
    BY SwitchedOff DEF Kept
  <2>2. Kept(DisconnectAccount(g), StopWorker(DisconnectAccount(g)))
    BY <2>1, StopWorkerKept
  <2> QED
    BY <1>1, <2>1, <2>2, ReturnsSavedSound DEF Kept
<1>2. CASE Blocked(r, g)
  BY <1>2, BlockedSound
<1>3. CASE Awaits(r, g, "start", "contract", FALSE, "none")
  BY <1>3, AwaitsSound DEF Routes, Modes
<1>4. CASE StartDecides(r, Noted(g, "account"), Reply(g, "account"))
  <2>1. Kept(gw, Noted(g, "account"))
    BY NotedKept DEF Kept, Paths
  <2> QED
    BY <1>4, <2>1, StartDecidesSound
<1> QED
  BY <1>1, <1>2, <1>3, <1>4 DEF StartValidates

LEMMA CycleDecidesSound ==
  ASSUME IInv, NEW r \in Actors, NEW g, Kept(gw, g), NEW conn, NEW mode,
         CycleDecides(r, g, conn, mode), UNCHANGED session
  PROVE  IInv'
<1>1. CASE ReturnsSaved(r, DisconnectAccount(g))
  BY <1>1, SwitchedOff, ReturnsSavedSound DEF Kept
<1>2. CASE ReturnsSaved(r, DeferCycle(g, "locked"))
  BY <1>2, DeferKept, ReturnsSavedSound DEF Kept, Statuses
<1>3. CASE Awaits(r, g, "cycle", "passed", FALSE, "none")
  BY <1>3, AwaitsSound DEF Routes, Modes
<1> QED
  BY <1>1, <1>2, <1>3 DEF CycleDecides

LEMMA DecidesSound ==
  ASSUME IInv, NEW r \in Actors, NEW g, Kept(gw, g), NEW route, NEW conn, NEW mode,
         Decides(r, route, g, conn, mode), UNCHANGED session
  PROVE  IInv'
BY SyncEndsSound, StartValidatesSound, CycleDecidesSound DEF Decides

LEMMA ReconcilesSound ==
  ASSUME IInv, NEW r \in Actors, NEW g, Kept(gw, g), NEW route, NEW p, NEW conn, NEW mode \in Modes,
         Reconciles(r, route, g, p, conn, mode), UNCHANGED session
  PROVE  IInv'
<1> DEFINE a == SyncOn(Stored(g, p), ModeOf(p), TRUE)
           d == DeferCycle(g, "recovery")
           b == [d EXCEPT !.connected = FALSE, !.mode = mode]
           c == [g EXCEPT !.connected = TRUE]
<1>1. Kept(gw, a)
  <2>1. Kept(g, Stored(g, p))
    BY StoredKept DEF Kept
  <2>2. Kept(Stored(g, p), SyncOn(Stored(g, p), ModeOf(p), TRUE))
    BY <2>1, SyncOnKept, ModeOfType DEF Kept
  <2> QED
    BY <2>1, <2>2, Onward
<1>2. Kept(gw, b)
  <2>1. Kept(gw, d)
    BY DeferKept DEF Kept, Statuses
  <2> HIDE DEF d
  <2> QED
    BY <2>1 DEF Kept, Sound, Gateway
<1>3. Kept(gw, c)
  BY DEF Kept, Sound, Gateway
<1>4. \/ Decides(r, route, a, TRUE, ModeOf(p))
      \/ Decides(r, route, b, FALSE, mode)
      \/ Decides(r, route, c, TRUE, IF g.mode # "none" THEN g.mode ELSE mode)
      \/ Decides(r, route, g, conn, mode)
  BY DEF Reconciles
<1> HIDE DEF a, b, c
<1> QED
  BY <1>1, <1>2, <1>3, <1>4, DecidesSound

LEMMA ChecksSound ==
  ASSUME IInv, NEW r \in Actors, NEW g, Kept(gw, g), NEW route \in Routes, NEW p,
         Checks(r, route, g, p), UNCHANGED session
  PROVE  IInv'
<1> DEFINE h == Synced(g, p)
           q == Reply(h, "account")
           conn == InGrace(g)
<1>1. Kept(gw, h) /\ h.mode \in Modes
  <2>1. Kept(g, h)
    BY SyncedKept DEF Kept
  <2> HIDE DEF h
  <2> QED
    BY <2>1 DEF Kept, Sound, Gateway
<1>2. conn \in BOOLEAN
  BY DEF InGrace, Kept, Sound, Gateway
<1>3. Kept(gw, StatusStored(h, p)) /\ Kept(gw, Noted(h, "account"))
  BY <1>1, StatusStoredKept, NotedKept DEF Kept, Paths
<1>4. \/ Decides(r, route, StatusStored(h, p), TRUE, ModeOf(p))
      \/ Awaits(r, h, route, "account", conn, h.mode)
      \/ Reconciles(r, route, Noted(h, "account"), q, conn, h.mode)
  BY DEF Checks
<1> HIDE DEF h, q, conn
<1> QED
  BY <1>1, <1>2, <1>3, <1>4, DecidesSound, AwaitsSound, ReconcilesSound
-----------------------------------------------------------------------------
(* One lemma for each action                                               *)

LEMMA RequestsAreActors == \A r \in Requests : r \in Actors
BY DEF Actors

LEMMA StatusBeginsSound == ASSUME IInv, NEW r \in Requests, StatusBegins(r) PROVE IInv'
<1> DEFINE g == Noted(MarkUserActive(gw), "status")
<1>1. Kept(gw, MarkUserActive(gw))
  BY GatewaySound, MarkUserActiveKept DEF Kept
<1>2. Kept(gw, g)
  BY <1>1, NotedKept DEF Kept, Paths
<1>3. \/ Awaits(r, g, "status", "probe", FALSE, "none")
      \/ StatusAnswers(r, g, Reply(MarkUserActive(gw), "status"))
  BY DEF StatusBegins
<1>4. UNCHANGED session
  BY DEF StatusBegins, Begins
<1> HIDE DEF g
<1> QED
  BY <1>2, <1>3, <1>4, RequestsAreActors, AwaitsSound, StatusAnswersSound DEF Routes, Modes

LEMMA StatusReturnsSound == ASSUME IInv, NEW r \in Actors, StatusReturns(r) PROVE IInv'
<1>1. Kept(gw, Answered(gw, "status", req[r].ans)) /\ UNCHANGED session
  BY HeardKept DEF StatusReturns, Resumes, Paths
<1> QED
  BY <1>1, StatusAnswersSound DEF StatusReturns

LEMMA AccountBeginsSound == ASSUME IInv, NEW r \in Requests, AccountBegins(r) PROVE IInv'
<1> DEFINE g == MarkUserActive(gw)
<1>1. Kept(gw, g)
  BY GatewaySound, MarkUserActiveKept DEF Kept
<1>2. \/ Awaits(r, g, "account", "probe", FALSE, "none")
      \/ AccountAnswers(r, g, Reply(g, "account"))
  BY DEF AccountBegins
<1>3. UNCHANGED session
  BY DEF AccountBegins, Begins
<1> HIDE DEF g
<1> QED
  BY <1>1, <1>2, <1>3, RequestsAreActors, AwaitsSound, AccountAnswersSound DEF Routes, Modes

LEMMA AccountReturnsSound == ASSUME IInv, NEW r \in Actors, AccountReturns(r) PROVE IInv'
<1>1. Kept(gw, Answered(gw, "account", req[r].ans)) /\ UNCHANGED session
  BY HeardKept DEF AccountReturns, Resumes, Paths
<1> QED
  BY <1>1, AccountAnswersSound DEF AccountReturns

LEMMA SyncBeginsSound == ASSUME IInv, NEW r \in Requests, SyncBegins(r) PROVE IInv'
<1> DEFINE g == Noted(UserRobotState(gw), "status")
<1>1. Kept(gw, UserRobotState(gw))
  BY GatewaySound, UserRobotStateKept DEF Kept
<1>2. Kept(gw, g)
  BY <1>1, NotedKept DEF Kept, Paths
<1>3. \/ Awaits(r, g, "sync", "probe", FALSE, "none")
      \/ Checks(r, "sync", g, Reply(UserRobotState(gw), "status"))
  BY DEF SyncBegins
<1>4. UNCHANGED session
  BY DEF SyncBegins, Begins
<1> HIDE DEF g
<1> QED
  BY <1>2, <1>3, <1>4, RequestsAreActors, AwaitsSound, ChecksSound DEF Routes, Modes

LEMMA StartBeginsSound == ASSUME IInv, NEW r \in Requests, StartBegins(r) PROVE IInv'
<1> DEFINE g == UserRobotState(MarkUserActive(gw))
<1>1. Kept(gw, MarkUserActive(gw))
  BY GatewaySound, MarkUserActiveKept DEF Kept
<1>2. Kept(gw, g)
  BY <1>1, UserRobotStateKept DEF Kept
<1>3. \/ Awaits(r, g, "start", "probe", FALSE, "none")
      \/ StartValidates(r, g, TRUE, g.mode)
  BY DEF StartBegins
<1>4. UNCHANGED session
  BY DEF StartBegins, Begins
<1> HIDE DEF g
<1> QED
  BY <1>2, <1>3, <1>4, RequestsAreActors, AwaitsSound, StartValidatesSound DEF Routes, Modes

LEMMA CycleBeginsSound == ASSUME IInv, CycleBegins PROVE IInv'
<1> DEFINE g == Noted(gw, "status")
           p == Reply(gw, "status")
           own == IF gw.mode = "REAL" THEN "real" ELSE "practice"
<1>1. Kept(gw, gw) /\ Kept(gw, g)
  BY GatewaySound, NotedKept DEF Kept, Paths
<1>2. \/ Checks(Worker, "cycle", gw, own)
      \/ Awaits(Worker, g, "cycle", "probe", FALSE, "none")
      \/ Checks(Worker, "cycle", g, p)
  BY DEF CycleBegins
<1>3. UNCHANGED session /\ Worker \in Actors
  BY DEF CycleBegins, Actors
<1> HIDE DEF g, p, own
<1> QED
  BY <1>1, <1>2, <1>3, AwaitsSound, ChecksSound DEF Routes, Modes

LEMMA CheckReturnsSound == ASSUME IInv, NEW r \in Actors, CheckReturns(r) PROVE IInv'
<1>1. PICK route \in {"sync", "start", "cycle"} :
        \/ /\ Resumes(r, route, "probe")
           /\ Checks(r, route, Answered(gw, "status", req[r].ans), Payload(gw, "status", req[r].ans))
        \/ /\ Resumes(r, route, "account")
           /\ Reconciles(r, route, Answered(gw, "account", req[r].ans),
                         Payload(gw, "account", req[r].ans), req[r].conn, req[r].mode)
  BY DEF CheckReturns
<1>2. CASE Resumes(r, route, "probe")
           /\ Checks(r, route, Answered(gw, "status", req[r].ans), Payload(gw, "status", req[r].ans))
  <2>1. Kept(gw, Answered(gw, "status", req[r].ans)) /\ UNCHANGED session
    BY <1>2, HeardKept DEF Resumes, Paths
  <2>2. route \in Routes
    BY DEF Routes
  <2> QED
    BY <1>2, <2>1, <2>2, ChecksSound
<1>3. CASE Resumes(r, route, "account")
           /\ Reconciles(r, route, Answered(gw, "account", req[r].ans),
                         Payload(gw, "account", req[r].ans), req[r].conn, req[r].mode)
  <2>1. Kept(gw, Answered(gw, "account", req[r].ans)) /\ UNCHANGED session
    BY <1>3, HeardKept DEF Resumes, Paths
  <2>2. req[r].mode \in Modes
    BY DEF IInv, TypeOK, Request
  <2> QED
    BY <1>3, <2>1, <2>2, ReconcilesSound
<1> QED
  BY <1>1, <1>2, <1>3

LEMMA ContractReturnsSound == ASSUME IInv, NEW r \in Actors, ContractReturns(r) PROVE IInv'
<1>1. Kept(gw, Answered(gw, "account", req[r].ans)) /\ UNCHANGED session
  BY HeardKept DEF ContractReturns, Resumes, Paths
<1> QED
  BY <1>1, StartDecidesSound DEF ContractReturns

LEMMA RefreshReturnsSound == ASSUME IInv, NEW r \in Actors, RefreshReturns(r) PROVE IInv'
<1> DEFINE g == Answered(gw, "account", req[r].ans)
<1>1. Kept(gw, g) /\ UNCHANGED session
  BY HeardKept DEF RefreshReturns, Resumes, Paths
<1>2. Kept(gw, Stored(g, Payload(gw, "account", req[r].ans)))
  BY <1>1, StoredKept DEF Kept
<1> QED
  BY <1>1, <1>2, ReturnsSound DEF RefreshReturns

LEMMA CycleEndsSound == ASSUME IInv, CycleEnds PROVE IInv'
BY GatewaySound, ReturnsSavedSound DEF CycleEnds, Kept, Actors

LEMMA WorkerExitsSound == ASSUME IInv, WorkerExits PROVE IInv'
BY GatewaySound, StopWorkerKept, ReturnsSound DEF WorkerExits, Kept, Actors

LEMMA StatePollSound == ASSUME IInv, NEW r \in Requests, StatePoll(r) PROVE IInv'
<1> DEFINE g == Looked(gw)
           seen == Fallen(g)
           h == IF seen.connected /\ seen.mode = "REAL" THEN SyncOn(ClearBackoff(g), "REAL", TRUE) ELSE g
           k == IF h.on /\ ~h.worker /\ seen.connected /\ seen.mode = "REAL" THEN EnsureWorker(h) ELSE h
<1>1. Kept(gw, g)
  BY GatewaySound, LookedKept DEF Kept
<1>2. Kept(gw, h)
  <2>1. Kept(gw, ClearBackoff(g))
    BY <1>1, ClearKept DEF Kept
  <2>2. Kept(gw, SyncOn(ClearBackoff(g), "REAL", TRUE))
    BY <2>1, SyncOnKept DEF Kept, Modes
  <2> QED
    BY <1>1, <2>2
<1>3. Kept(gw, k)
  <2> HIDE DEF h
  <2> QED
    BY <1>2, EnsureKept DEF Kept
<1>4. Returns(r, k) /\ UNCHANGED session
  BY DEF StatePoll, Begins
<1> HIDE DEF k
<1> QED
  BY <1>3, <1>4, RequestsAreActors, ReturnsSound

LEMMA StopRequestSound == ASSUME IInv, NEW r \in Requests, StopRequest(r) PROVE IInv'
<1> DEFINE h == [MarkUserActive(gw) EXCEPT !.on = FALSE, !.status = "stopped"]
<1>1. Kept(gw, MarkUserActive(gw))
  BY GatewaySound, MarkUserActiveKept DEF Kept
<1>2. Sound(h) /\ ~h.on
  BY <1>1 DEF Kept, Sound, Gateway, Statuses
<1>3. Step(r, StopWorker(h), Idle, TRUE) /\ wish' = "stop" /\ UNCHANGED session
  BY DEF StopRequest, Begins
<1> HIDE DEF h
<1>4. Sound(StopWorker(h)) /\ ~StopWorker(h).on
  BY <1>2, StopWorkerKept DEF Kept
<1> QED
  BY <1>3, <1>4, RequestsAreActors, RequestType, StepSound DEF Wishes

LEMMA ConnectBeginsSound == ASSUME IInv, NEW r \in Requests, ConnectBegins(r) PROVE IInv'
<1> DEFINE g == ClearBackoff(MarkUserActive(gw))
<1>1. Kept(gw, MarkUserActive(gw))
  BY GatewaySound, MarkUserActiveKept DEF Kept
<1>2. Kept(gw, g)
  BY <1>1, ClearKept DEF Kept
<1>3. Awaits(r, g, "connect", "post", FALSE, "none") /\ UNCHANGED session
  BY DEF ConnectBegins, Begins
<1> HIDE DEF g
<1> QED
  BY <1>2, <1>3, RequestsAreActors, AwaitsSound DEF Routes, Modes

LEMMA ConnectReturnsSound == ASSUME IInv, NEW r \in Actors, ConnectReturns(r) PROVE IInv'
<1> DEFINE g == SyncOn(Stored(gw, "real"), "REAL", TRUE)
<1>1. Kept(gw, Stored(gw, "real")) /\ Kept(gw, gw)
  BY GatewaySound, StoredKept DEF Kept
<1>2. Kept(gw, g)
  BY <1>1, SyncOnKept DEF Kept, Modes
<1>3. UNCHANGED session
  BY DEF ConnectReturns, Resumes
<1>4. CASE Step(r, g, Idle, TRUE) /\ wish' = "connect"
  <2> HIDE DEF g
  <2> QED
    BY <1>2, <1>3, <1>4, RequestType, StepSound DEF Kept, Wishes
<1>5. CASE Blocked(r, gw)
  BY <1>1, <1>3, <1>5, BlockedSound
<1>6. CASE Returns(r, gw)
  BY <1>1, <1>3, <1>6, ReturnsSound
<1> QED
  BY <1>4, <1>5, <1>6 DEF ConnectReturns

LEMMA ReconnectBeginsSound == ASSUME IInv, NEW r \in Requests, ReconnectBegins(r) PROVE IInv'
<1>1. Kept(gw, ClearBackoff(gw))
  BY GatewaySound, ClearKept DEF Kept
<1>2. Awaits(r, ClearBackoff(gw), "reconnect", "post", FALSE, "none") /\ UNCHANGED session
  BY DEF ReconnectBegins, Begins
<1> QED
  BY <1>1, <1>2, RequestsAreActors, AwaitsSound DEF Routes, Modes

LEMMA ReconnectReturnsSound == ASSUME IInv, NEW r \in Actors, ReconnectReturns(r) PROVE IInv'
<1>1. Kept(gw, Stored(gw, req[r].ans))
  BY GatewaySound, StoredKept DEF Kept
<1>2. Returns(r, Stored(gw, req[r].ans)) /\ UNCHANGED session
  BY DEF ReconnectReturns, Resumes
<1> QED
  BY <1>1, <1>2, ReturnsSound

LEMMA DisconnectBeginsSound == ASSUME IInv, NEW r \in Requests, DisconnectBegins(r) PROVE IInv'
<1>1. Awaits(r, gw, "disconnect", "post", FALSE, "none") /\ UNCHANGED session
  BY DEF DisconnectBegins, Begins
<1> QED
  BY <1>1, GatewaySound, RequestsAreActors, AwaitsSound DEF Routes, Modes

LEMMA DisconnectReturnsSound == ASSUME IInv, NEW r \in Actors, DisconnectReturns(r) PROVE IInv'
<1> DEFINE g == DisconnectAccount(MarkFailure(gw, TRUE))
           q == [Idle EXCEPT !.route = "disconnect", !.pc = "closing", !.ans = req[r].ans]
<1>1. Sound(MarkFailure(gw, TRUE))
  BY GatewaySound, FailureKept DEF Kept
<1>2. Sound(g) /\ ~g.on
  BY <1>1, SwitchedOff
<1>3. q \in Request /\ q.pc = "closing"
  BY RequestType DEF IInv, TypeOK, Request, Routes
<1>4. Step(r, StopWorker(g), q, FALSE) /\ wish' = "disconnect" /\ UNCHANGED session
  BY DEF DisconnectReturns, Resumes
<1> HIDE DEF g, q
<1>5. Sound(StopWorker(g))
  BY <1>2, StopWorkerKept DEF Kept
<1> QED
  BY <1>3, <1>4, <1>5, StepSound DEF Wishes

LEMMA DisconnectEndsSound == ASSUME IInv, NEW r \in Actors, DisconnectEnds(r) PROVE IInv'
<1>1. Kept(gw, gw) /\ Kept(gw, [gw EXCEPT !.store.connected = FALSE])
  BY GatewaySound DEF Kept, Sound, Gateway
<1> DEFINE g == IF req[r].ans = "done" THEN [gw EXCEPT !.store.connected = FALSE] ELSE gw
<1>2. Kept(gw, g)
  BY <1>1
<1>3. Returns(r, g) /\ UNCHANGED session
  BY DEF DisconnectEnds, Resumes
<1> HIDE DEF g
<1> QED
  BY <1>2, <1>3, ReturnsSound

\* The service answers a request, from the session it has or is left with.
LEMMA AnswerSound ==
  ASSUME IInv, NEW r \in Actors, NEW ans \in Answers, ans = "done" => req[r].pc = "post",
         req' = [req EXCEPT ![r].ans = ans], session' \in Live \cup {"out"}, env' \in Environment,
         responses' \in [Paths -> Heard], UNCHANGED <<gw, row, wish>>
  PROVE  IInv'
<1>1. req' \in [Actors -> Request]
  BY DEF IInv, TypeOK, Request
<1>2. TypeOK'
  BY <1>1 DEF IInv, TypeOK
<1>3. ReadsAreAnswered'
  BY DEF IInv, TypeOK, Request, ReadsAreAnswered
<1> QED
  BY <1>2, <1>3 DEF IInv, OfflineForgets, StoppedStaysOff, SwitchIsPersisted

LEMMA HappensType ==
  ASSUME IInv, NEW event, Happens(event)  PROVE  env' \in Environment
BY DEF IInv, TypeOK, Happens, Environment

\* What the service keeps of its answers has its type.
LEMMA ResponsesType ==
  ASSUME IInv
  PROVE  /\ responses \in [Paths -> Heard] /\ AllOut \in [Paths -> Heard]
         /\ NoResponses \in [Paths -> Heard]
         /\ \A p \in Paths : \A a \in Live : /\ [responses EXCEPT ![p] = a] \in [Paths -> Heard]
                                           /\ [NoResponses EXCEPT ![p] = a] \in [Paths -> Heard]
BY DEF IInv, TypeOK, AllOut, NoResponses, Heard

LEMMA ServesSound == ASSUME IInv, NEW r \in Actors, Serves(r) PROVE IInv'
<1>1. env' = env /\ env \in Environment /\ session \in Live \cup {"out"}
  BY DEF Serves, ServesRead, ServesPost, IInv, TypeOK
<1>2. CASE ServesRead(r)
  <2>1. session \in Answers /\ session # "done"
    BY <1>1 DEF Answers, Live
  <2>2. PathOf(r) \in Paths /\ Marks(PathOf(r))
    BY <1>2 DEF ServesRead, PathOf, Paths
  <2>3. responses' \in [Paths -> Heard]
    BY <2>2, ResponsesType DEF Marks
  <2>4. req' = [req EXCEPT ![r].ans = session] /\ UNCHANGED <<gw, row, session, wish>>
    BY <1>2 DEF ServesRead
  <2> QED
    BY <1>1, <2>1, <2>3, <2>4, AnswerSound
<1>3. CASE ServesPost(r)
  <2>1. PICK ans \in env.answers \cup {IF req[r].route = "disconnect" THEN "done" ELSE "real"} :
          /\ IF req[r].route = "disconnect"
             THEN ans \in {"done", "fail"} /\ session' = "out"
             ELSE CASE ans = "real" -> session' = "real"
                    [] ans = "fail" -> session' \in {"out", "real"}
                    [] OTHER -> session' = "out"
          /\ req' = [req EXCEPT ![r].ans = ans]
    BY <1>3 DEF ServesPost
  <2>2. ans \in Answers
    BY <1>1, <2>1 DEF Environment, Answers, Live
  <2>3. session' \in Live \cup {"out"}
    BY <2>1 DEF Live
  <2>4. req[r].pc = "post" /\ Renews(r) /\ UNCHANGED <<gw, row, wish>>
    BY <1>3 DEF ServesPost
  <2>5. responses' \in [Paths -> Heard]
    BY <2>4, ResponsesType DEF Renews, Paths, Live
  <2> QED
    BY <1>1, <2>1, <2>2, <2>3, <2>4, <2>5, AnswerSound
<1> QED
  BY <1>2, <1>3 DEF Serves

LEMMA ServesKeptSound == ASSUME IInv, NEW r \in Actors, ServesKept(r) PROVE IInv'
<1>1. /\ responses[PathOf(r)] \in Heard \ {"none"} /\ env \in Environment
      /\ session \in Live \cup {"out"}
  BY DEF ServesKept, PathOf, Paths, IInv, TypeOK
<1>2. responses[PathOf(r)] \in Answers /\ responses[PathOf(r)] # "done"
  BY <1>1 DEF Heard, Answers, Live
<1>3. req' = [req EXCEPT ![r].ans = responses[PathOf(r)]]
      /\ UNCHANGED <<gw, row, session, responses, wish, env>>
  BY DEF ServesKept
<1> QED
  BY <1>1, <1>2, <1>3, ResponsesType, AnswerSound

LEMMA FailsSound == ASSUME IInv, NEW r \in Actors, Fails(r) PROVE IInv'
<1>1. CASE FailsRead(r)
  <2>1. PICK ans \in env.answers \cap {"fail", "refused"} : req' = [req EXCEPT ![r].ans = ans]
    BY <1>1 DEF FailsRead
  <2>2. responses' \in {responses, AllOut} /\ UNCHANGED <<gw, row, session, wish, env>>
    BY <1>1 DEF FailsRead
  <2>3. session' \in Live \cup {"out"} /\ env' \in Environment /\ ans \in Answers /\ ans # "done"
    BY <2>1, <2>2 DEF IInv, TypeOK, Answers
  <2> QED
    BY <2>1, <2>2, <2>3, ResponsesType, AnswerSound
<1>2. CASE RestoresSession(r)
  <2>1. env' \in Environment /\ session' = "real" /\ req' = [req EXCEPT ![r].ans = "real"]
        /\ UNCHANGED <<gw, row, wish>>
    BY <1>2, HappensType DEF RestoresSession
  <2>2. responses' \in [Paths -> Heard]
    BY <1>2, ResponsesType DEF RestoresSession, Paths, Live
  <2> QED
    BY <2>1, <2>2, AnswerSound DEF Answers, Live
<1> QED
  BY <1>1, <1>2 DEF Fails

LEMMA SessionChangesSound == ASSUME IInv, SessionChanges PROVE IInv'
<1>1. env' \in Environment /\ session' \in Live \cup {"out"} /\ UNCHANGED <<gw, row, responses, req, wish>>
  BY HappensType DEF SessionChanges, Live
<1> QED
  BY <1>1 DEF IInv, TypeOK, OfflineForgets, StoppedStaysOff, SwitchIsPersisted, ReadsAreAnswered

\* Timers that run down leave the memory sound.
LEMMA TimersKept ==
  ASSUME NEW g, Sound(g), NEW l \in [Paths -> 0..AccountTTL], NEW re \in 0..OfflineTTL,
         NEW of \in 0..OfflineTTL, of > 0 => g.offline > 0, NEW as \in 0..StatusTTL,
         NEW se \in Gone..SeenTTL, NEW gr \in 0..GraceTTL, NEW ag \in 0..Old
  PROVE  Kept(g, [g EXCEPT !.left = l, !.retry = re, !.offline = of, !.asked = as,
                           !.seen = se, !.grace = gr, !.age = ag])
<1> DEFINE h == [g EXCEPT !.left = l, !.retry = re, !.offline = of, !.asked = as]
           k == [h EXCEPT !.seen = se, !.grace = gr, !.age = ag]
<1>1. Kept(g, h)
  BY DEF Sound, Kept, Gateway
<1>2. Kept(g, k)
  <2> HIDE DEF h
  <2> QED
    BY <1>1 DEF Sound, Kept, Gateway
<1> QED
  BY <1>2

LEMMA LessBounds ==
  /\ \A n \in Nat : \A i \in 0..n : Less(i) \in 0..n /\ (Less(i) > 0 => i > 0)
  /\ \A i \in Gone..SeenTTL : Less(i) \in Gone..SeenTTL
BY Bounds DEF Less, Gone

LEMMA TickSound == ASSUME IInv, Tick PROVE IInv'
<1> DEFINE l == [p \in Paths |-> Less(gw.left[p])]
           ag == IF gw.age < Old THEN gw.age + 1 ELSE Old
<1>1. gw \in Gateway /\ Sound(gw)
  BY GatewaySound DEF Kept, Sound
<1>2. /\ gw.left \in [Paths -> 0..AccountTTL] /\ gw.retry \in 0..OfflineTTL
      /\ gw.offline \in 0..OfflineTTL /\ gw.asked \in 0..StatusTTL /\ gw.seen \in Gone..SeenTTL
      /\ gw.grace \in 0..GraceTTL /\ gw.age \in 0..Old
  BY <1>1 DEF Gateway
<1>3. /\ Less(gw.retry) \in 0..OfflineTTL /\ Less(gw.offline) \in 0..OfflineTTL
      /\ Less(gw.offline) > 0 => gw.offline > 0
      /\ Less(gw.asked) \in 0..StatusTTL /\ Less(gw.seen) \in Gone..SeenTTL
      /\ Less(gw.grace) \in 0..GraceTTL
  BY <1>2, LessBounds, Bounds
<1>4. l \in [Paths -> 0..AccountTTL]
  BY <1>2, LessBounds, Bounds
<1>5. ag \in 0..Old
  BY <1>2, Bounds
<1>6. gw' = [gw EXCEPT !.left = l, !.retry = Less(gw.retry), !.offline = Less(gw.offline),
                       !.asked = Less(gw.asked), !.seen = Less(gw.seen),
                       !.grace = Less(gw.grace), !.age = ag]
  BY DEF Tick
<1> HIDE DEF l, ag
<1>7. Kept(gw, gw')
  BY <1>1, <1>3, <1>4, <1>5, <1>6, TimersKept
<1>8. row' \in Row /\ row'.on = row.on
  <2>1. row \in Row /\ row.grace \in 0..GraceTTL
    BY DEF IInv, TypeOK, Row
  <2>2. Less(row.grace) \in 0..GraceTTL
    BY <2>1, LessBounds, Bounds
  <2> QED
    BY <2>1, <2>2 DEF Tick, Row
<1>9. req' \in [Actors -> Request]
  <2>1. ASSUME NEW r \in Actors, Calling(req[r])
        PROVE  [req[r] EXCEPT !.wait = req[r].wait + 1] \in Request
    <3>1. req[r] \in Request /\ req[r].wait \in 0..OfflineTTL
      BY DEF IInv, TypeOK, Request
    <3>2. req[r].wait < (IF req[r].pc = "post" THEN OfflineTTL ELSE CallTTL)
      BY <2>1 DEF Tick
    <3>3. req[r].wait + 1 \in 0..OfflineTTL
      BY <3>1, <3>2, Bounds
    <3> QED
      BY <3>1, <3>3 DEF Request
  <2>2. req' = [r \in Actors |-> IF Calling(req[r]) THEN [req[r] EXCEPT !.wait = req[r].wait + 1] ELSE req[r]]
    BY DEF Tick
  <2> QED
    BY <2>1, <2>2 DEF IInv, TypeOK
<1>10. \A r \in Actors : req'[r].ans = req[r].ans /\ req'[r].pc = req[r].pc
  BY DEF IInv, TypeOK, Tick, Request
<1>11. UNCHANGED <<session, responses, wish, env>>
  BY DEF Tick
<1>12. TypeOK'
  BY <1>7, <1>8, <1>9, <1>11 DEF IInv, TypeOK, Kept, Sound
<1>13. OfflineForgets'
  BY <1>7 DEF OfflineForgets, Kept, Sound
<1>14. StoppedStaysOff' /\ SwitchIsPersisted'
  BY <1>7, <1>8, <1>11 DEF IInv, StoppedStaysOff, SwitchIsPersisted, Kept
<1>15. ReadsAreAnswered'
  BY <1>10 DEF IInv, ReadsAreAnswered
<1> QED
  BY <1>12, <1>13, <1>14, <1>15 DEF IInv

\* A process that has just started knows nothing but the row.
LEMMA NewType ==
  /\ NewGateway \in Gateway /\ NewGateway.offline = 0 /\ NewGateway.on = FALSE
BY Bounds DEF NewGateway, Gateway, Heard, Live, Paths, Modes, Statuses

LEMMA RestartSound == ASSUME IInv, Restart PROVE IInv'
<1> DEFINE st == IF row.on THEN "waiting" ELSE row.status
           store == IF env.memory THEN NewGateway.store ELSE gw.store
           g == [NewGateway EXCEPT !.on = row.on, !.mode = "REAL", !.fails = row.fails, !.grace = row.grace]
           h == DeferCycle(g, st)
           k == [h EXCEPT !.store = store]
<1>1. row \in Row /\ gw \in Gateway
  BY DEF IInv, TypeOK
<1>2. g \in Gateway /\ g.offline = 0 /\ g.on = row.on
  BY <1>1, NewType DEF Row, Gateway, Modes
<1>3. Sound(g) /\ st \in Statuses
  BY <1>1, <1>2 DEF Sound, Row, Statuses
<1>4. store \in [connected : BOOLEAN, mode : Modes, balance : BOOLEAN]
  BY <1>1, NewType DEF Gateway
<1>5. gw' = k
  BY DEF Restart, DeferCycle
<1>6. Kept(g, h)
  <2> HIDE DEF g, st
  <2> QED
    BY <1>3, DeferKept
<1>7. Kept(h, k)
  <2>1. Sound(h)
    BY <1>6 DEF Kept
  <2> HIDE DEF h, store
  <2> QED
    BY <2>1, <1>4 DEF Kept, Sound, Gateway
<1>8. Sound(gw') /\ gw'.on = row.on
  <2> HIDE DEF g, h, k
  <2> QED
    BY <1>2, <1>5, <1>6, <1>7 DEF Kept
<1>9. req' = [r \in Actors |-> Idle] /\ UNCHANGED <<row, session, responses, wish>> /\ env' \in Environment
  BY HappensType DEF Restart
<1>10. TypeOK'
  BY <1>8, <1>9, RequestType DEF IInv, TypeOK, Sound
<1>11. OfflineForgets'
  BY <1>8 DEF OfflineForgets, Sound
<1>12. StoppedStaysOff' /\ SwitchIsPersisted'
  BY <1>8, <1>9 DEF IInv, StoppedStaysOff, SwitchIsPersisted
<1>13. ReadsAreAnswered'
  BY <1>9, RequestType DEF ReadsAreAnswered
<1> QED
  BY <1>10, <1>11, <1>12, <1>13 DEF IInv
-----------------------------------------------------------------------------
LEMMA InitSound == Init => IInv
<1> SUFFICES ASSUME Init PROVE IInv
  OBVIOUS
<1>1. gw = [NewGateway EXCEPT !.store.balance = "sync" \notin env.routes] /\ env \in Environment
  BY EnvironmentsAssumption DEF Init
<1>2. gw \in Gateway /\ gw.offline = 0 /\ gw.on = FALSE
  BY <1>1, NewType DEF Gateway
<1>3. row \in Row /\ row.on = FALSE
  BY Bounds DEF Init, Row, Statuses
<1>4. TypeOK
  BY <1>1, <1>2, <1>3, RequestType DEF Init, TypeOK, Live, Wishes, NoResponses, Heard
<1>5. OfflineForgets /\ StoppedStaysOff
  BY <1>2, <1>3 DEF OfflineForgets, StoppedStaysOff
<1>6. SwitchIsPersisted
  BY <1>2, <1>3, Zenon DEF SwitchIsPersisted
<1>7. ReadsAreAnswered
  BY RequestType DEF Init, ReadsAreAnswered
<1> QED
  BY <1>4, <1>5, <1>6, <1>7 DEF IInv

LEMMA NextSound == IInv /\ [Next]_vars => IInv'
<1> SUFFICES ASSUME IInv, [Next]_vars PROVE IInv'
  OBVIOUS
<1>1. CASE AccountPolls
  BY <1>1, AccountBeginsSound DEF AccountPolls
<1>2. CASE StatePolls
  BY <1>2, StatePollSound DEF StatePolls
<1>3. ASSUME NEW r \in Requests,
             \/ StatusBegins(r) \/ SyncBegins(r) \/ StartBegins(r) \/ StopRequest(r)
             \/ ConnectBegins(r) \/ ReconnectBegins(r) \/ DisconnectBegins(r)
      PROVE  IInv'
  BY <1>3, StatusBeginsSound, SyncBeginsSound, StartBeginsSound, StopRequestSound,
     ConnectBeginsSound, ReconnectBeginsSound, DisconnectBeginsSound
<1>4. ASSUME NEW r \in Actors, RequestStep(r)  PROVE IInv'
  BY <1>4, StatusReturnsSound, AccountReturnsSound, CheckReturnsSound, ContractReturnsSound,
     RefreshReturnsSound, ConnectReturnsSound, ReconnectReturnsSound, DisconnectReturnsSound,
     DisconnectEndsSound DEF RequestStep
<1>5. ASSUME NEW r \in Actors, Serves(r) \/ ServesKept(r) \/ Fails(r)  PROVE IInv'
  BY <1>5, ServesSound, ServesKeptSound, FailsSound
<1>6. CASE CycleBegins \/ CycleEnds \/ WorkerExits
  BY <1>6, CycleBeginsSound, CycleEndsSound, WorkerExitsSound
<1>7. CASE SessionChanges \/ Tick \/ Restart
  BY <1>7, SessionChangesSound, TickSound, RestartSound
<1>8. CASE UNCHANGED vars
  BY <1>8 DEF IInv, TypeOK, OfflineForgets, StoppedStaysOff, SwitchIsPersisted, ReadsAreAnswered, vars
<1> QED
  BY <1>1, <1>2, <1>3, <1>4, <1>5, <1>6, <1>7, <1>8 DEF Next

\* The inductive invariant holds in every state of every behaviour.
THEOREM SessionInvariance == Spec => []IInv
BY InitSound, NextSound, PTL DEF Spec

\* Every variable keeps its type.
THEOREM SessionTypeCorrect == Spec => []TypeOK
<1>1. IInv => TypeOK
  BY DEF IInv
<1> QED
  BY <1>1, SessionInvariance, PTL

\* A session that mark_session_failure marked offline has no cached answer,
\* fresh or last valid, that calls it connected.
THEOREM OfflineIsForgotten == Spec => []OfflineForgets
<1>1. IInv => OfflineForgets
  BY DEF IInv
<1> QED
  BY <1>1, SessionInvariance, PTL

\* After POST /robot/stop the robot is off in memory and in its row until the
\* next start, whatever was under way and whenever the process restarts.
THEOREM StopIsFinal == Spec => []StoppedStaysOff
<1>1. IInv => StoppedStaysOff
  BY DEF IInv
<1> QED
  BY <1>1, SessionInvariance, PTL

\* Except after a disconnect, which persists nothing, the row has the switch
\* of the memory at every await: a crash neither revives nor loses a robot.
THEOREM SwitchSurvives == Spec => []SwitchIsPersisted
<1>1. IInv => SwitchIsPersisted
  BY DEF IInv
<1> QED
  BY <1>1, SessionInvariance, PTL
=============================================================================
