--------------------------- MODULE BullexSessions ---------------------------
(***************************************************************************)
(* The sessions of bullex_service/main.py over the library bullexapi.      *)
(*                                                                         *)
(* The library keeps the SSID, the balance id and the connection flag of   *)
(* "the" client in module globals.  The service lends the globals to one   *)
(* session at a time: _session_context takes the process lock, writes the  *)
(* session's own values over the globals (_activate) and reads them back   *)
(* when it leaves (_capture).  Requests run in threads, one at a time per  *)
(* user (user_lock).  Three kinds of thread write the globals without the  *)
(* process lock: the websocket of every open client, a login that outlived *)
(* the 60 s the service waits for it, and a catalogue fetch that outlived  *)
(* its 8 s, for the library connects again by itself when a send fails.    *)
(* The profile of the account is not even lent: it is a class attribute    *)
(* that every client shares.                                               *)
(*                                                                         *)
(* A session is an object, as in the code: the sessions map, a request and *)
(* a login thread may each refer to it.                                    *)
(***************************************************************************)
EXTENDS Naturals, FiniteSets

CONSTANTS
  Users,        \* x-user-id; also names the user's account at the broker
  NoUser,       \* no SSID, no account
  Requests,     \* bound: the requests served at once
  NoRequest,    \* nobody holds a lock
  Objects,      \* ManagedSession objects and their clients
  NoObject,     \* sessions.get(user_id) is None
  MaxAttempts,  \* LOGIN_MAX_ATTEMPTS
  Environments  \* bound: the environments a run explores, see env

ASSUME SessionsAssumption ==
  /\ Users # {} /\ NoUser \notin Users
  /\ NoRequest \notin Requests
  /\ NoObject \notin Objects
  /\ MaxAttempts \in Nat \ {0}

VARIABLES
  global,  \* bullexapi.global_value
  profile, \* BullexAPI.profile.msg: the account whose profile came last
  inside,  \* the request that holds _runtime_lock
  lock,    \* user_lock, per user
  listed,  \* SessionManager.sessions, per user
  object,  \* ManagedSession and its client
  login,   \* the login thread of a client
  request, \* the requests being served
  store,   \* bullex_sessions, per user
  orders,  \* the order sent to the broker last
  left,    \* users whose last finished connect or disconnect is a disconnect
  env      \* bound: the users, the requests and the failures this behaviour
           \* may meet, the attempts a login has in it, the sessions that exist
           \* at once, and how many times a connection in use will still be lost

vars == <<global, profile, inside, lock, listed, object, login, request, store, orders, left, env>>

\* market: candles, assets and payouts, in which the library may reconnect
Kinds == {"connect", "sms", "disconnect", "status", "order", "mode", "market"}
Failures == {"refused", "2FA", "practice", "expired", "stall", "timeout", "late", "database",
             "no real"}
Environment ==
  [users : SUBSET Users, kinds : SUBSET Kinds, attempts : 1..MaxAttempts,
   events : SUBSET Failures, sessions : Nat, drops : Nat]
ASSUME EnvironmentsAssumption == Environments \subseteq Environment

Events == env.events

Balance == [account : Users \cup {NoUser}, type : {"none", "REAL", "PRACTICE"}]
NoBalance == [account |-> NoUser, type |-> "none"]

\* SessionState, and the globals themselves
Globals == [ssid : Users \cup {NoUser}, balance : Balance, open : BOOLEAN]
Blank == [ssid |-> NoUser, balance |-> NoBalance, open |-> FALSE]

\* account: whose account the broker takes the client's socket for;
\* profiled: its profile message has arrived; password: it can log in again;
\* fetching: a catalogue or candle fetch works on it; finished: its last login
\* ended well and the service took it over.
Session ==
  [user : Users, state : Globals, account : Users \cup {NoUser},
   socket : {"closed", "opening", "open"}, profiled : BOOLEAN,
   real : BOOLEAN, twofa : BOOLEAN, password : BOOLEAN, way : {"password", "ssid"},
   fetching : BOOLEAN, finished : BOOLEAN]

\* Where connect is: waiting for the socket, for an SSID, about to send the one
\* in the globals, waiting for its profile, for another SSID, about to send
\* that one, waiting for its profile.  A login that returns False with "timeout"
\* in its reason is slow.
Running == {"opening", "asking", "sending", "checking", "renewing", "resending", "settling"}
LoginStates == Running \cup {"none", "ok", "2FA", "failed", "slow"}

Request ==
  [user : Users, kind : Kinds,
   pc : {"idle", "wait", "close", "new", "login", "ready", "readying", "loading",
         "check", "call", "calling", "market", "tail", "forcing", "cleanup"},
   object : Objects \cup {NoObject}, old : Objects \cup {NoObject},
   flow : {"connect", "reconnect", "restore"}, attempt : 0..MaxAttempts]

Idle == [user |-> CHOOSE u \in Users : TRUE, kind |-> "status", pc |-> "idle",
         object |-> NoObject, old |-> NoObject, flow |-> "connect", attempt |-> 0]

Collected ==
  [user |-> CHOOSE u \in Users : TRUE, state |-> Blank, account |-> NoUser,
   socket |-> "closed", profiled |-> FALSE, real |-> FALSE, twofa |-> FALSE,
   password |-> FALSE, way |-> "password", fetching |-> FALSE, finished |-> FALSE]

Init ==
  /\ global = Blank
  /\ profile = NoUser
  /\ inside = NoRequest
  /\ lock = [u \in Users |-> NoRequest]
  /\ listed = [u \in Users |-> NoObject]
  /\ object = [o \in Objects |-> Collected]
  /\ login = [o \in Objects |-> "none"]
  /\ request = [r \in Requests |-> Idle]
  /\ orders = {}
  /\ left = {}
  /\ env \in Environments
  /\ \E known \in SUBSET env.users :
       store = [u \in Users |-> [on |-> u \in known, token |-> IF u \in known THEN u ELSE NoUser]]

-----------------------------------------------------------------------------
(* Pieces of handlers                                                      *)

User(r) == request[r].user
Mine(r) == request[r].object
At(r, pc) == request[r].pc = pc

\* An object nothing refers to: Python has collected it.  An open socket
\* keeps its client alive through its thread.
Free == {o \in Objects : /\ \A u \in Users : listed[u] # o
                         /\ \A r \in Requests : o \notin {request[r].object, request[r].old}
                         /\ login[o] \notin Running /\ ~object[o].fetching
                         /\ object[o].socket = "closed"}
Room == Cardinality(Objects \ Free) < env.sessions

Goto(r, pc) == request' = [request EXCEPT ![r].pc = pc]

\* A mutant of Done: the user lock is never given back.
DoneHolding(r) ==
  /\ request' = [request EXCEPT ![r] = Idle]
  /\ UNCHANGED lock

\* The request is answered and releases the user lock.
Done(r) ==
  /\ request' = [request EXCEPT ![r] = Idle]
  /\ lock' = [lock EXCEPT ![User(r)] = IF @ = r THEN NoRequest ELSE @]

\* A mutant of Remove: the session stays listed.
RemoveNot(u) == UNCHANGED listed

\* SessionManager.remove, SessionManager.upsert
Remove(u) == listed' = [listed EXCEPT ![u] = NoObject]
Upsert(u, o) == listed' = [listed EXCEPT ![u] = o]

\* What is known of an object once nothing refers to it is forgotten.
Keeps(objects) ==
  object' = [o \in Objects |->
               IF \/ \E u \in Users : listed'[u] = o
                  \/ \E r \in Requests : o \in {request'[r].object, request'[r].old}
                  \/ login'[o] \in Running \/ objects[o].fetching
                  \/ objects[o].socket # "closed"
               THEN objects[o] ELSE Collected]

\* A mutant of Revoked: the row stays connected.
RevokedNot(row) == row

\* SessionStore.mark_disconnected
Off(row) == [row EXCEPT !.on = FALSE]
Revoked(row) == [on |-> FALSE, token |-> NoUser]

\* _persist_connected of session s with the captured SSID
Persisted(row, s) ==
  IF s.twofa \/ ~s.real \/ s.state.ssid = NoUser THEN row
  ELSE [on |-> TRUE, token |-> s.state.ssid]

\* A mutant of Closed: the socket is left to itself.
ClosedNot(s) == s

\* client.api.close()
Closed(s) == [s EXCEPT !.socket = "closed"]

\* A session that is not what its login promised.
Spoilt(s) == [s EXCEPT !.finished = FALSE]

\* _is_session_alive, read with the session's own state: the flag, and whether
\* the thread of the websocket runs
Alive(s) == s.state.open /\ s.socket # "closed"

\* A mutant of Activate: the SSID of the previous session stays.
ActivateKeepsSsid(state) == [state EXCEPT !.ssid = global.ssid]

\* _session_context: the globals become the session's, the session's state
\* becomes what is in the globals.
Activate(state) == state

Enter(r) ==
  /\ inside = NoRequest
  /\ inside' = r
  /\ global' = Activate(object[Mine(r)].state)

Captured(s, g) == [s EXCEPT !.state = g]

\* A context in which nothing waits for the broker.
Brief == inside = NoRequest /\ inside' = NoRequest

\* _mark_disconnected closes the listed session, removes it and marks the
\* row; the token is kept.
MarkDisconnected(u) ==
  /\ Remove(u)
  /\ store' = [store EXCEPT ![u] = Off(@)]
Hangup(u, objects) ==
  IF listed[u] = NoObject THEN objects ELSE [objects EXCEPT ![listed[u]] = Closed(@)]

\* A session that starts to log in: with an SSID, or with a password.
Fresh(u, ssid, password) ==
  [user |-> u, state |-> [Blank EXCEPT !.ssid = ssid], account |-> NoUser,
   socket |-> "opening", profiled |-> FALSE, real |-> FALSE, twofa |-> FALSE,
   password |-> password, way |-> IF ssid = NoUser THEN "password" ELSE "ssid",
   fetching |-> FALSE, finished |-> FALSE]

-----------------------------------------------------------------------------
(* Requests arrive and take the user lock                                  *)

Arrives(r, u, k) ==
  /\ At(r, "idle")
  /\ request' = [request EXCEPT ![r] = [Idle EXCEPT !.user = u, !.kind = k, !.pc = "wait"]]
  /\ UNCHANGED <<global, profile, inside, lock, listed, object, login, store, orders, left, env>>

TakesLock(r, k) ==
  /\ At(r, "wait") /\ request[r].kind = k
  /\ lock[User(r)] = NoRequest
  /\ lock' = [lock EXCEPT ![User(r)] = r]

\* connect with email and password: the old session is closed first.
ConnectBegins(r) ==
  LET u == User(r) IN
  /\ TakesLock(r, "connect")
  /\ left' = left \ {u}
  /\ IF listed[u] # NoObject
     THEN /\ request' = [request EXCEPT ![r].pc = "close", ![r].object = listed[u]]
          /\ UNCHANGED store
     ELSE /\ Goto(r, "new")
          /\ store' = [store EXCEPT ![u] = Revoked(@)]
  /\ UNCHANGED <<global, profile, inside, listed, object, login, orders, env>>

\* The database refuses the update: connect_session cleans up, without the lock.
ConnectBreaks(r) ==
  /\ "database" \in Events
  /\ At(r, "wait") /\ request[r].kind = "connect"
  /\ lock[User(r)] = NoRequest /\ listed[User(r)] = NoObject
  /\ Goto(r, "cleanup")
  /\ UNCHANGED <<global, profile, inside, lock, listed, object, login, store, orders, left, env>>

\* connect with only an sms code continues the login of the listed session,
\* and reuses a session that is alive already.
SmsBegins(r) ==
  LET u == User(r)
      o == listed[u] IN
  /\ TakesLock(r, "sms")
  /\ o # NoObject
  /\ left' = left \ {u}
  /\ IF ~object[o].twofa /\ Alive(object[o])
     THEN /\ Brief
          /\ global' = Activate(object[o].state)
          /\ request' = [request EXCEPT ![r].pc = "call", ![r].object = o]
     ELSE /\ request' = [request EXCEPT ![r].pc = "new", ![r].object = o]
          /\ UNCHANGED <<global, inside>>
  /\ UNCHANGED <<profile, listed, object, login, store, orders, env>>

\* Without a session the code alone cannot log in; the row is revoked first.
SmsRefused(r) ==
  LET u == User(r) IN
  /\ At(r, "wait") /\ request[r].kind = "sms"
  /\ lock[u] = NoRequest /\ listed[u] = NoObject
  /\ store' = [store EXCEPT ![u] = Revoked(@)]
  /\ Done(r)
  /\ UNCHANGED <<global, profile, inside, listed, object, login, orders, left, env>>

DisconnectBegins(r) ==
  LET u == User(r) IN
  /\ TakesLock(r, "disconnect")
  /\ request' = [request EXCEPT ![r].pc = "close", ![r].object = listed[u]]
  /\ UNCHANGED <<global, profile, inside, listed, object, login, store, orders, left, env>>

\* /sessions/status with x-allow-session-restore: restore_on_demand
StatusBegins(r) ==
  LET u == User(r) IN
  /\ TakesLock(r, "status")
  /\ IF listed[u] # NoObject \/ ~store[u].on \/ store[u].token = NoUser
     THEN Goto(r, "check")
     ELSE request' = [request EXCEPT ![r].pc = "new", ![r].flow = "restore"]
  /\ UNCHANGED <<global, profile, inside, listed, object, login, store, orders, left, env>>

\* Every other call of the client goes through SessionManager.run.
CallBegins(r) ==
  /\ \E k \in {"order", "mode", "market"} : TakesLock(r, k)
  /\ Goto(r, "check")
  /\ UNCHANGED <<global, profile, inside, listed, object, login, store, orders, left, env>>

-----------------------------------------------------------------------------
(* The threads of a client: bullexapi                                       *)

\* The websocket of a client opens: on_open, in its own thread.
SocketOpens(o) ==
  /\ object[o].socket = "opening"
  /\ global' = [global EXCEPT !.open = TRUE]
  /\ UNCHANGED <<profile, inside, lock, listed, login, request, store, orders, left, env>>
  /\ Keeps([object EXCEPT ![o].socket = "open"])

\* The broker's profile message: it becomes everybody's profile, and selects
\* the practice balance when no balance is selected.
ProfileArrives(o) ==
  /\ object[o].socket = "open" /\ object[o].account # NoUser /\ ~object[o].profiled
  /\ profile' = object[o].account
  /\ global' = IF global.balance # NoBalance THEN global
               ELSE [global EXCEPT !.balance = [account |-> object[o].account, type |-> "PRACTICE"]]
  /\ UNCHANGED <<inside, lock, listed, login, request, store, orders, left, env>>
  /\ Keeps([object EXCEPT ![o].profiled = TRUE])

\* Nobody will ever close the socket of a client that nothing refers to.
Abandoned(o) == /\ \A u \in Users : listed[u] # o
                /\ \A r \in Requests : o \notin {request[r].object, request[r].old}
                /\ login[o] \notin Running /\ ~object[o].fetching

\* The connection is lost: nothing tells the globals (on_close).
SocketDrops(o) ==
  /\ object[o].socket = "open"
  /\ \/ Abandoned(o) /\ UNCHANGED env
     \/ env.drops > 0 /\ env' = [env EXCEPT !.drops = @ - 1]
  /\ UNCHANGED <<global, profile, inside, lock, listed, login, request, store, orders, left>>
  /\ Keeps([object EXCEPT ![o] = Closed(@)])

\* start_websocket polls the global flag, whoever sets it.  Without an SSID in
\* the globals a password login asks the broker for one first.
SocketSeen(o) ==
  /\ login[o] = "opening" /\ global.open
  /\ login' = [login EXCEPT ![o] =
       IF object[o].way = "password" /\ global.ssid = NoUser THEN "asking" ELSE "sending"]
  /\ UNCHANGED <<global, profile, inside, lock, listed, object, request, store, orders, left, env>>

\* The flag does not come in 15 s, or some socket sets the global error flag:
\* connect returns False and leaves the socket as it is.
LoginStalls(o) ==
  /\ login[o] = "opening"
  /\ "stall" \in Events \/ (object[o].socket # "opening" /\ ~global.open)
  /\ \E lg \in {"slow", "failed"} : login' = [login EXCEPT ![o] = lg]
  /\ UNCHANGED <<global, profile, inside, lock, listed, request, store, orders, left, env>>
  /\ \E s \in {object[o], Closed(object[o])} : Keeps([object EXCEPT ![o] = s])

\* A login that has come through waits for the server's time at last, and is
\* slow without it ("Timesync timeout.").
Ended == {"ok"} \cup (IF "stall" \in Events THEN {"slow"} ELSE {})

\* send_ssid forgets the profile and sends the SSID the globals hold: the
\* broker takes the socket for that SSID's account, if it still knows it.
SsidSent(o) ==
  /\ login[o] \in {"sending", "resending"} /\ object[o].socket = "open"
  /\ profile' = NoUser
  /\ login' = [login EXCEPT ![o] = IF login[o] = "sending" THEN "checking" ELSE "settling"]
  /\ UNCHANGED <<global, inside, lock, listed, request, store, orders, left, env>>
  /\ \E a \in {global.ssid} \cup (IF login[o] = "sending" /\ "expired" \in Events
                                  THEN {NoUser} ELSE {}) :
       Keeps([object EXCEPT ![o].account = a, ![o].profiled = FALSE])

\* A profile is there: anybody's.  Whether the SSID a login has just got is
\* accepted is not looked at.
SsidAccepted(o) ==
  /\ login[o] \in {"checking", "settling"} /\ object[o].socket = "open"
  /\ profile # NoUser \/ (login[o] = "settling" /\ object[o].account = NoUser)
  /\ \E lg \in Ended : login' = [login EXCEPT ![o] = lg]
  /\ UNCHANGED <<global, profile, inside, lock, listed, object, request, store, orders, left, env>>

\* No profile within 10 s, and the broker has closed the socket on which it got
\* a wrong SSID: a password login asks for another one, a restore gives up.
SsidRejected(o) ==
  /\ login[o] = "checking" /\ profile = NoUser
  /\ object[o].account = NoUser \/ object[o].socket # "open"
  /\ login' = [login EXCEPT ![o] = IF object[o].way = "password" THEN "renewing" ELSE "failed"]
  /\ UNCHANGED <<global, profile, inside, lock, listed, request, store, orders, left, env>>
  /\ Keeps([object EXCEPT ![o] = [Closed(@) EXCEPT !.account = NoUser]])

\* get_ssid: the login request of the library.  After a rejected SSID a socket
\* is opened again.
PasswordAccepted(o) ==
  /\ login[o] \in {"asking", "renewing"} /\ object[o].password
  /\ global' = [global EXCEPT !.ssid = object[o].user, !.open = @ /\ login[o] = "asking"]
  /\ login' = [login EXCEPT ![o] = "resending"]
  /\ UNCHANGED <<profile, inside, lock, listed, request, store, orders, left, env>>
  /\ Keeps([object EXCEPT ![o].socket = IF login[o] = "asking" THEN @ ELSE "opening"])

SecondFactorAsked(o) ==
  /\ "2FA" \in Events
  /\ login[o] \in {"asking", "renewing"} /\ object[o].password /\ ~object[o].twofa
  /\ login' = [login EXCEPT ![o] = "2FA"]
  /\ UNCHANGED <<global, profile, inside, lock, listed, request, store, orders, left, env>>
  /\ Keeps([object EXCEPT ![o] = Closed(@)])

\* get_ssid gets no SSID and closes the socket.
PasswordRefused(o) ==
  /\ login[o] \in {"asking", "renewing"}
  /\ "refused" \in Events \/ ~object[o].password
  /\ login' = [login EXCEPT ![o] = "failed"]
  /\ UNCHANGED <<global, profile, inside, lock, listed, request, store, orders, left, env>>
  /\ Keeps([object EXCEPT ![o] = Closed(@)])

\* Sending raises when the socket is not open, the SSID or what the client
\* subscribes to at the end; after a second start the login waits 15 s for it.
SendFails(o) ==
  /\ \/ login[o] = "sending" /\ object[o].socket # "open"
     \/ login[o] = "checking" /\ object[o].socket # "open" /\ profile # NoUser
     \/ login[o] = "settling" /\ object[o].socket # "open"
     \/ /\ login[o] = "resending"
        /\ \/ object[o].socket = "closed"
           \/ object[o].socket = "opening" /\ ("stall" \in Events \/ global.open)
  /\ login' = [login EXCEPT ![o] = "failed"]
  /\ UNCHANGED <<global, profile, inside, lock, listed, object, request, store, orders, left, env>>

\* get_instruments, get_all_init and get_candles: a send that raises makes the
\* library connect again, wherever its thread runs, with whatever SSID is in
\* the globals.  Bound: a client logs in in one thread at a time.
FetchReconnects(o) ==
  /\ object[o].fetching /\ object[o].socket # "open"
  /\ login[o] \notin Running /\ \A r \in Requests : ~(At(r, "login") /\ Mine(r) = o)
  /\ global' = [global EXCEPT !.open = FALSE]
  /\ login' = [login EXCEPT ![o] = "opening"]
  /\ UNCHANGED <<profile, inside, lock, listed, request, store, orders, left, env>>
  /\ Keeps([object EXCEPT ![o] = [@ EXCEPT !.socket = "opening", !.account = NoUser,
              !.profiled = FALSE, !.way = "password", !.finished = FALSE]])

\* What the end of a fetch leaves of its client: a login that came through is
\* as good as the one before.
Fetched(o) == [object[o] EXCEPT !.fetching = FALSE, !.finished = @ \/ login[o] = "ok"]

\* A fetch whose request has gone ends.
FetchEnds(o) ==
  /\ object[o].fetching /\ login[o] \notin Running
  /\ \A r \in Requests : ~(request[r].pc \in {"login", "market"} /\ Mine(r) = o)
  /\ login' = [login EXCEPT ![o] = "none"]
  /\ UNCHANGED <<global, profile, inside, lock, listed, request, store, orders, left, env>>
  /\ Keeps([object EXCEPT ![o] = Fetched(o)])

-----------------------------------------------------------------------------
(* A request logs a session in                                             *)

\* The end of connect or disconnect with the old session: closed, removed,
\* and its row revoked.
OldSessionCloses(r) ==
  LET u == User(r)
      o == Mine(r) IN
  /\ At(r, "close") /\ Brief
  /\ global' = IF o = NoObject THEN global ELSE Activate(object[o].state)
  /\ Remove(u)
  /\ store' = [store EXCEPT ![u] = Revoked(@)]
  /\ IF request[r].kind = "disconnect"
     THEN left' = left \cup {u} /\ Done(r)
     ELSE /\ request' = [request EXCEPT ![r].pc = "new", ![r].object = NoObject]
          /\ UNCHANGED <<lock, left>>
  /\ UNCHANGED <<profile, inside, login, orders, env>>
  /\ Keeps(IF o = NoObject THEN object ELSE [object EXCEPT ![o] = Closed(@)])

\* With the password, with the SSID of the session it replaces, or with the
\* SSID of the row.
NewSession(r) ==
  LET u == User(r)
      old == object[request[r].old] IN
  CASE request[r].flow = "connect" -> Fresh(u, NoUser, TRUE)
    [] request[r].flow = "reconnect" -> Fresh(u, old.state.ssid, old.password)
    [] request[r].flow = "restore" -> Fresh(u, store[u].token, FALSE)

\* A new session starts to log in, inside a context: connect_new_session
\* lists it first, reconnect_attempt and restore_on_demand when it is ready.
LoginStarts(r) ==
  /\ At(r, "new") /\ request[r].kind # "sms"
  /\ inside = NoRequest /\ inside' = r
  /\ Room
  /\ \E o \in Free :
       /\ login' = [login EXCEPT ![o] = "opening"]
       /\ IF request[r].flow = "connect" THEN Upsert(User(r), o) ELSE UNCHANGED listed
       /\ request' = [request EXCEPT ![r].pc = "login", ![r].object = o, ![r].attempt = @ + 1]
       /\ Keeps([object EXCEPT ![o] = NewSession(r)])
  /\ global' = [Activate(NewSession(r).state) EXCEPT !.open = FALSE]
  /\ UNCHANGED <<profile, lock, store, orders, left, env>>

\* The same session with a new client.
Reopened(s) == [s EXCEPT !.socket = "opening", !.account = NoUser, !.profiled = FALSE,
                         !.way = "password", !.finished = FALSE]

\* connect_existing_2fa.  Where a thread that outlived its time still logs the
\* old client in, that thread keeps the object and the session goes on as p.
SmsLoginStarts(r) ==
  LET o == Mine(r) IN
  /\ At(r, "new") /\ request[r].kind = "sms"
  /\ inside = NoRequest /\ inside' = r
  /\ global' = [Activate(object[o].state) EXCEPT !.open = FALSE]
  /\ \E p \in (IF login[o] \in Running \/ object[o].fetching THEN Free ELSE {o}) :
       /\ p # o => Room
       /\ login' = [login EXCEPT ![p] = "opening"]
       /\ Upsert(User(r), p)
       /\ request' = [request EXCEPT ![r].pc = "login", ![r].object = p, ![r].attempt = @ + 1]
       /\ Keeps([object EXCEPT ![o] = Closed(@),
                                ![p] = [Reopened(object[o]) EXCEPT !.fetching = FALSE]])
  /\ UNCHANGED <<profile, lock, store, orders, left, env>>

\* What a login that raises leaves of the session, by the code it raises in:
\* only restore_on_demand closes its client, _mark_disconnected the listed one.
LoginRaises(r, objects) ==
  LET u == User(r)
      flow == request[r].flow IN
  /\ Done(r)
  /\ IF flow = "connect"
     THEN /\ IF request[r].kind = "sms" THEN UNCHANGED listed ELSE Remove(u)
          /\ UNCHANGED store
     ELSE MarkDisconnected(u)
  /\ Keeps(CASE flow = "connect" -> objects
              [] flow = "reconnect" -> Hangup(u, objects)
              [] flow = "restore" -> [objects EXCEPT ![Mine(r)] = Closed(@)])

\* _finalize_connect and what follows when the session is usable, or waits
\* for its second factor.
LoginEnds(r, s) ==
  LET u == User(r) IN
  /\ IF request[r].flow = "connect" THEN UNCHANGED listed ELSE Upsert(u, Mine(r))
  /\ store' = [store EXCEPT ![u] = Persisted(@, s)]
  /\ CASE request[r].flow = "connect" /\ ~s.twofa /\ ~s.real ->
            /\ request' = [request EXCEPT ![r].pc = "tail"]
            /\ lock' = [lock EXCEPT ![u] = NoRequest]
       [] request[r].flow = "connect" /\ (s.twofa \/ s.real) -> Done(r)
       [] request[r].flow = "reconnect" ->
            /\ request' = [request EXCEPT ![r].pc = "call", ![r].old = NoObject]
            /\ UNCHANGED lock
       [] request[r].flow = "restore" -> Goto(r, "check") /\ UNCHANGED lock
  /\ Keeps([object EXCEPT ![Mine(r)] = s])

\* A mutant of TriesAgain: the attempts are not counted.
TriesForever(r, objects) ==
  /\ Goto(r, "new")
  /\ IF request[r].flow = "connect" THEN Remove(User(r)) ELSE UNCHANGED listed
  /\ UNCHANGED <<lock, store>>
  /\ Keeps(objects)

\* _connect_with_retries: what timed out, or says so in its message, is tried
\* again.  connect_new_session removes its session first; nothing is closed.
TriesAgain(r, objects) ==
  IF request[r].attempt < env.attempts /\ request[r].flow # "restore"
  THEN /\ IF request[r].kind = "sms"
          THEN Goto(r, "new") /\ UNCHANGED listed
          ELSE /\ request' = [request EXCEPT ![r].pc = "new", ![r].object = NoObject]
               /\ IF request[r].flow = "connect" THEN Remove(User(r)) ELSE UNCHANGED listed
       /\ UNCHANGED <<lock, store>>
       /\ Keeps(objects)
  ELSE LoginRaises(r, objects)

\* The library's connect has returned: it came through, or asks for a second
\* factor, or returned a reason that does or does not speak of a timeout.
LoginReturns(r) ==
  LET o == Mine(r)
      s == [Captured(object[o], global) EXCEPT !.twofa = (login[o] = "2FA"),
                                               !.finished = (login[o] = "ok")] IN
  /\ At(r, "login") /\ login[o] \in {"ok", "2FA", "failed", "slow"}
  /\ inside' = NoRequest
  /\ login' = [login EXCEPT ![o] = "none"]
  /\ CASE login[o] = "ok" ->
            /\ Goto(r, "ready")
            /\ UNCHANGED <<lock, listed, store>>
            /\ Keeps([object EXCEPT ![o] = s])
       [] login[o] = "2FA" -> LoginEnds(r, s)
       [] login[o] = "failed" -> LoginRaises(r, [object EXCEPT ![o] = s])
       [] login[o] = "slow" -> TriesAgain(r, [object EXCEPT ![o] = s])
  /\ UNCHANGED <<global, profile, orders, left, env>>

\* _run_with_timeout gives up; the thread it waited for goes on.  Only the
\* HTTP requests have no time limit of their own: the password's, and the one
\* that verifies an sms code before the client connects.
LoginTimesOut(r) ==
  LET o == Mine(r) IN
  /\ "timeout" \in Events
  /\ At(r, "login") /\ login[o] \in Running /\ object[o].way = "password"
  /\ login[o] # "opening" \/ request[r].kind = "sms"
  /\ inside' = NoRequest
  /\ UNCHANGED <<global, profile, login, orders, left, env>>
  /\ TriesAgain(r, [object EXCEPT ![o] = Captured(@, global)])

\* _populate_ready_state, in a context of its own
EntersReady(r) ==
  /\ At(r, "ready") /\ Enter(r) /\ Goto(r, "readying")
  /\ UNCHANGED <<profile, lock, listed, object, login, store, orders, left, env>>

\* _wait_until_session_ready
BecomesReady(r) ==
  /\ At(r, "readying")
  /\ global.open /\ object[Mine(r)].socket # "closed"
  /\ Goto(r, "loading")
  /\ UNCHANGED <<global, profile, inside, lock, listed, object, login, store, orders, left, env>>

NeverReady(r) ==
  LET o == Mine(r) IN
  /\ At(r, "readying")
  /\ object[o].socket = "closed" \/ (object[o].socket = "open" /\ ~global.open)
  /\ inside' = NoRequest
  /\ UNCHANGED <<global, profile, login, orders, left, env>>
  /\ TriesAgain(r, [object EXCEPT ![o] = Spoilt(Captured(@, global))])

\* get_profile_ansyc spins until somebody's profile is there.
ProfileKnown == profile # NoUser

\* The account whose profile it is has no REAL balance.
RealMissing(r) ==
  LET o == Mine(r) IN
  /\ "no real" \in Events
  /\ At(r, "loading") /\ ProfileKnown
  /\ inside' = NoRequest
  /\ UNCHANGED <<global, profile, login, orders, left, env>>
  /\ LoginRaises(r, [object EXCEPT ![o] = Spoilt(Captured(@, global))])

\* force_real_mode: change_balance selects the REAL balance of the profile,
\* whoever's it is, or fails three times.
RealMode == [account |-> profile, type |-> "REAL"]
ForcedReal(o, g) == [Captured(object[o], g) EXCEPT !.real = (g.balance = RealMode)]
ForcesReal(o) ==
  global' \in {[global EXCEPT !.balance =
                   IF object[o].socket = "open" \/ global.balance = NoBalance THEN RealMode ELSE @]}
              \cup (IF "practice" \in Events THEN {global} ELSE {})

LoadsReal(r) ==
  LET o == Mine(r) IN
  /\ At(r, "loading") /\ ProfileKnown
  /\ ForcesReal(o)
  /\ inside' = NoRequest
  /\ UNCHANGED <<profile, login, orders, left, env>>
  /\ LoginEnds(r, ForcedReal(o, global'))

\* The database refuses the row of a session that is ready: connect removes
\* the session without closing it, the others close it.
RowRefused(r) ==
  LET o == Mine(r)
      s == Spoilt(ForcedReal(o, global')) IN
  /\ "database" \in Events
  /\ At(r, "loading") /\ ProfileKnown
  /\ ForcesReal(o)
  /\ s.real /\ s.state.ssid # NoUser
  /\ inside' = NoRequest
  /\ UNCHANGED <<profile, login, orders, left, env>>
  /\ LoginRaises(r, [object EXCEPT ![o] = IF request[r].flow = "connect" THEN s ELSE Closed(s)])

\* connect_session tries once more, after connect has released the user lock.
EntersTail(r) ==
  /\ At(r, "tail") /\ Enter(r) /\ Goto(r, "forcing")
  /\ UNCHANGED <<profile, lock, listed, object, login, store, orders, left, env>>

ConnectTail(r) ==
  LET o == Mine(r) IN
  /\ At(r, "forcing") /\ ProfileKnown
  /\ ForcesReal(o)
  /\ inside' = NoRequest
  /\ Done(r)
  /\ UNCHANGED <<profile, listed, login, store, orders, left, env>>
  /\ Keeps([object EXCEPT ![o] = ForcedReal(o, global')])

\* The handler of an unexpected error in connect_session: no user lock.
ConnectCleanup(r) ==
  LET u == User(r)
      o == listed[u] IN
  /\ At(r, "cleanup") /\ Brief
  /\ global' = IF o = NoObject THEN global ELSE Activate(object[o].state)
  /\ Remove(u)
  /\ store' = [store EXCEPT ![u] = Revoked(@)]
  /\ Done(r)
  /\ UNCHANGED <<profile, inside, login, orders, left, env>>
  /\ Keeps(IF o = NoObject THEN object ELSE [object EXCEPT ![o] = Closed(@)])

-----------------------------------------------------------------------------
(* SessionManager.run: is the session alive, then the operation            *)

SessionMissing(r) ==
  /\ At(r, "check") /\ listed[User(r)] = NoObject
  /\ Done(r)
  /\ UNCHANGED <<global, profile, inside, listed, login, store, orders, left, env>>
  /\ Keeps(object)

\* ensure_session_alive: a cached answer or a pending second factor skips
\* the check; a session that is alive is asked for its mode too.
SessionAlive(r) ==
  LET o == listed[User(r)] IN
  /\ At(r, "check") /\ o # NoObject
  /\ request' = [request EXCEPT ![r].pc = "call", ![r].object = o]
  /\ \/ UNCHANGED <<global, inside>>
     \/ Alive(object[o]) /\ ProfileKnown /\ Brief /\ global' = Activate(object[o].state)
  /\ UNCHANGED <<profile, lock, listed, object, login, store, orders, left, env>>

\* _attempt_reconnect closes the old client first.
SessionDead(r) ==
  LET u == User(r)
      o == listed[u] IN
  /\ At(r, "check") /\ o # NoObject
  /\ ~object[o].twofa /\ ~Alive(object[o])
  /\ Brief /\ global' = Activate(object[o].state)
  /\ IF object[o].state.ssid # NoUser \/ object[o].password
     THEN /\ request' = [request EXCEPT ![r].pc = "new", ![r].flow = "reconnect",
                                          ![r].attempt = 0, ![r].old = o]
          /\ UNCHANGED <<lock, listed, store>>
     ELSE MarkDisconnected(u) /\ Done(r)
  /\ UNCHANGED <<profile, login, orders, left, env>>
  /\ Keeps([object EXCEPT ![o] = Closed(@)])

EntersCall(r) ==
  /\ At(r, "call") /\ Enter(r) /\ Goto(r, "calling")
  /\ UNCHANGED <<profile, lock, listed, object, login, store, orders, left, env>>

\* The operation has its answer and leaves the context.
Leaves(r) ==
  /\ inside' = NoRequest
  /\ Done(r)
  /\ UNCHANGED <<profile, left, env>>
Captures(r) == [object EXCEPT ![Mine(r)] = Captured(@, global')]

\* ensure_session_ready: a session without connection is removed, but not for
\* market data (disconnect_on_error).  Nothing closes it.
CallNotReady(r) ==
  LET o == Mine(r) IN
  /\ At(r, "calling") /\ request[r].kind \in {"order", "mode", "market"}
  /\ object[o].twofa \/ ~global.open
  /\ IF object[o].twofa \/ request[r].kind = "market" THEN UNCHANGED listed ELSE Remove(User(r))
  /\ Leaves(r)
  /\ UNCHANGED <<global, login, store, orders>>
  /\ Keeps(Captures(r))

Ready(r) == At(r, "calling") /\ ~object[Mine(r)].twofa /\ global.open

\* /sessions/status tells the mode of a session that is connected.
StatusRead(r) ==
  /\ At(r, "calling") /\ request[r].kind \in {"status", "sms"}
  /\ request[r].kind = "status" /\ Ready(r) => ProfileKnown
  /\ Leaves(r)
  /\ UNCHANGED <<global, listed, login, store, orders>>
  /\ Keeps(Captures(r))

\* /orders/buy-real: only on a balance that is the REAL one of the profile.  A
\* socket without an account takes no order.
OrderRefused(r) ==
  LET o == Mine(r) IN
  /\ Ready(r) /\ request[r].kind = "order" /\ ProfileKnown
  /\ \/ global.balance # RealMode
     \/ object[o].socket = "open" /\ object[o].account = NoUser
  /\ Leaves(r)
  /\ UNCHANGED <<global, listed, login, store, orders>>
  /\ Keeps(Captures(r))

OrderPlaced(r) ==
  LET o == Mine(r) IN
  /\ Ready(r) /\ request[r].kind = "order" /\ global.balance = RealMode /\ ProfileKnown
  /\ object[o].socket = "open" /\ object[o].account # NoUser
  /\ orders' = {[by |-> User(r), account |-> object[o].account,
                  balance |-> global.balance.account]}
  /\ Leaves(r)
  /\ UNCHANGED <<global, listed, login, store>>
  /\ Keeps(Captures(r))

\* Sending on a socket that is not open raises.
OrderDies(r) ==
  LET u == User(r) IN
  /\ Ready(r) /\ request[r].kind = "order" /\ global.balance = RealMode /\ ProfileKnown
  /\ object[Mine(r)].socket # "open"
  /\ MarkDisconnected(u)
  /\ Leaves(r)
  /\ UNCHANGED <<global, login, orders>>
  /\ Keeps(Hangup(u, Captures(r)))

\* /account/change-mode
ModeChanged(r) ==
  LET o == Mine(r)
      u == User(r) IN
  /\ Ready(r) /\ request[r].kind = "mode" /\ ProfileKnown
  /\ ForcesReal(o)
  \* _persist_connected runs inside the context: the state captured last
  /\ store' = [store EXCEPT ![u] = Persisted(@, [ForcedReal(o, global') EXCEPT !.state = object[o].state])]
  /\ Leaves(r)
  /\ UNCHANGED <<listed, login, orders>>
  /\ Keeps([object EXCEPT ![o] = ForcedReal(o, global')])

\* /candles, /assets, /payouts: the fetch may reconnect as long as it runs.
\* While another fetch of the user runs the answer comes from the cache.
MarketBegins(r) ==
  LET o == Mine(r) IN
  /\ Ready(r) /\ request[r].kind = "market"
  /\ ~object[o].fetching
  /\ Goto(r, "market")
  /\ UNCHANGED <<global, profile, inside, lock, listed, login, store, orders, left, env>>
  /\ Keeps([object EXCEPT ![o].fetching = TRUE])

MarketBusy(r) ==
  /\ Ready(r) /\ request[r].kind = "market" /\ object[Mine(r)].fetching
  /\ Leaves(r)
  /\ UNCHANGED <<global, listed, login, store, orders>>
  /\ Keeps(Captures(r))

FetchReturns(r) ==
  LET o == Mine(r) IN
  /\ At(r, "market") /\ login[o] \notin Running
  /\ login' = [login EXCEPT ![o] = "none"]
  /\ Leaves(r)
  /\ UNCHANGED <<global, listed, store, orders>>
  /\ Keeps([object EXCEPT ![o] = Captured(Fetched(o), global)])

\* read_assets waits 8 s for the catalogue; the thread that fetches it goes on.
FetchOutlives(r) ==
  /\ "late" \in Events
  /\ At(r, "market")
  /\ Leaves(r)
  /\ UNCHANGED <<global, listed, login, store, orders>>
  /\ Keeps(Captures(r))

-----------------------------------------------------------------------------
LoginStep(o) ==
  \/ SocketOpens(o) \/ ProfileArrives(o) \/ SocketSeen(o) \/ LoginStalls(o) \/ SsidSent(o)
  \/ SsidAccepted(o) \/ SsidRejected(o) \/ PasswordAccepted(o) \/ PasswordRefused(o)
  \/ SendFails(o) \/ FetchEnds(o)

Serves(r) ==
  \/ ConnectBegins(r) \/ SmsBegins(r) \/ SmsRefused(r) \/ DisconnectBegins(r)
  \/ StatusBegins(r) \/ CallBegins(r) \/ OldSessionCloses(r) \/ LoginStarts(r)
  \/ SmsLoginStarts(r) \/ LoginReturns(r) \/ EntersReady(r) \/ BecomesReady(r)
  \/ NeverReady(r) \/ LoadsReal(r) \/ EntersTail(r) \/ ConnectTail(r) \/ ConnectCleanup(r)
  \/ SessionMissing(r) \/ SessionAlive(r) \/ SessionDead(r) \/ EntersCall(r)
  \/ CallNotReady(r) \/ StatusRead(r) \/ OrderRefused(r) \/ OrderPlaced(r) \/ OrderDies(r)
  \/ ModeChanged(r) \/ MarketBegins(r) \/ MarketBusy(r) \/ FetchReturns(r)

Next ==
  \/ \E r \in Requests : \/ \E u \in env.users, k \in env.kinds : Arrives(r, u, k)
                         \/ Serves(r)
                         \/ ConnectBreaks(r) \/ LoginTimesOut(r) \/ RealMissing(r)
                         \/ RowRefused(r) \/ FetchOutlives(r)
  \/ \E o \in Objects : \/ LoginStep(o) \/ SocketDrops(o) \/ SecondFactorAsked(o)
                        \/ FetchReconnects(o)

Spec == Init /\ [][Next]_vars

\* Locks are handed on and the broker answers; users, failures and timeouts
\* are under no obligation.
FairSpec ==
  /\ Spec
  /\ \A r \in Requests : SF_vars(Serves(r))
  /\ \A o \in Objects : WF_vars(LoginStep(o))

-----------------------------------------------------------------------------
(* Properties                                                              *)

TypeOK ==
  /\ global \in Globals
  /\ profile \in Users \cup {NoUser}
  /\ inside \in Requests \cup {NoRequest}
  /\ lock \in [Users -> Requests \cup {NoRequest}]
  /\ listed \in [Users -> Objects \cup {NoObject}]
  /\ object \in [Objects -> Session]
  /\ login \in [Objects -> LoginStates]
  /\ request \in [Requests -> Request]
  /\ store \in [Users -> [on : BOOLEAN, token : Users \cup {NoUser}]]
  /\ orders \subseteq [by : Users, account : Users \cup {NoUser}, balance : Users \cup {NoUser}]
  /\ left \subseteq Users
  /\ env \in Environment

\* Every thread of the library ends before the service stops waiting for it.
\* A thread that goes on sends and writes SSIDs outside the process lock: the
\* next login may then take the socket for another user's account.
ThreadsReturn == Events \cap {"timeout", "late"} = {}

\* An order a user asks for is sent on a socket that the broker takes for that
\* user's account, although the SSID that decides it is a global which every
\* login, reconnection and restore writes; while threads return in time.
OrdersOnOwnAccount == ThreadsReturn => \A order \in orders : order.account = order.by

\* The SSID the service keeps for a user, to restore the session later, is
\* one the broker gave to that user, while threads return in time.
TokensAreOwn == ThreadsReturn => \A u \in Users : store[u].token \in {u, NoUser}

\* After a disconnect nothing but a connect brings the user back: no session
\* and no connected row, whatever calls, restores, fetches and timed-out logins
\* were under way.
LeftStaysOut == \A u \in left : listed[u] = NoObject /\ ~store[u].on

\* The cleanup of an unexpected error takes no user lock, and may remove the
\* session of the next request.
Tidy == ThreadsReturn /\ "database" \notin Events

\* A session whose login ended well and that is still connected.
Works(o) == object[o].finished /\ object[o].socket = "open"

\* Reconnecting, restoring, connecting again and the library's own
\* reconnections never leave a user with two sessions whose logins ended well
\* and whose sockets are both open at the broker, whatever logins failed in
\* between (a login that fails may leave its socket behind).
OneSocketPerUser ==
  Tidy => \A o, p \in Objects : Works(o) /\ Works(p) /\ object[o].user = object[p].user => o = p

\* The open socket of a session whose login ended well belongs to a listed
\* session or to one a request is working on: somebody can still close it.
NoForgottenSocket ==
  Tidy => \A o \in Objects : Works(o) => \/ \E u \in Users : listed[u] = o
                                       \/ \E r \in Requests : Mine(r) = o

\* The request inside the process lock waits for a profile.
Spins(r) ==
  /\ ~ProfileKnown
  /\ \/ request[r].pc \in {"loading", "forcing"}
     \/ Ready(r) /\ request[r].kind \in {"status", "order", "mode"}

\* Every request is answered and gives its locks back, if no request waits for
\* ever for a profile: get_profile_ansyc has no deadline (stable_api.py:455).
EveryRequestEnds ==
  (\A r \in Requests : ~<>[]Spins(r)) => (\A r \in Requests : ~At(r, "idle") ~> At(r, "idle"))

\* README.md:205: users are isolated in memory by locks.  So the balance an
\* order is sent for is one of the user who asks for it.
OrdersOnOwnBalance == \A order \in orders : order.balance = order.by
=============================================================================
