------------------------ MODULE BullexSessionsProofs ------------------------
(***************************************************************************)
(* An invariant of the sessions of bullex_service, for any number of       *)
(* users, requests and session objects, and the steps of the library.      *)
(* BullexRequestsProofs has the steps of the requests and the theorems.    *)
(*                                                                         *)
(* Three layers build on each other.  Control says which request holds     *)
(* which lock, and with it that a user who left stays out; it holds in any *)
(* environment.  Ownership says whose SSID and account is in the globals,  *)
(* in the sessions and at the broker: it needs that no thread of the       *)
(* library outlives its time, for then a login, the library's own          *)
(* reconnections included, only runs inside the context of its own         *)
(* request.  Sockets says which request or list entry holds each session   *)
(* that works.                                                             *)
(***************************************************************************)
EXTENDS BullexSessions, TLAPS

\* A request in the middle of its work holds its user's lock ...
Holding == {"close", "new", "login", "ready", "readying", "loading", "check", "call", "calling",
            "market"}
UserLocks ==
  \A r \in Requests, u \in Users : lock[u] = r <=> User(r) = u /\ request[r].pc \in Holding

\* ... and, while it waits for the broker, the process lock.
Waiting == {"login", "readying", "loading", "calling", "market", "forcing"}
ProcessLock == \A r \in Requests : inside = r <=> request[r].pc \in Waiting

\* A request has the session its step works on, the one it replaces, and an
\* attempt it may still make; one that waits for its lock is as it arrived.
Equipped(q) ==
  /\ q.pc \in {"login", "ready", "readying", "loading", "call", "calling", "market", "tail",
               "forcing"} => q.object # NoObject
  /\ q.pc = "new" /\ q.kind = "sms" => q.object # NoObject
  /\ q.pc = "close" /\ q.kind # "disconnect" => q.object # NoObject
  /\ q.pc \in {"new", "login", "ready", "readying", "loading"} /\ q.flow = "reconnect" =>
       q.old # NoObject
  /\ q.pc = "new" => q.attempt < MaxAttempts
  /\ q.pc \in {"idle", "wait"} => q.object = NoObject /\ q.old = NoObject
  /\ q.pc \in {"idle", "wait", "close"} => q.flow = "connect" /\ q.attempt = 0
  /\ q.flow # "connect" \/ q.pc \in {"close", "check"} => q.kind # "sms"
RequestsAreEquipped == \A r \in Requests : Equipped(request[r])

\* What the requests of a user who left may still be doing.
Idles(q) == q.pc = "check" \/ (q.pc = "close" /\ q.kind = "disconnect")
LeftIsIdle ==
  \A r \in Requests : request[r].pc \in Holding /\ User(r) \in left => Idles(request[r])

\* Who may do what, in any environment.
Control ==
  /\ TypeOK
  /\ UserLocks
  /\ ProcessLock
  /\ RequestsAreEquipped
  /\ LeftIsIdle
  /\ LeftStaysOut

\* A listed session, the one a request works on and the one it replaces are
\* sessions of that user.
OwnersMatch ==
  /\ \A u \in Users : listed[u] # NoObject => object[listed[u]].user = u
  /\ \A r \in Requests :
       /\ request[r].object # NoObject => object[request[r].object].user = User(r)
       /\ request[r].old # NoObject => object[request[r].old].user = User(r)

\* A session has the SSID and the account of its user or none.
OwnSession(s) == s.state.ssid \in {s.user, NoUser} /\ s.account \in {s.user, NoUser}

\* A thread of the library runs inside the context of the request that waits
\* for it.
Busy(o) == login[o] \in Running \/ object[o].fetching
ThreadsInside ==
  \A o \in Objects :
    /\ Busy(o) => inside # NoRequest /\ request[inside].pc \in {"login", "market"} /\ Mine(inside) = o
    /\ object[o].fetching => At(inside, "market")

\* Whose SSID and account is in the sessions, the globals, the rows and the
\* orders.
EverythingIsOwn ==
  /\ ThreadsInside
  /\ \A o \in Objects : OwnSession(object[o])
  /\ inside # NoRequest => global.ssid \in {User(inside), NoUser}
  /\ \A u \in Users : store[u].token \in {u, NoUser}
  /\ \A order \in orders : order.account = order.by

Ownership == OwnersMatch /\ (ThreadsReturn => EverythingIsOwn)

\* A request that logs a session in, up to the end of its second context.
Making == {"ready", "readying", "loading"}
Working == {"login"} \cup Making

\* A session whose login ended well has had its socket opened, and logs in no
\* more.
Settled(s, lg) ==
  /\ s.finished \/ lg = "ok" => s.socket # "opening"
  /\ s.finished => lg \notin Running
LoginsSettle == \A o \in Objects : Settled(object[o], login[o])

\* The open socket of a session that works has set the flag of its session,
\* which is in the globals while the session is lent to them.
Usable(s) == s.finished /\ s.socket = "open"
FlagIsSet(q, s, open) == s.socket = "open" /\ (q.pc \in {"login", "market"} \/ s.finished) => open
OpenIsFlagged ==
  /\ \A o \in Objects : Usable(object[o]) =>
       object[o].state.open \/ (inside # NoRequest /\ Mine(inside) = o)
  /\ inside # NoRequest => FlagIsSet(request[inside], object[Mine(inside)], global.open)

\* What is listed while a request works: its session in a connect; nothing,
\* or the dead session, while another is made.
ByFlow(q, l, dead) ==
  /\ q.pc # "cleanup"
  /\ q.pc \in Working => IF q.flow = "connect" THEN l = q.object
                         ELSE l # q.object /\ dead /\ (q.flow = "reconnect" \/ l = NoObject)
  /\ q.pc = "new" => IF q.kind = "sms" THEN l = q.object /\ q.flow = "connect"
                     ELSE dead /\ (q.flow = "reconnect" \/ l = NoObject)
  /\ q.pc = "close" => q.object = l
  /\ q.pc \in {"check", "call", "calling", "market"} => q.object \in {l, NoObject}
Dead(l, objects) == l = NoObject \/ objects[l].socket = "closed"
ListedByFlow ==
  \A r \in Requests : ByFlow(request[r], listed[User(r)], Dead(listed[User(r)], object))

\* A session that works is the listed one of its user, or the one that the
\* holder of the user's lock is making.
Makes(q, o) == q.object = o /\ q.pc \in Making /\ q.flow # "connect"
SocketsAreHeld ==
  \A o \in Objects : Usable(object[o]) =>
    LET u == object[o].user
    IN listed[u] = o \/ (lock[u] # NoRequest /\ Makes(request[lock[u]], o))

SocketLayer ==
  /\ LoginsSettle
  /\ OpenIsFlagged
  /\ ListedByFlow
  /\ SocketsAreHeld

Sockets == Tidy => SocketLayer

\* The inductive invariant.
IInv == Control /\ Ownership /\ Sockets
-----------------------------------------------------------------------------
LEMMA Blanks ==
  /\ Blank \in Globals /\ Blank.ssid = NoUser /\ Blank.balance = NoBalance /\ Blank.open = FALSE
  /\ Collected \in Session /\ Collected.socket = "closed" /\ Collected.account = NoUser
  /\ Collected.state = Blank /\ Collected.fetching = FALSE /\ Collected.finished = FALSE
  /\ Idle \in Request /\ Idle.pc = "idle" /\ Idle.object = NoObject /\ Idle.old = NoObject
  /\ Idle.flow = "connect" /\ Idle.attempt = 0
<1>1. (CHOOSE u \in Users : TRUE) \in Users
  BY SessionsAssumption
<1>2. Blank \in Globals
  BY DEF Blank, Globals, NoBalance, Balance
<1>3. 0 \in 0..MaxAttempts
  BY SessionsAssumption
<1> QED
  BY <1>1, <1>2, <1>3 DEF Blank, Collected, Session, Idle, Request, Kinds

\* The objects after a step are those it leaves, up to the collected ones.
KeptAs(objects) ==
  /\ objects \in [Objects -> Session]
  /\ object' \in [Objects -> Session]
  /\ \A o \in Objects :
       /\ object'[o] \in {objects[o], Collected}
       /\ objects[o].socket # "closed" => object'[o] = objects[o]
       /\ login'[o] \in Running => object'[o] = objects[o]
       /\ \A u \in Users : listed'[u] = o => object'[o] = objects[o]
       /\ \A r \in Requests :
            o \in {request'[r].object, request'[r].old} => object'[o] = objects[o]

LEMMA KeepsKept ==
  ASSUME NEW objects, Keeps(objects), objects \in [Objects -> Session]
  PROVE  KeptAs(objects)
BY Blanks DEF Keeps, KeptAs

LEMMA SameKept ==
  ASSUME object \in [Objects -> Session], object' = object  PROVE  KeptAs(object)
BY DEF KeptAs

\* The user lock and the process lock follow the step a request takes.
UserLockFollows(r, q) ==
  IF q.pc \in Holding
  THEN /\ q.user = User(r) /\ lock[User(r)] \in {r, NoRequest}
       /\ lock' = [lock EXCEPT ![User(r)] = r]
  ELSE lock' = [lock EXCEPT ![User(r)] = IF lock[User(r)] = r THEN NoRequest ELSE lock[User(r)]]

ProcessLockFollows(r, q) ==
  /\ IF q.pc \in Waiting
     THEN inside \in {r, NoRequest} /\ inside' = r
     ELSE inside' = IF inside = r THEN NoRequest ELSE inside
  /\ inside \notin {r, NoRequest} => global' = global

\* Request r becomes q in a step that leaves the objects: nobody else's list
\* entry, row or context is touched.
Turn(r, q, objects) ==
  /\ q \in Request /\ request' = [request EXCEPT ![r] = q]
  /\ KeptAs(objects) /\ TypeOK' /\ env' = env
  /\ UserLockFollows(r, q) /\ ProcessLockFollows(r, q)
  /\ inside \notin {r, NoRequest} => objects = object /\ login' = login
  /\ \A u \in Users \ {User(r)} : listed'[u] = listed[u] /\ store'[u] = store[u]

LEMMA TurnFacts ==
  ASSUME Control, NEW r \in Requests, NEW q, NEW objects, Turn(r, q, objects)
  PROVE  /\ User(r) \in Users /\ lock \in [Users -> Requests \cup {NoRequest}]
         /\ inside \in Requests \cup {NoRequest}
         /\ request \in [Requests -> Request] /\ NoRequest \notin Requests
         /\ request'[r] = q /\ \A p \in Requests \ {r} : request'[p] = request[p]
         /\ \A p \in Requests : User(p) = request[p].user
         /\ Events' = Events /\ q \in Request
         /\ KeptAs(objects) /\ TypeOK'
         /\ UserLockFollows(r, q) /\ ProcessLockFollows(r, q)
         /\ inside \notin {r, NoRequest} => objects = object /\ login' = login
         /\ \A u \in Users \ {User(r)} : listed'[u] = listed[u] /\ store'[u] = store[u]
BY SessionsAssumption DEF Control, TypeOK, User, Request, Turn, Events

\* What the process lock does, seen from its holder after the step.
LEMMA HolderAfter ==
  ASSUME Control, NEW r \in Requests, NEW q, NEW objects, Turn(r, q, objects)
  PROVE  /\ q.pc \in Waiting => inside' = r /\ inside \in {r, NoRequest}
         /\ q.pc \notin Waiting /\ inside' # NoRequest =>
              /\ inside' = inside /\ inside \in Requests \ {r} /\ global' = global
              /\ objects = object /\ login' = login
         /\ inside \notin {r, NoRequest} =>
              /\ inside' = inside /\ global' = global /\ objects = object /\ login' = login
         /\ inside \in {r, NoRequest} => inside' \in {r, NoRequest}
BY TurnFacts, SessionsAssumption DEF ProcessLockFollows

LEMMA ControlStep ==
  ASSUME Control, NEW r \in Requests, NEW q, NEW objects, Turn(r, q, objects),
         Equipped(q),
         left' \subseteq left \cup {User(r)},
         User(r) \in left' => User(r) \in left \/ lock[User(r)] = r,
         q.pc \in Holding /\ User(r) \in left' => Idles(q),
         User(r) \in left' => listed'[User(r)] = NoObject /\ ~store'[User(r)].on
  PROVE  Control'
<1>0. /\ User(r) \in Users /\ lock \in [Users -> Requests \cup {NoRequest}]
      /\ inside \in Requests \cup {NoRequest}
      /\ NoRequest \notin Requests
      /\ request'[r] = q /\ \A p \in Requests \ {r} : request'[p] = request[p]
      /\ \A p \in Requests : User(p) = request[p].user
      /\ TypeOK' /\ UserLockFollows(r, q) /\ ProcessLockFollows(r, q)
      /\ \A u \in Users \ {User(r)} : listed'[u] = listed[u] /\ store'[u] = store[u]
  BY TurnFacts
<1>1. UserLocks'
  <2> SUFFICES ASSUME NEW p \in Requests, NEW u \in Users
               PROVE  lock'[u] = p <=> request'[p].user = u /\ request'[p].pc \in Holding
    BY DEF UserLocks, User
  <2>1. /\ lock[u] = p <=> User(p) = u /\ request[p].pc \in Holding
        /\ lock[User(r)] = r <=> request[r].pc \in Holding
    BY <1>0 DEF Control, UserLocks
  <2>2. CASE q.pc \in Holding
    <3>1. q.user = User(r) /\ lock[User(r)] \in {r, NoRequest} /\ lock' = [lock EXCEPT ![User(r)] = r]
      BY <2>2, <1>0 DEF UserLockFollows
    <3> QED
      BY <1>0, <2>1, <2>2, <3>1
  <2>3. CASE q.pc \notin Holding
    <3>1. lock' = [lock EXCEPT ![User(r)] = IF lock[User(r)] = r THEN NoRequest ELSE lock[User(r)]]
      BY <2>3, <1>0 DEF UserLockFollows
    <3> QED
      BY <1>0, <2>1, <2>3, <3>1
  <2> QED
    BY <2>2, <2>3
<1>2. ProcessLock'
  <2> SUFFICES ASSUME NEW p \in Requests
               PROVE  inside' = p <=> request'[p].pc \in Waiting
    BY DEF ProcessLock
  <2>1. inside = p <=> request[p].pc \in Waiting
    BY DEF Control, ProcessLock
  <2>2. \/ q.pc \in Waiting /\ inside \in {r, NoRequest} /\ inside' = r
        \/ q.pc \notin Waiting /\ inside' = IF inside = r THEN NoRequest ELSE inside
    BY <1>0 DEF ProcessLockFollows
  <2> QED
    BY <1>0, <2>1, <2>2
<1>3. RequestsAreEquipped'
  BY <1>0 DEF Control, RequestsAreEquipped
<1>4. LeftIsIdle'
  <2> SUFFICES ASSUME NEW p \in Requests, request'[p].pc \in Holding, request'[p].user \in left'
               PROVE  Idles(request'[p])
    BY DEF LeftIsIdle, User
  <2>1. CASE p = r
    <3>1. q.user = User(r)
      BY <1>0, <2>1 DEF UserLockFollows
    <3> QED
      BY <1>0, <2>1, <3>1
  <2>2. CASE p # r
    <3>1. request[p].pc \in Holding /\ lock[User(p)] = p /\ User(p) \in left'
      BY <1>0, <2>2 DEF Control, UserLocks, TypeOK, Request
    <3>2. User(p) \in left
      BY <1>0, <2>2, <3>1
    <3> QED
      BY <1>0, <2>2, <3>1, <3>2 DEF Control, LeftIsIdle
  <2> QED
    BY <2>1, <2>2
<1>5. LeftStaysOut'
  BY <1>0 DEF Control, LeftStaysOut, TypeOK
<1> QED
  BY <1>0, <1>1, <1>2, <1>3, <1>4, <1>5 DEF Control

\* The sessions a step leaves belong to whom they are said to belong to.
LEMMA OwnersStep ==
  ASSUME Control, OwnersMatch, NEW r \in Requests, NEW q, NEW objects, Turn(r, q, objects),
         \A o \in Objects \ Free : objects[o].user = object[o].user,
         q.object # NoObject => objects[q.object].user = q.user,
         q.old # NoObject => objects[q.old].user = q.user,
         listed'[User(r)] # NoObject => objects[listed'[User(r)]].user = User(r)
  PROVE  OwnersMatch'
<1>0. /\ KeptAs(objects) /\ TypeOK'
      /\ request'[r] = q /\ \A p \in Requests \ {r} : request'[p] = request[p]
      /\ \A u \in Users \ {User(r)} : listed'[u] = listed[u]
  BY TurnFacts
<1>1. ASSUME NEW u \in Users, listed'[u] # NoObject  PROVE object'[listed'[u]].user = u
  <2>1. listed'[u] \in Objects
    BY <1>0, <1>1 DEF TypeOK
  <2>2. object'[listed'[u]] = objects[listed'[u]]
    BY <1>0, <2>1 DEF KeptAs
  <2>3. CASE u = User(r)
    BY <1>1, <2>2, <2>3
  <2>4. CASE u # User(r)
    <3>1. listed'[u] = listed[u] /\ listed[u] \notin Free
      BY <1>0, <2>4 DEF Free
    <3> QED
      BY <1>1, <2>1, <2>2, <3>1 DEF OwnersMatch
  <2> QED
    BY <2>3, <2>4
<1>2. ASSUME NEW p \in Requests, NEW o \in {request'[p].object, request'[p].old}, o # NoObject
      PROVE  object'[o].user = request'[p].user
  <2>1. o \in Objects
    BY <1>0, <1>2 DEF TypeOK, Request
  <2>2. object'[o] = objects[o]
    BY <1>0, <2>1 DEF KeptAs
  <2>3. CASE p = r
    BY <1>0, <1>2, <2>2, <2>3
  <2>4. CASE p # r
    <3>1. o \in {request[p].object, request[p].old} /\ o \notin Free
      BY <1>0, <2>4 DEF Free
    <3>2. object[o].user = request[p].user
      BY <1>2, <3>1 DEF OwnersMatch, User
    <3> QED
      BY <1>0, <2>1, <2>2, <2>4, <3>1, <3>2
  <2> QED
    BY <2>3, <2>4
<1> QED
  BY <1>1, <1>2 DEF OwnersMatch, User

\* Only request r has a thread that works for it.
Employs(q, o, s, lg) ==
  lg \in Running \/ s.fetching =>
    /\ q.pc \in {"login", "market"} /\ q.object = o
    /\ s.fetching => q.pc = "market"

\* ... and everything else does, while every thread returns in time.
LEMMA OwnStep ==
  ASSUME Control, EverythingIsOwn, NEW r \in Requests, NEW q, NEW objects, Turn(r, q, objects),
         inside \in {r, NoRequest} => \A o \in Objects : Employs(q, o, objects[o], login'[o]),
         \A o \in Objects : OwnSession(objects[o]),
         q.pc \in Waiting => global'.ssid \in {q.user, NoUser},
         store'[User(r)].token \in {User(r), NoUser},
         \A order \in orders' : order.account = order.by
  PROVE  EverythingIsOwn'
<1>0. /\ KeptAs(objects) /\ TypeOK'
      /\ request'[r] = q /\ \A p \in Requests \ {r} : request'[p] = request[p]
      /\ \A u \in Users \ {User(r)} : store'[u] = store[u]
      /\ \A p \in Requests : User(p) = request[p].user
      /\ inside \in Requests \cup {NoRequest} /\ NoRequest \notin Requests
  BY TurnFacts
<1>h. /\ q.pc \in Waiting => inside' = r /\ inside \in {r, NoRequest}
      /\ q.pc \notin Waiting /\ inside' # NoRequest =>
           /\ inside' = inside /\ inside \in Requests \ {r} /\ global' = global
           /\ objects = object /\ login' = login
      /\ inside \notin {r, NoRequest} =>
           /\ inside' = inside /\ global' = global /\ objects = object /\ login' = login
  BY HolderAfter
<1>1. ThreadsInside'
  <2> SUFFICES ASSUME NEW o \in Objects, login'[o] \in Running \/ object'[o].fetching
               PROVE  /\ inside' # NoRequest
                      /\ request'[inside'].pc \in {"login", "market"} /\ request'[inside'].object = o
                      /\ object'[o].fetching => request'[inside'].pc = "market"
    BY DEF ThreadsInside, Busy, At, Mine
  <2>1. object'[o].fetching => objects[o].fetching
    BY <1>0, Blanks DEF KeptAs
  <2>2. CASE inside \in {r, NoRequest}
    <3>1. /\ q.pc \in {"login", "market"} /\ q.object = o
          /\ object'[o].fetching => q.pc = "market"
      BY <2>1, <2>2 DEF Employs
    <3> QED
      BY <1>0, <1>h, <3>1 DEF Waiting
  <2>3. CASE inside \notin {r, NoRequest}
    <3>1. Busy(o) /\ (object'[o].fetching => object[o].fetching) /\ inside' = inside
      BY <1>h, <2>1, <2>3 DEF Busy
    <3>2. inside \in Requests \ {r} /\ request'[inside] = request[inside]
      BY <1>0, <2>3
    <3> QED
      BY <1>0, <3>1, <3>2 DEF EverythingIsOwn, ThreadsInside, At, Mine
  <2> QED
    BY <2>2, <2>3
<1>2. \A o \in Objects : OwnSession(object'[o])
  BY <1>0, Blanks DEF KeptAs, OwnSession
<1>3. inside' # NoRequest => global'.ssid \in {request'[inside'].user, NoUser}
  <2>1. CASE q.pc \in Waiting
    BY <1>0, <1>h, <2>1
  <2>2. CASE q.pc \notin Waiting /\ inside' # NoRequest
    BY <1>0, <1>h, <2>2 DEF EverythingIsOwn
  <2> QED
    BY <2>1, <2>2
<1>4. \A u \in Users : store'[u].token \in {u, NoUser}
  BY <1>0 DEF EverythingIsOwn
<1> QED
  BY <1>1, <1>2, <1>3, <1>4 DEF EverythingIsOwn, User
-----------------------------------------------------------------------------
(* Sockets in a step of a request                                          *)

\* Somebody in the middle of its work holds the lock of its own user.
LEMMA Holder ==
  ASSUME Control, NEW p \in Requests, request[p].pc \in Holding
  PROVE  lock[User(p)] = p /\ User(p) \in Users
BY DEF Control, UserLocks, TypeOK, Request, User

LEMMA WaitingHolds ==
  /\ Waiting \ {"forcing"} \subseteq Holding /\ Working \subseteq Holding
  /\ Making \subseteq Working /\ "ready" \notin Waiting /\ "forcing" \notin Holding
BY DEF Waiting, Working, Making, Holding

\* The request inside the process lock has a session.
LEMMA Inside ==
  ASSUME Control, inside # NoRequest
  PROVE  /\ inside \in Requests /\ request[inside].pc \in Waiting
         /\ request[inside].object \in Objects /\ Mine(inside) = request[inside].object
         /\ User(inside) = request[inside].user /\ User(inside) \in Users
         /\ \A r \in Requests : request[r].pc \in Waiting => r = inside
<1>1. inside \in Requests
  BY DEF Control, TypeOK
<1>2. request[inside].pc \in Waiting /\ Equipped(request[inside])
  BY <1>1 DEF Control, ProcessLock, RequestsAreEquipped
<1>3. request[inside].object # NoObject
  BY <1>2 DEF Equipped, Waiting
<1>4. request[inside].object \in Objects /\ request[inside].user \in Users
  BY <1>1, <1>3 DEF Control, TypeOK, Request
<1>5. \A r \in Requests : request[r].pc \in Waiting => r = inside
  BY DEF Control, ProcessLock
<1> QED
  BY <1>1, <1>2, <1>4, <1>5 DEF User, Mine

\* What request r leaves of the flags of the sessions that work ...
FlagsLeft(q, objects) ==
  \A o \in Objects :
    /\ Settled(objects[o], login'[o])
    /\ Usable(objects[o]) => objects[o].state.open \/ (q.pc \in Waiting /\ q.object = o)
\* ... and of the one in the globals.
LoginLeft(q, objects) == q.pc \in Waiting => FlagIsSet(q, objects[q.object], global'.open)

LEMMA FlagsStep ==
  ASSUME Control, LoginsSettle, OpenIsFlagged,
         NEW r \in Requests, NEW q, NEW objects, Turn(r, q, objects), Equipped(q),
         inside \in {r, NoRequest} => FlagsLeft(q, objects), LoginLeft(q, objects)
  PROVE  LoginsSettle' /\ OpenIsFlagged'
<1>0. /\ inside \in Requests \cup {NoRequest} /\ NoRequest \notin Requests
      /\ request'[r] = q /\ \A p \in Requests \ {r} : request'[p] = request[p]
      /\ KeptAs(objects) /\ q \in Request
  BY TurnFacts
<1>h. /\ q.pc \in Waiting => inside' = r /\ inside \in {r, NoRequest}
      /\ q.pc \notin Waiting /\ inside' # NoRequest =>
           /\ inside' = inside /\ inside \in Requests \ {r} /\ global' = global
           /\ objects = object /\ login' = login
      /\ inside \notin {r, NoRequest} =>
           /\ inside' = inside /\ global' = global /\ objects = object /\ login' = login
      /\ inside \in {r, NoRequest} => inside' \in {r, NoRequest}
  BY HolderAfter
<1>1. ASSUME NEW o \in Objects
      PROVE  /\ Settled(objects[o], login'[o])
             /\ Usable(objects[o]) =>
                  objects[o].state.open \/ (inside' # NoRequest /\ request'[inside'].object = o)
  <2>1. CASE inside \in {r, NoRequest}
    BY <1>0, <1>h, <2>1 DEF FlagsLeft
  <2>2. CASE inside \notin {r, NoRequest}
    <3>1. objects = object /\ login' = login /\ inside' = inside /\ request'[inside] = request[inside]
      BY <1>0, <1>h, <2>2
    <3> QED
      BY <3>1 DEF LoginsSettle, OpenIsFlagged, Mine
  <2> QED
    BY <2>1, <2>2
<1>2. ASSUME NEW o \in Objects
      PROVE  /\ Settled(object'[o], login'[o])
             /\ Usable(object'[o]) => object'[o] = objects[o]
  <2>1. object'[o] \in {objects[o], Collected}
    BY <1>0 DEF KeptAs
  <2> QED
    BY <1>1, <2>1, Blanks DEF Settled, Usable
<1>3. ASSUME inside' # NoRequest
      PROVE  FlagIsSet(request'[inside'], object'[request'[inside'].object], global'.open)
  <2>1. CASE q.pc \in Waiting
    <3>1. q.object \in Objects
      BY <1>0, <2>1 DEF Equipped, Request, Waiting
    <3>2. object'[q.object] = objects[q.object]
      BY <1>0, <3>1 DEF KeptAs
    <3> QED
      BY <1>0, <1>h, <2>1, <3>2 DEF LoginLeft
  <2>2. CASE q.pc \notin Waiting
    <3>1. /\ inside' = inside /\ inside \in Requests \ {r} /\ global' = global /\ objects = object
          /\ request'[inside] = request[inside]
      BY <1>0, <1>3, <1>h, <2>2
    <3>2. request[inside].object \in Objects /\ Mine(inside) = request[inside].object
      BY <1>0, <3>1, Inside
    <3>3. object'[request[inside].object] = object[request[inside].object]
      BY <1>0, <3>1, <3>2 DEF KeptAs
    <3> QED
      BY <1>0, <3>1, <3>2, <3>3 DEF OpenIsFlagged
  <2> QED
    BY <2>1, <2>2
<1> QED
  BY <1>1, <1>2, <1>3 DEF LoginsSettle, OpenIsFlagged, Mine

\* What request r leaves of its user's sessions that work, ...
SocketsLeft(r, q, objects) ==
  \A o \in Objects : objects[o].user = User(r) /\ Usable(objects[o]) =>
    listed'[User(r)] = o \/ Makes(q, o)
\* ... and of the sessions of the others.
SocketsUntouched(r, objects) ==
  \A o \in Objects :
    IF objects[o].user = User(r) THEN object[o].user = User(r) \/ o \in Free
    ELSE objects[o] = object[o]

LEMMA HeldStep ==
  ASSUME Control, OwnersMatch, ListedByFlow, SocketsAreHeld,
         NEW r \in Requests, NEW q, NEW objects, Turn(r, q, objects), Equipped(q),
         lock[User(r)] \in {r, NoRequest}, q.pc # "cleanup",
         q.pc \in Holding => ByFlow(q, listed'[User(r)], Dead(listed'[User(r)], objects)),
         SocketsLeft(r, q, objects), SocketsUntouched(r, objects)
  PROVE  ListedByFlow' /\ SocketsAreHeld'
<1> DEFINE u == User(r)
<1>0. /\ u \in Users /\ lock \in [Users -> Requests \cup {NoRequest}]
      /\ NoRequest \notin Requests
      /\ request \in [Requests -> Request] /\ q \in Request
      /\ request'[r] = q /\ \A p \in Requests \ {r} : request'[p] = request[p]
      /\ \A p \in Requests : User(p) = request[p].user
      /\ KeptAs(objects) /\ TypeOK' /\ UserLockFollows(r, q)
      /\ \A v \in Users \ {u} : listed'[v] = listed[v]
  BY TurnFacts
<1>k. /\ q.pc \in Holding => q.user = u /\ lock'[u] = r
      /\ \A v \in Users \ {u} : lock'[v] = lock[v]
  BY <1>0 DEF UserLockFollows
\* The requests of other users, and their sessions, are as they were.
<1>1. ASSUME NEW p \in Requests \ {r}, request[p].pc \in Holding
      PROVE  /\ request'[p] = request[p] /\ request[p].user \in Users \ {u}
             /\ lock[request[p].user] = p
             /\ listed'[request[p].user] = listed[request[p].user]
  BY <1>0, <1>1, Holder
<1>2. ASSUME NEW o \in Objects \ Free, object[o].user # u  PROVE objects[o] = object[o]
  BY <1>2 DEF SocketsUntouched
<1>4. ASSUME NEW o \in Objects, Usable(object'[o])
      PROVE  /\ object'[o] = objects[o]
             /\ objects[o].user # u => object[o] = objects[o] /\ object[o].user \in Users \ {u}
  <2>1. object'[o] \in {objects[o], Collected}
    BY <1>0 DEF KeptAs
  <2> QED
    BY <1>4, <2>1, Blanks DEF SocketsUntouched, Control, TypeOK, Session, Usable
<1>8. ListedByFlow'
  <2> SUFFICES ASSUME NEW p \in Requests
               PROVE  ByFlow(request'[p], listed'[request'[p].user], Dead(listed'[request'[p].user], object'))
    BY DEF ListedByFlow, User, Dead
  <2>1. CASE request'[p].pc \notin Holding
    <3>1. request'[p].pc # "cleanup"
      BY <1>0 DEF ListedByFlow, ByFlow
    <3> QED
      BY <2>1, <3>1, WaitingHolds DEF ByFlow, Holding
  <2>2. CASE request'[p].pc \in Holding /\ p = r
    <3>1. q.user = u /\ ByFlow(q, listed'[u], Dead(listed'[u], objects))
      BY <1>0, <1>k, <2>2
    <3>2. Dead(listed'[u], objects) = Dead(listed'[u], object')
      <4>1. listed'[u] \in Objects => object'[listed'[u]] = objects[listed'[u]]
        BY <1>0 DEF KeptAs
      <4>2. listed'[u] \in Objects \cup {NoObject}
        BY <1>0 DEF TypeOK
      <4> QED
        BY <4>1, <4>2 DEF Dead
    <3> QED
      BY <1>0, <2>2, <3>1, <3>2
  <2>3. CASE request'[p].pc \in Holding /\ p # r
    <3> DEFINE v == request[p].user
               l == listed[v]
    <3>1. request'[p] = request[p] /\ v \in Users \ {u} /\ listed'[v] = l
      BY <1>0, <1>1, <2>3
    <3>2. l \in Objects => object'[l] = object[l]
      <4>1. CASE l \in Objects
        <5>1. object[l].user = v /\ l \notin Free
          BY <3>1, <4>1, SessionsAssumption DEF OwnersMatch, Free
        <5>2. objects[l] = object[l]
          BY <1>2, <3>1, <4>1, <5>1
        <5> QED
          BY <1>0, <3>1, <4>1, <5>2 DEF KeptAs
      <4> QED
        BY <4>1
    <3>3. l \in Objects \cup {NoObject}
      BY <3>1 DEF Control, TypeOK
    <3>4. Dead(l, object) = Dead(l, object')
      BY <3>2, <3>3 DEF Dead
    <3>5. ByFlow(request[p], l, Dead(l, object))
      BY <1>0 DEF ListedByFlow
    <3> QED
      BY <3>1, <3>4, <3>5
  <2> QED
    BY <2>1, <2>2, <2>3
<1>9. SocketsAreHeld'
  <2> SUFFICES ASSUME NEW o \in Objects, Usable(object'[o])
               PROVE  \/ listed'[object'[o].user] = o
                      \/ /\ lock'[object'[o].user] # NoRequest
                         /\ Makes(request'[lock'[object'[o].user]], o)
    BY DEF SocketsAreHeld, Makes
  <2>1. CASE objects[o].user = u
    <3>1. listed'[u] = o \/ Makes(q, o)
      BY <1>4, <2>1 DEF SocketsLeft
    <3>2. Makes(q, o) => lock'[u] = r
      BY <1>k, WaitingHolds DEF Makes
    <3> QED
      BY <1>0, <1>4, <2>1, <3>1, <3>2
  <2>2. CASE objects[o].user # u
    <3> DEFINE v == object[o].user
               p == lock[v]
    <3>1. object'[o] = object[o] /\ Usable(object[o]) /\ v \in Users \ {u}
      BY <1>4, <2>2
    <3>2. listed[v] = o \/ (p # NoRequest /\ Makes(request[p], o))
      BY <3>1 DEF SocketsAreHeld
    <3>3. p # NoRequest => p \in Requests \ {r}
      BY <1>0, <3>1 DEF Control, UserLocks
    <3> QED
      BY <1>0, <1>k, <3>1, <3>2, <3>3
  <2> QED
    BY <2>1, <2>2
<1> QED
  BY <1>8, <1>9

\* A request without the user lock changes no list entry and no socket.
LEMMA HeldStay ==
  ASSUME Control, OwnersMatch, ListedByFlow, SocketsAreHeld,
         NEW r \in Requests, NEW q, NEW objects, Turn(r, q, objects),
         request[r].pc \notin Holding, q.pc \notin Holding, q.pc # "cleanup",
         listed' = listed, lock' = lock,
         \A o \in Objects : /\ objects[o].socket = object[o].socket
                            /\ objects[o].user = object[o].user
                            /\ objects[o].finished = object[o].finished
  PROVE  ListedByFlow' /\ SocketsAreHeld'
<1>0. /\ lock \in [Users -> Requests \cup {NoRequest}] /\ NoRequest \notin Requests
      /\ request'[r] = q /\ \A p \in Requests \ {r} : request'[p] = request[p]
      /\ \A p \in Requests : User(p) = request[p].user
      /\ KeptAs(objects)
  BY TurnFacts
<1>1. ASSUME NEW p \in Requests
      PROVE  ByFlow(request'[p], listed'[request'[p].user], Dead(listed'[request'[p].user], object'))
  <2>1. CASE p = r
    BY <1>0, <2>1, WaitingHolds DEF ByFlow, Holding
  <2>2. CASE p # r
    <3> DEFINE l == listed[request[p].user]
    <3>1. ByFlow(request[p], l, Dead(l, object)) /\ request'[p] = request[p]
      BY <1>0, <2>2 DEF ListedByFlow
    <3>2. request[p].user \in Users /\ l \in Objects \cup {NoObject}
      BY DEF Control, TypeOK, Request
    <3>3. l \in Objects => object'[l] = objects[l] /\ objects[l].socket = object[l].socket
      BY <1>0, <3>2 DEF KeptAs
    <3>4. Dead(l, object) = Dead(l, object')
      BY <3>2, <3>3 DEF Dead
    <3> QED
      BY <3>1, <3>4
  <2> QED
    BY <2>1, <2>2
<1>2. ASSUME NEW o \in Objects, Usable(object'[o])
      PROVE  Usable(object[o]) /\ object[o].user = object'[o].user
  <2>1. object'[o] \in {objects[o], Collected}
    BY <1>0 DEF KeptAs
  <2> QED
    BY <1>2, <2>1, Blanks DEF Usable
<1>3. ASSUME NEW o \in Objects, Usable(object'[o])
      PROVE  LET u == object'[o].user
             IN listed'[u] = o \/ (lock'[u] # NoRequest /\ Makes(request'[lock'[u]], o))
  <2> DEFINE u == object[o].user
  <2>1. listed[u] = o \/ (lock[u] # NoRequest /\ Makes(request[lock[u]], o))
    BY <1>2, <1>3 DEF SocketsAreHeld
  <2>2. Makes(request[lock[u]], o) => lock[u] # r
    BY WaitingHolds DEF Makes
  <2>3. u \in Users /\ (lock[u] # NoRequest => lock[u] \in Requests)
    BY <1>0 DEF Control, TypeOK, Session
  <2> QED
    BY <1>0, <1>2, <1>3, <2>1, <2>2, <2>3
<1> QED
  BY <1>1, <1>3 DEF ListedByFlow, SocketsAreHeld, User, Dead, Makes
-----------------------------------------------------------------------------
(* The threads of a client: logins, fetches and websockets                 *)

\* A step of the library for client o: the session becomes s and its login
\* lg; the service's own state stays.
Beneath(o, s, lg) ==
  /\ UNCHANGED <<inside, lock, listed, request, store, orders, left>>
  /\ Events' = Events
  /\ login' = [login EXCEPT ![o] = lg]
  /\ KeptAs([object EXCEPT ![o] = s])
  /\ TypeOK'
  /\ s.user = object[o].user /\ s.state = object[o].state

LEMMA BeneathFacts ==
  ASSUME Control, NEW o \in Objects, NEW s, NEW lg, Beneath(o, s, lg)
  PROVE  /\ TypeOK' /\ inside' = inside /\ lock' = lock /\ listed' = listed /\ request' = request
         /\ store' = store /\ orders' = orders /\ left' = left /\ Events' = Events
         /\ login'[o] = lg /\ \A p \in Objects \ {o} : login'[p] = login[p]
         /\ \A p \in Objects \ {o} : object'[p] \in {object[p], Collected}
         /\ object'[o] \in {s, Collected}
         /\ \A u \in Users : listed[u] \in Objects =>
              object'[listed[u]] = IF listed[u] = o THEN s ELSE object[listed[u]]
         /\ \A r \in Requests : \A p \in {request[r].object, request[r].old} : p \in Objects =>
              object'[p] = IF p = o THEN s ELSE object[p]
         /\ s.user = object[o].user /\ s.state = object[o].state
<1> DEFINE objects == [object EXCEPT ![o] = s]
<1>1. objects[o] = s /\ \A p \in Objects \ {o} : objects[p] = object[p]
  BY DEF Control, TypeOK
<1>2. KeptAs(objects)
  BY DEF Beneath
<1> HIDE DEF objects
<1>3. /\ TypeOK' /\ inside' = inside /\ lock' = lock /\ listed' = listed /\ request' = request
      /\ store' = store /\ orders' = orders /\ left' = left /\ Events' = Events
      /\ login'[o] = lg /\ \A p \in Objects \ {o} : login'[p] = login[p]
      /\ s.user = object[o].user /\ s.state = object[o].state
  BY DEF Beneath, Control, TypeOK
<1> QED
  BY <1>1, <1>2, <1>3 DEF KeptAs

LEMMA BeneathControl ==
  ASSUME Control, NEW o \in Objects, NEW s, NEW lg, Beneath(o, s, lg)  PROVE Control'
<1>1. TypeOK'
  BY BeneathFacts
<1> QED
  BY <1>1 DEF Control, Beneath, UserLocks, ProcessLock, RequestsAreEquipped, LeftIsIdle, LeftStaysOut,
              User

LEMMA BeneathOwners ==
  ASSUME Control, OwnersMatch, NEW o \in Objects, NEW s, NEW lg, Beneath(o, s, lg)
  PROVE  OwnersMatch'
<1>1. /\ listed' = listed /\ request' = request /\ s.user = object[o].user
      /\ \A u \in Users : listed[u] \in Objects =>
           object'[listed[u]] = IF listed[u] = o THEN s ELSE object[listed[u]]
      /\ \A r \in Requests : \A p \in {request[r].object, request[r].old} : p \in Objects =>
           object'[p] = IF p = o THEN s ELSE object[p]
  BY BeneathFacts
<1>2. ASSUME NEW u \in Users, listed[u] # NoObject  PROVE object'[listed[u]].user = u
  BY <1>1, <1>2 DEF OwnersMatch, Control, TypeOK
<1>3. ASSUME NEW r \in Requests, NEW p \in {request[r].object, request[r].old}, p # NoObject
      PROVE  object'[p].user = request[r].user
  <2>1. p \in Objects /\ object[p].user = request[r].user
    BY <1>3 DEF Control, TypeOK, Request, OwnersMatch, User
  <2> QED
    BY <1>1, <2>1
<1> QED
  BY <1>1, <1>2, <1>3 DEF OwnersMatch, User

\* The request a thread works for.
LEMMA ThreadsRequest ==
  ASSUME Control, OwnersMatch, ThreadsInside, NEW o \in Objects, Busy(o)
  PROVE  /\ inside \in Requests /\ request[inside].pc \in {"login", "market"}
         /\ object[o].fetching => request[inside].pc = "market"
         /\ request[inside].object = o
         /\ object[o].user = User(inside) /\ lock[User(inside)] = inside /\ User(inside) \in Users
<1>1. /\ inside # NoRequest /\ request[inside].pc \in {"login", "market"} /\ request[inside].object = o
      /\ object[o].fetching => request[inside].pc = "market"
  BY DEF ThreadsInside, At, Mine
<1>2. inside \in Requests
  BY <1>1 DEF Control, TypeOK
<1> QED
  BY <1>1, <1>2, Holder, SessionsAssumption DEF OwnersMatch, Holding

\* Without a request in the process lock no thread works.
LEMMA NobodyBusy ==
  ASSUME ThreadsInside, inside = NoRequest, NEW o \in Objects
  PROVE  login[o] \notin Running /\ ~object[o].fetching
BY DEF ThreadsInside, Busy

\* A login writes its own SSID, and only while it runs.
LEMMA BeneathOwn ==
  ASSUME Control, OwnersMatch, EverythingIsOwn, NEW o \in Objects, NEW s, NEW lg, Beneath(o, s, lg),
         lg \in Running => Busy(o),
         s.fetching => object[o].fetching,
         OwnSession(s),
         global'.ssid = global.ssid \/ (Busy(o) /\ global'.ssid = object[o].user)
  PROVE  EverythingIsOwn'
<1>0. /\ inside' = inside /\ request' = request /\ store' = store /\ orders' = orders
      /\ login'[o] = lg /\ \A p \in Objects \ {o} : login'[p] = login[p]
      /\ \A p \in Objects \ {o} : object'[p] \in {object[p], Collected}
      /\ object'[o] \in {s, Collected}
  BY BeneathFacts
<1>1. ASSUME NEW p \in Objects
      PROVE  /\ login'[p] \in Running \/ object'[p].fetching => Busy(p)
             /\ object'[p].fetching => object[p].fetching
             /\ OwnSession(object'[p])
  BY <1>0, Blanks DEF Busy, EverythingIsOwn, OwnSession
<1>2. ThreadsInside'
  BY <1>0, <1>1 DEF EverythingIsOwn, ThreadsInside, Busy, At, Mine
<1>3. inside # NoRequest => global'.ssid \in {User(inside), NoUser}
  BY ThreadsRequest DEF EverythingIsOwn
<1> QED
  BY <1>0, <1>1, <1>2, <1>3 DEF EverythingIsOwn, User

\* What a thread does to the flags and sockets it may touch.
SocketFollows(o, s, lg) ==
  /\ Settled(s, lg)
  /\ Usable(s) => Usable(object[o])
  /\ s.socket # "closed" => object[o].socket # "closed" \/ Busy(o)
  /\ global.open /\ ~global'.open => Busy(o)
  /\ s.socket = "open" =>
       \/ global'.open
       \/ /\ object[o].socket = "open" /\ (s.finished => object[o].finished)
          /\ global'.open = global.open

LEMMA BeneathSockets ==
  ASSUME Control, OwnersMatch, ThreadsInside, SocketLayer,
         NEW o \in Objects, NEW s, NEW lg, Beneath(o, s, lg), SocketFollows(o, s, lg)
  PROVE  SocketLayer'
<1>0. /\ inside' = inside /\ lock' = lock /\ listed' = listed /\ request' = request
      /\ login'[o] = lg /\ \A p \in Objects \ {o} : login'[p] = login[p]
      /\ \A p \in Objects \ {o} : object'[p] \in {object[p], Collected}
      /\ object'[o] \in {s, Collected}
      /\ s.user = object[o].user /\ s.state = object[o].state
      /\ \A q \in Users : listed[q] \in Objects =>
           object'[listed[q]] = IF listed[q] = o THEN s ELSE object[listed[q]]
      /\ \A r \in Requests : \A p \in {request[r].object, request[r].old} : p \in Objects =>
           object'[p] = IF p = o THEN s ELSE object[p]
  BY BeneathFacts
<1>1. LoginsSettle'
  <2> SUFFICES ASSUME NEW p \in Objects  PROVE Settled(object'[p], login'[p])
    BY DEF LoginsSettle
  <2>1. object'[p] = Collected => Settled(object'[p], login'[p])
    BY Blanks DEF Settled
  <2>2. CASE p = o
    BY <1>0, <2>1, <2>2 DEF SocketFollows
  <2>3. CASE p # o
    BY <1>0, <2>1, <2>3 DEF SocketLayer, LoginsSettle
  <2> QED
    BY <2>2, <2>3
<1>2. ASSUME NEW p \in Objects, Usable(object'[p])
      PROVE  /\ Usable(object[p]) /\ object'[p].user = object[p].user
             /\ object'[p].state = object[p].state
  <2>1. object'[p] # Collected
    BY <1>2, Blanks DEF Usable
  <2>2. CASE p = o
    BY <1>0, <1>2, <2>1, <2>2 DEF SocketFollows
  <2>3. CASE p # o
    BY <1>0, <1>2, <2>1, <2>3
  <2> QED
    BY <2>2, <2>3
<1>3. OpenIsFlagged'
  <2>1. ASSUME NEW p \in Objects, Usable(object'[p])
        PROVE  object'[p].state.open \/ (inside # NoRequest /\ Mine(inside) = p)
    BY <1>2, <2>1 DEF SocketLayer, OpenIsFlagged
  <2>2. ASSUME inside # NoRequest
        PROVE  FlagIsSet(request[inside], object'[Mine(inside)], global'.open)
    <3> DEFINE m == Mine(inside)
    <3>1. /\ m \in Objects /\ m = request[inside].object /\ inside \in Requests
          /\ object'[m] = IF m = o THEN s ELSE object[m]
      BY <1>0, <2>2, Inside
    <3>2. FlagIsSet(request[inside], object[m], global.open)
      BY <2>2 DEF SocketLayer, OpenIsFlagged
    <3>3. CASE m = o
      BY <3>1, <3>2, <3>3 DEF FlagIsSet, SocketFollows
    <3>4. CASE m # o
      <4>1. global.open => global'.open
        BY <3>4, ThreadsRequest DEF SocketFollows, Mine
      <4> QED
        BY <3>1, <3>2, <3>4, <4>1 DEF FlagIsSet
    <3> QED
      BY <3>3, <3>4
  <2> QED
    BY <1>0, <2>1, <2>2 DEF OpenIsFlagged, Mine
<1>4. ListedByFlow'
  <2> SUFFICES ASSUME NEW r \in Requests
               PROVE  ByFlow(request[r], listed[User(r)], Dead(listed[User(r)], object'))
    BY <1>0 DEF ListedByFlow, User, Dead
  <2> DEFINE l == listed[User(r)]
  <2>0. ByFlow(request[r], l, Dead(l, object)) /\ l \in Objects \cup {NoObject} /\ User(r) \in Users
    BY DEF SocketLayer, ListedByFlow, Control, TypeOK, Request, User
  <2>1. CASE Dead(l, object) => Dead(l, object')
    BY <2>0, <2>1 DEF ByFlow
  <2>2. CASE Dead(l, object) /\ ~Dead(l, object')
    <3>1. l = o /\ Busy(o)
      BY <1>0, <2>0, <2>2 DEF Dead, SocketFollows
    <3>2. /\ inside \in Requests /\ request[inside].pc \in {"login", "market"}
          /\ request[inside].object = o /\ object[o].user = User(inside) /\ lock[User(inside)] = inside
      BY <3>1, ThreadsRequest
    <3>3. object[o].user = User(r)
      BY <2>0, <3>1, SessionsAssumption DEF OwnersMatch
    <3>4. CASE request[r].pc \in Holding
      <4>1. r = inside
        BY <3>2, <3>3, <3>4, Holder
      <4> QED
        BY <2>0, <3>1, <3>2, <4>1 DEF ByFlow, Working, Making
    <3>5. CASE request[r].pc \notin Holding
      BY <2>0, <3>5, WaitingHolds DEF ByFlow, Holding
    <3> QED
      BY <3>4, <3>5
  <2> QED
    BY <2>1, <2>2
<1>5. SocketsAreHeld'
  BY <1>0, <1>2 DEF SocketLayer, SocketsAreHeld
<1> QED
  BY <1>1, <1>3, <1>4, <1>5 DEF SocketLayer

\* The facts an action of the library must establish.
LEMMA ThreadSound ==
  ASSUME IInv, NEW o \in Objects, NEW s, NEW lg, Beneath(o, s, lg),
         ASSUME ThreadsReturn, EverythingIsOwn, OwnSession(object[o]),
                Busy(o) => global.ssid \in {object[o].user, NoUser}
         PROVE  /\ lg \in Running => Busy(o)
                /\ s.fetching => object[o].fetching
                /\ s.account \in {object[o].user, NoUser}
                /\ global'.ssid = global.ssid \/ (Busy(o) /\ global'.ssid = object[o].user),
         ASSUME ThreadsReturn, EverythingIsOwn, Settled(object[o], login[o])
         PROVE  SocketFollows(o, s, lg)
  PROVE  IInv'
<1>1. Control /\ OwnersMatch /\ Control' /\ OwnersMatch'
  BY BeneathControl, BeneathOwners DEF IInv, Ownership
<1>2. Events' = Events /\ s.user = object[o].user /\ s.state = object[o].state
  BY <1>1, BeneathFacts
<1>3. ASSUME ThreadsReturn  PROVE EverythingIsOwn'
  <2>1. EverythingIsOwn
    BY <1>3 DEF IInv, Ownership
  <2>2. OwnSession(object[o]) /\ (Busy(o) => global.ssid \in {object[o].user, NoUser})
    BY <1>1, <2>1, ThreadsRequest, SessionsAssumption DEF EverythingIsOwn, Control, TypeOK
  <2>3. /\ lg \in Running => Busy(o)
        /\ s.fetching => object[o].fetching
        /\ s.account \in {object[o].user, NoUser}
        /\ global'.ssid = global.ssid \/ (Busy(o) /\ global'.ssid = object[o].user)
    BY <1>3, <2>1, <2>2
  <2>4. OwnSession(s)
    BY <1>2, <2>2, <2>3 DEF OwnSession
  <2> QED
    BY <1>1, <2>1, <2>3, <2>4, BeneathOwn
<1>4. ASSUME Tidy  PROVE SocketLayer'
  <2>1. SocketLayer /\ EverythingIsOwn /\ ThreadsReturn /\ ThreadsInside
    BY <1>4 DEF IInv, Sockets, Ownership, Tidy, EverythingIsOwn
  <2>2. SocketFollows(o, s, lg)
    BY <2>1 DEF SocketLayer, LoginsSettle
  <2> QED
    BY <1>1, <2>1, <2>2, BeneathSockets
<1> QED
  BY <1>1, <1>2, <1>3, <1>4 DEF IInv, Ownership, Sockets, Tidy, ThreadsReturn

LEMMA BeneathHolds ==
  ASSUME TypeOK, NEW o \in Objects, NEW s \in Session, NEW lg \in LoginStates,
         UNCHANGED <<inside, lock, listed, request, store, orders, left>>,
         Events' = Events, env' \in Environment, profile' \in Users \cup {NoUser},
         login' = [login EXCEPT ![o] = lg], global' \in Globals,
         s.user = object[o].user, s.state = object[o].state,
         Keeps([object EXCEPT ![o] = s]) \/ (s = object[o] /\ object' = object)
  PROVE  Beneath(o, s, lg)
<1> DEFINE objects == [object EXCEPT ![o] = s]
<1>1. objects \in [Objects -> Session] /\ (s = object[o] => objects = object)
  BY DEF TypeOK
<1> HIDE DEF objects
<1>2. KeptAs(objects)
  <2>1. CASE Keeps(objects)
    BY <1>1, <2>1, KeepsKept
  <2>2. CASE s = object[o] /\ object' = object
    BY <1>1, <2>2, SameKept
  <2> QED
    BY <2>1, <2>2 DEF objects
<1>3. TypeOK'
  BY <1>2 DEF TypeOK, KeptAs
<1> QED
  BY <1>2, <1>3 DEF Beneath, objects
-----------------------------------------------------------------------------
(* The library's steps keep the invariant                                  *)

\* A session whose client has another socket, profile or account.
Socketed(s, c) == [s EXCEPT !.socket = c]
Profiled(s) == [s EXCEPT !.profiled = TRUE]
Sent(s, a) == [s EXCEPT !.account = a, !.profiled = FALSE]
Unknown(s) == [Closed(s) EXCEPT !.account = NoUser]
Retried(s) == [s EXCEPT !.socket = "opening", !.account = NoUser, !.profiled = FALSE,
                        !.way = "password", !.finished = FALSE]

SocketStates == {"closed", "opening", "open"}
\* What a change of the client leaves alone.
Same(t, s) == /\ t.user = s.user /\ t.state = s.state /\ t.fetching = s.fetching
              /\ t.finished = s.finished

LEMMA NewClients ==
  ASSUME NEW s \in Session
  PROVE  /\ \A c \in SocketStates :
              /\ Socketed(s, c) \in Session /\ Same(Socketed(s, c), s)
              /\ Socketed(s, c).socket = c /\ Socketed(s, c).account = s.account
         /\ Profiled(s) \in Session /\ Same(Profiled(s), s)
         /\ Profiled(s).socket = s.socket /\ Profiled(s).account = s.account
         /\ \A a \in Users \cup {NoUser} :
              /\ Sent(s, a) \in Session /\ Same(Sent(s, a), s)
              /\ Sent(s, a).socket = s.socket /\ Sent(s, a).account = a
         /\ Closed(s) \in Session /\ Same(Closed(s), s)
         /\ Closed(s).socket = "closed" /\ Closed(s).account = s.account
         /\ Unknown(s) \in Session /\ Same(Unknown(s), s)
         /\ Unknown(s).socket = "closed" /\ Unknown(s).account = NoUser
         /\ Retried(s) \in Session /\ Retried(s).user = s.user /\ Retried(s).state = s.state
         /\ Retried(s).fetching = s.fetching /\ ~Retried(s).finished
         /\ Retried(s).socket = "opening" /\ Retried(s).account = NoUser
<1>1. ASSUME NEW c \in SocketStates
      PROVE  /\ Socketed(s, c) \in Session /\ Same(Socketed(s, c), s)
             /\ Socketed(s, c).socket = c /\ Socketed(s, c).account = s.account
  BY DEF Session, Socketed, Same, SocketStates
<1>2. ASSUME NEW a \in Users \cup {NoUser}
      PROVE  /\ Sent(s, a) \in Session /\ Same(Sent(s, a), s)
             /\ Sent(s, a).socket = s.socket /\ Sent(s, a).account = a
  BY DEF Session, Sent, Same
<1>3. /\ Profiled(s) \in Session /\ Same(Profiled(s), s)
      /\ Profiled(s).socket = s.socket /\ Profiled(s).account = s.account
  BY DEF Session, Profiled, Same
<1>4. /\ Closed(s) \in Session /\ Same(Closed(s), s)
      /\ Closed(s).socket = "closed" /\ Closed(s).account = s.account
  BY DEF Session, Closed, Same
<1>5. /\ Unknown(s) \in Session /\ Same(Unknown(s), s)
      /\ Unknown(s).socket = "closed" /\ Unknown(s).account = NoUser
  BY DEF Session, Unknown, Closed, Same
<1>6. /\ Retried(s) \in Session /\ Retried(s).user = s.user /\ Retried(s).state = s.state
      /\ Retried(s).fetching = s.fetching /\ ~Retried(s).finished
      /\ Retried(s).socket = "opening" /\ Retried(s).account = NoUser
  BY DEF Session, Retried
<1> QED
  BY <1>1, <1>2, <1>3, <1>4, <1>5, <1>6

LEMMA Things ==
  ASSUME TypeOK, NEW o \in Objects
  PROVE  /\ object[o] \in Session /\ object[o].user \in Users /\ object[o].state \in Globals
         /\ object[o].account \in Users \cup {NoUser} /\ object[o].fetching \in BOOLEAN
         /\ object[o].finished \in BOOLEAN
         /\ object[o].socket \in SocketStates
         /\ object[o].state.ssid \in Users \cup {NoUser}
         /\ login[o] \in LoginStates /\ login = [login EXCEPT ![o] = login[o]]
         /\ global \in Globals /\ global.ssid \in Users \cup {NoUser} /\ global.open \in BOOLEAN
         /\ profile \in Users \cup {NoUser} /\ env \in Environment
         /\ Same(object[o], object[o])
BY DEF TypeOK, Session, Globals, SocketStates, Same

\* A step of a login thread that ends in login state lg, or goes on.
LEMMA LoginMoves ==
  ASSUME IInv, NEW o \in Objects, NEW s \in Session, NEW lg \in LoginStates,
         UNCHANGED <<inside, lock, listed, request, store, orders, left, env>>,
         profile' \in Users \cup {NoUser},
         login' = [login EXCEPT ![o] = lg], global' = global,
         Same(s, object[o]), s.socket \in {object[o].socket, "closed"},
         Keeps([object EXCEPT ![o] = s]) \/ (s = object[o] /\ object' = object),
         login[o] \in Running, lg = "ok" => s.socket # "opening",
         s.account \in {object[o].account, NoUser} \/ s.account = global.ssid
  PROVE  IInv'
<1>1. TypeOK
  BY DEF IInv, Control
<1>2. Beneath(o, s, lg)
  BY <1>1, Things, BeneathHolds DEF Same, Events
<1>3. ASSUME ThreadsReturn, EverythingIsOwn, OwnSession(object[o]),
             Busy(o) => global.ssid \in {object[o].user, NoUser}
      PROVE  /\ lg \in Running => Busy(o)
             /\ s.fetching => object[o].fetching
             /\ s.account \in {object[o].user, NoUser}
             /\ global'.ssid = global.ssid \/ (Busy(o) /\ global'.ssid = object[o].user)
  BY <1>3 DEF Busy, Same, OwnSession
<1>4. ASSUME ThreadsReturn, EverythingIsOwn, Settled(object[o], login[o])
      PROVE  SocketFollows(o, s, lg)
  BY <1>4 DEF SocketFollows, Same, Settled, Usable, Running
<1> QED
  BY <1>2, <1>3, <1>4, ThreadSound

LEMMA SocketSeenSound ==
  ASSUME IInv, NEW o \in Objects, SocketSeen(o)  PROVE IInv'
<1>1. TypeOK
  BY DEF IInv, Control
<1>2. PICK lg \in {"asking", "sending"} : login' = [login EXCEPT ![o] = lg]
  BY DEF SocketSeen
<1>3. /\ UNCHANGED <<inside, lock, listed, request, store, orders, left, env>>
      /\ profile' = profile /\ global' = global /\ object' = object /\ login[o] = "opening"
  BY DEF SocketSeen
<1>4. login[o] \in Running /\ lg \in LoginStates /\ lg # "ok"
  BY <1>2, <1>3 DEF Running, LoginStates
<1> QED
  BY <1>1, <1>2, <1>3, <1>4, Things, LoginMoves

LEMMA LoginStallsSound ==
  ASSUME IInv, NEW o \in Objects, LoginStalls(o)  PROVE IInv'
<1>1. TypeOK
  BY DEF IInv, Control
<1>2. PICK lg \in {"slow", "failed"} : login' = [login EXCEPT ![o] = lg]
  BY DEF LoginStalls
<1>3. PICK s \in {object[o], Closed(object[o])} : Keeps([object EXCEPT ![o] = s])
  BY DEF LoginStalls
<1>4. /\ UNCHANGED <<inside, lock, listed, request, store, orders, left, env>>
      /\ profile' = profile /\ global' = global /\ login[o] = "opening"
  BY DEF LoginStalls
<1>5. login[o] \in Running /\ lg \in LoginStates /\ lg # "ok"
  BY <1>2, <1>4 DEF Running, LoginStates
<1>6. s \in Session /\ Same(s, object[o]) /\ s.socket \in {object[o].socket, "closed"}
      /\ s.account = object[o].account
  BY <1>1, <1>3, Things, NewClients
<1> QED
  BY <1>1, <1>2, <1>3, <1>4, <1>5, <1>6, Things, LoginMoves

LEMMA SsidSentSound ==
  ASSUME IInv, NEW o \in Objects, SsidSent(o)  PROVE IInv'
<1>1. TypeOK
  BY DEF IInv, Control
<1>2. PICK lg \in {"checking", "settling"} : login' = [login EXCEPT ![o] = lg]
  BY DEF SsidSent
<1>3. PICK a \in {global.ssid, NoUser} : Keeps([object EXCEPT ![o] = Sent(object[o], a)])
  BY <1>1, Things DEF SsidSent, Sent, TypeOK
<1>4. /\ UNCHANGED <<inside, lock, listed, request, store, orders, left, env>>
      /\ profile' = NoUser /\ global' = global /\ login[o] \in {"sending", "resending"}
  BY DEF SsidSent
<1>5. login[o] \in Running /\ lg \in LoginStates /\ lg # "ok"
  BY <1>2, <1>4 DEF Running, LoginStates
<1> DEFINE s == Sent(object[o], a)
<1>6. a \in Users \cup {NoUser}
  BY <1>1, <1>3, Things
<1>7. s \in Session /\ Same(s, object[o]) /\ s.socket = object[o].socket /\ s.account = a
  BY <1>1, <1>6, Things, NewClients
<1>8. Keeps([object EXCEPT ![o] = s])
  BY <1>3
<1> HIDE DEF s
<1> QED
  BY <1>1, <1>2, <1>3, <1>4, <1>5, <1>7, <1>8, Things, LoginMoves

LEMMA SsidAcceptedSound ==
  ASSUME IInv, NEW o \in Objects, SsidAccepted(o)  PROVE IInv'
<1>1. TypeOK
  BY DEF IInv, Control
<1>2. PICK lg \in {"ok", "slow"} : login' = [login EXCEPT ![o] = lg]
  BY DEF SsidAccepted, Ended
<1>3. /\ UNCHANGED <<inside, lock, listed, request, store, orders, left, env>>
      /\ profile' = profile /\ global' = global /\ object' = object
      /\ login[o] \in {"checking", "settling"} /\ object[o].socket = "open"
  BY DEF SsidAccepted
<1>4. login[o] \in Running /\ lg \in LoginStates
  BY <1>2, <1>3 DEF Running, LoginStates
<1> QED
  BY <1>1, <1>2, <1>3, <1>4, Things, LoginMoves

LEMMA SsidRejectedSound ==
  ASSUME IInv, NEW o \in Objects, SsidRejected(o)  PROVE IInv'
<1> DEFINE s == Unknown(object[o])
<1>1. TypeOK
  BY DEF IInv, Control
<1>2. PICK lg \in {"renewing", "failed"} : login' = [login EXCEPT ![o] = lg]
  BY DEF SsidRejected
<1>3. /\ UNCHANGED <<inside, lock, listed, request, store, orders, left, env>>
      /\ profile' = profile /\ global' = global /\ login[o] = "checking"
  BY DEF SsidRejected
<1>4. Keeps([object EXCEPT ![o] = s])
  BY <1>1 DEF SsidRejected, Unknown, TypeOK
<1>5. login[o] \in Running /\ lg \in LoginStates /\ lg # "ok"
  BY <1>2, <1>3 DEF Running, LoginStates
<1>6. s \in Session /\ Same(s, object[o]) /\ s.socket = "closed" /\ s.account = NoUser
  BY <1>1, Things, NewClients
<1> HIDE DEF s
<1> QED
  BY <1>1, <1>2, <1>3, <1>4, <1>5, <1>6, Things, LoginMoves

LEMMA LoginClosesSound ==
  ASSUME IInv, NEW o \in Objects, NEW lg \in {"2FA", "failed"},
         login[o] \in {"asking", "renewing"}, login' = [login EXCEPT ![o] = lg],
         UNCHANGED <<global, profile, inside, lock, listed, request, store, orders, left, env>>,
         Keeps([object EXCEPT ![o] = Closed(@)])
  PROVE  IInv'
<1> DEFINE s == Closed(object[o])
<1>1. TypeOK
  BY DEF IInv, Control
<1>2. Keeps([object EXCEPT ![o] = s])
  BY <1>1 DEF TypeOK
<1>3. login[o] \in Running /\ lg \in LoginStates /\ lg # "ok"
  BY DEF Running, LoginStates
<1>4. s \in Session /\ Same(s, object[o]) /\ s.socket = "closed" /\ s.account = object[o].account
  BY <1>1, Things, NewClients
<1> HIDE DEF s
<1> QED
  BY <1>1, <1>2, <1>3, <1>4, Things, LoginMoves

LEMMA SecondFactorAskedSound ==
  ASSUME IInv, NEW o \in Objects, SecondFactorAsked(o)  PROVE IInv'
BY LoginClosesSound DEF SecondFactorAsked

LEMMA PasswordRefusedSound ==
  ASSUME IInv, NEW o \in Objects, PasswordRefused(o)  PROVE IInv'
BY LoginClosesSound DEF PasswordRefused

LEMMA SendFailsSound ==
  ASSUME IInv, NEW o \in Objects, SendFails(o)  PROVE IInv'
<1>1. TypeOK
  BY DEF IInv, Control
<1>2. /\ UNCHANGED <<inside, lock, listed, request, store, orders, left, env>>
      /\ profile' = profile /\ global' = global /\ object' = object
      /\ login[o] \in {"sending", "checking", "settling", "resending"}
      /\ login' = [login EXCEPT ![o] = "failed"]
  BY DEF SendFails
<1>3. login[o] \in Running /\ "failed" \in LoginStates /\ "failed" # "ok"
  BY <1>2 DEF Running, LoginStates
<1> QED
  BY <1>1, <1>2, <1>3, Things, LoginMoves

LEMMA SocketOpensSound ==
  ASSUME IInv, NEW o \in Objects, SocketOpens(o)  PROVE IInv'
<1> DEFINE s == Socketed(object[o], "open")
<1>1. TypeOK
  BY DEF IInv, Control
<1>2. s \in Session /\ s.socket = "open" /\ Same(s, object[o]) /\ s.account = object[o].account
  BY <1>1, Things, NewClients DEF SocketStates
<1>3. /\ object[o].socket = "opening" /\ Keeps([object EXCEPT ![o] = s])
      /\ global' = [global EXCEPT !.open = TRUE] /\ login' = login /\ profile' = profile
      /\ UNCHANGED <<inside, lock, listed, request, store, orders, left, env>>
  BY DEF SocketOpens, Socketed
<1>4. global' \in Globals /\ global'.open /\ global'.ssid = global.ssid
  BY <1>1, <1>3, Things DEF Globals
<1> HIDE DEF s
<1>5. Beneath(o, s, login[o])
  BY <1>1, <1>2, <1>3, <1>4, Things, BeneathHolds DEF Same, Events
<1>6. ASSUME OwnSession(object[o])
      PROVE  /\ login[o] \in Running => Busy(o)
             /\ s.fetching => object[o].fetching
             /\ s.account \in {object[o].user, NoUser}
  BY <1>2, <1>6 DEF Busy, Same, OwnSession
<1>7. ASSUME Settled(object[o], login[o])  PROVE SocketFollows(o, s, login[o])
  BY <1>2, <1>3, <1>4, <1>7 DEF SocketFollows, Same, Settled, Usable
<1> QED
  BY <1>4, <1>5, <1>6, <1>7, ThreadSound

LEMMA ProfileArrivesSound ==
  ASSUME IInv, NEW o \in Objects, ProfileArrives(o)  PROVE IInv'
<1> DEFINE s == Profiled(object[o])
<1>1. TypeOK
  BY DEF IInv, Control
<1>2. s \in Session /\ s.socket = object[o].socket /\ Same(s, object[o]) /\ s.account = object[o].account
  BY <1>1, Things, NewClients
<1>3. /\ object[o].socket = "open" /\ object[o].account # NoUser /\ Keeps([object EXCEPT ![o] = s])
      /\ global' = IF global.balance # NoBalance THEN global
                   ELSE [global EXCEPT !.balance = [account |-> object[o].account, type |-> "PRACTICE"]]
      /\ login' = login /\ profile' = object[o].account
      /\ UNCHANGED <<inside, lock, listed, request, store, orders, left, env>>
  BY DEF ProfileArrives, Profiled
<1>4. global' \in Globals /\ global'.open = global.open /\ global'.ssid = global.ssid
  BY <1>1, <1>3, Things DEF Globals, Balance
<1> HIDE DEF s
<1>5. Beneath(o, s, login[o])
  BY <1>1, <1>2, <1>3, <1>4, Things, BeneathHolds DEF Same, Events
<1>6. ASSUME OwnSession(object[o])
      PROVE  /\ login[o] \in Running => Busy(o)
             /\ s.fetching => object[o].fetching
             /\ s.account \in {object[o].user, NoUser}
  BY <1>2, <1>6 DEF Busy, Same, OwnSession
<1>7. ASSUME Settled(object[o], login[o])  PROVE SocketFollows(o, s, login[o])
  BY <1>2, <1>3, <1>4, <1>7 DEF SocketFollows, Same, Settled, Usable
<1> QED
  BY <1>4, <1>5, <1>6, <1>7, ThreadSound

LEMMA SocketDropsSound ==
  ASSUME IInv, NEW o \in Objects, SocketDrops(o)  PROVE IInv'
<1> DEFINE s == Closed(object[o])
<1>1. TypeOK
  BY DEF IInv, Control
<1>2. s \in Session /\ s.socket = "closed" /\ Same(s, object[o]) /\ s.account = object[o].account
  BY <1>1, Things, NewClients
<1>3. /\ object[o].socket = "open" /\ Keeps([object EXCEPT ![o] = s])
      /\ global' = global /\ login' = login /\ profile' = profile
      /\ UNCHANGED <<inside, lock, listed, request, store, orders, left>>
  BY <1>1 DEF SocketDrops, TypeOK
<1>4. Events' = Events /\ env' \in Environment
  <2>1. CASE env' = env
    BY <1>1, <2>1, Things DEF Events
  <2>2. CASE env.drops > 0 /\ env' = [env EXCEPT !.drops = @ - 1]
    BY <1>1, <2>2, Things DEF Environment, Events
  <2> QED
    BY <2>1, <2>2 DEF SocketDrops
<1> HIDE DEF s
<1>5. Beneath(o, s, login[o])
  BY <1>1, <1>2, <1>3, <1>4, Things, BeneathHolds DEF Same
<1>6. ASSUME OwnSession(object[o])
      PROVE  /\ login[o] \in Running => Busy(o)
             /\ s.fetching => object[o].fetching
             /\ s.account \in {object[o].user, NoUser}
  BY <1>2, <1>6 DEF Busy, Same, OwnSession
<1>7. ASSUME Settled(object[o], login[o])  PROVE SocketFollows(o, s, login[o])
  BY <1>2, <1>3, <1>7 DEF SocketFollows, Same, Settled, Usable
<1> QED
  BY <1>3, <1>5, <1>6, <1>7, ThreadSound

LEMMA PasswordAcceptedSound ==
  ASSUME IInv, NEW o \in Objects, PasswordAccepted(o)  PROVE IInv'
<1> DEFINE c == IF login[o] = "asking" THEN object[o].socket ELSE "opening"
           s == Socketed(object[o], c)
<1>1. TypeOK
  BY DEF IInv, Control
<1>2. s \in Session /\ s.socket = c /\ Same(s, object[o]) /\ s.account = object[o].account
  BY <1>1, Things, NewClients DEF SocketStates
<1>3. /\ login[o] \in {"asking", "renewing"} /\ Keeps([object EXCEPT ![o] = s])
      /\ global' = [global EXCEPT !.ssid = object[o].user, !.open = global.open /\ login[o] = "asking"]
      /\ login' = [login EXCEPT ![o] = "resending"] /\ profile' = profile
      /\ UNCHANGED <<inside, lock, listed, request, store, orders, left, env>>
  BY <1>1 DEF PasswordAccepted, Socketed, TypeOK
<1>4. /\ global' \in Globals /\ global'.ssid = object[o].user
      /\ login[o] = "asking" => global'.open = global.open
  BY <1>1, <1>3, Things DEF Globals
<1>5. "resending" \in LoginStates /\ login[o] \in Running /\ Busy(o)
  BY <1>3 DEF LoginStates, Running, Busy
<1> HIDE DEF s
<1>6. Beneath(o, s, "resending")
  BY <1>1, <1>2, <1>3, <1>4, <1>5, Things, BeneathHolds DEF Same, Events
<1>7. ASSUME OwnSession(object[o])
      PROVE  /\ s.fetching => object[o].fetching
             /\ s.account \in {object[o].user, NoUser}
  BY <1>2, <1>7 DEF Same, OwnSession
<1>8. ASSUME Settled(object[o], login[o])  PROVE SocketFollows(o, s, "resending")
  <2>1. ~object[o].finished /\ ~s.finished
    BY <1>2, <1>5, <1>8 DEF Settled, Same
  <2> QED
    BY <1>2, <1>3, <1>4, <1>5, <2>1 DEF SocketFollows, Settled, Usable
<1> QED
  BY <1>4, <1>5, <1>6, <1>7, <1>8, ThreadSound

LEMMA FetchReconnectsSound ==
  ASSUME IInv, NEW o \in Objects, FetchReconnects(o)  PROVE IInv'
<1> DEFINE s == Retried(object[o])
<1>1. TypeOK
  BY DEF IInv, Control
<1>2. /\ s \in Session /\ s.user = object[o].user /\ s.state = object[o].state
      /\ s.fetching = object[o].fetching /\ ~s.finished /\ s.socket = "opening" /\ s.account = NoUser
  BY <1>1, Things, NewClients
<1>3. /\ object[o].fetching /\ Keeps([object EXCEPT ![o] = s])
      /\ global' = [global EXCEPT !.open = FALSE]
      /\ login' = [login EXCEPT ![o] = "opening"] /\ profile' = profile
      /\ UNCHANGED <<inside, lock, listed, request, store, orders, left, env>>
  BY <1>1 DEF FetchReconnects, Retried, TypeOK
<1>4. global' \in Globals /\ global'.ssid = global.ssid
  BY <1>1, <1>3, Things DEF Globals
<1>5. "opening" \in LoginStates /\ Busy(o)
  BY <1>3 DEF LoginStates, Running, Busy
<1> HIDE DEF s
<1>6. Beneath(o, s, "opening")
  BY <1>1, <1>2, <1>3, <1>4, <1>5, Things, BeneathHolds DEF Events
<1>7. SocketFollows(o, s, "opening")
  BY <1>2, <1>5 DEF SocketFollows, Settled, Usable
<1> QED
  BY <1>2, <1>4, <1>5, <1>6, <1>7, ThreadSound

\* A fetch whose request has gone has outlived its time.
LEMMA FetchEndsSound ==
  ASSUME IInv, NEW o \in Objects, FetchEnds(o)  PROVE IInv'
<1> DEFINE s == Fetched(o)
<1>1. TypeOK
  BY DEF IInv, Control
<1>2. /\ object[o].fetching /\ Keeps([object EXCEPT ![o] = s])
      /\ \A r \in Requests : ~(request[r].pc \in {"login", "market"} /\ Mine(r) = o)
      /\ global' = global /\ login' = [login EXCEPT ![o] = "none"] /\ profile' = profile
      /\ UNCHANGED <<inside, lock, listed, request, store, orders, left, env>>
  BY DEF FetchEnds
<1>3. /\ s \in Session /\ s.user = object[o].user /\ s.state = object[o].state
  BY <1>1, Things DEF Session, Fetched
<1>4. "none" \in LoginStates
  BY DEF LoginStates
<1> HIDE DEF s
<1>5. Beneath(o, s, "none")
  BY <1>1, <1>2, <1>3, <1>4, Things, BeneathHolds DEF Events
<1>6. ~EverythingIsOwn
  <2> SUFFICES ASSUME EverythingIsOwn  PROVE FALSE
    OBVIOUS
  <2>1. Busy(o) /\ Control /\ OwnersMatch /\ ThreadsInside
    BY <1>2 DEF Busy, IInv, Ownership, EverythingIsOwn
  <2> QED
    BY <1>2, <2>1, ThreadsRequest DEF Mine
<1> QED
  BY <1>5, <1>6, ThreadSound
-----------------------------------------------------------------------------
=============================================================================
