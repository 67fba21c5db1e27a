------------------------ MODULE BullexRequestsProofs ------------------------
(***************************************************************************)
(* The requests of bullex_service keep the invariant of                    *)
(* BullexSessionsProofs, with the theorems that follow: who is logged in   *)
(* after a disconnect, on whose account an order is sent, whose SSID is    *)
(* stored, and which open sockets a user has.                              *)
(***************************************************************************)
EXTENDS BullexSessionsProofs

\* A user who left stays out, or leaves with this step.
LeftFollows(r, q) ==
  /\ left' \subseteq left \cup {User(r)}
  /\ User(r) \in left' => /\ User(r) \in left \/ lock[User(r)] = r
                          /\ listed'[User(r)] = NoObject /\ ~store'[User(r)].on
                          /\ q.pc \in Holding => Idles(q)

\* The sessions the request refers to afterwards are its user's.
OwnersFollow(r, q, objects) ==
  /\ \A o \in Objects \ Free : objects[o].user = object[o].user
  /\ q.object # NoObject => objects[q.object].user = q.user
  /\ q.old # NoObject => objects[q.old].user = q.user
  /\ listed'[User(r)] # NoObject => objects[listed'[User(r)]].user = User(r)

\* Whatever it leaves is its user's own, and no thread works outside it.
OwnFollows(r, q, objects) ==
  /\ inside \in {r, NoRequest} => \A o \in Objects : Employs(q, o, objects[o], login'[o])
  /\ \A o \in Objects : OwnSession(objects[o])
  /\ q.pc \in Waiting => global'.ssid \in {q.user, NoUser}
  /\ store'[User(r)].token \in {User(r), NoUser}
  /\ \A order \in orders' : order.account = order.by

\* The flags of the sessions that work are still set.
FlagsFollow(r, q, objects) ==
  /\ inside \in {r, NoRequest} => FlagsLeft(q, objects)
  /\ LoginLeft(q, objects)

\* Its user's sockets are still held, or it has not touched any.
SocketsFollow(r, q, objects) ==
  /\ lock[User(r)] \in {r, NoRequest} /\ q.pc # "cleanup"
  /\ q.pc \in Holding => ByFlow(q, listed'[User(r)], Dead(listed'[User(r)], objects))
  /\ SocketsLeft(r, q, objects) /\ SocketsUntouched(r, objects)
SocketsAlone(r, q, objects) ==
  /\ request[r].pc \notin Holding /\ q.pc \notin Holding /\ q.pc # "cleanup"
  /\ listed' = listed /\ lock' = lock
  /\ \A o \in Objects : /\ objects[o].socket = object[o].socket
                        /\ objects[o].user = object[o].user
                        /\ objects[o].finished = object[o].finished

LEMMA StepSound ==
  ASSUME IInv, NEW r \in Requests, NEW q, NEW objects, Turn(r, q, objects), Equipped(q),
         LeftFollows(r, q), OwnersFollow(r, q, objects),
         ThreadsReturn => OwnFollows(r, q, objects),
         Tidy => FlagsFollow(r, q, objects)
                 /\ (SocketsFollow(r, q, objects) \/ SocketsAlone(r, q, objects))
  PROVE  IInv'
<1>1. Control /\ OwnersMatch /\ Events' = Events
  BY TurnFacts DEF IInv, Ownership
<1>2. Control'
  BY <1>1, ControlStep DEF LeftFollows
<1>3. OwnersMatch'
  BY <1>1, OwnersStep DEF OwnersFollow
<1>4. ASSUME ThreadsReturn  PROVE EverythingIsOwn'
  <2>1. EverythingIsOwn /\ OwnFollows(r, q, objects)
    BY <1>4 DEF IInv, Ownership
  <2> QED
    BY <1>1, <2>1, OwnStep DEF OwnFollows
<1>5. ASSUME Tidy  PROVE SocketLayer'
  <2>1. SocketLayer
    BY <1>5 DEF IInv, Sockets
  <2>2. LoginsSettle' /\ OpenIsFlagged'
    BY <1>1, <1>5, <2>1, FlagsStep DEF FlagsFollow, SocketLayer
  <2>3. ListedByFlow' /\ SocketsAreHeld'
    <3>1. CASE SocketsFollow(r, q, objects)
      BY <1>1, <2>1, <3>1, HeldStep DEF SocketsFollow, SocketLayer
    <3>2. CASE SocketsAlone(r, q, objects)
      BY <1>1, <2>1, <3>2, HeldStay DEF SocketsAlone, SocketLayer
    <3> QED
      BY <1>5, <3>1, <3>2
  <2> QED
    BY <2>2, <2>3 DEF SocketLayer
<1> QED
  BY <1>1, <1>2, <1>3, <1>4, <1>5 DEF IInv, Ownership, Sockets, Tidy, ThreadsReturn

Rows == [on : BOOLEAN, token : Users \cup {NoUser}]
Booked == [by : Users, account : Users \cup {NoUser}, balance : Users \cup {NoUser}]

LEMMA TurnHolds ==
  ASSUME TypeOK, NEW r \in Requests, NEW q \in Request, NEW objects,
         request' = [request EXCEPT ![r] = q], KeptAs(objects), env' = env, profile' = profile,
         UserLockFollows(r, q), ProcessLockFollows(r, q),
         inside \notin {r, NoRequest} => objects = object /\ login' = login,
         global' \in Globals, login' \in [Objects -> LoginStates],
         listed' \in [Users -> Objects \cup {NoObject}], store' \in [Users -> Rows],
         \A u \in Users \ {User(r)} : listed'[u] = listed[u] /\ store'[u] = store[u],
         orders' \subseteq Booked, left' \subseteq Users
  PROVE  Turn(r, q, objects)
<1>1. lock' \in [Users -> Requests \cup {NoRequest}]
  BY DEF TypeOK, UserLockFollows
<1>2. inside' \in Requests \cup {NoRequest}
  BY DEF TypeOK, ProcessLockFollows
<1>3. /\ request' \in [Requests -> Request] /\ object' \in [Objects -> Session]
      /\ env' \in Environment /\ profile' \in Users \cup {NoUser}
  BY DEF TypeOK, KeptAs
<1> QED
  BY <1>1, <1>2, <1>3 DEF Turn, TypeOK, Rows, Booked

LEMMA KeepsUserLock ==
  ASSUME Control, NEW r \in Requests, NEW q, request[r].pc \in Holding, q.pc \in Holding,
         q.user = User(r), lock' = lock
  PROVE  UserLockFollows(r, q)
BY Holder DEF UserLockFollows, Control, TypeOK

LEMMA NeedsNoLock ==
  ASSUME Control, NEW r \in Requests, NEW q, request[r].pc \notin Holding, q.pc \notin Holding,
         lock' = lock
  PROVE  UserLockFollows(r, q)
<1>1. lock[User(r)] # r /\ User(r) \in Users
  BY DEF Control, UserLocks, TypeOK, User, Request
<1> QED
  BY <1>1 DEF UserLockFollows, Control, TypeOK

LEMMA TakesUserLock ==
  ASSUME NEW r \in Requests, NEW k, TakesLock(r, k), NEW q, q.pc \in Holding, q.user = User(r)
  PROVE  UserLockFollows(r, q)
BY DEF TakesLock, UserLockFollows

LEMMA GivesLockBack ==
  ASSUME NEW r \in Requests, Done(r)
  PROVE  /\ UserLockFollows(r, Idle) /\ request' = [request EXCEPT ![r] = Idle]
         /\ Idle \in Request /\ Equipped(Idle) /\ Idle.pc \notin Holding /\ Idle.pc \notin Waiting
         /\ Idle.pc # "cleanup" /\ Idle.object = NoObject /\ Idle.old = NoObject
<1>1. Idle.pc \notin Holding /\ Idle.pc \notin Waiting /\ Equipped(Idle)
  BY Blanks DEF Holding, Waiting, Equipped, Idle
<1> QED
  BY <1>1, Blanks DEF Done, UserLockFollows

LEMMA ContextFollows ==
  ASSUME Control, NEW r \in Requests, NEW q,
         \/ Brief /\ q.pc \notin Waiting
         \/ inside = NoRequest /\ inside' = r /\ q.pc \in Waiting
         \/ request[r].pc \in Waiting /\ inside' = NoRequest /\ q.pc \notin Waiting
         \/ request[r].pc \in Waiting /\ inside' = inside /\ q.pc \in Waiting
         \/ request[r].pc \notin Waiting /\ inside' = inside /\ global' = global /\ q.pc \notin Waiting
  PROVE  ProcessLockFollows(r, q)
<1>1. inside = r <=> request[r].pc \in Waiting
  BY DEF Control, ProcessLock
<1> QED
  BY <1>1, SessionsAssumption DEF ProcessLockFollows, Brief

\* The list and the rows of others stay.
LEMMA Listing ==
  ASSUME TypeOK, NEW u \in Users, listed' = listed \/ Remove(u) \/ (\E o \in Objects : Upsert(u, o))
  PROVE  listed' \in [Users -> Objects \cup {NoObject}] /\ \A v \in Users \ {u} : listed'[v] = listed[v]
BY DEF TypeOK, Remove, Upsert

LEMMA Storing ==
  ASSUME TypeOK, NEW u \in Users,
         store' = store \/ (\E row \in Rows : store' = [store EXCEPT ![u] = row])
  PROVE  store' \in [Users -> Rows] /\ \A v \in Users \ {u} : store'[v] = store[v]
BY DEF TypeOK, Rows

LEMMA StoreRows ==
  ASSUME NEW row \in Rows
  PROVE  /\ Revoked(row) \in Rows /\ ~Revoked(row).on /\ Revoked(row).token = NoUser
         /\ Off(row) \in Rows /\ ~Off(row).on /\ Off(row).token = row.token
         /\ \A s \in Session : Persisted(row, s) \in Rows /\ Persisted(row, s).token \in {row.token, s.state.ssid}
BY DEF Revoked, Off, Persisted, Session, Globals, Rows

\* The session objects a request of user u changes are u's; it refers to
\* sessions it or the list of its user referred to.
Reworks(r, objects) ==
  /\ objects \in [Objects -> Session]
  /\ \A o \in Objects : \/ objects[o] = object[o] /\ login'[o] = login[o]
                        \/ object[o].user = User(r) /\ objects[o].user = User(r)
Known(r) == {request[r].object, request[r].old, listed[User(r)], NoObject}

LEMMA ReworksOwn ==
  ASSUME IInv, NEW r \in Requests, NEW q, NEW objects, Reworks(r, objects),
         q.object \in Known(r), q.old \in Known(r), listed'[User(r)] \in Known(r),
         q.user = User(r) \/ (q.object = NoObject /\ q.old = NoObject)
  PROVE  OwnersFollow(r, q, objects) /\ SocketsUntouched(r, objects)
<1>1. \A o \in Objects : objects[o].user = object[o].user
  BY DEF Reworks
<1>2. User(r) \in Users /\ \A o \in Known(r) : o \in Objects \cup {NoObject}
  BY DEF IInv, Control, TypeOK, Known, User, Request
<1>3. \A o \in Known(r) : o # NoObject => object[o].user = User(r)
  BY <1>2 DEF IInv, Ownership, OwnersMatch, Known
<1>4. OwnersFollow(r, q, objects)
  BY <1>1, <1>2, <1>3 DEF OwnersFollow
<1>5. SocketsUntouched(r, objects)
  BY <1>1 DEF Reworks, SocketsUntouched
<1> QED
  BY <1>4, <1>5

\* A request that is not idle works for a user who has not left.
LEMMA NotLeft ==
  ASSUME IInv, NEW r \in Requests, request[r].pc \in Holding, ~Idles(request[r]), left' = left, NEW q
  PROVE  LeftFollows(r, q)
BY DEF IInv, Control, LeftIsIdle, LeftFollows

\* Where the working session is of the user of a request that holds the user
\* lock, or may take it.
LEMMA MySockets ==
  ASSUME IInv, Tidy, NEW r \in Requests, lock[User(r)] \in {r, NoRequest},
         NEW o \in Objects, object[o].user = User(r), Usable(object[o])
  PROVE  listed[User(r)] = o \/ (lock[User(r)] = r /\ Makes(request[r], o))
BY DEF IInv, Sockets, SocketLayer, SocketsAreHeld

\* What the invariant says of one request and of one session.
LEMMA RequestFacts ==
  ASSUME IInv, NEW r \in Requests
  PROVE  /\ Control /\ TypeOK /\ Equipped(request[r]) /\ request[r] \in Request
         /\ User(r) \in Users /\ User(r) = request[r].user /\ r # NoRequest
         /\ Mine(r) = request[r].object /\ Mine(r) \in Objects \cup {NoObject}
         /\ request[r].old \in Objects \cup {NoObject} /\ listed[User(r)] \in Objects \cup {NoObject}
         /\ listed[User(r)] # NoObject => object[listed[User(r)]].user = User(r)
         /\ Mine(r) # NoObject => object[Mine(r)].user = User(r)
         /\ request[r].old # NoObject => object[request[r].old].user = User(r)
         /\ request[r].pc \in Holding => lock[User(r)] = r
         /\ inside = r <=> request[r].pc \in Waiting
         /\ store[User(r)] \in Rows /\ store \in [Users -> Rows] /\ orders \subseteq Booked
         /\ object \in [Objects -> Session] /\ login \in [Objects -> LoginStates]
         /\ left \subseteq Users /\ global \in Globals
         /\ MaxAttempts > 0 /\ MaxAttempts \in Nat
BY Holder, SessionsAssumption
   DEF IInv, Control, TypeOK, RequestsAreEquipped, Request, User, Mine, Ownership, OwnersMatch, Rows,
       Booked, ProcessLock

\* ... and of the flags, seen from a request that is inside the process lock
\* or may enter it.
LEMMA MyFlags ==
  ASSUME IInv, Tidy, NEW r \in Requests, inside \in {r, NoRequest}
  PROVE  /\ \A o \in Objects :
              /\ Settled(object[o], login[o])
              /\ Usable(object[o]) => object[o].state.open \/ (inside = r /\ Mine(r) = o)
         /\ inside = r => FlagIsSet(request[r], object[Mine(r)], global.open)
BY SessionsAssumption DEF IInv, Sockets, SocketLayer, LoginsSettle, OpenIsFlagged

\* ... and of the threads: none works but for a request at its login or its
\* fetch.
LEMMA MyThreads ==
  ASSUME IInv, ThreadsReturn, NEW r \in Requests, inside \in {r, NoRequest}
  PROVE  /\ EverythingIsOwn
         /\ \A o \in Objects : Employs(request[r], o, object[o], login[o])
<1>1. EverythingIsOwn
  BY DEF IInv, Ownership
<1> QED
  BY <1>1, SessionsAssumption DEF EverythingIsOwn, ThreadsInside, Busy, Employs, At, Mine
-----------------------------------------------------------------------------
(* Requests that change no session                                         *)

Steps ==
  {"idle", "wait", "close", "new", "login", "ready", "readying", "loading",
   "check", "call", "calling", "market", "tail", "forcing", "cleanup"}

\* A request at its next step, also with another session.
Moved(q, pc) == [q EXCEPT !.pc = pc]
MovedWith(q, pc, o) == [q EXCEPT !.pc = pc, !.object = o]

LEMMA NextRequest ==
  ASSUME NEW q \in Request, NEW pc \in Steps
  PROVE  /\ Moved(q, pc) \in Request /\ Moved(q, pc).pc = pc
         /\ Moved(q, pc).user = q.user /\ Moved(q, pc).kind = q.kind
         /\ Moved(q, pc).object = q.object /\ Moved(q, pc).old = q.old
         /\ Moved(q, pc).flow = q.flow /\ Moved(q, pc).attempt = q.attempt
BY DEF Request, Steps, Moved

LEMMA NextRequestWith ==
  ASSUME NEW q \in Request, NEW pc \in Steps, NEW o \in Objects \cup {NoObject}
  PROVE  /\ MovedWith(q, pc, o) \in Request /\ MovedWith(q, pc, o).pc = pc
         /\ MovedWith(q, pc, o).user = q.user /\ MovedWith(q, pc, o).kind = q.kind
         /\ MovedWith(q, pc, o).object = o /\ MovedWith(q, pc, o).old = q.old
         /\ MovedWith(q, pc, o).flow = q.flow /\ MovedWith(q, pc, o).attempt = q.attempt
BY DEF Request, Steps, MovedWith

LEMMA Unworked ==
  ASSUME IInv, NEW r, object' = object \/ Keeps(object), login' = login
  PROVE  KeptAs(object) /\ Reworks(r, object) /\ login' \in [Objects -> LoginStates]
BY SameKept, KeepsKept DEF Reworks, IInv, Control, TypeOK

LEMMA OwnStays ==
  ASSUME IInv, ThreadsReturn, NEW r \in Requests, NEW q, NEW objects, login' = login,
         request[r].pc \notin {"login", "market"},
         \A o \in Objects : \/ objects[o] = object[o]
                            \/ OwnSession(objects[o]) /\ objects[o].fetching = object[o].fetching,
         q.pc \in Waiting => global'.ssid \in {q.user, NoUser},
         store'[User(r)].token \in {store[User(r)].token, User(r), NoUser}, orders' = orders
  PROVE  OwnFollows(r, q, objects)
<1>1. EverythingIsOwn
  BY DEF IInv, Ownership
<1>2. inside \in {r, NoRequest} => \A o \in Objects : Employs(q, o, objects[o], login'[o])
  BY MyThreads DEF Employs
<1> QED
  BY <1>1, <1>2, RequestFacts DEF EverythingIsOwn, OwnFollows

LEMMA FlagsRest ==
  ASSUME IInv, Tidy, NEW r \in Requests, NEW q, login' = login,
         inside # r \/ (q.pc \in Waiting /\ q.object = Mine(r)),
         q.pc \in Waiting => FlagIsSet(q, object[q.object], global'.open)
  PROVE  FlagsFollow(r, q, object)
BY MyFlags, SessionsAssumption DEF FlagsFollow, FlagsLeft, LoginLeft

\* Nothing moves but the request.
LEMMA SocketsRest ==
  ASSUME IInv, Tidy, NEW r \in Requests, NEW q, lock[User(r)] \in {r, NoRequest},
         listed' = listed, q.pc # "cleanup",
         \A o \in Objects : Makes(request[r], o) => Makes(q, o),
         q.pc \in Holding => ByFlow(q, listed[User(r)], Dead(listed[User(r)], object))
  PROVE  SocketsFollow(r, q, object)
BY MySockets DEF SocketsFollow, SocketsLeft, SocketsUntouched

LEMMA ArrivesSound ==
  ASSUME IInv, NEW r \in Requests, NEW u \in Users, NEW k \in Kinds, Arrives(r, u, k)
  PROVE  IInv'
<1> DEFINE q == [Idle EXCEPT !.user = u, !.kind = k, !.pc = "wait"]
<1>1. /\ q \in Request /\ q.pc = "wait" /\ q.object = NoObject /\ q.old = NoObject
      /\ q.flow = "connect" /\ q.attempt = 0
  BY Blanks DEF Request
<1>2. request' = [request EXCEPT ![r] = q] /\ request[r].pc = "idle"
  BY DEF Arrives, At
<1>3. UNCHANGED <<global, profile, inside, lock, listed, object, login, store, orders, left, env>>
  BY DEF Arrives
<1> HIDE DEF q
<1>4. /\ q.pc \notin Holding /\ q.pc \notin Waiting /\ Equipped(q) /\ q.pc # "cleanup"
      /\ request[r].pc \notin Holding /\ request[r].pc \notin Waiting
      /\ request[r].pc \notin {"login", "market"}
  BY <1>1, <1>2 DEF Holding, Waiting, Equipped
<1>5. UserLockFollows(r, q) /\ ProcessLockFollows(r, q)
  BY <1>3, <1>4, RequestFacts, NeedsNoLock, ContextFollows
<1>6. Turn(r, q, object)
  BY <1>1, <1>2, <1>3, <1>5, RequestFacts, Unworked, TurnHolds, Listing, Storing
<1>7. LeftFollows(r, q)
  BY <1>3, <1>4, RequestFacts DEF LeftFollows, Control, LeftStaysOut
<1>8. OwnersFollow(r, q, object)
  BY <1>1, <1>3, Unworked, ReworksOwn, RequestFacts DEF Known
<1>9. ThreadsReturn => OwnFollows(r, q, object)
  BY <1>3, <1>4, OwnStays
<1>10. Tidy => FlagsFollow(r, q, object)
  BY <1>3, <1>4, FlagsRest, RequestFacts
<1>11. SocketsAlone(r, q, object)
  BY <1>3, <1>4 DEF SocketsAlone
<1> QED
  BY <1>4, <1>6, <1>7, <1>8, <1>9, <1>10, <1>11, StepSound

\* A request that takes its user's lock and touches no session.
LEMMA TakesLockSound ==
  ASSUME IInv, NEW r \in Requests, NEW k, TakesLock(r, k), NEW q \in Request,
         request' = [request EXCEPT ![r] = q], q.user = User(r), Equipped(q),
         q.pc \in {"close", "new", "check", "call"},
         q.object \in {NoObject, listed[User(r)]}, q.old = NoObject,
         inside' = inside, global' = global \/ (Brief /\ global' \in Globals),
         UNCHANGED <<profile, listed, object, login, orders, env>>,
         store' = store \/ store' = [store EXCEPT ![User(r)] = Revoked(store[User(r)])],
         left' \subseteq left, User(r) \in left' => Idles(q),
         Tidy => ByFlow(q, listed[User(r)], Dead(listed[User(r)], object))
  PROVE  IInv'
<1>1. request[r].pc = "wait" /\ lock[User(r)] = NoRequest
  BY DEF TakesLock, At
<1>2. /\ request[r].pc \notin Waiting /\ request[r].pc \notin Making
      /\ request[r].pc \notin {"login", "market"}
      /\ q.pc \in Holding /\ q.pc \notin Waiting /\ q.pc # "cleanup"
  BY <1>1 DEF Holding, Waiting, Making
<1>3. UserLockFollows(r, q) /\ ProcessLockFollows(r, q)
  <2>1. UserLockFollows(r, q)
    BY <1>2, TakesUserLock
  <2>2. ProcessLockFollows(r, q)
    BY <1>2, RequestFacts, ContextFollows
  <2> QED
    BY <2>1, <2>2
<1>4. /\ store' \in [Users -> Rows] /\ \A v \in Users \ {User(r)} : store'[v] = store[v]
      /\ store'[User(r)].token \in {store[User(r)].token, NoUser}
      /\ store'[User(r)].on => store[User(r)].on
  <2>1. Revoked(store[User(r)]) \in Rows
    BY RequestFacts, StoreRows
  <2>2. store' \in [Users -> Rows] /\ \A v \in Users \ {User(r)} : store'[v] = store[v]
    BY <2>1, RequestFacts, Storing
  <2>3. store'[User(r)] \in {store[User(r)], Revoked(store[User(r)])}
    BY RequestFacts
  <2> QED
    BY <2>2, <2>3, RequestFacts, StoreRows
<1>5. Turn(r, q, object)
  <2>1. listed' \in [Users -> Objects \cup {NoObject}] /\ \A v \in Users \ {User(r)} : listed'[v] = listed[v]
    BY RequestFacts, Listing
  <2>2. global' \in Globals /\ orders' \subseteq Booked /\ left' \subseteq Users /\ env' = env
    BY RequestFacts
  <2>3. KeptAs(object) /\ login' \in [Objects -> LoginStates]
    BY Unworked
  <2> QED
    BY <1>3, <1>4, <2>1, <2>2, <2>3, RequestFacts, TurnHolds
<1>6. LeftFollows(r, q)
  BY <1>4, RequestFacts DEF LeftFollows, Control, LeftStaysOut
<1>7. OwnersFollow(r, q, object)
  BY Unworked, ReworksOwn DEF Known
<1>8. ThreadsReturn => OwnFollows(r, q, object)
  BY <1>2, <1>4, OwnStays
<1>9. Tidy => FlagsFollow(r, q, object)
  BY <1>2, RequestFacts, FlagsRest
<1>10. Tidy => SocketsFollow(r, q, object)
  BY <1>1, <1>2, SocketsRest DEF Makes
<1> QED
  BY <1>5, <1>6, <1>7, <1>8, <1>9, <1>10, StepSound
\* A waiting request is as it arrived.
LEMMA Waits ==
  ASSUME IInv, NEW r \in Requests, request[r].pc = "wait"
  PROVE  /\ request[r].object = NoObject /\ request[r].old = NoObject
         /\ request[r].flow = "connect" /\ request[r].attempt = 0
BY RequestFacts DEF Equipped

LEMMA ConnectBeginsSound ==
  ASSUME IInv, NEW r \in Requests, ConnectBegins(r)  PROVE IInv'
<1> DEFINE u == User(r)
           a == MovedWith(request[r], "close", listed[u])
           b == Moved(request[r], "new")
<1>1. /\ TakesLock(r, "connect") /\ left' = left \ {u}
      /\ UNCHANGED <<global, profile, inside, listed, object, login, orders, env>>
      /\ \/ listed[u] # NoObject /\ request' = [request EXCEPT ![r] = a] /\ store' = store
         \/ /\ listed[u] = NoObject /\ request' = [request EXCEPT ![r] = b]
            /\ store' = [store EXCEPT ![u] = Revoked(store[u])]
  BY DEF ConnectBegins, Goto, Moved, MovedWith
<1>2. request[r].pc = "wait" /\ request[r].kind = "connect"
  BY <1>1 DEF TakesLock, At
<1>3. /\ a \in Request /\ a.user = u /\ a.kind = "connect" /\ a.attempt = 0
      /\ a.flow = "connect" /\ a.old = NoObject /\ a.pc = "close" /\ a.object = listed[u]
  <2>1. "close" \in Steps
    BY DEF Steps
  <2>2. /\ request[r] \in Request /\ listed[u] \in Objects \cup {NoObject}
        /\ u = request[r].user
    BY RequestFacts
  <2> QED
    BY <1>2, <2>1, <2>2, Waits, NextRequestWith
<1>4. /\ b \in Request /\ b.user = u /\ b.kind = "connect" /\ b.attempt = 0
      /\ b.flow = "connect" /\ b.old = NoObject /\ b.pc = "new" /\ b.object = NoObject
  <2>1. "new" \in Steps
    BY DEF Steps
  <2> QED
    BY <1>2, <2>1, RequestFacts, Waits, NextRequest
<1> HIDE DEF a, b
<1>5. listed[u] # NoObject => Equipped(a)
  BY <1>3 DEF Equipped
<1>6. ByFlow(a, listed[u], Dead(listed[u], object))
  BY <1>3 DEF ByFlow, Working, Making
<1>7. Equipped(b) /\ (listed[u] = NoObject => ByFlow(b, listed[u], Dead(listed[u], object)))
  BY <1>4, RequestFacts DEF Equipped, ByFlow, Working, Making, Dead
<1>8. PICK q \in {a, b} : /\ request' = [request EXCEPT ![r] = q] /\ Equipped(q)
                           /\ ByFlow(q, listed[u], Dead(listed[u], object))
  BY <1>1, <1>5, <1>6, <1>7
<1>9. /\ q.pc \in {"close", "new", "check", "call"} /\ q.object \in {NoObject, listed[u]}
      /\ q \in Request /\ q.user = u /\ q.old = NoObject
  BY <1>3, <1>4, <1>8
<1> QED
  BY <1>1, <1>8, <1>9, TakesLockSound

LEMMA ConnectBreaksSound ==
  ASSUME IInv, NEW r \in Requests, ConnectBreaks(r)  PROVE IInv'
<1> DEFINE q == Moved(request[r], "cleanup")
<1>1. /\ "database" \in Events /\ request[r].pc = "wait" /\ request[r].kind = "connect"
      /\ request' = [request EXCEPT ![r] = q]
      /\ UNCHANGED <<global, profile, inside, lock, listed, object, login, store, orders, left, env>>
  BY DEF ConnectBreaks, At, Goto, Moved
<1>2. /\ q \in Request /\ q.pc = "cleanup" /\ q.object = NoObject /\ q.old = NoObject
      /\ q.flow = "connect"
  BY <1>1, RequestFacts, Waits, NextRequest DEF Steps
<1> HIDE DEF q
<1>3. /\ q.pc \notin Holding /\ q.pc \notin Waiting /\ Equipped(q)
      /\ request[r].pc \notin Holding /\ request[r].pc \notin Waiting
      /\ request[r].pc \notin {"login", "market"}
  BY <1>1, <1>2 DEF Holding, Waiting, Equipped
<1>4. UserLockFollows(r, q) /\ ProcessLockFollows(r, q)
  BY <1>1, <1>3, RequestFacts, NeedsNoLock, ContextFollows
<1>5. Turn(r, q, object)
  BY <1>1, <1>2, <1>4, RequestFacts, Unworked, TurnHolds, Listing, Storing
<1>6. LeftFollows(r, q)
  BY <1>1, <1>3, RequestFacts DEF LeftFollows, Control, LeftStaysOut
<1>7. OwnersFollow(r, q, object)
  BY <1>1, <1>2, Unworked, ReworksOwn, RequestFacts DEF Known
<1>8. ThreadsReturn => OwnFollows(r, q, object)
  BY <1>1, <1>3, OwnStays
<1>9. ~Tidy
  BY <1>1 DEF Tidy
<1> QED
  BY <1>3, <1>5, <1>6, <1>7, <1>8, <1>9, StepSound

LEMMA SmsBeginsSound ==
  ASSUME IInv, NEW r \in Requests, SmsBegins(r)  PROVE IInv'
<1> DEFINE u == User(r)
           o == listed[u]
           a == MovedWith(request[r], "call", o)
           b == MovedWith(request[r], "new", o)
<1>1. /\ TakesLock(r, "sms") /\ o # NoObject /\ left' = left \ {u} /\ inside' = inside
      /\ UNCHANGED <<profile, listed, object, login, store, orders, env>>
      /\ \/ request' = [request EXCEPT ![r] = a] /\ Brief /\ global' = object[o].state
         \/ request' = [request EXCEPT ![r] = b] /\ global' = global
  BY DEF SmsBegins, MovedWith, Brief, Activate
<1>2. request[r].pc = "wait" /\ request[r].kind = "sms"
  BY <1>1 DEF TakesLock, At
<1>3. \A q \in {a, b} : /\ q \in Request /\ q.user = u /\ q.kind = "sms" /\ q.object = o
                         /\ q.attempt = 0 /\ q.flow = "connect" /\ q.old = NoObject
                         /\ q.pc \in {"call", "new"}
  <2>1. "call" \in Steps /\ "new" \in Steps
    BY DEF Steps
  <2>2. /\ request[r] \in Request /\ listed[u] \in Objects \cup {NoObject}
        /\ u = request[r].user
    BY RequestFacts
  <2> QED
    BY <1>2, <2>1, <2>2, Waits, NextRequestWith
<1> HIDE DEF a, b
<1>4. ASSUME NEW q \in {a, b}  PROVE Equipped(q) /\ ByFlow(q, o, Dead(o, object))
  BY <1>1, <1>3, RequestFacts DEF Equipped, ByFlow, Working, Making
<1>5. object[o].state \in Globals
  BY <1>1, RequestFacts, Things
<1>6. PICK q \in {a, b} : request' = [request EXCEPT ![r] = q]
  BY <1>1
<1>7. q.pc \in {"close", "new", "check", "call"} /\ q.object \in {NoObject, listed[u]}
  BY <1>3
<1>8. global' = global \/ (Brief /\ global' \in Globals)
  BY <1>1, <1>5
<1> QED
  BY <1>1, <1>3, <1>4, <1>6, <1>7, <1>8, TakesLockSound

LEMMA DisconnectBeginsSound ==
  ASSUME IInv, NEW r \in Requests, DisconnectBegins(r)  PROVE IInv'
<1> DEFINE u == User(r)
           q == MovedWith(request[r], "close", listed[u])
<1>1. /\ TakesLock(r, "disconnect") /\ request' = [request EXCEPT ![r] = q]
      /\ UNCHANGED <<global, profile, inside, listed, object, login, store, orders, left, env>>
  BY DEF DisconnectBegins, MovedWith
<1>2. request[r].pc = "wait" /\ request[r].kind = "disconnect"
  BY <1>1 DEF TakesLock, At
<1>3. /\ q \in Request /\ q.user = u /\ q.kind = "disconnect" /\ q.object = listed[u]
      /\ q.attempt = 0 /\ q.flow = "connect" /\ q.old = NoObject /\ q.pc = "close"
  <2>1. "close" \in Steps
    BY DEF Steps
  <2>2. /\ request[r] \in Request /\ listed[u] \in Objects \cup {NoObject}
        /\ u = request[r].user
    BY RequestFacts
  <2> QED
    BY <1>2, <2>1, <2>2, Waits, NextRequestWith
<1> HIDE DEF q
<1>4. Equipped(q) /\ Idles(q) /\ ByFlow(q, listed[u], Dead(listed[u], object))
  BY <1>3 DEF Equipped, Idles, ByFlow, Working, Making
<1> QED
  BY <1>1, <1>3, <1>4, TakesLockSound

\* A restore starts from the stored row.
Restores(q) == [q EXCEPT !.pc = "new", !.flow = "restore"]

LEMMA StatusBeginsSound ==
  ASSUME IInv, NEW r \in Requests, StatusBegins(r)  PROVE IInv'
<1> DEFINE u == User(r)
           a == Moved(request[r], "check")
           b == Restores(request[r])
<1>1. /\ TakesLock(r, "status")
      /\ UNCHANGED <<global, profile, inside, listed, object, login, store, orders, left, env>>
      /\ \/ request' = [request EXCEPT ![r] = a]
         \/ listed[u] = NoObject /\ store[u].on /\ request' = [request EXCEPT ![r] = b]
  BY DEF StatusBegins, Goto, Moved, Restores
<1>2. request[r].pc = "wait" /\ request[r].kind = "status"
  BY <1>1 DEF TakesLock, At
<1>3. /\ a \in Request /\ a.user = u /\ a.kind = "status" /\ a.object = NoObject
      /\ a.old = NoObject /\ a.pc = "check"
  BY <1>2, RequestFacts, Waits, NextRequest DEF Steps
<1>4. /\ b \in Request /\ b.user = u /\ b.kind = "status" /\ b.object = NoObject
      /\ b.old = NoObject /\ b.pc = "new" /\ b.flow = "restore" /\ b.attempt = 0
  <2>1. request[r] \in Request
    BY RequestFacts
  <2>2. b \in Request /\ b.pc = "new" /\ b.flow = "restore"
    BY <2>1 DEF Restores, Request
  <2>3. b.user = request[r].user /\ b.kind = request[r].kind /\ b.object = request[r].object
        /\ b.old = request[r].old /\ b.attempt = request[r].attempt
    BY <2>1 DEF Restores, Request
  <2> QED
    BY <1>2, <2>2, <2>3, Waits, RequestFacts
<1> HIDE DEF a, b
<1>5. Equipped(a) /\ Idles(a) /\ ByFlow(a, listed[u], Dead(listed[u], object))
  BY <1>3 DEF Equipped, Idles, ByFlow, Working, Making
<1>6. Equipped(b) /\ (listed[u] = NoObject => ByFlow(b, listed[u], Dead(listed[u], object)))
  BY <1>4, RequestFacts DEF Equipped, ByFlow, Working, Making, Dead
<1>7. store[u].on => u \notin left
  BY RequestFacts DEF Control, LeftStaysOut
<1>8. CASE request' = [request EXCEPT ![r] = a]
  BY <1>1, <1>3, <1>5, <1>8, TakesLockSound
<1>9. CASE listed[u] = NoObject /\ store[u].on /\ request' = [request EXCEPT ![r] = b]
  BY <1>1, <1>4, <1>6, <1>7, <1>9, TakesLockSound
<1> QED
  BY <1>1, <1>8, <1>9

LEMMA CallBeginsSound ==
  ASSUME IInv, NEW r \in Requests, CallBegins(r)  PROVE IInv'
<1> DEFINE u == User(r)
           q == Moved(request[r], "check")
<1>1. PICK k \in {"order", "mode", "market"} : TakesLock(r, k)
  BY DEF CallBegins
<1>2. /\ request' = [request EXCEPT ![r] = q]
      /\ UNCHANGED <<global, profile, inside, listed, object, login, store, orders, left, env>>
  BY DEF CallBegins, Goto, Moved
<1>3. request[r].pc = "wait" /\ request[r].kind = k
  BY <1>1 DEF TakesLock, At
<1>4. /\ q \in Request /\ q.user = u /\ q.kind = k /\ q.object = NoObject
      /\ q.old = NoObject /\ q.pc = "check"
  BY <1>3, RequestFacts, Waits, NextRequest DEF Steps
<1> HIDE DEF q
<1>5. Equipped(q) /\ Idles(q) /\ ByFlow(q, listed[u], Dead(listed[u], object))
  BY <1>4 DEF Equipped, Idles, ByFlow, Working, Making
<1> QED
  BY <1>1, <1>2, <1>4, <1>5, TakesLockSound

LEMMA SmsRefusedSound ==
  ASSUME IInv, NEW r \in Requests, SmsRefused(r)  PROVE IInv'
<1> DEFINE u == User(r)
<1>1. /\ request[r].pc = "wait" /\ lock[u] = NoRequest /\ Done(r)
      /\ store' = [store EXCEPT ![u] = Revoked(store[u])]
      /\ UNCHANGED <<global, profile, inside, listed, object, login, orders, left, env>>
  BY DEF SmsRefused, At
<1>2. /\ request[r].pc \notin Waiting /\ request[r].pc \notin Making
      /\ request[r].pc \notin {"login", "market"}
  BY <1>1 DEF Waiting, Making
<1>3. ProcessLockFollows(r, Idle)
  BY <1>1, <1>2, RequestFacts, GivesLockBack, ContextFollows
<1>4. /\ store' \in [Users -> Rows] /\ \A v \in Users \ {u} : store'[v] = store[v]
      /\ store'[u].token = NoUser /\ ~store'[u].on
  <2>1. Revoked(store[u]) \in Rows /\ Revoked(store[u]).token = NoUser /\ ~Revoked(store[u]).on
    BY RequestFacts, StoreRows
  <2> QED
    BY <1>1, <2>1, RequestFacts, Storing
<1>5. Turn(r, Idle, object)
  BY <1>1, <1>3, <1>4, RequestFacts, Unworked, TurnHolds, Listing, GivesLockBack
<1>6. LeftFollows(r, Idle)
  BY <1>1, <1>4, RequestFacts, GivesLockBack DEF LeftFollows, Control, LeftStaysOut
<1>7. OwnersFollow(r, Idle, object)
  BY <1>1, Unworked, ReworksOwn, GivesLockBack DEF Known
<1>8. ThreadsReturn => OwnFollows(r, Idle, object)
  BY <1>1, <1>2, <1>4, OwnStays, GivesLockBack
<1>9. Tidy => FlagsFollow(r, Idle, object)
  BY <1>1, <1>2, RequestFacts, FlagsRest, GivesLockBack
<1>10. Tidy => SocketsFollow(r, Idle, object)
  BY <1>1, <1>2, SocketsRest, GivesLockBack DEF Makes
<1> QED
  BY <1>1, <1>5, <1>6, <1>7, <1>8, <1>9, <1>10, StepSound, GivesLockBack

LEMMA SessionMissingSound ==
  ASSUME IInv, NEW r \in Requests, SessionMissing(r)  PROVE IInv'
<1> DEFINE u == User(r)
<1>1. /\ request[r].pc = "check" /\ listed[u] = NoObject /\ Done(r) /\ Keeps(object)
      /\ UNCHANGED <<global, profile, inside, listed, login, store, orders, left, env>>
  BY DEF SessionMissing, At
<1>2. /\ request[r].pc \notin Waiting /\ request[r].pc \notin Making
      /\ request[r].pc \notin {"login", "market"} /\ request[r].pc \in Holding
  BY <1>1 DEF Waiting, Making, Holding
<1>3. ProcessLockFollows(r, Idle)
  BY <1>1, <1>2, RequestFacts, GivesLockBack, ContextFollows
<1>4. Turn(r, Idle, object)
  BY <1>1, <1>3, RequestFacts, Unworked, TurnHolds, Listing, Storing, GivesLockBack
<1>5. LeftFollows(r, Idle)
  BY <1>1, RequestFacts, GivesLockBack DEF LeftFollows, Control, LeftStaysOut
<1>6. OwnersFollow(r, Idle, object)
  BY <1>1, Unworked, ReworksOwn, GivesLockBack DEF Known
<1>7. ThreadsReturn => OwnFollows(r, Idle, object)
  BY <1>1, <1>2, OwnStays, GivesLockBack
<1>8. Tidy => FlagsFollow(r, Idle, object)
  BY <1>1, <1>2, RequestFacts, FlagsRest, GivesLockBack
<1>9. Tidy => SocketsFollow(r, Idle, object)
  BY <1>1, <1>2, SocketsRest, GivesLockBack, RequestFacts DEF Makes
<1> QED
  BY <1>1, <1>4, <1>5, <1>6, <1>7, <1>8, <1>9, StepSound, GivesLockBack

\* A request that goes on and touches no session.
LEMMA GoesOnSound ==
  ASSUME IInv, NEW r \in Requests, request[r].pc \in Holding, request[r].pc \notin {"login", "market"},
         ~Idles(request[r]) \/ User(r) \notin left,
         NEW q \in Request, request' = [request EXCEPT ![r] = q],
         q.user = User(r), Equipped(q), q.pc \in Holding,
         q.object \in Known(r), q.old = request[r].old,
         ProcessLockFollows(r, q), global' \in Globals,
         UNCHANGED <<profile, lock, listed, object, login, store, orders, left, env>>,
         IF q.pc \in Waiting THEN q.object = Mine(r) ELSE request[r].pc \notin Waiting,
         \A o \in Objects : Makes(request[r], o) => Makes(q, o),
         ThreadsReturn /\ q.pc \in Waiting => global'.ssid \in {User(r), NoUser},
         Tidy => /\ ByFlow(q, listed[User(r)], Dead(listed[User(r)], object))
                 /\ q.pc \in Waiting => FlagIsSet(q, object[q.object], global'.open)
  PROVE  IInv'
<1>1. UserLockFollows(r, q)
  BY KeepsUserLock, RequestFacts
<1>2. Turn(r, q, object)
  BY <1>1, RequestFacts, Unworked, TurnHolds, Listing, Storing
<1>3. LeftFollows(r, q)
  BY NotLeft DEF LeftFollows
<1>4. OwnersFollow(r, q, object)
  BY Unworked, ReworksOwn DEF Known
<1>5. ThreadsReturn => OwnFollows(r, q, object)
  BY OwnStays
<1>6. Tidy => FlagsFollow(r, q, object)
  BY RequestFacts, FlagsRest
<1>7. Tidy => SocketsFollow(r, q, object)
  BY RequestFacts, SocketsRest DEF Holding
<1> QED
  BY <1>2, <1>3, <1>4, <1>5, <1>6, <1>7, StepSound

LEMMA SessionAliveSound ==
  ASSUME IInv, NEW r \in Requests, SessionAlive(r)  PROVE IInv'
<1> DEFINE u == User(r)
           o == listed[u]
           q == MovedWith(request[r], "call", o)
<1>1. /\ request[r].pc = "check" /\ o # NoObject /\ request' = [request EXCEPT ![r] = q]
      /\ inside' = inside
      /\ global' = global \/ (Brief /\ global' = object[o].state)
      /\ UNCHANGED <<profile, lock, listed, object, login, store, orders, left, env>>
  BY DEF SessionAlive, At, MovedWith, Brief, Activate
<1>2. /\ q \in Request /\ q.user = u /\ q.object = o /\ q.old = request[r].old /\ q.pc = "call"
      /\ q.kind = request[r].kind /\ q.flow = request[r].flow
  <2>1. "call" \in Steps
    BY DEF Steps
  <2> QED
    BY <2>1, RequestFacts, NextRequestWith
<1> HIDE DEF q
<1>3. /\ request[r].pc \in Holding /\ request[r].pc \notin Waiting /\ request[r].pc \notin Making
      /\ request[r].pc \notin {"login", "market"} /\ q.pc \in Holding /\ q.pc \notin Waiting
  BY <1>1, <1>2 DEF Holding, Waiting, Making
<1>4. Equipped(q) /\ ByFlow(q, o, Dead(o, object))
  BY <1>1, <1>2, RequestFacts DEF Equipped, ByFlow, Working, Making
<1>5. ProcessLockFollows(r, q)
  BY <1>1, <1>3, RequestFacts, ContextFollows
<1>6. u \notin left
  BY <1>1, RequestFacts DEF Control, LeftStaysOut
<1>7. global' \in Globals
  BY <1>1, RequestFacts, Things
<1>8. q.object \in Known(r)
  BY <1>2 DEF Known
<1> QED
  BY <1>1, <1>2, <1>3, <1>4, <1>5, <1>6, <1>7, <1>8, GoesOnSound DEF Makes

\* A request enters a context of its session.
LEMMA EntersSound ==
  ASSUME IInv, NEW r \in Requests, NEW pc,
         \/ At(r, "call") /\ pc = "calling"
         \/ At(r, "ready") /\ pc = "readying",
         Enter(r), Goto(r, pc), UNCHANGED <<profile, lock, listed, object, login, store, orders, left, env>>
  PROVE  IInv'
<1> DEFINE u == User(r)
           o == Mine(r)
           q == Moved(request[r], pc)
<1>1. /\ request[r].pc \in {"call", "ready"} /\ request' = [request EXCEPT ![r] = q]
      /\ inside = NoRequest /\ inside' = r /\ global' = object[o].state
      /\ IF request[r].pc = "call" THEN pc = "calling" ELSE pc = "readying"
  BY DEF At, Moved, Goto, Enter, Activate
<1>2. /\ q \in Request /\ q.user = u /\ q.object = o /\ q.old = request[r].old /\ q.pc = pc
      /\ q.kind = request[r].kind /\ q.flow = request[r].flow
  <2>1. pc \in Steps
    BY <1>1 DEF Steps
  <2> QED
    BY <2>1, RequestFacts, NextRequest
<1> HIDE DEF q
<1>3. /\ request[r].pc \in Holding /\ request[r].pc \notin Waiting
      /\ request[r].pc \notin {"login", "market"} /\ q.pc \in Holding /\ q.pc \in Waiting
      /\ ~Idles(request[r]) /\ q.pc \notin {"login", "market"}
      /\ request[r].pc \in Making <=> q.pc \in Making
  BY <1>1, <1>2 DEF Holding, Waiting, Making, Idles
<1>4. o \in Objects /\ object[o].user = u
  BY <1>1, RequestFacts DEF Equipped
<1>5. Equipped(q)
  BY <1>1, <1>2, RequestFacts DEF Equipped
<1>6. ProcessLockFollows(r, q)
  BY <1>1, <1>3, RequestFacts, ContextFollows
<1>7. global' \in Globals
  BY <1>1, <1>4, RequestFacts, Things
<1>8. ThreadsReturn => global'.ssid \in {u, NoUser}
  BY <1>1, <1>4 DEF IInv, Ownership, EverythingIsOwn, OwnSession
<1>9. ASSUME Tidy
      PROVE  /\ ByFlow(q, listed[u], Dead(listed[u], object))
             /\ FlagIsSet(q, object[o], global'.open)
  <2>1. ByFlow(request[r], listed[u], Dead(listed[u], object))
    BY <1>9 DEF IInv, Sockets, SocketLayer, ListedByFlow
  <2>2. ByFlow(q, listed[u], Dead(listed[u], object))
    BY <1>1, <1>2, <2>1 DEF ByFlow, Working, Making, Mine
  <2>3. FlagIsSet(q, object[o], global'.open)
    BY <1>1, <1>3, <1>4, <1>9, MyFlags, RequestFacts DEF FlagIsSet, Usable
  <2> QED
    BY <2>2, <2>3
<1>10. q.object \in Known(r)
  BY <1>2, RequestFacts DEF Known
<1>11. \A p \in Objects : Makes(request[r], p) => Makes(q, p)
  BY <1>2, <1>3, RequestFacts DEF Makes
<1> QED
  BY <1>1, <1>2, <1>3, <1>5, <1>6, <1>7, <1>8, <1>9, <1>10, <1>11, GoesOnSound

LEMMA BecomesReadySound ==
  ASSUME IInv, NEW r \in Requests, BecomesReady(r)  PROVE IInv'
<1> DEFINE u == User(r)
           o == Mine(r)
           q == Moved(request[r], "loading")
<1>1. /\ request[r].pc = "readying" /\ request' = [request EXCEPT ![r] = q] /\ global.open
      /\ UNCHANGED <<global, profile, inside, lock, listed, object, login, store, orders, left, env>>
  BY DEF BecomesReady, At, Moved, Goto
<1>2. /\ q \in Request /\ q.user = u /\ q.object = o /\ q.old = request[r].old /\ q.pc = "loading"
      /\ q.kind = request[r].kind /\ q.flow = request[r].flow
  <2>1. "loading" \in Steps
    BY DEF Steps
  <2> QED
    BY <2>1, RequestFacts, NextRequest
<1> HIDE DEF q
<1>3. /\ request[r].pc \in Holding /\ request[r].pc \in Waiting
      /\ request[r].pc \notin {"login", "market"} /\ q.pc \in Holding /\ q.pc \in Waiting
      /\ request[r].pc \in Making /\ q.pc \in Making /\ ~Idles(request[r])
  BY <1>1, <1>2 DEF Holding, Waiting, Making, Idles
<1>4. o \in Objects /\ object[o].user = u /\ inside = r
  BY <1>1, <1>3, RequestFacts DEF Equipped
<1>5. Equipped(q)
  BY <1>1, <1>2, RequestFacts DEF Equipped
<1>6. ProcessLockFollows(r, q)
  BY <1>1, <1>3, RequestFacts, ContextFollows
<1>7. ThreadsReturn => global'.ssid \in {u, NoUser}
  BY <1>1, <1>4, RequestFacts DEF IInv, Ownership, EverythingIsOwn
<1>8. ASSUME Tidy
      PROVE  /\ ByFlow(q, listed[u], Dead(listed[u], object))
             /\ FlagIsSet(q, object[o], global'.open)
  <2>1. ByFlow(request[r], listed[u], Dead(listed[u], object))
    BY <1>8 DEF IInv, Sockets, SocketLayer, ListedByFlow
  <2>2. ByFlow(q, listed[u], Dead(listed[u], object))
    BY <1>1, <1>2, <2>1 DEF ByFlow, Working, Making, Mine
  <2> QED
    BY <1>1, <2>2 DEF FlagIsSet
<1>9. q.object \in Known(r)
  BY <1>2, RequestFacts DEF Known
<1>10. \A p \in Objects : Makes(request[r], p) => Makes(q, p)
  BY <1>2, <1>3, RequestFacts DEF Makes
<1>11. global' \in Globals
  BY <1>1, RequestFacts
<1> QED
  BY <1>1, <1>2, <1>3, <1>5, <1>6, <1>7, <1>8, <1>9, <1>10, <1>11, GoesOnSound

\* connect_session enters a context once more, without the user's lock.
LEMMA EntersTailSound ==
  ASSUME IInv, NEW r \in Requests, EntersTail(r)  PROVE IInv'
<1> DEFINE u == User(r)
           o == Mine(r)
           q == Moved(request[r], "forcing")
<1>1. /\ request[r].pc = "tail" /\ request' = [request EXCEPT ![r] = q]
      /\ inside = NoRequest /\ inside' = r /\ global' = object[o].state
      /\ UNCHANGED <<profile, lock, listed, object, login, store, orders, left, env>>
  BY DEF EntersTail, At, Moved, Goto, Enter, Activate
<1>2. /\ q \in Request /\ q.user = u /\ q.object = o /\ q.old = request[r].old /\ q.pc = "forcing"
      /\ q.kind = request[r].kind /\ q.flow = request[r].flow
  <2>1. "forcing" \in Steps
    BY DEF Steps
  <2> QED
    BY <2>1, RequestFacts, NextRequest
<1> HIDE DEF q
<1>3. /\ request[r].pc \notin Holding /\ request[r].pc \notin Waiting
      /\ request[r].pc \notin {"login", "market"} /\ q.pc \notin Holding /\ q.pc \in Waiting
      /\ q.pc # "cleanup" /\ q.pc \notin {"login", "market"}
  BY <1>1, <1>2 DEF Holding, Waiting
<1>4. o \in Objects /\ object[o].user = u
  BY <1>1, RequestFacts DEF Equipped
<1>5. Equipped(q)
  BY <1>1, <1>2, RequestFacts DEF Equipped
<1>6. UserLockFollows(r, q) /\ ProcessLockFollows(r, q)
  BY <1>1, <1>3, RequestFacts, NeedsNoLock, ContextFollows
<1>7. global' \in Globals
  BY <1>1, <1>4, RequestFacts, Things
<1>8. Turn(r, q, object)
  BY <1>1, <1>2, <1>6, <1>7, RequestFacts, Unworked, TurnHolds, Listing, Storing
<1>9. LeftFollows(r, q)
  BY <1>1, <1>3, RequestFacts DEF LeftFollows, Control, LeftStaysOut
<1>10. OwnersFollow(r, q, object)
  BY <1>1, <1>2, Unworked, ReworksOwn, RequestFacts DEF Known
<1>11. ASSUME ThreadsReturn  PROVE OwnFollows(r, q, object)
  <2>1. global'.ssid \in {u, NoUser}
    BY <1>1, <1>4, <1>11 DEF IInv, Ownership, EverythingIsOwn, OwnSession
  <2> QED
    BY <1>1, <1>2, <1>3, <1>11, <2>1, OwnStays
<1>12. ASSUME Tidy  PROVE FlagsFollow(r, q, object)
  <2>1. FlagIsSet(q, object[o], global'.open)
    BY <1>1, <1>3, <1>4, <1>12, MyFlags, RequestFacts DEF FlagIsSet, Usable
  <2> QED
    BY <1>1, <1>2, <1>12, <2>1, RequestFacts, FlagsRest
<1>13. SocketsAlone(r, q, object)
  BY <1>1, <1>3 DEF SocketsAlone
<1> QED
  BY <1>5, <1>8, <1>9, <1>10, <1>11, <1>12, <1>13, StepSound
-----------------------------------------------------------------------------
(* Requests that change their session                                      *)

\* One session of the request's user changes, with its login; others of the
\* user may be closed.
With(o, s) == [object EXCEPT ![o] = s]
Touches(r, o, s, objects) ==
  /\ objects \in [Objects -> Session] /\ objects[o] = s
  /\ \A p \in Objects \ {o} : \/ objects[p] = object[p]
                              \/ object[p].user = User(r) /\ objects[p] = Closed(object[p])

LEMMA WithTouches ==
  ASSUME TypeOK, NEW r, NEW o \in Objects, NEW s \in Session
  PROVE  Touches(r, o, s, With(o, s))
BY DEF Touches, With, TypeOK

LEMMA HangupTouches ==
  ASSUME IInv, NEW r \in Requests, NEW o \in Objects, NEW s \in Session
  PROVE  Touches(r, o, IF listed[User(r)] = o THEN Closed(s) ELSE s, Hangup(User(r), With(o, s)))
<1> DEFINE l == listed[User(r)]
<1>1. /\ l \in Objects \cup {NoObject} /\ object \in [Objects -> Session]
      /\ l # NoObject => object[l].user = User(r)
  BY RequestFacts
<1>2. Closed(s) \in Session /\ \A p \in Objects : Closed(object[p]) \in Session
  BY <1>1, NewClients
<1>3. CASE l = NoObject
  BY <1>1, <1>3, SessionsAssumption DEF Touches, With, Hangup
<1>4. CASE l # NoObject
  <2>1. Hangup(User(r), With(o, s)) = [With(o, s) EXCEPT ![l] = Closed(With(o, s)[l])]
    BY <1>4 DEF Hangup
  <2> QED
    BY <1>1, <1>2, <1>4, <2>1 DEF Touches, With
<1> QED
  BY <1>3, <1>4

\* What such a step leaves of the sessions and their logins.
ReworkLeaves(r, o, s, lg, objects) ==
  /\ KeptAs(objects) /\ Reworks(r, objects) /\ login' \in [Objects -> LoginStates]
  /\ objects[o] = s /\ login'[o] = lg
  /\ \A p \in Objects \ {o} : /\ login'[p] = login[p]
                              /\ objects[p] \in {object[p], Closed(object[p])}
                              /\ Same(objects[p], object[p])
                              /\ objects[p].account = object[p].account
                              /\ Usable(objects[p]) => objects[p] = object[p]

LEMMA Reworked ==
  ASSUME IInv, NEW r \in Requests, NEW o \in Objects, object[o].user = User(r),
         NEW s \in Session, s.user = User(r), NEW lg \in LoginStates,
         NEW objects, Touches(r, o, s, objects), Keeps(objects), login' = [login EXCEPT ![o] = lg]
  PROVE  ReworkLeaves(r, o, s, lg, objects)
<1>1. object \in [Objects -> Session] /\ login \in [Objects -> LoginStates]
  BY DEF IInv, Control, TypeOK
<1>2. login' \in [Objects -> LoginStates] /\ KeptAs(objects) /\ objects \in [Objects -> Session]
  BY <1>1, KeepsKept DEF Touches
<1>3. /\ objects[o] = s /\ login'[o] = lg
      /\ \A p \in Objects \ {o} : login'[p] = login[p]
  BY <1>1 DEF Touches
<1>4. ASSUME NEW p \in Objects \ {o}
      PROVE  /\ objects[p] \in {object[p], Closed(object[p])}
             /\ Same(objects[p], object[p]) /\ objects[p].account = object[p].account
             /\ Usable(objects[p]) => objects[p] = object[p]
  <2>1. Same(Closed(object[p]), object[p]) /\ Closed(object[p]).socket = "closed"
        /\ Closed(object[p]).account = object[p].account
    BY <1>1, NewClients
  <2> QED
    BY <2>1 DEF Touches, Same, Usable
<1>5. Reworks(r, objects)
  BY <1>2, <1>3, <1>4 DEF Reworks, Touches, Same
<1> QED
  BY <1>2, <1>3, <1>4, <1>5 DEF ReworkLeaves

LEMMA SessionSound ==
  ASSUME IInv, NEW r \in Requests, NEW q \in Request, request' = [request EXCEPT ![r] = q],
         Equipped(q), UserLockFollows(r, q), ProcessLockFollows(r, q), LeftFollows(r, q),
         inside \in {r, NoRequest},
         NEW o \in Objects, object[o].user = User(r), o \in Known(r),
         NEW s \in Session, s.user = User(r), NEW lg \in LoginStates,
         NEW objects, Touches(r, o, s, objects), Keeps(objects), login' = [login EXCEPT ![o] = lg],
         global' \in Globals, orders' \subseteq Booked, left' \subseteq Users,
         profile' = profile, env' = env,
         listed' = listed \/ Remove(User(r)) \/ Upsert(User(r), o),
         store' = store \/ (\E row \in Rows : store' = [store EXCEPT ![User(r)] = row]),
         q.object \in Known(r), q.old \in Known(r),
         q.user = User(r) \/ (q.object = NoObject /\ q.old = NoObject),
         ASSUME ThreadsReturn, EverythingIsOwn
         PROVE  /\ request[r].pc \in {"login", "market"} => Mine(r) = o
                /\ Employs(q, o, s, lg)
                /\ OwnSession(s)
                /\ q.pc \in Waiting => global'.ssid \in {q.user, NoUser}
                /\ store'[User(r)].token \in {User(r), NoUser}
                /\ \A order \in orders' : order.account = order.by,
         ASSUME Tidy
         PROVE  /\ Settled(s, lg)
                /\ Usable(s) => s.state.open \/ (q.pc \in Waiting /\ q.object = o)
                /\ q.pc \in Waiting => q.object = o /\ FlagIsSet(q, s, global'.open)
                /\ inside = r => Mine(r) = o
                /\ SocketsFollow(r, q, objects) \/ SocketsAlone(r, q, objects)
  PROVE  IInv'
<1>1. /\ KeptAs(objects) /\ Reworks(r, objects) /\ login' \in [Objects -> LoginStates]
      /\ objects[o] = s /\ login'[o] = lg
      /\ \A p \in Objects \ {o} : /\ login'[p] = login[p]
                                  /\ Same(objects[p], object[p])
                                  /\ objects[p].account = object[p].account
                                  /\ objects[p] \in {object[p], Closed(object[p])}
                                  /\ Usable(objects[p]) => objects[p] = object[p]
  <2>1. ReworkLeaves(r, o, s, lg, objects)
    BY Reworked
  <2> QED
    BY <2>1 DEF ReworkLeaves
<1>2. listed' \in [Users -> Objects \cup {NoObject}] /\ \A v \in Users \ {User(r)} : listed'[v] = listed[v]
  BY RequestFacts, Listing
<1>3. store' \in [Users -> Rows] /\ \A v \in Users \ {User(r)} : store'[v] = store[v]
  BY RequestFacts, Storing
<1>4. Turn(r, q, objects)
  BY <1>1, <1>2, <1>3, RequestFacts, TurnHolds
<1>5. OwnersFollow(r, q, objects)
  <2>1. listed'[User(r)] \in {listed[User(r)], NoObject, o}
    BY RequestFacts DEF Remove, Upsert, Control, TypeOK
  <2>2. listed'[User(r)] \in Known(r)
    BY <2>1 DEF Known
  <2> QED
    BY <1>1, <2>2, ReworksOwn
<1>6. ASSUME ThreadsReturn  PROVE OwnFollows(r, q, objects)
  <2>1. EverythingIsOwn /\ \A p \in Objects : Employs(request[r], p, object[p], login[p])
    BY <1>6, MyThreads
  <2>2. /\ request[r].pc \in {"login", "market"} => Mine(r) = o
        /\ Employs(q, o, s, lg)
        /\ OwnSession(s)
        /\ q.pc \in Waiting => global'.ssid \in {q.user, NoUser}
        /\ store'[User(r)].token \in {User(r), NoUser}
        /\ \A order \in orders' : order.account = order.by
    BY <1>6, <2>1
  <2>3. ASSUME NEW p \in Objects \ {o}  PROVE Employs(q, p, objects[p], login'[p])
    <3>1. login[p] \notin Running /\ ~object[p].fetching
      BY <2>1, <2>2 DEF Employs, Mine
    <3> QED
      BY <1>1, <3>1 DEF Employs, Same
  <2>4. \A p \in Objects : Employs(q, p, objects[p], login'[p])
    BY <1>1, <2>2, <2>3
  <2>5. \A p \in Objects : OwnSession(objects[p])
    BY <1>1, <2>1, <2>2 DEF EverythingIsOwn, OwnSession, Same
  <2> QED
    BY <2>2, <2>4, <2>5 DEF OwnFollows
<1>7. ASSUME Tidy
      PROVE  FlagsFollow(r, q, objects) /\ (SocketsFollow(r, q, objects) \/ SocketsAlone(r, q, objects))
  <2>1. /\ Settled(s, lg)
        /\ Usable(s) => s.state.open \/ (q.pc \in Waiting /\ q.object = o)
        /\ q.pc \in Waiting => q.object = o /\ FlagIsSet(q, s, global'.open)
        /\ inside = r => Mine(r) = o
        /\ SocketsFollow(r, q, objects) \/ SocketsAlone(r, q, objects)
    BY <1>7
  <2>2. \A p \in Objects \ {o} :
          /\ Settled(object[p], login[p])
          /\ Usable(object[p]) => object[p].state.open
    BY <1>7, <2>1, MyFlags
  <2>3. \A p \in Objects : Closed(object[p]).socket = "closed"
    BY RequestFacts, NewClients
  <2>4. \A p \in Objects \ {o} :
          /\ Settled(objects[p], login'[p])
          /\ Usable(objects[p]) => objects[p].state.open
    BY <1>1, <2>2, <2>3 DEF Settled, Same
  <2>5. FlagsLeft(q, objects)
    BY <1>1, <2>1, <2>4 DEF FlagsLeft
  <2>6. LoginLeft(q, objects)
    BY <1>1, <2>1 DEF LoginLeft
  <2> QED
    BY <2>1, <2>5, <2>6 DEF FlagsFollow
<1> QED
  BY <1>4, <1>5, <1>6, <1>7, StepSound

\* A request that works with a session is the only one to have a session of
\* its user that works.
LEMMA OnlyMine ==
  ASSUME IInv, Tidy, NEW r \in Requests,
         request[r].pc \in Working \cup {"calling", "market"},
         NEW p \in Objects, p # Mine(r), object[p].user = User(r)
  PROVE  ~Usable(object[p])
<1>1. ByFlow(request[r], listed[User(r)], Dead(listed[User(r)], object))
  BY DEF IInv, Sockets, SocketLayer, ListedByFlow
<1>2. lock[User(r)] = r /\ Equipped(request[r])
  <2>1. request[r].pc \in Holding
    BY DEF Working, Making, Holding
  <2> QED
    BY <2>1, RequestFacts
<1>3. Makes(request[r], p) => FALSE
  BY RequestFacts DEF Makes
<1>4. Usable(object[p]) => listed[User(r)] = p
  BY <1>2, <1>3, MySockets
<1>5. CASE request[r].pc \in Working
  BY <1>1, <1>4, <1>5, RequestFacts, SessionsAssumption DEF ByFlow, Dead, Usable
<1>6. CASE request[r].pc \in {"calling", "market"}
  <2>1. Mine(r) \in {listed[User(r)], NoObject} /\ Mine(r) # NoObject
    BY <1>1, <1>2, <1>6, RequestFacts DEF ByFlow, Equipped
  <2> QED
    BY <1>4, <2>1
<1> QED
  BY <1>5, <1>6

\* The sockets a step leaves when the session it changes is the only one of
\* its user that may still work.
LEMMA OneSocket ==
  ASSUME IInv, Tidy, NEW r \in Requests, NEW q,
         NEW o \in Objects, object[o].user = User(r),
         NEW s \in Session, s.user = User(r), NEW lg \in LoginStates,
         NEW objects, Touches(r, o, s, objects), Keeps(objects), login' = [login EXCEPT ![o] = lg],
         request[r].pc \in Holding, q.pc # "cleanup",
         \A p \in Objects \ {o} : object[p].user = User(r) => ~Usable(object[p]),
         Usable(s) => listed'[User(r)] = o \/ Makes(q, o),
         q.pc \in Holding => ByFlow(q, listed'[User(r)], Dead(listed'[User(r)], objects))
  PROVE  SocketsFollow(r, q, objects)
<1>1. /\ Reworks(r, objects) /\ objects[o] = s
      /\ \A p \in Objects \ {o} : Usable(objects[p]) => objects[p] = object[p]
  <2>1. ReworkLeaves(r, o, s, lg, objects)
    BY Reworked
  <2> QED
    BY <2>1 DEF ReworkLeaves
<1>2. SocketsLeft(r, q, objects)
  BY <1>1 DEF SocketsLeft
<1>3. SocketsUntouched(r, objects)
  BY <1>1 DEF Reworks, SocketsUntouched
<1> QED
  BY <1>2, <1>3, RequestFacts DEF SocketsFollow

\* A request is answered after a step with its session.
LEMMA AnswersSound ==
  ASSUME IInv, NEW r \in Requests, Done(r), request[r].pc \in Holding,
         ProcessLockFollows(r, Idle), LeftFollows(r, Idle), inside \in {r, NoRequest},
         NEW o \in Objects, object[o].user = User(r), o \in Known(r),
         NEW s \in Session, s.user = User(r), NEW lg \in LoginStates,
         NEW objects, Touches(r, o, s, objects), Keeps(objects), login' = [login EXCEPT ![o] = lg],
         global' \in Globals, orders' \subseteq Booked, left' \subseteq Users,
         profile' = profile, env' = env,
         listed' = listed \/ Remove(User(r)),
         store' = store \/ (\E row \in Rows : store' = [store EXCEPT ![User(r)] = row]),
         ASSUME ThreadsReturn, EverythingIsOwn
         PROVE  /\ request[r].pc \in {"login", "market"} => Mine(r) = o
                /\ lg \notin Running /\ ~s.fetching
                /\ OwnSession(s)
                /\ store'[User(r)].token \in {User(r), NoUser}
                /\ \A order \in orders' : order.account = order.by,
         ASSUME Tidy
         PROVE  /\ \A p \in Objects \ {o} : object[p].user = User(r) => ~Usable(object[p])
                /\ inside = r => Mine(r) = o
                /\ Settled(s, lg)
                /\ Usable(s) => s.state.open /\ listed'[User(r)] = o
  PROVE  IInv'
<1>1. /\ UserLockFollows(r, Idle) /\ request' = [request EXCEPT ![r] = Idle]
      /\ Idle \in Request /\ Equipped(Idle) /\ Idle.pc \notin Holding /\ Idle.pc \notin Waiting
      /\ Idle.pc # "cleanup" /\ Idle.object = NoObject /\ Idle.old = NoObject
  BY GivesLockBack
<1>2. Idle.object \in Known(r) /\ Idle.old \in Known(r)
  BY <1>1 DEF Known
<1>3. ASSUME ThreadsReturn, EverythingIsOwn
      PROVE  /\ request[r].pc \in {"login", "market"} => Mine(r) = o
             /\ Employs(Idle, o, s, lg)
             /\ OwnSession(s)
             /\ Idle.pc \in Waiting => global'.ssid \in {Idle.user, NoUser}
             /\ store'[User(r)].token \in {User(r), NoUser}
             /\ \A order \in orders' : order.account = order.by
  BY <1>1, <1>3 DEF Employs
<1>4. ASSUME Tidy
      PROVE  /\ Settled(s, lg)
             /\ Usable(s) => s.state.open \/ (Idle.pc \in Waiting /\ Idle.object = o)
             /\ Idle.pc \in Waiting => Idle.object = o /\ FlagIsSet(Idle, s, global'.open)
             /\ inside = r => Mine(r) = o
             /\ SocketsFollow(r, Idle, objects) \/ SocketsAlone(r, Idle, objects)
  <2>1. /\ \A p \in Objects \ {o} : object[p].user = User(r) => ~Usable(object[p])
        /\ inside = r => Mine(r) = o
        /\ Settled(s, lg)
        /\ Usable(s) => s.state.open /\ listed'[User(r)] = o
    BY <1>4
  <2>2. SocketsFollow(r, Idle, objects)
    BY <1>1, <1>4, <2>1, OneSocket
  <2> QED
    BY <1>1, <2>1, <2>2
<1> QED
  BY <1>1, <1>2, <1>3, <1>4, SessionSound
-----------------------------------------------------------------------------
(* Calls to the broker                                                     *)

\* A session that keeps its client, and takes state g over.
Takes(t, s, g) ==
  /\ t \in Session /\ t.user = s.user /\ t.socket = s.socket /\ t.account = s.account
  /\ t.fetching = s.fetching /\ t.state = g

LEMMA NewCaptured ==
  ASSUME NEW s \in Session, NEW g \in Globals
  PROVE  Takes(Captured(s, g), s, g) /\ Captured(s, g).finished = s.finished
BY DEF Session, Captured, Takes

LEMMA NewForced ==
  ASSUME NEW o \in Objects, object[o] \in Session, NEW g \in Globals
  PROVE  Takes(ForcedReal(o, g), object[o], g) /\ ForcedReal(o, g).finished = object[o].finished
<1> DEFINE b == g.balance = RealMode
<1>1. b \in BOOLEAN
  OBVIOUS
<1> HIDE DEF b
<1> QED
  BY <1>1 DEF ForcedReal, Captured, Session, b, Takes

LEMMA NewSpoilt ==
  ASSUME NEW t, NEW s, NEW g, Takes(t, s, g)
  PROVE  Takes(Spoilt(t), s, g) /\ ~Spoilt(t).finished
BY DEF Session, Spoilt, Takes

\* A session that keeps its account and takes the state g stays its user's own.
LEMMA OwnAfter ==
  ASSUME NEW s, NEW t, NEW g, OwnSession(s), Takes(t, s, g), g.ssid \in {s.user, NoUser}
  PROVE  OwnSession(t)
BY DEF OwnSession, Takes

\* What holds while a request calls the broker.
LEMMA Calling ==
  ASSUME IInv, NEW r \in Requests, request[r].pc \in {"calling", "market"}
  PROVE  /\ Mine(r) \in Objects /\ object[Mine(r)].user = User(r) /\ inside = r
         /\ Mine(r) \in Known(r) /\ User(r) \notin left
         /\ request[r].pc \in Holding /\ request[r].pc \in Waiting
         /\ \A q : left' = left => LeftFollows(r, q)
         /\ ThreadsReturn =>
              /\ global.ssid \in {User(r), NoUser}
              /\ request[r].pc = "calling" =>
                   login[Mine(r)] \notin Running /\ ~object[Mine(r)].fetching
         /\ Tidy => /\ listed[User(r)] = Mine(r)
                    /\ Settled(object[Mine(r)], login[Mine(r)])
                    /\ FlagIsSet(request[r], object[Mine(r)], global.open)
<1>1. /\ request[r].pc \in Holding /\ request[r].pc \in Waiting /\ ~Idles(request[r])
  BY DEF Holding, Waiting, Idles
<1>2. Mine(r) \in Objects /\ object[Mine(r)].user = User(r) /\ inside = r
  BY <1>1, RequestFacts DEF Equipped
<1>3. User(r) \notin left
  BY <1>1, RequestFacts DEF Control, LeftIsIdle
<1>4. \A q : left' = left => LeftFollows(r, q)
  BY <1>1, NotLeft
<1>5. ASSUME ThreadsReturn
      PROVE  /\ global.ssid \in {User(r), NoUser}
             /\ request[r].pc = "calling" =>
                  login[Mine(r)] \notin Running /\ ~object[Mine(r)].fetching
  <2>1. EverythingIsOwn /\ Employs(request[r], Mine(r), object[Mine(r)], login[Mine(r)])
    BY <1>2, <1>5, MyThreads
  <2> QED
    BY <1>2, <2>1, RequestFacts DEF EverythingIsOwn, Employs
<1>6. ASSUME Tidy
      PROVE  /\ listed[User(r)] = Mine(r)
             /\ Settled(object[Mine(r)], login[Mine(r)])
             /\ FlagIsSet(request[r], object[Mine(r)], global.open)
  <2>1. ByFlow(request[r], listed[User(r)], Dead(listed[User(r)], object))
    BY <1>6 DEF IInv, Sockets, SocketLayer, ListedByFlow
  <2>2. listed[User(r)] = Mine(r)
    BY <1>2, <2>1, RequestFacts, SessionsAssumption DEF ByFlow
  <2> QED
    BY <1>2, <1>6, <2>2, MyFlags
<1>7. Mine(r) \in Known(r)
  BY DEF Known, Mine
<1> QED
  BY <1>1, <1>2, <1>3, <1>4, <1>5, <1>6, <1>7

\* A call that leaves the process lock and is answered.
LEMMA LeavesSound ==
  ASSUME IInv, NEW r \in Requests, request[r].pc \in {"calling", "market"},
         Done(r), inside' = NoRequest,
         NEW s \in Session, s.user = object[Mine(r)].user, s.socket = object[Mine(r)].socket,
         s.account = object[Mine(r)].account, s.state = global', Keeps(With(Mine(r), s)),
         NEW lg \in LoginStates, login' = [login EXCEPT ![Mine(r)] = lg],
         global' \in Globals, global'.ssid = global.ssid,
         UNCHANGED <<profile, left, env>>, orders' \subseteq Booked,
         listed' = listed \/ Remove(User(r)),
         store' = store \/ (\E row \in Rows : store' = [store EXCEPT ![User(r)] = row]),
         ASSUME ThreadsReturn, EverythingIsOwn
         PROVE  /\ lg \notin Running /\ ~s.fetching
                /\ store'[User(r)].token \in {User(r), NoUser}
                /\ \A order \in orders' : order.account = order.by,
         ASSUME Tidy
         PROVE  Settled(s, lg) /\ (Usable(s) => global'.open /\ listed' = listed)
  PROVE  IInv'
<1> DEFINE o == Mine(r)
<1>1. /\ o \in Objects /\ object[o].user = User(r) /\ inside = r /\ o \in Known(r)
      /\ request[r].pc \in Holding /\ request[r].pc \in Waiting
      /\ LeftFollows(r, Idle)
      /\ ThreadsReturn => global.ssid \in {User(r), NoUser}
      /\ Tidy => listed[User(r)] = o
  BY Calling
<1>2. ProcessLockFollows(r, Idle)
  BY <1>1, RequestFacts, ContextFollows, GivesLockBack
<1>3. ASSUME ThreadsReturn, EverythingIsOwn
      PROVE  /\ request[r].pc \in {"login", "market"} => Mine(r) = o
             /\ lg \notin Running /\ ~s.fetching
             /\ OwnSession(s)
             /\ store'[User(r)].token \in {User(r), NoUser}
             /\ \A order \in orders' : order.account = order.by
  <2>1. OwnSession(s)
    BY <1>1, <1>3 DEF EverythingIsOwn, OwnSession
  <2> QED
    BY <1>3, <2>1
<1>4. ASSUME Tidy
      PROVE  /\ \A p \in Objects \ {o} : object[p].user = User(r) => ~Usable(object[p])
             /\ inside = r => Mine(r) = o
             /\ Settled(s, lg)
             /\ Usable(s) => s.state.open /\ listed'[User(r)] = o
  BY <1>1, <1>4, OnlyMine
<1>5. left' \subseteq Users /\ TypeOK
  BY RequestFacts
<1> HIDE DEF o
<1>6. Keeps(With(o, s)) /\ s.user = User(r) /\ Touches(r, o, s, With(o, s))
      /\ login' = [login EXCEPT ![o] = lg]
  BY <1>1, <1>5, WithTouches DEF o
<1> QED
  BY <1>1, <1>2, <1>3, <1>4, <1>5, <1>6, AnswersSound

\* ... with the sockets as they were.
LEMMA CallEndsSound ==
  ASSUME IInv, NEW r \in Requests, request[r].pc = "calling", Done(r), inside' = NoRequest,
         NEW s, Takes(s, object[Mine(r)], global'), s.finished = object[Mine(r)].finished,
         Keeps(With(Mine(r), s)), login' = login,
         global' \in Globals, global'.ssid = global.ssid, global'.open = global.open,
         UNCHANGED <<profile, left, env>>, orders' \subseteq Booked,
         listed' = listed \/ (Remove(User(r)) /\ ~global.open),
         store' = store \/ (\E row \in Rows : store' = [store EXCEPT ![User(r)] = row]),
         ASSUME ThreadsReturn, EverythingIsOwn
         PROVE  /\ store'[User(r)].token \in {User(r), NoUser}
                /\ \A order \in orders' : order.account = order.by
  PROVE  IInv'
<1> DEFINE o == Mine(r)
<1>1. /\ o \in Objects /\ object[o].user = User(r)
      /\ ThreadsReturn => login[o] \notin Running /\ ~object[o].fetching
      /\ Tidy => /\ Settled(object[o], login[o])
                 /\ FlagIsSet(request[r], object[o], global.open)
  BY Calling
<1>2. login[o] \in LoginStates /\ login' = [login EXCEPT ![o] = login[o]]
  BY <1>1, RequestFacts, Things
<1>3. /\ s \in Session /\ s.user = object[o].user /\ s.socket = object[o].socket
      /\ s.account = object[o].account /\ s.fetching = object[o].fetching /\ s.state = global'
  BY DEF Takes
<1>4. ASSUME Tidy  PROVE Settled(s, login[o]) /\ (Usable(s) => global'.open /\ listed' = listed)
  BY <1>1, <1>3, <1>4 DEF Settled, Usable, FlagIsSet
<1>5. ASSUME ThreadsReturn, EverythingIsOwn
      PROVE  /\ login[o] \notin Running /\ ~s.fetching
             /\ store'[User(r)].token \in {User(r), NoUser}
             /\ \A order \in orders' : order.account = order.by
  BY <1>1, <1>3, <1>5
<1> QED
  BY <1>2, <1>3, <1>4, <1>5, LeavesSound

\* A call that leaves the list, the rows and the orders alone.
LEMMA AnswerSound ==
  ASSUME IInv, NEW r \in Requests, request[r].pc = "calling", Leaves(r),
         UNCHANGED <<global, login, store, orders>>,
         listed' = listed \/ (Remove(User(r)) /\ ~global.open),
         Keeps(Captures(r))
  PROVE  IInv'
<1> DEFINE o == Mine(r)
           s == Captured(object[o], global)
<1>1. Done(r) /\ inside' = NoRequest /\ UNCHANGED <<profile, left, env>>
  BY DEF Leaves
<1>2. o \in Objects
  BY Calling
<1>3. Takes(s, object[o], global') /\ s.finished = object[o].finished
  BY <1>2, RequestFacts, Things, NewCaptured
<1>4. Keeps(With(o, s)) /\ global' \in Globals /\ orders' \subseteq Booked
  BY RequestFacts DEF Captures, With
<1>5. ASSUME EverythingIsOwn
      PROVE  /\ store'[User(r)].token \in {User(r), NoUser}
             /\ \A order \in orders' : order.account = order.by
  BY <1>5, RequestFacts DEF EverythingIsOwn
<1> HIDE DEF s
<1> QED
  BY <1>1, <1>3, <1>4, <1>5, CallEndsSound

LEMMA CallNotReadySound ==
  ASSUME IInv, NEW r \in Requests, CallNotReady(r)  PROVE IInv'
<1>1. /\ request[r].pc = "calling" /\ Leaves(r) /\ UNCHANGED <<global, login, store, orders>>
      /\ listed' = listed \/ (Remove(User(r)) /\ ~global.open)
      /\ Keeps(Captures(r))
  BY DEF CallNotReady, At
<1> QED
  BY <1>1, AnswerSound

LEMMA StatusReadSound ==
  ASSUME IInv, NEW r \in Requests, StatusRead(r)  PROVE IInv'
<1>1. /\ request[r].pc = "calling" /\ Leaves(r) /\ UNCHANGED <<global, login, store, orders>>
      /\ listed' = listed /\ Keeps(Captures(r))
  BY DEF StatusRead, At
<1> QED
  BY <1>1, AnswerSound

LEMMA OrderRefusedSound ==
  ASSUME IInv, NEW r \in Requests, OrderRefused(r)  PROVE IInv'
<1>1. /\ request[r].pc = "calling" /\ Leaves(r) /\ UNCHANGED <<global, login, store, orders>>
      /\ listed' = listed /\ Keeps(Captures(r))
  BY DEF OrderRefused, Ready, At
<1> QED
  BY <1>1, AnswerSound

LEMMA MarketBusySound ==
  ASSUME IInv, NEW r \in Requests, MarketBusy(r)  PROVE IInv'
<1>1. /\ request[r].pc = "calling" /\ Leaves(r) /\ UNCHANGED <<global, login, store, orders>>
      /\ listed' = listed /\ Keeps(Captures(r))
  BY DEF MarketBusy, Ready, At
<1> QED
  BY <1>1, AnswerSound

\* The account of the socket is the user's.
LEMMA OrderPlacedSound ==
  ASSUME IInv, NEW r \in Requests, OrderPlaced(r)  PROVE IInv'
<1> DEFINE o == Mine(r)
           s == Captured(object[o], global)
           order0 == [by |-> User(r), account |-> object[o].account, balance |-> global.balance.account]
<1>1. /\ request[r].pc = "calling" /\ Done(r) /\ inside' = NoRequest /\ object[o].account # NoUser
      /\ UNCHANGED <<global, profile, listed, login, store, left, env>>
      /\ orders' = {order0}
      /\ Keeps(With(o, Captured(object[o], global')))
  BY DEF OrderPlaced, Ready, At, Leaves, With, Captures
<1>2. o \in Objects /\ object[o].user = User(r)
  BY <1>1, Calling
<1>3. Takes(s, object[o], global') /\ s.finished = object[o].finished
  BY <1>1, <1>2, RequestFacts, Things, NewCaptured
<1>4. Keeps(With(o, s)) /\ global' \in Globals
  BY <1>1, RequestFacts
<1>5. order0 \in Booked /\ order0.by = User(r) /\ order0.account = object[o].account
  BY <1>2, RequestFacts, Things DEF Booked, Globals, Balance
<1> HIDE DEF s, order0
<1>6. ASSUME EverythingIsOwn
      PROVE  /\ store'[User(r)].token \in {User(r), NoUser}
             /\ \A order \in orders' : order.account = order.by
  BY <1>1, <1>2, <1>5, <1>6, RequestFacts DEF EverythingIsOwn, OwnSession
<1>7. orders' \subseteq Booked
  BY <1>1, <1>5
<1> QED
  BY <1>1, <1>3, <1>4, <1>6, <1>7, CallEndsSound

LEMMA OrderDiesSound ==
  ASSUME IInv, NEW r \in Requests, OrderDies(r)  PROVE IInv'
<1> DEFINE o == Mine(r)
           u == User(r)
           t == Captured(object[o], global)
           s == IF listed[u] = o THEN Closed(t) ELSE t
           objects == Hangup(u, With(o, t))
<1>1. /\ request[r].pc = "calling" /\ Done(r) /\ inside' = NoRequest
      /\ Remove(u) /\ store' = [store EXCEPT ![u] = Off(store[u])]
      /\ UNCHANGED <<global, profile, login, orders, left, env>>
      /\ Keeps(Hangup(u, With(o, Captured(object[o], global'))))
  BY DEF OrderDies, Ready, At, Leaves, With, MarkDisconnected, Captures
<1>2. /\ o \in Objects /\ object[o].user = u /\ inside = r /\ o \in Known(r)
      /\ request[r].pc \in Holding /\ request[r].pc \in Waiting /\ LeftFollows(r, Idle)
      /\ ThreadsReturn => /\ global.ssid \in {u, NoUser}
                          /\ login[o] \notin Running /\ ~object[o].fetching
      /\ Tidy => listed[u] = o /\ Settled(object[o], login[o])
  BY <1>1, Calling
<1>3. Takes(t, object[o], global) /\ t.finished = object[o].finished
  BY <1>2, RequestFacts, Things, NewCaptured
<1>4. /\ s \in Session /\ s.user = u /\ s.account = object[o].account /\ s.state = global
      /\ s.fetching = object[o].fetching /\ s.finished = object[o].finished
      /\ listed[u] = o => s.socket = "closed"
  <2>1. t \in Session /\ Closed(t) \in Session /\ Same(Closed(t), t) /\ Closed(t).account = t.account
        /\ Closed(t).socket = "closed"
    BY <1>3, NewClients DEF Takes
  <2> QED
    BY <1>2, <1>3, <2>1 DEF Takes, Same
<1>5. Touches(r, o, s, objects) /\ Keeps(objects)
  BY <1>1, <1>2, <1>3, HangupTouches DEF Takes
<1> HIDE DEF s, objects, t
<1>6. login[o] \in LoginStates /\ login' = [login EXCEPT ![o] = login[o]]
  BY <1>1, <1>2, RequestFacts, Things
<1>7. Off(store[u]) \in Rows /\ Off(store[u]).token = store[u].token /\ store'[u] = Off(store[u])
  BY <1>1, RequestFacts, StoreRows
<1>8. ProcessLockFollows(r, Idle)
  BY <1>1, <1>2, RequestFacts, ContextFollows, GivesLockBack
<1>9. ASSUME ThreadsReturn, EverythingIsOwn
      PROVE  /\ request[r].pc \in {"login", "market"} => Mine(r) = o
             /\ login[o] \notin Running /\ ~s.fetching
             /\ OwnSession(s)
             /\ store'[u].token \in {u, NoUser}
             /\ \A order \in orders' : order.account = order.by
  BY <1>1, <1>2, <1>4, <1>7, <1>9, RequestFacts DEF EverythingIsOwn, OwnSession
<1>10. ASSUME Tidy
       PROVE  /\ \A p \in Objects \ {o} : object[p].user = u => ~Usable(object[p])
              /\ inside = r => Mine(r) = o
              /\ Settled(s, login[o])
              /\ Usable(s) => s.state.open /\ listed'[u] = o
  BY <1>1, <1>2, <1>4, <1>10, OnlyMine DEF Settled, Usable
<1>11. global' \in Globals /\ orders' \subseteq Booked /\ left' \subseteq Users
  BY <1>1, RequestFacts
<1> HIDE DEF o
<1> QED
  BY <1>1, <1>2, <1>4, <1>5, <1>6, <1>7, <1>8, <1>9, <1>10, <1>11, AnswersSound

\* ForcesReal writes the balance and nothing else.
LEMMA ForcedGlobals ==
  ASSUME TypeOK, NEW o \in Objects, ForcesReal(o)
  PROVE  global' \in Globals /\ global'.ssid = global.ssid /\ global'.open = global.open
<1>1. RealMode \in Balance /\ global.balance \in Balance
  BY Things DEF Balance, RealMode, Globals
<1>2. global' = global \/ (\E b \in Balance : global' = [global EXCEPT !.balance = b])
  BY <1>1, Things DEF ForcesReal, Globals
<1> QED
  BY <1>2, Things DEF Globals

\* The session whose SSID _persist_connected stores.
Told(o, g) == [ForcedReal(o, g) EXCEPT !.state = object[o].state]

LEMMA ModeChangedSound ==
  ASSUME IInv, NEW r \in Requests, ModeChanged(r)  PROVE IInv'
<1> DEFINE o == Mine(r)
           u == User(r)
           s == ForcedReal(o, global')
           row == Persisted(store[u], Told(o, global'))
<1>1. /\ request[r].pc = "calling" /\ Done(r) /\ inside' = NoRequest /\ ForcesReal(o)
      /\ store' = [store EXCEPT ![u] = row]
      /\ UNCHANGED <<profile, listed, login, orders, left, env>>
      /\ Keeps(With(o, s))
  BY DEF ModeChanged, Ready, At, With, Told, Leaves
<1>2. o \in Objects /\ object[o].user = u
  BY <1>1, Calling
<1>3. global' \in Globals /\ global'.ssid = global.ssid /\ global'.open = global.open
  BY <1>1, <1>2, RequestFacts, ForcedGlobals
<1>4. Takes(s, object[o], global') /\ s.finished = object[o].finished
  BY <1>2, <1>3, RequestFacts, Things, NewForced
<1>5. Told(o, global') \in Session /\ Told(o, global').state = object[o].state
  BY <1>2, <1>4, RequestFacts, Things DEF Told, Session, Takes
<1>6. row \in Rows /\ row.token \in {store[u].token, object[o].state.ssid}
  BY <1>5, RequestFacts, StoreRows
<1> HIDE DEF s, row
<1>7. store'[u] = row
  BY <1>1, RequestFacts
<1>8. ASSUME EverythingIsOwn
      PROVE  /\ store'[u].token \in {u, NoUser}
             /\ \A order \in orders' : order.account = order.by
  BY <1>1, <1>2, <1>6, <1>7, <1>8, RequestFacts DEF EverythingIsOwn, OwnSession
<1>9. orders' \subseteq Booked
  BY <1>1, RequestFacts
<1> QED
  BY <1>1, <1>3, <1>4, <1>6, <1>8, <1>9, CallEndsSound

\* A fetch starts on the session of its request.
Fetching(s) == [s EXCEPT !.fetching = TRUE]

LEMMA NewFetching ==
  ASSUME NEW s \in Session
  PROVE  /\ Fetching(s) \in Session /\ Fetching(s).user = s.user
         /\ Fetching(s).account = s.account /\ Fetching(s).state = s.state
         /\ Fetching(s).socket = s.socket /\ Fetching(s).finished = s.finished
BY DEF Session, Fetching

LEMMA NewFetched ==
  ASSUME NEW o \in Objects, object[o] \in Session
  PROVE  /\ Fetched(o) \in Session /\ Fetched(o).user = object[o].user
         /\ Fetched(o).socket = object[o].socket /\ Fetched(o).account = object[o].account
         /\ ~Fetched(o).fetching /\ Fetched(o).finished = (object[o].finished \/ login[o] = "ok")
<1> DEFINE b == object[o].finished \/ login[o] = "ok"
<1>1. b \in BOOLEAN
  OBVIOUS
<1>2. Fetched(o) = [object[o] EXCEPT !.fetching = FALSE, !.finished = b]
  BY DEF Fetched
<1> HIDE DEF b
<1>3. /\ Fetched(o) \in Session /\ Fetched(o).user = object[o].user
      /\ Fetched(o).socket = object[o].socket /\ Fetched(o).account = object[o].account
      /\ ~Fetched(o).fetching /\ Fetched(o).finished = b
  BY <1>1, <1>2 DEF Session
<1> QED
  BY <1>3 DEF b

LEMMA MarketBeginsSound ==
  ASSUME IInv, NEW r \in Requests, MarketBegins(r)  PROVE IInv'
<1> DEFINE u == User(r)
           o == Mine(r)
           s == Fetching(object[o])
           q == Moved(request[r], "market")
<1>1. /\ request[r].pc = "calling" /\ global.open /\ request[r].kind = "market"
      /\ request' = [request EXCEPT ![r] = q]
      /\ UNCHANGED <<global, profile, inside, lock, listed, login, store, orders, left, env>>
      /\ Keeps([object EXCEPT ![o].fetching = TRUE])
  BY DEF MarketBegins, Ready, At, Goto, Moved
<1>2. /\ o \in Objects /\ object[o].user = u /\ inside = r /\ o \in Known(r)
      /\ request[r].pc \in Holding /\ request[r].pc \in Waiting /\ LeftFollows(r, q)
      /\ ThreadsReturn => /\ global.ssid \in {u, NoUser}
                          /\ login[o] \notin Running /\ ~object[o].fetching
      /\ Tidy => listed[u] = o /\ Settled(object[o], login[o])
  BY <1>1, Calling
<1>3. /\ s \in Session /\ s.user = u /\ s.account = object[o].account /\ s.state = object[o].state
      /\ s.socket = object[o].socket /\ s.finished = object[o].finished
  BY <1>2, RequestFacts, Things, NewFetching
<1>4. Keeps(With(o, s))
  BY <1>1, <1>2, RequestFacts DEF With, Fetching
<1>5. /\ q \in Request /\ q.pc = "market" /\ q.user = u /\ q.kind = "market" /\ q.object = o
      /\ q.old = request[r].old /\ q.flow = request[r].flow
  <2>1. "market" \in Steps
    BY DEF Steps
  <2> QED
    BY <1>1, <2>1, RequestFacts, NextRequest
<1> HIDE DEF q, s
<1>6. /\ Equipped(q) /\ q.pc \in Holding /\ q.pc \in Waiting /\ q.pc # "cleanup"
      /\ q.object \in Known(r) /\ q.old \in Known(r)
  BY <1>1, <1>2, <1>5, RequestFacts DEF Equipped, Holding, Waiting, Known
<1>7. UserLockFollows(r, q) /\ ProcessLockFollows(r, q)
  BY <1>1, <1>2, <1>5, <1>6, RequestFacts, KeepsUserLock, ContextFollows
<1>8. /\ login[o] \in LoginStates /\ login' = [login EXCEPT ![o] = login[o]]
      /\ Touches(r, o, s, With(o, s))
  BY <1>1, <1>2, <1>3, RequestFacts, Things, WithTouches
<1>9. ASSUME ThreadsReturn, EverythingIsOwn
      PROVE  /\ request[r].pc \in {"login", "market"} => Mine(r) = o
             /\ Employs(q, o, s, login[o])
             /\ OwnSession(s)
             /\ q.pc \in Waiting => global'.ssid \in {q.user, NoUser}
             /\ store'[u].token \in {u, NoUser}
             /\ \A order \in orders' : order.account = order.by
  BY <1>1, <1>2, <1>3, <1>5, <1>9, RequestFacts DEF EverythingIsOwn, OwnSession, Employs
<1>10. ASSUME Tidy  PROVE SocketsFollow(r, q, With(o, s))
  <2>1. \A p \in Objects \ {o} : object[p].user = u => ~Usable(object[p])
    BY <1>1, <1>10, OnlyMine
  <2>2. ByFlow(q, listed'[u], Dead(listed'[u], With(o, s)))
    BY <1>1, <1>2, <1>5, <1>10 DEF ByFlow, Working, Making
  <2> QED
    BY <1>1, <1>2, <1>3, <1>4, <1>6, <1>8, <1>10, <2>1, <2>2, OneSocket
<1>11. ASSUME Tidy
       PROVE  /\ Settled(s, login[o])
              /\ Usable(s) => s.state.open \/ (q.pc \in Waiting /\ q.object = o)
              /\ q.pc \in Waiting => q.object = o /\ FlagIsSet(q, s, global'.open)
              /\ inside = r => Mine(r) = o
              /\ SocketsFollow(r, q, With(o, s)) \/ SocketsAlone(r, q, With(o, s))
  BY <1>1, <1>2, <1>3, <1>5, <1>6, <1>10, <1>11 DEF Settled, FlagIsSet
<1>12. global' \in Globals /\ orders' \subseteq Booked /\ left' \subseteq Users
  BY <1>1, RequestFacts
<1> HIDE DEF o
<1> QED
  BY <1>1, <1>2, <1>3, <1>4, <1>5, <1>6, <1>7, <1>8, <1>9, <1>11, <1>12, SessionSound

LEMMA FetchReturnsSound ==
  ASSUME IInv, NEW r \in Requests, FetchReturns(r)  PROVE IInv'
<1> DEFINE o == Mine(r)
           s == Captured(Fetched(o), global)
<1>1. /\ request[r].pc = "market" /\ login' = [login EXCEPT ![o] = "none"]
      /\ Done(r) /\ inside' = NoRequest
      /\ UNCHANGED <<global, profile, listed, store, orders, left, env>>
      /\ Keeps(With(o, s))
  BY DEF FetchReturns, At, Leaves, With
<1>2. /\ o \in Objects
      /\ Tidy => /\ Settled(object[o], login[o])
                 /\ FlagIsSet(request[r], object[o], global.open)
  BY <1>1, Calling
<1>3. /\ Fetched(o) \in Session /\ Fetched(o).user = object[o].user
      /\ Fetched(o).socket = object[o].socket /\ Fetched(o).account = object[o].account
      /\ ~Fetched(o).fetching /\ Fetched(o).finished = (object[o].finished \/ login[o] = "ok")
  BY <1>2, RequestFacts, Things, NewFetched
<1>4. Takes(s, Fetched(o), global) /\ s.finished = Fetched(o).finished
  BY <1>3, RequestFacts, NewCaptured
<1> HIDE DEF s
<1>5. /\ s \in Session /\ s.user = object[o].user /\ s.socket = object[o].socket
      /\ s.account = object[o].account /\ s.state = global' /\ ~s.fetching
      /\ s.finished = (object[o].finished \/ login[o] = "ok")
  BY <1>1, <1>3, <1>4 DEF Takes
<1>6. "none" \in LoginStates /\ "none" \notin Running
  BY DEF LoginStates, Running
<1>7. ASSUME ThreadsReturn, EverythingIsOwn
      PROVE  /\ "none" \notin Running /\ ~s.fetching
             /\ store'[User(r)].token \in {User(r), NoUser}
             /\ \A order \in orders' : order.account = order.by
  BY <1>1, <1>5, <1>6, <1>7, RequestFacts DEF EverythingIsOwn
<1>8. ASSUME Tidy  PROVE Settled(s, "none") /\ (Usable(s) => global'.open /\ listed' = listed)
  BY <1>1, <1>2, <1>5, <1>6, <1>8 DEF Settled, Usable, FlagIsSet
<1>9. global' \in Globals /\ orders' \subseteq Booked
  BY <1>1, RequestFacts
<1> QED
  BY <1>1, <1>5, <1>6, <1>7, <1>8, <1>9, LeavesSound

\* Only a thread that outlives its time is left behind.
LEMMA FetchOutlivesSound ==
  ASSUME IInv, NEW r \in Requests, FetchOutlives(r)  PROVE IInv'
<1> DEFINE o == Mine(r)
           s == Captured(object[o], global)
<1>1. /\ request[r].pc = "market" /\ Done(r) /\ inside' = NoRequest /\ "late" \in Events
      /\ UNCHANGED <<global, profile, listed, login, store, orders, left, env>>
      /\ Keeps(With(o, Captured(object[o], global')))
  BY DEF FetchOutlives, At, Leaves, With, Captures
<1>2. o \in Objects
  BY <1>1, Calling
<1>3. Takes(s, object[o], global) /\ login[o] \in LoginStates /\ login' = [login EXCEPT ![o] = login[o]]
  BY <1>1, <1>2, RequestFacts, Things, NewCaptured
<1>4. Keeps(With(o, s)) /\ global' \in Globals /\ orders' \subseteq Booked
  BY <1>1, RequestFacts
<1>5. ~ThreadsReturn /\ ~Tidy
  BY <1>1 DEF ThreadsReturn, Tidy
<1> HIDE DEF s
<1>6. /\ s \in Session /\ s.user = object[o].user /\ s.socket = object[o].socket
      /\ s.account = object[o].account /\ s.state = global'
  BY <1>1, <1>3 DEF Takes
<1> QED
  BY <1>1, <1>3, <1>4, <1>5, <1>6, LeavesSound

\* connect has answered; the session may have got a new request meanwhile.
LEMMA ConnectTailSound ==
  ASSUME IInv, NEW r \in Requests, ConnectTail(r)  PROVE IInv'
<1> DEFINE o == Mine(r)
           u == User(r)
           s == ForcedReal(o, global')
<1>1. /\ request[r].pc = "forcing" /\ ForcesReal(o) /\ inside' = NoRequest /\ Done(r)
      /\ UNCHANGED <<profile, listed, login, store, orders, left, env>>
      /\ Keeps(With(o, s))
  BY DEF ConnectTail, At, With
<1>2. /\ o \in Objects /\ object[o].user = u /\ o \in Known(r) /\ inside = r
      /\ request[r].pc \notin Holding /\ request[r].pc \in Waiting
      /\ request[r].pc \notin {"login", "market"}
  BY <1>1, RequestFacts DEF Equipped, Known, Holding, Waiting
<1>3. global' \in Globals /\ global'.ssid = global.ssid /\ global'.open = global.open
  BY <1>1, <1>2, RequestFacts, ForcedGlobals
<1>4. Takes(s, object[o], global') /\ s.finished = object[o].finished
  BY <1>2, <1>3, RequestFacts, NewForced
<1> HIDE DEF s
<1>5. /\ UserLockFollows(r, Idle) /\ request' = [request EXCEPT ![r] = Idle]
      /\ Idle \in Request /\ Equipped(Idle) /\ Idle.pc \notin Holding /\ Idle.pc \notin Waiting
      /\ Idle.pc # "cleanup" /\ Idle.object = NoObject /\ Idle.old = NoObject
  BY <1>1, GivesLockBack
<1>6. ProcessLockFollows(r, Idle)
  BY <1>1, <1>2, <1>5, RequestFacts, ContextFollows
<1>7. LeftFollows(r, Idle)
  BY <1>1, <1>5, RequestFacts DEF LeftFollows, Control, LeftStaysOut
<1>8. login[o] \in LoginStates /\ login' = [login EXCEPT ![o] = login[o]]
  BY <1>1, <1>2, RequestFacts, Things
<1>9. ASSUME ThreadsReturn, EverythingIsOwn
      PROVE  /\ request[r].pc \in {"login", "market"} => Mine(r) = o
             /\ Employs(Idle, o, s, login[o])
             /\ OwnSession(s)
             /\ Idle.pc \in Waiting => global'.ssid \in {Idle.user, NoUser}
             /\ store'[u].token \in {u, NoUser}
             /\ \A order \in orders' : order.account = order.by
  <2>1. Employs(request[r], o, object[o], login[o])
    BY <1>2, <1>9, MyThreads
  <2>4. login[o] \notin Running /\ ~object[o].fetching
    BY <1>2, <2>1 DEF Employs
  <2>2. Employs(Idle, o, s, login[o])
    BY <1>4, <2>4 DEF Employs, Takes
  <2>5. global.ssid \in {u, NoUser} /\ OwnSession(object[o])
    BY <1>2, <1>9, RequestFacts DEF EverythingIsOwn
  <2>3. OwnSession(s)
    BY <1>2, <1>3, <1>4, <2>5, OwnAfter
  <2> QED
    BY <1>1, <1>5, <1>9, <2>2, <2>3, RequestFacts DEF EverythingIsOwn
<1>10. s.user = u /\ s \in Session /\ Touches(r, o, s, With(o, s))
  BY <1>2, <1>4, RequestFacts, WithTouches DEF Takes
<1>11. ASSUME Tidy  PROVE SocketsAlone(r, Idle, With(o, s))
  <2>1. lock[u] # r
    BY <1>2, RequestFacts DEF Control, UserLocks
  <2>2. lock' = lock
    BY <1>1, <2>1, RequestFacts DEF Done, Control, TypeOK
  <2>3. /\ With(o, s)[o] = s /\ \A p \in Objects \ {o} : With(o, s)[p] = object[p]
    BY <1>2, RequestFacts DEF With
  <2> QED
    BY <1>1, <1>2, <1>4, <1>5, <2>2, <2>3 DEF SocketsAlone, Takes
<1>12. ASSUME Tidy
       PROVE  /\ Settled(s, login[o])
              /\ Usable(s) => s.state.open \/ (Idle.pc \in Waiting /\ Idle.object = o)
              /\ Idle.pc \in Waiting => Idle.object = o /\ FlagIsSet(Idle, s, global'.open)
              /\ inside = r => Mine(r) = o
              /\ SocketsFollow(r, Idle, With(o, s)) \/ SocketsAlone(r, Idle, With(o, s))
  <2>1. Settled(object[o], login[o]) /\ FlagIsSet(request[r], object[o], global.open)
    BY <1>2, <1>12, MyFlags
  <2>2. Settled(s, login[o]) /\ (Usable(s) => s.state.open)
    BY <1>3, <1>4, <2>1 DEF Settled, Takes, Usable, FlagIsSet
  <2> QED
    BY <1>5, <1>11, <1>12, <2>2
<1>13. orders' \subseteq Booked /\ left' \subseteq Users
       /\ Idle.object \in Known(r) /\ Idle.old \in Known(r)
  BY <1>1, <1>5, RequestFacts DEF Known
<1> HIDE DEF o
<1> QED
  BY <1>1, <1>2, <1>3, <1>5, <1>6, <1>7, <1>8, <1>9, <1>10, <1>12, <1>13, SessionSound
-----------------------------------------------------------------------------
(* Requests that close a session                                           *)

\* A session is closed in a context of its own, in which no thread works.
LEMMA ClosesFacts ==
  ASSUME IInv, NEW r \in Requests, inside = NoRequest, NEW o \in Known(r) \ {NoObject}
  PROVE  /\ o \in Objects /\ object[o].user = User(r)
         /\ Closed(object[o]) \in Session /\ Closed(object[o]).user = User(r)
         /\ Closed(object[o]).socket = "closed" /\ Closed(object[o]).state = object[o].state
         /\ Touches(r, o, Closed(object[o]), With(o, Closed(object[o])))
         /\ login[o] \in LoginStates /\ login = [login EXCEPT ![o] = login[o]]
         /\ object[o].state \in Globals
         /\ ThreadsReturn => /\ EverythingIsOwn /\ OwnSession(Closed(object[o]))
                             /\ \A q : Employs(q, o, Closed(object[o]), login[o])
         /\ Tidy => Settled(Closed(object[o]), login[o]) /\ ~Usable(Closed(object[o]))
<1> DEFINE s == Closed(object[o])
<1>1. o \in Objects /\ object[o].user = User(r)
  BY RequestFacts DEF Known
<1>2. /\ s \in Session /\ Same(s, object[o]) /\ s.socket = "closed" /\ s.account = object[o].account
      /\ login[o] \in LoginStates /\ login = [login EXCEPT ![o] = login[o]]
      /\ object[o].state \in Globals
  BY <1>1, RequestFacts, Things, NewClients
<1> HIDE DEF s
<1>3. Touches(r, o, s, With(o, s))
  BY <1>1, <1>2, RequestFacts, WithTouches
<1>4. ASSUME ThreadsReturn
      PROVE  EverythingIsOwn /\ OwnSession(s) /\ \A q : Employs(q, o, s, login[o])
  <2>1. EverythingIsOwn /\ login[o] \notin Running /\ ~object[o].fetching
    BY <1>1, <1>4, NobodyBusy DEF IInv, Ownership, EverythingIsOwn
  <2> QED
    BY <1>1, <1>2, <2>1 DEF EverythingIsOwn, OwnSession, Employs, Same
<1>5. Tidy => Settled(s, login[o]) /\ ~Usable(s)
  BY <1>1, <1>2, MyFlags DEF Settled, Usable, Same
<1> QED
  BY <1>1, <1>2, <1>3, <1>4, <1>5 DEF s, Same

\* The session a request closes before it is answered.
LEMMA ClosedSound ==
  ASSUME IInv, NEW r \in Requests, Done(r), Brief, request[r].pc \notin {"login", "market"},
         LeftFollows(r, Idle), NEW o \in Known(r) \ {NoObject}, Keeps(With(o, Closed(object[o]))),
         global' \in Globals, UNCHANGED <<profile, login, orders, env>>, left' \subseteq Users,
         Remove(User(r)), NEW row \in Rows, store' = [store EXCEPT ![User(r)] = row],
         row.token \in {store[User(r)].token, NoUser},
         Tidy => request[r].pc \in Holding \ Making /\ o = listed[User(r)]
  PROVE  IInv'
<1> DEFINE s == Closed(object[o])
<1>1. /\ o \in Objects /\ object[o].user = User(r) /\ s \in Session /\ s.user = User(r)
      /\ Touches(r, o, s, With(o, s)) /\ login[o] \in LoginStates
      /\ login' = [login EXCEPT ![o] = login[o]]
      /\ ThreadsReturn => /\ OwnSession(s) /\ \A q : Employs(q, o, s, login[o])
      /\ Tidy => Settled(s, login[o]) /\ ~Usable(s)
  BY ClosesFacts DEF Brief
<1>2. Keeps(With(o, s))
  OBVIOUS
<1> HIDE DEF s
<1>3. /\ UserLockFollows(r, Idle) /\ request' = [request EXCEPT ![r] = Idle]
      /\ Idle \in Request /\ Equipped(Idle) /\ Idle.pc \notin Holding /\ Idle.pc \notin Waiting
      /\ Idle.pc # "cleanup" /\ Idle.object = NoObject /\ Idle.old = NoObject
  BY GivesLockBack
<1>4. ProcessLockFollows(r, Idle) /\ inside = NoRequest /\ inside # r
  BY <1>3, RequestFacts, ContextFollows DEF Brief
<1>5. store'[User(r)] = row
  BY RequestFacts
<1>6. ASSUME ThreadsReturn, EverythingIsOwn
      PROVE  /\ request[r].pc \in {"login", "market"} => Mine(r) = o
             /\ Employs(Idle, o, s, login[o])
             /\ OwnSession(s)
             /\ Idle.pc \in Waiting => global'.ssid \in {Idle.user, NoUser}
             /\ store'[User(r)].token \in {User(r), NoUser}
             /\ \A order \in orders' : order.account = order.by
  BY <1>1, <1>3, <1>5, <1>6, RequestFacts DEF EverythingIsOwn
<1>7. ASSUME Tidy
      PROVE  /\ Settled(s, login[o])
             /\ Usable(s) => s.state.open \/ (Idle.pc \in Waiting /\ Idle.object = o)
             /\ Idle.pc \in Waiting => Idle.object = o /\ FlagIsSet(Idle, s, global'.open)
             /\ inside = r => Mine(r) = o
             /\ SocketsFollow(r, Idle, With(o, s)) \/ SocketsAlone(r, Idle, With(o, s))
  <2>1. /\ request[r].pc \in Holding /\ request[r].pc \notin Making /\ o = listed[User(r)]
        /\ lock[User(r)] = r
    BY <1>7, RequestFacts
  <2>2. \A p \in Objects \ {o} : object[p].user = User(r) => ~Usable(object[p])
    BY <1>7, <2>1, MySockets DEF Makes
  <2>3. SocketsFollow(r, Idle, With(o, s))
    BY <1>1, <1>2, <1>3, <1>7, <2>1, <2>2, OneSocket
  <2> QED
    BY <1>1, <1>3, <1>4, <1>7, <2>3
<1>8. orders' \subseteq Booked /\ Idle.object \in Known(r) /\ Idle.old \in Known(r) /\ o \in Known(r)
  BY <1>3, RequestFacts DEF Known
<1> QED
  BY <1>1, <1>2, <1>3, <1>4, <1>6, <1>7, <1>8, SessionSound

\* A request that finds no session to close.
LEMMA NothingClosedSound ==
  ASSUME IInv, NEW r \in Requests, Done(r), Brief, request[r].pc \notin {"login", "market"},
         LeftFollows(r, Idle), Keeps(object),
         global' = global, UNCHANGED <<profile, login, orders, env>>, left' \subseteq Users,
         Remove(User(r)), store' = [store EXCEPT ![User(r)] = Revoked(store[User(r)])],
         Tidy => request[r].pc \in Holding \ Making /\ listed[User(r)] = NoObject
  PROVE  IInv'
<1>1. /\ UserLockFollows(r, Idle) /\ request' = [request EXCEPT ![r] = Idle]
      /\ Idle \in Request /\ Equipped(Idle) /\ Idle.pc \notin Holding /\ Idle.pc \notin Waiting
      /\ Idle.pc # "cleanup" /\ Idle.object = NoObject /\ Idle.old = NoObject
  BY GivesLockBack
<1>2. Revoked(store[User(r)]) \in Rows /\ Revoked(store[User(r)]).token = NoUser
  BY RequestFacts, StoreRows
<1>3. ProcessLockFollows(r, Idle) /\ inside # r
  BY <1>1, RequestFacts, ContextFollows DEF Brief
<1>4. Turn(r, Idle, object)
  <2>1. listed' \in [Users -> Objects \cup {NoObject}] /\ \A v \in Users \ {User(r)} : listed'[v] = listed[v]
    BY RequestFacts, Listing
  <2>2. store' \in [Users -> Rows] /\ \A v \in Users \ {User(r)} : store'[v] = store[v]
    BY <1>2, RequestFacts, Storing
  <2>3. global' \in Globals /\ orders' \subseteq Booked /\ env' = env /\ profile' = profile
    BY RequestFacts
  <2>4. KeptAs(object) /\ login' \in [Objects -> LoginStates] /\ login' = login
    BY Unworked
  <2> QED
    BY <1>1, <1>3, <2>1, <2>2, <2>3, <2>4, RequestFacts, TurnHolds
<1>5. listed'[User(r)] = NoObject /\ store'[User(r)] = Revoked(store[User(r)])
  BY RequestFacts DEF Remove, Control, TypeOK
<1>6. OwnersFollow(r, Idle, object)
  BY <1>1, <1>5, Unworked, ReworksOwn DEF Known
<1>7. ThreadsReturn => OwnFollows(r, Idle, object)
  BY <1>1, <1>2, <1>5, OwnStays
<1>8. ASSUME Tidy  PROVE FlagsFollow(r, Idle, object) /\ SocketsFollow(r, Idle, object)
  <2>1. listed' = listed
    BY <1>8, RequestFacts DEF Remove, Control, TypeOK
  <2>2. lock[User(r)] = r /\ \A p \in Objects : ~Makes(request[r], p)
    BY <1>8, RequestFacts DEF Makes
  <2> QED
    BY <1>1, <1>3, <1>8, <2>1, <2>2, FlagsRest, SocketsRest
<1> QED
  BY <1>1, <1>4, <1>6, <1>7, <1>8, StepSound

LEMMA ConnectCleanupSound ==
  ASSUME IInv, NEW r \in Requests, ConnectCleanup(r)  PROVE IInv'
<1> DEFINE u == User(r)
           o == listed[u]
<1>1. /\ request[r].pc = "cleanup" /\ Brief /\ Done(r) /\ Remove(u)
      /\ store' = [store EXCEPT ![u] = Revoked(store[u])]
      /\ UNCHANGED <<profile, login, orders, left, env>>
      /\ \/ o = NoObject /\ global' = global /\ Keeps(object)
         \/ o # NoObject /\ global' = object[o].state /\ Keeps(With(o, Closed(object[o])))
  BY DEF ConnectCleanup, At, Activate, With
<1>2. ~Tidy
  BY <1>1 DEF IInv, Sockets, SocketLayer, ListedByFlow, ByFlow
<1>4. Revoked(store[u]) \in Rows /\ Revoked(store[u]).token = NoUser /\ ~Revoked(store[u]).on
  BY RequestFacts, StoreRows
<1>5. listed'[u] = NoObject /\ store'[u] = Revoked(store[u])
  BY <1>1, RequestFacts DEF Remove, Control, TypeOK
<1>6. LeftFollows(r, Idle) /\ left' \subseteq Users
  BY <1>1, <1>4, <1>5, GivesLockBack, RequestFacts DEF LeftFollows
<1>7. CASE o = NoObject /\ global' = global /\ Keeps(object)
  BY <1>1, <1>2, <1>6, <1>7, NothingClosedSound
<1>8. CASE o # NoObject /\ global' = object[o].state /\ Keeps(With(o, Closed(object[o])))
  <2>1. o \in Known(r) \ {NoObject} /\ global' \in Globals
    BY <1>1, <1>8, ClosesFacts DEF Known, Brief
  <2> QED
    BY <1>1, <1>2, <1>4, <1>6, <1>8, <2>1, ClosedSound
<1> QED
  BY <1>1, <1>7, <1>8

LEMMA OldSessionClosesSound ==
  ASSUME IInv, NEW r \in Requests, OldSessionCloses(r)  PROVE IInv'
<1> DEFINE u == User(r)
           o == Mine(r)
           q == MovedWith(request[r], "new", NoObject)
<1>1. /\ request[r].pc = "close" /\ Brief /\ Remove(u)
      /\ store' = [store EXCEPT ![u] = Revoked(store[u])]
      /\ UNCHANGED <<profile, inside, login, orders, env>>
      /\ \/ o = NoObject /\ global' = global /\ Keeps(object)
         \/ o # NoObject /\ global' = object[o].state /\ Keeps(With(o, Closed(object[o])))
      /\ \/ request[r].kind = "disconnect" /\ left' = left \cup {u} /\ Done(r)
         \/ /\ request[r].kind # "disconnect" /\ request' = [request EXCEPT ![r] = q]
            /\ lock' = lock /\ left' = left
  BY DEF OldSessionCloses, At, Activate, With, MovedWith
<1>2. /\ request[r].pc \in Holding /\ request[r].pc \notin Waiting /\ request[r].pc \notin Making
      /\ request[r].pc \notin {"login", "market"}
  BY <1>1 DEF Holding, Waiting, Making
<1>3. lock[u] = r /\ o \in Known(r) /\ (Tidy => o = listed[u])
  BY <1>1, <1>2, RequestFacts DEF Known, IInv, Sockets, SocketLayer, ListedByFlow, ByFlow
<1>4. Revoked(store[u]) \in Rows /\ Revoked(store[u]).token = NoUser /\ ~Revoked(store[u]).on
  BY RequestFacts, StoreRows
<1>5. listed'[u] = NoObject /\ store'[u] = Revoked(store[u])
  BY <1>1, RequestFacts DEF Remove, Control, TypeOK
<1>6. CASE request[r].kind = "disconnect" /\ left' = left \cup {u} /\ Done(r)
  <2>2. LeftFollows(r, Idle) /\ left' \subseteq Users
    BY <1>3, <1>4, <1>5, <1>6, GivesLockBack, RequestFacts DEF LeftFollows
  <2>3. CASE o = NoObject /\ global' = global /\ Keeps(object)
    BY <1>1, <1>2, <1>3, <1>6, <2>2, <2>3, NothingClosedSound
  <2>4. CASE o # NoObject /\ global' = object[o].state /\ Keeps(With(o, Closed(object[o])))
    <3>1. o \in Known(r) \ {NoObject} /\ global' \in Globals
      BY <1>1, <1>3, <2>4, ClosesFacts DEF Brief
    <3> QED
      BY <1>1, <1>2, <1>3, <1>4, <1>6, <2>2, <2>4, <3>1, ClosedSound
  <2> QED
    BY <1>1, <2>3, <2>4
<1>7. CASE /\ request[r].kind # "disconnect" /\ request' = [request EXCEPT ![r] = q]
           /\ lock' = lock /\ left' = left
  <2> DEFINE s == Closed(object[o])
  <2>1. o \in Known(r) \ {NoObject} /\ request[r].flow = "connect" /\ request[r].kind # "sms"
        /\ request[r].attempt = 0
    BY <1>1, <1>3, <1>7, RequestFacts DEF Equipped
  <2>2. /\ q \in Request /\ q.pc = "new" /\ q.user = u /\ q.kind = request[r].kind
        /\ q.object = NoObject /\ q.old = request[r].old /\ q.flow = "connect" /\ q.attempt = 0
    <3>1. "new" \in Steps
      BY DEF Steps
    <3> QED
      BY <2>1, <3>1, RequestFacts, NextRequestWith
  <2>3. /\ o \in Objects /\ object[o].user = u /\ s \in Session /\ s.user = u
        /\ Touches(r, o, s, With(o, s)) /\ login[o] \in LoginStates
        /\ login' = [login EXCEPT ![o] = login[o]] /\ object[o].state \in Globals
        /\ ThreadsReturn => /\ OwnSession(s) /\ \A p : Employs(p, o, s, login[o])
        /\ Tidy => Settled(s, login[o]) /\ ~Usable(s)
    BY <1>1, <2>1, ClosesFacts DEF Brief
  <2>4. Keeps(With(o, s)) /\ global' \in Globals
    BY <1>1, <2>1, <2>3
  <2> HIDE DEF q, s
  <2>5. Equipped(q) /\ q.pc \in Holding /\ q.pc \notin Waiting /\ q.object \in Known(r) /\ q.old \in Known(r)
    BY <2>1, <2>2, RequestFacts DEF Equipped, Holding, Waiting, Known
  <2>6. UserLockFollows(r, q)
    BY <1>2, <1>7, <2>2, <2>5, RequestFacts, KeepsUserLock
  <2>7. ProcessLockFollows(r, q) /\ inside = NoRequest /\ inside # r
    BY <1>1, <2>5, RequestFacts, ContextFollows DEF Brief
  <2>8. LeftFollows(r, q)
    BY <1>1, <1>2, <1>7, NotLeft DEF Idles
  <2>10. ASSUME ThreadsReturn, EverythingIsOwn
         PROVE  /\ request[r].pc \in {"login", "market"} => Mine(r) = o
                /\ Employs(q, o, s, login[o])
                /\ OwnSession(s)
                /\ q.pc \in Waiting => global'.ssid \in {q.user, NoUser}
                /\ store'[u].token \in {u, NoUser}
                /\ \A order \in orders' : order.account = order.by
    BY <1>1, <1>2, <1>4, <1>5, <2>3, <2>5, <2>10 DEF EverythingIsOwn
  <2>11. ASSUME Tidy
         PROVE  /\ Settled(s, login[o])
                /\ Usable(s) => s.state.open \/ (q.pc \in Waiting /\ q.object = o)
                /\ q.pc \in Waiting => q.object = o /\ FlagIsSet(q, s, global'.open)
                /\ inside = r => Mine(r) = o
                /\ SocketsFollow(r, q, With(o, s)) \/ SocketsAlone(r, q, With(o, s))
    <3>1. \A p \in Objects \ {o} : object[p].user = u => ~Usable(object[p])
      BY <1>2, <1>3, <2>11, MySockets, RequestFacts DEF Makes
    <3>3. ByFlow(q, listed'[u], Dead(listed'[u], With(o, s))) /\ q.pc # "cleanup"
      BY <1>5, <2>1, <2>2 DEF ByFlow, Working, Making, Dead
    <3>4. SocketsFollow(r, q, With(o, s))
      BY <1>2, <2>3, <2>4, <2>11, <3>1, <3>3, OneSocket
    <3> QED
      BY <2>3, <2>5, <2>7, <2>11, <3>4
  <2>12. \E row \in Rows : store' = [store EXCEPT ![u] = row]
    BY <1>1, <1>4
  <2>13. orders' \subseteq Booked /\ left' \subseteq Users /\ env' = env /\ profile' = profile
    BY <1>1, <1>7, RequestFacts
  <2> QED
    BY <1>1, <1>2, <1>3, <1>7, <2>2, <2>3, <2>4, <2>5, <2>6, <2>7, <2>8, <2>10,
       <2>11, <2>12, <2>13, SessionSound
<1> QED
  BY <1>1, <1>6, <1>7

\* A dead session is replaced by another one.
Replaces(q, o) == [q EXCEPT !.pc = "new", !.flow = "reconnect", !.attempt = 0, !.old = o]

LEMMA NewReplaces ==
  ASSUME NEW q \in Request, NEW o \in Objects \cup {NoObject}
  PROVE  /\ Replaces(q, o) \in Request /\ Replaces(q, o).pc = "new"
         /\ Replaces(q, o).flow = "reconnect" /\ Replaces(q, o).attempt = 0
         /\ Replaces(q, o).old = o /\ Replaces(q, o).user = q.user
         /\ Replaces(q, o).kind = q.kind /\ Replaces(q, o).object = q.object
<1>1. 0 \in 0..MaxAttempts
  BY SessionsAssumption
<1>2. Replaces(q, o) \in Request /\ Replaces(q, o).pc = "new"
  BY <1>1 DEF Replaces, Request
<1>3. /\ Replaces(q, o).flow = "reconnect" /\ Replaces(q, o).attempt = 0
      /\ Replaces(q, o).old = o /\ Replaces(q, o).user = q.user
      /\ Replaces(q, o).kind = q.kind /\ Replaces(q, o).object = q.object
  BY DEF Replaces, Request
<1> QED
  BY <1>2, <1>3

LEMMA SessionDeadSound ==
  ASSUME IInv, NEW r \in Requests, SessionDead(r)  PROVE IInv'
<1> DEFINE u == User(r)
           o == listed[u]
           q == Replaces(request[r], o)
           s == Closed(object[o])
<1>1. /\ request[r].pc = "check" /\ o # NoObject /\ Brief /\ global' = object[o].state
      /\ UNCHANGED <<profile, login, orders, left, env>> /\ Keeps(With(o, s))
      /\ \/ request' = [request EXCEPT ![r] = q] /\ UNCHANGED <<lock, listed, store>>
         \/ Remove(u) /\ store' = [store EXCEPT ![u] = Off(store[u])] /\ Done(r)
  BY DEF SessionDead, At, Activate, With, Replaces, MarkDisconnected
<1>2. /\ request[r].pc \in Holding /\ request[r].pc \notin Waiting /\ request[r].pc \notin Making
      /\ request[r].pc \notin {"login", "market"}
  BY <1>1 DEF Holding, Waiting, Making
<1>3. o \in Known(r) \ {NoObject} /\ u \notin left
  BY <1>1, RequestFacts DEF Known, Control, LeftStaysOut
<1>4. \A p : LeftFollows(r, p)
  BY <1>1, <1>3 DEF LeftFollows
<1>5. /\ o \in Objects /\ object[o].user = u /\ s \in Session /\ s.user = u /\ s.socket = "closed"
      /\ Touches(r, o, s, With(o, s)) /\ login[o] \in LoginStates
      /\ login' = [login EXCEPT ![o] = login[o]] /\ object[o].state \in Globals
      /\ ThreadsReturn => /\ OwnSession(s) /\ \A p : Employs(p, o, s, login[o])
      /\ Tidy => Settled(s, login[o]) /\ ~Usable(s)
  BY <1>1, <1>3, ClosesFacts DEF Brief
<1>6. /\ global' \in Globals /\ orders' \subseteq Booked /\ left' \subseteq Users
      /\ inside = NoRequest /\ inside # r
  BY <1>1, <1>5, RequestFacts DEF Brief
<1>7. CASE Remove(u) /\ store' = [store EXCEPT ![u] = Off(store[u])] /\ Done(r)
  <2>1. Off(store[u]) \in Rows /\ Off(store[u]).token = store[u].token
    BY RequestFacts, StoreRows
  <2>2. Keeps(With(o, Closed(object[o])))
    BY <1>1
  <2>3. Tidy => request[r].pc \in Holding \ Making /\ o = listed[User(r)]
    BY <1>2
  <2> HIDE DEF s
  <2> QED
    BY <1>1, <1>2, <1>3, <1>4, <1>6, <1>7, <2>1, <2>2, <2>3, ClosedSound
<1>8. CASE request' = [request EXCEPT ![r] = q] /\ UNCHANGED <<lock, listed, store>>
  <2>1. /\ q \in Request /\ q.pc = "new" /\ q.flow = "reconnect" /\ q.attempt = 0 /\ q.old = o
        /\ q.user = u /\ q.kind = request[r].kind /\ q.object = request[r].object
    <3>1. request[r] \in Request /\ o \in Objects \cup {NoObject} /\ request[r].user = u
      BY <1>5, RequestFacts
    <3> HIDE DEF o
    <3> QED
      BY <3>1, NewReplaces
  <2>2. request[r].kind # "sms"
    BY <1>1, RequestFacts DEF Equipped
  <2>3. Keeps(With(o, s))
    BY <1>1
  <2> HIDE DEF q, s
  <2>4. Equipped(q) /\ q.pc \in Holding /\ q.pc \notin Waiting /\ q.object \in Known(r) /\ q.old \in Known(r)
    BY <1>1, <2>1, <2>2, RequestFacts DEF Equipped, Holding, Waiting, Known
  <2>5. UserLockFollows(r, q)
    BY <1>2, <1>8, <2>1, <2>4, RequestFacts, KeepsUserLock
  <2>6. ProcessLockFollows(r, q)
    BY <1>1, <2>4, RequestFacts, ContextFollows
  <2>7. ASSUME ThreadsReturn, EverythingIsOwn
        PROVE  /\ request[r].pc \in {"login", "market"} => Mine(r) = o
               /\ Employs(q, o, s, login[o])
               /\ OwnSession(s)
               /\ q.pc \in Waiting => global'.ssid \in {q.user, NoUser}
               /\ store'[u].token \in {u, NoUser}
               /\ \A order \in orders' : order.account = order.by
    BY <1>1, <1>2, <1>5, <1>8, <2>4, <2>7, RequestFacts DEF EverythingIsOwn
  <2>8. ASSUME Tidy
        PROVE  /\ Settled(s, login[o])
               /\ Usable(s) => s.state.open \/ (q.pc \in Waiting /\ q.object = o)
               /\ q.pc \in Waiting => q.object = o /\ FlagIsSet(q, s, global'.open)
               /\ inside = r => Mine(r) = o
               /\ SocketsFollow(r, q, With(o, s)) \/ SocketsAlone(r, q, With(o, s))
    <3>1. ASSUME NEW p \in Objects \ {o}, object[p].user = u  PROVE ~Usable(object[p])
      BY <1>2, <2>8, <3>1, MySockets, RequestFacts DEF Makes
    <3>2. ByFlow(q, listed'[u], Dead(listed'[u], With(o, s))) /\ q.pc # "cleanup"
      <4>1. listed'[u] = o /\ With(o, s)[o] = s
        BY <1>5, <1>8, RequestFacts DEF With
      <4> QED
        BY <1>5, <2>1, <2>2, <4>1 DEF ByFlow, Working, Making, Dead
    <3>3. SocketsFollow(r, q, With(o, s))
      BY <1>2, <1>5, <2>3, <2>8, <3>1, <3>2, OneSocket
    <3> QED
      BY <1>5, <1>6, <2>4, <2>8, <3>3
  <2>9. o \in Known(r)
    BY <1>3
  <2> HIDE DEF o
  <2> QED
    BY <1>1, <1>4, <1>5, <1>6, <1>8, <2>1, <2>3, <2>4, <2>5, <2>6, <2>7, <2>8, <2>9, SessionSound
<1> QED
  BY <1>1, <1>7, <1>8
-----------------------------------------------------------------------------
(* Requests that log a session in                                          *)

\* What holds while a request logs its session in.
LEMMA LoggingIn ==
  ASSUME IInv, NEW r \in Requests, request[r].pc \in Working
  PROVE  /\ Mine(r) \in Objects /\ Mine(r) \in Known(r) /\ object[Mine(r)].user = User(r)
         /\ request[r].pc \in Holding /\ lock[User(r)] = r /\ User(r) \notin left
         /\ \A q : left' = left => LeftFollows(r, q)
         /\ Tidy => IF request[r].flow = "connect" THEN listed[User(r)] = Mine(r)
                    ELSE listed[User(r)] # Mine(r) /\ Dead(listed[User(r)], object)
<1>1. request[r].pc \in Holding /\ ~Idles(request[r])
  BY DEF Working, Making, Holding, Idles
<1>2. Mine(r) \in Objects /\ object[Mine(r)].user = User(r)
  BY RequestFacts DEF Equipped, Working, Making
<1>3. lock[User(r)] = r /\ User(r) \notin left
  BY <1>1, RequestFacts DEF Control, LeftIsIdle
<1>4. \A q : left' = left => LeftFollows(r, q)
  BY <1>1, NotLeft
<1>5. Tidy => IF request[r].flow = "connect" THEN listed[User(r)] = Mine(r)
              ELSE listed[User(r)] # Mine(r) /\ Dead(listed[User(r)], object)
  BY RequestFacts DEF IInv, Sockets, SocketLayer, ListedByFlow, ByFlow
<1> QED
  BY <1>1, <1>2, <1>3, <1>4, <1>5, RequestFacts DEF Known

\* A session a request gives up: no login thread, and not one that works.
LEMMA RaisesSound ==
  ASSUME IInv, NEW r \in Requests, request[r].pc \in Working \cap Waiting,
         NEW s \in Session, s.user = User(r), NEW lg \in LoginStates,
         LoginRaises(r, With(Mine(r), s)), login' = [login EXCEPT ![Mine(r)] = lg],
         inside' = NoRequest, global' \in Globals, UNCHANGED <<profile, orders, left, env>>,
         ASSUME ThreadsReturn, EverythingIsOwn
         PROVE  OwnSession(s) /\ lg \notin Running /\ ~s.fetching,
         ASSUME Tidy  PROVE Settled(s, lg) /\ ~Usable(s)
  PROVE  IInv'
<1> DEFINE u == User(r)
           o == Mine(r)
<1>1. /\ o \in Objects /\ o \in Known(r) /\ object[o].user = u /\ request[r].pc \in Holding
      /\ LeftFollows(r, Idle) /\ inside = r
  BY LoggingIn, RequestFacts
<1>2. /\ Closed(s) \in Session /\ Same(Closed(s), s) /\ Closed(s).socket = "closed"
      /\ Closed(s).account = s.account
  BY NewClients
<1>3. PICK t \in {s, Closed(s)} : \E objects : Keeps(objects) /\ Touches(r, o, t, objects)
  <2>1. [With(o, s) EXCEPT ![o] = Closed(With(o, s)[o])] = With(o, Closed(s))
    BY <1>1, RequestFacts DEF With
  <2>2. /\ Touches(r, o, s, With(o, s)) /\ Touches(r, o, Closed(s), With(o, Closed(s)))
        /\ Touches(r, o, IF listed[u] = o THEN Closed(s) ELSE s, Hangup(u, With(o, s)))
    BY <1>1, <1>2, RequestFacts, WithTouches, HangupTouches
  <2>3. \/ Keeps(With(o, s)) \/ Keeps(Hangup(u, With(o, s)))
        \/ Keeps([With(o, s) EXCEPT ![o] = Closed(With(o, s)[o])])
    <3>1. request[r].flow \in {"connect", "reconnect", "restore"}
      BY RequestFacts DEF Request
    <3> QED
      BY <3>1 DEF LoginRaises
  <2>4. CASE Keeps(With(o, s))
    BY <2>2, <2>4
  <2>5. CASE Keeps(Hangup(u, With(o, s)))
    BY <2>2, <2>5
  <2>6. CASE Keeps([With(o, s) EXCEPT ![o] = Closed(With(o, s)[o])])
    BY <2>1, <2>2, <2>6
  <2> QED
    BY <2>3, <2>4, <2>5, <2>6
<1>p. PICK objects : Keeps(objects) /\ Touches(r, o, t, objects)
  BY <1>3
<1>4. /\ t \in Session /\ t.user = u /\ t.account = s.account /\ t.state = s.state
      /\ t.fetching = s.fetching /\ t.finished = s.finished /\ t.socket \in {s.socket, "closed"}
  BY <1>2, <1>3 DEF Same
<1>5. /\ Done(r) /\ (listed' = listed \/ Remove(u))
      /\ store' = store \/ store' = [store EXCEPT ![u] = Off(store[u])]
  BY DEF LoginRaises, MarkDisconnected
<1>6. Off(store[u]) \in Rows /\ Off(store[u]).token = store[u].token
  BY RequestFacts, StoreRows
<1>7. store'[u].token = store[u].token
  BY <1>5, <1>6, RequestFacts
<1>8. ProcessLockFollows(r, Idle)
  BY RequestFacts, ContextFollows, GivesLockBack, <1>5
<1>9. orders' \subseteq Booked /\ left' \subseteq Users
  BY RequestFacts
<1>10. ASSUME ThreadsReturn, EverythingIsOwn
       PROVE  /\ request[r].pc \in {"login", "market"} => Mine(r) = o
              /\ lg \notin Running /\ ~t.fetching
              /\ OwnSession(t)
              /\ store'[u].token \in {u, NoUser}
              /\ \A order \in orders' : order.account = order.by
  <2>1. OwnSession(s) /\ lg \notin Running /\ ~s.fetching
    BY <1>10
  <2>2. OwnSession(t)
    BY <1>4, <2>1 DEF OwnSession
  <2> QED
    BY <1>4, <1>7, <1>10, <2>1, <2>2, RequestFacts DEF EverythingIsOwn
<1>11. ASSUME Tidy
       PROVE  /\ \A p \in Objects \ {o} : object[p].user = u => ~Usable(object[p])
              /\ inside = r => Mine(r) = o
              /\ Settled(t, lg)
              /\ Usable(t) => t.state.open /\ listed'[u] = o
  <2>1. Settled(s, lg) /\ ~Usable(s)
    BY <1>11
  <2>2. Settled(t, lg) /\ ~Usable(t)
    BY <1>4, <2>1 DEF Settled, Usable
  <2> QED
    BY <1>11, <2>2, OnlyMine
<1>12. store' = store \/ (\E row \in Rows : store' = [store EXCEPT ![u] = row])
  BY <1>5, <1>6
<1> HIDE DEF o
<1>13. login' = [login EXCEPT ![o] = lg]
  BY DEF o
<1> QED
  BY <1>1, <1>p, <1>4, <1>5, <1>8, <1>9, <1>10, <1>11, <1>12, <1>13, AnswersSound

\* ... or tries again, with another session or, with an sms code, with this one.
LEMMA AgainSound ==
  ASSUME IInv, NEW r \in Requests, request[r].pc \in Working \cap Waiting,
         NEW s \in Session, s.user = User(r), NEW lg \in LoginStates,
         TriesAgain(r, With(Mine(r), s)), login' = [login EXCEPT ![Mine(r)] = lg],
         inside' = NoRequest, global' \in Globals, UNCHANGED <<profile, orders, left, env>>,
         ASSUME ThreadsReturn, EverythingIsOwn
         PROVE  OwnSession(s) /\ lg \notin Running /\ ~s.fetching,
         ASSUME Tidy  PROVE Settled(s, lg) /\ ~Usable(s)
  PROVE  IInv'
<1> DEFINE u == User(r)
           o == Mine(r)
           other == MovedWith(request[r], "new", NoObject)
           again == Moved(request[r], "new")
<1>1. /\ o \in Objects /\ o \in Known(r) /\ object[o].user = u /\ request[r].pc \in Holding
      /\ \A p : LeftFollows(r, p)
      /\ Tidy => IF request[r].flow = "connect" THEN listed[u] = o
                 ELSE listed[u] # o /\ Dead(listed[u], object)
  BY LoggingIn
<1>2. CASE LoginRaises(r, With(o, s))
  BY <1>2, RaisesSound
<1>3. ASSUME NEW q \in Request, q.pc = "new", q.user = u, q.kind = request[r].kind,
             q.old = request[r].old, q.flow = request[r].flow, q.attempt = request[r].attempt,
             request' = [request EXCEPT ![r] = q],
             request[r].attempt < env.attempts, request[r].flow # "restore",
             IF request[r].kind = "sms" THEN listed' = listed /\ q.object = o
             ELSE /\ q.object = NoObject
                  /\ IF request[r].flow = "connect" THEN Remove(u) ELSE listed' = listed,
             lock' = lock, store' = store, Keeps(With(o, s))
      PROVE  IInv'
  <2>1. env.attempts \in 1..MaxAttempts
    BY RequestFacts DEF TypeOK, Environment
  <2>2. request[r].kind = "sms" => request[r].flow = "connect"
    BY RequestFacts DEF Equipped, Working, Waiting, Making
  <2>3. Equipped(q) /\ q.pc \in Holding /\ q.pc \notin Waiting /\ q.object \in Known(r) /\ q.old \in Known(r)
    <3>1. q.attempt < MaxAttempts
      BY <1>3, <2>1, RequestFacts DEF Request
    <3>2. request[r].flow = "reconnect" => request[r].old # NoObject
      BY RequestFacts DEF Equipped, Working, Making
    <3>3. o # NoObject
      BY <1>1, SessionsAssumption
    <3> QED
      BY <1>1, <1>3, <2>2, <3>1, <3>2, <3>3, RequestFacts DEF Equipped, Holding, Waiting, Known
  <2>4. UserLockFollows(r, q)
    BY <1>1, <1>3, <2>3, RequestFacts, KeepsUserLock
  <2>5. ProcessLockFollows(r, q) /\ inside = r
    BY <2>3, RequestFacts, ContextFollows
  <2>6. orders' \subseteq Booked /\ left' \subseteq Users
        /\ (listed' = listed \/ Remove(u) \/ Upsert(u, o))
    BY <1>3, RequestFacts
  <2>7. ASSUME ThreadsReturn, EverythingIsOwn
        PROVE  /\ request[r].pc \in {"login", "market"} => Mine(r) = o
               /\ Employs(q, o, s, lg)
               /\ OwnSession(s)
               /\ q.pc \in Waiting => global'.ssid \in {q.user, NoUser}
               /\ store'[u].token \in {u, NoUser}
               /\ \A order \in orders' : order.account = order.by
    <3>1. OwnSession(s) /\ lg \notin Running /\ ~s.fetching
      BY <2>7
    <3> QED
      BY <1>3, <2>3, <2>7, <3>1, RequestFacts DEF EverythingIsOwn, Employs
  <2>8. Touches(r, o, s, With(o, s))
    BY <1>1, RequestFacts, WithTouches
  <2> HIDE DEF o
  <2>9. login' = [login EXCEPT ![o] = lg]
    BY DEF o
  <2>10. ASSUME Tidy
         PROVE  /\ Settled(s, lg)
                /\ Usable(s) => s.state.open \/ (q.pc \in Waiting /\ q.object = o)
                /\ q.pc \in Waiting => q.object = o /\ FlagIsSet(q, s, global'.open)
                /\ inside = r => Mine(r) = o
                /\ SocketsFollow(r, q, With(o, s)) \/ SocketsAlone(r, q, With(o, s))
    <3>1. \A p \in Objects \ {o} : object[p].user = u => ~Usable(object[p])
      BY <2>10, OnlyMine DEF o
    <3>2. ByFlow(q, listed'[u], Dead(listed'[u], With(o, s)))
      <4>1. CASE request[r].kind = "sms"
        <5>1. listed'[u] = o /\ q.object = o /\ q.flow = "connect" /\ q.kind = "sms"
          BY <1>1, <1>3, <2>2, <2>10, <4>1
        <5> QED
          BY <1>3, <5>1 DEF ByFlow, Working, Making
      <4>2. CASE request[r].kind # "sms" /\ request[r].flow = "connect"
        <5>1. listed'[u] = NoObject
          BY <1>3, <4>2, RequestFacts DEF Remove, TypeOK
        <5> QED
          BY <1>3, <4>2, <5>1 DEF ByFlow, Working, Making, Dead
      <4>3. CASE request[r].kind # "sms" /\ request[r].flow # "connect"
        <5>1. listed'[u] = listed[u] /\ listed[u] # o /\ Dead(listed[u], object)
          BY <1>1, <1>3, <2>10, <4>3
        <5>2. Dead(listed[u], With(o, s))
          BY <1>1, <5>1, RequestFacts DEF Dead, With
        <5>3. q.flow = "reconnect"
          BY <1>3, <4>3 DEF Request
        <5> QED
          BY <1>3, <4>3, <5>1, <5>2, <5>3 DEF ByFlow, Working, Making
      <4> QED
        BY <4>1, <4>2, <4>3
    <3>3. q.pc # "cleanup"
      BY <1>3
    <3>4. Settled(s, lg) /\ ~Usable(s)
      BY <2>10
    <3>5. SocketsFollow(r, q, With(o, s))
      BY <1>1, <1>3, <2>8, <2>9, <2>10, <3>1, <3>2, <3>3, <3>4, OneSocket
    <3> QED
      BY <2>3, <3>4, <3>5 DEF o
  <2> QED
    BY <1>1, <1>3, <2>3, <2>4, <2>5, <2>6, <2>7, <2>8, <2>9, <2>10, SessionSound
<1>4. "new" \in Steps
  BY DEF Steps
<1>5. CASE /\ request[r].attempt < env.attempts /\ request[r].flow # "restore"
           /\ request[r].kind = "sms" /\ request' = [request EXCEPT ![r] = again]
           /\ lock' = lock /\ store' = store /\ listed' = listed /\ Keeps(With(o, s))
  <2>1. /\ again \in Request /\ again.pc = "new" /\ again.user = u /\ again.kind = request[r].kind
        /\ again.object = o /\ again.old = request[r].old /\ again.flow = request[r].flow
        /\ again.attempt = request[r].attempt
    BY <1>4, RequestFacts, NextRequest
  <2> HIDE DEF again
  <2> QED
    BY <1>3, <1>5, <2>1
<1>6. CASE /\ request[r].attempt < env.attempts /\ request[r].flow # "restore"
           /\ request[r].kind # "sms" /\ request' = [request EXCEPT ![r] = other]
           /\ IF request[r].flow = "connect" THEN Remove(u) ELSE listed' = listed
           /\ lock' = lock /\ store' = store /\ Keeps(With(o, s))
  <2>1. /\ other \in Request /\ other.pc = "new" /\ other.user = u /\ other.kind = request[r].kind
        /\ other.object = NoObject /\ other.old = request[r].old /\ other.flow = request[r].flow
        /\ other.attempt = request[r].attempt
    BY <1>4, RequestFacts, NextRequestWith
  <2> HIDE DEF other
  <2> QED
    BY <1>3, <1>6, <2>1
<1> QED
  BY <1>2, <1>5, <1>6 DEF TriesAgain, MovedWith, Moved, Goto

\* A usable session is listed, and the request goes on to its operation.
Goes(q) == [q EXCEPT !.pc = "call", !.old = NoObject]

\* A session that is usable, or waits for its second factor.
LEMMA EndsSound ==
  ASSUME IInv, NEW r \in Requests, request[r].pc \in Working \cap Waiting,
         NEW s \in Session, s.user = User(r), NEW lg \in LoginStates,
         LoginEnds(r, s), login' = [login EXCEPT ![Mine(r)] = lg],
         inside' = NoRequest, global' \in Globals, UNCHANGED <<profile, orders, left, env>>,
         ASSUME ThreadsReturn, EverythingIsOwn
         PROVE  OwnSession(s) /\ lg \notin Running /\ ~s.fetching,
         ASSUME Tidy  PROVE Settled(s, lg) /\ (Usable(s) => s.state.open)
  PROVE  IInv'
<1> DEFINE u == User(r)
           o == Mine(r)
           tail == Moved(request[r], "tail")
           call == Goes(request[r])
           check == Moved(request[r], "check")
           row == Persisted(store[u], s)
<1>1. /\ o \in Objects /\ o \in Known(r) /\ object[o].user = u /\ request[r].pc \in Holding
      /\ lock[u] = r /\ (\A q : LeftFollows(r, q)) /\ inside = r
      /\ Tidy => IF request[r].flow = "connect" THEN listed[u] = o
                 ELSE listed[u] # o /\ Dead(listed[u], object)
  BY LoggingIn, RequestFacts
<1>2. /\ IF request[r].flow = "connect" THEN listed' = listed ELSE Upsert(u, o)
      /\ store' = [store EXCEPT ![u] = row] /\ Keeps(With(o, s))
      /\ \/ request[r].flow = "connect" /\ Done(r)
         \/ /\ request[r].flow = "connect" /\ request' = [request EXCEPT ![r] = tail]
            /\ lock' = [lock EXCEPT ![u] = NoRequest]
         \/ /\ request[r].flow = "reconnect" /\ request' = [request EXCEPT ![r] = call]
            /\ lock' = lock
         \/ /\ request[r].flow = "restore" /\ request' = [request EXCEPT ![r] = check]
            /\ lock' = lock
  <2>1. request[r].flow \in {"connect", "reconnect", "restore"}
    BY RequestFacts DEF Request
  <2>2. Keeps(With(o, s)) /\ store' = [store EXCEPT ![u] = row]
    BY DEF LoginEnds, With
  <2>3. IF request[r].flow = "connect" THEN listed' = listed ELSE Upsert(u, o)
    BY DEF LoginEnds
  <2> QED
    BY <2>1, <2>2, <2>3 DEF LoginEnds, Moved, Goes, Goto
<1>3. row \in Rows /\ row.token \in {store[u].token, s.state.ssid}
  BY RequestFacts, StoreRows
<1>4. store'[u].token = row.token
  BY <1>2, <1>3, RequestFacts
<1>5. ASSUME ThreadsReturn, EverythingIsOwn
      PROVE  /\ lg \notin Running /\ ~s.fetching /\ OwnSession(s) /\ store'[u].token \in {u, NoUser}
             /\ \A order \in orders' : order.account = order.by
  <2>1. OwnSession(s) /\ lg \notin Running /\ ~s.fetching
    BY <1>5
  <2>2. s.state.ssid \in {u, NoUser} /\ store[u].token \in {u, NoUser}
    BY <1>5, <2>1, RequestFacts DEF OwnSession, EverythingIsOwn
  <2>3. store'[u].token \in {u, NoUser}
    BY <1>3, <1>4, <2>2
  <2>4. \A order \in orders' : order.account = order.by
    BY <1>5 DEF EverythingIsOwn
  <2> QED
    BY <2>1, <2>3, <2>4
<1>6. \E row0 \in Rows : store' = [store EXCEPT ![u] = row0]
  BY <1>2, <1>3
<1>7. /\ orders' \subseteq Booked /\ left' \subseteq Users
      /\ Touches(r, o, s, With(o, s))
  BY <1>1, RequestFacts, WithTouches
<1>8. ASSUME Tidy
      PROVE  /\ \A p \in Objects \ {o} : object[p].user = u => ~Usable(object[p])
             /\ listed'[u] = o
             /\ Settled(s, lg) /\ (Usable(s) => s.state.open)
  <2>1. \A p \in Objects \ {o} : object[p].user = u => ~Usable(object[p])
    BY <1>8, OnlyMine
  <2>2. listed'[u] = o
    BY <1>1, <1>2, <1>8, RequestFacts DEF Upsert, TypeOK
  <2>3. Settled(s, lg) /\ (Usable(s) => s.state.open)
    BY <1>8
  <2> QED
    BY <2>1, <2>2, <2>3
<1> HIDE DEF row
<1>9. CASE request[r].flow = "connect" /\ Done(r)
  <2>1. ProcessLockFollows(r, Idle)
    BY <1>9, RequestFacts, ContextFollows, GivesLockBack
  <2>2. listed' = listed
    BY <1>2, <1>9
  <2>3. ASSUME ThreadsReturn, EverythingIsOwn
        PROVE  /\ request[r].pc \in {"login", "market"} => Mine(r) = o
               /\ lg \notin Running /\ ~s.fetching
               /\ OwnSession(s)
               /\ store'[u].token \in {u, NoUser}
               /\ \A order \in orders' : order.account = order.by
    BY <1>5, <2>3
  <2>4. ASSUME Tidy
        PROVE  /\ \A p \in Objects \ {o} : object[p].user = u => ~Usable(object[p])
               /\ inside = r => Mine(r) = o
               /\ Settled(s, lg)
               /\ Usable(s) => s.state.open /\ listed'[u] = o
    BY <1>8, <2>4
  <2> HIDE DEF o
  <2>5. login' = [login EXCEPT ![o] = lg]
    BY DEF o
  <2> QED
    BY <1>1, <1>2, <1>6, <1>7, <1>9, <2>1, <2>2, <2>3, <2>4, <2>5, AnswersSound
\* The other three differ in the request only.
<1>10. ASSUME NEW q \in Request, request' = [request EXCEPT ![r] = q], Equipped(q),
              UserLockFollows(r, q), q.pc \in {"tail", "call", "check"}, q.user = u,
              q.object = o, q.old \in Known(r)
       PROVE  IInv'
  <2>1. q.pc \notin Waiting /\ q.pc \notin Working /\ q.pc \notin {"new", "close", "cleanup"}
    BY <1>10 DEF Waiting, Working, Making
  <2>2. ProcessLockFollows(r, q)
    BY <2>1, RequestFacts, ContextFollows
  <2>3. q.object \in Known(r)
    BY <1>1, <1>10
  <2>4. listed' = listed \/ Remove(u) \/ Upsert(u, o)
    BY <1>2
  <2>5. ASSUME ThreadsReturn, EverythingIsOwn
        PROVE  /\ request[r].pc \in {"login", "market"} => Mine(r) = o
               /\ Employs(q, o, s, lg)
               /\ OwnSession(s)
               /\ q.pc \in Waiting => global'.ssid \in {q.user, NoUser}
               /\ store'[u].token \in {u, NoUser}
               /\ \A order \in orders' : order.account = order.by
    BY <1>5, <2>1, <2>5 DEF Employs
  <2>6. Mine(r) = o
    OBVIOUS
  <2> HIDE DEF o
  <2>7. login' = [login EXCEPT ![o] = lg]
    BY DEF o
  <2>8. ASSUME Tidy
        PROVE  /\ Settled(s, lg)
               /\ Usable(s) => s.state.open \/ (q.pc \in Waiting /\ q.object = o)
               /\ q.pc \in Waiting => q.object = o /\ FlagIsSet(q, s, global'.open)
               /\ inside = r => Mine(r) = o
               /\ SocketsFollow(r, q, With(o, s)) \/ SocketsAlone(r, q, With(o, s))
    <3>1. ByFlow(q, listed'[u], Dead(listed'[u], With(o, s)))
      BY <1>8, <1>10, <2>1, <2>8 DEF ByFlow
    <3>2. SocketsFollow(r, q, With(o, s))
      BY <1>1, <1>2, <1>7, <1>8, <2>1, <2>7, <2>8, <3>1, OneSocket
    <3> QED
      BY <1>8, <2>1, <2>6, <2>8, <3>2
  <2>9. Keeps(With(o, s)) /\ LeftFollows(r, q) /\ inside = r
    BY <1>1, <1>2
  <2>10. /\ o \in Objects /\ o \in Known(r) /\ object[o].user = u
    BY <1>1
  <2>11. /\ inside \in {r, NoRequest} /\ profile' = profile /\ env' = env
         /\ q.user = User(r) \/ (q.object = NoObject /\ q.old = NoObject)
    BY <1>10, <2>9
  <2>12. store' = store \/ (\E row0 \in Rows : store' = [store EXCEPT ![User(r)] = row0])
    BY <1>6
  <2>13. /\ Equipped(q) /\ UserLockFollows(r, q) /\ request' = [request EXCEPT ![r] = q] /\ q \in Request
         /\ q.old \in Known(r)
    BY <1>10
  <2>14. orders' \subseteq Booked /\ left' \subseteq Users /\ Touches(r, o, s, With(o, s))
    BY <1>7
  <2> HIDE DEF u, tail, call, check
  <2>15. /\ listed' = listed \/ Remove(User(r)) \/ Upsert(User(r), o)
         /\ object[o].user = User(r)
         /\ ThreadsReturn /\ EverythingIsOwn => store'[User(r)].token \in {User(r), NoUser}
    BY <2>4, <2>5, <2>10 DEF u
  <2> QED
    BY <2>2, <2>3, <2>5, <2>7, <2>8, <2>9, <2>10, <2>11, <2>12, <2>13, <2>14, <2>15, SessionSound
<1>11. CASE /\ request[r].flow = "connect" /\ request' = [request EXCEPT ![r] = tail]
            /\ lock' = [lock EXCEPT ![u] = NoRequest]
  <2>1. /\ tail \in Request /\ tail.pc = "tail" /\ tail.user = u /\ tail.object = o
        /\ tail.old = request[r].old /\ tail.flow = "connect"
    <3>1. "tail" \in Steps
      BY DEF Steps
    <3> QED
      BY <1>11, <3>1, RequestFacts, NextRequest
  <2> HIDE DEF tail
  <2>2. UserLockFollows(r, tail)
    BY <1>1, <1>11, <2>1 DEF UserLockFollows, Holding
  <2>3. Equipped(tail) /\ tail.old \in Known(r)
    BY <1>1, <2>1, RequestFacts, SessionsAssumption DEF Equipped, Known
  <2> QED
    BY <1>10, <1>11, <2>1, <2>2, <2>3
<1>12. CASE /\ request[r].flow = "reconnect" /\ request' = [request EXCEPT ![r] = call]
            /\ lock' = lock
  <2>1. /\ call \in Request /\ call.pc = "call" /\ call.user = u /\ call.object = o
        /\ call.old = NoObject /\ call.flow = "reconnect" /\ call.kind = request[r].kind
    <3>1. request[r] \in Request
      BY RequestFacts
    <3>2. /\ call \in Request /\ call.pc = "call" /\ call.old = NoObject
          /\ call.user = request[r].user /\ call.object = request[r].object
          /\ call.flow = request[r].flow /\ call.kind = request[r].kind
      BY <3>1 DEF Request, Goes
    <3> QED
      BY <1>12, <3>2, RequestFacts
  <2> HIDE DEF call
  <2>2. UserLockFollows(r, call)
    BY <1>1, <1>12, <2>1, RequestFacts, KeepsUserLock DEF Holding
  <2>3. Equipped(call) /\ call.old \in Known(r)
    BY <1>1, <1>12, <2>1, RequestFacts, SessionsAssumption DEF Equipped, Known
  <2> QED
    BY <1>10, <1>12, <2>1, <2>2, <2>3
<1>13. CASE /\ request[r].flow = "restore" /\ request' = [request EXCEPT ![r] = check]
            /\ lock' = lock
  <2>1. /\ check \in Request /\ check.pc = "check" /\ check.user = u /\ check.object = o
        /\ check.old = request[r].old /\ check.flow = "restore" /\ check.kind = request[r].kind
    <3>1. "check" \in Steps
      BY DEF Steps
    <3> QED
      BY <1>13, <3>1, RequestFacts, NextRequest
  <2> HIDE DEF check
  <2>2. UserLockFollows(r, check)
    BY <1>1, <1>13, <2>1, RequestFacts, KeepsUserLock DEF Holding
  <2>3. Equipped(check) /\ check.old \in Known(r)
    <3>1. check.kind # "sms"
      BY <1>13, <2>1, RequestFacts DEF Equipped
    <3> QED
      BY <1>1, <2>1, <3>1, RequestFacts, SessionsAssumption DEF Equipped, Known
  <2> QED
    BY <1>10, <1>13, <2>1, <2>2, <2>3
<1> QED
  BY <1>2, <1>9, <1>11, <1>12, <1>13

\* The session with what its login left in the globals.
Returned(s, g, twofa, finished) == [Captured(s, g) EXCEPT !.twofa = twofa, !.finished = finished]

LEMMA NewReturned ==
  ASSUME NEW s \in Session, NEW g \in Globals, NEW twofa \in BOOLEAN, NEW finished \in BOOLEAN
  PROVE  /\ Takes(Returned(s, g, twofa, finished), s, g)
         /\ Returned(s, g, twofa, finished).finished = finished
BY DEF Session, Captured, Returned, Takes

\* What holds while a request works with its session inside the context.
LEMMA InsideContext ==
  ASSUME IInv, NEW r \in Requests, request[r].pc \in Working \cap Waiting
  PROVE  /\ inside = r /\ Mine(r) \in Objects
         /\ ThreadsReturn => /\ global.ssid \in {User(r), NoUser}
                             /\ OwnSession(object[Mine(r)]) /\ ~object[Mine(r)].fetching
         /\ ThreadsReturn /\ request[r].pc # "login" => login[Mine(r)] \notin Running
         /\ Tidy => /\ Settled(object[Mine(r)], login[Mine(r)])
                    /\ FlagIsSet(request[r], object[Mine(r)], global.open)
<1>1. inside = r /\ Mine(r) \in Objects
  BY RequestFacts, LoggingIn
<1>2. request[r].pc # "market"
  BY DEF Working, Making
<1>3. ASSUME ThreadsReturn
      PROVE  /\ EverythingIsOwn /\ ~object[Mine(r)].fetching
             /\ request[r].pc # "login" => login[Mine(r)] \notin Running
  <2>1. EverythingIsOwn /\ Employs(request[r], Mine(r), object[Mine(r)], login[Mine(r)])
    BY <1>1, <1>3, MyThreads
  <2> QED
    BY <1>2, <2>1 DEF Employs
<1>4. ThreadsReturn => global.ssid \in {User(r), NoUser} /\ OwnSession(object[Mine(r)])
  BY <1>1, <1>3, RequestFacts DEF EverythingIsOwn
<1>5. Tidy => /\ Settled(object[Mine(r)], login[Mine(r)])
              /\ FlagIsSet(request[r], object[Mine(r)], global.open)
  BY <1>1, MyFlags
<1> QED
  BY <1>1, <1>3, <1>4, <1>5

LEMMA LoginReturnsSound ==
  ASSUME IInv, NEW r \in Requests, LoginReturns(r)  PROVE IInv'
<1> DEFINE u == User(r)
           o == Mine(r)
           twofa == login[o] = "2FA"
           ended == login[o] = "ok"
           s == Returned(object[o], global, twofa, ended)
           q == Moved(request[r], "ready")
<1>1. /\ request[r].pc = "login" /\ login[o] \in {"ok", "2FA", "failed", "slow"}
      /\ inside' = NoRequest /\ login' = [login EXCEPT ![o] = "none"]
      /\ UNCHANGED <<global, profile, orders, left, env>>
      /\ login[o] = "ok" => /\ request' = [request EXCEPT ![r] = q] /\ Keeps(With(o, s))
                            /\ UNCHANGED <<lock, listed, store>>
      /\ login[o] = "2FA" => LoginEnds(r, s)
      /\ login[o] = "failed" => LoginRaises(r, With(o, s))
      /\ login[o] = "slow" => TriesAgain(r, With(o, s))
  BY DEF LoginReturns, At, Moved, Goto, Returned, With
<1>2. request[r].pc \in Working \cap Waiting
  BY <1>1 DEF Working, Waiting
<1>3. /\ o \in Objects /\ o \in Known(r) /\ object[o].user = u /\ request[r].pc \in Holding
      /\ \A p : LeftFollows(r, p)
      /\ Tidy => IF request[r].flow = "connect" THEN listed[u] = o
                 ELSE listed[u] # o /\ Dead(listed[u], object)
  BY <1>1, <1>2, LoggingIn
<1>4. Takes(s, object[o], global) /\ s.finished = (login[o] = "ok")
  <2>1. twofa \in BOOLEAN /\ ended \in BOOLEAN
    OBVIOUS
  <2>2. ended = (login[o] = "ok")
    OBVIOUS
  <2> HIDE DEF twofa, ended
  <2>3. object[o] \in Session /\ global \in Globals
    BY <1>3, RequestFacts, Things
  <2> QED
    BY <2>1, <2>2, <2>3, NewReturned
<1>5. /\ "none" \in LoginStates /\ "none" \notin Running /\ global' \in Globals
      /\ s \in Session /\ s.user = u
  BY <1>1, <1>3, <1>4, RequestFacts DEF LoginStates, Running, Takes
<1> HIDE DEF s
<1>6. ASSUME ThreadsReturn, EverythingIsOwn
      PROVE  OwnSession(s) /\ "none" \notin Running /\ ~s.fetching
  <2>1. global.ssid \in {object[o].user, NoUser} /\ OwnSession(object[o]) /\ ~object[o].fetching
    BY <1>2, <1>3, <1>6, InsideContext
  <2> QED
    BY <1>4, <1>5, <2>1, OwnAfter DEF Takes
<1>7. ASSUME Tidy
      PROVE  /\ Settled(s, "none")
             /\ login[o] # "ok" => ~Usable(s)
             /\ Usable(s) => s.state.open
  <2>1. Settled(object[o], login[o]) /\ FlagIsSet(request[r], object[o], global.open)
    BY <1>2, <1>7, InsideContext
  <2> QED
    BY <1>1, <1>4, <1>5, <2>1 DEF Settled, FlagIsSet, Usable, Takes
<1>8. CASE login[o] = "ok"
  <2>1. /\ q \in Request /\ q.pc = "ready" /\ q.user = u /\ q.kind = request[r].kind
        /\ q.object = o /\ q.old = request[r].old /\ q.flow = request[r].flow
    <3>1. "ready" \in Steps
      BY DEF Steps
    <3> QED
      BY <3>1, RequestFacts, NextRequest
  <2>2. request' = [request EXCEPT ![r] = q] /\ Keeps(With(o, s)) /\ UNCHANGED <<lock, listed, store>>
    BY <1>1, <1>8
  <2> HIDE DEF q
  <2>3. /\ Equipped(q) /\ q.pc \in Holding /\ q.pc \notin Waiting /\ q.pc \in Making
        /\ q.object \in Known(r) /\ q.old \in Known(r)
    BY <1>1, <1>3, <2>1, RequestFacts DEF Equipped, Holding, Waiting, Making, Known
  <2>4. UserLockFollows(r, q)
    BY <1>3, <2>1, <2>2, <2>3, RequestFacts, KeepsUserLock
  <2>5. ProcessLockFollows(r, q) /\ inside = r
    BY <1>1, <1>2, <2>3, RequestFacts, ContextFollows
  <2>6. orders' \subseteq Booked /\ left' \subseteq Users /\ Touches(r, o, s, With(o, s))
    BY <1>1, <1>3, <1>5, RequestFacts, WithTouches
  <2>7. ASSUME ThreadsReturn, EverythingIsOwn
        PROVE  /\ request[r].pc \in {"login", "market"} => Mine(r) = o
               /\ Employs(q, o, s, "none")
               /\ OwnSession(s)
               /\ q.pc \in Waiting => global'.ssid \in {q.user, NoUser}
               /\ store'[u].token \in {u, NoUser}
               /\ \A order \in orders' : order.account = order.by
    BY <1>1, <1>6, <2>2, <2>3, <2>7, RequestFacts DEF EverythingIsOwn, Employs
  <2>8. ASSUME Tidy
        PROVE  /\ Settled(s, "none")
               /\ Usable(s) => s.state.open \/ (q.pc \in Waiting /\ q.object = o)
               /\ q.pc \in Waiting => q.object = o /\ FlagIsSet(q, s, global'.open)
               /\ inside = r => Mine(r) = o
               /\ SocketsFollow(r, q, With(o, s)) \/ SocketsAlone(r, q, With(o, s))
    <3>1. \A p \in Objects \ {o} : object[p].user = u => ~Usable(object[p])
      BY <1>2, <2>8, OnlyMine
    <3>2. ByFlow(q, listed'[u], Dead(listed'[u], With(o, s))) /\ q.pc # "cleanup"
      <4>1. ByFlow(request[r], listed[u], Dead(listed[u], object))
        BY <2>8 DEF IInv, Sockets, SocketLayer, ListedByFlow
      <4>2. request[r].flow # "connect" => Dead(listed[u], With(o, s))
        BY <1>3, <2>8, RequestFacts DEF Dead, With
      <4>3. Mine(r) = request[r].object /\ q.pc \in Working /\ request[r].pc \in Working
        BY <1>2, <2>3 DEF Mine, Working
      <4> QED
        BY <2>1, <2>2, <4>1, <4>2, <4>3 DEF ByFlow
    <3>3. Usable(s) => listed'[u] = o \/ Makes(q, o)
      BY <1>3, <2>1, <2>2, <2>3, <2>8 DEF Makes
    <3>4. SocketsFollow(r, q, With(o, s))
      BY <1>1, <1>3, <1>5, <2>2, <2>6, <2>8, <3>1, <3>2, <3>3, OneSocket
    <3> QED
      BY <1>7, <2>3, <2>8, <3>4
  <2> HIDE DEF o
  <2> QED
    BY <1>1, <1>3, <1>5, <2>1, <2>2, <2>3, <2>4, <2>5, <2>6, <2>7, <2>8, SessionSound
<1>9. CASE login[o] = "2FA"
  <2>1. LoginEnds(r, s)
    BY <1>1, <1>9
  <2> QED
    BY <1>1, <1>2, <1>5, <1>6, <1>7, <2>1, EndsSound
<1>10. CASE login[o] = "failed"
  <2>1. LoginRaises(r, With(o, s))
    BY <1>1, <1>10
  <2>2. ASSUME Tidy  PROVE Settled(s, "none") /\ ~Usable(s)
    BY <1>7, <1>10, <2>2
  <2> QED
    BY <1>1, <1>2, <1>5, <1>6, <2>1, <2>2, RaisesSound
<1>11. CASE login[o] = "slow"
  <2>1. TriesAgain(r, With(o, s))
    BY <1>1, <1>11
  <2>2. ASSUME Tidy  PROVE Settled(s, "none") /\ ~Usable(s)
    BY <1>7, <1>11, <2>2
  <2> QED
    BY <1>1, <1>2, <1>5, <1>6, <2>1, <2>2, AgainSound
<1> QED
  BY <1>1, <1>8, <1>9, <1>10, <1>11
-----------------------------------------------------------------------------
(* A login gives up, or is completed in its second context                 *)

\* A session that its request leaves with the identifier and the flag that the
\* globals had.
LEMMA GivesUp ==
  ASSUME IInv, NEW r \in Requests, request[r].pc \in {"readying", "loading"}, login' = login,
         NEW g \in Globals, g.ssid = global.ssid, g.open = global.open,
         NEW t, Takes(t, object[Mine(r)], g)
  PROVE  /\ t \in Session /\ t.user = User(r) /\ Mine(r) \in Objects
         /\ request[r].pc \in Working \cap Waiting
         /\ login[Mine(r)] \in LoginStates /\ login' = [login EXCEPT ![Mine(r)] = login[Mine(r)]]
         /\ ThreadsReturn => OwnSession(t) /\ login[Mine(r)] \notin Running /\ ~t.fetching
         /\ Tidy /\ ~t.finished => Settled(t, login[Mine(r)]) /\ ~Usable(t)
         /\ Tidy /\ t.finished = object[Mine(r)].finished =>
              Settled(t, login[Mine(r)]) /\ (Usable(t) => t.state.open)
<1> DEFINE o == Mine(r)
<1>1. request[r].pc \in Working \cap Waiting /\ request[r].pc # "login"
  BY DEF Working, Making, Waiting
<1>2. /\ o \in Objects /\ object[o].user = User(r)
      /\ ThreadsReturn => /\ global.ssid \in {User(r), NoUser} /\ OwnSession(object[o])
                          /\ ~object[o].fetching /\ login[o] \notin Running
      /\ Tidy => /\ Settled(object[o], login[o])
                 /\ FlagIsSet(request[r], object[o], global.open)
  BY <1>1, InsideContext, LoggingIn
<1>3. login[o] \in LoginStates /\ login' = [login EXCEPT ![o] = login[o]]
  BY <1>2, RequestFacts, Things
<1>4. t \in Session /\ t.user = User(r)
  BY <1>2 DEF Takes
<1>5. ThreadsReturn => OwnSession(t) /\ login[o] \notin Running /\ ~t.fetching
  BY <1>2, OwnAfter DEF Takes
<1>6. t.socket = object[o].socket /\ t.state.open = global.open
  BY DEF Takes
<1>7. ASSUME Tidy, ~t.finished  PROVE Settled(t, login[o]) /\ ~Usable(t)
  <2>1. Tidy => ThreadsReturn
    BY DEF Tidy
  <2>2. login[o] = "ok" => t.socket # "opening"
    BY <1>2, <1>6, <1>7 DEF Settled
  <2> QED
    BY <1>7, <2>2 DEF Settled, Usable
<1>8. ASSUME Tidy, t.finished = object[o].finished
      PROVE  Settled(t, login[o]) /\ (Usable(t) => t.state.open)
  BY <1>2, <1>6, <1>8 DEF Settled, Usable, FlagIsSet
<1> QED
  BY <1>1, <1>2, <1>3, <1>4, <1>5, <1>7, <1>8

\* The thread that outlives its time goes on, so nothing is claimed of it.
LEMMA LoginTimesOutSound ==
  ASSUME IInv, NEW r \in Requests, LoginTimesOut(r)  PROVE IInv'
<1> DEFINE o == Mine(r)
           s == Captured(object[o], global)
<1>1. /\ "timeout" \in Events /\ request[r].pc = "login" /\ inside' = NoRequest
      /\ UNCHANGED <<global, profile, login, orders, left, env>>
      /\ TriesAgain(r, With(o, s))
  BY DEF LoginTimesOut, At, With
<1>2. request[r].pc \in Working \cap Waiting
  BY <1>1 DEF Working, Waiting
<1>3. ~ThreadsReturn /\ ~Tidy
  BY <1>1 DEF ThreadsReturn, Tidy
<1>4. o \in Objects /\ object[o].user = User(r) /\ global' \in Globals
  BY <1>1, <1>2, LoggingIn, RequestFacts
<1>5. s \in Session /\ s.user = User(r)
  BY <1>4, RequestFacts, Things, NewCaptured DEF Takes
<1>6. login[o] \in LoginStates /\ login' = [login EXCEPT ![o] = login[o]]
  BY <1>1, <1>4, RequestFacts, Things
<1> HIDE DEF s
<1> QED
  BY <1>1, <1>2, <1>3, <1>4, <1>5, <1>6, AgainSound

LEMMA NeverReadySound ==
  ASSUME IInv, NEW r \in Requests, NeverReady(r)  PROVE IInv'
<1> DEFINE o == Mine(r)
           s == Spoilt(Captured(object[o], global))
<1>1. /\ request[r].pc = "readying" /\ inside' = NoRequest
      /\ UNCHANGED <<global, profile, login, orders, left, env>>
      /\ TriesAgain(r, With(o, s))
  BY DEF NeverReady, At, With
<1>2. o \in Objects /\ global' \in Globals
  <2>1. request[r].pc \in Working
    BY <1>1 DEF Working, Making
  <2> QED
    BY <1>1, <2>1, LoggingIn, RequestFacts
<1>3. Takes(s, object[o], global) /\ ~s.finished
  BY <1>2, RequestFacts, Things, NewCaptured, NewSpoilt
<1> HIDE DEF s
<1>4. /\ s \in Session /\ s.user = User(r) /\ request[r].pc \in Working \cap Waiting
      /\ login[o] \in LoginStates /\ login' = [login EXCEPT ![o] = login[o]]
      /\ ThreadsReturn => OwnSession(s) /\ login[o] \notin Running /\ ~s.fetching
      /\ Tidy => Settled(s, login[o]) /\ ~Usable(s)
  BY <1>1, <1>3, RequestFacts, GivesUp
<1> QED
  BY <1>1, <1>2, <1>4, AgainSound

LEMMA RealMissingSound ==
  ASSUME IInv, NEW r \in Requests, RealMissing(r)  PROVE IInv'
<1> DEFINE o == Mine(r)
           s == Spoilt(Captured(object[o], global))
<1>1. /\ request[r].pc = "loading" /\ inside' = NoRequest
      /\ UNCHANGED <<global, profile, login, orders, left, env>>
      /\ LoginRaises(r, With(o, s))
  BY DEF RealMissing, At, With
<1>2. o \in Objects /\ global' \in Globals
  <2>1. request[r].pc \in Working
    BY <1>1 DEF Working, Making
  <2> QED
    BY <1>1, <2>1, LoggingIn, RequestFacts
<1>3. Takes(s, object[o], global) /\ ~s.finished
  BY <1>2, RequestFacts, Things, NewCaptured, NewSpoilt
<1> HIDE DEF s
<1>4. /\ s \in Session /\ s.user = User(r) /\ request[r].pc \in Working \cap Waiting
      /\ login[o] \in LoginStates /\ login' = [login EXCEPT ![o] = login[o]]
      /\ ThreadsReturn => OwnSession(s) /\ login[o] \notin Running /\ ~s.fetching
      /\ Tidy => Settled(s, login[o]) /\ ~Usable(s)
  BY <1>1, <1>3, RequestFacts, GivesUp
<1> QED
  BY <1>1, <1>2, <1>4, RaisesSound

LEMMA LoadsRealSound ==
  ASSUME IInv, NEW r \in Requests, LoadsReal(r)  PROVE IInv'
<1> DEFINE o == Mine(r)
           s == ForcedReal(o, global')
<1>1. /\ request[r].pc = "loading" /\ ForcesReal(o) /\ inside' = NoRequest
      /\ UNCHANGED <<profile, login, orders, left, env>>
      /\ LoginEnds(r, s)
  BY DEF LoadsReal, At
<1>2. o \in Objects
  <2>1. request[r].pc \in Working
    BY <1>1 DEF Working, Making
  <2> QED
    BY <2>1, LoggingIn
<1>3. global' \in Globals /\ global'.ssid = global.ssid /\ global'.open = global.open
  BY <1>1, <1>2, RequestFacts, ForcedGlobals
<1>4. Takes(s, object[o], global') /\ s.finished = object[o].finished
  BY <1>2, <1>3, RequestFacts, Things, NewForced
<1> HIDE DEF s
<1>5. /\ s \in Session /\ s.user = User(r) /\ request[r].pc \in Working \cap Waiting
      /\ login[o] \in LoginStates /\ login' = [login EXCEPT ![o] = login[o]]
      /\ ThreadsReturn => OwnSession(s) /\ login[o] \notin Running /\ ~s.fetching
      /\ Tidy => Settled(s, login[o]) /\ (Usable(s) => s.state.open)
  BY <1>1, <1>3, <1>4, GivesUp
<1> QED
  BY <1>1, <1>3, <1>5, EndsSound

\* What the database refuses is not claimed to leave the sockets tidy.
LEMMA RowRefusedSound ==
  ASSUME IInv, NEW r \in Requests, RowRefused(r)  PROVE IInv'
<1> DEFINE o == Mine(r)
           t == Spoilt(ForcedReal(o, global'))
           s == IF request[r].flow = "connect" THEN t ELSE Closed(t)
<1>1. /\ "database" \in Events /\ request[r].pc = "loading" /\ ForcesReal(o) /\ inside' = NoRequest
      /\ UNCHANGED <<profile, login, orders, left, env>>
      /\ LoginRaises(r, With(o, s))
  BY DEF RowRefused, At, With
<1>2. o \in Objects
  <2>1. request[r].pc \in Working
    BY <1>1 DEF Working, Making
  <2> QED
    BY <2>1, LoggingIn
<1>3. global' \in Globals /\ global'.ssid = global.ssid /\ global'.open = global.open
  BY <1>1, <1>2, RequestFacts, ForcedGlobals
<1>4. Takes(t, object[o], global')
  BY <1>2, <1>3, RequestFacts, Things, NewForced, NewSpoilt
<1> HIDE DEF t
<1>5. /\ t \in Session /\ t.user = User(r) /\ request[r].pc \in Working \cap Waiting
      /\ login[o] \in LoginStates /\ login' = [login EXCEPT ![o] = login[o]]
      /\ ThreadsReturn => OwnSession(t) /\ login[o] \notin Running /\ ~t.fetching
  BY <1>1, <1>3, <1>4, GivesUp
<1>6. /\ Closed(t) \in Session /\ Closed(t).user = t.user /\ Closed(t).fetching = t.fetching
      /\ Closed(t).state = t.state /\ Closed(t).account = t.account
  BY <1>5 DEF Closed, Session
<1>7. /\ s \in Session /\ s.user = User(r)
      /\ ThreadsReturn => OwnSession(s) /\ login[o] \notin Running /\ ~s.fetching
  BY <1>5, <1>6 DEF OwnSession
<1>8. ~Tidy
  BY <1>1 DEF Tidy
<1> HIDE DEF s
<1> QED
  BY <1>1, <1>3, <1>5, <1>7, <1>8, RaisesSound

-----------------------------------------------------------------------------
(* A request starts to log a session in                                    *)

\* A request that starts to log in with session o.
Starts(q, o) == [q EXCEPT !.pc = "login", !.object = o, !.attempt = @ + 1]

LEMMA NewStarts ==
  ASSUME IInv, NEW r \in Requests, request[r].pc = "new", NEW o \in Objects
  PROVE  /\ Starts(request[r], o) \in Request /\ Starts(request[r], o).pc = "login"
         /\ Starts(request[r], o).user = User(r) /\ Starts(request[r], o).kind = request[r].kind
         /\ Starts(request[r], o).object = o /\ Starts(request[r], o).old = request[r].old
         /\ Starts(request[r], o).flow = request[r].flow
<1>1. request[r] \in Request /\ request[r].attempt < MaxAttempts
  BY RequestFacts DEF Equipped
<1>2. request[r].attempt + 1 \in 0..MaxAttempts
  BY <1>1, RequestFacts DEF Request
<1>3. Starts(request[r], o) \in Request /\ Starts(request[r], o).pc = "login"
  BY <1>1, <1>2 DEF Starts, Request
<1>4. /\ Starts(request[r], o).user = request[r].user /\ Starts(request[r], o).kind = request[r].kind
      /\ Starts(request[r], o).object = o /\ Starts(request[r], o).old = request[r].old
      /\ Starts(request[r], o).flow = request[r].flow
  BY <1>1 DEF Starts, Request
<1> QED
  BY <1>3, <1>4, RequestFacts

\* A session that starts to log in.
Begins(s, u) ==
  /\ s \in Session /\ s.user = u /\ s.socket = "opening" /\ s.account = NoUser
  /\ ~s.fetching /\ ~s.finished

\* What a login that starts leaves of the sessions: the new one, with the old
\* ones of its user as they were or closed.
Opens(r, p, s, objects) ==
  /\ objects \in [Objects -> Session] /\ objects[p] = s
  /\ \A x \in Objects \ {p} : \/ objects[x] = object[x]
                              \/ object[x].user = User(r) /\ objects[x] = Closed(object[x])
  /\ request[r].kind = "sms" /\ Mine(r) # p => objects[Mine(r)].socket = "closed"

LEMMA StartingSound ==
  ASSUME IInv, NEW r \in Requests, request[r].pc = "new", inside = NoRequest, inside' = r,
         NEW p \in Objects, p \in Free \/ (p = Mine(r) /\ request[r].kind = "sms"),
         NEW s, Begins(s, User(r)), EverythingIsOwn => s.state.ssid \in {User(r), NoUser},
         NEW objects, Opens(r, p, s, objects), Keeps(objects),
         login' = [login EXCEPT ![p] = "opening"],
         IF request[r].flow = "connect" THEN Upsert(User(r), p) ELSE UNCHANGED listed,
         request' = [request EXCEPT ![r] = Starts(request[r], p)],
         global' = [s.state EXCEPT !.open = FALSE],
         UNCHANGED <<profile, lock, store, orders, left, env>>
  PROVE  IInv'
<1> DEFINE u == User(r)
           q == Starts(request[r], p)
<1>1. /\ q \in Request /\ q.pc = "login" /\ q.user = u /\ q.kind = request[r].kind /\ q.object = p
      /\ q.old = request[r].old /\ q.flow = request[r].flow
  BY NewStarts
<1>2. global' \in Globals /\ global'.ssid = s.state.ssid
  BY DEF Globals, Begins, Session
<1>3. /\ objects[p] = s /\ login'[p] = "opening" /\ login' \in [Objects -> LoginStates]
      /\ \A x \in Objects \ {p} : login'[x] = login[x]
  <2>1. "opening" \in LoginStates
    BY DEF LoginStates, Running
  <2> QED
    BY <2>1, RequestFacts DEF Opens
<1>4. \A x \in Objects \ {p} :
        /\ objects[x].user = object[x].user /\ objects[x].fetching = object[x].fetching
        /\ objects[x].account = object[x].account /\ objects[x].state = object[x].state
        /\ objects[x].finished = object[x].finished
        /\ objects[x].socket \in {object[x].socket, "closed"}
        /\ Usable(objects[x]) => Usable(object[x])
        /\ objects[x] = object[x] \/ object[x].user = u
  <2> SUFFICES ASSUME NEW x \in Objects \ {p}
               PROVE  /\ objects[x].user = object[x].user /\ objects[x].fetching = object[x].fetching
                      /\ objects[x].account = object[x].account /\ objects[x].state = object[x].state
                      /\ objects[x].finished = object[x].finished
                      /\ objects[x].socket \in {object[x].socket, "closed"}
                      /\ Usable(objects[x]) => Usable(object[x])
                      /\ objects[x] = object[x] \/ object[x].user = u
    OBVIOUS
  <2>1. /\ object[x] \in Session
        /\ \/ objects[x] = object[x]
           \/ object[x].user = u /\ objects[x] = Closed(object[x])
    <3>1. object[x] \in Session
      BY RequestFacts, Things
    <3> QED
      BY <3>1 DEF Opens
  <2>2. /\ Same(Closed(object[x]), object[x]) /\ Closed(object[x]).socket = "closed"
        /\ Closed(object[x]).account = object[x].account
    BY <2>1, NewClients
  <2> QED
    BY <2>1, <2>2 DEF Same, Usable
<1>5. p # NoObject /\ (p \in Free => p # listed[u] /\ p \notin {request[r].object, request[r].old})
      /\ (p \in Free \/ object[p].user = u)
  BY RequestFacts, SessionsAssumption DEF Free
<1>6. listed'[u] = IF request[r].flow = "connect" THEN p ELSE listed[u]
  BY RequestFacts DEF Upsert, TypeOK
<1> HIDE DEF q
<1>7. /\ request[r].pc \in Holding /\ request[r].pc \notin Waiting /\ ~Idles(request[r])
      /\ q.pc \in Holding /\ q.pc \in Waiting /\ q.pc \in Working
      /\ request[r].pc \notin {"login", "market"} /\ q.pc \notin Making
  BY <1>1 DEF Holding, Waiting, Working, Making, Idles
<1>8. Equipped(q)
  BY <1>1, <1>5, RequestFacts DEF Equipped
<1>9. Turn(r, q, objects)
  <2>1. UserLockFollows(r, q)
    BY <1>1, <1>7, RequestFacts, KeepsUserLock
  <2>2. ProcessLockFollows(r, q)
    BY <1>7, RequestFacts, ContextFollows
  <2>3. KeptAs(objects)
    BY KeepsKept DEF Opens
  <2>4. listed' \in [Users -> Objects \cup {NoObject}] /\ \A v \in Users \ {u} : listed'[v] = listed[v]
    BY RequestFacts, Listing
  <2>5. store' \in [Users -> Rows] /\ \A v \in Users \ {u} : store'[v] = store[v]
    BY RequestFacts, Storing
  <2>6. request' = [request EXCEPT ![r] = q] /\ env' = env /\ profile' = profile
        /\ orders' \subseteq Booked /\ left' \subseteq Users
    BY RequestFacts DEF q
  <2> QED
    BY <1>1, <1>2, <1>3, <2>1, <2>2, <2>3, <2>4, <2>5, <2>6, RequestFacts, TurnHolds
<1>10. LeftFollows(r, q)
  BY <1>7, NotLeft
<1>11. OwnersFollow(r, q, objects)
  <2>1. s.user = u
    BY DEF Begins
  <2>2. \A x \in Objects \ Free : objects[x].user = object[x].user
    BY <1>3, <1>4, <1>5, <2>1
  <2>3. q.old # NoObject => objects[q.old].user = q.user
    <3>1. q.old \in Objects => q.old = p \/ objects[q.old].user = object[q.old].user
      BY <1>4
    <3> QED
      BY <1>1, <1>3, <2>1, <3>1, RequestFacts
  <2>4. listed'[u] # NoObject => objects[listed'[u]].user = u
    <3>1. listed[u] \in Objects => listed[u] = p \/ objects[listed[u]].user = object[listed[u]].user
      BY <1>4
    <3> QED
      BY <1>3, <1>6, <2>1, <3>1, RequestFacts
  <2> QED
    BY <1>1, <1>3, <2>1, <2>2, <2>3, <2>4 DEF OwnersFollow
<1>12. ASSUME ThreadsReturn  PROVE OwnFollows(r, q, objects)
  <2>1. /\ EverythingIsOwn
        /\ \A x \in Objects : Employs(request[r], x, object[x], login[x])
    BY <1>12, MyThreads
  <2>2. \A x \in Objects : OwnSession(objects[x])
    BY <1>3, <1>4, <2>1 DEF EverythingIsOwn, OwnSession, Begins
  <2>3. \A x \in Objects : Employs(q, x, objects[x], login'[x])
    BY <1>1, <1>3, <1>4, <1>7, <2>1 DEF Employs, Begins
  <2>4. global'.ssid \in {q.user, NoUser}
    BY <1>1, <1>2, <2>1
  <2>5. store'[u].token \in {u, NoUser} /\ \A order \in orders' : order.account = order.by
    BY <2>1, RequestFacts DEF EverythingIsOwn
  <2> QED
    BY <2>2, <2>3, <2>4, <2>5 DEF OwnFollows
<1>13. ASSUME Tidy  PROVE FlagsFollow(r, q, objects)
  <2>1. \A x \in Objects : /\ Settled(object[x], login[x])
                           /\ Usable(object[x]) => object[x].state.open
    BY <1>13, MyFlags, SessionsAssumption
  <2>2. FlagsLeft(q, objects)
    BY <1>3, <1>4, <2>1 DEF FlagsLeft, Settled, Usable, Begins
  <2>3. LoginLeft(q, objects)
    BY <1>1, <1>3 DEF LoginLeft, FlagIsSet, Begins
  <2> QED
    BY <2>2, <2>3 DEF FlagsFollow
<1>14. ASSUME Tidy  PROVE SocketsFollow(r, q, objects)
  <2>1. ByFlow(request[r], listed[u], Dead(listed[u], object))
    BY <1>14 DEF IInv, Sockets, SocketLayer, ListedByFlow
  <2>2. IF request[r].kind = "sms" THEN listed[u] = Mine(r) /\ request[r].flow = "connect"
        ELSE Dead(listed[u], object) /\ (request[r].flow = "reconnect" \/ listed[u] = NoObject)
    BY <2>1, RequestFacts DEF ByFlow
  <2>3. ASSUME NEW x \in Objects, objects[x].user = u, Usable(objects[x])  PROVE FALSE
    <3>1. x # p /\ Usable(object[x]) /\ object[x].user = u
      BY <1>3, <1>4, <2>3 DEF Begins, Usable
    <3>2. listed[u] = x
      BY <1>7, <1>14, <3>1, MySockets, RequestFacts DEF Makes, Making
    <3>3. CASE request[r].kind = "sms"
      BY <2>2, <2>3, <3>1, <3>2, <3>3 DEF Opens, Usable
    <3>4. CASE request[r].kind # "sms"
      BY <2>2, <3>1, <3>2, <3>4, SessionsAssumption DEF Dead, Usable
    <3> QED
      BY <3>3, <3>4
  <2>4. SocketsLeft(r, q, objects)
    BY <2>3 DEF SocketsLeft
  <2>5. SocketsUntouched(r, objects)
    BY <1>3, <1>4, <1>5 DEF SocketsUntouched, Begins
  <2>6. ByFlow(q, listed'[u], Dead(listed'[u], objects))
    <3>1. CASE request[r].flow = "connect"
      BY <1>1, <1>6, <3>1 DEF ByFlow, Making
    <3>2. CASE request[r].flow # "connect"
      <4>1. request[r].kind # "sms" /\ p \in Free
        BY <3>2, RequestFacts DEF Equipped
      <4>2. listed[u] \in Objects => objects[listed[u]].socket \in {object[listed[u]].socket, "closed"}
        BY <1>4, <1>5, <4>1
      <4>3. Dead(listed[u], objects)
        BY <2>2, <4>1, <4>2, RequestFacts DEF Dead
      <4> QED
        BY <1>1, <1>5, <1>6, <2>2, <3>2, <4>1, <4>3 DEF ByFlow, Making
    <3> QED
      BY <3>1, <3>2
  <2>7. lock[u] = r /\ q.pc # "cleanup"
    BY <1>1, <1>7, RequestFacts
  <2> QED
    BY <2>4, <2>5, <2>6, <2>7 DEF SocketsFollow
<1> QED
  BY <1>8, <1>9, <1>10, <1>11, <1>12, <1>13, <1>14, StepSound

\* A session that waits for its second factor logs in with a new client.
ReopenedAs(s) == [Reopened(s) EXCEPT !.fetching = FALSE]

LEMMA NewReopened ==
  ASSUME NEW s \in Session
  PROVE  Begins(ReopenedAs(s), s.user) /\ ReopenedAs(s).state = s.state
BY DEF Reopened, ReopenedAs, Session, Begins, SocketStates

LEMMA SmsLoginStartsSound ==
  ASSUME IInv, NEW r \in Requests, SmsLoginStarts(r)  PROVE IInv'
<1> DEFINE u == User(r)
           o == Mine(r)
           s == ReopenedAs(object[o])
<1>1. /\ request[r].pc = "new" /\ request[r].kind = "sms" /\ inside = NoRequest /\ inside' = r
      /\ global' = [object[o].state EXCEPT !.open = FALSE]
      /\ UNCHANGED <<profile, lock, store, orders, left, env>>
  BY DEF SmsLoginStarts, At, Activate
<1>2. /\ o \in Objects /\ object[o].user = u /\ object[o] \in Session
      /\ request[r].flow = "connect"
  BY <1>1, RequestFacts, Things DEF Equipped
<1>3. PICK p \in IF login[o] \in Running \/ object[o].fetching THEN Free ELSE {o} :
        /\ login' = [login EXCEPT ![p] = "opening"]
        /\ Upsert(u, p)
        /\ request' = [request EXCEPT ![r] = Starts(request[r], p)]
        /\ Keeps([object EXCEPT ![o] = Closed(object[o]), ![p] = s])
  BY DEF SmsLoginStarts, Starts, ReopenedAs
<1> DEFINE objects == [object EXCEPT ![o] = Closed(object[o]), ![p] = s]
<1>4. p \in Objects /\ (p \in Free \/ p = o)
  BY <1>2, <1>3 DEF Free
<1>5. Begins(s, u) /\ s.state = object[o].state
  BY <1>2, NewReopened
<1>6. EverythingIsOwn => s.state.ssid \in {u, NoUser}
  BY <1>2, <1>5 DEF EverythingIsOwn, OwnSession
<1> HIDE DEF s
<1>7. Opens(r, p, s, objects)
  <2>1. Closed(object[o]) \in Session /\ Closed(object[o]).socket = "closed"
    BY <1>2, NewClients
  <2>2. s \in Session /\ object \in [Objects -> Session]
    BY <1>5, RequestFacts DEF Begins
  <2>3. /\ objects \in [Objects -> Session] /\ objects[p] = s
        /\ \A x \in Objects \ {p} : objects[x] = IF x = o THEN Closed(object[o]) ELSE object[x]
    BY <1>2, <1>4, <2>1, <2>2
  <2> HIDE DEF objects
  <2> QED
    BY <1>2, <2>1, <2>3 DEF Opens
<1>8. Keeps(objects)
  BY <1>3
<1> HIDE DEF objects
<1> QED
  BY <1>1, <1>2, <1>3, <1>4, <1>5, <1>6, <1>7, <1>8, StartingSound

LEMMA NewFresh ==
  ASSUME NEW u \in Users, NEW ssid \in Users \cup {NoUser}, NEW password, password \in BOOLEAN
  PROVE  Begins(Fresh(u, ssid, password), u) /\ Fresh(u, ssid, password).state.ssid = ssid
<1> DEFINE g == [Blank EXCEPT !.ssid = ssid]
<1>1. g \in Globals /\ g.ssid = ssid
  BY Blanks DEF Globals
<1>2. Fresh(u, ssid, password) =
        [user |-> u, state |-> g, account |-> NoUser, socket |-> "opening", profiled |-> FALSE,
         real |-> FALSE, twofa |-> FALSE, password |-> password,
         way |-> IF ssid = NoUser THEN "password" ELSE "ssid",
         fetching |-> FALSE, finished |-> FALSE]
  BY DEF Fresh
<1> HIDE DEF g
<1> QED
  BY <1>1, <1>2 DEF Session, Begins, SocketStates

LEMMA NewSessionBegins ==
  ASSUME IInv, NEW r \in Requests, request[r].pc = "new"
  PROVE  /\ Begins(NewSession(r), User(r))
         /\ EverythingIsOwn => NewSession(r).state.ssid \in {User(r), NoUser}
<1> DEFINE u == User(r)
           old == object[request[r].old]
<1>1. u \in Users /\ request[r].flow \in {"connect", "reconnect", "restore"}
  BY RequestFacts DEF Request
<1>2. CASE request[r].flow = "connect"
  <2>1. NewSession(r) = Fresh(u, NoUser, TRUE)
    BY <1>2 DEF NewSession
  <2>2. Begins(Fresh(u, NoUser, TRUE), u) /\ Fresh(u, NoUser, TRUE).state.ssid = NoUser
    BY <1>1, NewFresh
  <2> QED
    BY <2>1, <2>2
<1>3. CASE request[r].flow = "reconnect"
  <2>1. NewSession(r) = Fresh(u, old.state.ssid, old.password)
    BY <1>3 DEF NewSession
  <2>2. request[r].old \in Objects /\ old.user = u
    BY <1>3, RequestFacts DEF Equipped
  <2>3. old.state.ssid \in Users \cup {NoUser} /\ old.password \in BOOLEAN
    BY <2>2, RequestFacts, Things DEF Session
  <2>4. EverythingIsOwn => old.state.ssid \in {u, NoUser}
    BY <2>2 DEF EverythingIsOwn, OwnSession
  <2> HIDE DEF old
  <2> QED
    BY <1>1, <2>1, <2>3, <2>4, NewFresh
<1>4. CASE request[r].flow = "restore"
  <2>1. NewSession(r) = Fresh(u, store[u].token, FALSE)
    BY <1>4 DEF NewSession
  <2>2. store[u].token \in Users \cup {NoUser} /\ (EverythingIsOwn => store[u].token \in {u, NoUser})
    BY RequestFacts DEF Rows, EverythingIsOwn
  <2> QED
    BY <1>1, <2>1, <2>2, NewFresh
<1> QED
  BY <1>1, <1>2, <1>3, <1>4

\* The session that starts belongs to the request alone.
LEMMA LoginStartsSound ==
  ASSUME IInv, NEW r \in Requests, LoginStarts(r)  PROVE IInv'
<1> DEFINE s == NewSession(r)
<1>1. /\ request[r].pc = "new" /\ request[r].kind # "sms" /\ inside = NoRequest /\ inside' = r
      /\ UNCHANGED <<profile, lock, store, orders, left, env>>
      /\ global' = [s.state EXCEPT !.open = FALSE]
  BY DEF LoginStarts, At, Activate
<1>2. PICK o \in Free :
        /\ login' = [login EXCEPT ![o] = "opening"]
        /\ IF request[r].flow = "connect" THEN Upsert(User(r), o) ELSE UNCHANGED listed
        /\ request' = [request EXCEPT ![r] = Starts(request[r], o)]
        /\ Keeps(With(o, s))
  BY DEF LoginStarts, Starts, With
<1>3. Begins(s, User(r)) /\ (EverythingIsOwn => s.state.ssid \in {User(r), NoUser})
  BY <1>1, NewSessionBegins
<1> HIDE DEF s
<1>4. o \in Objects
  BY <1>2 DEF Free
<1>5. Opens(r, o, s, With(o, s))
  <2>1. s \in Session /\ object \in [Objects -> Session]
    BY <1>3, RequestFacts DEF Begins
  <2> QED
    BY <1>1, <1>4, <2>1 DEF Opens, With
<1> QED
  BY <1>1, <1>2, <1>3, <1>4, <1>5, StartingSound

-----------------------------------------------------------------------------
(* Every behaviour keeps the invariant                                     *)

LEMMA InitSound == Init => IInv
<1> SUFFICES ASSUME Init  PROVE IInv
  OBVIOUS
<1>1. /\ global = Blank /\ profile = NoUser /\ inside = NoRequest
      /\ lock = [u \in Users |-> NoRequest]
      /\ listed = [u \in Users |-> NoObject] /\ object = [o \in Objects |-> Collected]
      /\ login = [o \in Objects |-> "none"] /\ request = [r \in Requests |-> Idle]
      /\ orders = {} /\ left = {} /\ env \in Environment
  BY EnvironmentsAssumption DEF Init
<1>2. store \in [Users -> Rows] /\ \A u \in Users : store[u].token \in {u, NoUser}
  <2>1. PICK known \in SUBSET env.users :
          store = [u \in Users |-> [on |-> u \in known, token |-> IF u \in known THEN u ELSE NoUser]]
    BY DEF Init
  <2>2. ASSUME NEW u \in Users
        PROVE  /\ [on |-> u \in known, token |-> IF u \in known THEN u ELSE NoUser] \in Rows
               /\ [on |-> u \in known, token |-> IF u \in known THEN u ELSE NoUser].token \in {u, NoUser}
    <3> DEFINE on == u \in known
    <3>1. on \in BOOLEAN
      OBVIOUS
    <3> HIDE DEF on
    <3>2. /\ [on |-> on, token |-> IF on THEN u ELSE NoUser] \in Rows
          /\ [on |-> on, token |-> IF on THEN u ELSE NoUser].token \in {u, NoUser}
      BY <3>1 DEF Rows
    <3> QED
      BY <3>2 DEF on
  <2> QED
    BY <2>1, <2>2
<1>3. TypeOK
  <2>1. "none" \in LoginStates
    BY DEF LoginStates
  <2> QED
    BY <1>1, <1>2, <2>1, Blanks DEF TypeOK, Rows
<1>4. Idle.pc \notin Holding /\ Idle.pc \notin Waiting /\ Idle.pc \notin Working
      /\ Idle.pc \notin {"new", "close", "check", "call", "calling", "market", "cleanup"}
      /\ Equipped(Idle) /\ "none" \notin Running
  BY Blanks DEF Holding, Waiting, Working, Making, Running, Equipped
<1>5. UserLocks /\ ProcessLock /\ RequestsAreEquipped /\ LeftIsIdle /\ LeftStaysOut
  BY <1>1, <1>4, SessionsAssumption
     DEF UserLocks, ProcessLock, RequestsAreEquipped, LeftIsIdle, LeftStaysOut, User
<1>6. OwnersMatch
  BY <1>1, Blanks DEF OwnersMatch
<1>7. EverythingIsOwn
  <2>1. \A o \in Objects : OwnSession(object[o])
    BY <1>1, Blanks DEF OwnSession
  <2>2. ThreadsInside
    BY <1>1, <1>4, Blanks DEF ThreadsInside, Busy
  <2> QED
    BY <1>1, <1>2, <2>1, <2>2 DEF EverythingIsOwn
<1>8. SocketLayer
  <2>1. \A o \in Objects : object[o].socket = "closed" /\ ~object[o].finished /\ login[o] = "none"
    BY <1>1, Blanks
  <2>2. ListedByFlow
    BY <1>1, <1>4 DEF ListedByFlow, ByFlow
  <2> QED
    BY <1>1, <2>1, <2>2
       DEF SocketLayer, LoginsSettle, Settled, OpenIsFlagged, SocketsAreHeld, Usable
<1> QED
  BY <1>3, <1>5, <1>6, <1>7, <1>8 DEF IInv, Control, Ownership, Sockets

LEMMA NextSound == IInv /\ [Next]_vars => IInv'
<1> SUFFICES ASSUME IInv, [Next]_vars  PROVE IInv'
  OBVIOUS
<1>1. CASE UNCHANGED vars
  <2>1. /\ global' = global /\ profile' = profile /\ inside' = inside /\ lock' = lock
        /\ listed' = listed /\ object' = object /\ login' = login /\ request' = request
        /\ store' = store /\ orders' = orders /\ left' = left /\ env' = env
    BY <1>1 DEF vars
  <2>2. Control'
    BY <2>1 DEF IInv, Control, TypeOK, UserLocks, ProcessLock, RequestsAreEquipped, LeftIsIdle,
                LeftStaysOut, User
  <2>3. Ownership'
    BY <2>1 DEF IInv, Ownership, ThreadsReturn, OwnersMatch, EverythingIsOwn, ThreadsInside, Busy,
                Events, User, At, Mine
  <2>4. Sockets'
    BY <2>1 DEF IInv, Sockets, SocketLayer, Tidy, ThreadsReturn, Events, LoginsSettle,
                OpenIsFlagged, ListedByFlow, SocketsAreHeld, User, Mine, Dead
  <2> QED
    BY <2>2, <2>3, <2>4 DEF IInv
<1>2. ASSUME NEW r \in Requests, NEW u \in env.users, NEW k \in env.kinds, Arrives(r, u, k)
      PROVE  IInv'
  <2>1. u \in Users /\ k \in Kinds
    BY <1>2, RequestFacts DEF TypeOK, Environment
  <2> QED
    BY <1>2, <2>1, ArrivesSound
<1>3. ASSUME NEW r \in Requests, Serves(r)  PROVE IInv'
  <2>1. CASE EntersCall(r) \/ EntersReady(r)
    BY <2>1, EntersSound DEF EntersCall, EntersReady
  <2>2. CASE \/ ConnectBegins(r) \/ SmsBegins(r) \/ SmsRefused(r) \/ DisconnectBegins(r)
             \/ StatusBegins(r) \/ CallBegins(r) \/ OldSessionCloses(r) \/ LoginStarts(r)
             \/ SmsLoginStarts(r) \/ LoginReturns(r) \/ BecomesReady(r) \/ NeverReady(r)
             \/ LoadsReal(r) \/ EntersTail(r) \/ ConnectTail(r) \/ ConnectCleanup(r)
    BY <2>2, ConnectBeginsSound, SmsBeginsSound, SmsRefusedSound, DisconnectBeginsSound,
       StatusBeginsSound, CallBeginsSound, OldSessionClosesSound, LoginStartsSound,
       SmsLoginStartsSound, LoginReturnsSound, BecomesReadySound, NeverReadySound,
       LoadsRealSound, EntersTailSound, ConnectTailSound, ConnectCleanupSound
  <2>3. CASE \/ SessionMissing(r) \/ SessionAlive(r) \/ SessionDead(r) \/ CallNotReady(r)
             \/ StatusRead(r) \/ OrderRefused(r) \/ OrderPlaced(r) \/ OrderDies(r)
             \/ ModeChanged(r) \/ MarketBegins(r) \/ MarketBusy(r) \/ FetchReturns(r)
    BY <2>3, SessionMissingSound, SessionAliveSound, SessionDeadSound, CallNotReadySound,
       StatusReadSound, OrderRefusedSound, OrderPlacedSound, OrderDiesSound, ModeChangedSound,
       MarketBeginsSound, MarketBusySound, FetchReturnsSound
  <2> QED
    BY <1>3, <2>1, <2>2, <2>3 DEF Serves
<1>4. ASSUME NEW r \in Requests,
             \/ ConnectBreaks(r) \/ LoginTimesOut(r) \/ RealMissing(r)
             \/ RowRefused(r) \/ FetchOutlives(r)
      PROVE  IInv'
  BY <1>4, ConnectBreaksSound, LoginTimesOutSound, RealMissingSound, RowRefusedSound, FetchOutlivesSound
<1>5. ASSUME NEW o \in Objects,
             LoginStep(o) \/ SocketDrops(o) \/ SecondFactorAsked(o) \/ FetchReconnects(o)
      PROVE  IInv'
  BY <1>5, SocketOpensSound, ProfileArrivesSound, SocketSeenSound, LoginStallsSound, SsidSentSound,
     SsidAcceptedSound, SsidRejectedSound, PasswordAcceptedSound, PasswordRefusedSound,
     SendFailsSound, FetchEndsSound, SocketDropsSound, SecondFactorAskedSound, FetchReconnectsSound
  DEF LoginStep
<1> QED
  BY <1>1, <1>2, <1>3, <1>4, <1>5 DEF Next
-----------------------------------------------------------------------------
(* What follows for every number of users, requests and sessions           *)

\* The inductive invariant: who holds which lock, whose SSID and account is
\* where while threads return in time, and who holds the open sockets of the
\* sessions whose logins ended well.
THEOREM SessionsInvariance == Spec => []IInv
<1>1. Init => IInv
  BY InitSound
<1>2. IInv /\ [Next]_vars => IInv'
  BY NextSound
<1> QED
  BY <1>1, <1>2, PTL DEF Spec

\* The state of the service is always well typed.
THEOREM SessionsTypeCorrect == Spec => []TypeOK
<1>1. IInv => TypeOK
  BY DEF IInv, Control
<1> QED
  BY <1>1, SessionsInvariance, PTL

\* A user who disconnected has no session and no connected row until that
\* user connects again, whatever requests, fetches and logins were under way,
\* those that outlive their time included.
THEOREM DisconnectIsFinal == Spec => []LeftStaysOut
<1>1. IInv => LeftStaysOut
  BY DEF IInv, Control
<1> QED
  BY <1>1, SessionsInvariance, PTL

\* While no login and no fetch outlives the request that waits for it, every
\* order is sent on a socket taken for the account of the user who asked for
\* it, although all clients share the globals that decide it and the library
\* logs in by itself when a fetch finds its connection lost.  The balance the
\* order names may still be another user's.
THEOREM OrdersAreOwn == Spec => []OrdersOnOwnAccount
<1>1. IInv => OrdersOnOwnAccount
  BY DEF IInv, Ownership, EverythingIsOwn, OrdersOnOwnAccount
<1> QED
  BY <1>1, SessionsInvariance, PTL

\* While no login and no fetch outlives the request that waits for it, the SSID
\* kept for a user is one the broker gave to that user.
THEOREM StoredTokensAreOwn == Spec => []TokensAreOwn
<1>1. IInv => TokensAreOwn
  BY DEF IInv, Ownership, EverythingIsOwn, TokensAreOwn
<1> QED
  BY <1>1, SessionsInvariance, PTL

\* A user never has two sessions whose logins ended well and whose sockets are
\* open: the listed session is dead while another one is made, whatever sockets
\* failed logins have left behind.
THEOREM SocketsAreSingle == Spec => []OneSocketPerUser
<1>1. IInv => OneSocketPerUser
  <2> SUFFICES ASSUME IInv, Tidy, NEW o \in Objects, NEW p \in Objects,
                      Usable(object[o]), Usable(object[p]),
                      object[o].user = object[p].user
               PROVE  o = p
    BY DEF OneSocketPerUser, Works, Usable
  <2> DEFINE u == object[o].user
             r == lock[u]
  <2>1. SocketLayer /\ u \in Users /\ r \in Requests \cup {NoRequest}
    BY DEF IInv, Sockets, Control, TypeOK, Session
  <2>2. /\ listed[u] = o \/ (r # NoRequest /\ Makes(request[r], o))
        /\ listed[u] = p \/ (r # NoRequest /\ Makes(request[r], p))
    BY <2>1 DEF SocketLayer, SocketsAreHeld
  \* A request that makes a session works next to a dead one.
  <2>3. ASSUME r # NoRequest, request[r].pc \in Making, request[r].flow # "connect"
        PROVE  listed[u] = NoObject \/ object[listed[u]].socket = "closed"
    <3>1. r \in Requests /\ User(r) = u
      BY <2>1, <2>3 DEF IInv, Control, UserLocks
    <3> QED
      BY <2>1, <2>3, <3>1 DEF SocketLayer, ListedByFlow, ByFlow, Dead, Working
  <2>4. CASE listed[u] = o
    BY <2>2, <2>3, <2>4, SessionsAssumption DEF Makes, Usable
  <2>5. CASE r # NoRequest /\ Makes(request[r], o)
    BY <2>2, <2>3, <2>5, SessionsAssumption DEF Makes, Usable
  <2> QED
    BY <2>2, <2>4, <2>5
<1> QED
  BY <1>1, SessionsInvariance, PTL

\* The open socket of a session whose login ended well belongs to a listed
\* session or to the session of a request.
THEOREM SocketsAreNotForgotten == Spec => []NoForgottenSocket
<1>1. IInv => NoForgottenSocket
  <2> SUFFICES ASSUME IInv, Tidy, NEW o \in Objects, Usable(object[o])
               PROVE  \/ \E u \in Users : listed[u] = o
                      \/ \E r \in Requests : Mine(r) = o
    BY DEF NoForgottenSocket, Works, Usable
  <2> DEFINE u == object[o].user
             r == lock[u]
  <2>1. SocketLayer /\ u \in Users /\ r \in Requests \cup {NoRequest}
    BY DEF IInv, Sockets, Control, TypeOK, Session
  <2>2. listed[u] = o \/ (r # NoRequest /\ Makes(request[r], o))
    BY <2>1 DEF SocketLayer, SocketsAreHeld
  <2> QED
    BY <2>1, <2>2 DEF Makes, Mine
<1> QED
  BY <1>1, SessionsInvariance, PTL
=============================================================================
