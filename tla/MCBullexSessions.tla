-------------------------- MODULE MCBullexSessions --------------------------
(***************************************************************************)
(* Values for model checking BullexSessions.                               *)
(***************************************************************************)
EXTENDS BullexSessions, TLC

Someone == CHOOSE u \in Users : TRUE

\* Requests and sessions are interchangeable.
Anyone == Permutations(Requests) \cup Permutations(Objects)

\* Two users whose sockets drop under calls, orders and market data; two users
\* with SSIDs that have expired; one user and every kind of request; a slow
\* broker, a database that refuses, an account without a REAL balance; logins
\* that outlive their 60 s, and catalogue fetches that outlive their 8 s.
Everybody == {
  [users |-> Users, kinds |-> {"connect", "market", "order"},
   attempts |-> 1, events |-> {}, sessions |-> 3, drops |-> 1],
  [users |-> Users, kinds |-> {"connect", "status"},
   attempts |-> 1, events |-> {"expired"}, sessions |-> 3, drops |-> 1],
  [users |-> {Someone}, kinds |-> {"connect", "sms", "disconnect", "status", "order", "mode"},
   attempts |-> 2, events |-> {"refused", "2FA", "practice"}, sessions |-> 3, drops |-> 1],
  [users |-> {Someone}, kinds |-> {"connect", "status", "order"},
   attempts |-> 2, events |-> {"stall", "database", "no real"}, sessions |-> 3, drops |-> 1],
  [users |-> {Someone}, kinds |-> {"connect", "disconnect"},
   attempts |-> 1, events |-> {"timeout"}, sessions |-> 2, drops |-> 0],
  [users |-> {Someone}, kinds |-> {"connect", "disconnect", "market"},
   attempts |-> 1, events |-> {"late"}, sessions |-> 2, drops |-> 1]}

\* Users whose passwords and SSIDs the broker may refuse.
Answering == {
  [users |-> Users, kinds |-> {"connect", "status"},
   attempts |-> 1, events |-> {"refused", "expired"}, sessions |-> 4, drops |-> 0]}

\* Two users and nothing that fails.
Calm == {
  [users |-> Users, kinds |-> {"connect", "order"},
   attempts |-> 1, events |-> {}, sessions |-> 3, drops |-> 0]}
=============================================================================
