-------------------------- MODULE MCGatewaySession --------------------------
(***************************************************************************)
(* Values for model checking GatewaySession.                               *)
(***************************************************************************)
EXTENDS GatewaySession, TLC

One == {CHOOSE r \in Requests : TRUE}

\* A session the broker drops, with a restart of the process, and one the
\* service restores; one that turns to PRACTICE while calls fail; logins that
\* are refused or end on PRACTICE, and a disconnect, with the user store in
\* memory; two requests at once; a service that keeps its answers, over a drop
\* and over logins.
Dashboard == {
  [requests |-> One, routes |-> {"account", "start", "state", "stop"},
   answers |-> {}, events |-> {"drop", "restart"}, memory |-> FALSE, keeps |-> FALSE],
  [requests |-> One, routes |-> {"account", "start", "state"},
   answers |-> {}, events |-> {"drop", "restore"}, memory |-> FALSE, keeps |-> FALSE],
  [requests |-> One, routes |-> {"account", "start", "sync"},
   answers |-> {"fail"}, events |-> {"practice"}, memory |-> FALSE, keeps |-> FALSE],
  [requests |-> One, routes |-> {"account", "reconnect", "status"},
   answers |-> {"refused"}, events |-> {}, memory |-> TRUE, keeps |-> FALSE],
  [requests |-> One, routes |-> {"account", "connect", "status"},
   answers |-> {"practice"}, events |-> {}, memory |-> TRUE, keeps |-> FALSE],
  [requests |-> One, routes |-> {"account", "connect", "disconnect", "start"},
   answers |-> {}, events |-> {}, memory |-> TRUE, keeps |-> FALSE],
  [requests |-> Requests, routes |-> {"account", "start"},
   answers |-> {}, events |-> {"drop"}, memory |-> FALSE, keeps |-> FALSE],
  [requests |-> One, routes |-> {"account", "start"},
   answers |-> {}, events |-> {"drop", "restore"}, memory |-> FALSE, keeps |-> TRUE],
  [requests |-> One, routes |-> {"account", "reconnect", "status"},
   answers |-> {"fail"}, events |-> {}, memory |-> FALSE, keeps |-> TRUE],
  [requests |-> One, routes |-> {"account", "connect", "disconnect", "status"},
   answers |-> {}, events |-> {}, memory |-> TRUE, keeps |-> TRUE]}
=============================================================================
