---------------------------- MODULE OrderLedger ----------------------------
(***************************************************************************)
(* What the gateway promises about the orders of one user, whatever        *)
(* handlers, failures and deadlines its robot meets: an order the broker   *)
(* accepted is watched at most once, and the end of that watch settles the *)
(* order, once, or abandons it; what is booked is the outcome the broker   *)
(* gave to that order, or that none came in time; and a book that was      *)
(* written is only ever forgotten.  RobotCycle implements it.              *)
(***************************************************************************)
CONSTANT Orders

VARIABLES
  outcome,   \* what became of each order at the broker
  watch,     \* the monitor of each order
  settled,   \* the orders that have their result: completed_order_ids
  book       \* the results in the history, in memory or persisted

Init ==
  /\ outcome = [o \in Orders |-> "none"]
  /\ watch = [o \in Orders |-> "off"]
  /\ settled = {}
  /\ book = {}

\* The broker accepts an order, and decides it later.
Decide(o) ==
  /\ \/ outcome[o] = "none" /\ outcome' = [outcome EXCEPT ![o] = "open"]
     \/ /\ outcome[o] = "open"
        /\ \E result \in {"WIN", "LOSS"} : outcome' = [outcome EXCEPT ![o] = result]
  /\ UNCHANGED <<watch, settled, book>>

Watch(o) ==
  /\ outcome[o] # "none" /\ watch[o] = "off"
  /\ watch' = [watch EXCEPT ![o] = "on"]
  /\ UNCHANGED <<outcome, settled, book>>

\* The watch ends: the order gets its result, or its trade was dropped.
Results(o) == {outcome[o], "TIMEOUT"} \ {"none", "open"}

Settle(o) ==
  /\ o \notin settled
  /\ settled' = settled \cup {o}
  /\ \E result \in Results(o) : book' \subseteq book \cup {<<o, result>>}

Abandon == settled' = settled /\ book' \subseteq book

Close(o) ==
  /\ watch[o] = "on"
  /\ watch' = [watch EXCEPT ![o] = "done"]
  /\ Settle(o) \/ Abandon
  /\ UNCHANGED outcome

\* The history is limited, and cleared with the score.
Forget == book' \subseteq book /\ UNCHANGED <<outcome, watch, settled>>

Next == Forget \/ \E o \in Orders : Decide(o) \/ Watch(o) \/ Close(o)

Spec == Init /\ [][Next]_<<outcome, watch, settled, book>>
=============================================================================
