---------------------------- MODULE MCRobotCycle ----------------------------
(***************************************************************************)
(* Values for model checking RobotCycle.                                   *)
(***************************************************************************)
EXTENDS RobotCycle, TLC

\* Orders are interchangeable.
Ids == Permutations(OrderIds)

\* A loss, a missing amount and a gain, whatever the result they come with.
AnyProfit == {-1, 0, 1}

\* Every handler of the gateway, with few orders; the daily limits, with more.
Handling == {
  [events |-> {"stop", "config", "restart", "poll", "reset", "account",
               "disconnect"}, orders |-> 2],
  [events |-> {"config", "reset", "midnight"}, orders |-> 3]}

\* Failing sessions and restarts; lost answers, deadlines and low balances;
\* amounts the broker may report; scores that are reset.
Failing == {
  [events |-> {"config", "restart", "session", "timeout", "gateway"}, orders |-> 2],
  [events |-> {"stop", "config", "gateway", "timeout", "balance"}, orders |-> 3],
  [events |-> {"config", "clock", "amounts"}, orders |-> 3],
  [events |-> {"config", "reset", "timeout"}, orders |-> 3]}

Looking == {[events |-> {"config", "gateway", "timeout"}, orders |-> 2]}
FailingSessions == {[events |-> {"session"}, orders |-> 2]}
RunningClock == {[events |-> {"clock"}, orders |-> 2]}
=============================================================================
