---------------------------- MODULE RobotWorker ----------------------------
(***************************************************************************)
(* The worker tasks of one user's robot (backend/main.py): robot_tasks     *)
(* registers one asyncio task per user, and four pieces of code create,    *)
(* cancel or replace it: ensure_robot_worker, stop_robot_worker,           *)
(* build_robot_payload, and the finally clause of robot_worker itself.     *)
(*                                                                         *)
(* Cancelling a task only schedules a CancelledError: the task runs its    *)
(* finally clause at its next step, after whatever the canceller did in    *)
(* the meantime.  A task cancelled before its first step never runs any of *)
(* its code.  A task id is free again once its task has ended.             *)
(***************************************************************************)
EXTENDS Naturals, FiniteSets

CONSTANTS
  Workers,   \* bound: the tasks that may be alive at once
  NoWorker,  \* robot_tasks has no entry for the user
  Events     \* bound: what a run explores

ASSUME WorkersAssumption == NoWorker \notin Workers

VARIABLES
  enabled,    \* auto_trader.get(user_id).enabled
  registered, \* robot_tasks.get(user_id)
  task,       \* the state of each task
  restarted,  \* user_id in robot_worker_restart_attempted
  lastTick    \* robot_worker_last_tick_at: "stale" is more than 30 s ago

vars == <<enabled, registered, task, restarted, lastTick>>

\* created: scheduled, no step taken; asleep: in an asyncio.sleep; cycle: in
\* execute_robot_cycle; cancelled, aborted: CancelledError is on its way.
Running == {"created", "asleep", "cycle"}
TaskStates == Running \cup {"cancelled", "aborted", "ended"}

Pool == [registered : Workers \cup {NoWorker}, task : [Workers -> TaskStates]]

Init ==
  /\ enabled = FALSE
  /\ registered = NoWorker
  /\ task = [w \in Workers |-> "ended"]
  /\ restarted = FALSE
  /\ lastTick = "none"

-----------------------------------------------------------------------------
(* A pool p is what robot_tasks and the tasks themselves are during a      *)
(* segment; the operators below are the pieces of code that change it.     *)

pool == [registered |-> registered, task |-> task]
Free(p) == {w \in Workers : p.task[w] = "ended"}
HasWorker(p) == p.registered # NoWorker /\ p.task[p.registered] # "ended"
StaleWorker(p) == HasWorker(p) /\ lastTick = "stale"

\* task.cancel()
Cancel(p, w) ==
  [p EXCEPT !.task[w] = CASE @ = "created" -> "aborted"
                          [] @ \in {"asleep", "cycle"} -> "cancelled"
                          [] OTHER -> @]

\* robot_tasks[user_id] = asyncio.create_task(robot_worker(user_id))
Spawn(p, w) == [registered |-> w, task |-> [p.task EXCEPT ![w] = "created"]]

\* The registry part of ensure_robot_worker for an enabled, connected robot;
\* fresh is the id of the task it may create.
Ensure(p, fresh) ==
  LET q == IF StaleWorker(p)
           THEN [Cancel(p, p.registered) EXCEPT !.registered = NoWorker] ELSE p
  IN IF HasWorker(q) THEN q ELSE Spawn(q, fresh)

\* A mutant of Payload: the worker that is replaced is not cancelled.
PayloadForgets(p, fresh) == IF StaleWorker(p) THEN Spawn(p, fresh) ELSE p

\* build_robot_payload: the worker of an enabled robot is replaced.
Payload(p, fresh) ==
  IF StaleWorker(p) THEN Spawn(Cancel(p, p.registered), fresh) ELSE p

\* stop_robot_worker(user_id); a worker does not cancel itself.
Unregister(p, self) ==
  LET q == IF HasWorker(p) /\ p.registered # self THEN Cancel(p, p.registered) ELSE p
  IN [q EXCEPT !.registered = NoWorker]

\* A mutant of Ends: the registry keeps the task.
EndsRegistered(p, w) == [p EXCEPT !.task[w] = "ended"]

\* finally: a task removes itself from the registry, and nobody else.
Ends(p, w) ==
  [registered |-> IF p.registered = w THEN NoWorker ELSE p.registered,
   task |-> [p.task EXCEPT ![w] = "ended"]]

Becomes(p) == registered' = p.registered /\ task' = p.task

\* The finally clause of robot_worker.  A robot that is still enabled gets
\* one new worker, whatever the registry holds; its status is never a stop
\* status while it is enabled.
Finish(w) ==
  IF enabled /\ ~restarted
  THEN /\ \E fresh \in Free(Ends(pool, w)) : Becomes(Spawn(Ends(pool, w), fresh))
       /\ restarted' = TRUE
  ELSE /\ Becomes(Ends(pool, w))
       /\ UNCHANGED restarted

-----------------------------------------------------------------------------
(* Requests                                                                *)

\* The end of _robot_start_impl; tasks an earlier stop has cancelled may not
\* have ended yet.
StartRequest ==
  /\ \E first \in Free(pool) :
       LET p == Ensure(pool, first)
       IN \E second \in Free(p) : Becomes(Payload(p, second))
  /\ enabled' = TRUE
  /\ restarted' = FALSE
  /\ UNCHANGED lastTick

\* Every handler that disables the robot and stops its worker, and the
\* result that reaches a stop limit.
StopRequest ==
  /\ enabled' = FALSE
  /\ Becomes(Unregister(pool, NoWorker))
  /\ UNCHANGED <<restarted, lastTick>>

\* GET /robot/state: the worker of an enabled robot is created when there is
\* none, unless it was restarted already.
PollRequest ==
  /\ enabled
  /\ \E first \in Free(pool) :
       LET p == IF HasWorker(pool) \/ restarted THEN pool ELSE Ensure(pool, first)
       IN \E second \in Free(p) : Becomes(Payload(p, second))
  /\ UNCHANGED <<enabled, restarted, lastTick>>

-----------------------------------------------------------------------------
(* The tasks                                                               *)

\* A mutant of LoopCondition: the worker never looks at the robot.
LoopForever == TRUE

\* while auto_trader.get(user_id).enabled
LoopCondition == enabled

\* An iteration: the heartbeat, then either a sleep (no connection, backoff,
\* a result that is waited for) or a cycle.
WorkerWakes(w) ==
  /\ task[w] \in {"created", "asleep"}
  /\ IF LoopCondition
     THEN /\ lastTick' = "fresh"
          /\ \E st \in {"asleep", "cycle"} : task' = [task EXCEPT ![w] = st]
          /\ UNCHANGED <<registered, restarted>>
     ELSE Finish(w) /\ UNCHANGED lastTick
  /\ UNCHANGED enabled

\* The cycle ends; the payload it builds may replace the worker itself.
CycleReturns(w) ==
  /\ task[w] = "cycle"
  /\ LET back == [pool EXCEPT !.task[w] = "asleep"]
     IN IF enabled
        THEN \/ Becomes(back) /\ UNCHANGED restarted
             \/ /\ \E fresh \in Free(back) : Becomes(Payload(back, fresh))
                /\ UNCHANGED restarted
        ELSE Finish(w)
  /\ UNCHANGED <<enabled, lastTick>>

\* The cycle disables the robot and stops its worker.  The registered worker
\* leaves its loop without an await; any other waits, still in its cycle, for
\* the one it cancels.
CycleStopsRobot(w) ==
  /\ task[w] = "cycle"
  /\ enabled /\ enabled' = FALSE
  /\ LET p == Unregister(pool, w)
     IN Becomes(IF HasWorker(pool) /\ registered # w THEN p ELSE Ends(p, w))
  /\ UNCHANGED <<restarted, lastTick>>

WorkerCrashes(w) ==
  /\ "crash" \in Events
  /\ task[w] \in {"asleep", "cycle"}
  /\ Finish(w)
  /\ UNCHANGED <<enabled, lastTick>>

CancelArrives(w) ==
  /\ \/ task[w] = "cancelled" /\ Finish(w)
     \/ /\ task[w] = "aborted"
        /\ task' = [task EXCEPT ![w] = "ended"]
        /\ UNCHANGED <<registered, restarted>>
  /\ UNCHANGED <<enabled, lastTick>>

\* A backoff or a slow cycle keeps a worker from ticking for 30 s.
TickGetsStale ==
  /\ "stale" \in Events
  /\ lastTick = "fresh"
  /\ lastTick' = "stale"
  /\ UNCHANGED <<enabled, registered, task, restarted>>

Steps(w) ==
  WorkerWakes(w) \/ CycleReturns(w) \/ CycleStopsRobot(w)
  \/ WorkerCrashes(w) \/ CancelArrives(w)

Next ==
  \/ StartRequest \/ StopRequest \/ PollRequest \/ TickGetsStale
  \/ \E w \in Workers : Steps(w)

Spec == Init /\ [][Next]_vars

\* Sleeps and cycles end, and a cancellation is delivered.
Fairness ==
  \A w \in Workers :
    WF_vars(WorkerWakes(w)) /\ WF_vars(CycleReturns(w)) /\ WF_vars(CancelArrives(w))

FairSpec == Spec /\ Fairness

-----------------------------------------------------------------------------
(* Properties                                                              *)

TypeOK ==
  /\ enabled \in BOOLEAN /\ restarted \in BOOLEAN
  /\ pool \in Pool
  /\ lastTick \in {"none", "fresh", "stale"}

\* What the registry holds is a task that still runs: worker_running, which
\* the dashboard shows and PollRequest trusts, is never wrong because a
\* cancelled or finished task was left behind.
RegisteredRuns == registered # NoWorker => task[registered] \in Running

\* A task that goes on running loses its place in the registry, and with it
\* the reach of stop_robot_worker, in one way only: the finally clause of
\* another task registers a restarted worker over it.
OnlyRestartsOrphan ==
  [][\A w \in Workers :
       /\ registered = w /\ registered' # w
       /\ task[w] \in Running /\ task'[w] \in Running
       => restarted' /\ ~restarted]_vars

\* tests/test_session_worker_lifecycle.py: test_each_user_has_at_most_one_worker.
AtMostOneWorker == Cardinality({w \in Workers : task[w] \in Running}) <= 1

\* A robot that is switched off, and stays off, ends up without any worker,
\* the ones the registry lost included.
StoppedRobotLosesItsWorkers ==
  ~enabled ~> (enabled \/ \A w \in Workers : task[w] = "ended")
=============================================================================
