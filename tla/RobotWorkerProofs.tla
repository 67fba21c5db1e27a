------------------------- MODULE RobotWorkerProofs -------------------------
(***************************************************************************)
(* Proofs about RobotWorker, for any number of worker tasks.               *)
(*                                                                         *)
(* The argument: every piece of code that changes the pool keeps it sane,  *)
(* that is, well typed with a running task (or none) in the registry.  The *)
(* first block of lemmas says so of each operator on pools, together with  *)
(* the one thing OnlyRestartsOrphan asks: a task that leaves the registry  *)
(* no longer runs.  The steps of the specification then follow.            *)
(***************************************************************************)
EXTENDS RobotWorker, TLAPS

\* A pool whose registry holds a running task or none.
Sane(p) ==
  /\ p \in Pool
  /\ p.registered # NoWorker => p.task[p.registered] \in Running

\* From pool p to pool q no running task has lost its place in the registry.
Keeps(p, q) ==
  \A w \in Workers :
    p.registered = w /\ q.registered # w /\ p.task[w] \in Running
      => q.task[w] \notin Running

\* The inductive invariant: the types and the sanity of the pool.
IInv == TypeOK /\ RegisteredRuns

-----------------------------------------------------------------------------
(* The operators on pools                                                  *)

\* task.cancel() changes the state of that task only, which no longer runs.
LEMMA CancelPool ==
  ASSUME NEW p \in Pool, NEW w \in Workers
  PROVE  /\ Cancel(p, w) \in Pool
         /\ Cancel(p, w).registered = p.registered
         /\ Cancel(p, w).task[w] \notin Running
         /\ \A v \in Workers : v # w => Cancel(p, w).task[v] = p.task[v]
         /\ \A v \in Workers : Cancel(p, w).task[v] = "ended" <=> p.task[v] = "ended"
<1>1. p.task \in [Workers -> TaskStates] /\ p.registered \in Workers \cup {NoWorker}
  BY DEF Pool
<1> DEFINE st == CASE p.task[w] = "created" -> "aborted"
                   [] p.task[w] \in {"asleep", "cycle"} -> "cancelled"
                   [] OTHER -> p.task[w]
<1>2. p.task[w] \in TaskStates
  BY <1>1
<1>3. st \in TaskStates /\ st \notin Running /\ (st = "ended" <=> p.task[w] = "ended")
  BY <1>2 DEF TaskStates, Running
<1>4. Cancel(p, w) = [registered |-> p.registered, task |-> [p.task EXCEPT ![w] = st]]
  BY DEF Cancel, Pool
<1> HIDE DEF st
<1> QED
  BY <1>1, <1>3, <1>4 DEF Pool

\* create_task with a free id puts a running task in the registry.
LEMMA SpawnPool ==
  ASSUME NEW p \in Pool, NEW w \in Workers
  PROVE  /\ Sane(Spawn(p, w))
         /\ Spawn(p, w).registered = w
         /\ Spawn(p, w).task[w] = "created"
         /\ \A v \in Workers : v # w => Spawn(p, w).task[v] = p.task[v]
BY DEF Spawn, Pool, Sane, Running, TaskStates

\* The stale worker that build_robot_payload replaces no longer runs, and a
\* task that was cancelled before is left as it is.
LEMMA PayloadPool ==
  ASSUME NEW p, Sane(p), NEW fresh \in Free(p)
  PROVE  /\ Sane(Payload(p, fresh)) /\ Keeps(p, Payload(p, fresh))
         /\ \A v \in Workers :
              p.task[v] \notin Running \cup {"ended"}
                => Payload(p, fresh).task[v] = p.task[v]
<1>1. CASE ~StaleWorker(p)
  BY <1>1 DEF Payload, Keeps
<1>2. CASE StaleWorker(p)
  <2> DEFINE w == p.registered
             q == Cancel(p, w)
  <2>1. w \in Workers /\ p \in Pool /\ fresh \in Workers /\ p.task[fresh] = "ended"
    BY <1>2 DEF StaleWorker, HasWorker, Sane, Pool, Free
  <2>2. p.task[w] \in Running
    BY <1>2 DEF StaleWorker, HasWorker, Sane
  <2>3. fresh # w
    BY <2>1, <2>2 DEF Running
  <2>4. /\ q \in Pool /\ q.task[w] \notin Running
        /\ \A v \in Workers : v # w => q.task[v] = p.task[v]
    BY <2>1, CancelPool
  <2>5. Payload(p, fresh) = Spawn(q, fresh)
    BY <1>2 DEF Payload
  <2> HIDE DEF q
  <2>6. /\ Sane(Spawn(q, fresh))
        /\ \A v \in Workers : v # fresh => Spawn(q, fresh).task[v] = q.task[v]
    BY <2>1, <2>4, SpawnPool
  <2>7. Keeps(p, Spawn(q, fresh))
    BY <2>1, <2>3, <2>4, <2>6 DEF Keeps
  <2>8. ASSUME NEW v \in Workers, p.task[v] \notin Running \cup {"ended"}
        PROVE  Spawn(q, fresh).task[v] = p.task[v]
    BY <2>1, <2>2, <2>4, <2>6, <2>8
  <2> QED
    BY <2>5, <2>6, <2>7, <2>8
<1> QED
  BY <1>1, <1>2

\* ensure_robot_worker cancels what it takes out of the registry; the task has
\* not ended yet.
LEMMA EnsurePool ==
  ASSUME NEW p, Sane(p), NEW fresh \in Free(p)
  PROVE  /\ Sane(Ensure(p, fresh))
         /\ \A w \in Workers :
              p.registered = w /\ Ensure(p, fresh).registered # w /\ p.task[w] \in Running
                => Ensure(p, fresh).task[w] \notin Running \cup {"ended"}
<1>0. p \in Pool /\ fresh \in Workers /\ p.task[fresh] = "ended"
  BY DEF Sane, Free
<1>1. CASE ~StaleWorker(p) /\ HasWorker(p)
  BY <1>1 DEF Ensure
<1>2. CASE ~StaleWorker(p) /\ ~HasWorker(p)
  <2>1. Ensure(p, fresh) = Spawn(p, fresh)
    BY <1>2 DEF Ensure
  <2>2. \A w \in Workers : p.registered = w => p.task[w] \notin Running
    BY <1>2, WorkersAssumption DEF HasWorker, Running
  <2> QED
    BY <1>0, <2>1, <2>2, SpawnPool
<1>3. CASE StaleWorker(p)
  <2> DEFINE w == p.registered
             c == Cancel(p, w)
             q == [c EXCEPT !.registered = NoWorker]
  <2>1. w \in Workers /\ p.task[w] \in Running
    BY <1>0, <1>3 DEF StaleWorker, HasWorker, Sane, Pool
  <2>2. fresh # w
    BY <1>0, <2>1 DEF Running
  <2>3. c \in Pool /\ c.task[w] \notin Running \cup {"ended"}
    BY <1>0, <2>1, CancelPool DEF Running
  <2> HIDE DEF c
  <2>4. /\ q \in Pool /\ q.registered = NoWorker
        /\ q.task[w] \notin Running \cup {"ended"}
    BY <2>3 DEF Pool
  <2>5. ~HasWorker(q)
    BY <2>4 DEF HasWorker
  <2>6. Ensure(p, fresh) = Spawn(q, fresh)
    BY <1>3, <2>5 DEF Ensure, c
  <2> HIDE DEF q
  <2>7. Sane(Spawn(q, fresh)) /\ Spawn(q, fresh).task[w] = q.task[w]
    BY <1>0, <2>1, <2>2, <2>4, SpawnPool
  <2> QED
    BY <2>4, <2>6, <2>7
<1> QED
  BY <1>1, <1>2, <1>3

\* ensure_robot_worker and then build_robot_payload, in one segment.
LEMMA EnsureThenPayload ==
  ASSUME NEW p, Sane(p), NEW first \in Free(p), NEW second \in Free(Ensure(p, first))
  PROVE  LET q == Payload(Ensure(p, first), second)
         IN Sane(q) /\ q \in Pool /\ Keeps(p, q)
<1> DEFINE e == Ensure(p, first)
           q == Payload(e, second)
<1>1. /\ Sane(e)
      /\ \A w \in Workers :
           p.registered = w /\ e.registered # w /\ p.task[w] \in Running
             => e.task[w] \notin Running \cup {"ended"}
  BY EnsurePool
<1>2. second \in Free(e)
  OBVIOUS
<1>3. /\ \A w \in Workers :
           e.registered = w => e.task[w] \in Running
  BY <1>1, WorkersAssumption DEF Sane
<1> HIDE DEF e
<1>4. /\ Sane(q) /\ Keeps(e, q)
      /\ \A v \in Workers :
           e.task[v] \notin Running \cup {"ended"} => q.task[v] = e.task[v]
  BY <1>1, <1>2, PayloadPool
<1> HIDE DEF q
<1>5. Keeps(p, q)
  BY <1>1, <1>3, <1>4 DEF Keeps
<1>6. q \in Pool
  BY <1>4 DEF Sane
<1> QED
  BY <1>4, <1>5, <1>6 DEF e, q

\* stop_robot_worker empties the registry; a worker that stops itself is the
\* only one it does not cancel.
LEMMA UnregisterPool ==
  ASSUME NEW p, Sane(p), NEW self \in Workers \cup {NoWorker}
  PROVE  /\ Sane(Unregister(p, self))
         /\ Unregister(p, self).registered = NoWorker
         /\ p.registered # self => Keeps(p, Unregister(p, self))
<1>0. p \in Pool
  BY DEF Sane
<1>1. CASE HasWorker(p) /\ p.registered # self
  <2> DEFINE w == p.registered
             c == Cancel(p, w)
  <2>1. w \in Workers
    BY <1>0, <1>1 DEF HasWorker, Pool
  <2>2. c \in Pool /\ c.task[w] \notin Running
    BY <1>0, <2>1, CancelPool
  <2>3. Unregister(p, self) = [c EXCEPT !.registered = NoWorker]
    BY <1>1 DEF Unregister
  <2> HIDE DEF c
  <2> QED
    BY <2>2, <2>3 DEF Pool, Sane, Keeps
<1>2. CASE ~(HasWorker(p) /\ p.registered # self)
  <2>1. Unregister(p, self) = [p EXCEPT !.registered = NoWorker]
    BY <1>2 DEF Unregister
  <2>2. p.registered # self =>
          \A w \in Workers : p.registered = w => p.task[w] \notin Running
    BY <1>2, WorkersAssumption DEF HasWorker, Running
  <2> QED
    BY <1>0, <2>1, <2>2 DEF Pool, Sane, Keeps
<1> QED
  BY <1>1, <1>2

\* A task that ends leaves the registry only if it was itself the entry.
LEMMA EndsPool ==
  ASSUME NEW p, Sane(p), NEW w \in Workers
  PROVE  /\ Sane(Ends(p, w))
         /\ Ends(p, w).task[w] = "ended"
         /\ Keeps(p, Ends(p, w))
         /\ \A v \in Workers : v # w => Ends(p, w).task[v] = p.task[v]
<1>0. p \in Pool
  BY DEF Sane
<1> QED
  BY <1>0, WorkersAssumption DEF Ends, Pool, Sane, Keeps, TaskStates, Running

-----------------------------------------------------------------------------
(* The steps                                                               *)

\* What a segment of the registry code guarantees, seen as a step.
StepOK ==
  /\ enabled' \in BOOLEAN /\ restarted' \in BOOLEAN
  /\ lastTick' \in {"none", "fresh", "stale"}
  /\ Sane(pool')
  /\ Keeps(pool, pool') \/ (restarted' /\ ~restarted)

\* The invariant is the typing and the sanity of the pool of the state.
LEMMA InvIsSane ==
  IInv <=> /\ enabled \in BOOLEAN /\ restarted \in BOOLEAN
           /\ lastTick \in {"none", "fresh", "stale"}
           /\ Sane(pool)
BY DEF IInv, TypeOK, RegisteredRuns, Sane, pool

\* Becomes(p) is pool' = p.
LEMMA BecomesPool ==
  ASSUME NEW p \in Pool, Becomes(p)
  PROVE  pool' = p
BY DEF Becomes, pool, Pool

\* The finally clause: the task ends, and the only task it may push out of
\* the registry is pushed out by the one restart a start allows.
LEMMA FinishStep ==
  ASSUME IInv, NEW w \in Workers, Finish(w), UNCHANGED enabled,
         lastTick' \in {"none", "fresh", "stale"}
  PROVE  StepOK
<1> DEFINE e == Ends(pool, w)
<1>1. Sane(pool)
  BY InvIsSane
<1>2. Sane(e) /\ e \in Pool /\ Keeps(pool, e)
  BY <1>1, EndsPool DEF Sane
<1>3. CASE enabled /\ ~restarted
  <2>1. restarted' = TRUE
    BY <1>3 DEF Finish
  <2>2. PICK fresh \in Free(e) : Becomes(Spawn(e, fresh))
    BY <1>3 DEF Finish
  <2> HIDE DEF e
  <2>3. fresh \in Workers
    BY <2>2 DEF Free
  <2>4. Sane(Spawn(e, fresh)) /\ Spawn(e, fresh) \in Pool
    BY <1>2, <2>3, SpawnPool DEF Sane
  <2>5. Sane(pool')
    BY <2>2, <2>4, BecomesPool
  <2> QED
    BY <1>3, <2>1, <2>5, InvIsSane DEF StepOK
<1>4. CASE ~(enabled /\ ~restarted)
  <2>1. Becomes(e) /\ UNCHANGED restarted
    BY <1>4 DEF Finish
  <2> HIDE DEF e
  <2>2. pool' = e
    BY <1>2, <2>1, BecomesPool
  <2> QED
    BY <1>2, <2>1, <2>2, InvIsSane DEF StepOK
<1> QED
  BY <1>3, <1>4

\* A step that only moves a task between its running states, or ends one that
\* no longer runs, keeps the registry.
LEMMA MoveStep ==
  ASSUME IInv, NEW w \in Workers, NEW st \in TaskStates,
         task' = [task EXCEPT ![w] = st], UNCHANGED registered,
         st \in Running \/ task[w] \notin Running
  PROVE  Sane(pool') /\ Keeps(pool, pool')
BY DEF IInv, TypeOK, RegisteredRuns, Sane, Keeps, pool, Pool

\* Every step keeps the invariant, and every running task its place.
LEMMA NextStep ==
  ASSUME IInv, Next
  PROVE  StepOK
<1>0. Sane(pool) /\ pool \in Pool
  BY InvIsSane DEF Sane
<1>t. /\ enabled \in BOOLEAN /\ restarted \in BOOLEAN
      /\ lastTick \in {"none", "fresh", "stale"}
  BY InvIsSane
<1>1. CASE StartRequest
  <2>1. PICK first \in Free(pool) :
          \E second \in Free(Ensure(pool, first)) :
            Becomes(Payload(Ensure(pool, first), second))
    BY <1>1 DEF StartRequest
  <2>2. PICK second \in Free(Ensure(pool, first)) :
          Becomes(Payload(Ensure(pool, first), second))
    BY <2>1
  <2> DEFINE q == Payload(Ensure(pool, first), second)
  <2>3. Sane(q) /\ q \in Pool /\ Keeps(pool, q)
    BY <1>0, EnsureThenPayload
  <2> HIDE DEF q
  <2>4. pool' = q
    BY <2>2, <2>3, BecomesPool DEF q
  <2> QED
    BY <1>1, <1>t, <2>3, <2>4 DEF StepOK, StartRequest
<1>2. CASE StopRequest
  <2> DEFINE q == Unregister(pool, NoWorker)
  <2>1. /\ Sane(q) /\ q \in Pool
        /\ pool.registered # NoWorker => Keeps(pool, q)
    BY <1>0, UnregisterPool DEF Sane
  <2> HIDE DEF q
  <2>2. Keeps(pool, q)
    BY <2>1, WorkersAssumption DEF Keeps
  <2>3. pool' = q
    BY <1>2, <2>1, BecomesPool DEF StopRequest, q
  <2> QED
    BY <1>2, <1>t, <2>1, <2>2, <2>3 DEF StepOK, StopRequest
<1>3. CASE PollRequest
  <2>1. PICK first \in Free(pool) :
          LET p == IF HasWorker(pool) \/ restarted THEN pool ELSE Ensure(pool, first)
          IN \E second \in Free(p) : Becomes(Payload(p, second))
    BY <1>3 DEF PollRequest
  <2>2. Sane(pool') /\ Keeps(pool, pool')
    <3>1. CASE HasWorker(pool) \/ restarted
      <4>1. PICK second \in Free(pool) : Becomes(Payload(pool, second))
        BY <2>1, <3>1
      <4>2. Sane(Payload(pool, second)) /\ Keeps(pool, Payload(pool, second))
        BY <1>0, PayloadPool
      <4>3. pool' = Payload(pool, second)
        BY <4>1, <4>2, BecomesPool DEF Sane
      <4> QED
        BY <4>2, <4>3
    <3>2. CASE ~(HasWorker(pool) \/ restarted)
      <4>1. PICK second \in Free(Ensure(pool, first)) :
              Becomes(Payload(Ensure(pool, first), second))
        BY <2>1, <3>2
      <4> DEFINE q == Payload(Ensure(pool, first), second)
      <4>2. Sane(q) /\ q \in Pool /\ Keeps(pool, q)
        BY <1>0, EnsureThenPayload
      <4> HIDE DEF q
      <4>3. pool' = q
        BY <4>1, <4>2, BecomesPool DEF q
      <4> QED
        BY <4>2, <4>3
    <3> QED
      BY <3>1, <3>2
  <2> QED
    BY <1>3, <1>t, <2>2 DEF StepOK, PollRequest
<1>4. CASE TickGetsStale
  <2>1. pool' = pool
    BY <1>4 DEF TickGetsStale, pool
  <2> QED
    BY <1>0, <1>4, <1>t, <2>1 DEF StepOK, TickGetsStale, Keeps
<1>5. ASSUME NEW w \in Workers, Steps(w)
      PROVE  StepOK
  <2>1. CASE WorkerWakes(w)
    <3>1. CASE LoopCondition
      <4>1. PICK st \in {"asleep", "cycle"} : task' = [task EXCEPT ![w] = st]
        BY <2>1, <3>1 DEF WorkerWakes
      <4>2. Sane(pool') /\ Keeps(pool, pool')
        BY <2>1, <3>1, <4>1, MoveStep DEF WorkerWakes, TaskStates, Running
      <4> QED
        BY <1>t, <2>1, <3>1, <4>2 DEF WorkerWakes, StepOK
    <3>2. CASE ~LoopCondition
      BY <1>t, <2>1, <3>2, FinishStep DEF WorkerWakes
    <3> QED
      BY <3>1, <3>2
  <2>2. CASE CycleReturns(w)
    <3> DEFINE back == [pool EXCEPT !.task[w] = "asleep"]
    <3>1. /\ Sane(back) /\ back \in Pool
          /\ back.registered = pool.registered
          /\ \A v \in Workers : pool.task[v] \in Running => back.task[v] \in Running
      BY <1>0 DEF Sane, Pool, TaskStates, Running
    <3>2. Keeps(pool, back)
      BY <3>1 DEF Keeps
    <3>3. CASE enabled /\ Becomes(back) /\ UNCHANGED restarted
      <4> HIDE DEF back
      <4>1. pool' = back
        BY <3>1, <3>3, BecomesPool
      <4> QED
        BY <1>t, <2>2, <3>1, <3>2, <3>3, <4>1 DEF StepOK, CycleReturns
    <3>4. CASE /\ enabled /\ UNCHANGED restarted
               /\ \E fresh \in Free(back) : Becomes(Payload(back, fresh))
      <4>1. PICK fresh \in Free(back) : Becomes(Payload(back, fresh))
        BY <3>4
      <4> HIDE DEF back
      <4>2. Sane(Payload(back, fresh)) /\ Keeps(back, Payload(back, fresh))
        BY <3>1, PayloadPool
      <4>3. pool' = Payload(back, fresh)
        BY <4>1, <4>2, BecomesPool DEF Sane
      <4>4. Keeps(pool, pool')
        BY <3>1, <4>2, <4>3 DEF Keeps
      <4> QED
        BY <1>t, <2>2, <3>4, <4>2, <4>3, <4>4 DEF StepOK, CycleReturns
    <3>5. CASE ~enabled
      BY <1>t, <2>2, <3>5, FinishStep DEF CycleReturns
    <3> QED
      BY <2>2, <3>3, <3>4, <3>5 DEF CycleReturns
  <2>3. CASE CycleStopsRobot(w)
    <3> DEFINE p == Unregister(pool, w)
    <3>1. /\ Sane(p) /\ p \in Pool /\ p.registered = NoWorker
          /\ pool.registered # w => Keeps(pool, p)
      BY <1>0, UnregisterPool DEF Sane
    <3>2. pool.registered = registered /\ NoWorker # w
      BY WorkersAssumption DEF pool
    <3>3. CASE HasWorker(pool) /\ registered # w
      <4>1. Becomes(p)
        BY <2>3, <3>3 DEF CycleStopsRobot
      <4> HIDE DEF p
      <4>2. pool' = p
        BY <3>1, <4>1, BecomesPool
      <4> QED
        BY <1>t, <2>3, <3>1, <3>2, <3>3, <4>2 DEF StepOK, CycleStopsRobot
    <3>4. CASE ~(HasWorker(pool) /\ registered # w)
      <4>1. Becomes(Ends(p, w))
        BY <2>3, <3>4 DEF CycleStopsRobot
      <4> HIDE DEF p
      <4>2. /\ Sane(Ends(p, w)) /\ Ends(p, w).task[w] = "ended"
            /\ \A v \in Workers : v # w => Ends(p, w).task[v] = p.task[v]
        BY <3>1, EndsPool
      <4>3. pool' = Ends(p, w)
        BY <4>1, <4>2, BecomesPool DEF Sane
      <4>4. Keeps(pool, pool')
        BY <3>1, <3>2, <4>2, <4>3, WorkersAssumption DEF Keeps, Running
      <4> QED
        BY <1>t, <2>3, <4>2, <4>3, <4>4 DEF StepOK, CycleStopsRobot
    <3> QED
      BY <3>3, <3>4
  <2>4. CASE WorkerCrashes(w)
    BY <1>t, <2>4, FinishStep DEF WorkerCrashes
  <2>5. CASE CancelArrives(w)
    <3>1. CASE task[w] = "cancelled" /\ Finish(w)
      BY <1>t, <2>5, <3>1, FinishStep DEF CancelArrives
    <3>2. CASE /\ task[w] = "aborted"
               /\ task' = [task EXCEPT ![w] = "ended"]
               /\ UNCHANGED <<registered, restarted>>
      <4>1. Sane(pool') /\ Keeps(pool, pool')
        BY <3>2, MoveStep DEF TaskStates, Running
      <4> QED
        BY <1>t, <2>5, <3>2, <4>1 DEF CancelArrives, StepOK
    <3> QED
      BY <2>5, <3>1, <3>2 DEF CancelArrives
  <2> QED
    BY <1>5, <2>1, <2>2, <2>3, <2>4, <2>5 DEF Steps
<1> QED
  BY <1>1, <1>2, <1>3, <1>4, <1>5 DEF Next

\* A step and a stutter keep the invariant.
LEMMA IInvInductive ==
  IInv /\ [Next]_vars => IInv'
<1> SUFFICES ASSUME IInv, [Next]_vars PROVE IInv'
  OBVIOUS
<1>1. CASE Next
  <2>1. StepOK
    BY <1>1, NextStep
  <2> QED
    BY <2>1 DEF StepOK, IInv, TypeOK, RegisteredRuns, Sane, pool
<1>2. CASE UNCHANGED vars
  BY <1>2 DEF IInv, TypeOK, RegisteredRuns, Pool, pool, vars
<1> QED
  BY <1>1, <1>2

\* The registry starts empty and every task has ended.
LEMMA InitInv == Init => IInv
BY DEF Init, IInv, TypeOK, RegisteredRuns, Pool, pool, TaskStates

\* The types of robot_tasks and of the tasks, and the sanity of the registry.
THEOREM RegistryInvariance == Spec => []IInv
BY InitInv, IInvInductive, PTL DEF Spec

\* What robot_tasks holds is never a cancelled or finished task, however many
\* workers the requests, stale heartbeats and crashes create.
THEOREM RegistryIsAlive == Spec => []RegisteredRuns
<1>1. IInv => RegisteredRuns
  BY DEF IInv
<1> QED
  BY <1>1, RegistryInvariance, PTL

\* Only the restart of a finally clause takes a running worker out of the
\* reach of stop_robot_worker, and a start allows it once.
THEOREM OrphansComeFromRestarts == Spec => OnlyRestartsOrphan
<1>1. IInv /\ [Next]_vars =>
        [\A w \in Workers :
           /\ registered = w /\ registered' # w
           /\ task[w] \in Running /\ task'[w] \in Running
           => restarted' /\ ~restarted]_vars
  <2> SUFFICES ASSUME IInv, Next
               PROVE  \A w \in Workers :
                        /\ registered = w /\ registered' # w
                        /\ task[w] \in Running /\ task'[w] \in Running
                        => restarted' /\ ~restarted
    OBVIOUS
  <2>1. Keeps(pool, pool') \/ (restarted' /\ ~restarted)
    BY NextStep DEF StepOK
  <2> QED
    BY <2>1 DEF Keeps, pool
<1> QED
  BY <1>1, RegistryInvariance, PTL DEF Spec, OnlyRestartsOrphan
=============================================================================
