------------------------ MODULE TaskLifecycle_proofs ------------------------
(***************************************************************************)
(* Safety of TaskLifecycle, for every number of tasks, slots and requests, *)
(* every retention, checkpointer and environment.                          *)
(***************************************************************************)
EXTENDS TaskLifecycle, FiniteSetTheorems, TLAPS

(* The locals a handler records on its way out are locals of a run.          *)
LEMMA HandlerLocals ==
    ASSUME TypeOK, NEW t \in Task, NEW k \in BOOLEAN,
           NEW e \in {"return", "parked", "raised"}
    PROVE  [run EXCEPT ![t].keep = k, ![t].end = e] \in [Task -> RunLocals]
  <1>1. run[t] \in RunLocals
    BY DEF TypeOK
  <1>2. [run[t] EXCEPT !.keep = k, !.end = e] \in RunLocals
    BY <1>1 DEF RunLocals
  <1>3. [run EXCEPT ![t] = [run[t] EXCEPT !.keep = k, !.end = e]]
            \in [Task -> RunLocals]
    BY <1>2 DEF TypeOK
  <1>4. [run EXCEPT ![t].keep = k, ![t].end = e]
            = [run EXCEPT ![t] = [run[t] EXCEPT !.keep = k, !.end = e]]
    BY <1>1 DEF TypeOK
  <1> QED
    BY <1>3, <1>4

(* The step a CancelledError makes leaves every coroutine in a control state. *)
LEMMA CancelTypes ==
    ASSUME TypeOK, NEW S \in SUBSET Task, Cancel(S)
    PROVE  /\ pc' \in [Task -> Control]
           /\ run' \in [Task -> RunLocals]
           /\ ckpt' \in [Task -> {"none", "current", "stale"}]
  <1>1. \A t \in Task : AfterCancel(pc[t]) \in Control
    BY DEF TypeOK, AfterCancel, Control, Body, Handlers
  <1>2. \A t \in Task : LocalsAfterCancel(t) \in RunLocals
    BY DEF TypeOK, LocalsAfterCancel, FreshRun, RunLocals
  <1>3. \A t \in Task : CkptOnExit(t) \in {"none", "current", "stale"}
    BY DEF TypeOK, CkptOnExit
  <1> QED
    BY <1>1, <1>2, <1>3 DEF TypeOK, Cancel

LEMMA TypeStep == ASSUME TypeOK, [Next]_vars PROVE TypeOK'
  <1> USE DEF Control, Body, Handlers, Status
  <1>1. ASSUME NEW t \in Task, CreateTask(t) PROVE TypeOK'
    BY <1>1 DEF TypeOK, CreateTask
  <1>2. ASSUME NEW t \in Task, Start(t) PROVE TypeOK'
    BY <1>2 DEF TypeOK, Start, Goto
  <1>3. ASSUME NEW t \in Task, EnterTry(t) PROVE TypeOK'
    BY <1>3 DEF TypeOK, EnterTry, Goto
  <1>4. ASSUME NEW t \in Task, Resolve(t) PROVE TypeOK'
    <2>1. CkptOnResolve(t) \in {"none", "current", "stale"}
      BY DEF TypeOK, CkptOnResolve
    <2>2. Resumable(t) \in BOOLEAN
      BY DEF Resumable, IsRevision, HasCheckpoint
    <2> QED
      BY <1>4, <2>1, <2>2 DEF TypeOK, Resolve, Goto, RunLocals
  <1>5. ASSUME NEW t \in Task, ReuseClone(t) PROVE TypeOK'
    BY <1>5 DEF TypeOK, ReuseClone, Goto
  <1>6. ASSUME NEW t \in Task, BeginClone(t) PROVE TypeOK'
    BY <1>6 DEF TypeOK, BeginClone, Goto, Stale
  <1>7. ASSUME NEW t \in Task, FinishClone(t) PROVE TypeOK'
    BY <1>7 DEF TypeOK, FinishClone, Goto
  <1>8. ASSUME NEW t \in Task, BeginStream(t) PROVE TypeOK'
    BY <1>8 DEF TypeOK, BeginStream, Goto
  <1>9. ASSUME NEW t \in Task, AgentReturns(t) PROVE TypeOK'
    BY <1>9 DEF TypeOK, AgentReturns, Goto
  <1>10. ASSUME NEW t \in Task, Hold(t) PROVE TypeOK'
    BY <1>10 DEF TypeOK, Hold, Goto
  <1>11. ASSUME NEW t \in Task, Complete(t) PROVE TypeOK'
    BY <1>11 DEF TypeOK, Complete, Goto
  <1>12. ASSUME NEW t \in Task, WriteFailed(t) PROVE TypeOK'
    BY <1>12 DEF TypeOK, WriteFailed, Goto
  <1>13. ASSUME NEW t \in Task, WriteParked(t) PROVE TypeOK'
    <2>1. KeepsCheckpoint(t) \in BOOLEAN
      BY DEF KeepsCheckpoint, IsRevision
    <2>2. run' \in [Task -> RunLocals]
      BY <1>13, <2>1, HandlerLocals DEF WriteParked
    <2> QED
      BY <1>13, <2>2 DEF TypeOK, WriteParked, Goto
  <1>14. ASSUME NEW t \in Task, WriteInterrupted(t) PROVE TypeOK'
    <2>1. ParksOnShutdown(t) \in BOOLEAN
      BY DEF ParksOnShutdown, KeepsCheckpoint, IsRevision
    <2>2. run' \in [Task -> RunLocals]
      BY <1>14, <2>1, HandlerLocals DEF WriteInterrupted
    <2> QED
      BY <1>14, <2>2 DEF TypeOK, WriteInterrupted, Goto
  <1>15. ASSUME NEW t \in Task, Cleanup(t) PROVE TypeOK'
    BY <1>15 DEF TypeOK, Cleanup, Goto, CkptOnExit
  <1>16. ASSUME NEW t \in Task, ReadHeld(t) PROVE TypeOK'
    BY <1>16 DEF TypeOK, ReadHeld, Goto, RunLocals, WithStatus
  <1>17. ASSUME NEW t \in Task, ReadParked(t) PROVE TypeOK'
    BY <1>17 DEF TypeOK, ReadParked, Goto, RunLocals, ParkedRows,
       WithStatus
  <1>18. ASSUME NEW t \in Task, Prune(t) PROVE TypeOK'
    BY <1>18 DEF TypeOK, Prune, AfterRun, Goto, RunLocals, FreshRun, Prunable,
       Surplus, Stale
  <1>19. ASSUME NEW t \in Task, Notified(t) PROVE TypeOK'
    BY <1>19 DEF TypeOK, Notified, Goto
  <1>20. ASSUME NEW t \in Task, AgentCheckpoints(t) PROVE TypeOK'
    BY <1>20 DEF TypeOK, AgentCheckpoints, NextCkpt
  <1>21. ASSUME NEW t \in Task, Push(t) PROVE TypeOK'
    BY <1>21 DEF TypeOK, Push
  <1>22. ASSUME NEW t \in Task, RaiseError(t) PROVE TypeOK'
    BY <1>22 DEF TypeOK, RaiseError, Goto
  <1>23. ASSUME NEW t \in Task, RaiseDailyBudget(t) PROVE TypeOK'
    BY <1>23 DEF TypeOK, RaiseDailyBudget, Goto
  <1>24. ASSUME NEW t \in Task, DispatchPick(t) PROVE TypeOK'
    BY <1>24 DEF TypeOK, DispatchPick
  <1>25. ASSUME NEW r \in Requests, NEW t \in Task,
              NEW op \in {"cancel", "approve", "reject"}, Ask(r, op, t)
       PROVE  TypeOK'
    <2>1. status[t] \in Status \cup {"absent"}
      BY DEF TypeOK
    <2> QED
      BY <1>25, <2>1 DEF TypeOK, Ask, RequestState, Actionable, NoReq
  <1>26. ASSUME NEW r \in Requests, CancelRow(r) PROVE TypeOK'
    BY <1>26 DEF TypeOK, CancelRow, SetStatus, Answer, NoReq, NoTask,
       RequestState
  <1>27. ASSUME NEW r \in Requests, CancelRun(r) PROVE TypeOK'
    <2>1. req[r].task \in Task
      BY <1>27 DEF TypeOK, CancelRun, RequestState, NoReq
    <2> QED
      BY <1>27, CancelTypes, <2>1 DEF TypeOK, CancelRun, Answer, NoReq,
         NoTask, RequestState
  <1>28. ASSUME NEW r \in Requests, Reject(r) PROVE TypeOK'
    BY <1>28 DEF TypeOK, Reject, SetStatus, Answer, NoReq, NoTask,
       RequestState
  <1>29. ASSUME NEW r \in Requests, Ship(r) PROVE TypeOK'
    BY <1>29 DEF TypeOK, Ship, RequestState, NoReq
  <1>30. ASSUME NEW r \in Requests, ShipFails(r) PROVE TypeOK'
    BY <1>30 DEF TypeOK, ShipFails, Answer, NoReq, NoTask, RequestState
  <1>31. ASSUME NEW r \in Requests, Approve(r) PROVE TypeOK'
    BY <1>31 DEF TypeOK, Approve, SetStatus, Answer, NoReq, NoTask,
       RequestState
  <1>32. CASE DispatchLaunch
    BY <1>32 DEF TypeOK, DispatchLaunch, RunLocals, FreshRun, NoTask
  <1>33. CASE DispatchRefuse
    BY <1>33 DEF TypeOK, DispatchRefuse, NoTask
  <1>34. CASE ReachCap
    BY <1>34, LimitsAssumption DEF TypeOK, ReachCap
  <1>35. CASE Midnight
    BY <1>35 DEF TypeOK, Midnight
  <1>36. CASE Stop
    BY <1>36, CancelTypes DEF TypeOK, Stop, NoTask
  <1>37. CASE Exit
    BY <1>37 DEF TypeOK, Exit, CkptOnExitOfProcess
  <1>38. CASE Crash
    BY <1>38, LimitsAssumption DEF TypeOK, Crash, CkptOnExitOfProcess,
       RunLocals, FreshRun, NoReq, RequestState, NoTask
  <1>39. CASE Boot
    <2>1. \A t \in Task : RowAfterBoot(status[t]) \in Status \cup {"absent"}
      BY DEF TypeOK, RowAfterBoot, Status
    <2> QED
      BY <1>39, <2>1 DEF TypeOK, Boot
  <1>40. CASE UNCHANGED vars
    BY <1>40 DEF TypeOK, vars
  <1>41. ASSUME NEW u \in Task, PreambleFails(u) PROVE TypeOK'
    BY <1>41, LimitsAssumption DEF TypeOK, PreambleFails, DatabaseFault, Goto
  <1>42. ASSUME NEW u \in Task, OutcomeEventFails(u) PROVE TypeOK'
    BY <1>42, LimitsAssumption DEF TypeOK, OutcomeEventFails, DatabaseFault, Goto
  <1>43. ASSUME NEW u \in Task, HandlerFails(u) PROVE TypeOK'
    <2>1. KeepsOnError(u) \in BOOLEAN
      BY <1>43 DEF TypeOK, RunLocals, KeepsOnError, KeepsCheckpoint,
         ParksOnShutdown, IsRevision
    <2>2. run' \in [Task -> RunLocals]
      BY <1>43, <2>1, HandlerLocals DEF HandlerFails
    <2>3. /\ faults' \in 0..MaxFaults
          /\ pc' \in [Task -> Control]
          /\ ckpt' \in [Task -> {"none", "current", "stale"}]
      BY <1>43, LimitsAssumption DEF TypeOK, HandlerFails, DatabaseFault, Goto
    <2> QED
      BY <1>43, <2>2, <2>3 DEF TypeOK, HandlerFails
  <1>44. ASSUME NEW u \in Task, SweepFails(u) PROVE TypeOK'
    BY <1>44, LimitsAssumption DEF TypeOK, SweepFails, DatabaseFault, Goto, AfterRun, RunLocals, FreshRun
  <1> QED
    BY <1>1, <1>2, <1>3, <1>4, <1>5, <1>6, <1>7, <1>8, <1>9, <1>10, <1>11,
       <1>12, <1>13, <1>14, <1>15, <1>16, <1>17, <1>18, <1>19, <1>20,
       <1>21, <1>22, <1>23, <1>24, <1>25, <1>26, <1>27, <1>28, <1>29,
       <1>30, <1>31, <1>32, <1>33, <1>34, <1>35, <1>36, <1>37, <1>38,
       <1>39, <1>40, <1>41, <1>42, <1>43, <1>44 DEF Next, Coroutine, AgentStep, Interruption, DatabaseError, Dispatch,
       Operator, Process

(* Every variable stays in its type (TypeOK).                                *)
THEOREM TypeCorrect == Spec => []TypeOK
  <1>1. Init => TypeOK
    <2> SUFFICES ASSUME Init PROVE TypeOK
      OBVIOUS
    <2>1. FreshRun \in RunLocals
      BY DEF FreshRun, RunLocals
    <2>2. NoReq \in RequestState
      BY DEF RequestState
    <2>3. 0 \in 0..MaxFaults
      BY LimitsAssumption
    <2> QED
      BY <2>1, <2>2, <2>3, SaversAssumption
      DEF Init, TypeOK, Control, NoTask
  <1>2. TypeOK /\ [Next]_vars => TypeOK'
    BY TypeStep
  <1> QED
    BY <1>1, <1>2, PTL DEF Spec

-----------------------------------------------------------------------------
(* The dispatcher *)

\* A cancellation wakes no idle task and launches none.
LEMMA CancelWakesNone ==
    ASSUME TypeOK, NEW S \in SUBSET Task, Cancel(S), NEW t \in Task
    PROVE  /\ pc[t] = "idle" => pc'[t] = "idle"
           /\ pc'[t] = "launched" => pc[t] = "launched"
  BY DEF Cancel, AfterCancel, Body, Handlers

\* Only the dispatcher's launch takes a task out of "idle" or to "launched".
LEMMA OnlyLaunchWakes ==
    ASSUME TypeOK, [Next]_vars, ~DispatchLaunch, NEW u \in Task
    PROVE  /\ pc[u] = "idle" => pc'[u] = "idle"
           /\ pc'[u] = "launched" => pc[u] = "launched"
  <1> DEFINE Asleep == /\ pc[u] = "idle" => pc'[u] = "idle"
                       /\ pc'[u] = "launched" => pc[u] = "launched"
  <1>1. ASSUME NEW t \in Task, Coroutine(t) PROVE Asleep
    BY <1>1 DEF Coroutine, Start, EnterTry, Resolve, ReuseClone, BeginClone,
       FinishClone, BeginStream, AgentReturns, Hold, Complete, WriteFailed,
       WriteParked, WriteInterrupted, Cleanup, ReadHeld, ReadParked, Prune,
       Notified, AfterRun, At, Goto, TypeOK
  <1>2. ASSUME NEW t \in Task, Interruption(t) PROVE Asleep
    BY <1>2 DEF Interruption, RaiseError, RaiseDailyBudget, DatabaseError,
       PreambleFails, OutcomeEventFails, HandlerFails, SweepFails,
       AfterRun, Handlers, At, Goto, TypeOK
  <1>3. ASSUME NEW r \in Requests, CancelRun(r) PROVE Asleep
    <2>1. req[r].task \in Task
      BY <1>3 DEF TypeOK, CancelRun, RequestState, NoReq
    <2> QED
      BY <1>3, <2>1, CancelWakesNone DEF CancelRun
  <1>4. CASE Stop
    BY <1>4, CancelWakesNone DEF Stop
  <1>5. CASE Crash
    BY <1>5 DEF Crash
  <1>6. CASE UNCHANGED pc
    BY <1>6
  <1>7. ASSUME NEW t \in Task, CreateTask(t) \/ AgentStep(t) PROVE UNCHANGED pc
    BY <1>7 DEF CreateTask, AgentStep, AgentCheckpoints, Push
  <1>8. ASSUME DispatchRefuse \/ \E t \in Task : DispatchPick(t)
        PROVE  UNCHANGED pc
    BY <1>8 DEF DispatchRefuse, DispatchPick
  <1>9. ASSUME NEW r \in Requests,
               \/ \E op \in {"cancel", "approve", "reject"}, t \in Task :
                      Ask(r, op, t)
               \/ CancelRow(r) \/ Reject(r) \/ Ship(r) \/ ShipFails(r)
               \/ Approve(r)
        PROVE  UNCHANGED pc
    BY <1>9 DEF Ask, CancelRow, Reject, Ship, ShipFails, Approve
  <1>10. ASSUME ReachCap \/ Midnight \/ Exit \/ Boot PROVE UNCHANGED pc
    BY <1>10 DEF ReachCap, Midnight, Exit, Boot
  <1> QED
    BY <1>1, <1>2, <1>3, <1>4, <1>5, <1>6, <1>7, <1>8, <1>9, <1>10
    DEF Next, Dispatch, Operator, Process, vars

\* The candidate the dispatcher holds is idle and there is a slot for it.
CandidateReady ==
    cand # NoTask => pc[cand] = "idle" /\ Cardinality(Running) < MaxConcurrent

DispatchInv == ConcurrencyCap /\ CandidateReady

LEMMA RunningFinite ==
    ASSUME NEW S \in SUBSET Task
    PROVE  IsFiniteSet(S) /\ Cardinality(S) \in Nat
  <1>1. IsFiniteSet(Task)
    BY NAssumption, 1 \in Int, N \in Int, FS_Interval DEF Task
  <1>2. IsFiniteSet(S)
    BY <1>1, FS_Subset
  <1> QED
    BY <1>2, FS_CardinalityType

\* A step that wakes no task keeps the cap and the candidate's slot.
LEMMA FewerRunning ==
    ASSUME \A u \in Task : pc[u] = "idle" => pc'[u] = "idle"
    PROVE  /\ Running' \subseteq Running
           /\ Cardinality(Running') <= Cardinality(Running)
  <1>1. Running' \subseteq Running
    BY DEF Running
  <1>2. IsFiniteSet(Running)
    BY RunningFinite DEF Running
  <1> QED
    BY <1>1, <1>2, FS_Subset

\* Only a pick names a candidate.
LEMMA OnlyPickNames ==
    ASSUME TypeOK, [Next]_vars, \A t \in Task : ~DispatchPick(t)
    PROVE  cand' \in {cand, NoTask}
  <1>1. ASSUME NEW t \in Task,
               CreateTask(t) \/ Coroutine(t) \/ AgentStep(t) \/ Interruption(t)
        PROVE  UNCHANGED cand
    BY <1>1 DEF CreateTask, Coroutine, Start, EnterTry, Resolve, ReuseClone,
       BeginClone, FinishClone, BeginStream, AgentReturns, Hold, Complete,
       WriteFailed, WriteParked, WriteInterrupted, Cleanup, ReadHeld,
       ReadParked, Prune, Notified, AgentStep, AgentCheckpoints, Push,
       Interruption, RaiseError, RaiseDailyBudget, DatabaseError,
       PreambleFails, OutcomeEventFails, HandlerFails, SweepFails
  <1>2. ASSUME Operator PROVE UNCHANGED cand
    BY <1>2 DEF Operator, Ask, CancelRow, CancelRun, Reject, Ship, ShipFails,
       Approve
  <1>3. ASSUME Process PROVE cand' \in {cand, NoTask}
    BY <1>3 DEF Process, ReachCap, Midnight, Stop, Exit, Crash, Boot
  <1>4. ASSUME DispatchLaunch \/ DispatchRefuse PROVE cand' = NoTask
    BY <1>4 DEF DispatchLaunch, DispatchRefuse
  <1> QED
    BY <1>1, <1>2, <1>3, <1>4 DEF Next, Dispatch, vars

LEMMA DispatchInvInductive ==
    ASSUME TypeOK, DispatchInv, [Next]_vars
    PROVE  DispatchInv'
  <1>1. /\ Cardinality(Running) \in Nat /\ Cardinality(Running') \in Nat
        /\ MaxConcurrent \in Nat
    BY RunningFinite, LimitsAssumption DEF Running
  <1>2. CASE DispatchLaunch
    <2>1. cand \in Task /\ pc[cand] = "idle"
      BY <1>2 DEF DispatchLaunch, DispatchInv, CandidateReady, TypeOK
    <2>2. Running' = Running \cup {cand} /\ cand \notin Running
      BY <1>2, <2>1 DEF DispatchLaunch, Running, TypeOK
    <2>3. Cardinality(Running') = Cardinality(Running) + 1
      BY <2>2, RunningFinite, FS_AddElement DEF Running
    <2>4. Cardinality(Running) < MaxConcurrent /\ cand' = NoTask
      BY <1>2 DEF DispatchLaunch, DispatchInv, CandidateReady
    <2> QED
      BY <2>3, <2>4, <1>1 DEF DispatchInv, ConcurrencyCap, CandidateReady
  <1>3. CASE \E t \in Task : DispatchPick(t)
    <2> PICK t \in Task : DispatchPick(t)
      BY <1>3
    <2>1. Running' = Running
      BY DEF DispatchPick, Running
    <2>2. cand' = t /\ pc'[t] = "idle" /\ Cardinality(Running) < MaxConcurrent
      BY DEF DispatchPick, HasSlot, NotInFlight, Running
    <2> QED
      BY <2>1, <2>2 DEF DispatchInv, ConcurrencyCap, CandidateReady
  <1>4. CASE ~DispatchLaunch /\ \A t \in Task : ~DispatchPick(t)
    <2>1. \A u \in Task : pc[u] = "idle" => pc'[u] = "idle"
      BY <1>4, OnlyLaunchWakes
    <2>2. Cardinality(Running') <= Cardinality(Running)
      BY <2>1, FewerRunning
    <2>3. cand' \in {cand, NoTask} /\ cand \in Task \cup {NoTask}
      BY <1>4, OnlyPickNames DEF TypeOK
    <2> QED
      BY <1>1, <2>1, <2>2, <2>3
      DEF DispatchInv, ConcurrencyCap, CandidateReady
  <1> QED
    BY <1>2, <1>3, <1>4

LEMMA DispatchInvariant == Spec => []DispatchInv
  <1>1. Init => DispatchInv
    <2> SUFFICES ASSUME Init PROVE DispatchInv
      OBVIOUS
    <2>1. Running = {}
      BY DEF Init, Running
    <2> QED
      BY <2>1, FS_EmptySet, LimitsAssumption
      DEF Init, DispatchInv, ConcurrencyCap, CandidateReady
  <1> QED
    BY <1>1, DispatchInvInductive, TypeCorrect, PTL DEF Spec

(* No more than MaxConcurrent coroutines ever exist (ConcurrencyCap), though  *)
(* the dispatcher counts them two awaits before it launches.                  *)
THEOREM CapHolds == Spec => []ConcurrencyCap
  <1>1. DispatchInv => ConcurrencyCap
    BY DEF DispatchInv
  <1> QED
    BY <1>1, DispatchInvariant, PTL

(* No task is launched while an earlier run of it is alive (LaunchFindsIdle). *)
THEOREM NoSecondRun == Spec => LaunchFindsIdle
  <1> DEFINE Step == \A t \in Task :
                        pc[t] # "launched" /\ pc'[t] = "launched"
                            => pc[t] = "idle"
  <1>1. TypeOK /\ DispatchInv /\ [Next]_vars => [Step]_vars
    <2> SUFFICES ASSUME TypeOK, DispatchInv, [Next]_vars, NEW t \in Task,
                        pc[t] # "launched", pc'[t] = "launched"
                 PROVE  pc[t] = "idle"
      OBVIOUS
    <2>1. DispatchLaunch
      BY OnlyLaunchWakes
    <2>2. t = cand
      BY <2>1 DEF DispatchLaunch, TypeOK
    <2> QED
      BY <2>1, <2>2 DEF DispatchLaunch, DispatchInv, CandidateReady
  <1> QED
    BY <1>1, TypeCorrect, DispatchInvariant, PTL DEF Spec, LaunchFindsIdle

-----------------------------------------------------------------------------
(* Rows and runners *)

\* Requests are only those the environment makes.
NoCancelRequest == \A r \in Requests : req[r].op # "cancel"

LEMMA CancelIsNotAsked ==
    ASSUME "cancel" \notin Environment, NoCancelRequest, [Next]_vars, TypeOK
    PROVE  NoCancelRequest'
  <1> USE DEF NoCancelRequest
  <1>1. ASSUME NEW r \in Requests, NEW u \in Task,
               NEW op \in {"cancel", "approve", "reject"}, Ask(r, op, u)
        PROVE  NoCancelRequest'
    BY <1>1 DEF Ask, TypeOK
  <1>2. ASSUME NEW r \in Requests,
               \/ CancelRow(r) \/ CancelRun(r) \/ Reject(r) \/ ShipFails(r)
               \/ Approve(r)
        PROVE  NoCancelRequest'
    BY <1>2 DEF CancelRow, CancelRun, Reject, ShipFails, Approve, Answer, NoReq,
       TypeOK
  <1>3. ASSUME NEW r \in Requests, Ship(r) PROVE NoCancelRequest'
    BY <1>3 DEF Ship, TypeOK, RequestState, NoReq
  <1>4. CASE Crash
    BY <1>4 DEF Crash, NoReq
  <1>5. CASE UNCHANGED req
    BY <1>5
  <1>6. ASSUME Process, ~Crash PROVE UNCHANGED req
    BY <1>6 DEF Process, ReachCap, Midnight, Stop, Exit, Boot
  <1>7. ASSUME Dispatch PROVE UNCHANGED req
    BY <1>7 DEF Dispatch, DispatchPick, DispatchLaunch, DispatchRefuse
  <1>8. ASSUME NEW u \in Task,
               CreateTask(u) \/ Coroutine(u) \/ AgentStep(u) \/ Interruption(u)
        PROVE  UNCHANGED req
    BY <1>8 DEF CreateTask, Coroutine, Start, EnterTry, Resolve, ReuseClone,
       BeginClone, FinishClone, BeginStream, AgentReturns, Hold, Complete,
       WriteFailed, WriteParked, WriteInterrupted, Cleanup, ReadHeld,
       ReadParked, Prune, Notified, AgentStep, AgentCheckpoints, Push,
       Interruption, RaiseError, RaiseDailyBudget, DatabaseError,
       PreambleFails, OutcomeEventFails, HandlerFails, SweepFails
  <1> QED
    BY <1>1, <1>2, <1>3, <1>4, <1>5, <1>6, <1>7, <1>8 DEF Next, Operator, vars

\* A running row has a coroutine that has still to write its outcome.
RunnerFor(t) ==
    up = "up" /\ status[t] = "running" =>
        pc[t] \in {"starting", "resolving", "opening", "cloning", "setup",
                   "streaming", "wrapping", "parking", "failing"}

LEMMA RunnerStep ==
    ASSUME TypeOK, DispatchInv, NoCancelRequest, [Next]_vars,
           "dberror" \notin Environment, NEW t \in Task, RunnerFor(t)
    PROVE  RunnerFor(t)'
  <1> USE DEF RunnerFor
  <1>0. ASSUME NEW r \in Requests PROVE req[r].op # "cancel"
    BY <1>0 DEF NoCancelRequest
  <1>1. ASSUME NEW u \in Task, CreateTask(u) PROVE RunnerFor(t)'
    BY <1>1 DEF TypeOK, CreateTask
  <1>2. ASSUME NEW u \in Task, Start(u) PROVE RunnerFor(t)'
    BY <1>2 DEF TypeOK, Start, At, Goto
  <1>3. ASSUME NEW u \in Task, EnterTry(u) PROVE RunnerFor(t)'
    BY <1>3 DEF TypeOK, EnterTry, At, Goto
  <1>4. ASSUME NEW u \in Task, Resolve(u) PROVE RunnerFor(t)'
    BY <1>4 DEF TypeOK, Resolve, At, Goto
  <1>5. ASSUME NEW u \in Task, ReuseClone(u) PROVE RunnerFor(t)'
    BY <1>5 DEF TypeOK, ReuseClone, At, Goto
  <1>6. ASSUME NEW u \in Task, BeginClone(u) PROVE RunnerFor(t)'
    BY <1>6 DEF TypeOK, BeginClone, At, Goto
  <1>7. ASSUME NEW u \in Task, FinishClone(u) PROVE RunnerFor(t)'
    BY <1>7 DEF TypeOK, FinishClone, At, Goto
  <1>8. ASSUME NEW u \in Task, BeginStream(u) PROVE RunnerFor(t)'
    BY <1>8 DEF TypeOK, BeginStream, At, Goto
  <1>9. ASSUME NEW u \in Task, AgentReturns(u) PROVE RunnerFor(t)'
    BY <1>9 DEF TypeOK, AgentReturns, At, Goto
  <1>10. ASSUME NEW u \in Task, Hold(u) PROVE RunnerFor(t)'
    BY <1>10 DEF TypeOK, Hold, At, Goto
  <1>11. ASSUME NEW u \in Task, Complete(u) PROVE RunnerFor(t)'
    BY <1>11 DEF TypeOK, Complete, At, Goto
  <1>12. ASSUME NEW u \in Task, WriteFailed(u) PROVE RunnerFor(t)'
    BY <1>12 DEF TypeOK, WriteFailed, At, Goto
  <1>13. ASSUME NEW u \in Task, WriteParked(u) PROVE RunnerFor(t)'
    BY <1>13 DEF TypeOK, WriteParked, At, Goto
  <1>14. ASSUME NEW u \in Task, WriteInterrupted(u) PROVE RunnerFor(t)'
    BY <1>14 DEF TypeOK, WriteInterrupted, At, Goto
  <1>15. ASSUME NEW u \in Task, Cleanup(u) PROVE RunnerFor(t)'
    BY <1>15 DEF TypeOK, Cleanup, At, Goto
  <1>16. ASSUME NEW u \in Task, ReadHeld(u) PROVE RunnerFor(t)'
    BY <1>16 DEF TypeOK, ReadHeld, At, Goto
  <1>17. ASSUME NEW u \in Task, ReadParked(u) PROVE RunnerFor(t)'
    BY <1>17 DEF TypeOK, ReadParked, At, Goto
  <1>18. ASSUME NEW u \in Task, Prune(u) PROVE RunnerFor(t)'
    BY <1>18 DEF TypeOK, Prune, AfterRun, At, Goto
  <1>19. ASSUME NEW u \in Task, Notified(u) PROVE RunnerFor(t)'
    BY <1>19 DEF TypeOK, Notified, At, Goto
  <1>20. ASSUME NEW u \in Task, AgentCheckpoints(u) PROVE RunnerFor(t)'
    BY <1>20 DEF TypeOK, AgentCheckpoints
  <1>21. ASSUME NEW u \in Task, Push(u) PROVE RunnerFor(t)'
    BY <1>21 DEF TypeOK, Push
  <1>22. ASSUME NEW u \in Task, RaiseError(u) PROVE RunnerFor(t)'
    BY <1>22 DEF TypeOK, RaiseError, At, Goto
  <1>23. ASSUME NEW u \in Task, RaiseDailyBudget(u) PROVE RunnerFor(t)'
    BY <1>23 DEF TypeOK, RaiseDailyBudget, At, Goto
  <1>24. ASSUME NEW u \in Task, DispatchPick(u) PROVE RunnerFor(t)'
    BY <1>24 DEF TypeOK, DispatchPick
  <1>25. ASSUME NEW r \in Requests, NEW u \in Task,
                NEW op \in {"cancel", "approve", "reject"}, Ask(r, op, u)
        PROVE  RunnerFor(t)'
    BY <1>25 DEF TypeOK, Ask
  <1>26. ASSUME NEW r \in Requests, CancelRow(r) PROVE RunnerFor(t)'
    BY <1>26 DEF TypeOK, CancelRow, SetStatus
  <1>27. ASSUME NEW r \in Requests, CancelRun(r) PROVE RunnerFor(t)'
    BY <1>27, <1>0 DEF CancelRun
  <1>28. ASSUME NEW r \in Requests, Reject(r) PROVE RunnerFor(t)'
    BY <1>28 DEF TypeOK, Reject, SetStatus
  <1>29. ASSUME NEW r \in Requests, Ship(r) PROVE RunnerFor(t)'
    BY <1>29 DEF TypeOK, Ship
  <1>30. ASSUME NEW r \in Requests, ShipFails(r) PROVE RunnerFor(t)'
    BY <1>30 DEF TypeOK, ShipFails
  <1>31. ASSUME NEW r \in Requests, Approve(r) PROVE RunnerFor(t)'
    BY <1>31 DEF TypeOK, Approve, SetStatus
  <1>32. CASE DispatchLaunch
    BY <1>32 DEF TypeOK, DispatchLaunch, DispatchInv, CandidateReady
  <1>33. CASE DispatchRefuse
    BY <1>33 DEF TypeOK, DispatchRefuse
  <1>34. CASE ReachCap
    BY <1>34 DEF TypeOK, ReachCap
  <1>35. CASE Midnight
    BY <1>35 DEF TypeOK, Midnight
  <1>36. CASE Stop
    BY <1>36 DEF Stop
  <1>37. CASE Exit
    BY <1>37 DEF Exit
  <1>38. CASE Crash
    BY <1>38 DEF Crash
  <1>39. CASE Boot
    BY <1>39 DEF TypeOK, Boot, RowAfterBoot
  <1>40. CASE UNCHANGED vars
    BY <1>40 DEF TypeOK, vars
  <1>41. ASSUME NEW u \in Task, PreambleFails(u) PROVE RunnerFor(t)'
    BY <1>41 DEF TypeOK, PreambleFails, DatabaseFault, At, Goto
  <1>42. ASSUME NEW u \in Task, OutcomeEventFails(u) PROVE RunnerFor(t)'
    BY <1>42 DEF TypeOK, OutcomeEventFails, DatabaseFault, At, Goto
  <1>43. ASSUME NEW u \in Task, HandlerFails(u) PROVE RunnerFor(t)'
    BY <1>43 DEF TypeOK, HandlerFails, DatabaseFault, At, Goto, KeepsOnError, Handlers
  <1>44. ASSUME NEW u \in Task, SweepFails(u) PROVE RunnerFor(t)'
    BY <1>44 DEF TypeOK, SweepFails, DatabaseFault, At, Goto, AfterRun
  <1> QED
    BY <1>1, <1>2, <1>3, <1>4, <1>5, <1>6, <1>7, <1>8, <1>9, <1>10, <1>11,
       <1>12, <1>13, <1>14, <1>15, <1>16, <1>17, <1>18, <1>19, <1>20, <1>21,
       <1>22, <1>23, <1>24, <1>25, <1>26, <1>27, <1>28, <1>29, <1>30, <1>31,
       <1>32, <1>33, <1>34, <1>35, <1>36, <1>37, <1>38, <1>39, <1>40,
       <1>41, <1>42, <1>43, <1>44
    DEF Next, Coroutine, AgentStep, Interruption, DatabaseError, Dispatch, Operator, Process

(* Where nobody cancels and the database takes its writes, no crash,         *)
(* shutdown, cap or restart leaves a running row without the coroutine that  *)
(* is to end it (RunningRowHasRunner).                                       *)
THEOREM NoOrphan ==
    ASSUME "cancel" \notin Environment, "dberror" \notin Environment
    PROVE  Spec => []RunningRowHasRunner
  <1> DEFINE RunnerInv == \A t \in Task : RunnerFor(t)
  <1>1. Init => NoCancelRequest /\ RunnerInv
    BY DEF Init, NoCancelRequest, NoReq, RunnerFor
  <1>2. TypeOK /\ NoCancelRequest /\ [Next]_vars => NoCancelRequest'
    BY CancelIsNotAsked
  <1>3. TypeOK /\ DispatchInv /\ NoCancelRequest /\ RunnerInv /\ [Next]_vars
            => RunnerInv'
    BY RunnerStep
  <1>4. RunnerInv => RunningRowHasRunner
    BY DEF RunnerFor, RunningRowHasRunner, Body
  <1> HIDE DEF RunnerInv
  <1> QED
    BY <1>1, <1>2, <1>3, <1>4, TypeCorrect, DispatchInvariant, PTL DEF Spec

-----------------------------------------------------------------------------
(* Held work, whoever asks what *)

\* The run that held a task has written its outcome, and no new one begins.
AfterHold == {"idle", "held", "cancelling", "failing", "failed", "interrupted",
              "cleanup", "reading", "pruning", "notifying"}
RunIsOver(t) == pc[t] \in AfterHold /\ cand # t
Decided == {"awaiting_approval"} \cup Terminal

HeldFits(t) == status[t] = "awaiting_approval" => RunIsOver(t)
ApprovalFits(r) ==
    req[r].op \in {"approve", "ship"} =>
        /\ up = "up"
        /\ status[req[r].task] \in Decided
        /\ RunIsOver(req[r].task)
HeldInv ==
    /\ \A t \in Task : HeldFits(t)
    /\ \A r \in Requests : ApprovalFits(r)

\* Only a run's own Hold makes a row held.
LEMMA OnlyHoldHolds ==
    ASSUME TypeOK, [Next]_vars, NEW t \in Task,
           status[t] # "awaiting_approval", status'[t] = "awaiting_approval"
    PROVE  Hold(t)
  <1>1. ASSUME NEW u \in Task,
               \/ CreateTask(u) \/ AgentStep(u) \/ Interruption(u)
        PROVE  status'[t] # "awaiting_approval"
    BY <1>1 DEF TypeOK, CreateTask, AgentStep, AgentCheckpoints, Push, Interruption,
       RaiseError, RaiseDailyBudget, DatabaseError, PreambleFails,
       OutcomeEventFails, HandlerFails, SweepFails
  <1>2. ASSUME NEW u \in Task, Coroutine(u), u # t \/ ~Hold(u)
        PROVE  status'[t] # "awaiting_approval"
    BY <1>2 DEF TypeOK, Coroutine, Start, EnterTry, Resolve, ReuseClone, BeginClone,
       FinishClone, BeginStream, AgentReturns, Hold, Complete, WriteFailed,
       WriteParked, WriteInterrupted, Cleanup, ReadHeld, ReadParked, Prune,
       Notified
  <1>3. ASSUME Operator PROVE status'[t] # "awaiting_approval"
    BY <1>3 DEF TypeOK, Operator, Ask, CancelRow, CancelRun, Reject, Ship, ShipFails,
       Approve, SetStatus
  <1>4. ASSUME Process PROVE status'[t] # "awaiting_approval"
    BY <1>4 DEF TypeOK, Process, ReachCap, Midnight, Stop, Exit, Crash, Boot,
       RowAfterBoot
  <1>5. ASSUME Dispatch \/ UNCHANGED vars PROVE status'[t] # "awaiting_approval"
    BY <1>5 DEF Dispatch, DispatchPick, DispatchLaunch, DispatchRefuse, vars
  <1> QED
    BY <1>1, <1>2, <1>3, <1>4, <1>5 DEF Next

\* A run that is over stays over while its row is not queued.
LEMMA OverStays ==
    ASSUME TypeOK, [Next]_vars, NEW t \in Task, RunIsOver(t), status[t] # "queued"
    PROVE  RunIsOver(t)'
  <1> USE DEF RunIsOver, AfterHold
  <1>0. t # NoTask
    BY NAssumption DEF NoTask, Task
  <1>1. ASSUME NEW u \in Task,
               CreateTask(u) \/ AgentStep(u) \/ Interruption(u)
        PROVE  RunIsOver(t)'
    BY <1>1 DEF TypeOK, CreateTask, AgentStep, AgentCheckpoints, Push, Interruption,
       RaiseError, RaiseDailyBudget, DatabaseError, PreambleFails,
       OutcomeEventFails, HandlerFails, SweepFails, AfterRun, Handlers, Goto, At
  <1>2. ASSUME NEW u \in Task, Coroutine(u) PROVE RunIsOver(t)'
    BY <1>2 DEF TypeOK, Coroutine, Start, EnterTry, Resolve, ReuseClone, BeginClone,
       FinishClone, BeginStream, AgentReturns, Hold, Complete, WriteFailed,
       WriteParked, WriteInterrupted, Cleanup, ReadHeld, ReadParked, Prune,
       Notified, AfterRun, Goto, At
  <1>3. ASSUME NEW S \in SUBSET Task, Cancel(S) PROVE pc'[t] \in AfterHold
    BY <1>3 DEF Cancel, AfterCancel, Body, Handlers
  <1>4. ASSUME NEW r \in Requests, CancelRun(r) PROVE RunIsOver(t)'
    <2>1. req[r].task \in Task
      BY <1>4 DEF TypeOK, CancelRun, RequestState, NoReq
    <2> QED
      BY <1>3, <1>4, <2>1 DEF CancelRun
  <1>5. ASSUME NEW r \in Requests,
               \/ \E op \in {"cancel", "approve", "reject"}, u \in Task :
                      Ask(r, op, u)
               \/ CancelRow(r) \/ Reject(r) \/ Ship(r) \/ ShipFails(r)
               \/ Approve(r)
        PROVE  RunIsOver(t)'
    BY <1>5 DEF Ask, CancelRow, Reject, Ship, ShipFails, Approve
  <1>6. CASE Stop
    <2>1. pc'[t] \in AfterHold
      BY <1>3, <1>6 DEF Stop
    <2> QED
      BY <1>0, <1>6, <2>1 DEF Stop
  <1>7. CASE ReachCap \/ Midnight \/ Exit \/ Crash \/ Boot
    BY <1>0, <1>7 DEF ReachCap, Midnight, Exit, Crash, Boot
  <1>8. CASE Dispatch \/ UNCHANGED vars
    BY <1>0, <1>8 DEF TypeOK, Dispatch, DispatchPick, OldestQueued,
       DispatchLaunch, DispatchRefuse, vars
  <1> QED
    BY <1>1, <1>2, <1>4, <1>5, <1>6, <1>7, <1>8 DEF Next, Operator, Process

\* While the server is up, a row that was held and whose run is over only goes
\* from one decision to another.
LEMMA DecidedStays ==
    ASSUME TypeOK, [Next]_vars, NEW t \in Task, RunIsOver(t), up = "up",
           status[t] \in Decided
    PROVE  status'[t] \in Decided
  <1> USE DEF RunIsOver, AfterHold, Decided, Terminal
  <1>1. ASSUME NEW u \in Task,
               CreateTask(u) \/ AgentStep(u) \/ Interruption(u)
        PROVE  status'[t] \in Decided
    BY <1>1 DEF TypeOK, CreateTask, AgentStep, AgentCheckpoints, Push, Interruption,
       RaiseError, RaiseDailyBudget, DatabaseError, PreambleFails,
       OutcomeEventFails, HandlerFails, SweepFails
  <1>2. ASSUME NEW u \in Task, Coroutine(u) PROVE status'[t] \in Decided
    BY <1>2 DEF TypeOK, Coroutine, Start, EnterTry, Resolve, ReuseClone, BeginClone,
       FinishClone, BeginStream, AgentReturns, Hold, Complete, WriteFailed,
       WriteParked, WriteInterrupted, ParksOnShutdown, Cleanup, ReadHeld,
       ReadParked, Prune, Notified, At
  <1>3. ASSUME Operator PROVE status'[t] \in Decided
    BY <1>3 DEF TypeOK, Operator, Ask, CancelRow, CancelRun, Reject, Ship, ShipFails,
       Approve, SetStatus
  <1>4. ASSUME Process PROVE status'[t] \in Decided
    BY <1>4 DEF Process, ReachCap, Midnight, Stop, Exit, Crash, Boot
  <1>5. ASSUME Dispatch \/ UNCHANGED vars PROVE status'[t] \in Decided
    BY <1>5 DEF Dispatch, DispatchPick, DispatchLaunch, DispatchRefuse, vars
  <1> QED
    BY <1>1, <1>2, <1>3, <1>4, <1>5 DEF Next

\* An approval in flight was asked for a held row, in this step or before it.
LEMMA ApprovalComes ==
    ASSUME TypeOK, [Next]_vars, NEW r \in Requests,
           req'[r].op \in {"approve", "ship"}
    PROVE  \/ /\ req[r].op \in {"approve", "ship"} /\ req'[r].task = req[r].task
              /\ ~Stop /\ ~Crash
           \/ \E t \in Task : Ask(r, "approve", t)
  <1> DEFINE Kept == /\ req[r].op \in {"approve", "ship"}
                     /\ req'[r].task = req[r].task
                     /\ ~Stop /\ ~Crash
             Asked == \E t \in Task : Ask(r, "approve", t)
  <1>0. CASE Stop \/ Crash
    BY <1>0 DEF Stop, Crash, NoReq
  <1>1. CASE req' = req /\ ~Stop /\ ~Crash
    BY <1>1
  <1>2. ASSUME NEW q \in Requests, NEW t \in Task,
               NEW op \in {"cancel", "approve", "reject"}, Ask(q, op, t),
               ~Stop, ~Crash
        PROVE  Kept \/ Asked
    BY <1>2 DEF TypeOK, Ask
  <1>3. ASSUME NEW q \in Requests, ~Stop, ~Crash,
               CancelRow(q) \/ CancelRun(q) \/ Reject(q) \/ ShipFails(q) \/ Approve(q)
        PROVE  Kept
    BY <1>3 DEF TypeOK, CancelRow, CancelRun, Reject, ShipFails, Approve, Answer, NoReq
  <1>4. ASSUME NEW q \in Requests, Ship(q), ~Stop, ~Crash PROVE Kept
    <2>1. req[q] \in RequestState
      BY DEF TypeOK
    <2> QED
      BY <1>4, <2>1 DEF TypeOK, Ship, RequestState, NoReq
  <1>5. ASSUME NEW u \in Task,
               CreateTask(u) \/ Coroutine(u) \/ AgentStep(u) \/ Interruption(u)
        PROVE  req' = req
    BY <1>5 DEF CreateTask, Coroutine, Start, EnterTry, Resolve, ReuseClone,
       BeginClone, FinishClone, BeginStream, AgentReturns, Hold, Complete,
       WriteFailed, WriteParked, WriteInterrupted, Cleanup, ReadHeld,
       ReadParked, Prune, Notified, AgentStep, AgentCheckpoints, Push,
       Interruption, RaiseError, RaiseDailyBudget, DatabaseError,
       PreambleFails, OutcomeEventFails, HandlerFails, SweepFails
  <1>6. ASSUME \/ Dispatch \/ UNCHANGED vars \/ ReachCap \/ Midnight \/ Exit \/ Boot
        PROVE  req' = req
    BY <1>6 DEF Dispatch, DispatchPick, DispatchLaunch, DispatchRefuse, vars,
       ReachCap, Midnight, Exit, Boot
  <1> QED
    BY <1>0, <1>1, <1>2, <1>3, <1>4, <1>5, <1>6 DEF Next, Operator, Process

LEMMA HeldStep ==
    ASSUME TypeOK, CandidateReady, HeldInv, [Next]_vars
    PROVE  HeldInv'
  <1>1. ASSUME NEW t \in Task PROVE HeldFits(t)'
    <2>1. CASE status[t] = "awaiting_approval"
      BY <2>1, OverStays DEF HeldInv, HeldFits
    <2>2. CASE status[t] # "awaiting_approval" /\ status'[t] = "awaiting_approval"
      <3>1. Hold(t)
        BY <2>2, OnlyHoldHolds
      <3>2. cand # t
        BY <3>1 DEF Hold, At, CandidateReady, NoTask, Task
      <3> QED
        BY <3>1, <3>2 DEF HeldFits, RunIsOver, AfterHold, Hold, Goto, TypeOK
    <2> QED
      BY <2>1, <2>2 DEF HeldFits
  <1>2. ASSUME NEW r \in Requests, req'[r].op \in {"approve", "ship"}
        PROVE  \E t \in Task : /\ t = req'[r].task
                              /\ up' = "up" /\ status'[t] \in Decided
                              /\ pc'[t] \in AfterHold /\ cand' # t
    <2>1. CASE /\ req[r].op \in {"approve", "ship"} /\ req'[r].task = req[r].task
               /\ ~Stop /\ ~Crash
      <3>0. /\ req[r].task \in Task /\ up = "up"
            /\ status[req[r].task] \in Decided /\ RunIsOver(req[r].task)
        BY <2>1 DEF TypeOK, RequestState, NoReq, HeldInv, ApprovalFits
      <3> PICK t \in Task : t = req[r].task
        BY <3>0
      <3>1. up = "up" /\ status[t] \in Decided /\ RunIsOver(t)
        BY <3>0
      <3>2. status'[t] \in Decided /\ pc'[t] \in AfterHold /\ cand' # t
        <4>1. status'[t] \in Decided
          BY <3>1, DecidedStays
        <4>2. status[t] # "queued"
          BY <3>1 DEF Decided, Terminal
        <4>3. RunIsOver(t)'
          BY <3>1, <4>2, OverStays
        <4> QED
          BY <4>1, <4>3 DEF RunIsOver
      <3>3. up' = "up"
        <4>1. ASSUME NEW u \in Task,
                     CreateTask(u) \/ Coroutine(u) \/ AgentStep(u)
                     \/ Interruption(u)
              PROVE  UNCHANGED up
          BY <4>1 DEF CreateTask, Coroutine, Start, EnterTry, Resolve, ReuseClone,
             BeginClone, FinishClone, BeginStream, AgentReturns, Hold, Complete,
             WriteFailed, WriteParked, WriteInterrupted, Cleanup, ReadHeld,
             ReadParked, Prune, Notified, AgentStep, AgentCheckpoints, Push,
             Interruption, RaiseError, RaiseDailyBudget, DatabaseError,
             PreambleFails, OutcomeEventFails, HandlerFails, SweepFails
        <4>2. ASSUME Operator \/ Dispatch \/ UNCHANGED vars PROVE UNCHANGED up
          BY <4>2 DEF Operator, Ask, CancelRow, CancelRun, Reject, Ship, ShipFails,
             Approve, Dispatch, DispatchPick, DispatchLaunch, DispatchRefuse, vars
        <4>3. ASSUME Process PROVE up' = "up"
          BY <2>1, <3>1, <4>3 DEF Process, ReachCap, Midnight, Exit, Boot
        <4> QED
          BY <3>1, <4>1, <4>2, <4>3 DEF Next
      <3> QED
        BY <2>1, <3>2, <3>3
    <2>2. CASE \E t \in Task : Ask(r, "approve", t)
      <3> PICK t \in Task : Ask(r, "approve", t)
        BY <2>2
      <3>1. req'[r].task = t /\ status[t] = "awaiting_approval"
        BY DEF Ask, Actionable, TypeOK
      <3>2. RunIsOver(t)
        BY <3>1 DEF HeldInv, HeldFits
      <3>3. up' = "up" /\ UNCHANGED <<status, pc, cand>>
        BY DEF Ask
      <3> QED
        BY <3>1, <3>2, <3>3 DEF RunIsOver, Decided
    <2> QED
      BY <1>2, <2>1, <2>2, ApprovalComes
  <1>3. ASSUME NEW r \in Requests PROVE ApprovalFits(r)'
    BY <1>2 DEF ApprovalFits, RunIsOver
  <1> QED
    BY <1>1, <1>3 DEF HeldInv

LEMMA HeldInvariant == Spec => []HeldInv
  <1>1. Init => HeldInv
    BY DEF Init, HeldInv, HeldFits, ApprovalFits, NoReq
  <1>2. TypeOK /\ DispatchInv /\ HeldInv /\ [Next]_vars => HeldInv'
    BY HeldStep DEF DispatchInv
  <1> QED
    BY <1>1, <1>2, TypeCorrect, DispatchInvariant, PTL DEF Spec

\* What a step adds to shipped: a push the gate lets through, or an approval.
LEMMA ShippingSteps ==
    ASSUME TypeOK, [Next]_vars, NEW t \in Task, t \in shipped' \ shipped
    PROVE  \/ t \notin ApprovalTasks
           \/ \E r \in Requests : req[r].op = "approve" /\ req[r].task = t
  <1>1. ASSUME NEW u \in Task, Push(u) PROVE t \notin ApprovalTasks
    BY <1>1 DEF Push, Pushes
  <1>2. ASSUME NEW r \in Requests, Ship(r)
        PROVE  req[r].op = "approve" /\ req[r].task = t
    BY <1>2 DEF Ship
  <1>3. ASSUME NEW u \in Task, \/ CreateTask(u) \/ Coroutine(u) \/ AgentCheckpoints(u)
                               \/ Interruption(u)
        PROVE  UNCHANGED shipped
    BY <1>3 DEF CreateTask, Coroutine, Start, EnterTry, Resolve, ReuseClone,
       BeginClone, FinishClone, BeginStream, AgentReturns, Hold, Complete,
       WriteFailed, WriteParked, WriteInterrupted, Cleanup, ReadHeld,
       ReadParked, Prune, Notified, AgentCheckpoints, Interruption, RaiseError,
       RaiseDailyBudget, DatabaseError, PreambleFails, OutcomeEventFails,
       HandlerFails, SweepFails
  <1>4. ASSUME NEW r \in Requests,
               \/ \E op \in {"cancel", "approve", "reject"}, u \in Task :
                      Ask(r, op, u)
               \/ CancelRow(r) \/ CancelRun(r) \/ Reject(r) \/ ShipFails(r)
               \/ Approve(r)
        PROVE  UNCHANGED shipped
    BY <1>4 DEF Ask, CancelRow, CancelRun, Reject, ShipFails, Approve
  <1>5. ASSUME Dispatch \/ Process PROVE UNCHANGED shipped
    BY <1>5 DEF Dispatch, DispatchLaunch, DispatchRefuse, DispatchPick, Process,
       ReachCap, Midnight, Stop, Exit, Crash, Boot
  <1> QED
    BY <1>1, <1>2, <1>3, <1>4, <1>5 DEF Next, AgentStep, Operator, vars

(* What needs approval is sent only when its run is over and its row is held *)
(* or was decided (ShipsOnlyHeldWork): through every park, resume, shutdown, *)
(* crash and database error, with any number of cancels, approvals and       *)
(* rejections in flight at once, for any number of tasks and slots.          *)
THEOREM ShipsWhatIsHeld == Spec => ShipsOnlyHeldWork
  <1>1. TypeOK /\ HeldInv /\ [Next]_vars =>
           (\A t \in ApprovalTasks : t \in shipped' \ shipped
                => status[t] \in {"awaiting_approval"} \cup Terminal)
    <2> SUFFICES ASSUME TypeOK, HeldInv, [Next]_vars,
                        NEW t \in ApprovalTasks, t \in shipped' \ shipped
                 PROVE  status[t] \in {"awaiting_approval"} \cup Terminal
      OBVIOUS
    <2>1. TypeOK'
      BY TypeStep
    <2>2. t \in Task
      BY <2>1 DEF TypeOK
    <2>3. PICK r \in Requests : req[r].op = "approve" /\ req[r].task = t
      BY <2>2, ShippingSteps
    <2> QED
      BY <2>3 DEF HeldInv, ApprovalFits, Decided
  <1> QED
    BY <1>1, HeldInvariant, TypeCorrect, PTL DEF Spec, ShipsOnlyHeldWork
=============================================================================
