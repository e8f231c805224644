----------------------- MODULE TaskCheckpoint_proofs ------------------------
(***************************************************************************)
(* When TaskLifecycle deletes a checkpoint or a clone and when it may not:  *)
(* for every number of tasks, slots and requests, retention, environment.   *)
(***************************************************************************)
EXTENDS TaskLifecycle_proofs

-----------------------------------------------------------------------------
(* A fresh start finds an empty thread *)

\* From the resume decision until the agent starts, a run that is not to
\* resume has an empty thread.
CleanFor(t) ==
    pc[t] \in {"opening", "cloning", "setup"} /\ ~run[t].resumed
        => ckpt[t] = "none"
CleanInv == \A t \in Task \ Revisions : CleanFor(t)

LEMMA CancelKeepsClean ==
    ASSUME TypeOK, NEW S \in SUBSET Task, Cancel(S), NEW t \in Task, CleanFor(t)
    PROVE  CleanFor(t)'
  <1>1. CASE t \in S
    BY <1>1 DEF Cancel, AfterCancel, CleanFor, Body, Handlers
  <1>2. CASE t \notin S
    BY <1>2 DEF Cancel, CleanFor
  <1> QED
    BY <1>1, <1>2

\* One step keeps CleanFor of a task that is not a revision.
LEMMA CleanStep ==
    ASSUME TypeOK, [Next]_vars, NEW t \in Task \ Revisions, CleanFor(t)
    PROVE  CleanFor(t)'
  <1> USE DEF CleanFor
  <1>1. ASSUME NEW u \in Task, CreateTask(u) PROVE CleanFor(t)'
    BY <1>1 DEF TypeOK, CreateTask
  <1>2. ASSUME NEW u \in Task, Start(u) PROVE CleanFor(t)'
    BY <1>2 DEF TypeOK, Start, At, Goto
  <1>3. ASSUME NEW u \in Task, EnterTry(u) PROVE CleanFor(t)'
    BY <1>3 DEF TypeOK, EnterTry, At, Goto
  <1>4. ASSUME NEW u \in Task, Resolve(u) PROVE CleanFor(t)'
    BY <1>4 DEF TypeOK, Resolve, At, Goto, RunLocals, CkptOnResolve, IsRevision
  <1>5. ASSUME NEW u \in Task, ReuseClone(u) PROVE CleanFor(t)'
    BY <1>5 DEF TypeOK, ReuseClone, At, Goto
  <1>6. ASSUME NEW u \in Task, BeginClone(u) PROVE CleanFor(t)'
    BY <1>6 DEF TypeOK, BeginClone, At, Goto, Reuses, Stale
  <1>7. ASSUME NEW u \in Task, FinishClone(u) PROVE CleanFor(t)'
    BY <1>7 DEF TypeOK, FinishClone, At, Goto
  <1>8. ASSUME NEW u \in Task, BeginStream(u) PROVE CleanFor(t)'
    BY <1>8 DEF TypeOK, BeginStream, At, Goto
  <1>9. ASSUME NEW u \in Task, AgentReturns(u) PROVE CleanFor(t)'
    BY <1>9 DEF TypeOK, AgentReturns, At, Goto
  <1>10. ASSUME NEW u \in Task, Hold(u) PROVE CleanFor(t)'
    BY <1>10 DEF TypeOK, Hold, At, Goto
  <1>11. ASSUME NEW u \in Task, Complete(u) PROVE CleanFor(t)'
    BY <1>11 DEF TypeOK, Complete, At, Goto
  <1>12. ASSUME NEW u \in Task, WriteFailed(u) PROVE CleanFor(t)'
    BY <1>12 DEF TypeOK, WriteFailed, At, Goto
  <1>13. ASSUME NEW u \in Task, WriteParked(u) PROVE CleanFor(t)'
    BY <1>13 DEF TypeOK, WriteParked, At, Goto
  <1>14. ASSUME NEW u \in Task, WriteInterrupted(u) PROVE CleanFor(t)'
    BY <1>14 DEF TypeOK, WriteInterrupted, At, Goto
  <1>15. ASSUME NEW u \in Task, Cleanup(u) PROVE CleanFor(t)'
    BY <1>15 DEF TypeOK, Cleanup, At, Goto, CkptOnExit
  <1>16. ASSUME NEW u \in Task, ReadHeld(u) PROVE CleanFor(t)'
    BY <1>16 DEF TypeOK, ReadHeld, At, Goto
  <1>17. ASSUME NEW u \in Task, ReadParked(u) PROVE CleanFor(t)'
    BY <1>17 DEF TypeOK, ReadParked, At, Goto
  <1>18. ASSUME NEW u \in Task, Prune(u) PROVE CleanFor(t)'
    BY <1>18 DEF TypeOK, Prune, AfterRun, At, Goto, Stale
  <1>19. ASSUME NEW u \in Task, Notified(u) PROVE CleanFor(t)'
    BY <1>19 DEF TypeOK, Notified, At, Goto
  <1>20. ASSUME NEW u \in Task, AgentCheckpoints(u) PROVE CleanFor(t)'
    BY <1>20 DEF TypeOK, AgentCheckpoints, At
  <1>21. ASSUME NEW u \in Task, Push(u) PROVE CleanFor(t)'
    BY <1>21 DEF TypeOK, Push
  <1>22. ASSUME NEW u \in Task, RaiseError(u) PROVE CleanFor(t)'
    BY <1>22 DEF TypeOK, RaiseError, At, Goto
  <1>23. ASSUME NEW u \in Task, RaiseDailyBudget(u) PROVE CleanFor(t)'
    BY <1>23 DEF TypeOK, RaiseDailyBudget, At, Goto
  <1>24. ASSUME NEW u \in Task, DispatchPick(u) PROVE CleanFor(t)'
    BY <1>24 DEF TypeOK, DispatchPick
  <1>25. ASSUME NEW r \in Requests, NEW u \in Task,
                NEW op \in {"cancel", "approve", "reject"}, Ask(r, op, u)
        PROVE  CleanFor(t)'
    BY <1>25 DEF TypeOK, Ask
  <1>26. ASSUME NEW r \in Requests, CancelRow(r) PROVE CleanFor(t)'
    BY <1>26 DEF TypeOK, CancelRow, SetStatus
  <1>27. ASSUME NEW r \in Requests, CancelRun(r) PROVE CleanFor(t)'
    <2>1. req[r].task \in Task
      BY <1>27 DEF TypeOK, CancelRun, RequestState, NoReq
    <2> QED
      BY <1>27, <2>1, CancelKeepsClean DEF CancelRun
  <1>28. ASSUME NEW r \in Requests, Reject(r) PROVE CleanFor(t)'
    BY <1>28 DEF TypeOK, Reject, SetStatus
  <1>29. ASSUME NEW r \in Requests, Ship(r) PROVE CleanFor(t)'
    BY <1>29 DEF TypeOK, Ship
  <1>30. ASSUME NEW r \in Requests, ShipFails(r) PROVE CleanFor(t)'
    BY <1>30 DEF TypeOK, ShipFails
  <1>31. ASSUME NEW r \in Requests, Approve(r) PROVE CleanFor(t)'
    BY <1>31 DEF TypeOK, Approve, SetStatus
  <1>32. CASE DispatchLaunch
    BY <1>32 DEF TypeOK, DispatchLaunch
  <1>33. CASE DispatchRefuse
    BY <1>33 DEF TypeOK, DispatchRefuse
  <1>34. CASE ReachCap
    BY <1>34 DEF TypeOK, ReachCap
  <1>35. CASE Midnight
    BY <1>35 DEF TypeOK, Midnight
  <1>36. CASE Stop
    BY <1>36, CancelKeepsClean DEF Stop
  <1>37. CASE Exit
    BY <1>37 DEF TypeOK, Exit, CkptOnExitOfProcess
  <1>38. CASE Crash
    BY <1>38 DEF TypeOK, Crash, CkptOnExitOfProcess
  <1>39. CASE Boot
    BY <1>39 DEF TypeOK, Boot
  <1>40. CASE UNCHANGED vars
    BY <1>40 DEF TypeOK, vars
  <1>41. ASSUME NEW u \in Task, PreambleFails(u) PROVE CleanFor(t)'
    BY <1>41 DEF TypeOK, PreambleFails, DatabaseFault, At, Goto
  <1>42. ASSUME NEW u \in Task, OutcomeEventFails(u) PROVE CleanFor(t)'
    BY <1>42 DEF TypeOK, OutcomeEventFails, DatabaseFault, At, Goto
  <1>43. ASSUME NEW u \in Task, HandlerFails(u) PROVE CleanFor(t)'
    BY <1>43 DEF TypeOK, HandlerFails, DatabaseFault, At, Goto, KeepsOnError, Handlers
  <1>44. ASSUME NEW u \in Task, SweepFails(u) PROVE CleanFor(t)'
    BY <1>44 DEF TypeOK, SweepFails, DatabaseFault, At, Goto, AfterRun
  <1> QED
    BY <1>1, <1>2, <1>3, <1>4, <1>5, <1>6, <1>7, <1>8, <1>9, <1>10, <1>11,
       <1>12, <1>13, <1>14, <1>15, <1>16, <1>17, <1>18, <1>19, <1>20, <1>21,
       <1>22, <1>23, <1>24, <1>25, <1>26, <1>27, <1>28, <1>29, <1>30, <1>31,
       <1>32, <1>33, <1>34, <1>35, <1>36, <1>37, <1>38, <1>39, <1>40,
       <1>41, <1>42, <1>43, <1>44
    DEF Next, Coroutine, AgentStep, Interruption, DatabaseError, Dispatch, Operator, Process

(* A run that does not resume hands its agent an empty thread               *)
(* (FreshStartsClean): what an earlier run left was deleted on the way.      *)
THEOREM FreshThread == Spec => []FreshStartsClean
  <1>1. Init => CleanInv
    BY DEF Init, CleanInv, CleanFor
  <1>2. TypeOK /\ CleanInv /\ [Next]_vars => CleanInv'
    BY CleanStep DEF CleanInv
  <1>3. CleanInv => FreshStartsClean
    BY DEF CleanInv, CleanFor, FreshStartsClean
  <1> QED
    BY <1>1, <1>2, <1>3, TypeCorrect, PTL DEF Spec

-----------------------------------------------------------------------------
(* A queued task keeps its checkpoint *)

\* While its row is queued a task is idle, launched, or on its way out of the
\* run that parked it, and that run keeps the checkpoint.
QueuedIsWaiting ==
    \A t \in Task : status[t] = "queued" =>
        pc[t] \in {"idle", "launched", "parked", "interrupted", "cleanup",
                   "reading", "pruning", "notifying"}
ParkingKeeps ==
    \A t \in Task \ Revisions :
        /\ saver = "durable" /\ status[t] = "queued"
        /\ pc[t] \in {"parked", "interrupted"}
        => run[t].keep
AbsentIsIdle ==
    \A t \in Task : status[t] = "absent" => pc[t] = "idle" /\ cand # t
DownIsIdle == up = "down" => \A t \in Task : pc[t] = "idle"

QueueInv == QueuedIsWaiting /\ ParkingKeeps /\ AbsentIsIdle /\ DownIsIdle

(* A handler's record of its way out changes one run's keep flag.            *)
LEMMA HandlerKeep ==
    ASSUME TypeOK, NEW t \in Task, NEW k \in BOOLEAN,
           NEW e \in {"return", "parked", "raised"},
           run' = [run EXCEPT ![t].keep = k, ![t].end = e]
    PROVE  \A v \in Task : run'[v].keep = IF v = t THEN k ELSE run[v].keep
  <1>1. \A v \in Task : run[v] \in RunLocals
    BY DEF TypeOK
  <1>2. DOMAIN run = Task
    BY DEF TypeOK
  <1> QED
    BY <1>1, <1>2 DEF RunLocals

LEMMA CancelKeepsQueue ==
    ASSUME TypeOK, QueueInv, NEW S \in SUBSET Task, Cancel(S),
           UNCHANGED <<saver, status>>, cand' \in {cand, NoTask},
           up' = "stopping" \/ up' = up
    PROVE  QueueInv'
  <1> USE DEF TypeOK, QueueInv
  <1>1. QueuedIsWaiting'
    BY DEF QueuedIsWaiting, Cancel, AfterCancel, Body, Handlers
  <1>2. ParkingKeeps'
    BY DEF ParkingKeeps, QueuedIsWaiting, Cancel, AfterCancel, Body, Handlers
  <1>3. AbsentIsIdle'
    BY DEF AbsentIsIdle, Cancel, AfterCancel, Body, Handlers, NoTask, Task
  <1>4. DownIsIdle'
    BY DEF DownIsIdle, Cancel, AfterCancel, Body, Handlers
  <1> QED
    BY <1>1, <1>2, <1>3, <1>4

LEMMA QueueStep ==
    ASSUME TypeOK, QueueInv, [Next]_vars
    PROVE  QueueInv'
  <1> USE DEF TypeOK, QueueInv, QueuedIsWaiting, ParkingKeeps, AbsentIsIdle,
          DownIsIdle
  <1>1. ASSUME NEW u \in Task, CreateTask(u) PROVE QueueInv'
    BY <1>1 DEF CreateTask
  <1>2. ASSUME NEW u \in Task, Start(u) PROVE QueueInv'
    BY <1>2 DEF Start, At, Goto
  <1>3. ASSUME NEW u \in Task, EnterTry(u) PROVE QueueInv'
    BY <1>3 DEF EnterTry, At, Goto
  <1>4. ASSUME NEW u \in Task, Resolve(u) PROVE QueueInv'
    BY <1>4 DEF Resolve, At, Goto, RunLocals
  <1>5. ASSUME NEW u \in Task, ReuseClone(u) PROVE QueueInv'
    BY <1>5 DEF ReuseClone, At, Goto
  <1>6. ASSUME NEW u \in Task, BeginClone(u) PROVE QueueInv'
    BY <1>6 DEF BeginClone, At, Goto
  <1>7. ASSUME NEW u \in Task, FinishClone(u) PROVE QueueInv'
    BY <1>7 DEF FinishClone, At, Goto
  <1>8. ASSUME NEW u \in Task, BeginStream(u) PROVE QueueInv'
    BY <1>8 DEF BeginStream, At, Goto
  <1>9. ASSUME NEW u \in Task, AgentReturns(u) PROVE QueueInv'
    BY <1>9 DEF AgentReturns, At, Goto
  <1>10. ASSUME NEW u \in Task, Hold(u) PROVE QueueInv'
    BY <1>10 DEF Hold, At, Goto
  <1>11. ASSUME NEW u \in Task, Complete(u) PROVE QueueInv'
    BY <1>11 DEF Complete, At, Goto
  <1>12. ASSUME NEW u \in Task, WriteFailed(u) PROVE QueueInv'
    BY <1>12 DEF WriteFailed, At, Goto
  <1>13. ASSUME NEW u \in Task, WriteParked(u) PROVE QueueInv'
    <2>1. KeepsCheckpoint(u) = (saver # "none" /\ u \notin Revisions)
      BY DEF KeepsCheckpoint, IsRevision
    <2> HIDE DEF TypeOK, QueueInv, QueuedIsWaiting, ParkingKeeps, AbsentIsIdle,
             DownIsIdle
    <2>2. \A v \in Task :
              run'[v].keep = IF v = u THEN KeepsCheckpoint(u) ELSE run[v].keep
      <3>1. KeepsCheckpoint(u) \in BOOLEAN
        BY <2>1
      <3>2. run' = [run EXCEPT ![u].keep = KeepsCheckpoint(u),
                               ![u].end = "parked"]
        BY <1>13 DEF WriteParked
      <3> QED
        BY <3>1, <3>2, HandlerKeep
    <2>3. /\ pc' = [pc EXCEPT ![u] = "parked"]
          /\ status' = [status EXCEPT ![u] = "queued"]
          /\ pc[u] = "parking"
          /\ UNCHANGED <<up, saver, cand>>
      BY <1>13 DEF WriteParked, At, Goto
    <2>4. /\ DOMAIN pc = Task /\ DOMAIN status = Task
      BY DEF TypeOK
    <2>5. QueuedIsWaiting'
      BY <2>3, <2>4 DEF QueueInv, QueuedIsWaiting
    <2>6. ParkingKeeps'
      BY <2>1, <2>2, <2>3, <2>4 DEF QueueInv, ParkingKeeps
    <2>7. AbsentIsIdle'
      BY <2>3, <2>4 DEF QueueInv, AbsentIsIdle
    <2>8. DownIsIdle'
      BY <2>3, <2>4 DEF QueueInv, DownIsIdle
    <2> QED
      BY <2>5, <2>6, <2>7, <2>8 DEF QueueInv
  <1>14. ASSUME NEW u \in Task, WriteInterrupted(u) PROVE QueueInv'
    <2>1. ParksOnShutdown(u)
              = (up = "stopping" /\ saver # "none" /\ u \notin Revisions)
      BY DEF ParksOnShutdown, KeepsCheckpoint, IsRevision
    <2> HIDE DEF TypeOK, QueueInv, QueuedIsWaiting, ParkingKeeps, AbsentIsIdle,
             DownIsIdle
    <2>2. \A v \in Task :
              run'[v].keep = IF v = u THEN ParksOnShutdown(u) ELSE run[v].keep
      <3>1. ParksOnShutdown(u) \in BOOLEAN
        BY <2>1
      <3>2. run' = [run EXCEPT ![u].keep = ParksOnShutdown(u),
                               ![u].end = "raised"]
        BY <1>14 DEF WriteInterrupted
      <3> QED
        BY <3>1, <3>2, HandlerKeep
    <2>3. /\ pc' = [pc EXCEPT ![u] = "interrupted"]
          /\ status' = [status EXCEPT ![u] = IF ParksOnShutdown(u)
                                             THEN "queued" ELSE "cancelled"]
          /\ pc[u] = "cancelling"
          /\ UNCHANGED <<up, saver, cand>>
      BY <1>14 DEF WriteInterrupted, At, Goto
    <2>4. /\ DOMAIN pc = Task /\ DOMAIN status = Task
      BY DEF TypeOK
    <2>5. QueuedIsWaiting'
      BY <2>3, <2>4 DEF QueueInv, QueuedIsWaiting
    <2>6. ParkingKeeps'
      BY <2>1, <2>2, <2>3, <2>4 DEF QueueInv, ParkingKeeps
    <2>7. AbsentIsIdle'
      BY <2>3, <2>4 DEF QueueInv, AbsentIsIdle
    <2>8. DownIsIdle'
      BY <2>3, <2>4 DEF QueueInv, DownIsIdle
    <2> QED
      BY <2>5, <2>6, <2>7, <2>8 DEF QueueInv
  <1>15. ASSUME NEW u \in Task, Cleanup(u) PROVE QueueInv'
    BY <1>15 DEF Cleanup, At, Goto
  <1>16. ASSUME NEW u \in Task, ReadHeld(u) PROVE QueueInv'
    BY <1>16 DEF ReadHeld, At, Goto, RunLocals
  <1>17. ASSUME NEW u \in Task, ReadParked(u) PROVE QueueInv'
    BY <1>17 DEF ReadParked, At, Goto, RunLocals
  <1>18. ASSUME NEW u \in Task, Prune(u) PROVE QueueInv'
    BY <1>18 DEF Prune, AfterRun, At, Goto, RunLocals, FreshRun
  <1>19. ASSUME NEW u \in Task, Notified(u) PROVE QueueInv'
    BY <1>19 DEF Notified, At, Goto
  <1>20. ASSUME NEW u \in Task, AgentCheckpoints(u) PROVE QueueInv'
    BY <1>20 DEF AgentCheckpoints
  <1>21. ASSUME NEW u \in Task, Push(u) PROVE QueueInv'
    BY <1>21 DEF Push
  <1>22. ASSUME NEW u \in Task, RaiseError(u) PROVE QueueInv'
    BY <1>22 DEF RaiseError, At, Goto
  <1>23. ASSUME NEW u \in Task, RaiseDailyBudget(u) PROVE QueueInv'
    BY <1>23 DEF RaiseDailyBudget, At, Goto
  <1>24. ASSUME NEW u \in Task, DispatchPick(u) PROVE QueueInv'
    BY <1>24 DEF DispatchPick, OldestQueued
  <1>25. ASSUME NEW r \in Requests, NEW u \in Task,
                NEW op \in {"cancel", "approve", "reject"}, Ask(r, op, u)
        PROVE  QueueInv'
    BY <1>25 DEF Ask
  <1>26. ASSUME NEW r \in Requests, CancelRow(r) PROVE QueueInv'
    BY <1>26 DEF CancelRow, SetStatus
  <1>27. ASSUME NEW r \in Requests, CancelRun(r) PROVE QueueInv'
    <2>1. req[r].task \in Task
      BY <1>27 DEF TypeOK, CancelRun, RequestState, NoReq
    <2> QED
      BY <1>27, <2>1, CancelKeepsQueue DEF CancelRun
  <1>28. ASSUME NEW r \in Requests, Reject(r) PROVE QueueInv'
    BY <1>28 DEF Reject, SetStatus
  <1>29. ASSUME NEW r \in Requests, Ship(r) PROVE QueueInv'
    BY <1>29 DEF Ship
  <1>30. ASSUME NEW r \in Requests, ShipFails(r) PROVE QueueInv'
    BY <1>30 DEF ShipFails
  <1>31. ASSUME NEW r \in Requests, Approve(r) PROVE QueueInv'
    BY <1>31 DEF Approve, SetStatus
  <1>32. CASE DispatchLaunch
    BY <1>32 DEF DispatchLaunch, NoTask, Task
  <1>33. CASE DispatchRefuse
    BY <1>33 DEF DispatchRefuse, NoTask, Task
  <1>34. CASE ReachCap
    BY <1>34 DEF ReachCap
  <1>35. CASE Midnight
    BY <1>35 DEF Midnight
  <1>36. CASE Stop
    BY <1>36, CancelKeepsQueue DEF Stop
  <1>37. CASE Exit
    BY <1>37 DEF Exit, Running
  <1>38. CASE Crash
    BY <1>38 DEF Crash, NoTask, Task
  <1>39. CASE Boot
    BY <1>39 DEF Boot, RowAfterBoot
  <1>40. CASE UNCHANGED vars
    BY <1>40 DEF vars
  <1>41. ASSUME NEW u \in Task, PreambleFails(u) PROVE QueueInv'
    BY <1>41 DEF PreambleFails, DatabaseFault, At, Goto
  <1>42. ASSUME NEW u \in Task, OutcomeEventFails(u) PROVE QueueInv'
    BY <1>42 DEF OutcomeEventFails, DatabaseFault, At, Goto
  <1>43. ASSUME NEW u \in Task, HandlerFails(u) PROVE QueueInv'
    BY <1>43 DEF HandlerFails, DatabaseFault, At, Goto, KeepsOnError, Handlers
  <1>44. ASSUME NEW u \in Task, SweepFails(u) PROVE QueueInv'
    BY <1>44 DEF SweepFails, DatabaseFault, At, Goto, AfterRun
  <1> QED
    BY <1>1, <1>2, <1>3, <1>4, <1>5, <1>6, <1>7, <1>8, <1>9, <1>10, <1>11,
       <1>12, <1>13, <1>14, <1>15, <1>16, <1>17, <1>18, <1>19, <1>20, <1>21,
       <1>22, <1>23, <1>24, <1>25, <1>26, <1>27, <1>28, <1>29, <1>30, <1>31,
       <1>32, <1>33, <1>34, <1>35, <1>36, <1>37, <1>38, <1>39, <1>40,
       <1>41, <1>42, <1>43, <1>44
    DEF Next, Coroutine, AgentStep, Interruption, DatabaseError, Dispatch, Operator, Process

LEMMA QueueInvariant == Spec => []QueueInv
  <1>1. Init => QueueInv
    BY DEF Init, QueueInv, QueuedIsWaiting, ParkingKeeps, AbsentIsIdle,
       DownIsIdle, NoTask, Task
  <1> QED
    BY <1>1, QueueStep, TypeCorrect, PTL DEF Spec

\* Cancelling a task whose row is queued spares its checkpoint.
LEMMA CancelSparesQueued ==
    ASSUME TypeOK, QueueInv, NEW S \in SUBSET Task, Cancel(S),
           NEW t \in Task \ Revisions,
           saver = "durable", status[t] = "queued", ckpt[t] # "none"
    PROVE  ckpt'[t] # "none"
  <1>1. pc[t] \in Handlers => run[t].keep
    BY DEF QueueInv, QueuedIsWaiting, ParkingKeeps, Handlers
  <1> QED
    BY <1>1 DEF Cancel, CkptOnExit

(* Nothing deletes the checkpoint a queued task is to resume from            *)
(* (QueuedKeepsCheckpoint), as long as the checkpoints outlive the process.  *)
THEOREM QueuedCheckpointIsKept == Spec => QueuedKeepsCheckpoint
  <1> DEFINE Step == \A t \in Task \ Revisions :
                        saver = "durable" /\ status[t] = "queued"
                        /\ ckpt[t] # "none" => ckpt'[t] # "none"
  <1>1. TypeOK /\ QueueInv /\ [Next]_vars => [Step]_vars
    <2> SUFFICES ASSUME TypeOK, QueueInv, [Next]_vars,
                        NEW t \in Task \ Revisions, saver = "durable",
                        status[t] = "queued", ckpt[t] # "none"
                 PROVE  ckpt'[t] # "none"
      OBVIOUS
    <2>1. /\ pc[t] \in {"idle", "launched", "parked", "interrupted", "cleanup",
                        "reading", "pruning", "notifying"}
          /\ pc[t] \in {"parked", "interrupted"} => run[t].keep
      BY DEF QueueInv, QueuedIsWaiting, ParkingKeeps
    <2>2. ASSUME NEW u \in Task, Resolve(u) PROVE ckpt'[t] # "none"
      BY <2>1, <2>2 DEF Resolve, At, TypeOK
    <2>3. ASSUME NEW u \in Task, BeginClone(u) PROVE ckpt'[t] # "none"
      BY <2>3 DEF BeginClone, Stale, TypeOK
    <2>4. ASSUME NEW u \in Task, AgentCheckpoints(u) PROVE ckpt'[t] # "none"
      BY <2>4 DEF AgentCheckpoints, NextCkpt, TypeOK
    <2>5. ASSUME NEW u \in Task, Cleanup(u) PROVE ckpt'[t] # "none"
      BY <2>1, <2>5 DEF Cleanup, CkptOnExit, TypeOK
    <2>6. ASSUME NEW u \in Task, Prune(u) PROVE ckpt'[t] # "none"
      BY <2>6 DEF Prune, Stale, TypeOK
    <2>7. ASSUME NEW r \in Requests, CancelRun(r) PROVE ckpt'[t] # "none"
      <3>1. req[r].task \in Task
        BY <2>7 DEF TypeOK, CancelRun, RequestState, NoReq
      <3> QED
        BY <2>7, <3>1, CancelSparesQueued DEF CancelRun
    <2>8. CASE Stop
      BY <2>8, CancelSparesQueued DEF Stop
    <2>9. CASE Exit \/ Crash
      BY <2>9 DEF Exit, Crash, CkptOnExitOfProcess
    <2>10. CASE UNCHANGED ckpt
      BY <2>10
    <2>11. ASSUME NEW u \in Task,
                  \/ CreateTask(u) \/ Start(u) \/ EnterTry(u) \/ ReuseClone(u)
                  \/ FinishClone(u) \/ BeginStream(u) \/ AgentReturns(u)
                  \/ Hold(u) \/ Complete(u) \/ WriteFailed(u) \/ WriteParked(u)
                  \/ WriteInterrupted(u) \/ ReadHeld(u) \/ ReadParked(u)
                  \/ Notified(u) \/ Push(u) \/ RaiseError(u)
                  \/ RaiseDailyBudget(u) \/ PreambleFails(u)
                  \/ OutcomeEventFails(u) \/ SweepFails(u) \/ DispatchPick(u)
           PROVE  UNCHANGED ckpt
      BY <2>11 DEF CreateTask, Start, EnterTry, ReuseClone, FinishClone,
         BeginStream, AgentReturns, Hold, Complete, WriteFailed, WriteParked,
         WriteInterrupted, ReadHeld, ReadParked, Notified, Push, RaiseError,
         RaiseDailyBudget, PreambleFails, OutcomeEventFails, SweepFails,
         DispatchPick
    <2>12. ASSUME NEW r \in Requests,
                  \/ \E op \in {"cancel", "approve", "reject"}, u \in Task :
                         Ask(r, op, u)
                  \/ CancelRow(r) \/ Reject(r) \/ Ship(r) \/ ShipFails(r)
                  \/ Approve(r)
           PROVE  UNCHANGED ckpt
      BY <2>12 DEF Ask, CancelRow, Reject, Ship, ShipFails, Approve
    <2>13. ASSUME DispatchLaunch \/ DispatchRefuse \/ ReachCap \/ Midnight
                  \/ Boot
           PROVE  UNCHANGED ckpt
      BY <2>13 DEF DispatchLaunch, DispatchRefuse, ReachCap, Midnight, Boot
    <2>14. ASSUME NEW u \in Task, HandlerFails(u) PROVE ckpt'[t] # "none"
      BY <2>1, <2>14 DEF HandlerFails, KeepsOnError, Handlers, TypeOK
    <2> QED
      BY <2>2, <2>3, <2>4, <2>5, <2>6, <2>7, <2>8, <2>9, <2>10, <2>11, <2>12,
         <2>13, <2>14 DEF Next, Coroutine, AgentStep, Interruption, DatabaseError,
         Dispatch, Operator, Process, vars
  <1> QED
    BY <1>1, TypeCorrect, QueueInvariant, PTL DEF Spec, QueuedKeepsCheckpoint

-----------------------------------------------------------------------------
(* Held work keeps its clone *)

\* A sweep of t's is one that has read the held rows and not removed yet.
Knows(u, t) == pc[u] \in {"reading", "pruning"} => t \in run[u].seen

\* No step takes away what a sweep knows of a row that is held.
LEMMA SweepsRemember ==
    ASSUME TypeOK, [Next]_vars, NEW t \in Task, NEW u \in Task,
           status[t] = "awaiting_approval", Knows(u, t)
    PROVE  Knows(u, t)'
  <1> USE DEF Knows
  <1>1. ASSUME NEW v \in Task, Coroutine(v), ~ReadHeld(v), ~ReadParked(v)
        PROVE  Knows(u, t)'
    BY <1>1 DEF TypeOK, Coroutine, Start, EnterTry, Resolve, ReuseClone,
       BeginClone, FinishClone, BeginStream, AgentReturns, Hold, Complete,
       WriteFailed, WriteParked, WriteInterrupted, Cleanup, Prune, Notified,
       AfterRun, FreshRun, RunLocals, Goto, At
  <1>2. ASSUME NEW v \in Task, ReadHeld(v) \/ ReadParked(v) PROVE Knows(u, t)'
    BY <1>2 DEF TypeOK, ReadHeld, ReadParked, WithStatus, RunLocals, Goto, At
  <1>3. ASSUME NEW v \in Task, CreateTask(v) \/ AgentStep(v) \/ Interruption(v)
        PROVE  Knows(u, t)'
    BY <1>3 DEF TypeOK, CreateTask, AgentStep, AgentCheckpoints, Push,
       Interruption, RaiseError, RaiseDailyBudget, DatabaseError, PreambleFails,
       OutcomeEventFails, HandlerFails, SweepFails, AfterRun, Handlers, Goto
  <1>4. ASSUME NEW S \in SUBSET Task, Cancel(S) PROVE Knows(u, t)'
    BY <1>4 DEF Cancel, AfterCancel, LocalsAfterCancel, Body, Handlers
  <1>5. ASSUME NEW r \in Requests, CancelRun(r) PROVE Knows(u, t)'
    <2>1. req[r].task \in Task
      BY <1>5 DEF TypeOK, CancelRun, RequestState, NoReq
    <2> QED
      BY <1>4, <1>5, <2>1 DEF CancelRun
  <1>6. ASSUME NEW r \in Requests,
               \/ \E op \in {"cancel", "approve", "reject"}, v \in Task :
                      Ask(r, op, v)
               \/ CancelRow(r) \/ Reject(r) \/ Ship(r) \/ ShipFails(r)
               \/ Approve(r)
        PROVE  UNCHANGED <<pc, run>>
    BY <1>6 DEF Ask, CancelRow, Reject, Ship, ShipFails, Approve
  <1>7. ASSUME Stop PROVE Knows(u, t)'
    BY <1>4, <1>7 DEF Stop
  <1>8. ASSUME Crash PROVE Knows(u, t)'
    BY <1>8 DEF Crash
  <1>9. ASSUME ReachCap \/ Midnight \/ Exit \/ Boot \/ DispatchRefuse
               \/ UNCHANGED vars \/ \E v \in Task : DispatchPick(v)
        PROVE  UNCHANGED <<pc, run>>
    BY <1>9 DEF ReachCap, Midnight, Exit, Boot, DispatchRefuse, DispatchPick, vars
  <1>10. ASSUME DispatchLaunch PROVE Knows(u, t)'
    BY <1>10 DEF DispatchLaunch, TypeOK
  <1> QED
    BY <1>1, <1>2, <1>3, <1>5, <1>6, <1>7, <1>8, <1>9, <1>10
    DEF Next, Dispatch, Operator, Process

\* Clones leave the disk in the sweeps only.
LEMMA OnlySweepsRemove ==
    ASSUME TypeOK, [Next]_vars, NEW t \in Task, t \in clones, t \notin clones'
    PROVE  \E u \in Task : pc[u] = "pruning" /\ t \notin run[u].seen
  <1>1. ASSUME NEW u \in Task, Prune(u)
        PROVE  pc[u] = "pruning" /\ t \notin run[u].seen
    BY <1>1 DEF Prune, Prunable, At
  <1>2. ASSUME NEW u \in Task, Coroutine(u), ~Prune(u) PROVE t \in clones'
    BY <1>2 DEF Coroutine, Start, EnterTry, Resolve, ReuseClone, BeginClone,
       FinishClone, BeginStream, AgentReturns, Hold, Complete, WriteFailed,
       WriteParked, WriteInterrupted, Cleanup, ReadHeld, ReadParked, Notified
  <1>3. ASSUME NEW u \in Task, CreateTask(u) \/ AgentStep(u) \/ Interruption(u)
        PROVE  UNCHANGED clones
    BY <1>3 DEF CreateTask, AgentStep, AgentCheckpoints, Push, Interruption,
       RaiseError, RaiseDailyBudget, DatabaseError, PreambleFails,
       OutcomeEventFails, HandlerFails, SweepFails
  <1>4. ASSUME Operator PROVE UNCHANGED clones
    BY <1>4 DEF Operator, Ask, CancelRow, CancelRun, Reject, Ship, ShipFails,
       Approve
  <1>5. ASSUME Dispatch \/ Process \/ UNCHANGED vars PROVE UNCHANGED clones
    BY <1>5 DEF Dispatch, DispatchPick, DispatchLaunch, DispatchRefuse, Process,
       ReachCap, Midnight, Stop, Exit, Crash, Boot, vars
  <1> QED
    BY <1>1, <1>2, <1>3, <1>4, <1>5 DEF Next

(* A held task's clone that every sweep under way knows of stays, and stays  *)
(* known, until an operator decides (HeldWorkSurvives): for any number of    *)
(* slots, whichever runs end, sweep, crash or resume meanwhile.              *)
THEOREM HeldClonesAreSpared == Spec => HeldWorkSurvives
  <1>1. TypeOK /\ [Next]_vars =>
            (\A t \in Task : HeldSafely(t) /\ status'[t] = "awaiting_approval"
                                => HeldSafely(t)')
    <2> SUFFICES ASSUME TypeOK, [Next]_vars, NEW t \in Task, HeldSafely(t),
                        status'[t] = "awaiting_approval"
                 PROVE  HeldSafely(t)'
      OBVIOUS
    <2>1. \A u \in Task : Knows(u, t)
      BY DEF HeldSafely, Knows
    <2>2. ASSUME NEW u \in Task PROVE Knows(u, t)'
      BY <2>1, SweepsRemember DEF HeldSafely
    <2>3. t \in clones'
      BY <2>1, OnlySweepsRemove DEF HeldSafely, Knows
    <2> QED
      BY <2>2, <2>3 DEF HeldSafely, Knows
  <1> QED
    BY <1>1, TypeCorrect, PTL DEF Spec, HeldWorkSurvives
=============================================================================
