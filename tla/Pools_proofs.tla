---------------------------- MODULE Pools_proofs ----------------------------
(***************************************************************************)
(* Theorems about SandboxPool and RefClones, for any number of tasks, calls, *)
(* policies, ticks and faults: what a task runs under, who may remove its    *)
(* container and what the reaper condemns; what a call on a reference clone   *)
(* reads, and how old the files it is served are.                           *)
(***************************************************************************)
EXTENDS MCPools, TLAPS

-----------------------------------------------------------------------------
(* The container of a repository *)

Steps == {"out", "mark", "use"} \cup Threaded

\* PoolTypeOK in parts: the tasks, the clocks, the reaper's pass, the container.
JobsTyped ==
    /\ step \in [Jobs -> Steps] /\ want \in [Jobs -> 0..MaxPolicy]
    /\ current \in [Jobs -> BOOLEAN] /\ gone \in [Jobs -> BOOLEAN]
    /\ crossed \in [Jobs -> 0..TaskTicks] /\ mixed \in [Jobs -> BOOLEAN]
ClocksTyped ==
    /\ stamp \in 0..Unstamped /\ touched \in 0..(IdleTTL + 1)
    /\ loaded \in 0..Unstamped
PassTyped == listed \in BOOLEAN /\ sweep \in {"idle", "listed", "loaded", "doomed"}
BoxTyped ==
    /\ box \in [cfg : 0..MaxPolicy, running : BOOLEAN, mount : BOOLEAN]
    /\ policy \in 1..MaxPolicy /\ boxFaults \in 0..MaxBoxFaults

LEMMA TypedParts ==
    PoolTypeOK <=> JobsTyped /\ ClocksTyped /\ PassTyped /\ BoxTyped
  BY DEF PoolTypeOK, JobsTyped, ClocksTyped, PassTyped, BoxTyped, Steps

\* A docker command exceeded its timeout under the task.
Hangs(t) == StartHangs(t) \/ ProbeHangs(t) \/ CreateHangs(t)

\* A step of one task's thread moves its control and locals only.
Moves(t) ==
    /\ step' \in [Jobs -> Steps] /\ want' \in [Jobs -> 0..MaxPolicy]
    /\ gone' \in [Jobs -> BOOLEAN] /\ mixed' \in [Jobs -> BOOLEAN]
    /\ \A u \in Jobs \ {t} : step'[u] = step[u] /\ want'[u] = want[u]
                                 /\ mixed'[u] = mixed[u]

LEMMA LeaveMoves ==
    ASSUME JobsTyped, NEW t \in Jobs, Leave(t)
    PROVE  Moves(t) /\ step'[t] = "out"
  <1>1. 0 \in 0..MaxPolicy
    BY PoolAssumption
  <1> QED
    BY <1>1 DEF Leave, GoOn, JobsTyped, Steps, Moves

LEMMA HangMoves ==
    ASSUME JobsTyped, NEW t \in Jobs, Hangs(t)
    PROVE  /\ Moves(t) /\ step'[t] = "out" /\ step[t] \in Threaded
           /\ current' \in [Jobs -> BOOLEAN]
           /\ \A u \in Jobs : current'[u] => current[u]
  <1>1. Leave(t) /\ step[t] \in Threaded /\ (Outdate \/ Forget(t))
    BY DEF Hangs, StartHangs, ProbeHangs, CreateHangs, Raise, Threaded
  <1> QED
    BY <1>1, LeaveMoves DEF Outdate, Forget, JobsTyped

LEMMA GoOnMoves ==
    ASSUME JobsTyped, NEW t \in Jobs, NEW s \in Steps, GoOn(t, s),
           UNCHANGED <<want, gone, mixed>>
    PROVE  Moves(t) /\ step'[t] = s /\ want'[t] = want[t] /\ mixed'[t] = mixed[t]
  BY DEF GoOn, JobsTyped, Moves

LEMMA ReturnMoves ==
    ASSUME JobsTyped, NEW t \in Jobs, Return(t)
    PROVE  /\ Moves(t)
           /\ \/ step'[t] = "out"
              \/ step'[t] = "mark" /\ want'[t] = want[t] /\ mixed'[t] = mixed[t]
  <1>1. CASE gone[t]
    BY <1>1, LeaveMoves DEF Return
  <1>2. CASE ~gone[t]
    <2>1. "mark" \in Steps
      BY DEF Steps
    <2> QED
      BY <1>2, <2>1, GoOnMoves DEF Return
  <1> QED
    BY <1>1, <1>2

LEMMA JobsStep == ASSUME PoolTypeOK, [PoolNext]_poolVars PROVE JobsTyped'
  <1> USE DEF marks, reaping, requests
  <1>0. /\ JobsTyped /\ policy \in 0..MaxPolicy /\ 0 \in 0..MaxPolicy
        /\ TaskTicks \in Nat /\ 0 \in 0..TaskTicks
    BY PoolAssumption DEF PoolTypeOK, JobsTyped, Steps
  <1>1. ASSUME NEW t \in Jobs, BeginJob(t) PROVE JobsTyped'
    BY <1>0, <1>1 DEF BeginJob, GoOn, JobsTyped, Steps, Threaded
  <1>2. ASSUME NEW t \in Jobs, Inspect(t) \/ StartBox(t) \/ RemoveBox(t)
        PROVE  JobsTyped'
    BY <1>0, <1>2 DEF Inspect, StartBox, RemoveBox, GoOn, Outdate, Forget,
       JobsTyped, Steps, Threaded
  <1>3. ASSUME NEW t \in Jobs, Probe(t) PROVE JobsTyped'
    <2>1. CASE Return(t) /\ Forget(t)
      BY <1>0, <1>3, <2>1, ReturnMoves DEF Probe, Forget, JobsTyped, Moves
    <2>2. CASE ~(Return(t) /\ Forget(t))
      BY <1>0, <1>3, <2>2 DEF Probe, GoOn, JobsTyped, Steps, Threaded
    <2> QED
      BY <2>1, <2>2
  <1>4. ASSUME NEW t \in Jobs, CreateBox(t) PROVE JobsTyped'
    <2>1. CASE Return(t) /\ Outdate
      BY <1>0, <1>4, <2>1, ReturnMoves DEF CreateBox, Outdate, JobsTyped, Moves
    <2>2. CASE GoOn(t, "recheck") /\ UNCHANGED <<current, want, gone, mixed>>
      BY <1>0, <1>4, <2>2 DEF CreateBox, GoOn, JobsTyped, Steps, Threaded
    <2> QED
      BY <1>4, <2>1, <2>2 DEF CreateBox
  <1>5. ASSUME NEW t \in Jobs, Recheck(t) PROVE JobsTyped'
    BY <1>0, <1>5, ReturnMoves, LeaveMoves DEF Recheck, JobsTyped, Moves
  <1>6. ASSUME NEW t \in Jobs, StartUse(t) PROVE JobsTyped'
    BY <1>0, <1>6 DEF StartUse, GoOn, JobsTyped, Steps
  <1>7. ASSUME NEW t \in Jobs, EndUse(t) PROVE JobsTyped'
    BY <1>0, <1>7, LeaveMoves DEF EndUse, JobsTyped, Moves
  <1>8. ASSUME NEW t \in Jobs, CancelJob(t) PROVE JobsTyped'
    <2>1. CASE Leave(t)
      BY <1>0, <1>8, <2>1, LeaveMoves DEF CancelJob, JobsTyped, Moves
    <2>2. CASE ~Leave(t)
      BY <1>0, <1>8, <2>2 DEF CancelJob, JobsTyped
    <2> QED
      BY <2>1, <2>2
  <1>9. CASE ReaperStep
    BY <1>0, <1>9 DEF ReaperStep, ListBoxes, LoadStamps, SaveStamps, Reap, Outdate,
       JobsTyped
  <1>10. CASE Tick
    BY <1>0, <1>10 DEF Tick, Using, JobsTyped
  <1>11. CASE EditPolicy \/ Disturb \/ LoseState
    BY <1>0, <1>11 DEF EditPolicy, Disturb, LoseState, Outdate, JobsTyped
  <1>12. CASE CrashServer
    BY <1>0, <1>12 DEF CrashServer, Outdate, JobsTyped, Steps
  <1>13. CASE UNCHANGED poolVars
    BY <1>0, <1>13 DEF poolVars, JobsTyped
  <1>14. ASSUME NEW t \in Jobs, Hangs(t) PROVE JobsTyped'
    <2>1. crossed' = crossed
      BY <1>14 DEF Hangs, StartHangs, ProbeHangs, CreateHangs
    <2> QED
      BY <1>0, <1>14, <2>1, HangMoves DEF JobsTyped, Moves
  <1> QED
    BY <1>1, <1>2, <1>3, <1>4, <1>5, <1>6, <1>7, <1>8, <1>9, <1>10, <1>11, <1>12,
       <1>13, <1>14 DEF PoolNext, JobStep, Hangs

\* The steps that touch neither stamps nor the reaper's pass.
LEMMA ClocksStand ==
    ASSUME NEW t \in Jobs,
           \/ BeginJob(t) \/ Inspect(t) \/ StartBox(t) \/ Probe(t) \/ RemoveBox(t)
           \/ CreateBox(t) \/ Recheck(t) \/ CancelJob(t) \/ Hangs(t)
    PROVE  UNCHANGED <<stamp, touched, crossed, sweep, listed, loaded>>
  BY DEF BeginJob, Inspect, StartBox, Probe, RemoveBox, CreateBox, Recheck,
     CancelJob, Hangs, StartHangs, ProbeHangs, CreateHangs, marks, reaping

LEMMA ClocksStep == ASSUME PoolTypeOK, [PoolNext]_poolVars PROVE ClocksTyped'
  <1> USE PoolAssumption DEF ClocksTyped, Unstamped, marks, reaping
  <1>0. ClocksTyped
    BY DEF PoolTypeOK
  <1>1. ASSUME NEW t \in Jobs,
               \/ BeginJob(t) \/ Inspect(t) \/ StartBox(t) \/ Probe(t)
               \/ RemoveBox(t) \/ CreateBox(t) \/ Recheck(t) \/ CancelJob(t)
               \/ Hangs(t)
        PROVE  ClocksTyped'
    BY <1>0, <1>1, ClocksStand
  <1>2. ASSUME NEW t \in Jobs, StartUse(t) \/ EndUse(t) PROVE ClocksTyped'
    BY <1>0, <1>2 DEF StartUse, EndUse, Touch
  <1>3. CASE ListBoxes \/ LoadStamps \/ Reap
    BY <1>0, <1>3 DEF ListBoxes, LoadStamps, Reap
  <1>4. CASE SaveStamps
    <2>1. Restamped \in {Unstamped, 0, loaded}
      BY DEF Restamped
    <2>2. stamp' = Restamped /\ loaded' = Unstamped /\ touched' = touched
      BY <1>4 DEF SaveStamps
    <2>3. IdleTTL \in Nat
      OBVIOUS
    <2> HIDE PoolAssumption
    <2> QED
      BY <1>0, <2>1, <2>2, <2>3
  <1>5. CASE Tick
    BY <1>0, <1>5 DEF Tick, Older
  <1>6. CASE EditPolicy \/ Disturb \/ LoseState \/ CrashServer
    <2>1. /\ stamp' \in {stamp, Unstamped} /\ loaded' \in {loaded, Unstamped}
          /\ touched' = touched
      BY <1>6 DEF EditPolicy, Disturb, LoseState, CrashServer
    <2>2. IdleTTL \in Nat
      OBVIOUS
    <2> HIDE PoolAssumption
    <2> QED
      BY <1>0, <2>1, <2>2
  <1>7. CASE UNCHANGED poolVars
    BY <1>0, <1>7 DEF poolVars
  <1> QED
    BY <1>1, <1>2, <1>3, <1>4, <1>5, <1>6, <1>7 DEF PoolNext, JobStep, ReaperStep, Hangs

LEMMA PassStep == ASSUME PoolTypeOK, [PoolNext]_poolVars PROVE PassTyped'
  <1> USE DEF PassTyped, marks, reaping
  <1>0. PassTyped
    BY DEF PoolTypeOK
  <1>1. ASSUME NEW t \in Jobs,
               \/ BeginJob(t) \/ Inspect(t) \/ StartBox(t) \/ Probe(t)
               \/ RemoveBox(t) \/ CreateBox(t) \/ Recheck(t) \/ CancelJob(t)
               \/ Hangs(t)
        PROVE  PassTyped'
    BY <1>0, <1>1, ClocksStand
  <1>2. ASSUME NEW t \in Jobs, StartUse(t) \/ EndUse(t) PROVE PassTyped'
    BY <1>0, <1>2 DEF StartUse, EndUse
  <1>3. CASE ReaperStep
    BY <1>0, <1>3 DEF ReaperStep, ListBoxes, LoadStamps, SaveStamps, Reap
  <1>4. CASE Tick \/ EditPolicy \/ Disturb \/ LoseState \/ CrashServer
    BY <1>0, <1>4 DEF Tick, EditPolicy, Disturb, LoseState, CrashServer
  <1>5. CASE UNCHANGED poolVars
    BY <1>0, <1>5 DEF poolVars
  <1> QED
    BY <1>1, <1>2, <1>3, <1>4, <1>5 DEF PoolNext, JobStep, Hangs

\* What docker may be left with.
LEMMA BoxesTyped ==
    /\ NoBox \in [cfg : 0..MaxPolicy, running : BOOLEAN, mount : BOOLEAN]
    /\ \A p \in 0..MaxPolicy :
          Box(p) \in [cfg : 0..MaxPolicy, running : BOOLEAN, mount : BOOLEAN]
  BY PoolAssumption DEF NoBox, Box

LEMMA BoxStep == ASSUME PoolTypeOK, [PoolNext]_poolVars PROVE BoxTyped'
  <1> USE DEF marks, reaping, requests
  <1>0. BoxTyped /\ want \in [Jobs -> 0..MaxPolicy]
    BY DEF PoolTypeOK, BoxTyped
  <1>1. ASSUME NEW t \in Jobs, StartBox(t) PROVE BoxTyped'
    <2>1. [box EXCEPT !.running = TRUE] \in
              [cfg : 0..MaxPolicy, running : BOOLEAN, mount : BOOLEAN]
      BY <1>0 DEF BoxTyped
    <2>2. /\ policy' = policy
          /\ box' = box \/ box' = [box EXCEPT !.running = TRUE]
      BY <1>1 DEF StartBox
    <2>3. boxFaults' \in 0..MaxBoxFaults
      BY <1>0, <1>1, PoolAssumption DEF StartBox, BoxFault, BoxTyped
    <2> QED
      BY <1>0, <2>1, <2>2, <2>3 DEF BoxTyped
  <1>2. ASSUME NEW t \in Jobs, RemoveBox(t) PROVE BoxTyped'
    <2>1. boxFaults' \in 0..MaxBoxFaults
      BY <1>0, <1>2, PoolAssumption DEF RemoveBox, BoxFault, BoxTyped
    <2>2. policy' = policy /\ (box' = box \/ box' = NoBox)
      BY <1>2 DEF RemoveBox
    <2> QED
      BY <1>0, <2>1, <2>2, BoxesTyped DEF BoxTyped
  <1>3. ASSUME NEW t \in Jobs, CreateBox(t) PROVE BoxTyped'
    <2>1. policy' = policy /\ (box' = box \/ box' = Box(want[t]))
      BY <1>3 DEF CreateBox
    <2>2. boxFaults' \in 0..MaxBoxFaults
      BY <1>0, <1>3, PoolAssumption DEF CreateBox, BoxFault, BoxTyped
    <2> QED
      BY <1>0, <2>1, <2>2, BoxesTyped DEF BoxTyped
  <1>4. ASSUME NEW t \in Jobs,
               \/ BeginJob(t) \/ Inspect(t) \/ Probe(t) \/ Recheck(t)
               \/ StartUse(t) \/ EndUse(t) \/ CancelJob(t)
        PROVE  BoxTyped'
    BY <1>0, <1>4 DEF BeginJob, Inspect, Probe, Recheck, StartUse, EndUse,
       CancelJob, BoxTyped
  <1>5. CASE ListBoxes \/ LoadStamps \/ SaveStamps \/ Tick
    BY <1>0, <1>5 DEF ListBoxes, LoadStamps, SaveStamps, Tick, BoxTyped
  <1>6. CASE Reap
    <2>1. boxFaults' \in 0..MaxBoxFaults
      BY <1>0, <1>6, PoolAssumption DEF Reap, BoxFault, BoxTyped
    <2>2. policy' = policy /\ (box' = box \/ box' = NoBox)
      BY <1>6 DEF Reap
    <2> QED
      BY <1>0, <2>1, <2>2, BoxesTyped DEF BoxTyped
  <1>7. CASE EditPolicy
    BY <1>0, <1>7, PoolAssumption DEF EditPolicy, BoxTyped
  <1>8. CASE Disturb
    <2>1. /\ [box EXCEPT !.running = FALSE] \in
                 [cfg : 0..MaxPolicy, running : BOOLEAN, mount : BOOLEAN]
          /\ [box EXCEPT !.mount = FALSE] \in
                 [cfg : 0..MaxPolicy, running : BOOLEAN, mount : BOOLEAN]
      BY <1>0 DEF BoxTyped
    <2>2. /\ policy' = policy
          /\ box' \in {[box EXCEPT !.running = FALSE],
                       [box EXCEPT !.mount = FALSE], NoBox}
      BY <1>8 DEF Disturb
    <2>3. boxFaults' \in 0..MaxBoxFaults
      BY <1>0, <1>8, PoolAssumption DEF Disturb, BoxFault, BoxTyped
    <2>4. box' \in [cfg : 0..MaxPolicy, running : BOOLEAN, mount : BOOLEAN]
      BY <2>1, <2>2, BoxesTyped
    <2> QED
      BY <1>0, <2>2, <2>3, <2>4 DEF BoxTyped
  <1>9. CASE LoseState \/ CrashServer
    BY <1>0, <1>9, PoolAssumption DEF LoseState, CrashServer, BoxFault, BoxTyped
  <1>10. CASE UNCHANGED poolVars
    BY <1>0, <1>10 DEF poolVars, BoxTyped
  <1>11. ASSUME NEW t \in Jobs, Hangs(t) PROVE BoxTyped'
    <2>1. boxFaults' \in 0..MaxBoxFaults
      BY <1>0, <1>11, PoolAssumption DEF Hangs, StartHangs, ProbeHangs, CreateHangs,
         Raise, BoxFault, BoxTyped
    <2>2. /\ policy' = policy
          /\ box' \in {box, [box EXCEPT !.running = TRUE], NoBox, Box(want[t])}
      BY <1>11 DEF Hangs, StartHangs, ProbeHangs, CreateHangs
    <2>3. [box EXCEPT !.running = TRUE] \in
              [cfg : 0..MaxPolicy, running : BOOLEAN, mount : BOOLEAN]
      BY <1>0 DEF BoxTyped
    <2> QED
      BY <1>0, <2>1, <2>2, <2>3, BoxesTyped DEF BoxTyped
  <1> QED
    BY <1>1, <1>2, <1>3, <1>4, <1>5, <1>6, <1>7, <1>8, <1>9, <1>10, <1>11
    DEF PoolNext, JobStep, ReaperStep, Hangs

(* Every variable of the pool stays in its type (PoolTypeOK).                *)
THEOREM PoolTypeCorrect == PoolSpec => []PoolTypeOK
  <1>1. PoolInit => PoolTypeOK
    <2> SUFFICES ASSUME PoolInit PROVE PoolTypeOK
      OBVIOUS
    <2>1. JobsTyped
      BY PoolAssumption DEF PoolInit, JobsTyped, Steps
    <2>2. ClocksTyped
      <3>1. IdleTTL \in Nat /\ Unstamped = IdleTTL + 2
        BY PoolAssumption DEF Unstamped
      <3>2. stamp = Unstamped /\ loaded = Unstamped /\ touched = 0
        BY DEF PoolInit
      <3> QED
        BY <3>1, <3>2 DEF ClocksTyped
    <2>3. PassTyped
      BY DEF PoolInit, PassTyped
    <2>4. BoxTyped
      BY PoolAssumption, BoxesTyped DEF PoolInit, BoxTyped
    <2> QED
      BY <2>1, <2>2, <2>3, <2>4, TypedParts
  <1>2. PoolTypeOK /\ [PoolNext]_poolVars => PoolTypeOK'
    <2>1. JobsTyped' /\ ClocksTyped' /\ PassTyped' /\ BoxTyped' => PoolTypeOK'
      BY DEF PoolTypeOK, JobsTyped, ClocksTyped, PassTyped, BoxTyped, Steps
    <2> QED
      BY <2>1, JobsStep, ClocksStep, PassStep, BoxStep
  <1> QED
    BY <1>1, <1>2, PTL DEF PoolSpec

-----------------------------------------------------------------------------
(* The policy the commands of a task run under *)

\* Between the inspection that found a container of its own policy and the
\* end of its use, a task relies on it.
Relying == {"start", "probe", "mark", "use"}

\* Tasks of different policies know of each other, whichever began first.
Mingled == \A u, v \in Jobs :
              Active(u) /\ Active(v) /\ want[u] # want[v] => mixed[u]
ReliesOnOwn == \A t \in Jobs :
                  step[t] \in Relying /\ box # NoBox => box.cfg = want[t] \/ mixed[t]
PolicyInv == Mingled /\ ReliesOnOwn

\* What one thread's step may do to the policies: it ends, or goes on as it is.
LEMMA MingledMoves ==
    ASSUME NEW t \in Jobs, Mingled, Active(t), Moves(t),
           \/ step'[t] = "out"
           \/ want'[t] = want[t] /\ mixed'[t] = mixed[t]
    PROVE  Mingled'
  BY DEF Mingled, Moves, Active

\* Every step of an active task's thread is one of these.
LEMMA JobMoves ==
    ASSUME JobsTyped, NEW t \in Jobs,
           JobStep(t) \/ EndUse(t) \/ CancelJob(t)
    PROVE  /\ Moves(t) /\ Active(t)
           /\ \/ step'[t] = "out"
              \/ want'[t] = want[t] /\ mixed'[t] = mixed[t]
  <1> USE DEF requests, Active
  <1>1. CASE Inspect(t)
    BY <1>1 DEF Inspect, GoOn, JobsTyped, Steps, Threaded, Moves
  <1>2. CASE StartBox(t)
    BY <1>2 DEF StartBox, GoOn, JobsTyped, Steps, Threaded, Moves
  <1>3. CASE Probe(t)
    <2>1. CASE Return(t)
      BY <1>3, <2>1, ReturnMoves DEF Probe
    <2>2. CASE ~Return(t)
      BY <1>3, <2>2 DEF Probe, GoOn, JobsTyped, Steps, Threaded, Moves
    <2> QED
      BY <2>1, <2>2
  <1>4. CASE RemoveBox(t)
    BY <1>4 DEF RemoveBox, GoOn, JobsTyped, Steps, Threaded, Moves
  <1>5. CASE CreateBox(t)
    <2>1. CASE Return(t)
      BY <1>5, <2>1, ReturnMoves DEF CreateBox
    <2>2. CASE ~Return(t)
      BY <1>5, <2>2 DEF CreateBox, GoOn, JobsTyped, Steps, Threaded, Moves
    <2> QED
      BY <2>1, <2>2
  <1>6. CASE Recheck(t)
    BY <1>6, ReturnMoves, LeaveMoves DEF Recheck
  <1>7. CASE StartUse(t)
    BY <1>7 DEF StartUse, GoOn, JobsTyped, Steps, Threaded, Moves
  <1>8. CASE EndUse(t)
    BY <1>8, LeaveMoves DEF EndUse, Using
  <1>9. CASE CancelJob(t)
    <2>1. CASE Leave(t)
      BY <1>9, <2>1, LeaveMoves DEF CancelJob, Threaded
    <2>2. CASE ~Leave(t)
      BY <1>9, <2>2 DEF CancelJob, JobsTyped, Threaded, Moves
    <2> QED
      BY <2>1, <2>2
  <1>10. CASE Hangs(t)
    BY <1>10, HangMoves DEF Threaded
  <1> QED
    BY <1>1, <1>2, <1>3, <1>4, <1>5, <1>6, <1>7, <1>8, <1>9, <1>10 DEF JobStep, Hangs

LEMMA MingledStep ==
    ASSUME PoolTypeOK, Mingled, [PoolNext]_poolVars
    PROVE  Mingled'
  <1> USE DEF requests
  <1>0. JobsTyped
    BY TypedParts
  <1>1. ASSUME NEW t \in Jobs, BeginJob(t) PROVE Mingled'
    BY <1>0, <1>1 DEF BeginJob, GoOn, Mingled, Active, JobsTyped
  <1>2. ASSUME NEW t \in Jobs, JobStep(t) \/ EndUse(t) \/ CancelJob(t) PROVE Mingled'
    BY <1>0, <1>2, JobMoves, MingledMoves
  <1>3. CASE ReaperStep \/ Tick \/ EditPolicy \/ Disturb \/ LoseState
    <2>1. UNCHANGED <<step, want, mixed>>
      BY <1>3 DEF ReaperStep, ListBoxes, LoadStamps, SaveStamps, Reap, Tick,
         EditPolicy, Disturb, LoseState
    <2> QED
      BY <2>1 DEF Mingled, Active
  <1>4. CASE CrashServer
    BY <1>4 DEF CrashServer, Mingled, Active
  <1>5. CASE UNCHANGED poolVars
    BY <1>5 DEF poolVars, Mingled, Active
  <1> QED
    BY <1>1, <1>2, <1>3, <1>4, <1>5 DEF PoolNext

\* A container that only stops, starts or loses its mount keeps its policy.
KeepsPolicy == box' # NoBox => box # NoBox /\ box'.cfg = box.cfg

LEMMA PolicyKept ==
    ASSUME PoolTypeOK,
           \/ \E t \in Jobs : \/ BeginJob(t) \/ Inspect(t) \/ StartBox(t) \/ Probe(t)
                              \/ RemoveBox(t) \/ Recheck(t) \/ StartUse(t)
                              \/ EndUse(t) \/ CancelJob(t) \/ StartHangs(t)
                              \/ ProbeHangs(t)
           \/ ReaperStep \/ Tick \/ EditPolicy \/ Disturb \/ LoseState \/ CrashServer
    PROVE  KeepsPolicy
  <1>1. ASSUME NEW t \in Jobs, StartBox(t) \/ StartHangs(t) PROVE KeepsPolicy
    BY <1>1 DEF StartBox, StartHangs, KeepsPolicy, PoolTypeOK
  <1>2. ASSUME NEW t \in Jobs,
               \/ BeginJob(t) \/ Inspect(t) \/ Probe(t) \/ Recheck(t)
               \/ StartUse(t) \/ EndUse(t) \/ CancelJob(t) \/ ProbeHangs(t)
        PROVE  KeepsPolicy
    BY <1>2 DEF ProbeHangs, BeginJob, Inspect, Probe, Recheck, StartUse, EndUse, CancelJob,
       KeepsPolicy
  <1>3. ASSUME NEW t \in Jobs, RemoveBox(t) PROVE KeepsPolicy
    BY <1>3 DEF RemoveBox, KeepsPolicy
  <1>4. CASE ReaperStep \/ Tick \/ EditPolicy \/ LoseState \/ CrashServer
    BY <1>4 DEF ReaperStep, ListBoxes, LoadStamps, SaveStamps, Reap, Tick,
       EditPolicy, LoseState, CrashServer, KeepsPolicy
  <1>5. CASE Disturb
    BY <1>5 DEF Disturb, KeepsPolicy, PoolTypeOK
  <1> QED
    BY <1>1, <1>2, <1>3, <1>4, <1>5

\* The one step that makes a container gives it the policy of its task.
LEMMA Created ==
    ASSUME NEW t \in Jobs, CreateBox(t) \/ CreateHangs(t)
    PROVE  KeepsPolicy \/ box'.cfg = want[t]
  BY DEF CreateBox, CreateHangs, KeepsPolicy, Box

\* Who comes to rely on the container found it, or made it, of its own policy.
LEMMA ReliesAnew ==
    ASSUME JobsTyped, [PoolNext]_poolVars, NEW t \in Jobs,
           step'[t] \in Relying
    PROVE  \/ step[t] \in Relying
           \/ Matches(t) /\ UNCHANGED box
           \/ CreateBox(t)
  <1> USE DEF requests
  <1>1. ASSUME NEW u \in Jobs, BeginJob(u) PROVE step[t] \in Relying
    BY <1>1 DEF BeginJob, GoOn, JobsTyped, Relying
  <1>2. ASSUME NEW u \in Jobs, JobStep(u) \/ EndUse(u) \/ CancelJob(u), u # t
        PROVE  step[t] \in Relying
    BY <1>2, JobMoves DEF Moves
  <1>3. CASE Inspect(t) \/ Recheck(t)
    <2>1. CASE Inspect(t)
      BY <2>1 DEF Inspect, GoOn, JobsTyped, Relying
    <2>2. CASE Recheck(t)
      <3>1. CASE Matches(t)
        BY <2>2, <3>1 DEF Recheck
      <3>2. CASE ~Matches(t)
        <4>1. step'[t] = "out"
          BY <2>2, <3>2, LeaveMoves DEF Recheck
        <4> QED
          BY <4>1 DEF Relying
      <3> QED
        BY <3>1, <3>2
    <2> QED
      BY <1>3, <2>1, <2>2
  <1>4. CASE StartBox(t) \/ Probe(t) \/ StartUse(t) \/ EndUse(t)
    BY <1>4 DEF StartBox, Probe, StartUse, EndUse, Using, Relying
  <1>5. CASE RemoveBox(t)
    BY <1>5 DEF RemoveBox, GoOn, JobsTyped, Relying
  <1>6. CASE CancelJob(t)
    <2>1. CASE Leave(t)
      <3>1. step'[t] = "out"
        BY <2>1, LeaveMoves
      <3> QED
        BY <3>1 DEF Relying
    <2>2. CASE ~Leave(t)
      BY <1>6, <2>2 DEF CancelJob
    <2> QED
      BY <2>1, <2>2
  <1>7. CASE ReaperStep \/ Tick \/ EditPolicy \/ Disturb \/ LoseState
    BY <1>7 DEF ReaperStep, ListBoxes, LoadStamps, SaveStamps, Reap, Tick,
       EditPolicy, Disturb, LoseState
  <1>8. CASE CrashServer
    BY <1>8 DEF CrashServer, Relying
  <1>9. CASE UNCHANGED poolVars
    BY <1>9 DEF poolVars
  <1>10. CASE Hangs(t)
    <2>1. step'[t] = "out"
      BY <1>10, HangMoves
    <2> QED
      BY <2>1 DEF Relying
  <1> QED
    BY <1>1, <1>2, <1>3, <1>4, <1>5, <1>6, <1>7, <1>8, <1>9, <1>10
    DEF PoolNext, JobStep, Hangs

LEMMA StaysOwn ==
    ASSUME JobsTyped, [PoolNext]_poolVars, NEW t \in Jobs,
           step'[t] \in Relying
    PROVE  want'[t] = want[t] /\ (mixed[t] => mixed'[t])
  <1> USE DEF requests
  <1>1. ASSUME NEW u \in Jobs, BeginJob(u) PROVE want'[t] = want[t] /\ (mixed[t] => mixed'[t])
    <2>1. u # t
      BY <1>1 DEF BeginJob, GoOn, JobsTyped, Relying
    <2> QED
      BY <1>1, <2>1 DEF BeginJob, JobsTyped
  <1>2. ASSUME NEW u \in Jobs, JobStep(u) \/ EndUse(u) \/ CancelJob(u)
        PROVE  want'[t] = want[t] /\ (mixed[t] => mixed'[t])
    BY <1>2, JobMoves DEF Moves, Relying
  <1>3. CASE ReaperStep \/ Tick \/ EditPolicy \/ Disturb \/ LoseState
    BY <1>3 DEF ReaperStep, ListBoxes, LoadStamps, SaveStamps, Reap, Tick,
       EditPolicy, Disturb, LoseState
  <1>4. CASE CrashServer
    BY <1>4 DEF CrashServer, Relying
  <1>5. CASE UNCHANGED poolVars
    BY <1>5 DEF poolVars
  <1> QED
    BY <1>1, <1>2, <1>3, <1>4, <1>5 DEF PoolNext

LEMMA ReliesStep ==
    ASSUME PoolTypeOK, PolicyInv, [PoolNext]_poolVars
    PROVE  ReliesOnOwn'
  <1>0. JobsTyped
    BY TypedParts
  <1> SUFFICES ASSUME NEW t \in Jobs, step'[t] \in Relying, box' # NoBox
               PROVE  box'.cfg = want'[t] \/ mixed'[t]
    BY DEF ReliesOnOwn
  <1>1. want'[t] = want[t] /\ (mixed[t] => mixed'[t])
    BY <1>0, StaysOwn
  <1>2. ASSUME NEW u \in Jobs, CreateBox(u) \/ CreateHangs(u), ~KeepsPolicy
        PROVE  box'.cfg = want'[t] \/ mixed'[t]
    <2>1. box'.cfg = want[u] /\ Active(u)
      BY <1>2, Created DEF CreateBox, CreateHangs, Active
    <2>2. CASE t = u
      BY <1>1, <2>1, <2>2
    <2>3. CASE t # u
      <3>1. step[t] = step'[t]
        BY <1>0, <1>2, <2>3, JobMoves DEF Moves, JobStep
      <3>2. Active(t)
        BY <3>1 DEF Active, Relying
      <3>3. want[t] # want[u] => mixed[t]
        BY <2>1, <3>2 DEF PolicyInv, Mingled
      <3> QED
        BY <1>1, <2>1, <3>3
    <2> QED
      BY <2>2, <2>3
  <1>3. CASE KeepsPolicy
    <2>1. box # NoBox /\ box'.cfg = box.cfg
      BY <1>3 DEF KeepsPolicy
    <2>2. CASE step[t] \in Relying
      BY <1>1, <2>1, <2>2 DEF PolicyInv, ReliesOnOwn
    <2>3. CASE Matches(t)
      BY <1>1, <2>1, <2>3 DEF Matches
    <2>4. CASE CreateBox(t)
      <3>1. GoOn(t, "recheck")
        BY <2>1, <2>4 DEF CreateBox
      <3> QED
        BY <1>0, <3>1 DEF GoOn, JobsTyped, Relying
    <2> QED
      BY <1>0, <2>2, <2>3, <2>4, ReliesAnew
  <1>4. KeepsPolicy \/ \E u \in Jobs : CreateBox(u) \/ CreateHangs(u)
    <2>1. CASE UNCHANGED poolVars
      BY <2>1 DEF poolVars, KeepsPolicy
    <2>2. CASE PoolNext
      BY <2>2, PolicyKept DEF PoolNext, JobStep
    <2> QED
      BY <2>1, <2>2
  <1> QED
    BY <1>2, <1>3, <1>4

(* A task's commands run under the policy it asked for, in whatever order   *)
(* tasks inspect, start, remove, create and lose the race to create, and     *)
(* whatever disturbs the container, unless tasks of two policies overlapped. *)
THEOREM RunsUnderOwnPolicy == PoolSpec => []UsesOwnPolicy
  <1>1. PoolInit => PolicyInv
    BY DEF PoolInit, PolicyInv, Mingled, ReliesOnOwn, Active, Relying
  <1>2. PoolTypeOK /\ PolicyInv /\ [PoolNext]_poolVars => PolicyInv'
    BY MingledStep, ReliesStep DEF PolicyInv
  <1>3. PolicyInv => UsesOwnPolicy
    BY DEF PolicyInv, ReliesOnOwn, UsesOwnPolicy, Using, Relying
  <1> QED
    BY <1>1, <1>2, <1>3, PoolTypeCorrect, PTL DEF PoolSpec

-----------------------------------------------------------------------------
(* Who removes a container, and why *)

\* A remover that still knows the container has something against it; one
\* that is about to start it has found it stopped.
RemoverInv ==
    \A t \in Jobs : box # NoBox /\ current[t] =>
        /\ step[t] = "remove" => box.cfg # want[t] \/ ~box.running \/ ~box.mount
        /\ step[t] = "start" => ~box.running

\* A step either leaves the container alone or tells every thread.
Tells == \/ UNCHANGED box
         \/ box' = NoBox
         \/ \A t \in Jobs : ~current'[t]

LEMMA EveryoneIsTold ==
    ASSUME PoolTypeOK, [PoolNext]_poolVars
    PROVE  Tells
  <1>1. ASSUME NEW t \in Jobs, StartBox(t) PROVE Tells
    <2>1. CASE box.running
      <3>1. [box EXCEPT !.running = TRUE] = box
        BY <2>1 DEF PoolTypeOK
      <3> QED
        BY <1>1, <3>1 DEF StartBox, Tells
    <2>2. CASE ~box.running
      BY <1>1, <2>2 DEF StartBox, Outdate, Tells
    <2> QED
      BY <2>1, <2>2
  <1>2. ASSUME NEW t \in Jobs, CreateBox(t) \/ Hangs(t) PROVE Tells
    BY <1>2 DEF CreateBox, Hangs, StartHangs, ProbeHangs, CreateHangs, Outdate, Tells
  <1>3. ASSUME NEW t \in Jobs,
               \/ BeginJob(t) \/ Inspect(t) \/ Probe(t) \/ RemoveBox(t)
               \/ Recheck(t) \/ StartUse(t) \/ EndUse(t) \/ CancelJob(t)
        PROVE  Tells
    BY <1>3 DEF BeginJob, Inspect, Probe, RemoveBox, Recheck, StartUse, EndUse,
       CancelJob, Tells
  <1>4. CASE ReaperStep \/ Tick \/ EditPolicy \/ LoseState \/ CrashServer
    BY <1>4 DEF ReaperStep, ListBoxes, LoadStamps, SaveStamps, Reap, Tick,
       EditPolicy, LoseState, CrashServer, Tells
  <1>5. CASE Disturb
    BY <1>5 DEF Disturb, Outdate, Tells
  <1>6. CASE UNCHANGED poolVars
    BY <1>6 DEF poolVars, Tells
  <1> QED
    BY <1>1, <1>2, <1>3, <1>4, <1>5, <1>6 DEF PoolNext, JobStep, Hangs

\* What the step of a thread that reaches "start" or "remove" has seen.
LEMMA ReachesRemover ==
    ASSUME JobsTyped, [PoolNext]_poolVars, NEW t \in Jobs, UNCHANGED box,
           step'[t] \in {"start", "remove"}, box # NoBox
    PROVE  \/ step'[t] = step[t] /\ want'[t] = want[t] /\ (current'[t] => current[t])
           \/ Inspect(t)
           \/ StartBox(t) /\ step'[t] = "remove" /\ want'[t] = want[t]
                 /\ step[t] = "start" /\ current' = current
           \/ Probe(t) /\ ~(box.running /\ box.mount) /\ step'[t] = "remove"
  <1> USE DEF requests
  <1>1. ASSUME NEW u \in Jobs, BeginJob(u)
        PROVE  step'[t] = step[t] /\ want'[t] = want[t] /\ (current'[t] => current[t])
    <2>1. u # t
      BY <1>1 DEF BeginJob, GoOn, JobsTyped
    <2> QED
      BY <1>1, <2>1 DEF BeginJob, GoOn, JobsTyped
  <1>2. ASSUME NEW u \in Jobs, JobStep(u) \/ EndUse(u) \/ CancelJob(u), u # t
        PROVE  step'[t] = step[t] /\ want'[t] = want[t] /\ (current'[t] => current[t])
    <2>1. step'[t] = step[t] /\ want'[t] = want[t]
      BY <1>2, JobMoves DEF Moves
    <2>2. current'[t] => current[t]
      BY <1>2, HangMoves DEF JobStep, Hangs, Inspect, StartBox, Probe, RemoveBox, CreateBox, Recheck,
         StartUse, EndUse, CancelJob, Outdate, Forget, JobsTyped
    <2> QED
      BY <2>1, <2>2
  <1>3. CASE StartBox(t)
    <2>1. CASE GoOn(t, "probe")
      BY <2>1 DEF GoOn, JobsTyped
    <2>2. CASE ~GoOn(t, "probe")
      BY <1>3, <2>2 DEF StartBox, GoOn, JobsTyped
    <2> QED
      BY <2>1, <2>2
  <1>4. CASE Probe(t)
    <2>1. CASE Return(t)
      BY <2>1, ReturnMoves
    <2>2. CASE ~Return(t)
      BY <1>4, <2>2 DEF Probe, GoOn, JobsTyped
    <2> QED
      BY <2>1, <2>2
  <1>5. CASE RemoveBox(t)
    BY <1>5 DEF RemoveBox, GoOn, JobsTyped
  <1>6. CASE CreateBox(t)
    BY <1>6 DEF CreateBox, GoOn, JobsTyped
  <1>7. CASE Recheck(t)
    BY <1>7, ReturnMoves, LeaveMoves DEF Recheck
  <1>8. CASE StartUse(t) \/ EndUse(t)
    BY <1>8, LeaveMoves DEF StartUse, EndUse, GoOn, JobsTyped
  <1>9. CASE CancelJob(t)
    <2>1. CASE Leave(t)
      BY <2>1, LeaveMoves
    <2>2. CASE ~Leave(t)
      BY <1>9, <2>2 DEF CancelJob
    <2> QED
      BY <2>1, <2>2
  <1>10. CASE ReaperStep \/ Tick \/ EditPolicy \/ LoseState \/ Disturb
    BY <1>10 DEF ReaperStep, ListBoxes, LoadStamps, SaveStamps, Reap, Tick,
       EditPolicy, Disturb, Outdate, LoseState
  <1>11. CASE CrashServer
    BY <1>11 DEF CrashServer
  <1>12. CASE UNCHANGED poolVars
    BY <1>12 DEF poolVars
  <1>13. CASE Hangs(t)
    BY <1>13, HangMoves
  <1>14. CASE JobStep(t) /\ ~Inspect(t)
    BY <1>3, <1>4, <1>5, <1>6, <1>7, <1>8, <1>13, <1>14 DEF JobStep, Hangs
  <1> QED
    BY <1>1, <1>2, <1>8, <1>9, <1>10, <1>11, <1>12, <1>14 DEF PoolNext

LEMMA RemoverStep ==
    ASSUME PoolTypeOK, RemoverInv, [PoolNext]_poolVars
    PROVE  RemoverInv'
  <1>0. JobsTyped
    BY TypedParts
  <1> SUFFICES ASSUME NEW t \in Jobs, box' # NoBox, current'[t],
                      step'[t] \in {"start", "remove"}
               PROVE  /\ step'[t] = "remove" => \/ box'.cfg # want'[t]
                                                \/ ~box'.running \/ ~box'.mount
                      /\ step'[t] = "start" => ~box'.running
    BY DEF RemoverInv
  <1>1. UNCHANGED box /\ box # NoBox
    BY EveryoneIsTold DEF Tells
  <1>2. CASE step'[t] = step[t] /\ want'[t] = want[t] /\ (current'[t] => current[t])
    BY <1>1, <1>2 DEF RemoverInv
  <1>3. CASE Inspect(t)
    BY <1>0, <1>1, <1>3 DEF Inspect, Matches, GoOn, JobsTyped, requests
  <1>4. CASE StartBox(t) /\ step'[t] = "remove" /\ want'[t] = want[t]
                 /\ step[t] = "start" /\ current' = current
    BY <1>1, <1>4 DEF RemoverInv
  <1>5. CASE Probe(t) /\ ~(box.running /\ box.mount) /\ step'[t] = "remove"
    BY <1>1, <1>5
  <1> QED
    BY <1>0, <1>1, <1>2, <1>3, <1>4, <1>5, ReachesRemover

(* A container in use is removed by another task only for its policy, its    *)
(* state or its mount, or when it changed after the remover looked.          *)
THEOREM RemovalsHaveReasons == PoolSpec => RemovesWithReason
  <1>1. PoolInit => RemoverInv
    BY DEF PoolInit, RemoverInv
  <1>2. PoolTypeOK /\ RemoverInv /\ [PoolNext]_poolVars => RemoverInv'
    BY RemoverStep
  <1>3. RemoverInv =>
          \A t \in Jobs :
              step[t] = "remove" /\ step'[t] = "create" /\ box # NoBox
                  /\ box' = NoBox /\ (\E u \in Jobs \ {t} : Using(u))
              => \/ box.cfg # want[t] \/ ~box.running \/ ~box.mount
                 \/ ~current[t]
    BY DEF RemoverInv
  <1> QED
    BY <1>1, <1>2, <1>3, PoolTypeCorrect, PTL DEF PoolSpec, RemovesWithReason

-----------------------------------------------------------------------------
(* What the reaper condemns *)

\* No stamp, recorded or read by a pass, is older than the last mark; only a
\* pass that holds the lock has one in hand.
StampsHonest ==
    /\ stamp # Unstamped => stamp <= touched
    /\ loaded # Unstamped => loaded <= touched
    /\ sweep # "loaded" => loaded = Unstamped

\* A task marked the container when its use began, or another marked it later.
UsersRecent == \A t \in Jobs : Using(t) => touched <= crossed[t]

LEMMA HonestStep ==
    ASSUME PoolTypeOK, StampsHonest, [PoolNext]_poolVars
    PROVE  StampsHonest'
  <1> USE DEF marks, reaping
  <1>0. /\ IdleTTL \in Nat /\ IdleTTL > 0 /\ Unstamped = IdleTTL + 2
        /\ stamp \in 0..Unstamped /\ touched \in 0..(IdleTTL + 1)
        /\ loaded \in 0..Unstamped
    BY PoolAssumption DEF PoolTypeOK, Unstamped
  <1>1. ASSUME NEW t \in Jobs,
               \/ BeginJob(t) \/ Inspect(t) \/ StartBox(t) \/ Probe(t)
               \/ RemoveBox(t) \/ CreateBox(t) \/ Recheck(t) \/ CancelJob(t)
               \/ Hangs(t)
        PROVE  StampsHonest'
    BY <1>1, ClocksStand DEF StampsHonest, Unstamped
  <1>2. ASSUME NEW t \in Jobs, StartUse(t) \/ EndUse(t) PROVE StampsHonest'
    <2>1. /\ stamp' = 0 /\ touched' = 0 /\ sweep # "loaded"
          /\ sweep' = sweep /\ loaded' = loaded
      BY <1>2 DEF StartUse, EndUse, Touch, MayTouch
    <2>2. 0 <= 0
      OBVIOUS
    <2> QED
      BY <2>1, <2>2 DEF StampsHonest, Unstamped
  <1>3. CASE ListBoxes \/ Reap \/ LoadStamps
    BY <1>3 DEF ListBoxes, Reap, LoadStamps, StampsHonest, Unstamped
  <1>4. CASE SaveStamps
    <2>1. /\ stamp' = Restamped /\ loaded' = Unstamped /\ touched' = touched
          /\ Restamped = Unstamped \/ Restamped = 0
                \/ (Restamped = loaded /\ loaded # Unstamped)
      BY <1>4 DEF SaveStamps, Restamped
    <2>2. 0 <= touched
      BY <1>0
    <2>3. Unstamped' = Unstamped
      BY DEF Unstamped
    <2> QED
      BY <2>1, <2>2, <2>3 DEF StampsHonest
  <1>5. CASE Tick
    <2>1. /\ stamp' = Older(stamp) /\ loaded' = Older(loaded)
          /\ touched' = Older(touched) /\ sweep' = sweep
      BY <1>5 DEF Tick
    <2>2. \A a \in 0..Unstamped :
             /\ a # Unstamped /\ a <= touched =>
                    Older(a) <= Older(touched) /\ Older(a) # Unstamped
             /\ a = Unstamped => Older(a) = Unstamped
      BY <1>0 DEF Older
    <2>3. Unstamped' = Unstamped
      BY DEF Unstamped
    <2> QED
      BY <1>0, <2>1, <2>2, <2>3 DEF StampsHonest
  <1>6. CASE EditPolicy \/ Disturb \/ LoseState \/ CrashServer
    BY <1>6 DEF EditPolicy, Disturb, LoseState, CrashServer, StampsHonest, Unstamped
  <1>7. CASE UNCHANGED poolVars
    BY <1>7 DEF poolVars, StampsHonest, Unstamped
  <1> QED
    BY <1>1, <1>2, <1>3, <1>4, <1>5, <1>6, <1>7 DEF PoolNext, JobStep, ReaperStep, Hangs

LEMMA RecentStep ==
    ASSUME PoolTypeOK, UsersRecent, [PoolNext]_poolVars
    PROVE  UsersRecent'
  <1> USE DEF marks, reaping
  <1>0. /\ JobsTyped /\ IdleTTL \in Nat /\ TaskTicks \in Nat
        /\ touched \in 0..(IdleTTL + 1)
    BY PoolAssumption DEF PoolTypeOK, JobsTyped, Steps
  <1>1. ASSUME NEW t \in Jobs,
               \/ BeginJob(t) \/ Inspect(t) \/ StartBox(t) \/ Probe(t)
               \/ RemoveBox(t) \/ CreateBox(t) \/ Recheck(t) \/ CancelJob(t)
               \/ Hangs(t)
        PROVE  UsersRecent'
    <2>1. UNCHANGED <<touched, crossed>>
      BY <1>1, ClocksStand
    <2>2. ASSUME NEW u \in Jobs, Using(u)' PROVE Using(u)
      <3>1. CASE BeginJob(t) \/ Inspect(t) \/ StartBox(t) \/ RemoveBox(t)
        BY <1>0, <2>2, <3>1 DEF BeginJob, Inspect, StartBox, RemoveBox, GoOn,
           JobsTyped, Using
      <3>2. CASE CreateBox(t) \/ Probe(t) \/ Recheck(t) \/ CancelJob(t)
        <4>1. CASE u # t
          BY <1>0, <2>2, <3>2, <4>1, JobMoves DEF Moves, Using, JobStep
        <4>2. CASE Leave(t) \/ Return(t)
          BY <1>0, <2>2, <4>1, <4>2, LeaveMoves, ReturnMoves DEF Using
        <4>3. CASE ~(Leave(t) \/ Return(t))
          BY <1>0, <2>2, <3>2, <4>3 DEF CreateBox, Probe, Recheck, CancelJob,
             GoOn, JobsTyped, Using
        <4> QED
          BY <4>1, <4>2, <4>3
      <3>3. CASE Hangs(t)
        <4>1. Moves(t) /\ step'[t] = "out"
          BY <1>0, <3>3, HangMoves
        <4> QED
          BY <2>2, <4>1 DEF Moves, Using
      <3> QED
        BY <1>1, <3>1, <3>2, <3>3
    <2> QED
      BY <2>1, <2>2 DEF UsersRecent
  <1>2. ASSUME NEW t \in Jobs, StartUse(t) \/ EndUse(t) PROVE UsersRecent'
    <2>1. touched' = 0 /\ crossed' = [crossed EXCEPT ![t] = 0]
      BY <1>2 DEF StartUse, EndUse, Touch
    <2>2. \A u \in Jobs : crossed'[u] \in 0..TaskTicks
      BY <1>0, <2>1 DEF JobsTyped
    <2> QED
      BY <1>0, <2>1, <2>2 DEF UsersRecent
  <1>3. CASE ReaperStep \/ EditPolicy \/ Disturb \/ LoseState
    BY <1>3 DEF ReaperStep, ListBoxes, LoadStamps, SaveStamps, Reap, EditPolicy,
       Disturb, LoseState, UsersRecent, Using
  <1>4. CASE Tick
    <2>1. ASSUME NEW u \in Jobs, Using(u)'
          PROVE  touched' <= crossed'[u]
      <3>1. Using(u) /\ crossed'[u] = crossed[u] + 1
        BY <1>0, <1>4, <2>1 DEF Tick, Using, JobsTyped
      <3>2. touched' <= touched + 1
        BY <1>0, <1>4 DEF Tick, Older
      <3>3. touched <= crossed[u] /\ crossed[u] \in 0..TaskTicks
        BY <1>0, <3>1 DEF UsersRecent, JobsTyped
      <3>4. touched' \in Nat
        BY <1>0, <1>4 DEF Tick, Older
      <3> QED
        BY <1>0, <3>1, <3>2, <3>3, <3>4
    <2> QED
      BY <2>1 DEF UsersRecent
  <1>5. CASE CrashServer
    BY <1>5 DEF CrashServer, UsersRecent, Using
  <1>6. CASE UNCHANGED poolVars
    BY <1>6 DEF poolVars, UsersRecent, Using
  <1> QED
    BY <1>1, <1>2, <1>3, <1>4, <1>5, <1>6 DEF PoolNext, JobStep, Hangs

LEMMA OnlyExpired ==
    ASSUME PoolTypeOK, StampsHonest, UsersRecent, [PoolNext]_poolVars,
           sweep' = "doomed", sweep # "doomed"
    PROVE  touched > IdleTTL /\ \A t \in Jobs : ~Using(t)
  <1> USE DEF marks, reaping
  <1>1. SaveStamps
    BY DEF PoolNext, JobStep, BeginJob, Inspect, StartBox, Probe, RemoveBox,
       CreateBox, Recheck, StartUse, EndUse, CancelJob, StartHangs, ProbeHangs,
       CreateHangs, ReaperStep, ListBoxes, LoadStamps, Reap, Tick, EditPolicy, Disturb, LoseState, CrashServer, poolVars
  <1>2. Expired
    BY <1>1 DEF SaveStamps
  <1>3. loaded # Unstamped /\ loaded > IdleTTL /\ loaded <= touched
    BY <1>2 DEF Expired, StampsHonest
  <1>4. /\ IdleTTL \in Nat /\ TaskTicks \in Nat /\ TaskTicks <= IdleTTL
        /\ touched \in 0..(IdleTTL + 1) /\ loaded \in 0..(IdleTTL + 2)
    BY PoolAssumption DEF PoolTypeOK, Unstamped
  <1>5. touched > IdleTTL
    BY <1>3, <1>4
  <1>6. ASSUME NEW t \in Jobs PROVE ~(touched <= crossed[t])
    <2>1. crossed[t] \in 0..TaskTicks
      BY DEF PoolTypeOK
    <2> QED
      BY <1>4, <1>5, <2>1
  <1> QED
    BY <1>5, <1>6 DEF UsersRecent

(* The reaper condemns a container only after more than the TTL without a    *)
(* mark and with no task using it, for any TTL no shorter than a task, any   *)
(* number of tasks and any losses of the state file.                        *)
THEOREM ReapsIdleOnly == PoolSpec => ReapsOnlyIdle
  <1>1. PoolInit => StampsHonest /\ UsersRecent
    BY DEF PoolInit, StampsHonest, UsersRecent, Using
  <1>2. PoolTypeOK /\ StampsHonest /\ UsersRecent /\ [PoolNext]_poolVars
          => StampsHonest' /\ UsersRecent'
    BY HonestStep, RecentStep
  <1>3. PoolTypeOK /\ StampsHonest /\ UsersRecent /\ [PoolNext]_poolVars =>
          (sweep' = "doomed" /\ sweep # "doomed" =>
              touched > IdleTTL /\ \A t \in Jobs : ~Using(t))
    BY OnlyExpired
  <1> QED
    BY <1>1, <1>2, <1>3, PoolTypeCorrect, PTL DEF PoolSpec, ReapsOnlyIdle

-----------------------------------------------------------------------------
(* The reference clone of a repository *)

Calls == {"out", "waiting", "refreshing", "resetting", "cloning", "reading"}

\* CloneTypeOK in parts: the calls and what is on disk, and the stamps.
CallsTyped ==
    /\ dir \in Dirs /\ lock \subseteq Reads /\ call \in [Reads -> Calls]
    /\ spoiled \in BOOLEAN /\ pruned \in [Reads -> BOOLEAN]
    /\ prune \in {"idle", "chosen", "deleting"}
AgesTyped ==
    /\ fetched \in 0..Never /\ used \in 0..Never
    /\ behind \in 0..Never /\ tried \in 0..Never
FaultsTyped == gitFaults \in 0..MaxGitFaults

\* Every step of one call, by what it does to the calls.
CallStep(r) == AskClone(r) \/ EnterClone(r) \/ GitStep(r) \/ ReadFiles(r)
Goes(r) == /\ \A q \in Reads \ {r} : call'[q] = call[q] /\ pruned'[q] = pruned[q]
           /\ call' \in [Reads -> Calls] /\ pruned' \in [Reads -> BOOLEAN]
Housekeeping == ChooseClone \/ DeletePart \/ DeleteRest \/ CloneTick \/ CrashClones

LEMMA CallGoing ==
    ASSUME CallsTyped, NEW r \in Reads, CallStep(r)
    PROVE  Goes(r)
  BY DEF CallStep, EnterClone, GitStep, AskClone, ServeFresh, BeginRefresh,
     BeginCloning, Cloned, CloneFails, BeginReset, Refreshed, RefreshFails,
     GitTimesOut, ReadFiles, Serve, Found, CallGoes, CallsTyped, Calls, Goes, ghosts

LEMMA CallsStep == ASSUME CallsTyped, [CloneNext]_cloneVars PROVE CallsTyped'
  <1> USE DEF stamps, ghosts
  <1>1. ASSUME NEW r \in Reads, CallStep(r) PROVE CallsTyped'
    <2>1. Goes(r)
      BY <1>1, CallGoing
    <2>2. lock' \subseteq Reads
      BY <1>1 DEF CallStep, EnterClone, GitStep, AskClone, ServeFresh,
         BeginRefresh, BeginCloning, Cloned, CloneFails, BeginReset, Refreshed,
         RefreshFails, GitTimesOut, ReadFiles, Serve, AfterTimeout, CallsTyped
    <2>3. dir' \in Dirs
      BY <1>1 DEF CallStep, EnterClone, GitStep, AskClone, ServeFresh,
         BeginRefresh, BeginCloning, Cloned, CloneFails, BeginReset, Refreshed,
         RefreshFails, GitTimesOut, ReadFiles, Remains, CallsTyped, Dirs
    <2>4. spoiled' \in BOOLEAN /\ prune' = prune
      BY <1>1 DEF CallStep, EnterClone, GitStep, AskClone, ServeFresh,
         BeginRefresh, BeginCloning, Cloned, CloneFails, BeginReset, Refreshed,
         RefreshFails, GitTimesOut, ReadFiles, CallsTyped
    <2> QED
      BY <2>1, <2>2, <2>3, <2>4 DEF CallsTyped, Goes
  <1>2. CASE ChooseClone \/ DeletePart \/ DeleteRest
    <2>1. /\ dir' \in {dir, "half", "debris", "absent"}
          /\ lock' = lock /\ call' = call
      BY <1>2 DEF ChooseClone, DeletePart, DeleteRest
    <2>2. /\ spoiled' \in BOOLEAN /\ pruned' \in [Reads -> BOOLEAN]
          /\ prune' \in {"idle", "chosen", "deleting"}
      BY <1>2 DEF ChooseClone, DeletePart, DeleteRest, CallsTyped
    <2> QED
      BY <2>1, <2>2 DEF CallsTyped, Dirs
  <1>3. CASE CloneTick \/ CrashClones
    <2>1. CASE CloneTick
      BY <2>1 DEF CloneTick, CallsTyped
    <2>2. CASE CrashClones
      <3>1. spoiled' \in BOOLEAN
        BY <2>2 DEF CrashClones
      <3>2. /\ dir' = dir /\ lock' = {} /\ pruned' = pruned /\ prune' = "idle"
            /\ call' \in [Reads -> Calls]
        BY <2>2 DEF CrashClones, Calls
      <3> QED
        BY <3>1, <3>2 DEF CallsTyped
    <2> QED
      BY <1>3, <2>1, <2>2
  <1>4. CASE UNCHANGED cloneVars
    BY <1>4 DEF cloneVars, CallsTyped
  <1> QED
    BY <1>1, <1>2, <1>3, <1>4 DEF CloneNext, CallStep

LEMMA AgesStep == ASSUME AgesTyped, [CloneNext]_cloneVars PROVE AgesTyped'
  <1> USE DEF AgesTyped, stamps
  <1>0. Retention \in Nat /\ Never = Retention + 2 /\ Never' = Never
    BY CloneAssumption DEF Never
  <1>1. ASSUME NEW r \in Reads, CallStep(r) PROVE AgesTyped'
    <2>1. /\ fetched' \in {fetched, 0, Never} /\ used' \in {used, 0, Never}
          /\ behind' \in {behind, 0} /\ tried' \in {tried, 0}
      BY <1>1 DEF CallStep, EnterClone, GitStep, AskClone, ServeFresh,
         BeginRefresh, BeginCloning, Cloned, CloneFails, BeginReset, Refreshed,
         RefreshFails, GitTimesOut, ReadFiles, Serve
    <2> QED
      BY <1>0, <2>1
  <1>2. CASE ChooseClone \/ DeletePart \/ DeleteRest \/ CrashClones
    <2>1. /\ fetched' \in {fetched, Never} /\ used' \in {used, Never}
          /\ behind' = behind /\ tried' = tried
      BY <1>2 DEF ChooseClone, DeletePart, DeleteRest, CrashClones
    <2> QED
      BY <1>0, <2>1
  <1>3. CASE CloneTick
    BY <1>0, <1>3 DEF CloneTick, Aged
  <1>4. CASE UNCHANGED cloneVars
    BY <1>0, <1>4 DEF cloneVars
  <1> QED
    BY <1>1, <1>2, <1>3, <1>4 DEF CloneNext, CallStep

LEMMA FaultsStep == ASSUME FaultsTyped, [CloneNext]_cloneVars PROVE FaultsTyped'
  <1>1. gitFaults' = gitFaults \/ GitFault
    BY DEF CloneNext, EnterClone, GitStep, AskClone, ServeFresh, BeginRefresh,
       BeginCloning, Cloned, CloneFails, BeginReset, Refreshed, RefreshFails,
     GitTimesOut,   ReadFiles, ChooseClone, DeletePart, DeleteRest, CloneTick, CrashClones,
       cloneVars
  <1> QED
    BY <1>1, CloneAssumption DEF GitFault, FaultsTyped

(* Every variable of the clone stays in its type (CloneTypeOK).             *)
THEOREM CloneTypeCorrect == CloneSpec => []CloneTypeOK
  <1>1. CloneInit => CallsTyped /\ AgesTyped /\ FaultsTyped
    <2> SUFFICES ASSUME CloneInit PROVE CallsTyped /\ AgesTyped /\ FaultsTyped
      OBVIOUS
    <2>1. CallsTyped
      BY DEF CloneInit, CallsTyped, Dirs, Calls
    <2>2. AgesTyped
      BY CloneAssumption DEF CloneInit, AgesTyped, Never
    <2>3. FaultsTyped
      BY CloneAssumption DEF CloneInit, FaultsTyped
    <2> QED
      BY <2>1, <2>2, <2>3
  <1>2. CallsTyped /\ AgesTyped /\ FaultsTyped /\ [CloneNext]_cloneVars
          => (CallsTyped /\ AgesTyped /\ FaultsTyped)'
    BY CallsStep, AgesStep, FaultsStep
  <1>3. CallsTyped /\ AgesTyped /\ FaultsTyped => CloneTypeOK
    BY DEF CallsTyped, AgesTyped, FaultsTyped, CloneTypeOK, Calls
  <1> QED
    BY <1>1, <1>2, <1>3, PTL DEF CloneSpec

-----------------------------------------------------------------------------
(* What a call is handed *)

Working == {"refreshing", "resetting", "cloning"}

\* The lock has at most one holder: the call that runs git.
OneHolder ==
    /\ \A q, r \in lock : q = r
    /\ \A r \in Reads : r \in lock <=> call[r] \in Working
Rewriting == \E r \in Reads : call[r] \in {"resetting", "cloning"}

\* A refresh the sweep did not meet still has the .git it found; a work tree
\* that is not whole is being written or is known as broken.
KnownBroken ==
    /\ \A r \in Reads :
          call[r] \in {"refreshing", "resetting"} /\ ~pruned[r] => HasGit
    /\ dir = "half" => spoiled \/ Rewriting

\* Every other call's step: the lock passes from nobody to r, or from r.
LEMMA LockMoves ==
    ASSUME CallsTyped, OneHolder, NEW r \in Reads, CallStep(r)
    PROVE  \/ /\ lock' = lock /\ r \notin lock
              /\ call'[r] \in {"out", "waiting"} \* asks or has read
           \/ lock = {} /\ lock' = {} /\ call'[r] = "reading"
           \/ lock = {} /\ lock' = {r} /\ call'[r] \in {"refreshing", "cloning"}
           \/ lock = {r} /\ lock' = {r} /\ call'[r] = "resetting"
           \/ lock = {r} /\ lock' = {} /\ call'[r] \in {"reading", "out"}
  <1> USE DEF Working
  <1>1. CASE AskClone(r) \/ ReadFiles(r)
    BY <1>1 DEF AskClone, ReadFiles, CallGoes, CallsTyped, OneHolder
  <1>2. CASE ServeFresh(r)
    BY <1>2 DEF ServeFresh, LockFree, Serve, CallGoes, CallsTyped
  <1>3. CASE BeginRefresh(r) \/ BeginCloning(r)
    BY <1>3 DEF BeginRefresh, BeginCloning, LockFree, CallGoes, CallsTyped
  <1>4. CASE GitStep(r)
    <2>1. call[r] \in Working
      BY <1>4 DEF GitStep, Cloned, CloneFails, BeginReset, Refreshed, RefreshFails,
         GitTimesOut
    <2>2. lock = {r}
      BY <2>1 DEF OneHolder
    <2>3. CASE BeginReset(r)
      BY <2>2, <2>3 DEF BeginReset, CallGoes, CallsTyped
    <2>4. CASE ~BeginReset(r)
      BY <1>4, <2>2, <2>4 DEF GitStep, Cloned, CloneFails, Refreshed, RefreshFails,
         GitTimesOut, Serve, AfterTimeout, CallGoes, CallsTyped
    <2> QED
      BY <2>3, <2>4
  <1> QED
    BY <1>1, <1>2, <1>3, <1>4 DEF CallStep, EnterClone

LEMMA HolderStep ==
    ASSUME CallsTyped, OneHolder, [CloneNext]_cloneVars
    PROVE  OneHolder'
  <1> USE DEF Working
  <1>1. ASSUME NEW r \in Reads, CallStep(r) PROVE OneHolder'
    BY <1>1, CallGoing, LockMoves DEF OneHolder, Goes, CallsTyped
  <1>2. CASE ChooseClone \/ DeletePart \/ DeleteRest \/ CloneTick
    BY <1>2 DEF ChooseClone, DeletePart, DeleteRest, CloneTick, OneHolder
  <1>3. CASE CrashClones
    BY <1>3 DEF CrashClones, OneHolder
  <1>4. CASE UNCHANGED cloneVars
    BY <1>4 DEF cloneVars, OneHolder
  <1> QED
    BY <1>1, <1>2, <1>3, <1>4 DEF CloneNext, CallStep

\* Who writes the tree is who holds the lock: while it is free, a tree that is
\* not whole is broken for good.
LEMMA FreeMeansBroken ==
    ASSUME OneHolder, KnownBroken, lock = {}, dir = "half"
    PROVE  spoiled
  BY DEF OneHolder, KnownBroken, Rewriting, Working

LEMMA BrokenStep ==
    ASSUME CallsTyped, OneHolder, KnownBroken, [CloneNext]_cloneVars
    PROVE  KnownBroken'
  <1> USE DEF stamps, ghosts
  <1>1. ASSUME NEW r \in Reads, AskClone(r) \/ ReadFiles(r) PROVE KnownBroken'
    <2>1. /\ UNCHANGED <<dir, spoiled, pruned>>
          /\ call[r] \in {"out", "reading"} /\ call'[r] \in {"waiting", "out"}
      BY <1>1 DEF AskClone, ReadFiles, CallGoes, CallsTyped
    <2>2. \A q \in Reads \ {r} : call'[q] = call[q]
      BY <1>1, CallGoing DEF CallStep, Goes
    <2> QED
      BY <2>1, <2>2 DEF KnownBroken, HasGit, Rewriting
  <1>2. ASSUME NEW r \in Reads, EnterClone(r) PROVE KnownBroken'
    <2>1. /\ lock = {} /\ spoiled' = spoiled
          /\ \/ HasGit /\ dir' = dir /\ call'[r] \in {"reading", "refreshing"}
             \/ call'[r] = "cloning"
      BY <1>2 DEF EnterClone, ServeFresh, BeginRefresh, BeginCloning, LockFree,
         Serve, CallGoes, CallsTyped
    <2>2. \A q \in Reads \ {r} : call'[q] = call[q] /\ call[q] \notin Working
      BY <1>2, <2>1, CallGoing DEF CallStep, Goes, OneHolder
    <2> QED
      BY <2>1, <2>2, FreeMeansBroken DEF KnownBroken, HasGit, Rewriting, Working
  <1>3. ASSUME NEW r \in Reads, GitStep(r) PROVE KnownBroken'
    <2>1. call[r] \in Working
      BY <1>3 DEF GitStep, Cloned, CloneFails, BeginReset, Refreshed, RefreshFails,
         GitTimesOut, Working
    <2>2. \A q \in Reads \ {r} : call'[q] = call[q] /\ call[q] \notin Working
      BY <1>3, <2>1, CallGoing DEF CallStep, Goes, OneHolder
    <2>3. CASE BeginReset(r)
      BY <2>2, <2>3 DEF BeginReset, CallGoes, CallsTyped, KnownBroken, HasGit,
         Rewriting, Working
    <2>4. CASE ~BeginReset(r)
      <3>1. call'[r] \in {"reading", "out"}
        BY <1>3, <2>4 DEF GitStep, Cloned, CloneFails, Refreshed, RefreshFails,
           GitTimesOut, Serve, CallGoes, CallsTyped
      <3>2. call[r] = "refreshing" => ~Rewriting
        BY <2>2 DEF Rewriting, Working
      <3>3. dir' = "half" => spoiled'
        BY <1>3, <2>4, <3>2 DEF GitStep, Cloned, CloneFails, Remains, Refreshed,
           RefreshFails, GitTimesOut, KnownBroken
      <3> QED
        BY <2>2, <3>1, <3>3 DEF KnownBroken, Working
    <2> QED
      BY <2>3, <2>4
  <1>4. CASE ChooseClone \/ CloneTick \/ UNCHANGED cloneVars
    BY <1>4 DEF ChooseClone, CloneTick, cloneVars, KnownBroken, Rewriting, HasGit
  <1>5. CASE DeletePart \/ DeleteRest
    <2>1. \A r \in Reads : pruned'[r]
      BY <1>5 DEF DeletePart, DeleteRest
    <2>2. call' = call /\ (dir' = "half" => spoiled')
      BY <1>5 DEF DeletePart, DeleteRest
    <2> QED
      BY <2>1, <2>2 DEF KnownBroken
  <1>6. CASE CrashClones
    BY <1>6 DEF CrashClones, KnownBroken
  <1> QED
    BY <1>1, <1>2, <1>3, <1>4, <1>5, <1>6 DEF CloneNext

\* What is on disk when a call is handed the directory.
LEMMA HandedWhole ==
    ASSUME CallsTyped, OneHolder, KnownBroken, [CloneNext]_cloneVars,
           NEW r \in Reads, call[r] # "reading", call'[r] = "reading"
    PROVE  dir' = "whole" \/ spoiled' \/ pruned'[r]
  <1> USE DEF stamps, ghosts
  <1>1. ASSUME NEW q \in Reads, CallStep(q) PROVE q = r /\ CallStep(r)
    BY <1>1, CallGoing DEF Goes
  <1>2. CASE ServeFresh(r)
    <2>1. lock = {} /\ HasGit /\ dir' = dir /\ spoiled' = spoiled
      BY <1>2 DEF ServeFresh, LockFree
    <2> QED
      BY <2>1, FreeMeansBroken DEF HasGit
  <1>3. CASE Cloned(r) \/ Refreshed(r)
    BY <1>3 DEF Cloned, Refreshed
  <1>4. CASE RefreshFails(r)
    <2>1. /\ call[r] \in {"refreshing", "resetting"} /\ dir' = dir /\ pruned' = pruned
          /\ spoiled' = (spoiled \/ (call[r] = "resetting" /\ dir = "half"))
      BY <1>4 DEF RefreshFails
    <2>2. pruned[r] \/ HasGit
      BY <2>1 DEF KnownBroken
    <2>3. call[r] = "refreshing" /\ dir = "half" => spoiled
      BY DEF KnownBroken, OneHolder, Rewriting, Working
    <2> QED
      BY <2>1, <2>2, <2>3 DEF HasGit
  <1>5. CASE \/ AskClone(r) \/ BeginRefresh(r) \/ BeginCloning(r) \/ BeginReset(r)
             \/ CloneFails(r) \/ GitTimesOut(r) \/ ReadFiles(r)
    BY <1>5 DEF AskClone, BeginRefresh, BeginCloning, BeginReset, CloneFails,
       GitTimesOut, ReadFiles, CallGoes, CallsTyped
  <1>6. CASE Housekeeping \/ UNCHANGED cloneVars
    BY <1>6 DEF Housekeeping, ChooseClone, DeletePart, DeleteRest, CloneTick,
       CrashClones, cloneVars
  <1> QED
    BY <1>1, <1>2, <1>3, <1>4, <1>5, <1>6 DEF CloneNext, CallStep, EnterClone,
       GitStep, Housekeeping

(* A call is handed the work tree of one commit, however the clones, fetches *)
(* and resets before it ended and whoever waits for the lock, unless a       *)
(* killed command, a failed reset or the sweep broke the tree.               *)
THEOREM WholeTreesAreHandedOut == CloneSpec => HandsOutWholeTree
  <1>1. CloneInit => CallsTyped /\ OneHolder /\ KnownBroken
    BY DEF CloneInit, CallsTyped, OneHolder, KnownBroken, Working, Dirs, Calls
  <1>2. CallsTyped /\ OneHolder /\ KnownBroken /\ [CloneNext]_cloneVars
          => (CallsTyped /\ OneHolder /\ KnownBroken)'
    BY CallsStep, HolderStep, BrokenStep
  <1>3. CallsTyped /\ OneHolder /\ KnownBroken /\ [CloneNext]_cloneVars =>
          (\A r \in Reads : call[r] # "reading" /\ call'[r] = "reading" =>
              dir' = "whole" \/ spoiled' \/ pruned'[r])
    BY HandedWhole
  <1> QED
    BY <1>1, <1>2, <1>3, PTL DEF CloneSpec, HandsOutWholeTree

-----------------------------------------------------------------------------
(* How old the files are that a call is served *)

\* A fetch stamp is no younger than the files, or than a failed refresh.
StampAccounts == fetched # Never => behind <= fetched \/ tried <= fetched

LEMMA AccountsStep ==
    ASSUME AgesTyped, StampAccounts, [CloneNext]_cloneVars
    PROVE  StampAccounts'
  <1> USE DEF stamps
  <1>0. /\ Retention \in Nat /\ Never = Retention + 2 /\ Never' = Never
        /\ fetched \in 0..Never /\ behind \in 0..Never /\ tried \in 0..Never
    BY CloneAssumption DEF Never, AgesTyped
  <1>1. ASSUME NEW r \in Reads,
               \/ AskClone(r) \/ EnterClone(r) \/ ReadFiles(r) \/ GitTimesOut(r)
               \/ CloneFails(r) \/ BeginReset(r)
        PROVE  StampAccounts'
    <2>1. fetched' \in {fetched, Never} /\ behind' = behind /\ tried' = tried
      BY <1>1 DEF AskClone, EnterClone, ServeFresh, BeginRefresh, BeginCloning,
         ReadFiles, GitTimesOut, CloneFails, BeginReset
    <2> QED
      BY <1>0, <2>1 DEF StampAccounts
  <1>2. ASSUME NEW r \in Reads, Cloned(r) \/ Refreshed(r) PROVE StampAccounts'
    <2>1. fetched' \in {0, Never} /\ behind' = 0
      BY <1>2 DEF Cloned, Refreshed
    <2> QED
      BY <1>0, <2>1 DEF StampAccounts
  <1>3. ASSUME NEW r \in Reads, RefreshFails(r) PROVE StampAccounts'
    <2>1. fetched' \in {0, fetched} /\ tried' = 0 /\ behind' = behind
      BY <1>3 DEF RefreshFails
    <2> QED
      BY <1>0, <2>1 DEF StampAccounts
  <1>4. CASE ChooseClone \/ DeletePart \/ DeleteRest \/ CrashClones
    <2>1. fetched' \in {fetched, Never} /\ behind' = behind /\ tried' = tried
      BY <1>4 DEF ChooseClone, DeletePart, DeleteRest, CrashClones
    <2> QED
      BY <1>0, <2>1 DEF StampAccounts
  <1>5. CASE CloneTick
    BY <1>0, <1>5 DEF CloneTick, Aged, StampAccounts
  <1>6. CASE UNCHANGED cloneVars
    BY <1>0, <1>6 DEF cloneVars, StampAccounts
  <1> QED
    BY <1>1, <1>2, <1>3, <1>4, <1>5, <1>6 DEF CloneNext, GitStep

LEMMA ServedFresh ==
    ASSUME CallsTyped, AgesTyped, StampAccounts, [CloneNext]_cloneVars,
           NEW r \in Reads, call[r] # "reading", call'[r] = "reading"
    PROVE  behind' < FetchTTL \/ tried' < FetchTTL
  <1> USE DEF stamps
  <1>0. /\ Retention \in Nat /\ Never = Retention + 2 /\ FetchTTL \in Nat
        /\ FetchTTL > 0 /\ FetchTTL <= Retention
        /\ fetched \in 0..Never /\ behind \in 0..Never /\ tried \in 0..Never
    BY CloneAssumption DEF Never, AgesTyped
  <1>1. ASSUME NEW q \in Reads, CallStep(q) PROVE q = r /\ CallStep(r)
    BY <1>1, CallGoing DEF Goes
  <1>2. CASE ServeFresh(r)
    <2>1. ~(fetched >= FetchTTL) /\ behind' = behind /\ tried' = tried
      BY <1>2 DEF ServeFresh, Stale
    <2> QED
      BY <1>0, <2>1 DEF StampAccounts
  <1>3. CASE Cloned(r) \/ Refreshed(r)
    <2>1. behind' = 0
      BY <1>3 DEF Cloned, Refreshed
    <2> QED
      BY <1>0, <2>1
  <1>4. CASE RefreshFails(r)
    <2>1. tried' = 0
      BY <1>4 DEF RefreshFails
    <2> QED
      BY <1>0, <2>1
  <1>5. CASE \/ AskClone(r) \/ BeginRefresh(r) \/ BeginCloning(r) \/ CloneFails(r)
             \/ BeginReset(r) \/ GitTimesOut(r) \/ ReadFiles(r)
    BY <1>5 DEF AskClone, BeginRefresh, BeginCloning, BeginReset, CloneFails,
       GitTimesOut, ReadFiles, CallGoes, CallsTyped
  <1>6. CASE Housekeeping \/ UNCHANGED cloneVars
    BY <1>6 DEF Housekeeping, ChooseClone, DeletePart, DeleteRest, CloneTick,
       CrashClones, cloneVars
  <1> QED
    BY <1>1, <1>2, <1>3, <1>4, <1>5, <1>6 DEF CloneNext, CallStep, EnterClone,
       GitStep, Housekeeping

(* A call is served files of less than the TTL ago, or a refresh failed less *)
(* than the TTL ago, for any TTL and retention with the first within the      *)
(* second.                                                                  *)
THEOREM FreshFilesAreServed == CloneSpec => ServesFreshFiles
  <1>1. CloneInit => CallsTyped /\ StampAccounts
    BY DEF CloneInit, CallsTyped, StampAccounts, Dirs, Calls
  <1>2. CloneTypeOK => CallsTyped /\ AgesTyped
    BY DEF CloneTypeOK, CallsTyped, AgesTyped, Calls
  <1>3. CallsTyped /\ AgesTyped /\ StampAccounts /\ [CloneNext]_cloneVars
          => StampAccounts'
    BY AccountsStep
  <1>4. CallsTyped /\ AgesTyped /\ StampAccounts /\ [CloneNext]_cloneVars =>
          (\A r \in Reads : call[r] # "reading" /\ call'[r] = "reading" =>
              behind' < FetchTTL \/ tried' < FetchTTL)
    BY ServedFresh
  <1> QED
    BY <1>1, <1>2, <1>3, <1>4, CloneTypeCorrect, PTL DEF CloneSpec, ServesFreshFiles

-----------------------------------------------------------------------------
(* The two side by side *)

LEMMA EachHasItsSteps == Spec => PoolSpec /\ CloneSpec
  <1>1. Init => PoolInit /\ CloneInit
    BY DEF Init
  <1>2. [Next]_vars => [PoolNext]_poolVars /\ [CloneNext]_cloneVars
    BY DEF Next, vars
  <1> QED
    BY <1>1, <1>2, PTL DEF Spec, PoolSpec, CloneSpec

(* Every state of the container, of the reaper and of the clone is one the   *)
(* code's locals, stamps and docker's answers can be in.                    *)
THEOREM PoolsTypeCorrect == Spec => []TypeOK
  <1>1. PoolTypeOK /\ CloneTypeOK => TypeOK
    BY DEF TypeOK
  <1> QED
    BY <1>1, EachHasItsSteps, PoolTypeCorrect, CloneTypeCorrect, PTL
=============================================================================
