---------------------------- MODULE TaskLifecycle ----------------------------
(***************************************************************************)
(* The life of a task: the worker's dispatcher (worker.py), one coroutine  *)
(* per launched task (TaskRunner.run, runner.py), the task rows (db.py),   *)
(* the agent's checkpoints (langgraph's saver, one thread per task), the   *)
(* clones on disk (gitops.py) and the operator's cancel, approve and       *)
(* reject requests (server.py), across shutdowns, crashes and restarts.    *)
(*                                                                         *)
(* Everything runs on one event loop, so a step is what a coroutine does   *)
(* between two awaits.  aiosqlite hands every operation to one thread in   *)
(* the order of issue: an operation takes effect in the step that issues   *)
(* it, and the value a read returns is used in a later step, after other   *)
(* coroutines may have moved.  A cancellation is raised at the await the   *)
(* coroutine is suspended in.                                              *)
(***************************************************************************)
EXTENDS Naturals, FiniteSets

CONSTANTS
    N,              \* number of tasks ever submitted (bound)
    Revisions,      \* tasks with a parent_id: t revises the task t - 1
    ApprovalTasks,  \* tasks whose repository requires approval
    MaxConcurrent,  \* settings.max_concurrent_tasks
    Retention,      \* settings.workspace_retention
    Savers,         \* the checkpointers the deployment may have
    Environment,    \* what operators and the host may do
    Requests,       \* operator requests in flight at once (bound)
    MaxFaults       \* crashes, days on which the cap is reached and database
                    \* errors (bound)

Task == 1..N
NoTask == 0

ASSUME NAssumption == N \in Nat
ASSUME RevisionsAssumption == Revisions \subseteq Task /\ 1 \notin Revisions
ASSUME LimitsAssumption ==
    MaxConcurrent \in Nat /\ Retention \in Nat /\ MaxFaults \in Nat
ASSUME SaversAssumption == Savers \subseteq {"durable", "memory", "none"}

VARIABLES
    up,        \* "up", "stopping" (Worker.stop awaits its tasks) or "down"
    saver,     \* the runner's checkpointer: "durable", "memory" or "none"
    status,    \* tasks.status, "absent" before the INSERT
    branched,  \* rows whose branch column is set
    ckpt,      \* each thread's checkpoint: "none", or taken against the clone
               \* on disk now ("current") or against one that is gone ("stale")
    clones,    \* tasks with a directory under workspaces/
    newer,     \* newer[t]: tasks whose directory was created after t's
    shipped,   \* tasks whose branch was pushed to the remote
    pc,        \* where a task's coroutine is suspended; not "idle" exactly
               \* when the task is a key of Worker.running
    run,       \* the coroutine's locals
    cand,      \* the row the dispatcher read and has not launched yet
    capped,    \* today's spend has reached DAILY_BUDGET_USD
    req,       \* operator requests between their read and their write
    faults

vars == <<up, saver, status, branched, ckpt, clones, newer, shipped, pc, run,
          cand, capped, req, faults>>

-----------------------------------------------------------------------------
(* States *)

Status == {"queued", "running", "awaiting_approval", "completed", "failed",
           "cancelled"}
Terminal == {"completed", "failed", "cancelled"}

\* Inside run()'s try block, in its except handlers, and after them.
Body == {"resolving", "opening", "cloning", "setup", "streaming", "wrapping",
         "held", "done"}
Handlers == {"cancelling", "parking", "failing", "parked", "failed",
             "interrupted"}
Control == {"idle", "launched", "starting", "cleanup", "reading", "pruning",
            "notifying"} \cup Body \cup Handlers

\* resumed: the local `resume`.  keep: keep_checkpoint.  end: how run() ends
\* for _run: "return", "parked" (status queued) or "raised" (CancelledError).
\* seen: what _protected_workspaces has read so far.
FreshRun == [resumed |-> FALSE, keep |-> FALSE, end |-> "return", seen |-> {}]
RunLocals == [resumed: BOOLEAN, keep: BOOLEAN,
              end: {"return", "parked", "raised"}, seen: SUBSET Task]

NoReq == [op |-> "none", task |-> NoTask, saw |-> "absent"]
RequestState ==
    {NoReq} \cup [op: {"cancel", "approve", "ship", "reject"}, task: Task,
                  saw: Status]

TypeOK ==
    /\ up \in {"up", "stopping", "down"}
    /\ saver \in {"durable", "memory", "none"}
    /\ status \in [Task -> Status \cup {"absent"}]
    /\ branched \subseteq Task
    /\ ckpt \in [Task -> {"none", "current", "stale"}]
    /\ clones \subseteq Task
    /\ newer \in [Task -> SUBSET Task]
    /\ shipped \subseteq Task
    /\ pc \in [Task -> Control]
    /\ run \in [Task -> RunLocals]
    /\ cand \in Task \cup {NoTask}
    /\ capped \in BOOLEAN
    /\ req \in [Requests -> RequestState]
    /\ faults \in 0..MaxFaults

Running == {t \in Task : pc[t] # "idle"}          \* the keys of Worker.running
WithStatus(s) == {t \in Task : status[t] = s}
IsRevision(t) == t \in Revisions

Init ==
    /\ up = "up"
    /\ saver \in Savers
    /\ status = [t \in Task |-> "absent"]
    /\ branched = {}
    /\ ckpt = [t \in Task |-> "none"]
    /\ clones = {}
    /\ newer = [t \in Task |-> {}]
    /\ shipped = {}
    /\ pc = [t \in Task |-> "idle"]
    /\ run = [t \in Task |-> FreshRun]
    /\ cand = NoTask
    /\ capped = FALSE
    /\ req = [r \in Requests |-> NoReq]
    /\ faults = 0

-----------------------------------------------------------------------------
(* Submission.  An intake or the UI inserts a queued row; a revision needs a *)
(* parent that has a branch.                                                 *)

CreateTask(t) ==
    /\ up = "up"
    /\ status[t] = "absent"
    /\ \A u \in Task : u < t => status[u] # "absent"
    /\ IsRevision(t) => t - 1 \in branched
    /\ status' = [status EXCEPT ![t] = "queued"]
    /\ UNCHANGED <<up, saver, branched, ckpt, clones, newer, shipped, pc, run,
                   cand, capped, req, faults>>

-----------------------------------------------------------------------------
(* The dispatcher.  It reads the oldest queued row, awaits the daily-budget  *)
(* check and launches the row it read without looking at it again.  The test *)
(* `task.id not in self.running` is made in the step of the read: a task     *)
(* enters `running` only here, and a row that parks and leaves `running`     *)
(* between the two is picked a second later.                                 *)

HasSlotLax == Cardinality(Running) <= MaxConcurrent
HasSlot == Cardinality(Running) < MaxConcurrent
NotInFlightUnchecked(t) == TRUE
NotInFlight(t) == t \notin Running
OldestQueued(t) ==
    /\ status[t] = "queued"
    /\ \A u \in WithStatus("queued") : t <= u

DispatchPick(t) ==
    /\ up = "up"
    /\ cand = NoTask
    /\ HasSlot
    /\ OldestQueued(t)
    /\ NotInFlight(t)
    /\ cand' = t
    /\ UNCHANGED <<up, saver, status, branched, ckpt, clones, newer, shipped,
                   pc, run, capped, req, faults>>

DispatchLaunch ==
    /\ up = "up"
    /\ cand # NoTask
    /\ ~capped
    /\ pc' = [pc EXCEPT ![cand] = "launched"]
    /\ run' = [run EXCEPT ![cand] = FreshRun]
    /\ cand' = NoTask
    /\ UNCHANGED <<up, saver, status, branched, ckpt, clones, newer, shipped,
                   capped, req, faults>>

DispatchRefuse ==
    /\ up = "up"
    /\ cand # NoTask
    /\ capped
    /\ cand' = NoTask
    /\ UNCHANGED <<up, saver, status, branched, ckpt, clones, newer, shipped,
                   pc, run, capped, req, faults>>

-----------------------------------------------------------------------------
(* The coroutine: TaskRunner.run inside Worker._launch's _run.               *)

At(t, p) == pc[t] = p
Goto(t, p) == pc' = [pc EXCEPT ![t] = p]

\* The row is flipped to running before run() enters its try block.
Start(t) ==
    /\ At(t, "launched")
    /\ Goto(t, "starting")
    /\ status' = [status EXCEPT ![t] = "running"]
    /\ UNCHANGED <<up, saver, branched, ckpt, clones, newer, shipped, run,
                   cand, capped, req, faults>>

\* aiosqlite answers in the order of issue: a request that read this row
\* while it was queued acts before the run is past its preamble.
NoOlderReader(t) ==
    \A r \in Requests : ~(req[r].task = t /\ req[r].saw = "queued")

EnterTry(t) ==
    /\ At(t, "starting")
    /\ NoOlderReader(t)
    /\ Goto(t, "resolving")
    /\ UNCHANGED <<up, saver, status, branched, ckpt, clones, newer, shipped,
                   run, cand, capped, req, faults>>

\* Resume only when a checkpoint exists and the clone is still on disk; a
\* checkpoint that cannot be resumed is deleted, but only for a task that is
\* not a revision.
HasCheckpoint(t) == ckpt[t] # "none"
Resumable(t) == ~IsRevision(t) /\ HasCheckpoint(t) /\ t \in clones
CkptOnResolveKept(t) == ckpt[t]
CkptOnResolve(t) == IF IsRevision(t) \/ Resumable(t) THEN ckpt[t] ELSE "none"

Resolve(t) ==
    /\ At(t, "resolving")
    /\ Goto(t, "opening")
    /\ run' = [run EXCEPT ![t].resumed = Resumable(t)]
    /\ ckpt' = [ckpt EXCEPT ![t] = CkptOnResolve(t)]
    /\ UNCHANGED <<up, saver, status, branched, clones, newer, shipped, cand,
                   capped, req, faults>>

\* A clone that leaves the disk takes with it what its checkpoint describes.
Stale(c) == IF c = "none" THEN "none" ELSE "stale"

\* prepare_workspace: a resumed run reuses the clone if it is still there;
\* otherwise the old tree is replaced by an empty one before git clone is
\* awaited.  Another run's cleanup may remove the new one meanwhile; git then
\* fails, or was done with it already.
Reuses(t) == run[t].resumed /\ t \in clones

ReuseClone(t) ==
    /\ At(t, "opening")
    /\ Reuses(t)
    /\ Goto(t, "setup")
    /\ branched' = branched \cup {t}
    /\ UNCHANGED <<up, saver, status, ckpt, clones, newer, shipped, run, cand,
                   capped, req, faults>>

BeginClone(t) ==
    /\ At(t, "opening")
    /\ ~Reuses(t)
    /\ Goto(t, "cloning")
    /\ clones' = clones \cup {t}
    /\ newer' = [u \in Task |-> IF u = t THEN {} ELSE newer[u] \cup {t}]
    /\ ckpt' = [ckpt EXCEPT ![t] = Stale(ckpt[t])]
    /\ UNCHANGED <<up, saver, status, branched, shipped, run, cand, capped, req,
                   faults>>

FinishClone(t) ==
    /\ At(t, "cloning")
    /\ Goto(t, "setup")
    /\ branched' = branched \cup {t}
    /\ UNCHANGED <<up, saver, status, ckpt, clones, newer, shipped, run, cand,
                   capped, req, faults>>

\* Sandbox, setup command and build_agent are behind us: the stream starts.
BeginStream(t) ==
    /\ At(t, "setup")
    /\ Goto(t, "streaming")
    /\ UNCHANGED <<up, saver, status, branched, ckpt, clones, newer, shipped,
                   run, cand, capped, req, faults>>

\* The saver records the thread after an agent step.  A thread that began
\* against another clone stays stale whatever is appended to it.
NextCkpt(t) ==
    IF ckpt[t] = "stale" \/ t \notin clones THEN "stale" ELSE "current"

AgentCheckpoints(t) ==
    /\ At(t, "streaming")
    /\ saver # "none"
    /\ ckpt' = [ckpt EXCEPT ![t] = NextCkpt(t)]
    /\ UNCHANGED <<up, saver, status, branched, clones, newer, shipped, pc,
                   run, cand, capped, req, faults>>

AgentReturns(t) ==
    /\ At(t, "streaming")
    /\ Goto(t, "wrapping")
    /\ UNCHANGED <<up, saver, status, branched, ckpt, clones, newer, shipped,
                   run, cand, capped, req, faults>>

\* The open_pull_request tool during the stream, or _finalize after it; both
\* hold back what an operator is to approve.
PushesAny(t) == TRUE
Pushes(t) == t \notin ApprovalTasks

Push(t) ==
    /\ pc[t] \in {"streaming", "wrapping"}
    /\ Pushes(t)
    /\ t \in clones
    /\ t \notin shipped
    /\ shipped' = shipped \cup {t}
    /\ UNCHANGED <<up, saver, status, branched, ckpt, clones, newer, pc, run,
                   cand, capped, req, faults>>

\* _request_approval found commits: the row is held for an operator.
Hold(t) ==
    /\ At(t, "wrapping")
    /\ t \in ApprovalTasks
    /\ t \in clones
    /\ Goto(t, "held")
    /\ status' = [status EXCEPT ![t] = "awaiting_approval"]
    /\ UNCHANGED <<up, saver, branched, ckpt, clones, newer, shipped, run,
                   cand, capped, req, faults>>

Complete(t) ==
    /\ At(t, "wrapping")
    /\ Goto(t, "done")
    /\ status' = [status EXCEPT ![t] = "completed"]
    /\ UNCHANGED <<up, saver, branched, ckpt, clones, newer, shipped, run,
                   cand, capped, req, faults>>

-----------------------------------------------------------------------------
(* The except handlers.  Each persists the usage first, then writes the row. *)

\* BudgetExceeded, TimeoutError and every other exception, up to the write of
\* the outcome.
RaiseError(t) ==
    /\ pc[t] \in {"resolving", "opening", "cloning", "setup", "streaming",
                 "wrapping"}
    /\ Goto(t, "failing")
    /\ UNCHANGED <<up, saver, status, branched, ckpt, clones, newer, shipped,
                   run, cand, capped, req, faults>>

WriteFailed(t) ==
    /\ At(t, "failing")
    /\ Goto(t, "failed")
    /\ status' = [status EXCEPT ![t] = "failed"]
    /\ UNCHANGED <<up, saver, branched, ckpt, clones, newer, shipped, run,
                   cand, capped, req, faults>>

RaiseDailyBudget(t) ==
    /\ At(t, "streaming")
    /\ capped
    /\ Goto(t, "parking")
    /\ UNCHANGED <<up, saver, status, branched, ckpt, clones, newer, shipped,
                   run, cand, capped, req, faults>>

\* keep_checkpoint as the two parking handlers compute it.
KeepsNothing(t) == FALSE
KeepsCheckpoint(t) == saver # "none" /\ ~IsRevision(t)

WriteParked(t) ==
    /\ At(t, "parking")
    /\ Goto(t, "parked")
    /\ status' = [status EXCEPT ![t] = "queued"]
    /\ run' = [run EXCEPT ![t].keep = KeepsCheckpoint(t), ![t].end = "parked"]
    /\ UNCHANGED <<up, saver, branched, ckpt, clones, newer, shipped, cand,
                   capped, req, faults>>

\* The CancelledError handler tells a shutdown from an operator's cancel.
ParksOnShutdown(t) == up = "stopping" /\ KeepsCheckpoint(t)

WriteInterrupted(t) ==
    /\ At(t, "cancelling")
    /\ Goto(t, "interrupted")
    /\ status' = [status EXCEPT ![t] = IF ParksOnShutdown(t) THEN "queued"
                                                             ELSE "cancelled"]
    /\ run' = [run EXCEPT ![t].keep = ParksOnShutdown(t), ![t].end = "raised"]
    /\ UNCHANGED <<up, saver, branched, ckpt, clones, newer, shipped, cand,
                   capped, req, faults>>

-----------------------------------------------------------------------------
(* The finally block, the notifiers and the end of the coroutine.            *)

CkptOnExit(t) == IF run[t].keep THEN ckpt[t] ELSE "none"

Cleanup(t) ==
    /\ pc[t] \in {"held", "done", "failed", "parked", "interrupted"}
    /\ Goto(t, "cleanup")
    /\ ckpt' = [ckpt EXCEPT ![t] = CkptOnExit(t)]
    /\ UNCHANGED <<up, saver, status, branched, clones, newer, shipped, run,
                   cand, capped, req, faults>>

\* _protected_workspaces: first the held rows, then the queued ones that ran.
ReadHeld(t) ==
    /\ At(t, "cleanup")
    /\ Goto(t, "reading")
    /\ run' = [run EXCEPT ![t].seen = WithStatus("awaiting_approval")]
    /\ UNCHANGED <<up, saver, status, branched, ckpt, clones, newer, shipped,
                   cand, capped, req, faults>>

ParkedRows == WithStatus("queued") \cap branched

ReadParked(t) ==
    /\ At(t, "reading")
    /\ Goto(t, "pruning")
    /\ run' = [run EXCEPT ![t].seen = @ \cup ParkedRows]
    /\ UNCHANGED <<up, saver, status, branched, ckpt, clones, newer, shipped,
                   cand, capped, req, faults>>

\* prune_workspaces: all but the Retention newest clones, save the protected.
Surplus == {u \in clones : Cardinality(newer[u] \cap clones) >= Retention}
PrunableAny(protect) == Surplus
Prunable(protect) == Surplus \ protect

\* What _run does when run() is over: the notifiers, unless run() parked the
\* row or raised.
AfterRun(t) == IF run[t].end = "return" THEN "notifying" ELSE "idle"

Prune(t) ==
    /\ At(t, "pruning")
    /\ LET gone == Prunable(run[t].seen)
       IN  /\ clones' = clones \ gone
           /\ ckpt' = [u \in Task |-> IF u \in gone THEN Stale(ckpt[u])
                                                    ELSE ckpt[u]]
    /\ Goto(t, AfterRun(t))
    /\ run' = [run EXCEPT ![t] = FreshRun]
    /\ UNCHANGED <<up, saver, status, branched, newer, shipped, cand, capped,
                   req, faults>>

Notified(t) ==
    /\ At(t, "notifying")
    /\ Goto(t, "idle")
    /\ UNCHANGED <<up, saver, status, branched, ckpt, clones, newer, shipped,
                   run, cand, capped, req, faults>>

-----------------------------------------------------------------------------
(* Database errors.  sqlite refuses a write or an event (the disk is full,   *)
(* the file is locked).  Inside the try block before the outcome is written  *)
(* that is RaiseError; _persist_usage and the finally block swallow theirs.  *)

DatabaseFault ==
    /\ "dberror" \in Environment /\ faults < MaxFaults
    /\ faults' = faults + 1

\* Before the try block: nothing handles it, and the row stays as it is.
PreambleFails(t) ==
    /\ pc[t] \in {"launched", "starting"}
    /\ DatabaseFault
    /\ Goto(t, "idle")
    /\ UNCHANGED <<up, saver, status, branched, ckpt, clones, newer, shipped,
                   run, cand, capped, req>>

\* The event or the memory entry after the outcome: the last handler takes a
\* row that is held or completed for one that failed.
OutcomeEventFails(t) ==
    /\ pc[t] \in {"held", "done"}
    /\ DatabaseFault
    /\ Goto(t, "failing")
    /\ UNCHANGED <<up, saver, status, branched, ckpt, clones, newer, shipped,
                   run, cand, capped, req>>

\* A handler sets keep_checkpoint before it writes the row.
KeepsOnError(t) ==
    CASE pc[t] = "parking"    -> KeepsCheckpoint(t)
      [] pc[t] = "cancelling" -> ParksOnShutdown(t)
      [] OTHER                -> run[t].keep

\* A handler's own write or event: straight to the finally block.
HandlerFails(t) ==
    /\ pc[t] \in Handlers
    /\ DatabaseFault
    /\ Goto(t, "cleanup")
    /\ run' = [run EXCEPT ![t].keep = KeepsOnError(t), ![t].end = "raised"]
    /\ ckpt' = [ckpt EXCEPT ![t] = IF KeepsOnError(t) THEN @ ELSE "none"]
    /\ UNCHANGED <<up, saver, status, branched, clones, newer, shipped, cand,
                   capped, req>>

\* One of the two reads of _protected_workspaces: the sweep is skipped.
SweepFails(t) ==
    /\ pc[t] \in {"cleanup", "reading"}
    /\ DatabaseFault
    /\ Goto(t, AfterRun(t))
    /\ run' = [run EXCEPT ![t] = FreshRun]
    /\ UNCHANGED <<up, saver, status, branched, ckpt, clones, newer, shipped,
                   cand, capped, req>>

DatabaseError(t) ==
    \/ PreambleFails(t) \/ OutcomeEventFails(t) \/ HandlerFails(t)
    \/ SweepFails(t)

-----------------------------------------------------------------------------
(* CancelledError.  In the preamble it ends the coroutine; in the try block  *)
(* it starts the handler; in a handler it goes straight to the finally block *)
(* and skips the write the handler had still to make; after that it ends the *)
(* coroutine.                                                                *)

AfterCancel(p) ==
    CASE p \in Body     -> "cancelling"
      [] p \in Handlers -> "cleanup"
      [] OTHER          -> "idle"
LocalsAfterCancel(t) ==
    CASE pc[t] \in Body     -> run[t]
      [] pc[t] \in Handlers -> [run[t] EXCEPT !.end = "raised"]
      [] OTHER              -> FreshRun

Cancel(S) ==
    /\ pc' = [t \in Task |-> IF t \in S THEN AfterCancel(pc[t]) ELSE pc[t]]
    /\ run' = [t \in Task |-> IF t \in S THEN LocalsAfterCancel(t) ELSE run[t]]
    /\ ckpt' = [t \in Task |-> IF t \in S /\ pc[t] \in Handlers
                               THEN CkptOnExit(t) ELSE ckpt[t]]

-----------------------------------------------------------------------------
(* Operator requests.  Each reads the row, decides on what it read, and acts *)
(* in a later step.  A read the endpoint answers with 409 changes nothing    *)
(* and is left out.                                                          *)

ActionableLax(op, s) == s \in Status \ Terminal
Actionable(op, s) ==
    CASE op = "cancel"                -> s \in {"queued", "awaiting_approval",
                                                "running"}
      [] op \in {"approve", "reject"} -> s = "awaiting_approval"
      [] OTHER                        -> FALSE

Ask(r, op, t) ==
    /\ up = "up"
    /\ op \in Environment
    /\ req[r] = NoReq
    /\ Actionable(op, status[t])
    /\ req' = [req EXCEPT ![r] = [op |-> op, task |-> t, saw |-> status[t]]]
    /\ UNCHANGED <<up, saver, status, branched, ckpt, clones, newer, shipped,
                   pc, run, cand, capped, faults>>

Answer(r) == req' = [req EXCEPT ![r] = NoReq]
SetStatus(t, s) == status' = [status EXCEPT ![t] = s]

CancelRow(r) ==
    /\ req[r].op = "cancel"
    /\ req[r].saw \in {"queued", "awaiting_approval"}
    /\ SetStatus(req[r].task, "cancelled")
    /\ Answer(r)
    /\ UNCHANGED <<up, saver, branched, ckpt, clones, newer, shipped, pc, run,
                   cand, capped, faults>>

\* Worker.cancel_task.  A coroutine is "launched" for one turn of the loop,
\* and the row the request read was written by an earlier one.
CancelRun(r) ==
    /\ req[r].op = "cancel"
    /\ req[r].saw = "running"
    /\ pc[req[r].task] # "launched"
    /\ Cancel({req[r].task})
    /\ Answer(r)
    /\ UNCHANGED <<up, saver, status, branched, clones, newer, shipped, cand,
                   capped, faults>>

Reject(r) ==
    /\ req[r].op = "reject"
    /\ SetStatus(req[r].task, "cancelled")
    /\ Answer(r)
    /\ UNCHANGED <<up, saver, branched, ckpt, clones, newer, shipped, pc, run,
                   cand, capped, faults>>

\* _ship_approved pushes the held branch; the row is written when it is done.
Ship(r) ==
    /\ req[r].op = "approve"
    /\ req[r].task \in clones
    /\ shipped' = shipped \cup {req[r].task}
    /\ req' = [req EXCEPT ![r].op = "ship"]
    /\ UNCHANGED <<up, saver, status, branched, ckpt, clones, newer, pc, run,
                   cand, capped, faults>>

\* The clone is gone, the repository is not registered, the push fails, or the
\* branch is pushed and the pull request times out: the row stays held.
ShipFails(r) ==
    /\ req[r].op \in {"approve", "ship"}
    /\ Answer(r)
    /\ UNCHANGED <<up, saver, status, branched, ckpt, clones, newer, shipped,
                   pc, run, cand, capped, faults>>

Approve(r) ==
    /\ req[r].op = "ship"
    /\ SetStatus(req[r].task, "completed")
    /\ Answer(r)
    /\ UNCHANGED <<up, saver, branched, ckpt, clones, newer, shipped, pc, run,
                   cand, capped, faults>>

-----------------------------------------------------------------------------
(* The daily cap, as the dispatcher and the runner see it.                   *)

ReachCap ==
    /\ "cap" \in Environment
    /\ up = "up" /\ ~capped /\ faults < MaxFaults
    /\ capped' = TRUE
    /\ faults' = faults + 1
    /\ UNCHANGED <<up, saver, status, branched, ckpt, clones, newer, shipped,
                   pc, run, cand, req>>

Midnight ==
    /\ capped
    /\ capped' = FALSE
    /\ UNCHANGED <<up, saver, status, branched, ckpt, clones, newer, shipped,
                   pc, run, cand, req, faults>>

-----------------------------------------------------------------------------
(* Shutdown, crash and boot.                                                 *)

\* Worker.stop: uvicorn has let the requests in flight finish first.
Stop ==
    /\ "shutdown" \in Environment
    /\ up = "up"
    /\ \A r \in Requests : req[r] = NoReq
    /\ up' = "stopping"
    /\ Cancel(Task)
    /\ cand' = NoTask
    /\ UNCHANGED <<saver, status, branched, clones, newer, shipped, capped,
                   req, faults>>

CkptOnExitOfProcess == IF saver = "durable" THEN ckpt
                                            ELSE [t \in Task |-> "none"]

Exit ==
    /\ up = "stopping"
    /\ Running = {}
    /\ up' = "down"
    /\ ckpt' = CkptOnExitOfProcess
    /\ UNCHANGED <<saver, status, branched, clones, newer, shipped, pc, run,
                   cand, capped, req, faults>>

Crash ==
    /\ "crash" \in Environment
    /\ up # "down" /\ faults < MaxFaults
    /\ up' = "down"
    /\ faults' = faults + 1
    /\ ckpt' = CkptOnExitOfProcess
    /\ pc' = [t \in Task |-> "idle"]
    /\ run' = [t \in Task |-> FreshRun]
    /\ cand' = NoTask
    /\ req' = [r \in Requests |-> NoReq]
    /\ UNCHANGED <<saver, status, branched, clones, newer, shipped, capped>>

\* Database.connect(resume_interrupted = the checkpointer is durable).
RowAfterBootKept(s) == s
RowAfterBootInterrupted(s) == IF s = "running" THEN "interrupted" ELSE s
RowAfterBoot(s) ==
    IF s # "running" THEN s
    ELSE IF saver = "durable" THEN "queued" ELSE "failed"

Boot ==
    /\ up = "down"
    /\ up' = "up"
    /\ status' = [t \in Task |-> RowAfterBoot(status[t])]
    /\ UNCHANGED <<saver, branched, ckpt, clones, newer, shipped, pc, run,
                   cand, capped, req, faults>>

-----------------------------------------------------------------------------

Coroutine(t) ==
    \/ Start(t) \/ EnterTry(t) \/ Resolve(t) \/ ReuseClone(t) \/ BeginClone(t)
    \/ FinishClone(t) \/ BeginStream(t) \/ AgentReturns(t) \/ Hold(t)
    \/ Complete(t) \/ WriteFailed(t) \/ WriteParked(t) \/ WriteInterrupted(t)
    \/ Cleanup(t) \/ ReadHeld(t) \/ ReadParked(t) \/ Prune(t) \/ Notified(t)

AgentStep(t) == AgentCheckpoints(t) \/ Push(t)
Interruption(t) == RaiseError(t) \/ RaiseDailyBudget(t) \/ DatabaseError(t)
Dispatch == DispatchLaunch \/ DispatchRefuse \/ \E t \in Task : DispatchPick(t)

Operator ==
    \E r \in Requests :
        \/ \E op \in {"cancel", "approve", "reject"}, t \in Task : Ask(r, op, t)
        \/ CancelRow(r) \/ CancelRun(r) \/ Reject(r)
        \/ Ship(r) \/ ShipFails(r) \/ Approve(r)

Process == ReachCap \/ Midnight \/ Stop \/ Exit \/ Crash \/ Boot

Next ==
    \/ \E t \in Task : CreateTask(t)
    \/ \E t \in Task : Coroutine(t) \/ AgentStep(t) \/ Interruption(t)
    \/ Dispatch
    \/ Operator
    \/ Process

Spec == Init /\ [][Next]_vars

(* The loop keeps running every coroutine that can move: task_timeout_seconds *)
(* ends a stream, git, docker and HTTP calls have timeouts of their own, the  *)
(* dispatcher polls every second, midnight comes, and the host restarts.      *)
Fairness ==
    /\ \A t \in Task : WF_vars(Coroutine(t))
    /\ WF_vars(Dispatch)
    /\ WF_vars(Midnight)
    /\ WF_vars(Boot)
    /\ WF_vars(Exit)
    /\ \A r \in Requests : WF_vars(CancelRow(r) \/ CancelRun(r))

FairSpec == Spec /\ Fairness

-----------------------------------------------------------------------------
(* Safety *)

(* No more than max_concurrent_tasks coroutines exist, though the dispatcher *)
(* counts them before it awaits the row and the budget (worker.py            *)
(* _dispatch_loop).                                                          *)
ConcurrencyCap == Cardinality(Running) <= MaxConcurrent

(* A launch never finds an earlier run of the same task still alive, in its  *)
(* finally block or its notifiers: two runs of one task would share a        *)
(* checkpoint thread, a mailbox and a clone (worker.py _launch).             *)
LaunchFindsIdle ==
    [][\A t \in Task : pc[t] # "launched" /\ pc'[t] = "launched"
                            => pc[t] = "idle"]_vars

(* A run that does not resume hands the agent an empty thread: no checkpoint *)
(* of an earlier run is there for it to append to (runner.py run, "so a      *)
(* fresh run doesn't append to dead state").                                 *)
FreshStartsClean ==
    \A t \in Task \ Revisions :
        pc[t] \in {"cloning", "setup"} /\ ~run[t].resumed => ckpt[t] = "none"

(* While a row waits in the queue nothing deletes the checkpoint it is to    *)
(* resume from: not the run that parked it, not another run's cleanup, not a *)
(* shutdown in the middle of either (runner.py keep_checkpoint).             *)
QueuedKeepsCheckpoint ==
    [][\A t \in Task \ Revisions :
           saver = "durable" /\ status[t] = "queued" /\ ckpt[t] # "none"
               => ckpt'[t] # "none"]_vars

(* The clone of a running agent stays on disk.                               *)
RunningKeepsClone == \A t \in Task : pc[t] = "streaming" => t \in clones

(* Work held for approval exists only in its clone.  Once the clone is safe  *)
(* - on disk, and known to every sweep that has read the held rows - it stays *)
(* so until an operator decides, whatever other runs end and sweep, crash or *)
(* resume meanwhile (runner.py _protected_workspaces).  A sweep that read    *)
(* the rows before this one was held does not know it: two runs that end     *)
(* together can lose the work.                                               *)
HeldSafely(t) ==
    /\ status[t] = "awaiting_approval"
    /\ t \in clones
    /\ \A u \in Task : pc[u] \in {"reading", "pruning"} => t \in run[u].seen
HeldWorkSurvives ==
    [][\A t \in Task : HeldSafely(t) /\ status'[t] = "awaiting_approval"
                           => HeldSafely(t)']_vars

(* What needs approval never leaves the host while its task is queued or     *)
(* runs: not by the agent's pull-request tool, not by the final push of a    *)
(* run or of one that resumed, and not by an approval that was read before a *)
(* cancel, a reject, a late error or a second approval overtook it           *)
(* (agent_factory.py make_pr_tool, runner.py run, server.py approve_task).   *)
ShipsOnlyHeldWork ==
    [][\A t \in ApprovalTasks : t \in shipped' \ shipped
           => status[t] \in {"awaiting_approval"} \cup Terminal]_vars

(* While the server is up a running row has a coroutine that will write it   *)
(* again: crashes and restarts leave no orphan (db.py connect).  Stated for  *)
(* runs nobody cancels and a database that takes its writes.                 *)
RunningRowHasRunner ==
    up = "up" => \A t \in Task : status[t] = "running" =>
        pc[t] \in {"starting", "parking", "failing"} \cup Body

(* An operator's cancel is final.                                            *)
CancelledStaysCancelled ==
    [][\A t \in Task : status[t] = "cancelled" => status'[t] = "cancelled"]_vars

(* A completed row is final.                                                 *)
CompletedStaysCompleted ==
    [][\A t \in Task : status[t] = "completed" => status'[t] = "completed"]_vars

(* With one operator request at a time, nobody cancelling, no graceful       *)
(* shutdown and no database error the rows follow the contract of            *)
(* TaskContract.                                                             *)
Contract == INSTANCE TaskContract
ImplementsContract == Contract!Spec

-----------------------------------------------------------------------------
(* Liveness *)

(* A queued task leaves the queue for good: whatever is parked, crashes and  *)
(* is resumed on the way, it ends or is held for an operator.                *)
EveryTaskSettles ==
    \A t \in Task : status[t] = "queued" ~>
        status[t] \in Terminal \cup {"awaiting_approval"}
=============================================================================
